------------------------------ MODULE Certifier ------------------------------
(***************************************************************************)
(* dns::crypt::certifier: it asks one DNScrypt resolver for its            *)
(* certificate, asks again by a timer, and installs what it gets in the    *)
(* dns::crypt::resolver that the queries of clients are encrypted with.    *)
(*                                                                         *)
(* The timer, the request for the certificate and the queries are watchers *)
(* of one libev loop.  A query is encrypted when its socket is writable and*)
(* decrypted when the answer comes, both with the key the resolver has at  *)
(* that moment; the certifier may install another one in between.          *)
(***************************************************************************)
EXTENDS Integers, FiniteSets

CONSTANTS
  Queries,          \* queries of clients that may be in flight
  AttemptLimit,     \* 4 in the code: asking stops when attempts_ exceeds it
  MinDelay,         \* retry::min_delay, 17 seconds
  MaxDelay,         \* retry::max_delay, 300 seconds
  Steps,            \* retry::steps, 100
  SuccessDelay,     \* retry::delay_after_success_min_delay, one hour
  MaxKey            \* bound on the certificates the resolver's server issues

ASSUME CertifierAssumption ==
  /\ AttemptLimit \in Nat
  /\ MinDelay \in Nat \ {0} /\ MaxDelay \in Nat /\ MinDelay <= MaxDelay
  /\ SuccessDelay \in Nat /\ SuccessDelay > MaxDelay
  /\ Steps \in Nat \ {0}
  /\ MaxKey \in Nat

VARIABLES
  loop,             \* "starting", "running" or "ended"
  delay,            \* repeat time of timer_, 0 when it is stopped
  due,              \* timer_ is pending: expired, its callback not yet run
  step,             \* query_retry_step_
  attempts,         \* attempts_
  request,          \* upstream_: "none" also when it is there but not active
  ready,            \* ready_ of the resolver
  key,              \* the key its encryptor has, 0 for none
  issued,           \* newest certificate of the server
  phase,            \* of each query: "idle", "chosen" or "sent"
  sealed            \* the key each query was encrypted with

certVars  == <<delay, due, step, attempts, request, ready, key>>
queryVars == <<phase, sealed>>
vars      == <<loop, certVars, issued, queryVars>>

-----------------------------------------------------------------------------
TypeOK ==
  /\ loop \in {"starting", "running", "ended"}
  /\ delay \in {0, SuccessDelay} \cup MinDelay..MaxDelay
  /\ due \in BOOLEAN
  /\ step \in 0..Steps
  /\ attempts \in 0..(AttemptLimit + 1)
  /\ request \in {"none", "sending", "receiving"}
  /\ ready \in BOOLEAN
  /\ key \in 0..MaxKey
  /\ issued \in 0..MaxKey
  /\ phase \in [Queries -> {"idle", "chosen", "sent"}]
  /\ sealed \in [Queries -> 0..MaxKey]

\* The constructor starts the timer.  cdaemon::execute then asks for the first
\* certificate at once; a certifier that a reload adds waits for its timer.
Init ==
  /\ loop \in {"starting", "running"}
  /\ delay = MinDelay
  /\ due = FALSE
  /\ step = 0
  /\ attempts = 0
  /\ request = "none"
  /\ ready = FALSE
  /\ key = 0
  /\ issued = 0
  /\ phase = [q \in Queries |-> "idle"]
  /\ sealed = [q \in Queries |-> 0]

-----------------------------------------------------------------------------
\* reschedule_query_after_failure.  A pending timer is left alone; a stopped one
\* is set but not started.
AfterFailure(pending) ==
  IF pending
    THEN UNCHANGED <<delay, step>>
    ELSE /\ delay' = IF delay = 0
                       THEN 0
                       ELSE MinDelay + (step * (MaxDelay - MinDelay)) \div Steps
         /\ step' = IF step < Steps THEN step + 1 ELSE step

\* reset_query_retry_step and reschedule_query_after_success.
AfterSuccess(pending) ==
  /\ delay' = IF pending \/ delay = 0 THEN delay ELSE SuccessDelay
  /\ step' = 0

\* certifier::update, with the timer's pending flag cleared.
StillAsking ==
  /\ request # "none"
  /\ UNCHANGED <<delay, step, attempts, request, ready, key>>

\* Mutant of GiveUp: asking stops one request early.
GiveUpEarly ==
  /\ request = "none"
  /\ attempts >= AttemptLimit
  /\ delay' = 0
  /\ UNCHANGED <<step, attempts, request, ready, key>>

\* Mutant of GiveUp: a request in flight is neither waited for nor destroyed.
GiveUpLeavesRequest ==
  /\ attempts > AttemptLimit
  /\ delay' = 0
  /\ UNCHANGED <<step, attempts, request, ready, key>>

GiveUp ==
  /\ request = "none"
  /\ attempts > AttemptLimit
  /\ delay' = 0
  /\ UNCHANGED <<step, attempts, request, ready, key>>

\* Mutant of Ask: requests are not counted.
AskUncounted ==
  /\ request = "none"
  /\ attempts <= AttemptLimit
  /\ request' = "sending"
  /\ UNCHANGED <<delay, step, attempts, ready, key>>

Ask ==
  /\ request = "none"
  /\ attempts <= AttemptLimit
  /\ request' = "sending"
  /\ attempts' = attempts + 1
  /\ UNCHANGED <<delay, step, ready, key>>

\* The query's or the request's constructor throws a runtime_error, before the
\* request is counted.
AskFails ==
  /\ request = "none"
  /\ attempts <= AttemptLimit
  /\ AfterFailure(FALSE)
  /\ UNCHANGED <<attempts, request, ready, key>>

Update == due' = FALSE /\ (StillAsking \/ GiveUp \/ Ask \/ AskFails)

\* It throws another exception: update does too, and nothing is rescheduled.
AskThrows ==
  /\ request = "none"
  /\ attempts <= AttemptLimit
  /\ due' = FALSE
  /\ UNCHANGED <<delay, step, attempts, request, ready, key>>

-----------------------------------------------------------------------------
\* cresponder::update_certificates, before the loop runs; it does not catch what
\* update throws.
Begin ==
  /\ loop = "starting"
  /\ \/ Update /\ loop' = "running"
     \/ AskThrows /\ loop' = "ended"
  /\ UNCHANGED <<issued, queryVars>>

\* The timer expires; libev runs the callbacks of other events that are ready in
\* the same iteration before or after its own.
TimerDue ==
  /\ loop = "running"
  /\ delay # 0 /\ ~due
  /\ due' = TRUE
  /\ UNCHANGED <<loop, delay, step, attempts, request, ready, key, issued, queryVars>>

\* retry_timer_callback logs what update throws.
TimerCallback ==
  /\ loop = "running"
  /\ due
  /\ Update \/ AskThrows
  /\ UNCHANGED <<loop, issued, queryVars>>

RequestSent ==
  /\ loop = "running"
  /\ request = "sending"
  /\ request' = "receiving"
  /\ UNCHANGED <<loop, delay, due, step, attempts, ready, key, issued, queryVars>>

\* process_response without a certificate that can be used: none in the answer,
\* none valid, or the SERVFAIL that a failure to send made of the question.
NoCertificate ==
  /\ request' = "none"
  /\ ready' = FALSE
  /\ AfterFailure(due)
  /\ UNCHANGED <<due, attempts, key>>

\* The connection or send() fails: pass_failure_downstream.  process_response
\* destroys the request it was called by, and on_send then reads that object
\* once more: undefined, the process may end here.
RequestSendFails ==
  /\ loop = "running"
  /\ request = "sending"
  /\ NoCertificate
  /\ loop' \in {"running", "ended"}
  /\ UNCHANGED <<issued, queryVars>>

\* recv() fails or the request times out: it is closed and nothing else is done.
RequestLost ==
  /\ loop = "running"
  /\ request # "none"
  /\ request' = "none"
  /\ UNCHANGED <<loop, delay, due, step, attempts, ready, key, issued, queryVars>>

AnswerUseless ==
  /\ loop = "running"
  /\ request = "receiving"
  /\ NoCertificate
  /\ UNCHANGED <<loop, issued, queryVars>>

\* Mutant of AnswerUseful: the old key is kept.
AnswerUsefulKeepsKey ==
  /\ loop = "running"
  /\ request = "receiving"
  /\ \E k \in 1..issued :
       /\ request' = "none"
       /\ ready' = TRUE
       /\ AfterSuccess(due)
       /\ UNCHANGED <<loop, due, attempts, key, issued, queryVars>>

\* resolver::find_valid_certificate installs one of the certificates the server
\* has issued; the newest if the answer is not older than it.
AnswerUseful ==
  /\ loop = "running"
  /\ request = "receiving"
  /\ \E k \in 1..issued :
       /\ key' = k
       /\ request' = "none"
       /\ ready' = TRUE
       /\ AfterSuccess(due)
       /\ UNCHANGED <<loop, due, attempts, issued, queryVars>>

\* The server issues a new certificate (external).
Rotate ==
  /\ issued < MaxKey
  /\ issued' = issued + 1
  /\ UNCHANGED <<loop, certVars, queryVars>>

-----------------------------------------------------------------------------
\* random_provider takes the resolver for a query if it is ready.
Choose(q) ==
  /\ loop = "running"
  /\ phase[q] = "idle"
  /\ ready
  /\ phase' = [phase EXCEPT ![q] = "chosen"]
  /\ UNCHANGED <<loop, certVars, issued, sealed>>

\* upstream::on_send: fold() encrypts with the key of now, ready or not.
Fold(q) ==
  /\ loop = "running"
  /\ phase[q] = "chosen"
  /\ phase' = [phase EXCEPT ![q] = "sent"]
  /\ sealed' = [sealed EXCEPT ![q] = key]
  /\ UNCHANGED <<loop, certVars, issued>>

\* upstream::on_receive: unfold() decrypts with the key of now.  With any other
\* key than the query's it throws crypt_failure, which ends the loop.
Unfold(q) ==
  /\ loop = "running"
  /\ phase[q] = "sent"
  /\ loop' = IF key = sealed[q] THEN "running" ELSE "ended"
  /\ phase' = [phase EXCEPT ![q] = "idle"]
  /\ UNCHANGED <<certVars, issued, sealed>>

\* The query fails or times out.
Drop(q) ==
  /\ loop = "running"
  /\ phase[q] # "idle"
  /\ phase' = [phase EXCEPT ![q] = "idle"]
  /\ UNCHANGED <<loop, certVars, issued, sealed>>

\* A signal, or an exception that is not a net_error: an answer that cannot be
\* parsed, a query that fold cannot encrypt because the certificate's key is weak.
LoopEnds ==
  /\ loop = "running"
  /\ loop' = "ended"
  /\ UNCHANGED <<certVars, issued, queryVars>>

Next ==
  \/ Begin \/ TimerDue \/ TimerCallback
  \/ RequestSent \/ RequestSendFails \/ RequestLost \/ AnswerUseless \/ AnswerUseful
  \/ Rotate \/ LoopEnds
  \/ \E q \in Queries : Choose(q) \/ Fold(q) \/ Unfold(q) \/ Drop(q)

Spec == Init /\ [][Next]_vars

\* libev's timers: the certifier's own, and the one of the request, which closes
\* it in the end if nothing else does.
LiveSpec ==
  /\ Spec
  /\ WF_vars(Begin)
  /\ WF_vars(TimerDue) /\ WF_vars(TimerCallback)
  /\ WF_vars(RequestLost)

-----------------------------------------------------------------------------
\* No query is folded without a key ("unsupported cipher"), also when the
\* resolver has stopped to be ready after the query was given to it.
ChosenHasKey == \A q \in Queries : phase[q] = "chosen" => key # 0

\* The certifier never stalls: as long as it may ask again its timer runs, and
\* the timer is stopped only with all requests used up and none in flight.
TimerRunsUntilGivenUp ==
  delay = 0 => attempts = AttemptLimit + 1 /\ request = "none" /\ ~due

\* Once given up the resolver keeps its certificate for good: no later event
\* asks for another one, however old it gets.
GivenUpForGood ==
  [][delay = 0 => delay' = 0 /\ attempts' = attempts /\ key' = key /\ ready' = ready]_vars

\* Decrypting fails only after a second request for a certificate: a first one
\* never disturbs queries in flight.
FirstCertificateIsSafe ==
  \A q \in Queries :
    phase[q] = "sent" /\ attempts <= 1 => sealed[q] = key

\* Asking ends: the requests are used up, or the timer's callback fails to start
\* one again and again, or the loop ends.
AskingEnds ==
  \/ <>[](delay = 0)
  \/ []<><<TimerCallback /\ (AskFails \/ AskThrows)>>_vars
  \/ <>(loop = "ended")

-----------------------------------------------------------------------------
(***************************************************************************)
(* The inductive invariant behind them.                                    *)
(***************************************************************************)

\* Without a key the resolver is not ready, and no query was ever given to it.
NoKeyIsUnused == key = 0 => ~ready /\ \A q \in Queries : phase[q] = "idle"

\* The first key comes with the answer to the first request that is counted.
FirstRequest ==
  /\ attempts = 0 => request = "none"
  /\ attempts = 0 \/ (attempts = 1 /\ request # "none") => key = 0

Inv ==
  /\ TypeOK
  /\ NoKeyIsUnused
  /\ FirstRequest
  /\ TimerRunsUntilGivenUp
  /\ FirstCertificateIsSafe

=============================================================================
