-------------------------------- MODULE Proxy --------------------------------
(***************************************************************************)
(* The life of a DNS request inside the proxy: network::abs_listener and   *)
(* network::incoming (a client's request), dns::responder (what is done    *)
(* with it) and network::upstream (the question sent to a resolver).       *)
(*                                                                         *)
(* The program is one libev loop: every action below is one callback, run  *)
(* to its end.  What interleaves are the callbacks of different requests:  *)
(* arrivals, readable and writable sockets, and two timers per request,    *)
(* one of the incoming and one of the upstream object.                     *)
(*                                                                         *)
(* Objects live as their shared_ptr owners say: an incoming request is     *)
(* owned by its listener's vector and by the upstream made for it, an      *)
(* upstream only by the responder's vector.  A destroyed object's watchers *)
(* are stopped by its destructor.                                          *)
(*                                                                         *)
(* Requests and upstreams are numbered in the order they are pushed into   *)
(* their vectors (see Compaction).                                         *)
(***************************************************************************)
EXTENDS Compaction

CONSTANTS
  MaxRequests,      \* bound on the number of requests clients send
  Names,            \* what is asked: (name, type)
  Providers,        \* resolvers that may be chosen for a question
  TcpProviders,     \* those reached by TCP
  CryptProviders    \* DNScrypt resolvers: fold() encrypts the question

ASSUME ProxyAssumption ==
  /\ MaxRequests \in Nat
  /\ TcpProviders \subseteq Providers
  /\ CryptProviders \subseteq Providers
  /\ Names # {} /\ Providers # {}

Requests  == 1..MaxRequests
Upstreams == 1..MaxRequests     \* a request starts at most one upstream
Protos    == {"udp", "tcp"}

\* Contents of an upstream's packet: made ready, still the client's question;
\* encrypted in place by fold(); size set to 0; replaced by the answer.
Questions == {"plain", "folded", "empty", "answer"}

\* How a request was answered: by the proxy itself (refused, from the cache or
\* from the hosts list), with a failure, or with a resolver's answer.
Replies == {"none", "local", "servfail", "answer"}

VARIABLES
  loop,        \* "running" until a signal or an exception ends the event loop
  count,       \* requests accepted by the two listeners
  proto,       \* protocol of each request
  name,        \* what each request asks for
  inq,         \* requests in their listener's requests_
  active,      \* requests whose timer is active (is_closed is its negation)
  reading,     \* TCP requests whose receive_event_ is started
  upCount,     \* upstreams created
  upReq,       \* inptr_ of each upstream
  provider,    \* provider_ptr_ of each upstream
  question,    \* question_ptr_ of each upstream
  upq,         \* upstreams in upstream_requests_
  timing,      \* upstreams whose timer is active (is_active)
  sending,     \* upstreams whose event_send_ is started
  receiving,   \* upstreams whose event_ is started
  sockets,     \* upstreams whose socket is open
  cache,       \* names with an entry in the cache
  sent,        \* history: number of responses sent for each request
  how,         \* history: kind of the last response sent
  delivered    \* history: upstreams whose question was sent to the resolver

inVars  == <<count, proto, name, inq>>
upObj   == <<upCount, upReq, provider>>
watched == <<timing, sending, receiving, sockets>>
upVars  == <<upObj, question, upq, watched, delivered>>
history == <<sent, how>>
vars    == <<loop, inVars, active, reading, upVars, cache, history>>

-----------------------------------------------------------------------------
TypeOK ==
  /\ loop \in {"running", "ended"}
  /\ count \in 0..MaxRequests
  /\ proto \in [Requests -> Protos]
  /\ name \in [Requests -> Names]
  /\ inq \subseteq Requests
  /\ active \subseteq Requests
  /\ reading \subseteq Requests
  /\ upCount \in 0..MaxRequests
  /\ upReq \in [Upstreams -> Requests]
  /\ provider \in [Upstreams -> Providers]
  /\ question \in [Upstreams -> Questions]
  /\ upq \subseteq Upstreams
  /\ timing \subseteq Upstreams
  /\ sending \subseteq Upstreams
  /\ receiving \subseteq Upstreams
  /\ sockets \subseteq Upstreams
  /\ cache \subseteq Names
  /\ sent \in [Requests -> Nat]
  /\ how \in [Requests -> Replies]
  /\ delivered \subseteq Upstreams

\* Before the first request.  The cache may have been loaded from dnscache.bin;
\* the entries of requests and upstreams not yet made have no meaning.
Init ==
  /\ loop = "running"
  /\ count = 0
  /\ proto = [r \in Requests |-> "udp"]
  /\ name = [r \in Requests |-> CHOOSE n \in Names : TRUE]
  /\ inq = {} /\ active = {} /\ reading = {}
  /\ upCount = 0
  /\ upReq = [u \in Upstreams |-> u]
  /\ provider = [u \in Upstreams |-> CHOOSE p \in Providers : TRUE]
  /\ question = [u \in Upstreams |-> "empty"]
  /\ upq = {} /\ timing = {} /\ sending = {} /\ receiving = {} /\ sockets = {}
  /\ cache \in SUBSET Names
  /\ sent = [r \in Requests |-> 0]
  /\ how = [r \in Requests |-> "none"]
  /\ delivered = {}

-----------------------------------------------------------------------------
(***************************************************************************)
(* Ownership and the two clean-up loops.                                   *)
(***************************************************************************)

\* Incoming requests that some owner keeps alive.
Alive == inq \cup {upReq[u] : u \in upq}

\* requests_ of one listener after the loop of on_message.
KeptIncoming(p) ==
  LET q == {r \in inq : proto[r] = p}
  IN  (inq \ q) \cup Survivors(q, q \ active)

\* upstream_requests_ after collect_garbage.
KeptUpstreams == Survivors(upq, upq \ timing)

\* Mutant of CloseUpstream: the read event is not stopped.
CloseUpstreamKeepsReading(u) ==
  /\ timing'    = timing \ {u}
  /\ sending'   = sending \ {u}
  /\ sockets'   = sockets \ {u}
  /\ UNCHANGED receiving

\* upstream::close() with the socket closed by the derived class: both watchers
\* and the timer are stopped.
CloseUpstream(u) ==
  /\ timing'    = timing \ {u}
  /\ sending'   = sending \ {u}
  /\ receiving' = receiving \ {u}
  /\ sockets'   = sockets \ {u}

\* close() of an incoming request, and the end of the requests that lost their
\* last owner; act are the active requests before the call.
CloseIncoming(r, act) ==
  /\ active'  = (act \ {r}) \cap Alive'
  /\ reading' = (reading \ {r}) \cap Alive'

\* in::respond: the message is sent, or the send fails with a net_error that is
\* only logged; the request is closed either way.
Respond(r, kind, act) ==
  /\ \/ /\ sent' = [sent EXCEPT ![r] = @ + 1]
        /\ how'  = [how EXCEPT ![r] = kind]
     \/ UNCHANGED history
  /\ CloseIncoming(r, act)

\* responder::store: cache::store keeps some answers and ignores the others.
Store(n) == cache' \in {cache, cache \cup {n}}

-----------------------------------------------------------------------------
(***************************************************************************)
(* responder::process, called by both listeners with a received message.   *)
(* act are the active requests at the call, with r among them.             *)
(***************************************************************************)

\* Not a DNS query: silently dropped.
DropBad(r, act) ==
  /\ UNCHANGED <<upVars, cache, history>>
  /\ CloseIncoming(r, act)

\* pre_filter returns 1 or 2: answered without a resolver.  What the filter and
\* hosts lists hold, and which cache entries are fresh, is left open.
AnswerDirectly(r, n, act) ==
  /\ UNCHANGED upVars
  /\ Respond(r, "local", act)
  /\ \/ UNCHANGED cache               \* refused, or found in the cache
     \/ Store(n)                      \* found in the hosts list

\* random_provider has nothing to offer.
NoProvider(r, act) ==
  /\ UNCHANGED <<upVars, cache>>
  /\ Respond(r, "servfail", act)

\* Mutants of StartUpstream: destroyed upstreams go on calling back; the read
\* event of a TCP request is not stopped.
StartUpstreamLeaksWatchers(r, act) ==
  \E p \in Providers :
    /\ upCount < MaxRequests
    /\ upCount'  = upCount + 1
    /\ upReq'    = [upReq EXCEPT ![upCount + 1] = r]
    /\ provider' = [provider EXCEPT ![upCount + 1] = p]
    /\ question' = [question EXCEPT ![upCount + 1] = "plain"]
    /\ upq'       = KeptUpstreams \cup {upCount + 1}
    /\ timing'    = timing \cup {upCount + 1}
    /\ sending'   = sending \cup {upCount + 1}
    /\ sockets'   = sockets \cup {upCount + 1}
    /\ active'  = act \cap Alive'
    /\ reading' = (reading \ {r}) \cap Alive'
    /\ UNCHANGED <<receiving, delivered, cache, history>>

\* collect_garbage, then a new upstream: timer and write event are started, and
\* a TCP connection is begun.
StartUpstream(r, act) ==
  \E p \in Providers :
    /\ upCount < MaxRequests
    /\ upCount'  = upCount + 1
    /\ upReq'    = [upReq EXCEPT ![upCount + 1] = r]
    /\ provider' = [provider EXCEPT ![upCount + 1] = p]
    /\ question' = [question EXCEPT ![upCount + 1] = "plain"]
    /\ upq'       = KeptUpstreams \cup {upCount + 1}
    /\ timing'    = (timing \cap KeptUpstreams) \cup {upCount + 1}
    /\ sending'   = (sending \cap KeptUpstreams) \cup {upCount + 1}
    /\ receiving' = receiving \cap KeptUpstreams
    /\ sockets'   = (sockets \cap KeptUpstreams) \cup {upCount + 1}
    /\ active'  = act \cap Alive'
    /\ reading' = (reading \ {r}) \cap Alive'
    /\ UNCHANGED <<delivered, cache, history>>

\* collect_garbage, then the constructor of the upstream fails (no socket, or
\* connect refused at once) and the exception is answered with SERVFAIL.
StartFails(r, act) ==
  /\ UNCHANGED <<upObj, question, delivered, cache>>
  /\ upq'       = KeptUpstreams
  /\ timing'    = timing \cap KeptUpstreams
  /\ sending'   = sending \cap KeptUpstreams
  /\ receiving' = receiving \cap KeptUpstreams
  /\ sockets'   = sockets \cap KeptUpstreams
  /\ Respond(r, "servfail", act)

Process(r, n, act) ==
  \/ DropBad(r, act)
  \/ AnswerDirectly(r, n, act)
  \/ NoProvider(r, act)
  \/ StartUpstream(r, act)
  \/ StartFails(r, act)

-----------------------------------------------------------------------------
(***************************************************************************)
(* Callbacks of the listeners and of an incoming request.                  *)
(***************************************************************************)

\* The next request's number, its protocol and its place in the vector.
Accept(p, n) ==
  /\ loop = "running"
  /\ count < MaxRequests
  /\ count' = count + 1
  /\ proto' = [proto EXCEPT ![count + 1] = p]
  /\ name'  = [name EXCEPT ![count + 1] = n]
  /\ inq'   = KeptIncoming(p) \cup {count + 1}
  /\ UNCHANGED loop

\* on_message of the UDP listener: clean up, receive, push and process.
UdpMessage(n) ==
  /\ Accept("udp", n)
  /\ Process(count + 1, n, active \cup {count + 1})

\* Mutant of TcpAccept: the connections the clean-up drops are still read.
TcpAcceptKeepsReading(n) ==
  /\ Accept("tcp", n)
  /\ UNCHANGED <<upVars, cache, history>>
  /\ active'  = (active \cup {count + 1}) \cap Alive'
  /\ reading' = reading \cup {count + 1}

\* on_message of the TCP listener: clean up, accept and push; the question is
\* read when it comes.
TcpAccept(n) ==
  /\ Accept("tcp", n)
  /\ UNCHANGED <<upVars, cache, history>>
  /\ active'  = (active \cup {count + 1}) \cap Alive'
  /\ reading' = (reading \cup {count + 1}) \cap Alive'

\* tcp::in::on_receive: the message is complete.
TcpReceive(r) ==
  /\ loop = "running"
  /\ r \in reading
  /\ UNCHANGED <<loop, inVars>>
  /\ Process(r, name[r], active)

\* tcp::in::on_receive: a net_error closes the request.
TcpReceiveFails(r) ==
  /\ loop = "running"
  /\ r \in reading
  /\ UNCHANGED <<loop, inVars, upVars, cache, history>>
  /\ CloseIncoming(r, active)

\* Mutant of IncomingTimeout: only connections that are being read time out.
IncomingTimeoutIfReading(r) ==
  /\ loop = "running"
  /\ r \in active \cap reading
  /\ UNCHANGED <<loop, inVars, upVars, cache, history>>
  /\ CloseIncoming(r, active)

\* timeout::callback of an incoming request.  A request handed upstream stays
\* in memory and may still be answered.
IncomingTimeout(r) ==
  /\ loop = "running"
  /\ r \in active
  /\ UNCHANGED <<loop, inVars, upVars, cache, history>>
  /\ CloseIncoming(r, active)

-----------------------------------------------------------------------------
(***************************************************************************)
(* Callbacks of an upstream.                                               *)
(***************************************************************************)

\* pass_failure_downstream with q in the packet: close, and answer SERVFAIL only
\* when the packet still is the client's question.  An encrypted or empty one
\* is not (is_dns); then nobody is told.
PassFailure(u, q) ==
  /\ UNCHANGED <<loop, inVars, upObj, upq, delivered, cache>>
  /\ CloseUpstream(u)
  /\ question' = [question EXCEPT ![u] = q]
  /\ IF q = "plain"
       THEN Respond(upReq[u], "servfail", active)
       ELSE UNCHANGED <<active, reading, history>>

\* The packet once fold() has run.
Folded(u) == IF provider[u] \in CryptProviders THEN "folded" ELSE "plain"

\* Mutant of UpstreamSend: the write event is not stopped.
UpstreamSendKeepsSending(u) ==
  /\ loop = "running"
  /\ u \in sending
  /\ question'  = [question EXCEPT ![u] = "empty"]
  /\ receiving' = receiving \cup {u}
  /\ delivered' = delivered \cup {u}
  /\ UNCHANGED <<loop, inVars, active, reading, upObj, upq, timing, sending,
                 sockets, cache, history>>

\* on_send: the question leaves, its packet is emptied, and the upstream turns
\* from writing to reading.  A TCP connection that is still in progress makes
\* on_send return and changes nothing.
UpstreamSend(u) ==
  /\ loop = "running"
  /\ u \in sending
  /\ question'  = [question EXCEPT ![u] = "empty"]
  /\ receiving' = receiving \cup {u}
  /\ sending'   = sending \ {u}
  /\ delivered' = delivered \cup {u}
  /\ UNCHANGED <<loop, inVars, active, reading, upObj, upq, timing, sockets,
                 cache, history>>

\* on_send: is_connected reports that the connection failed, before fold().
UpstreamConnectFails(u) ==
  /\ loop = "running"
  /\ u \in sending
  /\ provider[u] \in TcpProviders
  /\ PassFailure(u, question[u])

\* on_send: send() fails, after fold().
UpstreamSendFails(u) ==
  /\ loop = "running"
  /\ u \in sending
  /\ PassFailure(u, Folded(u))

\* on_receive: answer received; close, unfold and pass it to the client.  Only
\* NOERROR and NXDOMAIN answers go to the cache, under the question the answer
\* repeats: nothing compares it with the one that was asked.
UpstreamReceive(u) ==
  /\ loop = "running"
  /\ u \in receiving
  /\ UNCHANGED <<loop, inVars, upObj, upq, delivered>>
  /\ question' = [question EXCEPT ![u] = "answer"]
  /\ CloseUpstream(u)
  /\ UNCHANGED cache \/ \E n \in Names : Store(n)
  /\ Respond(upReq[u], "answer", active)

\* Mutant of UpstreamReceiveFails: the packet still holds the question.
UpstreamReceiveFailsAnswers(u) ==
  /\ loop = "running"
  /\ u \in receiving
  /\ PassFailure(u, "plain")

\* on_receive: recv() or the connection failed.  The packet was emptied before
\* recv(), or by on_send.
UpstreamReceiveFails(u) ==
  /\ loop = "running"
  /\ u \in receiving
  /\ PassFailure(u, "empty")

\* timeout::callback of an upstream.
UpstreamTimeout(u) ==
  /\ loop = "running"
  /\ u \in timing
  /\ CloseUpstream(u)
  /\ UNCHANGED <<loop, inVars, active, reading, upObj, question, upq, delivered,
                 cache, history>>

\* SIGINT or SIGTERM, or an exception other than net_error that leaves a
\* callback: the loop ends and with it the process and all its objects.
LoopEnds ==
  /\ loop = "running"
  /\ loop' = "ended"
  /\ inq' = {} /\ active' = {} /\ reading' = {}
  /\ upq' = {} /\ timing' = {} /\ sending' = {} /\ receiving' = {} /\ sockets' = {}
  /\ UNCHANGED <<count, proto, name, upObj, question, delivered, cache, history>>

-----------------------------------------------------------------------------
Next ==
  \/ \E n \in Names : UdpMessage(n) \/ TcpAccept(n)
  \/ \E r \in Requests : TcpReceive(r) \/ TcpReceiveFails(r) \/ IncomingTimeout(r)
  \/ \E u \in Upstreams :
       \/ UpstreamSend(u) \/ UpstreamConnectFails(u) \/ UpstreamSendFails(u)
       \/ UpstreamReceive(u) \/ UpstreamReceiveFails(u)
       \/ UpstreamTimeout(u)
  \/ LoopEnds

Spec == Init /\ [][Next]_vars

\* libev fires a started timer once its time has come; nothing else is promised
\* (clients and resolvers may stay silent).
Timers ==
  /\ \A r \in Requests : WF_vars(IncomingTimeout(r))
  /\ \A u \in Upstreams : WF_vars(UpstreamTimeout(u))

LiveSpec == Spec /\ Timers

-----------------------------------------------------------------------------
(***************************************************************************)
(* Properties.                                                             *)
(***************************************************************************)

\* No client is answered twice: not by a late answer after a failure was passed
\* down, a second message on its TCP connection or a second upstream.
AtMostOneResponse == \A r \in Requests : sent[r] <= 1

\* A client is told SERVFAIL only when its question never reached a resolver:
\* pass_failure_downstream answers from the packet, which on_send empties and
\* on_receive empties again before recv().
ServfailMeansUndelivered ==
  \A u \in 1..upCount : how[upReq[u]] = "servfail" => u \notin delivered

\* A started watcher has an object in the vector, a running timer, an open
\* socket and the packet it needs: is_connected never finds the connection
\* "already closed", and on_send never finds an empty packet.
WatchersUsable ==
  /\ sending \cup receiving \subseteq upq \cap timing \cap sockets
  /\ sending \cap receiving = {}
  /\ \A u \in sending : question[u] = "plain"
  /\ \A u \in receiving : question[u] = "empty"

\* A request is asked upstream at most once, and never while its TCP connection
\* is still being read.
OneUpstreamEach ==
  \A u \in 1..upCount :
    /\ upReq[u] \notin reading
    /\ \A v \in 1..upCount : upReq[u] = upReq[v] => u = v

\* Whatever was answered is closed, so the next clean-up may take it, and no
\* upstream that can still act holds it.
AnsweredIsSettled ==
  \A r \in Requests : sent[r] > 0 =>
    /\ r \notin active \cup reading
    /\ \A u \in sending \cup receiving : upReq[u] # r

\* A connection that is being read is in its listener's vector and unanswered:
\* create_response always finds it ("Creating response for non-queued incoming
\* request" is never thrown), whatever the clean-up dropped in between.
ReadingIsFresh == \A r \in reading : r \in inq /\ sent[r] = 0

\* Collecting garbage removes only closed upstream requests, as its comment
\* says.  The process may end at any time.
OnlyClosedCollected ==
  [][loop' = "running" => \A u \in upq \ upq' : u \notin timing]_vars

\* No request stays open for ever, with or without an answer: its timer closes
\* it, and the one of its upstream closes that.
EveryRequestEnds ==
  \A i \in Requests : []<>(i \notin active) /\ []<>(i \notin timing)

\* The client's view: a request is lost when no object for it is left.
ViewOf(r) ==
  IF r > count THEN "unsent"
  ELSE CASE sent[r] = 1 -> "answered"
         [] sent[r] = 0 -> IF r \in Alive THEN "waiting" ELSE "lost"
         [] OTHER -> "answered again"

Client == INSTANCE ClientView WITH view <- [r \in Requests |-> ViewOf(r)]

\* The proxy implements the client's view of it.
ImplementsClientView == Client!Spec

-----------------------------------------------------------------------------
(***************************************************************************)
(* The inductive invariant behind the safety properties.                   *)
(***************************************************************************)

\* Objects have been made before they are used, and an upstream's request
\* before the upstream.
MadeInOrder ==
  /\ inq \cup active \cup reading \subseteq 1..count
  /\ upq \cup timing \cup delivered \subseteq 1..upCount
  /\ \A u \in 1..upCount : upReq[u] \in 1..count
  /\ \A r \in Requests : r > count => sent[r] = 0

\* The last owner of a request is gone only with the request.
ActiveIsAlive == active \subseteq Alive

\* As long as an upstream can act, its request is unanswered; it has been
\* delivered exactly if it is not being sent any more.
UpstreamPending ==
  \A u \in sending \cup receiving :
    /\ sent[upReq[u]] = 0
    /\ u \in delivered <=> u \in receiving

\* A reply is recorded with its kind.
ReplyRecorded == \A r \in Requests : sent[r] = 0 => how[r] = "none"

Inv ==
  /\ TypeOK
  /\ MadeInOrder
  /\ ReadingIsFresh
  /\ ActiveIsAlive
  /\ UpstreamPending
  /\ ReplyRecorded
  /\ AtMostOneResponse
  /\ ServfailMeansUndelivered
  /\ WatchersUsable
  /\ OneUpstreamEach
  /\ AnsweredIsSettled

=============================================================================
