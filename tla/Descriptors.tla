----------------------------- MODULE Descriptors -----------------------------
(***************************************************************************)
(* The vectors of requests that network::tcp::tcplistener and              *)
(* dns::responder keep, and the file descriptors that their elements hold. *)
(*                                                                         *)
(* A vector is pushed at the back, its elements are closed in any order by *)
(* timers and answers, and it is compacted before the next push.  The      *)
(* compaction is the source's loop, step by step, on a sequence; module    *)
(* Compaction says in one formula what it keeps.                           *)
(*                                                                         *)
(* A connection of a client is released with its object, not when it is    *)
(* closed: tcp::in::close stops the watcher and the timer only.  The object*)
(* lives while the listener's vector or an upstream in the responder's     *)
(* vector holds it.  The socket of an upstream is closed by its close().   *)
(***************************************************************************)
EXTENDS Integers, Sequences, FiniteSets, Functions

CONSTANTS
  MaxPushed,            \* bound on the number of requests of clients
  Limit                 \* descriptors the process may have for connections

ASSUME DescriptorsAssumption == MaxPushed \in Nat /\ Limit \in Nat \ {0}

VARIABLES
  loop,                 \* "running" until accept fails
  pushed,               \* requests that came so far, by TCP and by UDP
  tcp,                  \* those that came by TCP
  reqs,                 \* requests_ of the TCP listener
  open,                 \* connections of reqs whose timer is active
  unread,               \* connections whose question has not come
  ups,                  \* upstream_requests_: the request each one is for
  asking                \* requests whose upstream has an active timer

vars == <<loop, pushed, tcp, reqs, open, unread, ups, asking>>

C == INSTANCE Compaction

-----------------------------------------------------------------------------
(***************************************************************************)
(* The clean-up loop.                                                      *)
(***************************************************************************)

\* Mutants of LoopStep: an index that stays put after an erase, and a last that
\* lags by one.
LoopStepStays(s, closed) ==
  IF s.i >= Len(s.reqs)
    THEN s
    ELSE IF s.reqs[s.i + 1] \in closed
           THEN [s EXCEPT !.reqs = SubSeq(@, 1, s.i) \o SubSeq(@, s.i + 2, Len(@))]
           ELSE [s EXCEPT !.i = @ + 1, !.last = s.i + 1]

LoopStepLastLags(s, closed) ==
  IF s.i >= Len(s.reqs)
    THEN s
    ELSE IF s.reqs[s.i + 1] \in closed
           THEN [s EXCEPT !.reqs = SubSeq(@, 1, s.i) \o SubSeq(@, s.i + 2, Len(@)),
                          !.i = @ + 1]
           ELSE [s EXCEPT !.i = @ + 1, !.last = s.i]

\* One iteration of the for loop; i and last count from 0 as in the code.
LoopStep(s, closed) ==
  IF s.i >= Len(s.reqs)
    THEN s
    ELSE IF s.reqs[s.i + 1] \in closed
           THEN [reqs |-> SubSeq(s.reqs, 1, s.i) \o SubSeq(s.reqs, s.i + 2, Len(s.reqs)),
                 i    |-> s.i + 1,
                 last |-> s.last]
           ELSE [reqs |-> s.reqs, i |-> s.i + 1, last |-> s.i + 1]

\* The loop's variables after n iterations (none are left after Len(q)).
LoopAfter(q, closed) ==
  LET run[n \in 0..Len(q)] ==
        IF n = 0 THEN [reqs |-> q, i |-> 0, last |-> 0]
                 ELSE LoopStep(run[n - 1], closed)
  IN  run[Len(q)]

\* The loop, then resize(last).
Compact(q, closed) ==
  LET end == LoopAfter(q, closed) IN SubSeq(end.reqs, 1, end.last)

KeptReqs == Compact(reqs, Range(reqs) \ open)
KeptUps  == Compact(ups, Range(ups) \ asking)

-----------------------------------------------------------------------------
(***************************************************************************)
(* Descriptors.                                                            *)
(***************************************************************************)

\* The connections of clients that are still owned.
Connections(rs, us) == tcp \cap (Range(rs) \cup Range(us))

\* Descriptors in use.
InUse(rs, us, asks) == Cardinality(Connections(rs, us)) + Cardinality(asks)

Init ==
  /\ loop = "running" /\ pushed = 0 /\ tcp = {}
  /\ reqs = <<>> /\ open = {} /\ unread = {}
  /\ ups = <<>> /\ asking = {}

\* The TCP listener cleans up and accepts.
AcceptTcp ==
  /\ loop = "running"
  /\ pushed < MaxPushed
  /\ InUse(KeptReqs, ups, asking) < Limit
  /\ pushed' = pushed + 1
  /\ tcp' = tcp \cup {pushed + 1}
  /\ reqs' = Append(KeptReqs, pushed + 1)
  /\ open' = (open \cap Connections(KeptReqs, ups)) \cup {pushed + 1}
  /\ unread' = (unread \cap Connections(KeptReqs, ups)) \cup {pushed + 1}
  /\ UNCHANGED <<loop, ups, asking>>

\* Mutant of AcceptFails: accept before the clean-up.
AcceptFailsUncleaned ==
  /\ loop = "running"
  /\ pushed < MaxPushed
  /\ InUse(reqs, ups, asking) >= Limit
  /\ loop' = "ended"
  /\ UNCHANGED <<pushed, tcp, reqs, open, unread, ups, asking>>

\* accept finds no descriptor (EMFILE): the net_error leaves the constructor of
\* tcp::in and the listener's callback, where nothing catches it.
AcceptFails ==
  /\ loop = "running"
  /\ pushed < MaxPushed
  /\ InUse(KeptReqs, ups, asking) >= Limit
  /\ loop' = "ended"
  /\ reqs'   = KeptReqs
  /\ open'   = open \cap Connections(KeptReqs, ups)
  /\ unread' = unread \cap Connections(KeptReqs, ups)
  /\ UNCHANGED <<pushed, tcp, ups, asking>>

\* responder::process asks a resolver for request r: collect_garbage, a new
\* socket and a new upstream.
Ask(r) ==
  LET kept == asking \cap Range(KeptUps)
  IN  \/ /\ InUse(reqs, KeptUps, kept) < Limit
         /\ ups' = Append(KeptUps, r)
         /\ asking' = kept \cup {r}
         /\ open' = open \cap Connections(reqs', ups')
      \/ \* No socket, or connect fails: the request is answered with SERVFAIL.
         /\ ups' = KeptUps
         /\ asking' = kept
         /\ open' = (open \ {r}) \cap Connections(reqs', ups')

\* The question came on connection r.
AskTcp(r) ==
  /\ loop = "running"
  /\ r \in unread
  /\ UNCHANGED <<loop, pushed, tcp, reqs>>
  /\ Ask(r)
  /\ unread' = (unread \ {r}) \cap Connections(reqs', ups')

\* A question by UDP.
AskUdp ==
  /\ loop = "running"
  /\ pushed < MaxPushed
  /\ pushed' = pushed + 1
  /\ UNCHANGED <<loop, tcp, reqs>>
  /\ Ask(pushed + 1)
  /\ unread' = unread \cap Connections(reqs', ups')

\* A connection's timer fires, it fails, or its question is answered at once.
Close(r) ==
  /\ loop = "running"
  /\ r \in open
  /\ open' = open \ {r}
  /\ unread' = unread \ {r}
  /\ UNCHANGED <<loop, pushed, tcp, reqs, ups, asking>>

\* An upstream's timer fires, or it fails and the client is not told.
CloseUpstream(r) ==
  /\ loop = "running"
  /\ r \in asking
  /\ asking' = asking \ {r}
  /\ UNCHANGED <<loop, pushed, tcp, reqs, open, unread, ups>>

\* The answer or the failure of an upstream is passed to the client.
Answer(r) ==
  /\ loop = "running"
  /\ r \in asking
  /\ asking' = asking \ {r}
  /\ open' = open \ {r}
  /\ UNCHANGED <<loop, pushed, tcp, reqs, unread, ups>>

Next ==
  \/ AcceptTcp \/ AcceptFails \/ AskUdp
  \/ \E r \in 1..MaxPushed :
       AskTcp(r) \/ Close(r) \/ CloseUpstream(r) \/ Answer(r)

Spec == Init /\ [][Next]_vars

-----------------------------------------------------------------------------
\* The loop leaves exactly the elements Compaction!Survivors names, which is
\* what the other modules use for it (listener.cpp and responder.cpp), in their
\* order, and `last` never exceeds the size of the shrunken vector: resize never
\* adds null requests at the back.
KeepsSurvivors(q, closed) ==
  LET kept == C!Survivors(DOMAIN q, {i \in DOMAIN q : q[i] \in closed})
      end  == LoopAfter(q, closed)
  IN  /\ Len(Compact(q, closed)) = Cardinality(kept)
      /\ \A i \in kept :
           Compact(q, closed)[Cardinality({j \in kept : j <= i})] = q[i]
      /\ end.last <= Len(end.reqs)

LoopKeepsSurvivors ==
  /\ KeepsSurvivors(reqs, Range(reqs) \ open)
  /\ KeepsSurvivors(ups, Range(ups) \ asking)

\* The damage of one pass over a vector is bounded on both sides: it removes no
\* more open requests than closed ones (each open one it loses was stepped over
\* after an erase), and the closed ones it leaves are less than half of what the
\* vector held, so that they cannot pile up.
DamageBounded(q, closed) ==
  LET kept == Range(Compact(q, closed))
      gone == Range(q) \ kept
  IN  /\ Cardinality(gone \ closed) <= Cardinality(gone \cap closed)
      /\ 2 * Cardinality(kept \cap closed) < Len(q) \/ q = <<>>

DamageIsBounded ==
  /\ DamageBounded(reqs, Range(reqs) \ open)
  /\ DamageBounded(ups, Range(ups) \ asking)

\* A proxy with nothing left to do is never out of descriptors, although closed
\* connections keep theirs until a clean-up and upstreams until the next one:
\* accept fails, and ends the process, only while a connection or an upstream is
\* open.
IdleProxyAccepts == loop = "ended" => open \cup asking # {}

-----------------------------------------------------------------------------
(***************************************************************************)
(* The inductive invariant of the proofs.                                  *)
(***************************************************************************)

TypeOK ==
  /\ loop \in {"running", "ended"}
  /\ pushed \in 0..MaxPushed /\ tcp \subseteq 1..pushed
  /\ reqs \in Seq(1..pushed) /\ ups \in Seq(1..pushed)
  /\ open \subseteq Connections(reqs, ups) /\ unread \subseteq 1..pushed
  /\ asking \subseteq Range(ups)

Distinct(q) == \A i, j \in 1..Len(q) : q[i] = q[j] => i = j

\* A connection is asked about at most once, and it is in the listener's vector
\* until then.
AskedOnce ==
  /\ Distinct(reqs) /\ Distinct(ups)
  /\ Range(reqs) \subseteq tcp
  /\ unread \subseteq Range(reqs) \ Range(ups)

\* The upstreams hold fewer connections than there are descriptors: each of them
\* needed one more for its own socket.
UpstreamsLeaveRoom == Cardinality(tcp \cap Range(ups)) < Limit

Inv == TypeOK /\ AskedOnce /\ UpstreamsLeaveRoom /\ IdleProxyAccepts

=============================================================================
