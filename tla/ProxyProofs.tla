----------------------------- MODULE ProxyProofs -----------------------------
(***************************************************************************)
(* The proxy's safety properties for any number of requests, names and     *)
(* providers.                                                              *)
(***************************************************************************)
EXTENDS Proxy, TLAPS

\* The clean-up loop invents nothing: what it keeps was in the vector.
LEMMA SurvivorsInQueue ==
  ASSUME NEW q, NEW closed
  PROVE  Survivors(q, closed) \subseteq q
BY DEF Survivors

\* Neither clean-up, of a listener or of the responder, adds to its vector.
LEMMA KeptInQueue ==
  /\ \A p : KeptIncoming(p) \subseteq inq
  /\ KeptUpstreams \subseteq upq
<1>1. ASSUME NEW p PROVE KeptIncoming(p) \subseteq inq
  <2> DEFINE q == {r \in inq : proto[r] = p}
  <2>1. Survivors(q, q \ active) \subseteq q
    BY SurvivorsInQueue
  <2>2. KeptIncoming(p) = (inq \ q) \cup Survivors(q, q \ active)
    BY DEF KeptIncoming
  <2> HIDE DEF q
  <2>3. q \subseteq inq
    BY DEF q
  <2> QED BY <2>1, <2>2, <2>3
<1>2. KeptUpstreams \subseteq upq
  BY SurvivorsInQueue DEF KeptUpstreams
<1> QED BY <1>1, <1>2

\* The invariant holds before the first request.
LEMMA InitInv == Init => Inv
<1> SUFFICES ASSUME Init PROVE Inv
  OBVIOUS
<1> USE ProxyAssumption DEF Init
<1>1. TypeOK
  BY DEF TypeOK, Requests, Upstreams, Protos, Questions, Replies
<1>2. MadeInOrder /\ ReadingIsFresh /\ ActiveIsAlive /\ UpstreamPending /\ ReplyRecorded
  BY DEF MadeInOrder, ReadingIsFresh, ActiveIsAlive, UpstreamPending, ReplyRecorded
<1>3. AtMostOneResponse /\ ServfailMeansUndelivered /\ WatchersUsable
      /\ OneUpstreamEach /\ AnsweredIsSettled
  BY DEF AtMostOneResponse, ServfailMeansUndelivered, WatchersUsable,
         OneUpstreamEach, AnsweredIsSettled
<1> QED BY <1>1, <1>2, <1>3 DEF Inv

-----------------------------------------------------------------------------
(***************************************************************************)
(* responder::process keeps the invariant when it is called as the two     *)
(* listeners call it: with a request r that is new to it.                  *)
(***************************************************************************)
ProcessCall(r, n, act) ==
  /\ n \in Names
  /\ loop' = loop
  /\ count' \in 0..MaxRequests /\ count <= count'
  /\ proto' \in [Requests -> Protos] /\ name' \in [Requests -> Names]
  /\ inq' \subseteq 1..count' /\ r \in 1..count' /\ act \subseteq active \cup {r}
  /\ sent[r] = 0
  /\ \A u \in 1..upCount : upReq[u] # r

\* Answers given without a new upstream: what a reply to r does to the invariant
\* when the upstreams change at most by a clean-up.
LEMMA ReplyInv ==
  ASSUME Inv, NEW r, NEW n, NEW act, ProcessCall(r, n, act),
         UNCHANGED <<upObj, question, delivered>>,
         upq' \subseteq upq,
         timing' = timing \cap upq' \/ timing' = timing,
         sending' = sending \cap upq', receiving' = receiving \cap upq',
         sockets' = sockets \cap upq' \/ sockets' = sockets,
         cache' \subseteq Names,
         CloseIncoming(r, act),
         \/ UNCHANGED history
         \/ \E kind \in {"local", "servfail"} :
              /\ sent' = [sent EXCEPT ![r] = @ + 1]
              /\ how' = [how EXCEPT ![r] = kind]
  PROVE  Inv'
<1> USE ProxyAssumption DEF ProcessCall, upObj, history
<1>0. /\ r \in Requests
      /\ 1..count \subseteq 1..count'
      /\ 1..count' \subseteq Requests
  BY DEF Inv, TypeOK, Requests
<1>a. active' \cup reading' \subseteq 1..count'
  BY <1>0 DEF Inv, MadeInOrder, CloseIncoming
<1>b. /\ sent' \in [Requests -> Nat]
      /\ how' \in [Requests -> Replies]
      /\ \A x \in Requests : x # r => sent'[x] = sent[x]
  BY <1>0 DEF Inv, TypeOK, Replies
<1>1. TypeOK'
  BY <1>0, <1>a, <1>b DEF Inv, TypeOK
<1>2. MadeInOrder'
  <2>1. (inq \cup active \cup reading)' \subseteq 1..count'
    BY <1>a
  <2>2. (upq \cup timing \cup delivered)' \subseteq 1..upCount'
    BY DEF Inv, MadeInOrder
  <2>3. \A u \in 1..upCount' : upReq'[u] \in 1..count'
    BY <1>0 DEF Inv, MadeInOrder
  <2>4. \A x \in Requests : x > count' => sent'[x] = 0
    BY <1>0, <1>b DEF Inv, TypeOK, MadeInOrder, Requests
  <2> QED BY <2>1, <2>2, <2>3, <2>4 DEF MadeInOrder
<1>3. OneUpstreamEach'
  BY <1>0 DEF Inv, TypeOK, OneUpstreamEach, CloseIncoming
<1>4. ReadingIsFresh'
  BY <1>0, <1>2, <1>3 DEF Inv, TypeOK, OneUpstreamEach, MadeInOrder, ReadingIsFresh, CloseIncoming, Alive
<1>5. ActiveIsAlive'
  BY DEF ActiveIsAlive, CloseIncoming
<1>6. UpstreamPending' /\ ReplyRecorded' /\ WatchersUsable'
  BY <1>0 DEF Inv, TypeOK, MadeInOrder, UpstreamPending, ReplyRecorded, WatchersUsable
<1>7. AtMostOneResponse' /\ ServfailMeansUndelivered'
  BY <1>0 DEF Inv, TypeOK, AtMostOneResponse, ServfailMeansUndelivered
<1>8. AnsweredIsSettled'
  <2> SUFFICES ASSUME NEW x \in Requests, sent'[x] > 0
               PROVE  /\ x \notin active' \cup reading'
                      /\ \A u \in sending' \cup receiving' : upReq'[u] # x
    BY DEF AnsweredIsSettled
  <2>1. CASE x = r
    BY <2>1 DEF Inv, MadeInOrder, WatchersUsable, CloseIncoming
  <2>2. CASE x # r
    BY <1>b, <2>2 DEF Inv, AnsweredIsSettled, CloseIncoming
  <2> QED BY <2>1, <2>2
<1> QED BY <1>1, <1>2, <1>3, <1>4, <1>5, <1>6, <1>7, <1>8 DEF Inv


\* A new upstream for r: it is the only one that holds r, and the clean-up in
\* front of it stops whatever it destroys.
LEMMA StartInv ==
  ASSUME Inv, NEW r, NEW n, NEW act, ProcessCall(r, n, act), StartUpstream(r, act)
  PROVE  Inv'
<1> DEFINE w == upCount + 1
<1> USE ProxyAssumption DEF ProcessCall
<1>0. /\ r \in Requests
      /\ 1..count \subseteq 1..count' /\ 1..count' \subseteq Requests
      /\ upCount \in Nat /\ w \in Upstreams /\ w \notin 1..upCount
      /\ 1..w = 1..upCount \cup {w}
  <2>1. upCount \in Nat /\ upCount < MaxRequests
    BY DEF Inv, TypeOK, StartUpstream
  <2>2. count \in Nat /\ count' \in Nat /\ count' <= MaxRequests
    BY DEF Inv, TypeOK
  <2> QED BY <2>1, <2>2 DEF Requests, Upstreams
<1>1. PICK p \in Providers :
         /\ upCount' = w
         /\ upReq' = [upReq EXCEPT ![w] = r]
         /\ provider' = [provider EXCEPT ![w] = p]
         /\ question' = [question EXCEPT ![w] = "plain"]
         /\ upq' = KeptUpstreams \cup {w}
         /\ timing' = (timing \cap KeptUpstreams) \cup {w}
         /\ sending' = (sending \cap KeptUpstreams) \cup {w}
         /\ receiving' = receiving \cap KeptUpstreams
         /\ sockets' = (sockets \cap KeptUpstreams) \cup {w}
         /\ active' = act \cap Alive'
         /\ reading' = (reading \ {r}) \cap Alive'
         /\ UNCHANGED <<delivered, cache, sent, how>>
  BY DEF StartUpstream, history
<1> HIDE DEF w
<1>2. KeptUpstreams \subseteq 1..upCount
  BY KeptInQueue DEF Inv, MadeInOrder
<1>3. /\ upReq'[w] = r /\ question'[w] = "plain"
      /\ \A u \in 1..upCount : upReq'[u] = upReq[u] /\ question'[u] = question[u]
  BY <1>0, <1>1 DEF Inv, TypeOK, Upstreams
<1>4. active' \cup reading' \subseteq 1..count'
  BY <1>0, <1>1 DEF Inv, MadeInOrder
<1>5. TypeOK'
  <2>1. /\ upReq' \in [Upstreams -> Requests]
        /\ provider' \in [Upstreams -> Providers]
        /\ question' \in [Upstreams -> Questions]
    BY <1>0, <1>1 DEF Inv, TypeOK, Questions
  <2>2. upCount' \in 0..MaxRequests /\ 1..upCount \subseteq Upstreams
    BY <1>0, <1>1 DEF Upstreams
  <2>3. /\ upq' \subseteq Upstreams /\ timing' \subseteq Upstreams
        /\ sending' \subseteq Upstreams /\ receiving' \subseteq Upstreams
        /\ sockets' \subseteq Upstreams
    BY <1>0, <1>1, <1>2, <2>2
  <2>4. inq' \subseteq Requests /\ active' \subseteq Requests /\ reading' \subseteq Requests
    BY <1>0, <1>4
  <2> QED BY <1>1, <2>1, <2>2, <2>3, <2>4 DEF Inv, TypeOK
<1>6. MadeInOrder'
  <2>1. (upq \cup timing \cup delivered)' \subseteq 1..upCount'
    BY <1>0, <1>1, <1>2 DEF Inv, MadeInOrder
  <2>2. \A u \in 1..upCount' : upReq'[u] \in 1..count'
    BY <1>0, <1>1, <1>3 DEF Inv, MadeInOrder
  <2>3. \A x \in Requests : x > count' => sent'[x] = 0
    BY <1>0, <1>1 DEF Inv, TypeOK, MadeInOrder, Requests
  <2> QED BY <1>4, <2>1, <2>2, <2>3 DEF MadeInOrder
<1>7. OneUpstreamEach'
  BY <1>0, <1>1, <1>3 DEF Inv, OneUpstreamEach
<1>8. ReadingIsFresh'
  <2> SUFFICES ASSUME NEW x \in reading' PROVE x \in inq' /\ sent'[x] = 0
    BY DEF ReadingIsFresh
  <2>1. x \in Alive' /\ sent'[x] = 0
    BY <1>1 DEF Inv, ReadingIsFresh
  <2>2. \A u \in upq' : upReq'[u] # x
    BY <1>0, <1>1, <1>2, <1>7 DEF OneUpstreamEach
  <2> QED BY <2>1, <2>2 DEF Alive
<1>9. ActiveIsAlive'
  BY <1>1 DEF ActiveIsAlive
<1>10. UpstreamPending'
  BY <1>0, <1>1, <1>2, <1>3 DEF Inv, MadeInOrder, UpstreamPending
<1>11. ReplyRecorded' /\ AtMostOneResponse'
  BY <1>1 DEF Inv, ReplyRecorded, AtMostOneResponse
<1>12. ServfailMeansUndelivered'
  BY <1>0, <1>1, <1>3 DEF Inv, MadeInOrder, ServfailMeansUndelivered
<1>13. WatchersUsable'
  BY <1>0, <1>1, <1>2, <1>3 DEF Inv, WatchersUsable
<1>14. AnsweredIsSettled'
  <2> SUFFICES ASSUME NEW x \in Requests, sent'[x] > 0
               PROVE  /\ x \notin active' \cup reading'
                      /\ \A u \in sending' \cup receiving' : upReq'[u] # x
    BY DEF AnsweredIsSettled
  <2>1. x # r /\ sent[x] > 0
    BY <1>1
  <2>2. x \notin active \cup reading /\ \A u \in sending \cup receiving : upReq[u] # x
    BY <2>1 DEF Inv, AnsweredIsSettled
  <2> QED BY <1>0, <1>1, <1>2, <1>3, <2>1, <2>2
<1> QED BY <1>5, <1>6, <1>7, <1>8, <1>9, <1>10, <1>11, <1>12, <1>13, <1>14 DEF Inv

\* responder::process keeps the invariant, for a request just received over UDP
\* and for one whose TCP message is complete.
LEMMA ProcessInv ==
  ASSUME Inv, NEW r, NEW n, NEW act, ProcessCall(r, n, act), Process(r, n, act)
  PROVE  Inv'
<1> USE DEF upVars, upObj, watched, history
<1>0. upq \cap upq = upq /\ sending \cap upq = sending /\ receiving \cap upq = receiving
  BY DEF Inv, WatchersUsable
<1>1. CASE DropBad(r, act)
  BY <1>0, <1>1, ReplyInv DEF DropBad, Inv, TypeOK
<1>2. CASE AnswerDirectly(r, n, act)
  <2>1. cache' \subseteq Names
    BY <1>2 DEF AnswerDirectly, Store, ProcessCall, Inv, TypeOK
  <2> QED BY <1>0, <1>2, <2>1, ReplyInv DEF AnswerDirectly, Respond
<1>3. CASE NoProvider(r, act)
  BY <1>0, <1>3, ReplyInv DEF NoProvider, Respond, Inv, TypeOK
<1>4. CASE StartUpstream(r, act)
  BY <1>4, StartInv
<1>5. CASE StartFails(r, act)
  <2>1. upq' \subseteq upq
    BY <1>5, KeptInQueue DEF StartFails
  <2> QED BY <1>5, <2>1, ReplyInv DEF StartFails, Respond, Inv, TypeOK
<1> QED BY <1>1, <1>2, <1>3, <1>4, <1>5 DEF Process

-----------------------------------------------------------------------------
(***************************************************************************)
(* The callbacks of an upstream that close it, with or without a reply.    *)
(***************************************************************************)
LEMMA CloseUpstreamInv ==
  ASSUME Inv, NEW u \in timing, CloseUpstream(u),
         UNCHANGED <<loop, inVars, upObj, upq, delivered>>,
         question' \in [Upstreams -> Questions],
         \A v \in Upstreams : v # u => question'[v] = question[v],
         cache' \subseteq Names,
         \/ UNCHANGED <<active, reading, history>>
         \/ /\ u \in sending \cup receiving
            /\ \E kind \in {"servfail", "answer"} :
                 /\ Respond(upReq[u], kind, active)
                 /\ kind = "servfail" => u \notin delivered
  PROVE  Inv'
<1> DEFINE r == upReq[u]
<1> USE DEF CloseUpstream, inVars, upObj, history
<1>0. /\ u \in 1..upCount /\ u \in Upstreams /\ r \in Requests /\ r \in 1..count
      /\ Alive' = Alive
  BY DEF Inv, TypeOK, MadeInOrder, Alive
<1>1. /\ active' \subseteq active /\ reading' \subseteq reading
      /\ sent' \in [Requests -> Nat] /\ how' \in [Requests -> Replies]
      /\ \A x \in Requests : x # r => sent'[x] = sent[x] /\ how'[x] = how[x]
  BY <1>0 DEF Inv, TypeOK, Respond, CloseIncoming, Replies
<1>2. TypeOK'
  BY <1>1 DEF Inv, TypeOK
<1>3. MadeInOrder'
  <2>1. \A x \in Requests : x > count' => sent'[x] = 0
    BY <1>0, <1>1 DEF Inv, TypeOK, MadeInOrder, Requests
  <2>2. \A v \in 1..upCount' : upReq'[v] \in 1..count'
    BY DEF Inv, MadeInOrder
  <2>3. /\ (inq \cup active \cup reading)' \subseteq 1..count'
        /\ (upq \cup timing \cup delivered)' \subseteq 1..upCount'
    BY <1>1 DEF Inv, MadeInOrder
  <2> QED BY <2>1, <2>2, <2>3 DEF MadeInOrder
<1>4. OneUpstreamEach'
  BY <1>1 DEF Inv, OneUpstreamEach
<1>5. ReadingIsFresh'
  BY <1>0, <1>1 DEF Inv, TypeOK, ReadingIsFresh, OneUpstreamEach
<1>6. ActiveIsAlive'
  BY <1>0, <1>1 DEF Inv, ActiveIsAlive
<1>7. \A v \in sending' \cup receiving' :
         /\ v \in sending \cup receiving /\ v # u /\ v \in 1..upCount
         /\ upReq[v] \in Requests /\ upReq[v] # r
  BY <1>0 DEF Inv, TypeOK, OneUpstreamEach, WatchersUsable, MadeInOrder
<1>8. UpstreamPending'
  BY <1>1, <1>7 DEF Inv, UpstreamPending
<1>9. WatchersUsable'
  BY <1>7 DEF Inv, TypeOK, WatchersUsable
<1>10. /\ sent'[r] <= 1
       /\ sent'[r] = 0 => how'[r] = "none"
       /\ how'[r] = "servfail" => u \notin delivered
       /\ sent'[r] > 0 => r \notin active' \cup reading'
  BY <1>0 DEF Inv, TypeOK, AtMostOneResponse, ReplyRecorded, UpstreamPending,
              ServfailMeansUndelivered, AnsweredIsSettled, Respond, CloseIncoming
<1>11. ReplyRecorded' /\ AtMostOneResponse'
  BY <1>1, <1>10 DEF Inv, ReplyRecorded, AtMostOneResponse
<1>12. ServfailMeansUndelivered'
  <2> SUFFICES ASSUME NEW v \in 1..upCount, how'[upReq[v]] = "servfail"
               PROVE  v \notin delivered
    BY DEF ServfailMeansUndelivered
  <2>1. CASE v = u
    BY <2>1, <1>10
  <2>2. CASE v # u
    <3>1. upReq[v] # r
      BY <1>0, <2>2 DEF Inv, OneUpstreamEach
    <3>2. upReq[v] \in Requests
      BY ProxyAssumption DEF Inv, TypeOK, MadeInOrder, Requests
    <3> QED BY <1>1, <3>1, <3>2 DEF Inv, ServfailMeansUndelivered
  <2> QED BY <2>1, <2>2
<1>13. AnsweredIsSettled'
  <2> SUFFICES ASSUME NEW x \in Requests, sent'[x] > 0
               PROVE  /\ x \notin active' \cup reading'
                      /\ \A v \in sending' \cup receiving' : upReq[v] # x
    BY DEF AnsweredIsSettled
  <2>1. CASE x = r
    BY <2>1, <1>7, <1>10
  <2>2. CASE x # r
    BY <2>2, <1>1, <1>7 DEF Inv, AnsweredIsSettled
  <2> QED BY <2>1, <2>2
<1> QED BY <1>2, <1>3, <1>4, <1>5, <1>6, <1>8, <1>9, <1>11, <1>12, <1>13 DEF Inv

\* pass_failure_downstream keeps the invariant when the packet it looks at is
\* the client's question only before the question was sent.
LEMMA PassFailureInv ==
  ASSUME Inv, NEW u \in sending \cup receiving, NEW q \in Questions, PassFailure(u, q),
         q = "plain" => u \in sending
  PROVE  Inv'
<1>1. u \in timing /\ u \in Upstreams
  BY DEF Inv, TypeOK, WatchersUsable
<1>2. /\ question' \in [Upstreams -> Questions]
      /\ \A v \in Upstreams : v # u => question'[v] = question[v]
      /\ cache' \subseteq Names
  BY <1>1 DEF PassFailure, Inv, TypeOK
<1>3. CASE q = "plain"
  <2>1. u \notin delivered
    BY <1>3 DEF Inv, UpstreamPending, WatchersUsable
  <2> QED BY <1>1, <1>2, <1>3, <2>1, CloseUpstreamInv DEF PassFailure
<1>4. CASE q # "plain"
  BY <1>1, <1>2, <1>4, CloseUpstreamInv DEF PassFailure
<1> QED BY <1>3, <1>4

-----------------------------------------------------------------------------
\* Every callback keeps the invariant.
LEMMA NextInv == Inv /\ [Next]_vars => Inv'
<1> SUFFICES ASSUME Inv, [Next]_vars PROVE Inv'
  OBVIOUS
<1> USE ProxyAssumption
<1>1. ASSUME NEW n \in Names, UdpMessage(n) PROVE Inv'
  <2>1. ProcessCall(count + 1, n, active \cup {count + 1})
    <3>1. count' = count + 1 /\ count \in Nat /\ count' \in 0..MaxRequests
      BY <1>1 DEF UdpMessage, Accept, Inv, TypeOK
    <3>2. inq' \subseteq 1..count' /\ count + 1 \in Requests
      BY <1>1, <3>1, KeptInQueue DEF UdpMessage, Accept, Inv, MadeInOrder, Requests
    <3>3. proto' \in [Requests -> Protos] /\ name' \in [Requests -> Names] /\ loop' = loop
      BY <1>1, <3>2 DEF UdpMessage, Accept, Inv, TypeOK, Protos
    <3>4. sent[count + 1] = 0 /\ \A u \in 1..upCount : upReq[u] # count + 1
      BY <3>1, <3>2 DEF Inv, MadeInOrder
    <3> QED BY <3>1, <3>2, <3>3, <3>4 DEF ProcessCall
  <2>2. Process(count + 1, n, active \cup {count + 1})
    BY <1>1 DEF UdpMessage
  <2> QED BY <2>1, <2>2, ProcessInv
<1>2. ASSUME NEW n \in Names, TcpAccept(n) PROVE Inv'
  <2> USE DEF upVars, upObj, watched, history
  <2>1. count' = count + 1 /\ count \in Nat /\ count' \in 0..MaxRequests
    BY <1>2 DEF TcpAccept, Accept, Inv, TypeOK
  <2>2. /\ inq' \subseteq 1..count' /\ count + 1 \in Requests /\ count + 1 \in inq'
        /\ 1..count \subseteq 1..count' /\ 1..count' \subseteq Requests
    BY <1>2, <2>1, KeptInQueue DEF TcpAccept, Accept, Inv, MadeInOrder, Requests
  <2>3. sent[count + 1] = 0 /\ \A u \in 1..upCount : upReq[u] # count + 1
    BY <2>1, <2>2 DEF Inv, MadeInOrder
  <2>4. active' \cup reading' \subseteq 1..count'
    BY <1>2, <2>1, <2>2 DEF TcpAccept, Inv, MadeInOrder
  <2>5. TypeOK'
    BY <1>2, <2>1, <2>2, <2>4 DEF TcpAccept, Accept, Inv, TypeOK, Protos
  <2>6. MadeInOrder'
    <3>1. \A x \in Requests : x > count' => sent'[x] = 0
      BY <1>2, <2>1 DEF TcpAccept, Inv, MadeInOrder, Requests
    <3>2. \A u \in 1..upCount' : upReq'[u] \in 1..count'
      BY <1>2, <2>2 DEF TcpAccept, Inv, MadeInOrder
    <3>3. (upq \cup timing \cup delivered)' \subseteq 1..upCount'
      BY <1>2 DEF TcpAccept, Inv, MadeInOrder
    <3> QED BY <2>2, <2>4, <3>1, <3>2, <3>3 DEF MadeInOrder
  <2>7. OneUpstreamEach'
    BY <1>2, <2>3 DEF TcpAccept, Inv, OneUpstreamEach
  <2>8. ReadingIsFresh'
    <3> SUFFICES ASSUME NEW x \in reading' PROVE x \in inq' /\ sent'[x] = 0
      BY DEF ReadingIsFresh
    <3>1. x \in Alive' /\ sent'[x] = 0
      BY <1>2, <2>3 DEF TcpAccept, Inv, ReadingIsFresh
    <3>2. \A u \in upq' : upReq'[u] # x
      BY <1>2, <2>6, <2>7 DEF MadeInOrder, OneUpstreamEach
    <3> QED BY <3>1, <3>2 DEF Alive
  <2>9. ActiveIsAlive'
    BY <1>2 DEF TcpAccept, ActiveIsAlive
  <2>10. /\ UpstreamPending' /\ ReplyRecorded' /\ AtMostOneResponse'
         /\ ServfailMeansUndelivered' /\ WatchersUsable'
    BY <1>2 DEF TcpAccept, Inv, UpstreamPending, ReplyRecorded, AtMostOneResponse,
                ServfailMeansUndelivered, WatchersUsable
  <2>11. AnsweredIsSettled'
    BY <1>2, <2>3 DEF TcpAccept, Inv, AnsweredIsSettled
  <2> QED BY <2>5, <2>6, <2>7, <2>8, <2>9, <2>10, <2>11 DEF Inv
<1>3. ASSUME NEW r \in Requests, TcpReceive(r) PROVE Inv'
  <2>1. ProcessCall(r, name[r], active)
    BY <1>3 DEF TcpReceive, inVars, ProcessCall, Inv, TypeOK, MadeInOrder,
                ReadingIsFresh, OneUpstreamEach
  <2> QED BY <1>3, <2>1, ProcessInv DEF TcpReceive
<1>4. ASSUME NEW r \in Requests, TcpReceiveFails(r) \/ IncomingTimeout(r) PROVE Inv'
  <2> USE DEF inVars, upVars, upObj, watched, history
  <2>1. /\ UNCHANGED <<loop, inVars, upVars, cache, history>>
        /\ active' \subseteq active /\ reading' \subseteq reading /\ Alive' = Alive
    BY <1>4 DEF TcpReceiveFails, IncomingTimeout, CloseIncoming, Alive
  <2>2. TypeOK' /\ MadeInOrder' /\ ReadingIsFresh' /\ ActiveIsAlive'
    BY <2>1 DEF Inv, TypeOK, MadeInOrder, ReadingIsFresh, ActiveIsAlive
  <2>3. UpstreamPending' /\ ReplyRecorded' /\ AtMostOneResponse' /\ WatchersUsable'
    BY <2>1 DEF Inv, UpstreamPending, ReplyRecorded, AtMostOneResponse, WatchersUsable
  <2>4. ServfailMeansUndelivered' /\ OneUpstreamEach' /\ AnsweredIsSettled'
    BY <2>1 DEF Inv, ServfailMeansUndelivered, OneUpstreamEach, AnsweredIsSettled
  <2> QED BY <2>2, <2>3, <2>4 DEF Inv
<1>5. ASSUME NEW u \in Upstreams, UpstreamSend(u) PROVE Inv'
  <2> USE DEF inVars, upObj, history
  <2>1. UNCHANGED <<loop, count, proto, name, inq, active, reading, upCount, upReq,
                    provider, upq, timing, sockets, cache, sent, how>>
    BY <1>5 DEF UpstreamSend
  <2>2. u \in upq \cap timing \cap sockets /\ u \in 1..upCount /\ sent[upReq[u]] = 0
    BY <1>5 DEF UpstreamSend, Inv, WatchersUsable, UpstreamPending, MadeInOrder
  <2>3. TypeOK' /\ MadeInOrder'
    BY <1>5, <2>1, <2>2 DEF UpstreamSend, Inv, TypeOK, MadeInOrder, Questions
  <2>4. ReadingIsFresh' /\ ActiveIsAlive' /\ ReplyRecorded' /\ AtMostOneResponse'
        /\ OneUpstreamEach'
    BY <2>1 DEF Inv, ReadingIsFresh, ActiveIsAlive, Alive, ReplyRecorded,
                AtMostOneResponse, OneUpstreamEach
  <2>5. UpstreamPending' /\ WatchersUsable' /\ AnsweredIsSettled'
    BY <1>5, <2>1, <2>2 DEF UpstreamSend, Inv, TypeOK, UpstreamPending, WatchersUsable,
                            AnsweredIsSettled
  <2>6. how[upReq[u]] = "none"
    BY <2>2 DEF Inv, TypeOK, ReplyRecorded
  <2>7. ServfailMeansUndelivered'
    BY <1>5, <2>1, <2>6 DEF UpstreamSend, Inv, ServfailMeansUndelivered
  <2> QED BY <2>3, <2>4, <2>5, <2>7 DEF Inv
<1>6. ASSUME NEW u \in Upstreams, UpstreamConnectFails(u) PROVE Inv'
  BY <1>6, PassFailureInv DEF UpstreamConnectFails, Inv, TypeOK
<1>7. ASSUME NEW u \in Upstreams, UpstreamSendFails(u) PROVE Inv'
  <2>1. Folded(u) \in Questions
    BY DEF Folded, Questions
  <2> QED BY <1>7, <2>1, PassFailureInv DEF UpstreamSendFails
<1>8. ASSUME NEW u \in Upstreams, UpstreamReceiveFails(u) PROVE Inv'
  BY <1>8, PassFailureInv DEF UpstreamReceiveFails, Questions
<1>9. ASSUME NEW u \in Upstreams, UpstreamReceive(u) PROVE Inv'
  <2>1. u \in timing /\ upReq[u] \in Requests
    BY <1>9 DEF UpstreamReceive, Inv, TypeOK, WatchersUsable
  <2>2. /\ question' \in [Upstreams -> Questions]
        /\ \A v \in Upstreams : v # u => question'[v] = question[v]
        /\ cache' \subseteq Names
    BY <1>9, <2>1 DEF UpstreamReceive, Store, Inv, TypeOK, Questions
  <2> QED BY <1>9, <2>1, <2>2, CloseUpstreamInv DEF UpstreamReceive
<1>10. ASSUME NEW u \in Upstreams, UpstreamTimeout(u) PROVE Inv'
  BY <1>10, CloseUpstreamInv DEF UpstreamTimeout, Inv, TypeOK
<1>11. ASSUME LoopEnds PROVE Inv'
  BY <1>11 DEF LoopEnds, upObj, history, Inv, TypeOK, MadeInOrder, ReadingIsFresh,
               ActiveIsAlive, UpstreamPending, ReplyRecorded, AtMostOneResponse,
               ServfailMeansUndelivered, WatchersUsable, OneUpstreamEach, AnsweredIsSettled
<1>12. ASSUME UNCHANGED vars PROVE Inv'
  <2> USE <1>12 DEF vars, inVars, upVars, upObj, watched, history
  <2>1. TypeOK' /\ MadeInOrder' /\ ReadingIsFresh' /\ ActiveIsAlive'
    BY DEF Inv, TypeOK, MadeInOrder, ReadingIsFresh, ActiveIsAlive, Alive
  <2>2. UpstreamPending' /\ ReplyRecorded' /\ AtMostOneResponse' /\ WatchersUsable'
    BY DEF Inv, UpstreamPending, ReplyRecorded, AtMostOneResponse, WatchersUsable
  <2>3. ServfailMeansUndelivered' /\ OneUpstreamEach' /\ AnsweredIsSettled'
    BY DEF Inv, ServfailMeansUndelivered, OneUpstreamEach, AnsweredIsSettled
  <2> QED BY <2>1, <2>2, <2>3 DEF Inv
<1> QED
  BY <1>1, <1>2, <1>3, <1>4, <1>5, <1>6, <1>7, <1>8, <1>9, <1>10, <1>11, <1>12 DEF Next

\* The whole invariant, type correctness included, holds in every state.
THEOREM Invariance == Spec => []Inv
BY InitInv, NextInv, PTL DEF Spec

\* The state keeps its type.
THEOREM TypeCorrect == Spec => []TypeOK
<1>1. Inv => TypeOK BY DEF Inv
<1> QED BY <1>1, Invariance, PTL

\* No request is answered twice, however callbacks interleave.
THEOREM AnsweredOnce == Spec => []AtMostOneResponse
<1>1. Inv => AtMostOneResponse
  BY DEF Inv
<1> QED BY <1>1, Invariance, PTL

\* A client that is told SERVFAIL may ask again: no resolver has seen the
\* question.
THEOREM ServfailIsEarly == Spec => []ServfailMeansUndelivered
<1>1. Inv => ServfailMeansUndelivered
  BY DEF Inv
<1> QED BY <1>1, Invariance, PTL

\* No callback runs on a closed socket or without the packet it needs.
THEOREM CallbacksSafe == Spec => []WatchersUsable
<1>1. Inv => WatchersUsable
  BY DEF Inv
<1> QED BY <1>1, Invariance, PTL

\* A question is asked upstream at most once.
THEOREM AskedOnce == Spec => []OneUpstreamEach
<1>1. Inv => OneUpstreamEach BY DEF Inv
<1> QED BY <1>1, Invariance, PTL

\* A TCP connection is read only while its listener has it in its vector.
THEOREM ReadsAreQueued == Spec => []ReadingIsFresh
<1>1. Inv => ReadingIsFresh BY DEF Inv
<1> QED BY <1>1, Invariance, PTL

\* An answered request has no upstream that may still act for it.
THEOREM SettledOnce == Spec => []AnsweredIsSettled
<1>1. Inv => AnsweredIsSettled BY DEF Inv
<1> QED BY <1>1, Invariance, PTL

-----------------------------------------------------------------------------
(***************************************************************************)
(* Refinement: a request the proxy has forgotten stays unanswered.         *)
(***************************************************************************)

\* What responder::process does for a request r, seen by the other requests.
LEMMA ProcessFrame ==
  ASSUME Inv, NEW r \in Requests, NEW n, NEW act, Process(r, n, act)
  PROVE  /\ \A x \in Requests : x # r => sent'[x] = sent[x]
         /\ sent'[r] \in {sent[r], sent[r] + 1}
         /\ \A u \in upq' : (u \in upq /\ upReq'[u] = upReq[u]) \/ upReq'[u] = r
<1> USE DEF upVars, upObj, watched, history
<1>1. CASE DropBad(r, act) \/ AnswerDirectly(r, n, act) \/ NoProvider(r, act)
  BY <1>1 DEF DropBad, AnswerDirectly, NoProvider, Respond, Inv, TypeOK
<1>2. CASE StartUpstream(r, act)
  <2>1. upCount + 1 \in Upstreams /\ upCount + 1 \notin 1..upCount
    BY <1>2, ProxyAssumption DEF StartUpstream, Inv, TypeOK, Upstreams
  <2>2. KeptUpstreams \subseteq upq /\ upq \subseteq 1..upCount
    BY KeptInQueue DEF Inv, MadeInOrder
  <2> QED BY <1>2, <2>1, <2>2 DEF StartUpstream, Inv, TypeOK
<1>3. CASE StartFails(r, act)
  BY <1>3, KeptInQueue DEF StartFails, Respond, Inv, TypeOK
<1> QED BY <1>1, <1>2, <1>3 DEF Process

\* What a step may do to any request: a new request is alive, no other comes to
\* life, and only a live or new request is answered, by one response.
StepFacts ==
  /\ count' = count \/ (count' = count + 1 /\ count + 1 \in Alive')
  /\ \A x \in Alive' : x \in Alive \/ (x = count + 1 /\ x = count')
  /\ \A x \in Requests :
       \/ sent'[x] = sent[x]
       \/ /\ sent'[x] = sent[x] + 1
          /\ x \in Alive \/ (x = count + 1 /\ x = count')

\* What one callback does to the requests as the client sees them: nobody is
\* answered or revived once forgotten.
LEMMA NextFacts ==
  ASSUME Inv, Next
  PROVE  StepFacts
<1> USE ProxyAssumption
<1>1. ASSUME NEW n \in Names, UdpMessage(n) PROVE StepFacts
  <2>1. /\ count' = count + 1 /\ count + 1 \in Requests
        /\ inq' = KeptIncoming("udp") \cup {count + 1}
    BY <1>1 DEF UdpMessage, Accept, Inv, TypeOK, Requests
  <2>2. KeptIncoming("udp") \subseteq inq
    BY KeptInQueue
  <2>3. /\ \A x \in Requests : x # count + 1 => sent'[x] = sent[x]
        /\ sent'[count + 1] \in {sent[count + 1], sent[count + 1] + 1}
        /\ \A u \in upq' : (u \in upq /\ upReq'[u] = upReq[u]) \/ upReq'[u] = count + 1
    BY <1>1, <2>1, ProcessFrame DEF UdpMessage
  <2>4. \A x \in Alive' : x \in Alive \/ x = count + 1
    BY <2>1, <2>2, <2>3 DEF Alive
  <2>5. count + 1 \in Alive'
    BY <2>1 DEF Alive
  <2> QED BY <2>1, <2>3, <2>4, <2>5 DEF StepFacts
<1>2. ASSUME NEW n \in Names, TcpAccept(n) PROVE StepFacts
  <2>1. KeptIncoming("tcp") \subseteq inq
    BY KeptInQueue
  <2> QED BY <1>2, <2>1 DEF TcpAccept, Accept, upVars, upObj, history, Alive, StepFacts
<1>3. ASSUME NEW r \in Requests, TcpReceive(r) PROVE StepFacts
  <2>1. r \in Alive
    BY <1>3 DEF TcpReceive, Inv, ReadingIsFresh, Alive
  <2>2. /\ \A x \in Requests : x # r => sent'[x] = sent[x]
        /\ sent'[r] \in {sent[r], sent[r] + 1}
        /\ \A u \in upq' : (u \in upq /\ upReq'[u] = upReq[u]) \/ upReq'[u] = r
    BY <1>3, ProcessFrame DEF TcpReceive
  <2>3. count' = count /\ inq' = inq
    BY <1>3 DEF TcpReceive, inVars
  <2>4. \A x \in Alive' : x \in Alive
    BY <2>1, <2>2, <2>3 DEF Alive
  <2> QED BY <2>1, <2>2, <2>3, <2>4 DEF StepFacts
<1>4. ASSUME NEW r \in Requests, TcpReceiveFails(r) \/ IncomingTimeout(r) PROVE StepFacts
  BY <1>4 DEF TcpReceiveFails, IncomingTimeout, inVars, upVars, upObj, history, Alive,
              StepFacts
<1>5. ASSUME NEW u \in Upstreams,
             \/ UpstreamSend(u) \/ UpstreamConnectFails(u) \/ UpstreamSendFails(u)
             \/ UpstreamReceive(u) \/ UpstreamReceiveFails(u) \/ UpstreamTimeout(u)
      PROVE  StepFacts
  <2> USE DEF inVars, upObj, history
  <2>1. /\ count' = count /\ Alive' = Alive
        /\ UNCHANGED sent \/ sent' = [sent EXCEPT ![upReq[u]] = @ + 1]
        /\ u \in timing \cup sending \cup receiving
    BY <1>5 DEF UpstreamSend, UpstreamConnectFails, UpstreamSendFails, UpstreamReceive,
                UpstreamReceiveFails, UpstreamTimeout, PassFailure, Respond, Alive
  <2>2. CASE UNCHANGED sent
    BY <2>1, <2>2 DEF StepFacts
  <2>3. CASE sent' # sent
    <3>1. u \in sending \cup receiving
      BY <1>5, <2>3 DEF UpstreamSend, UpstreamConnectFails, UpstreamSendFails,
                UpstreamReceive, UpstreamReceiveFails, UpstreamTimeout
    <3>2. upReq[u] \in Alive /\ upReq[u] \in Requests
      BY <3>1 DEF Inv, TypeOK, WatchersUsable, Alive
    <3> QED BY <2>1, <2>3, <3>2 DEF StepFacts, Inv, TypeOK
  <2> QED BY <2>2, <2>3
<1>6. ASSUME LoopEnds PROVE StepFacts
  BY <1>6 DEF LoopEnds, history, Alive, StepFacts
<1> QED BY <1>1, <1>2, <1>3, <1>4, <1>5, <1>6 DEF Next

\* The proxy implements ClientView: answered at most once, and lost for good.
THEOREM Refinement == Spec => ImplementsClientView
<1>1. Init => Client!Init
  BY ProxyAssumption DEF Init, Client!Init, ViewOf, Requests
<1>2. Inv /\ Inv' /\ [Next]_vars => [Client!Next]_([r \in Requests |-> ViewOf(r)])
  <2> SUFFICES ASSUME Inv, Inv', [Next]_vars
               PROVE  [Client!Next]_([r \in Requests |-> ViewOf(r)])
    OBVIOUS
  <2>1. CASE UNCHANGED vars
    BY <2>1 DEF vars, inVars, upVars, upObj, history, ViewOf, Alive
  <2>2. CASE Next
    <3>1. StepFacts
      BY <2>2, NextFacts
    <3>2. ASSUME NEW x \in Requests
          PROVE  ViewOf(x)' \in Client!Views /\ <<ViewOf(x), ViewOf(x)'>> \in Client!Moves
      <4>1. /\ x \in Nat /\ count \in Nat /\ count' \in Nat
            /\ sent[x] \in {0, 1} /\ sent'[x] \in {0, 1}
            /\ x > count => sent[x] = 0
        BY ProxyAssumption DEF Inv, TypeOK, AtMostOneResponse, MadeInOrder, Requests
      <4>2. CASE x > count'
        BY <3>1, <4>1, <4>2 DEF StepFacts, ViewOf, Client!Views, Client!Moves
      <4>3. CASE x > count /\ x <= count'
        BY <3>1, <4>1, <4>3 DEF StepFacts, ViewOf, Client!Views, Client!Moves
      <4>4. CASE x <= count /\ sent[x] = 1
        BY <3>1, <4>1, <4>4 DEF StepFacts, ViewOf, Client!Views, Client!Moves
      <4>5. CASE x <= count /\ sent[x] = 0 /\ x \in Alive
        BY <3>1, <4>1, <4>5 DEF StepFacts, ViewOf, Client!Views, Client!Moves
      <4>6. CASE x <= count /\ sent[x] = 0 /\ x \notin Alive
        BY <3>1, <4>1, <4>6 DEF StepFacts, ViewOf, Client!Views, Client!Moves
      <4> QED BY <4>1, <4>2, <4>3, <4>4, <4>5, <4>6
    <3> QED BY <3>2 DEF Client!Next
  <2> QED BY <2>1, <2>2
<1> QED BY <1>1, <1>2, Invariance, PTL DEF Spec, ImplementsClientView, Client!Spec

=============================================================================
