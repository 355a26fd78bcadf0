--------------------------- MODULE ExchangeProofs ---------------------------
(***************************************************************************)
(* Theorems about Padding and Exchange, for all sizes, texts and ports.    *)
(***************************************************************************)
EXTENDS Exchange, SequenceTheorems, WellFoundedInduction, TLAPS

(***************************************************************************)
(* Padding                                                                 *)
(***************************************************************************)

\* Whatever rndfunc returns, pad_buffer adds at least MinPad octets and stays
\* within its room.
THEOREM PaddedFits ==
    ASSUME NEW len \in Nat, NEW room \in Nat, room >= len + MinPad,
           NEW rnd \in Rnd(len, room)
    PROVE  PaddedLen(len, room, rnd) \in len + MinPad .. room
<1>1. rnd \in Nat /\ MinPad \in Nat
  BY SizesAssumption DEF Rnd
<1>2. BlockSize - ((len + MinPad + rnd) % BlockSize) \in Nat
  BY <1>1, SizesAssumption
<1> QED BY <1>1, <1>2 DEF PaddedLen

\* Only near the limit of a packet there is no room for padding.
THEOREM PaddedUnlessFull ==
    ASSUME NEW len \in Nat, ~Full(len)
    PROVE  Room(len) \in Nat /\ Room(len) >= len + MinPad
BY SizesAssumption DEF Full, Room, Space

\* A padded text: the text itself, the mark and zeros.
LEMMA PaddedText ==
    ASSUME NEW text \in Seq(Octets), NEW room \in Nat, room >= Len(text) + MinPad,
           NEW rnd \in Rnd(Len(text), room), NEW b, b = pad_buffer(text, room, rnd)
    PROVE  /\ b \in Seq(Octets) /\ Len(b) = PaddedLen(Len(text), room, rnd)
           /\ Len(b) \in Len(text) + MinPad .. room
           /\ \A i \in 1 .. Len(text) : b[i] = text[i]
           /\ b[Len(text) + 1] = EndMark
           /\ \A i \in Len(text) + 2 .. Len(b) : b[i] = 0
<1> DEFINE n == PaddedLen(Len(text), room, rnd)
           tail == PadOctets(n - Len(text))
<1>1. Len(text) \in Nat /\ MinPad \in Nat /\ MinPad >= 1
  BY SizesAssumption
<1>2. n \in Len(text) + MinPad .. room
  BY <1>1, PaddedFits
<1>3. b = text \o tail
  BY <1>1 DEF pad_buffer
<1>4. n - Len(text) \in Nat /\ n - Len(text) >= 1
  BY <1>1, <1>2
<1> HIDE DEF n
<1>5. tail \in [1 .. n - Len(text) -> Octets]
  BY DEF PadOctets, Octets, EndMark
<1>6. tail \in Seq(Octets) /\ Len(tail) = n - Len(text)
  BY <1>4, <1>5
<1>7. tail[1] = EndMark /\ \A i \in 2 .. Len(tail) : tail[i] = 0
  BY <1>4, <1>6 DEF PadOctets
<1> HIDE DEF tail
<1>8. b \in Seq(Octets) /\ Len(b) = n
  BY <1>1, <1>2, <1>3, <1>6
<1>9. \A i \in 1 .. Len(b) : b[i] = IF i <= Len(text) THEN text[i] ELSE tail[i - Len(text)]
  BY <1>1, <1>2, <1>3, <1>6, <1>8
<1> QED BY <1>1, <1>2, <1>4, <1>6, <1>7, <1>8, <1>9 DEF n

\* A question that the client's curve does not refuse fits into its packet,
\* whether it is padded or not.
THEOREM QuestionFits ==
    ASSUME NEW text \in Seq(Octets), Len(text) > 0, ~NoSpace(Len(text)), NEW boxed \in Padded(text)
    PROVE  boxed \in Seq(Octets) /\ Len(boxed) \in 1 .. MaxSize - QueryHead
<1> DEFINE len == Len(text)
           room == Room(len)
<1>1. len \in Nat
  OBVIOUS
<1>2. PICK rnd \in Rnd(len, room) : boxed = pad_buffer(text, room, rnd)
  BY DEF Padded
<1>3. room \in Int /\ room <= MaxSize - QueryHead - 2 /\ len <= MaxSize - QueryHead
  BY <1>1, SizesAssumption DEF Room, Space, NoSpace
<1>4. CASE room < len + MinPad
  BY <1>1, <1>2, <1>3, <1>4, SizesAssumption DEF pad_buffer
<1>5. CASE room >= len + MinPad
  <2>1. room \in Nat
    BY <1>1, <1>3, <1>5, SizesAssumption
  <2>2. boxed \in Seq(Octets) /\ Len(boxed) \in len + MinPad .. room
    BY <1>1, <1>2, <1>5, <2>1, PaddedText
  <2> QED BY <1>1, <1>3, <2>1, <2>2, SizesAssumption
<1> QED BY <1>1, <1>3, <1>4, <1>5, SizesAssumption

\* find_end stops at the only position that its loop can stop at.
LEMMA StopIs ==
    ASSUME NEW text \in Seq(Octets), NEW k \in 1 .. Len(text),
           k = 1 \/ text[k] # 0,
           \A i \in k + 1 .. Len(text) : text[i] = 0
    PROVE  Stop(text) = k
<1> DEFINE P(j) == (j = 1 \/ text[j] # 0) /\ \A i \in j + 1 .. Len(text) : text[i] = 0
<1>1. Len(text) \in Nat
  OBVIOUS
<1>2. P(k)
  OBVIOUS
<1>3. Stop(text) \in 1 .. Len(text) /\ P(Stop(text))
  BY <1>2 DEF Stop
<1>4. \A j \in 1 .. Len(text) : P(j) => ~(j < k) /\ ~(k < j)
  BY <1>1, <1>2
<1> QED BY <1>1, <1>3, <1>4

\* Behind padding find_end finds the text's own end, even when the text ends
\* in zeros or in octets that look like padding.
THEOREM EndFound ==
    ASSUME NEW text \in Seq(Octets), NEW room \in Nat, room >= Len(text) + MinPad,
           NEW rnd \in Rnd(Len(text), room), NEW b, b = pad_buffer(text, room, rnd)
    PROVE  HasEnd(b) /\ find_end(b) = Len(text) /\ SubSeq(b, 1, Len(text)) = text
<1>1. Len(text) \in Nat /\ MinPad \in Nat /\ MinPad >= 1
  BY SizesAssumption
<1>2. /\ b \in Seq(Octets) /\ Len(b) \in Len(text) + MinPad .. room
      /\ \A i \in 1 .. Len(text) : b[i] = text[i]
      /\ b[Len(text) + 1] = EndMark
      /\ \A i \in Len(text) + 2 .. Len(b) : b[i] = 0
  BY PaddedText
<1>3. Stop(b) = Len(text) + 1
  <2>1. Len(text) + 1 \in 1 .. Len(b) /\ b[Len(text) + 1] # 0
    BY <1>1, <1>2 DEF EndMark
  <2>2. \A i \in (Len(text) + 1) + 1 .. Len(b) : b[i] = 0
    BY <1>1, <1>2
  <2> QED BY <1>2, <2>1, <2>2, StopIs
<1>4. SubSeq(b, 1, Len(text)) = text
  <2>1. \A i \in 1 .. Len(text) : b[i] \in Octets
    BY <1>1, <1>2
  <2>2. /\ SubSeq(b, 1, Len(text)) \in Seq(Octets)
        /\ Len(SubSeq(b, 1, Len(text))) = Len(text)
        /\ \A i \in 1 .. Len(text) : SubSeq(b, 1, Len(text))[i] = b[i]
    BY <1>1, <2>1, SubSeqProperties
  <2> QED BY <1>2, <2>2, SeqEqual
<1> QED BY <1>1, <1>2, <1>3, <1>4 DEF HasEnd, find_end

(***************************************************************************)
(* find_end always stops, also in a text without padding.                  *)
(***************************************************************************)

\* Every nonempty set of naturals has a least element.
LEMMA LeastNatural ==
    ASSUME NEW T, T \subseteq Nat, T # {}
    PROVE  \E x \in T : \A y \in T : x <= y
<1> DEFINE R == OpToRel(<, Nat)
<1>1. IsWellFoundedOn(R, Nat)
  BY NatLessThanWellFounded
<1>2. PICK x \in T : \A y \in T : <<y, x>> \notin R
  <2> HIDE DEF R
  <2> QED BY <1>1, WFMin
<1>3. \A y \in T : ~(y < x)
  BY <1>2 DEF OpToRel
<1> QED BY <1>3

\* The loop of find_end ends within the text.
LEMMA StopInText ==
    ASSUME NEW text \in Seq(Octets), Len(text) > 0
    PROVE  Stop(text) \in 1 .. Len(text)
<1> DEFINE n == Len(text)
           T == {j \in 0 .. n - 1 : n - j = 1 \/ text[n - j] # 0}
<1>1. n \in Nat /\ n > 0
  OBVIOUS
<1>2. n - 1 \in T
  BY <1>1
<1>3. PICK j \in T : \A y \in T : j <= y
  <2>1. T \subseteq 0 .. n - 1
    OBVIOUS
  <2>2. 0 .. n - 1 \subseteq Nat
    BY <1>1
  <2> HIDE DEF T
  <2> QED BY <1>2, <2>1, <2>2, LeastNatural
<1>4. n - j \in 1 .. n /\ (n - j = 1 \/ text[n - j] # 0)
  BY <1>1, <1>3
<1>5. ASSUME NEW i \in (n - j) + 1 .. n
      PROVE  text[i] = 0
  <2>1. n - i \in 0 .. n - 1 /\ n - i < j /\ n - (n - i) = i
    BY <1>1, <1>3, <1>5
  <2>2. n - i \notin T
    <3>1. j \in 0 .. n - 1
      BY <1>3
    <3> HIDE DEF T
    <3> QED BY <1>1, <1>3, <2>1, <3>1
  <2> QED BY <2>1, <2>2
<1> QED BY <1>4, <1>5 DEF Stop

\* What decryption leaves of a text that curve has padded, or not.
ReadOf(b) == SubSeq(b, 1, find_end(b))

\* A text is read back whole when it was padded, and a part of it otherwise.
LEMMA ReadBack ==
    ASSUME NEW text \in Seq(Octets), Len(text) > 0, NEW b \in Padded(text)
    PROVE  /\ b \in Seq(Octets) /\ ReadOf(b) \in Seq(Octets)
           /\ ReadAs(text, ReadOf(b))
           /\ ~Full(Len(text)) => HasEnd(b) /\ find_end(b) = Len(text)
<1> DEFINE len == Len(text)
           room == Room(len)
<1>1. len \in Nat /\ room \in Int /\ MinPad \in Nat
  BY SizesAssumption DEF Room, Space
<1>2. PICK rnd \in Rnd(len, room) : b = pad_buffer(text, room, rnd)
  BY DEF Padded
<1>3. CASE room >= len + MinPad
  <2>1. room \in Nat
    BY <1>1, <1>3
  <2>2. HasEnd(b) /\ find_end(b) = len /\ SubSeq(b, 1, len) = text
    BY <1>2, <1>3, <2>1, EndFound
  <2>3. b \in Seq(Octets)
    BY <1>2, <1>3, <2>1, PaddedText
  <2>4. ReadOf(b) = text
    BY <2>2 DEF ReadOf
  <2> QED BY <2>2, <2>3, <2>4 DEF ReadAs
<1>4. CASE room < len + MinPad
  <2>1. b = text
    BY <1>2, <1>4 DEF pad_buffer
  <2>2. Full(len)
    BY <1>1, <1>4, PaddedUnlessFull
  <2>3. find_end(b) \in 0 .. len
    BY <1>1, <2>1, StopInText DEF find_end
  <2>4. SubSeq(text, 1, find_end(b)) \in Seq(Octets)
    <3>1. \A i \in 1 .. find_end(b) : text[i] \in Octets
      BY <1>1, <2>3
    <3> QED BY <2>3, <3>1, SubSeqProperties
  <2> QED BY <2>1, <2>2, <2>3, <2>4 DEF ReadOf, ReadAs
<1> QED BY <1>1, <1>3, <1>4

(***************************************************************************)
(* Exchange                                                                *)
(***************************************************************************)

\* Texts of questions and answers are nonempty octets behind a header.
LEMMA TextsAreOctets ==
    ASSUME NEW t \in Asks \cup Answers
    PROVE  t \in Seq(Octets) /\ Len(t) > 0 /\ IsDns(t)
BY ExchangeAssumption DEF IsDns

\* A datagram that the server can read gives a request for what was asked.
LEMMA RequestIsRead ==
    ASSUME Inv, NEW d \in toServer, ~Unreadable(d)
    PROVE  /\ Request(d) \in [nonce : Questions \cup {Plain}, port : Ports,
                              provider : {"none", "plain", "crypt"}, text : Seq(Octets)]
           /\ Request(d).nonce = d.nonce
           /\ d.nonce # Plain =>
                /\ phase[d.nonce] # "new" /\ cipher = ServerCipher
                /\ ReadAs(asked[d.nonce], Request(d).text)
<1>1. /\ d.nonce \in Questions \cup {Plain} /\ d.text \in Seq(Octets) /\ d.port \in Ports
      /\ d.nonce # Plain => phase[d.nonce] # "new" /\ asked[d.nonce] \in Asks
                            /\ d.text \in Padded(asked[d.nonce])
  BY DEF Inv, Shape, DatagramsAreAsked
<1>2. CASE d.nonce = Plain
  BY <1>1, <1>2 DEF Request
<1>3. CASE d.nonce # Plain
  <2>1. asked[d.nonce] \in Seq(Octets) /\ Len(asked[d.nonce]) > 0
    BY <1>1, <1>3, TextsAreOctets
  <2>2. ReadOf(d.text) \in Seq(Octets) /\ ReadAs(asked[d.nonce], ReadOf(d.text))
    BY <1>1, <1>3, <2>1, ReadBack
  <2>3. Request(d).text = ReadOf(d.text)
    BY <1>3 DEF Request, ReadOf
  <2>4. cipher = ServerCipher
    BY <1>3 DEF Unreadable
  <2> QED BY <1>1, <1>3, <2>2, <2>3, <2>4 DEF Request
<1> QED BY <1>2, <1>3

\* The class that respond meets, by the way of the reply.
ClassFor(nonce, via) ==
    CASE via \in {"failure", "plain"} -> Class(nonce)
      [] via = "local" -> "query"
      [] via = "crypt" -> "message"

\* A reply adds to what was sent, in the kind that its way allows.
LEMMA RespondKeeps ==
    ASSUME RepliesAreSealed, RepliesInKind,
           proc \in [client : {"running", "ended"}, server : {"running", "ended", "undefined"}],
           NEW req, req.nonce \in Questions \cup {Plain},
           req.nonce # Plain => cipher = ServerCipher,
           NEW text \in Seq(Octets), IsDns(text),
           NEW via \in {"local", "failure", "plain", "crypt"},
           NEW class, class = ClassFor(req.nonce, via),
           Respond(req, class, text, via), cipher' = cipher
    PROVE  /\ RepliesAreSealed' /\ RepliesInKind'
           /\ toClient \subseteq toClient'
           /\ proc' \in [client : {"running", "ended"}, server : {"running", "ended", "undefined"}]
           /\ proc'.client = proc.client /\ proc'.server \in {proc.server, "undefined"}
<1>0. Len(text) > 0
  BY ExchangeAssumption DEF IsDns
<1>1. CASE Overrun(class, text) /\ proc' = [proc EXCEPT !.server = "undefined"] /\ UNCHANGED toClient
  <2>1. RepliesAreSealed' /\ RepliesInKind'
    BY <1>1 DEF RepliesAreSealed, RepliesInKind
  <2> QED BY <1>1, <2>1
<1>2. CASE (\E r \in Replies(req, class, text, via) : toClient' = toClient \cup {r}) /\ UNCHANGED proc
  <2>1. PICK r \in Replies(req, class, text, via) : toClient' = toClient \cup {r}
    BY <1>2
  <2>2. r.question = req.nonce /\ r.answer = text /\ r.via = via
    BY <2>1 DEF Replies
  <2>3. /\ class = "emessage" => r.nonce = req.nonce /\ r.text \in Padded(text)
        /\ class # "emessage" => r.nonce = Plain /\ r.text = text
    BY <2>1 DEF Replies
  <2>4. class = "emessage" <=> req.nonce # Plain /\ via \in {"failure", "plain"}
    BY DEF ClassFor, Class
  <2>5. r.text \in Seq(Octets)
    BY <1>0, <2>3, ReadBack
  <2>6. RepliesAreSealed'
    BY <2>1, <2>2, <2>3, <2>4, <2>5 DEF RepliesAreSealed
  <2>7. RepliesInKind'
    BY <2>1, <2>2, <2>3, <2>4 DEF RepliesInKind
  <2> QED BY <1>2, <2>1, <2>6, <2>7
<1> QED BY <1>1, <1>2 DEF Respond

\* Requests and processes.
RequestType ==
    [nonce : Questions \cup {Plain}, port : Ports,
     provider : {"none", "plain", "crypt"}, text : Seq(Octets)]

Procs == [client : {"running", "ended"}, server : {"running", "ended", "undefined"}]

\* What a request in the server's hands satisfies.
GoodRequest(req) ==
    /\ req \in RequestType
    /\ req.provider # "none" => IsDns(req.text)
    /\ req.nonce # Plain =>
        phase[req.nonce] # "new" /\ cipher = ServerCipher /\ ReadAs(asked[req.nonce], req.text)

\* Every request is good, and the nonce of an encrypted one is a question.
LEMMA RequestsAreGood ==
    ASSUME Inv, NEW i \in DOMAIN reqs
    PROVE  GoodRequest(reqs[i]) /\ (reqs[i].nonce # Plain => reqs[i].nonce \in Questions)
<1>1. reqs \in Seq(RequestType)
  BY DEF Inv, Shape, RequestType
<1>2. reqs[i] \in RequestType
  BY <1>1
<1>3. reqs[i].nonce \in Questions \cup {Plain}
  BY <1>2 DEF RequestType
<1> QED BY <1>2, <1>3 DEF Inv, RequestsAreRead, GoodRequest

\* A new request that is good keeps what is said of requests.
LEMMA AppendKeeps ==
    ASSUME Inv, UNCHANGED clientVars, NEW req, GoodRequest(req), reqs' = Append(reqs, req)
    PROVE  reqs' \in Seq(RequestType) /\ RequestsAreRead'
<1>1. reqs \in Seq(RequestType) /\ RequestsAreRead /\ req \in RequestType
  BY DEF Inv, Shape, RequestType, GoodRequest
<1>2. reqs' \in Seq(RequestType) /\ Len(reqs') = Len(reqs) + 1 /\ Len(reqs) \in Nat
  BY <1>1
<1>3. \A i \in DOMAIN reqs' : (i \in DOMAIN reqs /\ reqs'[i] = reqs[i]) \/ reqs'[i] = req
  BY <1>1, <1>2
<1>4. RequestsAreRead'
  BY <1>1, <1>3 DEF RequestsAreRead, GoodRequest, clientVars
<1> QED BY <1>2, <1>4

\* A request that loses its upstream stays what it was.
LEMMA SettleKeeps ==
    ASSUME Inv, UNCHANGED clientVars, NEW i \in DOMAIN reqs, Settle(i)
    PROVE  reqs' \in Seq(RequestType) /\ RequestsAreRead'
<1>1. reqs \in Seq(RequestType) /\ RequestsAreRead
  BY DEF Inv, Shape, RequestType
<1>2. reqs[i] \in RequestType /\ i \in 1 .. Len(reqs)
  BY <1>1
<1>3. [reqs[i] EXCEPT !.provider = "none"] \in RequestType
  BY <1>2 DEF RequestType
<1>4. reqs' = [reqs EXCEPT ![i] = [reqs[i] EXCEPT !.provider = "none"]]
  BY DEF Settle
<1>5. reqs' \in Seq(RequestType) /\ DOMAIN reqs' = DOMAIN reqs
  BY <1>1, <1>2, <1>3, <1>4, ExceptSeq
<1>6. \A j \in DOMAIN reqs : j # i => reqs'[j] = reqs[j]
  BY <1>4
<1>7. reqs'[i].provider = "none" /\ reqs'[i].nonce = reqs[i].nonce /\ reqs'[i].text = reqs[i].text
  BY <1>2, <1>4 DEF RequestType
<1>8. RequestsAreRead'
  BY <1>1, <1>5, <1>6, <1>7 DEF RequestsAreRead, clientVars
<1> QED BY <1>5, <1>8

\* A step of the server leaves the client's half of the invariant alone.
LEMMA ServerKeeps ==
    ASSUME Inv, UNCHANGED clientVars, toClient \subseteq toClient',
           reqs' \in Seq(RequestType), RequestsAreRead', RepliesAreSealed', RepliesInKind',
           proc' \in Procs, proc'.client = proc.client,
           proc'.server = "ended" =>
                \/ proc.server = "ended" \/ cipher # ServerCipher
                \/ \E q \in Questions : phase[q] # "new" /\ Full(Len(asked[q]))
    PROVE  Inv'
<1>1. Shape'
  BY DEF Inv, Shape, RequestType, Procs, clientVars
<1>2. DatagramsAreAsked'
  BY DEF Inv, DatagramsAreAsked, clientVars
<1>3. OwnAnswer'
  BY DEF Inv, OwnAnswer, RequestsAreRead, clientVars
<1>4. EndsForReason'
  BY DEF Inv, EndsForReason, clientVars
<1> QED BY <1>1, <1>2, <1>3, <1>4 DEF Inv

\* A question that is encrypted and sent, or too long for it.
LEMMA FoldKeeps ==
    ASSUME Inv, NEW q \in Questions, NEW text \in Asks, Fold(q, text)
    PROVE  Inv'
<1>1. /\ text \in Seq(Octets) /\ Len(text) > 0
      /\ proc.client = "running" /\ phase[q] = "new" /\ q # Plain
  BY TextsAreOctets, ExchangeAssumption DEF Fold
<1>2. UNCHANGED <<cipher, port, got, toClient, reqs>> /\ asked' = [asked EXCEPT ![q] = text]
  BY DEF Fold, serverVars
<1>3. Shape /\ asked \in [Questions -> Seq(Octets)] /\ phase \in [Questions -> {"new", "sent", "answered", "closed"}]
  BY DEF Inv, Shape
<1>4. \A o \in Questions : o # q => asked'[o] = asked[o] /\ phase'[o] = phase[o]
  BY <1>2, <1>3 DEF Fold
<1>5. asked'[q] = text /\ asked' \in [Questions -> Seq(Octets)]
  BY <1>1, <1>2, <1>3
<1>6. RequestsAreRead'
  <2> SUFFICES ASSUME NEW i \in DOMAIN reqs, reqs[i].nonce # Plain
               PROVE  /\ phase'[reqs[i].nonce] # "new"
                      /\ cipher' = ServerCipher
                      /\ ReadAs(asked'[reqs[i].nonce], reqs[i].text)
    BY <1>2 DEF Inv, RequestsAreRead
  <2>1. /\ phase[reqs[i].nonce] # "new" /\ cipher = ServerCipher
        /\ ReadAs(asked[reqs[i].nonce], reqs[i].text)
    BY DEF Inv, RequestsAreRead
  <2>2. reqs[i].nonce \in Questions
    BY RequestsAreGood
  <2> QED BY <1>1, <1>2, <1>4, <2>1, <2>2
<1>7. RepliesAreSealed' /\ RepliesInKind'
  BY <1>2 DEF Inv, RepliesAreSealed, RepliesInKind
<1>8. CASE NoSpace(Len(text))
  <2>1. proc' = [proc EXCEPT !.client = "ended"] /\ UNCHANGED <<phase, toServer>>
    BY <1>8 DEF Fold
  <2>2. Shape'
    BY <1>2, <1>5, <2>1 DEF Inv, Shape
  <2>3. DatagramsAreAsked'
    BY <1>1, <1>4, <2>1 DEF Inv, DatagramsAreAsked
  <2>4. OwnAnswer'
    BY <1>2, <1>6, <2>1 DEF Inv, OwnAnswer, RequestsAreRead
  <2>5. EndsForReason'
    BY <1>1, <1>2, <1>3, <1>4, <1>5, <1>8, <2>1 DEF Inv, EndsForReason, Shape
  <2> QED BY <1>6, <1>7, <2>2, <2>3, <2>4, <2>5 DEF Inv
<1>9. CASE ~NoSpace(Len(text))
  <2>1. PICK boxed \in Padded(text) :
            toServer' = toServer \cup {[nonce |-> q, port |-> port[q], text |-> boxed]}
    BY <1>9 DEF Fold
  <2>2. phase' = [phase EXCEPT ![q] = "sent"] /\ UNCHANGED proc
    BY <1>9 DEF Fold
  <2>3. boxed \in Seq(Octets)
    BY <1>1, <2>1, ReadBack
  <2>4. Shape'
    BY <1>2, <1>3, <1>5, <2>1, <2>2 DEF Shape
  <2>5. DatagramsAreAsked'
    <3> SUFFICES ASSUME NEW d \in toServer'
                 PROVE  /\ d.nonce \in Questions \cup {Plain} /\ d.text \in Seq(Octets)
                        /\ d.nonce = Plain => IsDns(d.text)
                        /\ d.nonce # Plain =>
                            /\ phase'[d.nonce] # "new" /\ asked'[d.nonce] \in Asks
                            /\ ~NoSpace(Len(asked'[d.nonce])) /\ d.text \in Padded(asked'[d.nonce])
      BY DEF DatagramsAreAsked
    <3>1. CASE d \in toServer
      BY <1>1, <1>4, <3>1 DEF Inv, DatagramsAreAsked
    <3>2. CASE d = [nonce |-> q, port |-> port[q], text |-> boxed]
      BY <1>1, <1>3, <1>5, <1>9, <2>1, <2>2, <2>3, <3>2
    <3> QED BY <2>1, <3>1, <3>2
  <2>6. OwnAnswer'
    BY <1>1, <1>2, <1>3, <1>6, <2>2 DEF Inv, OwnAnswer, RequestsAreRead
  <2>7. EndsForReason'
    BY <1>1, <1>2, <1>3, <1>4, <2>2 DEF Inv, EndsForReason
  <2> QED BY <1>6, <1>7, <2>4, <2>5, <2>6, <2>7 DEF Inv
<1> QED BY <1>8, <1>9

\* An answer that is decrypted, or that ends the client.
LEMMA UnfoldKeeps ==
    ASSUME Inv, NEW q \in Questions, NEW r \in toClient, Unfold(q, r)
    PROVE  Inv'
<1>1. /\ proc.client = "running" /\ phase[q] = "sent" /\ r.port = port[q] /\ q # Plain
      /\ UNCHANGED <<cipher, port, asked, toServer, toClient, reqs>>
  BY ExchangeAssumption DEF Unfold, serverVars
<1>2. Shape /\ phase \in [Questions -> {"new", "sent", "answered", "closed"}] /\ got \in [Questions -> Seq(Octets)]
  BY DEF Inv, Shape
<1>3. /\ r.answer \in Seq(Octets) /\ IsDns(r.answer) /\ r.text \in Seq(Octets)
      /\ r.via \in {"local", "failure", "plain", "crypt"}
      /\ r.nonce # Plain => cipher = ServerCipher /\ r.text \in Padded(r.answer) /\ r.nonce = r.question
      /\ r.question # Plain /\ r.via \in {"failure", "plain"} => r.nonce = r.question
  BY DEF Inv, RepliesAreSealed, RepliesInKind
<1>4. Len(r.answer) \in Nat /\ Len(r.answer) > DnsHeader /\ DnsHeader \in Nat
  BY <1>3, ExchangeAssumption DEF IsDns
<1>5. r.nonce # Plain =>
        /\ ReadOf(r.text) \in Seq(Octets) /\ ReadAs(r.answer, ReadOf(r.text))
        /\ ~Full(Len(r.answer)) => HasEnd(r.text) /\ find_end(r.text) = Len(r.answer)
  BY <1>3, <1>4, ReadBack
<1>6. \A o \in Questions : phase'[o] # "new" <=> phase[o] # "new"
  BY <1>1, <1>2 DEF Unfold
<1>7. DatagramsAreAsked' /\ RequestsAreRead'
  <2>1. DatagramsAreAsked'
    BY <1>1, <1>6 DEF Inv, DatagramsAreAsked
  <2>2. \A i \in DOMAIN reqs : reqs[i].nonce # Plain => reqs[i].nonce \in Questions
    BY RequestsAreGood
  <2>3. RequestsAreRead'
    BY <1>1, <1>6, <2>2 DEF Inv, RequestsAreRead
  <2> QED BY <2>1, <2>3
<1>8. RepliesAreSealed' /\ RepliesInKind'
  BY <1>1 DEF Inv, RepliesAreSealed, RepliesInKind
<1>9. CASE Opens(q, r)
  <2>1. got' = [got EXCEPT ![q] = ReadOf(r.text)] /\ phase' = [phase EXCEPT ![q] = "answered"] /\ UNCHANGED proc
    BY <1>9 DEF Unfold, ReadOf
  <2>2. r.nonce # Plain /\ r.question = q
    BY <1>3, <1>9 DEF Opens
  <2>3. Shape'
    BY <1>1, <1>2, <1>5, <2>1, <2>2 DEF Shape
  <2>4. OwnAnswer'
    BY <1>1, <1>2, <1>5, <2>1, <2>2 DEF Inv, OwnAnswer
  <2>5. EndsForReason'
    BY <1>1, <1>6, <2>1 DEF Inv, EndsForReason
  <2> QED BY <1>7, <1>8, <2>3, <2>4, <2>5 DEF Inv
<1>10. CASE ~Opens(q, r)
  <2>1. proc' = [proc EXCEPT !.client = "ended"] /\ phase' = [phase EXCEPT ![q] = "closed"] /\ UNCHANGED got
    BY <1>10 DEF Unfold
  <2>2. Shape'
    BY <1>1, <1>2, <2>1 DEF Shape
  <2>3. OwnAnswer'
    BY <1>1, <1>2, <2>1 DEF Inv, OwnAnswer
  <2>4. r.question # q \/ Full(Len(r.answer)) \/ r.via \in {"local", "crypt"}
    BY <1>1, <1>3, <1>4, <1>5, <1>10 DEF Opens
  <2>5. EndsForReason'
    <3>1. phase'[q] = "closed" /\ r \in toClient' /\ r.port = port'[q] /\ proc'.server = proc.server
      BY <1>1, <1>2, <2>1 DEF Shape
    <3> QED BY <1>1, <1>6, <2>4, <3>1 DEF Inv, EndsForReason
  <2> QED BY <1>7, <1>8, <2>2, <2>3, <2>5 DEF Inv
<1> QED BY <1>9, <1>10

\* An upstream that is closed by its timer.
LEMMA TimeoutKeeps ==
    ASSUME Inv, NEW q \in Questions, Timeout(q)
    PROVE  Inv'
<1>1. /\ proc.client = "running" /\ phase[q] = "sent"
      /\ phase' = [phase EXCEPT ![q] = "closed"]
      /\ UNCHANGED <<cipher, proc, port, asked, got, toServer, toClient, reqs>>
  BY DEF Timeout, serverVars
<1>2. Shape /\ phase \in [Questions -> {"new", "sent", "answered", "closed"}]
  BY DEF Inv, Shape
<1>3. \A o \in Questions : phase'[o] # "new" <=> phase[o] # "new"
  BY <1>1, <1>2
<1>4. \A i \in DOMAIN reqs : reqs[i].nonce # Plain => reqs[i].nonce \in Questions
  BY RequestsAreGood
<1>5. Shape'
  BY <1>1, <1>2 DEF Shape
<1>6. DatagramsAreAsked'
  BY <1>1, <1>3 DEF Inv, DatagramsAreAsked
<1>7. RequestsAreRead'
  BY <1>1, <1>3, <1>4 DEF Inv, RequestsAreRead
<1>8. RepliesAreSealed' /\ RepliesInKind'
  BY <1>1 DEF Inv, RepliesAreSealed, RepliesInKind
<1>9. OwnAnswer'
  BY <1>1, <1>2 DEF Inv, OwnAnswer
<1>10. EndsForReason'
  BY <1>1, <1>3 DEF Inv, EndsForReason
<1> QED BY <1>5, <1>6, <1>7, <1>8, <1>9, <1>10 DEF Inv

\* A question in plain text.
LEMMA PlainAskKeeps ==
    ASSUME Inv, NEW text \in Asks, NEW p \in Ports, PlainAsk(text, p)
    PROVE  Inv'
<1>1. /\ toServer' = toServer \cup {[nonce |-> Plain, port |-> p, text |-> text]}
      /\ UNCHANGED <<cipher, proc, phase, port, asked, got, toClient, reqs>>
  BY DEF PlainAsk, serverVars
<1>2. text \in Seq(Octets) /\ IsDns(text)
  BY TextsAreOctets
<1>3. Shape'
  BY <1>1 DEF Inv, Shape
<1>4. DatagramsAreAsked'
  BY <1>1, <1>2 DEF Inv, DatagramsAreAsked
<1>5. RequestsAreRead' /\ RepliesAreSealed' /\ RepliesInKind'
  BY <1>1 DEF Inv, RequestsAreRead, RepliesAreSealed, RepliesInKind
<1>6. OwnAnswer' /\ EndsForReason'
  BY <1>1 DEF Inv, OwnAnswer, EndsForReason
<1> QED BY <1>3, <1>4, <1>5, <1>6 DEF Inv

\* The server ends only for the other cipher or for a full question.
LEMMA RejectsKeeps ==
    ASSUME Inv, NEW d \in toServer, Rejects(d)
    PROVE  Inv'
<1>1. /\ proc' = [proc EXCEPT !.server = "ended"] /\ Unreadable(d)
      /\ UNCHANGED clientVars /\ UNCHANGED <<toClient, reqs>> /\ cipher' = cipher
  BY DEF Rejects, serverVars, clientVars
<1>2. /\ d.nonce \in Questions /\ phase[d.nonce] # "new" /\ asked[d.nonce] \in Asks
      /\ d.text \in Padded(asked[d.nonce])
  BY <1>1 DEF Inv, DatagramsAreAsked, Unreadable
<1>3. asked[d.nonce] \in Seq(Octets) /\ Len(asked[d.nonce]) > 0 /\ Len(asked[d.nonce]) > DnsHeader
  BY <1>2, TextsAreOctets, ExchangeAssumption DEF IsDns
<1>4. ~Full(Len(asked[d.nonce])) => HasEnd(d.text) /\ find_end(d.text) = Len(asked[d.nonce])
  BY <1>2, <1>3, ReadBack
<1>5. cipher # ServerCipher \/ Full(Len(asked[d.nonce]))
  BY <1>1, <1>3, <1>4, ExchangeAssumption DEF Unreadable
<1>6. proc \in Procs /\ reqs \in Seq(RequestType) /\ RequestsAreRead /\ RepliesAreSealed /\ RepliesInKind
  BY DEF Inv, Shape, Procs, RequestType
<1>7. proc' \in Procs /\ proc'.client = proc.client
  BY <1>1, <1>6 DEF Procs
<1>8. RequestsAreRead'
  BY <1>1, <1>6 DEF RequestsAreRead, clientVars
<1>9. RepliesAreSealed' /\ RepliesInKind'
  BY <1>1, <1>6 DEF RepliesAreSealed, RepliesInKind
<1> QED BY <1>1, <1>2, <1>5, <1>6, <1>7, <1>8, <1>9, ServerKeeps

\* A request that is read and closed, or sent on.
LEMMA TakesKeeps ==
    ASSUME Inv, UNCHANGED clientVars, UNCHANGED <<proc, toClient>>,
           reqs' \in Seq(RequestType), RequestsAreRead'
    PROVE  Inv'
<1>1. cipher' = cipher
  BY DEF clientVars
<1>2. RepliesAreSealed' /\ RepliesInKind'
  BY <1>1 DEF Inv, RepliesAreSealed, RepliesInKind
<1>3. proc \in Procs
  BY DEF Inv, Shape, Procs
<1> QED BY <1>2, <1>3, ServerKeeps

\* A request that gets a reply.
LEMMA AnswersKeeps ==
    ASSUME Inv, UNCHANGED clientVars, reqs' \in Seq(RequestType), RequestsAreRead',
           NEW req, GoodRequest(req), NEW text \in Seq(Octets), IsDns(text),
           NEW via \in {"local", "failure", "plain", "crypt"},
           Respond(req, ClassFor(req.nonce, via), text, via)
    PROVE  Inv'
<1>1. cipher' = cipher
  BY DEF clientVars
<1>2. req.nonce \in Questions \cup {Plain} /\ (req.nonce # Plain => cipher = ServerCipher)
  BY DEF GoodRequest, RequestType
<1>3. RepliesAreSealed /\ RepliesInKind /\ proc \in Procs
  BY DEF Inv, Shape, Procs
<1>4. /\ RepliesAreSealed' /\ RepliesInKind' /\ toClient \subseteq toClient' /\ proc' \in Procs
      /\ proc'.client = proc.client /\ proc'.server \in {proc.server, "undefined"}
  <2> DEFINE class == ClassFor(req.nonce, via)
  <2>1. class = ClassFor(req.nonce, via) /\ Respond(req, class, text, via)
    OBVIOUS
  <2> HIDE DEF class
  <2> QED BY <1>1, <1>2, <1>3, <2>1, RespondKeeps DEF Procs
<1> QED BY <1>4, ServerKeeps

\* Handling of one datagram by the server.
LEMMA DatagramKeeps ==
    ASSUME Inv, NEW d \in toServer,
           \/ Discard(d) \/ FailAtOnce(d)
           \/ \E t \in Answers : AnswerLocally(d, t)
           \/ \E provider \in {"plain", "crypt"} : Forward(d, provider)
    PROVE  Inv'
<1> DEFINE req == Request(d)
<1>1. ~Unreadable(d) /\ UNCHANGED clientVars
  BY DEF Discard, FailAtOnce, AnswerLocally, Forward, Accepts, Passes
<1>2. /\ req \in RequestType /\ req.nonce = d.nonce /\ req.provider = "none"
      /\ d.nonce # Plain => /\ phase[d.nonce] # "new" /\ cipher = ServerCipher
                            /\ ReadAs(asked[d.nonce], req.text)
  BY <1>1, RequestIsRead DEF RequestType, Request
<1> HIDE DEF req
<1>3. GoodRequest(req)
  BY <1>2 DEF GoodRequest
<1>4. req.text \in Seq(Octets)
  BY <1>2 DEF RequestType
<1>5. CASE Discard(d)
  BY <1>1, <1>3, <1>5, AppendKeeps, TakesKeeps DEF Discard, req
<1>6. CASE FailAtOnce(d)
  <2>1. IsDns(req.text) /\ reqs' = Append(reqs, req) /\ Respond(req, Class(d.nonce), req.text, "failure")
    BY <1>6 DEF FailAtOnce, Accepts, req
  <2>2. Class(d.nonce) = ClassFor(req.nonce, "failure")
    BY <1>2 DEF ClassFor
  <2>3. reqs' \in Seq(RequestType) /\ RequestsAreRead'
    BY <1>1, <1>3, <2>1, AppendKeeps
  <2> QED BY <1>1, <1>3, <1>4, <2>1, <2>2, <2>3, AnswersKeeps
<1>7. ASSUME NEW t \in Answers, AnswerLocally(d, t)
      PROVE  Inv'
  <2>1. reqs' = Append(reqs, req) /\ Respond(req, "query", t, "local")
    BY <1>7 DEF AnswerLocally, req
  <2>2. "query" = ClassFor(req.nonce, "local")
    BY DEF ClassFor
  <2>3. reqs' \in Seq(RequestType) /\ RequestsAreRead'
    BY <1>1, <1>3, <2>1, AppendKeeps
  <2>4. t \in Seq(Octets) /\ IsDns(t)
    BY TextsAreOctets
  <2> QED BY <1>1, <1>3, <2>1, <2>2, <2>3, <2>4, AnswersKeeps
<1>8. ASSUME NEW provider \in {"plain", "crypt"}, Forward(d, provider)
      PROVE  Inv'
  <2> DEFINE sent == [req EXCEPT !.provider = provider]
  <2>1. /\ IsDns(req.text) /\ reqs' = Append(reqs, sent) /\ UNCHANGED <<proc, toClient>>
    BY <1>8 DEF Forward, Accepts, req
  <2>2. /\ sent \in RequestType /\ sent.nonce = req.nonce /\ sent.text = req.text
    BY <1>2 DEF RequestType
  <2> HIDE DEF sent
  <2>3. GoodRequest(sent)
    BY <1>2, <2>1, <2>2 DEF GoodRequest
  <2>4. reqs' \in Seq(RequestType) /\ RequestsAreRead'
    BY <1>1, <2>1, <2>3, AppendKeeps
  <2> QED BY <1>1, <2>1, <2>4, TakesKeeps
<1> QED BY <1>5, <1>6, <1>7, <1>8

\* The end of an upstream at the server: answer, failure or silence.
LEMMA UpstreamKeeps ==
    ASSUME Inv, NEW i \in DOMAIN reqs,
           PassFailure(i) \/ Silent(i) \/ \E t \in Answers : PassAnswer(i, t)
    PROVE  Inv'
<1>1. UNCHANGED clientVars /\ Settle(i) /\ reqs[i].provider # "none"
  BY DEF PassFailure, Silent, PassAnswer
<1>2. reqs' \in Seq(RequestType) /\ RequestsAreRead'
  BY <1>1, SettleKeeps
<1>3. GoodRequest(reqs[i])
  BY RequestsAreGood
<1>4. /\ reqs[i].provider \in {"plain", "crypt"} /\ reqs[i].text \in Seq(Octets)
      /\ IsDns(reqs[i].text)
  BY <1>1, <1>3 DEF GoodRequest, RequestType
<1>5. AdaptedClass(Class(reqs[i].nonce), reqs[i].provider) = ClassFor(reqs[i].nonce, reqs[i].provider)
  BY <1>4 DEF AdaptedClass, ClassFor
<1>6. CASE Silent(i)
  BY <1>1, <1>2, <1>6, TakesKeeps DEF Silent
<1>7. CASE PassFailure(i)
  <2>1. Respond(reqs[i], ClassFor(reqs[i].nonce, reqs[i].provider), reqs[i].text, reqs[i].provider)
    BY <1>5, <1>7 DEF PassFailure
  <2> QED BY <1>1, <1>2, <1>3, <1>4, <2>1, AnswersKeeps
<1>8. ASSUME NEW t \in Answers, PassAnswer(i, t)
      PROVE  Inv'
  <2>1. Respond(reqs[i], ClassFor(reqs[i].nonce, reqs[i].provider), t, reqs[i].provider)
    BY <1>5, <1>8 DEF PassAnswer
  <2>2. t \in Seq(Octets) /\ IsDns(t)
    BY TextsAreOctets
  <2> QED BY <1>1, <1>2, <1>3, <1>4, <2>1, <2>2, AnswersKeeps
<1> QED BY <1>6, <1>7, <1>8

\* The invariant holds at the start.
LEMMA InitInv == Init => Inv
<1> SUFFICES ASSUME Init PROVE Inv
  OBVIOUS
<1>1. /\ reqs = <<>> /\ toServer = {} /\ toClient = {} /\ \A q \in Questions : phase[q] = "new"
      /\ proc.client = "running" /\ proc.server = "running"
  BY DEF Init
<1>2. NoText \in Seq(Octets)
  BY DEF NoText
<1>3. Shape
  BY <1>2 DEF Init, Shape
<1>4. DOMAIN reqs = {}
  BY <1>1
<1>5. DatagramsAreAsked /\ RequestsAreRead /\ RepliesAreSealed /\ RepliesInKind
  BY <1>1, <1>4 DEF DatagramsAreAsked, RequestsAreRead, RepliesAreSealed, RepliesInKind
<1>6. OwnAnswer /\ EndsForReason
  BY <1>1, <1>4 DEF OwnAnswer, EndsForReason
<1> QED BY <1>3, <1>5, <1>6 DEF Inv

\* Every step of the client, of the network and of the server keeps it.
LEMMA NextInv == Inv /\ [Next]_vars => Inv'
<1> SUFFICES ASSUME Inv, [Next]_vars PROVE Inv'
  OBVIOUS
<1>1. CASE UNCHANGED vars
  BY <1>1 DEF vars, Inv, Shape, DatagramsAreAsked, RequestsAreRead, RepliesAreSealed,
              OwnAnswer, RepliesInKind, EndsForReason
<1>2. ASSUME NEW q \in Questions, NEW t \in Asks, Fold(q, t) PROVE Inv'
  BY <1>2, FoldKeeps
<1>3. ASSUME NEW q \in Questions, NEW r \in toClient, Unfold(q, r) PROVE Inv'
  BY <1>3, UnfoldKeeps
<1>4. ASSUME NEW q \in Questions, Timeout(q) PROVE Inv'
  BY <1>4, TimeoutKeeps
<1>5. ASSUME NEW t \in Asks, NEW p \in Ports, PlainAsk(t, p) PROVE Inv'
  BY <1>5, PlainAskKeeps
<1>6. ASSUME NEW d \in toServer, Rejects(d) PROVE Inv'
  BY <1>6, RejectsKeeps
<1>7. ASSUME NEW d \in toServer,
             \/ Discard(d) \/ FailAtOnce(d)
             \/ \E t \in Answers : AnswerLocally(d, t)
             \/ \E provider \in {"plain", "crypt"} : Forward(d, provider)
      PROVE  Inv'
  BY <1>7, DatagramKeeps
<1>8. ASSUME NEW i \in DOMAIN reqs,
             PassFailure(i) \/ Silent(i) \/ \E t \in Answers : PassAnswer(i, t)
      PROVE  Inv'
  BY <1>8, UpstreamKeeps
<1> QED BY <1>1, <1>2, <1>3, <1>4, <1>5, <1>6, <1>7, <1>8 DEF Next

\* The inductive invariant holds of every behaviour.
THEOREM Invariance == Spec => []Inv
BY InitInv, NextInv, PTL DEF Spec

\* Whatever is lost, repeated or late on a port that is used again: the client
\* passes on what the server gave for this very question, and the server works
\* on what was asked.
THEOREM AnswersAreOwn == Spec => []OwnAnswer
<1>1. Inv => OwnAnswer
  BY DEF Inv
<1> QED BY <1>1, Invariance, PTL

\* Padding of any length is removed exactly, except from full packets.
THEOREM PaddingUndone == Spec => []PaddingIsUndone
<1>1. Inv => PaddingIsUndone
  <2> SUFFICES ASSUME Inv PROVE PaddingIsUndone
    OBVIOUS
  <2>1. OwnAnswer
    BY DEF Inv
  <2> QED BY <2>1 DEF OwnAnswer, ReadAs, PaddingIsUndone
<1> QED BY <1>1, Invariance, PTL

\* Replies leave encrypted exactly on the ways that keep the class emessage.
THEOREM KindOfReplies == Spec => []RepliesInKind
<1>1. Inv => RepliesInKind
  BY DEF Inv
<1> QED BY <1>1, Invariance, PTL

\* Neither process ends by an exception of the cryptography without one of the
\* reasons listed.
THEOREM EndsAreJustified == Spec => []EndsForReason
<1>1. Inv => EndsForReason
  BY DEF Inv
<1> QED BY <1>1, Invariance, PTL

\* Encrypted questions fit into the space reserved for a packet.
THEOREM TypeCorrect == Spec => []TypeOK
<1>1. Inv => TypeOK
  <2> SUFFICES ASSUME Inv PROVE TypeOK
    OBVIOUS
  <2>1. ASSUME NEW d \in toServer, d.nonce # Plain
        PROVE  Len(d.text) + QueryHead <= MaxSize
    <3>1. /\ asked[d.nonce] \in Asks /\ ~NoSpace(Len(asked[d.nonce]))
          /\ d.text \in Padded(asked[d.nonce])
      BY <2>1 DEF Inv, DatagramsAreAsked
    <3>2. asked[d.nonce] \in Seq(Octets) /\ Len(asked[d.nonce]) > 0
      BY <3>1, TextsAreOctets
    <3>3. Len(d.text) \in 1 .. MaxSize - QueryHead
      BY <3>1, <3>2, QuestionFits
    <3> QED BY <3>3, SizesAssumption
  <2> QED BY <2>1 DEF Inv, Shape, DatagramsAreAsked, RepliesAreSealed, TypeOK
<1> QED BY <1>1, Invariance, PTL

=============================================================================
