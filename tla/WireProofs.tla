---------------------------- MODULE WireProofs ----------------------------
(***************************************************************************)
(* Proofs about what is on the wire: TcpFraming, for all messages, all bad *)
(* frames, any size of the receiver's buffer and any number of frames; and *)
(* Message, for all host names, all contents of peers' messages, all       *)
(* addresses, texts, ids and lifetimes, and any number of answers.         *)
(*                                                                         *)
(* Framing.  What the receiver holds, followed by its socket and the wire, *)
(* is one stream that only grows at its end and that begins with the first *)
(* frame.  So the length that the receiver reads is that of the first      *)
(* frame, and when it holds that many octets they are that frame.          *)
(*                                                                         *)
(* Messages.  The octets of a message are those of its content, always:    *)
(* MessageInv.  The walk of get_rr over the octets of a content finds that *)
(* content (WalkReads), because every part is read back where it stands: a *)
(* number, a name, the question, a record.  The walk over a message that   *)
(* was cut short finds the same or throws, and what it finds ends where    *)
(* the cut message ends (WalkCut).  The octets that adjust_id_and_ttl      *)
(* changes are those of the lifetimes and no others (AgedBody).            *)
(***************************************************************************)
EXTENDS TcpFraming, Message, SequenceTheorems, WellFoundedInduction, TLAPS

-----------------------------------------------------------------------------
(* Sequences *)

\* What a concatenation holds, place by place.
LEMMA ConcatParts ==
    ASSUME NEW S, NEW s \in Seq(S), NEW t \in Seq(S)
    PROVE  /\ s \o t \in Seq(S) /\ Len(s \o t) = Len(s) + Len(t)
           /\ \A i \in 1 .. Len(s) : (s \o t)[i] = s[i]
           /\ \A i \in 1 .. Len(t) : (s \o t)[Len(s) + i] = t[i]
  OBVIOUS

\* Cutting a sequence in two loses nothing: what recv takes and what it leaves.
LEMMA CutParts ==
    ASSUME NEW S, NEW s \in Seq(S), NEW n \in 0 .. Len(s)
    PROVE  /\ SubSeq(s, 1, n) \in Seq(S) /\ Len(SubSeq(s, 1, n)) = n
           /\ SubSeq(s, n + 1, Len(s)) \in Seq(S)
           /\ Len(SubSeq(s, n + 1, Len(s))) = Len(s) - n
           /\ \A i \in 1 .. n : SubSeq(s, 1, n)[i] = s[i]
           /\ \A i \in 1 .. Len(s) - n : SubSeq(s, n + 1, Len(s))[i] = s[n + i]
           /\ SubSeq(s, 1, n) \o SubSeq(s, n + 1, Len(s)) = s
  <1>1. /\ SubSeq(s, 1, n) \in Seq(S) /\ Len(SubSeq(s, 1, n)) = n
        /\ \A i \in 1 .. n : SubSeq(s, 1, n)[i] = s[i]
    OBVIOUS
  <1>2. /\ SubSeq(s, n + 1, Len(s)) \in Seq(S)
        /\ Len(SubSeq(s, n + 1, Len(s))) = Len(s) - n
        /\ \A i \in 1 .. Len(s) - n : SubSeq(s, n + 1, Len(s))[i] = s[n + i]
    OBVIOUS
  <1>3. SubSeq(s, 1, n) \o SubSeq(s, n + 1, Len(s)) = s
    <2> DEFINE left == SubSeq(s, 1, n)
               right == SubSeq(s, n + 1, Len(s))
    <2>1. /\ left \in Seq(S) /\ Len(left) = n /\ \A i \in 1 .. n : left[i] = s[i]
          /\ right \in Seq(S) /\ Len(right) = Len(s) - n
          /\ \A i \in 1 .. Len(s) - n : right[i] = s[n + i]
      BY <1>1, <1>2
    <2> HIDE DEF left, right
    <2>2. /\ left \o right \in Seq(S) /\ Len(left \o right) = Len(s)
          /\ \A i \in 1 .. n : (left \o right)[i] = s[i]
          /\ \A i \in 1 .. Len(s) - n : (left \o right)[n + i] = s[n + i]
      BY <2>1, ConcatParts
    <2>3. \A i \in 1 .. Len(s) : (left \o right)[i] = s[i]
      <3>1. SUFFICES ASSUME NEW i \in 1 .. Len(s) PROVE (left \o right)[i] = s[i]
        OBVIOUS
      <3>2. CASE i <= n
        BY <3>2, <2>2
      <3>3. CASE i > n
        <4>1. i - n \in 1 .. Len(s) - n /\ n + (i - n) = i
          BY <3>3
        <4>2. QED
          BY <4>1, <2>2
      <3>4. QED
        BY <3>2, <3>3, i <= n \/ i > n
    <2>4. left \o right = s
      BY <2>2, <2>3, SeqEqual
    <2>5. QED
      BY <2>4 DEF left, right
  <1>4. QED
    BY <1>1, <1>2, <1>3

\* Concatenation is associative.
LEMMA ConcatAssociates ==
    \A s, t, u \in Seq(Octet) : (s \o t) \o u = s \o (t \o u)
  OBVIOUS

-----------------------------------------------------------------------------
(* Frames *)

\* An octet is a number.
LEMMA OctetNumber == \A x \in Octet : x \in Nat /\ x \in Int
  BY DEF Octet

\* Two octets hold every length up to MaxLength.
LEMMA LengthBound ==
    /\ MaxLength \in Nat /\ MaxLength >= 2
    /\ \A n \in Nat : n <= MaxLength =>
        /\ n \div 256 \in 0 .. 255 /\ n % 256 \in 0 .. 255
        /\ (n \div 256) * 256 + (n % 256) = n
  BY SMT DEF MaxLength

\* A message in its frame: the two octets in front announce exactly what
\* tcp_send sends, and the receiver's buffer has room for it.
LEMMA FrameFacts ==
    ASSUME NEW m \in Messages
    PROVE  /\ Frame(m) \in Seq(Octet) /\ Len(Frame(m)) = Len(m) + 2
           /\ Announced(Frame(m)) = Len(Frame(m))
           /\ Len(Frame(m)) \in 3 .. Reserved
           /\ Payload(Frame(m)) = m
  <1>1. /\ m \in Seq(Octet) /\ Len(m) \in Nat \ {0}
        /\ Len(m) + 2 <= Reserved /\ Reserved \in Nat /\ Len(m) <= MaxLength
    <2>1. m \in Seq(Octet) /\ Len(m) \in 1 .. Reserved - 2
      BY MessagesAssumption
    <2>2. Len(m) \in Nat /\ Reserved \in 2 .. MaxLength /\ MaxLength \in Nat
      BY <2>1, BoundAssumption, LengthBound
    <2>3. QED
      BY <2>1, <2>2
  <1>2. /\ Len(m) \div 256 \in Octet /\ Len(m) % 256 \in Octet
        /\ (Len(m) \div 256) * 256 + (Len(m) % 256) = Len(m)
    BY <1>1, LengthBound DEF Octet
  <1> DEFINE head == <<Len(m) \div 256, Len(m) % 256>>
  <1>3. /\ head \in Seq(Octet) /\ Len(head) = 2
        /\ head[1] = Len(m) \div 256 /\ head[2] = Len(m) % 256
    BY <1>2
  <1> HIDE DEF head
  <1>4. /\ head \o m \in Seq(Octet) /\ Len(head \o m) = Len(m) + 2
        /\ (head \o m)[1] = head[1] /\ (head \o m)[2] = head[2]
        /\ SubSeq(head \o m, 3, Len(head \o m)) = m
    <2>1. /\ head \o m \in Seq(Octet) /\ Len(head \o m) = Len(m) + 2
          /\ (head \o m)[1] = head[1] /\ (head \o m)[2] = head[2]
          /\ \A i \in 1 .. Len(m) : (head \o m)[2 + i] = m[i]
      <3>1. /\ head \o m \in Seq(Octet) /\ Len(head \o m) = Len(head) + Len(m)
            /\ \A i \in 1 .. Len(head) : (head \o m)[i] = head[i]
            /\ \A i \in 1 .. Len(m) : (head \o m)[Len(head) + i] = m[i]
        <4>1. head \in Seq(Octet) /\ m \in Seq(Octet)
          BY <1>1, <1>3
        <4>2. QED
          BY <4>1, ConcatParts
      <3>2. Len(m) \in Nat /\ 1 \in 1 .. Len(head) /\ 2 \in 1 .. Len(head)
        BY <1>1, <1>3
      <3>3. QED
        BY <1>3, <3>1, <3>2
    <2>2. SubSeq(head \o m, 3, Len(head \o m)) = m
      <3> DEFINE f == head \o m
                 rest == SubSeq(f, 2 + 1, Len(f))
      <3>1. /\ f \in Seq(Octet) /\ Len(f) = Len(m) + 2 /\ 2 \in 0 .. Len(f)
            /\ \A i \in 1 .. Len(m) : f[2 + i] = m[i]
        BY <1>1, <2>1 DEF f
      <3> HIDE DEF f
      <3>2. /\ rest \in Seq(Octet) /\ Len(rest) = Len(m)
            /\ \A i \in 1 .. Len(m) : rest[i] = f[2 + i]
        BY <1>1, <3>1, CutParts
      <3> HIDE DEF rest
      <3>3. rest = m
        BY <1>1, <3>1, <3>2, SeqEqual
      <3>4. QED
        BY <3>3 DEF rest, f
    <2>3. QED
      BY <2>1, <2>2
  <1>5. Frame(m) = head \o m
    BY DEF Frame, head
  <1>6. QED
    <2>1. Announced(Frame(m)) = Len(m) + 2
      BY <1>2, <1>3, <1>4, <1>5 DEF Announced
    <2>2. Len(m) + 2 \in 3 .. Reserved
      BY <1>1
    <2>3. QED
      BY <1>4, <1>5, <2>1, <2>2 DEF Payload

\* The payload of octets is octets.
LEMMA PayloadType == \A octets \in Seq(Octet) : Payload(octets) \in Seq(Octet)
  <1> SUFFICES ASSUME NEW octets \in Seq(Octet) PROVE Payload(octets) \in Seq(Octet)
    OBVIOUS
  <1>1. CASE Len(octets) < 2
    BY <1>1 DEF Payload
  <1>2. CASE Len(octets) >= 2
    <2>1. 2 \in 0 .. Len(octets) /\ 2 + 1 = 3
      BY <1>2
    <2>2. SubSeq(octets, 2 + 1, Len(octets)) \in Seq(Octet)
      BY <2>1, CutParts
    <2>3. QED
      BY <2>1, <2>2 DEF Payload
  <1>3. QED
    BY <1>1, <1>2

\* What any frame says in its first two octets: its own length when it is
\* good, a length that tcp_receive refuses when it is not.
LEMMA AnyFrame ==
    ASSUME NEW f \in Frames
    PROVE  /\ f \in Seq(Octet) /\ Len(f) >= 2
           /\ Good(f) => Announced(f) = Len(f) /\ Len(f) \in 3 .. Reserved
           /\ ~Good(f) => Announced(f) = 2 \/ Announced(f) > Reserved
  <1>1. CASE Good(f)
    BY <1>1, FrameFacts, BoundAssumption DEF Good
  <1>2. CASE ~Good(f)
    <2>1. f \in BadFrames
      BY <1>2 DEF Good, Frames
    <2>2. /\ f \in Seq(Octet) /\ Len(f) >= 2
          /\ f[1] * 256 + f[2] = 0 \/ f[1] * 256 + f[2] + 2 > Reserved
      BY <2>1, FramesAssumption
    <2>3. f[1] \in Int /\ f[2] \in Int
      <3>1. f[1] \in Octet /\ f[2] \in Octet
        BY <2>2
      <3>2. QED
        BY <3>1, OctetNumber
    <2>4. Announced(f) = 2 \/ Announced(f) > Reserved
      BY <2>2, <2>3 DEF Announced
    <2>5. QED
      BY <1>2, <2>2, <2>4
  <1>3. QED
    BY <1>1, <1>2

\* As soon as the receiver holds two octets it knows the first frame's length.
LengthIsFirst ==
    Len(buf) >= 2 =>
        /\ frames # <<>> /\ frames[1] \in Frames
        /\ Announced(buf) = Announced(frames[1]) /\ Announced(buf) \in Nat
        /\ \A i \in 1 .. Len(buf) : i <= Len(frames[1]) => buf[i] = frames[1][i]
        /\ Len(frames) = 1 => Len(buf) <= Len(frames[1])

\* The two octets are those of the first frame.
LEMMA LengthKnown == TypeOK /\ StreamBegins => LengthIsFirst
  <1> SUFFICES ASSUME TypeOK, StreamBegins, Len(buf) >= 2
               PROVE  /\ frames # <<>> /\ frames[1] \in Frames
                      /\ Announced(buf) = Announced(frames[1]) /\ Announced(buf) \in Nat
                      /\ \A i \in 1 .. Len(buf) :
                            i <= Len(frames[1]) => buf[i] = frames[1][i]
                      /\ Len(frames) = 1 => Len(buf) <= Len(frames[1])
    BY DEF LengthIsFirst
  <1>1. /\ buf \in Seq(Octet) /\ sock \o wire \in Seq(Octet)
        /\ frames \in Seq(Frames)
    BY DEF TypeOK
  <1>2. /\ Stream \in Seq(Octet) /\ Len(Stream) >= Len(buf)
        /\ \A i \in 1 .. Len(buf) : Stream[i] = buf[i]
    BY <1>1, ConcatParts DEF Stream
  <1>3. frames # <<>> /\ frames[1] \in Frames
    BY <1>1, <1>2 DEF StreamBegins
  <1>4. frames[1] \in Seq(Octet) /\ Len(frames[1]) >= 2
    BY <1>3, AnyFrame
  <1>5. /\ \A i \in 1 .. Len(buf) : i <= Len(frames[1]) => buf[i] = frames[1][i]
        /\ Len(frames) = 1 => Len(buf) <= Len(frames[1])
    BY <1>1, <1>2, <1>3, <1>4 DEF StreamBegins
  <1>6. buf[1] = frames[1][1] /\ buf[2] = frames[1][2]
    BY <1>1, <1>4, <1>5
  <1>7. buf[1] \in Octet /\ buf[2] \in Octet
    BY <1>1
  <1>8. QED
    <2>1. Announced(buf) = Announced(frames[1])
      BY <1>6 DEF Announced
    <2>2. Announced(buf) \in Nat
      <3>1. buf[1] \in Nat /\ buf[2] \in Nat
        BY <1>7, OctetNumber
      <3>2. QED
        BY <3>1 DEF Announced
    <2>3. QED
      BY <1>3, <1>5, <2>1, <2>2

-----------------------------------------------------------------------------
(* The steps *)

\* The initial state satisfies the invariant.
LEMMA InitInv == Init => Inv
  <1> SUFFICES ASSUME Init PROVE Inv
    OBVIOUS
  <1>1. TypeOK
    BY EmptySeq DEF Init, TypeOK, Outcomes
  <1>2. Stream = <<>>
    BY DEF Init, Stream
  <1>3. StreamBegins /\ ReceiverInv
    BY <1>2 DEF Init, StreamBegins, ReceiverInv
  <1>4. WholeMessages /\ EscapeHasReason
    BY BoundAssumption DEF Init, WholeMessages, EscapeHasReason
  <1>5. QED
    BY <1>1, <1>3, <1>4 DEF Inv

\* The peer sends more: a first frame that may be cut when the peer is gone,
\* or anything behind a first frame that is whole.
LEMMA PeerSends ==
    ASSUME Inv, ~shut, NEW f \in Frames, NEW n \in 1 .. Len(f),
           frames' = Append(frames, f),
           wire' = wire \o SubSeq(f, 1, n),
           shut' \in BOOLEAN, n < Len(f) => shut',
           UNCHANGED <<sock, pc, buf, got>>
    PROVE  Inv'
  <1> DEFINE part == SubSeq(f, 1, n)
  <1>1. f \in Seq(Octet) /\ Len(f) >= 2
    BY AnyFrame
  <1>2. /\ part \in Seq(Octet) /\ Len(part) = n
        /\ \A i \in 1 .. n : part[i] = f[i]
    BY <1>1, CutParts
  <1> HIDE DEF part
  <1>3. /\ frames \in Seq(Frames)
        /\ wire \in Seq(Octet) /\ sock \in Seq(Octet) /\ buf \in Seq(Octet)
    BY DEF Inv, TypeOK
  <1>4. wire' = wire \o part /\ wire' \in Seq(Octet)
    BY <1>2, <1>3 DEF part
  <1>5. /\ frames' \in Seq(Frames) /\ frames' # <<>>
        /\ Len(frames') = Len(frames) + 1
        /\ frames'[1] = IF frames = <<>> THEN f ELSE frames[1]
    BY <1>3
  <1>6. TypeOK'
    BY <1>4, <1>5 DEF Inv, TypeOK
  <1>7. Stream' = Stream \o part
    <2>1. /\ wire \in Seq(Octet) /\ sock \in Seq(Octet) /\ buf \in Seq(Octet)
          /\ part \in Seq(Octet) /\ sock \o wire \in Seq(Octet)
      BY <1>2, <1>3
    <2>2. sock \o (wire \o part) = (sock \o wire) \o part
      BY <2>1, ConcatAssociates
    <2>3. buf \o ((sock \o wire) \o part) = (buf \o (sock \o wire)) \o part
      BY <2>1, ConcatAssociates
    <2>4. QED
      BY <1>4, <2>2, <2>3 DEF Stream
  <1>8. Stream \in Seq(Octet)
    BY <1>3 DEF Stream
  <1>9. StreamBegins'
    <2>1. CASE frames = <<>>
      <3>1. Stream = <<>>
        BY <2>1 DEF Inv, StreamBegins
      <3>2. Stream' = part
        BY <3>1, <1>2, <1>7
      <3>3. frames'[1] = f /\ Len(frames') = 1
        BY <2>1, <1>5
      <3>4. QED
        <4>1. \A i \in 1 .. n : part[i] = f[i]
          BY <1>2
        <4>2. n \in Nat /\ Len(f) \in Nat /\ n <= Len(f) /\ (n < Len(f) => shut')
          BY <1>1
        <4>3. Len(Stream') = n /\ (\A i \in 1 .. n : Stream'[i] = f[i])
          BY <3>2, <1>2, <4>1
        <4>4. QED
          BY <1>5, <3>3, <4>2, <4>3 DEF StreamBegins
    <2>2. CASE frames # <<>>
      <3>1. frames'[1] = frames[1] /\ Len(frames') > 1 /\ frames[1] \in Seq(Octet)
        BY <2>2, <1>3, <1>5, AnyFrame
      <3>2. Len(Stream) >= Len(frames[1])
        BY <2>2, <3>1, <1>8 DEF Inv, StreamBegins
      <3>3. /\ Len(Stream') >= Len(Stream)
            /\ \A i \in 1 .. Len(Stream) : Stream'[i] = Stream[i]
        BY <1>2, <1>7, <1>8, ConcatParts
      <3>4. \A i \in 1 .. Len(Stream) : i <= Len(frames[1]) => Stream[i] = frames[1][i]
        BY <2>2 DEF Inv, StreamBegins
      <3>5. \A i \in 1 .. Len(Stream') : i <= Len(frames[1]) => Stream'[i] = frames[1][i]
        BY <1>2, <1>7, <1>8, <3>1, <3>2, <3>3, <3>4
      <3>6. Len(Stream') \in Nat /\ Len(frames[1]) \in Nat /\ Len(Stream) \in Nat
        BY <1>2, <1>7, <1>8, <3>1
      <3>7. ~(Len(Stream') < Len(frames[1]))
        BY <3>2, <3>3, <3>6
      <3>8. QED
        BY <1>5, <3>1, <3>5, <3>7 DEF StreamBegins
    <2>3. QED
      BY <2>1, <2>2
  <1>10. ReceiverInv'
    BY DEF Inv, ReceiverInv, Refused, Announced, Payload
  <1>11. pc \in {"message", "escape"} => frames # <<>>
    <2>1. CASE pc = "message"
      BY <2>1, LengthKnown, <1>3 DEF Inv, ReceiverInv, Refused, LengthIsFirst
    <2>2. CASE pc = "escape"
      <3>1. buf # <<>>
        BY <2>2 DEF Inv, ReceiverInv
      <3>2. Len(Stream) = Len(buf) + Len(sock \o wire) /\ Len(buf) > 0
        BY <1>3, <3>1 DEF Stream
      <3>3. Stream # <<>>
        BY <1>3, <3>2
      <3>4. QED
        BY <3>3 DEF Inv, StreamBegins
    <2>3. QED
      BY <2>1, <2>2
  <1>12. WholeMessages' /\ EscapeHasReason'
    BY <1>3, <1>5, <1>11 DEF Inv, WholeMessages, EscapeHasReason
  <1>13. QED
    BY <1>6, <1>9, <1>10, <1>12 DEF Inv

\* The peer goes.
LEMMA ShutStep == Inv /\ Shut => Inv'
  BY DEF Shut, Inv, TypeOK, StreamBegins, Stream, ReceiverInv, WholeMessages,
     EscapeHasReason, Refused, Announced, Payload

\* Octets that arrive keep their places in the stream.
LEMMA ArriveStep ==
    ASSUME Inv, NEW n \in 1 .. Len(wire), Arrive(n)
    PROVE  Inv'
  <1>1. /\ wire \in Seq(Octet) /\ sock \in Seq(Octet) /\ buf \in Seq(Octet)
        /\ n \in 0 .. Len(wire)
    BY DEF Inv, TypeOK
  <1> DEFINE first == SubSeq(wire, 1, n)
             rest == SubSeq(wire, n + 1, Len(wire))
  <1>2. first \in Seq(Octet) /\ rest \in Seq(Octet) /\ first \o rest = wire
    BY <1>1, CutParts
  <1>3. sock' = sock \o first /\ wire' = rest
    BY DEF Arrive
  <1> HIDE DEF first, rest
  <1>4. sock' \o wire' = sock \o wire
    <2>1. (sock \o first) \o rest = sock \o (first \o rest)
      BY <1>1, <1>2, ConcatAssociates
    <2>2. QED
      BY <1>2, <1>3, <2>1
  <1>5. UNCHANGED <<Stream, frames, shut, pc, buf, got>>
    BY <1>4 DEF Stream, Arrive
  <1>6. TypeOK'
    BY <1>1, <1>2, <1>3, <1>5 DEF Inv, TypeOK
  <1>7. StreamBegins'
    BY <1>5 DEF Inv, StreamBegins
  <1>8. ReceiverInv' /\ WholeMessages' /\ EscapeHasReason'
    BY <1>5 DEF Inv, ReceiverInv, WholeMessages, EscapeHasReason, Refused, Announced,
       Payload
  <1>9. QED
    BY <1>6, <1>7, <1>8 DEF Inv

\* recv takes octets from the front of the socket: the stream stays, what the
\* receiver holds grows by what was taken and never beyond its buffer.
LEMMA RecvTakes ==
    ASSUME Inv, NEW room \in Nat, room = Reserved - Len(buf),
           buf' = buf \o SubSeq(sock, 1, Taken(room)),
           sock' = SubSeq(sock, Taken(room) + 1, Len(sock)),
           UNCHANGED <<frames, wire, shut>>
    PROVE  /\ buf' \in Seq(Octet) /\ sock' \in Seq(Octet)
           /\ Len(buf') = Len(buf) + Taken(room) /\ Len(buf') <= Reserved
           /\ sock # <<>> /\ room > 0 => Taken(room) > 0
           /\ \A i \in 1 .. Len(buf) : buf'[i] = buf[i]
           /\ StreamBegins'
  <1>1. /\ wire \in Seq(Octet) /\ sock \in Seq(Octet) /\ buf \in Seq(Octet)
        /\ Reserved \in Nat
    BY BoundAssumption, LengthBound DEF Inv, TypeOK
  <1>2. /\ Taken(room) \in 0 .. Len(sock) /\ Taken(room) <= room
        /\ sock # <<>> /\ room > 0 => Taken(room) > 0
    BY <1>1 DEF Taken
  <1> DEFINE first == SubSeq(sock, 1, Taken(room))
             rest == SubSeq(sock, Taken(room) + 1, Len(sock))
  <1>3. /\ first \in Seq(Octet) /\ rest \in Seq(Octet)
        /\ first \o rest = sock /\ Len(first) = Taken(room)
    BY <1>1, <1>2, CutParts
  <1>4. buf' = buf \o first /\ sock' = rest
    OBVIOUS
  <1> HIDE DEF first, rest
  <1>5. /\ buf' \in Seq(Octet) /\ Len(buf') = Len(buf) + Taken(room)
        /\ \A i \in 1 .. Len(buf) : buf'[i] = buf[i]
    BY <1>1, <1>3, <1>4, ConcatParts
  <1>6. Stream' = Stream
    <2>1. (buf \o first) \o (rest \o wire) = buf \o (first \o (rest \o wire))
      <3>1. rest \o wire \in Seq(Octet)
        BY <1>1, <1>3
      <3>2. QED
        BY <1>1, <1>3, <3>1, ConcatAssociates
    <2>2. first \o (rest \o wire) = (first \o rest) \o wire
      <3>1. first \in Seq(Octet) /\ rest \in Seq(Octet) /\ wire \in Seq(Octet)
        BY <1>1, <1>3
      <3>2. QED
        BY <3>1, ConcatAssociates
    <2>3. QED
      BY <1>3, <1>4, <2>1, <2>2 DEF Stream
  <1>7. StreamBegins'
    BY <1>6 DEF Inv, StreamBegins
  <1>8. Len(buf') <= Reserved
    BY <1>1, <1>2, <1>5
  <1>9. QED
    BY <1>2, <1>3, <1>4, <1>5, <1>7, <1>8

\* The loop's condition and what follows it: a first frame that is good ends
\* in the message or goes on, and only what lies behind it lets tcp_receive
\* end the event loop.
LEMMA LoopStep ==
    ASSUME Inv, TypeOK', StreamBegins', Len(buf') <= Reserved, ~Refused(buf'),
           Loop(buf')
    PROVE  Inv'
  <1>1. Len(buf') >= 2 /\ buf' \in Seq(Octet) /\ Len(buf') \in Nat
    BY DEF Refused, TypeOK
  <1>2. LengthIsFirst'
    BY LengthKnown, PTL
  <1>3. /\ frames' # <<>> /\ frames'[1] \in Frames
        /\ Announced(buf') = Announced(frames'[1]) /\ Announced(buf') \in Nat
        /\ \A i \in 1 .. Len(buf') : i <= Len(frames'[1]) => buf'[i] = frames'[1][i]
        /\ Len(frames') = 1 => Len(buf') <= Len(frames'[1])
    BY <1>1, <1>2 DEF LengthIsFirst, Announced
  <1>4. Announced(buf') # 2 /\ ~(Announced(buf') > Reserved)
    BY DEF Refused, Announced
  <1>5. /\ frames'[1] \in Seq(Octet) /\ Good(frames'[1])
        /\ Announced(buf') = Len(frames'[1])
    BY <1>3, <1>4, AnyFrame
  <1>6. CASE Len(buf') < Announced(buf')
    <2>1. pc' = "more" /\ got' = got
      BY <1>6 DEF Loop, Announced
    <2>2. QED
      BY <1>6, <2>1 DEF Inv, ReceiverInv, WholeMessages, EscapeHasReason, Announced,
         Refused
  <1>7. CASE Len(buf') = Announced(buf')
    <2>1. pc' = "message" /\ got' = Payload(buf')
      BY <1>7, <1>3 DEF Loop, AfterLoop, Announced
    <2>2. buf' = frames'[1]
      BY <1>1, <1>3, <1>5, <1>7, SeqEqual
    <2>3. WholeMessages' /\ EscapeHasReason'
      BY <1>5, <2>1, <2>2 DEF WholeMessages, EscapeHasReason
    <2>4. ReceiverInv'
      BY <1>7, <2>1 DEF ReceiverInv, Refused, Announced, Payload
    <2>5. QED
      BY <2>3, <2>4 DEF Inv
  <1>8. CASE Len(buf') > Announced(buf')
    <2>1. pc' = "escape"
      BY <1>8, <1>3, <1>1 DEF Loop, AfterLoop, Announced
    <2>2. Len(frames') # 1 /\ Len(frames') \in Nat /\ Len(frames') > 0
      <3>1. frames' \in Seq(Frames)
        BY DEF TypeOK
      <3>2. Len(frames') \in Nat /\ Len(frames') > 0
        BY <1>3, <3>1
      <3>3. Len(frames') # 1
        BY <1>1, <1>3, <1>5, <1>8
      <3>4. QED
        BY <3>2, <3>3
    <2>3. WholeMessages' /\ EscapeHasReason'
      <3>1. Len(frames') > 1
        <4>1. \A k \in Nat : k # 1 /\ k > 0 => k > 1
          OBVIOUS
        <4>2. QED
          BY <2>2, <4>1
      <3>2. QED
        BY <2>1, <3>1 DEF WholeMessages, EscapeHasReason
    <2>4. ReceiverInv'
      BY <1>1, <2>1 DEF ReceiverInv
    <2>5. QED
      BY <2>3, <2>4 DEF Inv
  <1>9. QED
    BY <1>1, <1>3, <1>6, <1>7, <1>8

\* The first recv of the callback.
LEMMA FirstReceiveStep == Inv /\ FirstReceive => Inv'
  <1> SUFFICES ASSUME Inv, FirstReceive PROVE Inv'
    OBVIOUS
  <1>1. /\ buf = <<>> /\ sock \in Seq(Octet) /\ Reserved \in Nat /\ Reserved >= 2
        /\ got \in Seq(Octet)
    BY BoundAssumption, LengthBound DEF Inv, TypeOK, ReceiverInv, FirstReceive
  <1>2. /\ buf' \in Seq(Octet) /\ sock' \in Seq(Octet)
        /\ Len(buf') = Taken(Reserved) /\ Len(buf') <= Reserved
        /\ sock # <<>> => Taken(Reserved) > 0
        /\ StreamBegins'
    <2>1. SubSeq(sock, 1, Taken(Reserved)) = buf \o SubSeq(sock, 1, Taken(Reserved))
      BY <1>1 DEF Taken
    <2>2. buf' = buf \o SubSeq(sock, 1, Taken(Reserved))
      BY <2>1 DEF FirstReceive
    <2>3. Reserved = Reserved - Len(buf) /\ Len(buf) = 0
      BY <1>1
    <2>4. /\ sock' = SubSeq(sock, Taken(Reserved) + 1, Len(sock))
          /\ UNCHANGED <<frames, wire, shut>>
      BY DEF FirstReceive
    <2>5. /\ buf' \in Seq(Octet) /\ sock' \in Seq(Octet)
          /\ Len(buf') = Len(buf) + Taken(Reserved) /\ Len(buf') <= Reserved
          /\ sock # <<>> /\ Reserved > 0 => Taken(Reserved) > 0
          /\ StreamBegins'
      BY <1>1, <2>2, <2>3, <2>4, RecvTakes
    <2>6. Taken(Reserved) \in Nat
      BY <1>1 DEF Taken
    <2>7. QED
      BY <1>1, <2>3, <2>5, <2>6
  <1>3. ASSUME pc' \in {"net_error", "escape"}, got' = got,
               pc' = "escape" => Len(buf') > 0
                    /\ (Len(buf') = 1 \/ ~Good(frames'[1]) \/ Len(frames') > 1)
        PROVE  Inv'
    <2>1. TypeOK'
      BY <1>2, <1>3 DEF Inv, TypeOK, FirstReceive, Outcomes
    <2>2. ReceiverInv' /\ WholeMessages' /\ EscapeHasReason'
      BY <1>2, <1>3 DEF ReceiverInv, WholeMessages, EscapeHasReason
    <2>3. QED
      BY <1>2, <2>1, <2>2 DEF Inv
  <1>4. CASE sock = <<>>
    BY <1>3, <1>4 DEF FirstReceive
  <1>5. CASE sock # <<>> /\ Refused(buf')
    <2>1. pc' = "escape" /\ got' = got /\ Len(buf') > 0
      BY <1>2, <1>5 DEF FirstReceive
    <2>2. CASE Len(buf') < 2
      BY <1>2, <1>3, <2>1, <2>2
    <2>3. CASE Len(buf') >= 2
      <3>1. TypeOK'
        BY <1>2, <2>1 DEF Inv, TypeOK, FirstReceive, Outcomes
      <3>2. LengthIsFirst'
        BY <1>2, <3>1, LengthKnown, PTL
      <3>3. frames'[1] \in Frames /\ Announced(buf') = Announced(frames'[1])
        BY <2>3, <3>2 DEF LengthIsFirst, Announced
      <3>4. \/ Announced(buf') = 2
            \/ Announced(buf') > MaxLength
            \/ Announced(buf') > Reserved
        BY <1>2, <1>5, <2>3 DEF Refused, Announced
      <3>5. Reserved <= MaxLength /\ MaxLength \in Nat
        BY BoundAssumption, LengthBound
      <3>6. ~Good(frames'[1])
        BY <1>1, <3>3, <3>4, <3>5, AnyFrame
      <3>7. QED
        BY <1>3, <2>1, <3>6
    <2>4. QED
      BY <1>2, <2>2, <2>3
  <1>6. CASE sock # <<>> /\ ~Refused(buf')
    <2>1. Loop(buf')
      BY <1>6 DEF FirstReceive, Refused, Announced
    <2>2. pc' \in {"idle", "more"} \union Outcomes /\ got' \in Seq(Octet)
      <3>1. Payload(buf') \in Seq(Octet)
        BY <1>2, PayloadType
      <3>2. QED
        BY <1>1, <2>1, <3>1 DEF Loop, AfterLoop, Outcomes
    <2>3. TypeOK'
      BY <1>2, <2>2 DEF Inv, TypeOK, FirstReceive
    <2>4. QED
      BY <1>2, <1>6, <2>1, <2>3, LoopStep
  <1>7. QED
    BY <1>4, <1>5, <1>6

\* Every further recv of the loop.
LEMMA ReceiveMoreStep == Inv /\ ReceiveMore => Inv'
  <1> SUFFICES ASSUME Inv, ReceiveMore PROVE Inv'
    OBVIOUS
  <1> DEFINE room == Reserved - Len(buf)
  <1>1. /\ buf \in Seq(Octet) /\ sock \in Seq(Octet) /\ Reserved \in Nat
        /\ got \in Seq(Octet) /\ ~Refused(buf) /\ Len(buf) <= Reserved
    BY BoundAssumption, LengthBound
       DEF Inv, TypeOK, ReceiverInv, WholeMessages, ReceiveMore
  <1>2. room \in Nat
    BY <1>1
  <1>3. /\ buf' = buf \o SubSeq(sock, 1, Taken(room))
        /\ sock' = SubSeq(sock, Taken(room) + 1, Len(sock))
        /\ UNCHANGED <<frames, wire, shut>>
    BY DEF ReceiveMore
  <1>4. room = Reserved - Len(buf)
    OBVIOUS
  <1> HIDE DEF room
  <1>5. /\ buf' \in Seq(Octet) /\ sock' \in Seq(Octet)
        /\ Len(buf') = Len(buf) + Taken(room) /\ Len(buf') <= Reserved
        /\ \A i \in 1 .. Len(buf) : buf'[i] = buf[i]
        /\ StreamBegins'
    BY <1>2, <1>3, <1>4, RecvTakes
  <1>6. ~Refused(buf')
    <2>1. Len(buf) \in Nat /\ Len(buf) >= 2 /\ Taken(room) \in Nat
      BY <1>1, <1>2 DEF Refused, Taken
    <2>2. Len(buf') >= 2
      BY <1>5, <2>1
    <2>3. buf'[1] = buf[1] /\ buf'[2] = buf[2]
      BY <1>5, <2>1
    <2>4. QED
      BY <1>1, <2>2, <2>3, <1>5 DEF Refused, Announced
  <1>7. CASE sock = <<>>
    <2>1. pc' = "net_error" /\ got' = got
      BY <1>7 DEF ReceiveMore
    <2>2. TypeOK'
      BY <1>3, <1>5, <2>1 DEF Inv, TypeOK, Outcomes
    <2>3. ReceiverInv' /\ WholeMessages' /\ EscapeHasReason'
      BY <1>5, <2>1 DEF ReceiverInv, WholeMessages, EscapeHasReason
    <2>4. QED
      BY <1>5, <2>2, <2>3 DEF Inv
  <1>8. CASE sock # <<>>
    <2>1. Loop(buf')
      BY <1>8 DEF ReceiveMore
    <2>2. pc' \in {"idle", "more"} \union Outcomes /\ got' \in Seq(Octet)
      <3>1. Payload(buf') \in Seq(Octet)
        BY <1>5, PayloadType
      <3>2. QED
        BY <1>1, <2>1, <3>1 DEF Loop, AfterLoop, Outcomes
    <2>3. TypeOK'
      BY <1>3, <1>5, <2>2 DEF Inv, TypeOK
    <2>4. QED
      BY <1>5, <1>6, <2>1, <2>3, LoopStep
  <1>9. QED
    BY <1>7, <1>8

\* Every step keeps the invariant.
LEMMA StepInv == Inv /\ [Next]_vars => Inv'
  <1> SUFFICES ASSUME Inv, [Next]_vars PROVE Inv'
    OBVIOUS
  <1>1. ASSUME NEW m \in Messages, NEW n \in 1 .. Len(Frame(m)), Send(m, n)
        PROVE  Inv'
    <2> DEFINE f == Frame(m)
    <2>1. f \in Frames
      BY DEF Frames
    <2>2. /\ ~shut /\ n \in 1 .. Len(f) /\ frames' = Append(frames, f)
          /\ wire' = wire \o SubSeq(f, 1, n)
          /\ shut' = (n < Len(f)) /\ UNCHANGED <<sock, pc, buf, got>>
      BY <1>1 DEF Send
    <2> HIDE DEF f
    <2>3. shut' \in BOOLEAN /\ (n < Len(f) => shut')
      <3>1. (n < Len(f)) \in BOOLEAN
        OBVIOUS
      <3>2. QED
        BY <2>2, <3>1, Zenon
    <2>4. QED
      BY <2>1, <2>2, <2>3, PeerSends
  <1>2. ASSUME NEW f \in BadFrames, OtherSends(f)
        PROVE  Inv'
    <2>1. f \in Frames
      BY DEF Frames
    <2>2. f \in Seq(Octet) /\ Len(f) \in 1 .. Len(f) /\ SubSeq(f, 1, Len(f)) = f
      <3>1. f \in Seq(Octet) /\ Len(f) >= 2
        BY <2>1, AnyFrame
      <3>2. Len(f) \in Nat /\ Len(f) \in 0 .. Len(f)
        BY <3>1
      <3>3. SubSeq(f, 1, Len(f)) = f
        BY <3>1, SubSeqFull
      <3>4. QED
        BY <3>1, <3>2, <3>3
    <2>3. /\ ~shut /\ frames' = Append(frames, f) /\ wire' = wire \o f
          /\ UNCHANGED <<shut, sock, pc, buf, got>>
      BY <1>2 DEF OtherSends
    <2>4. shut' \in BOOLEAN /\ ~(Len(f) < Len(f))
      BY <2>2, <2>3 DEF Inv, TypeOK
    <2>5. QED
      BY <2>1, <2>2, <2>3, <2>4, PeerSends
  <1>3. CASE Shut
    BY <1>3, ShutStep
  <1>4. ASSUME NEW n \in 1 .. Len(wire), Arrive(n)
        PROVE  Inv'
    BY <1>4, ArriveStep
  <1>5. CASE FirstReceive
    BY <1>5, FirstReceiveStep
  <1>6. CASE ReceiveMore
    BY <1>6, ReceiveMoreStep
  <1>7. CASE UNCHANGED vars
    BY <1>7 DEF vars, Inv, TypeOK, StreamBegins, Stream, ReceiverInv, WholeMessages,
       EscapeHasReason, Refused, Announced, Payload
  <1>8. QED
    BY <1>1, <1>2, <1>3, <1>4, <1>5, <1>6, <1>7 DEF Next

-----------------------------------------------------------------------------
(* The results *)

\* In every reachable state the octets held, in the socket and on the wire
\* are one stream that begins with the first frame.
THEOREM Invariance == Spec => []Inv
  BY InitInv, StepInv, PTL DEF Spec

\* However TCP cuts and delays the octets, a message that tcp_receive returns
\* is the first one sent, whole and alone, and never overruns its buffer.
THEOREM WholeMessagesHold == Spec => []WholeMessages
  <1>1. Inv => WholeMessages
    BY DEF Inv
  <1>2. QED
    BY <1>1, Invariance, PTL

\* tcp_receive lets an exception leave the callback only for a bad frame, a
\* second frame, or a first delivery of a single octet.
THEOREM EscapeHasReasonHolds == Spec => []EscapeHasReason
  <1>1. Inv => EscapeHasReason
    BY DEF Inv
  <1>2. QED
    BY <1>1, Invariance, PTL

-----------------------------------------------------------------------------
(***************************************************************************)
(* Messages: octets.                                                       *)
(***************************************************************************)

\* A set of numbers that is not empty has a least one.
LEMMA LeastNumber ==
    ASSUME NEW S, S \subseteq Nat, S # {}
    PROVE  \E x \in S : \A y \in S : x <= y
  <1> DEFINE R == OpToRel(<, Nat)
  <1>1. IsWellFoundedOn(R, Nat)
    BY NatLessThanWellFounded
  <1>2. PICK x \in S : \A y \in S : <<y, x>> \notin R
    <2> HIDE DEF R
    <2> QED BY <1>1, WFMin
  <1>3. \A y \in S : ~(y < x)
    BY <1>2 DEF OpToRel
  <1> QED BY <1>3

\* The octets s stand at offset o of the message m.
Stand(m, o, s) ==
    /\ o \in Nat /\ o >= HeaderSize /\ o + Len(s) <= Size(m)
    /\ \A i \in 1 .. Len(s) : At(m, o + i - 1) = s[i]

IsOctets(m) == m.body \in Seq(Byte)

\* Sizes, offsets and octets are numbers.
LEMMA Numbers ==
    ASSUME NEW m, IsOctets(m)
    PROVE  /\ Len(m.body) \in Nat /\ Size(m) \in Nat /\ Size(m) >= HeaderSize
           /\ Size(m) = Len(m.body) + HeaderSize
           /\ \A o \in HeaderSize .. Size(m) - 1 :
                At(m, o) \in Byte /\ At(m, o) \in Int /\ At(m, o) = m.body[o - HeaderSize + 1]
  <1>1. /\ Len(m.body) \in Nat /\ Size(m) \in Nat /\ Size(m) >= HeaderSize
        /\ Size(m) = Len(m.body) + HeaderSize
    BY DEF IsOctets, Size, HeaderSize
  <1>2. ASSUME NEW o \in HeaderSize .. Size(m) - 1
        PROVE  m.body[o - HeaderSize + 1] \in Byte
    <2>1. o - HeaderSize + 1 \in 1 .. Len(m.body)
      BY <1>1 DEF HeaderSize
    <2> QED BY <2>1 DEF IsOctets
  <1>3. \A x \in Byte : x \in Int
    BY DEF Byte
  <1> QED BY <1>1, <1>2, <1>3 DEF At

\* The length of a concatenation.
LEMMA ConcatLen ==
    \A s, t \in Seq(Byte) : /\ s \o t \in Seq(Byte) /\ Len(s \o t) = Len(s) + Len(t)
                            /\ Len(s) \in Nat /\ Len(t) \in Nat
  OBVIOUS

\* A part of the octets stands where it stands in the whole.
LEMMA StandConcat ==
    ASSUME NEW m, IsOctets(m), NEW o, NEW s \in Seq(Byte), NEW t \in Seq(Byte), Stand(m, o, s \o t)
    PROVE  Stand(m, o, s) /\ Stand(m, o + Len(s), t)
  <1>1. /\ Len(s) \in Nat /\ Len(t) \in Nat /\ Len(s \o t) = Len(s) + Len(t)
        /\ Size(m) \in Nat /\ o \in Nat
        /\ \A i \in 1 .. Len(s) : (s \o t)[i] = s[i]
        /\ \A i \in 1 .. Len(t) : (s \o t)[Len(s) + i] = t[i]
    BY ConcatParts, Numbers DEF Stand
  <1>2. \A i \in 1 .. Len(s) + Len(t) : At(m, o + i - 1) = (s \o t)[i]
    BY <1>1 DEF Stand
  <1>3. o >= HeaderSize /\ o + Len(s) + Len(t) <= Size(m)
    BY <1>1 DEF Stand
  <1>4. Stand(m, o, s)
    BY <1>1, <1>2, <1>3 DEF Stand, HeaderSize
  <1>5. ASSUME NEW i \in 1 .. Len(t) PROVE At(m, o + Len(s) + i - 1) = t[i]
    <2>1. Len(s) + i \in 1 .. Len(s) + Len(t) /\ o + (Len(s) + i) - 1 = o + Len(s) + i - 1
      BY <1>1
    <2> QED BY <1>1, <1>2, <2>1
  <1>6. Stand(m, o + Len(s), t)
    BY <1>1, <1>3, <1>5 DEF Stand, HeaderSize
  <1> QED BY <1>4, <1>6

\* A slice of the message holds the octets that stand there.
LEMMA StandSlice ==
    ASSUME NEW m, IsOctets(m), NEW o, NEW s \in Seq(Byte), Stand(m, o, s)
    PROVE  Slice(m, o, o + Len(s)) = s
  <1>1. /\ o \in Nat /\ o >= 12 /\ o + Len(s) <= Len(m.body) + 12 /\ Len(s) \in Nat
        /\ Len(m.body) \in Nat
        /\ \A i \in 1 .. Len(s) : m.body[(o + i - 1) - 12 + 1] = s[i]
    BY Numbers DEF Stand, At, HeaderSize
  <1> DEFINE p == o - 12
             r == SubSeq(m.body, p + 1, p + Len(s))
  <1>2. p \in Nat /\ p + Len(s) <= Len(m.body)
    BY <1>1
  <1>3. ASSUME NEW i \in 1 .. Len(s) PROVE m.body[p + i] = s[i]
    <2>1. (o + i - 1) - 12 + 1 = p + i
      BY <1>1
    <2> QED BY <1>1, <2>1
  <1> HIDE DEF p
  <1>4. r \in Seq(Byte) /\ Len(r) = Len(s) /\ \A i \in 1 .. Len(s) : r[i] = m.body[p + i]
    BY <1>1, <1>2 DEF IsOctets
  <1> HIDE DEF r
  <1>5. r = s
    BY <1>3, <1>4, SeqEqual
  <1>6. Slice(m, o, o + Len(s)) = SubSeq(m.body, p + 1, p + Len(s))
    BY <1>1 DEF Slice, HeaderSize, p
  <1> QED BY <1>5, <1>6 DEF r

\* A number of two octets is read as it was written.
LEMMA HtonsFacts ==
    ASSUME NEW n \in Word
    PROVE  /\ htons(n) \in Seq(Byte) /\ Len(htons(n)) = 2
           /\ htons(n)[1] \in Byte /\ htons(n)[2] \in Byte
           /\ htons(n)[1] * 256 + htons(n)[2] = n
  <1>1. n \div 256 \in 0 .. 255 /\ n % 256 \in 0 .. 255 /\ (n \div 256) * 256 + (n % 256) = n
    BY DEF Word
  <1>2. htons(n)[1] = n \div 256 /\ htons(n)[2] = n % 256 /\ Len(htons(n)) = 2
    BY DEF htons
  <1>3. htons(n) \in Seq(Byte)
    BY <1>1 DEF htons, Byte
  <1> QED BY <1>1, <1>2, <1>3 DEF Byte

\* ntohs reads what htons wrote.
LEMMA NtohsReads ==
    ASSUME NEW m, IsOctets(m), NEW o, NEW n \in Word, Stand(m, o, htons(n))
    PROVE  ntohs(m, o) = n
  <1>1. At(m, o) = htons(n)[1] /\ At(m, o + 1) = htons(n)[2]
    <2>1. o \in Nat /\ o + 1 - 1 = o /\ o + 2 - 1 = o + 1
      BY DEF Stand
    <2>2. At(m, o + 1 - 1) = htons(n)[1] /\ At(m, o + 2 - 1) = htons(n)[2]
      BY HtonsFacts DEF Stand
    <2> QED BY <2>1, <2>2
  <1> QED BY <1>1, HtonsFacts DEF ntohs

\* A ttl is read with its sign.
LEMMA HtonlFacts ==
    ASSUME NEW n \in Int32
    PROVE  /\ htonl(n) \in Seq(Byte) /\ Len(htonl(n)) = 4
           /\ (n \div 65536) % 65536 \in Word /\ n % 65536 \in Word
           /\ htonl(n) = htons((n \div 65536) % 65536) \o htons(n % 65536)
  <1> DEFINE x == (n \div 65536) % 65536
             y == n % 65536
  <1>1. n \in Int
    BY DEF Int32
  <1>2. n \div 65536 \in Int
    BY <1>1, SMT
  <1>3. \A k \in Int : k % 65536 \in Int /\ 0 <= k % 65536 /\ k % 65536 < 65536
    BY SMT
  <1>4. x \in Word /\ y \in Word
    BY <1>1, <1>2, <1>3 DEF Word
  <1>5. htonl(n) = htons(x) \o htons(y)
    BY DEF htonl
  <1> HIDE DEF x, y
  <1>6. /\ htons(x) \in Seq(Byte) /\ Len(htons(x)) = 2
        /\ htons(y) \in Seq(Byte) /\ Len(htons(y)) = 2
    BY <1>4, HtonsFacts
  <1>7. htonl(n) \in Seq(Byte) /\ Len(htonl(n)) = 4
    BY <1>5, <1>6, ConcatParts
  <1> QED BY <1>4, <1>5, <1>7 DEF x, y

\* ntohl reads what htonl wrote, the sign included.
LEMMA NtohlReads ==
    ASSUME NEW m, IsOctets(m), NEW o, NEW n \in Int32, Stand(m, o, htonl(n))
    PROVE  ntohl(m, o) = n
  <1> DEFINE x == (n \div 65536) % 65536
             y == n % 65536
  <1>1. x \in Word /\ y \in Word /\ htonl(n) = htons(x) \o htons(y)
    BY HtonlFacts
  <1>2. n \in Int /\ n >= 0 - 2147483648 /\ n <= 2147483647
    BY SMT DEF Int32, IntMax
  <1>3. n = (IF x >= 32768 THEN x - 65536 ELSE x) * 65536 + y
    BY <1>2, SMT
  <1> HIDE DEF x, y
  <1>4. Stand(m, o, htons(x)) /\ Stand(m, o + 2, htons(y))
    BY <1>1, HtonsFacts, StandConcat
  <1>5. ntohs(m, o + 2) = y
    BY <1>1, <1>4, NtohsReads
  <1>6. At(m, o) = htons(x)[1] /\ At(m, o + 1) = htons(x)[2]
    <2>1. o \in Nat /\ o + 1 - 1 = o /\ o + 2 - 1 = o + 1
      BY <1>4 DEF Stand
    <2>2. Len(htons(x)) = 2 /\ 1 \in 1 .. 2 /\ 2 \in 1 .. 2
      BY <1>1, HtonsFacts
    <2>3. At(m, o + 1 - 1) = htons(x)[1] /\ At(m, o + 2 - 1) = htons(x)[2]
      BY <1>4, <2>2 DEF Stand
    <2> QED BY <2>1, <2>3
  <1> DEFINE a == At(m, o)
             b == At(m, o + 1)
  <1>7. a \in 0 .. 255 /\ b \in 0 .. 255 /\ x = a * 256 + b /\ y \in Int
    <2>1. a \in Byte /\ b \in Byte /\ a * 256 + b = x
      BY <1>1, <1>6, HtonsFacts
    <2>2. x \in Int /\ y \in Int
      BY <1>1 DEF Word
    <2> QED BY <2>1, <2>2 DEF Byte
  <1>8. ntohl(m, o) = (IF a >= 128 THEN a - 256 ELSE a) * 16777216 + b * 65536 + y
    BY <1>5, SMT DEF ntohl
  <1> HIDE DEF a, b
  <1>9. CASE a >= 128
    BY <1>3, <1>7, <1>8, <1>9, SMT
  <1>10. CASE a < 128
    BY <1>3, <1>7, <1>8, <1>10, SMT
  <1> QED BY <1>7, <1>9, <1>10, SMT

-----------------------------------------------------------------------------
(***************************************************************************)
(* Messages: names.                                                        *)
(***************************************************************************)

\* Where the labels of a name end, and where they begin.
Dots(h)   == {i \in 1 .. Len(h) : h[i] = Dot} \cup {Len(h) + 1}
Starts(h) == {k \in 0 .. Len(h) : k = 0 \/ h[k] = Dot}

NextDot(h, k) == CHOOSE i \in Dots(h) : i > k /\ \A j \in Dots(h) : j > k => i <= j

OctetOf(h, k) ==
    IF k = Len(h) + 1 THEN 0
    ELSE IF k = 0 \/ k \in Dots(h) THEN NextDot(h, k) - k - 1
    ELSE h[k]

\* The next dot of a host name, or the place behind its end.
LEMMA NextDotFacts ==
    ASSUME NEW h \in Seq(Byte), NEW k \in 0 .. Len(h)
    PROVE  /\ NextDot(h, k) \in k + 1 .. Len(h) + 1 /\ NextDot(h, k) \in Dots(h)
           /\ \A j \in Dots(h) : j > k => NextDot(h, k) <= j
  <1> DEFINE S == {i \in Dots(h) : i > k}
  <1>1. Len(h) \in Nat /\ Dots(h) \subseteq 1 .. Len(h) + 1 /\ Len(h) + 1 \in S
    BY DEF Dots
  <1>2. S \subseteq Nat /\ S # {}
    BY <1>1
  <1>3. \E i \in S : \A j \in S : i <= j
    <2> HIDE DEF S
    <2> QED BY <1>2, LeastNumber
  <1>4. \E i \in Dots(h) : i > k /\ \A j \in Dots(h) : j > k => i <= j
    BY <1>3
  <1>5. /\ NextDot(h, k) \in Dots(h) /\ NextDot(h, k) > k
        /\ \A j \in Dots(h) : j > k => NextDot(h, k) <= j
    BY <1>4 DEF NextDot
  <1> QED BY <1>1, <1>5

\* The octets of a name, place by place.
LEMMA NameOctetsAre ==
    ASSUME NEW h, IsHostName(h)
    PROVE  NameOctets(h) = [i \in 1 .. (IF h = <<>> THEN 1 ELSE Len(h) + 2) |-> OctetOf(h, i - 1)]
  <1> DEFINE end == IF h = <<>> \/ h[Len(h)] = Dot THEN Len(h) ELSE Len(h) + 1
  <1>1. h \in Seq(Byte) /\ Len(h) \in Nat
    BY DEF IsHostName
  <1>2. h # <<>> => Len(h) \in 1 .. Len(h)
    BY <1>1
  <1>3. h # <<>> => h[Len(h)] # Dot
    BY <1>1, <1>2 DEF IsHostName
  <1>4. end + 1 = IF h = <<>> THEN 1 ELSE Len(h) + 2
    BY <1>1, <1>3
  <1>5. NameOctets(h) = [i \in 1 .. end + 1 |-> OctetOf(h, i - 1)]
    BY Zenon DEF NameOctets, OctetOf, NextDot, Dots
  <1> HIDE DEF end
  <1> QED BY <1>4, <1>5

\* A label has an end, and is neither empty nor too long.
LEMMA LabelFacts ==
    ASSUME NEW h, IsHostName(h), h # <<>>, NEW k \in Starts(h)
    PROVE  /\ k \in 0 .. Len(h)
           /\ NextDot(h, k) \in k + 2 .. Len(h) + 1
           /\ NextDot(h, k) \in Starts(h) \cup {Len(h) + 1}
           /\ \A i \in k + 1 .. NextDot(h, k) - 1 : i \in 1 .. Len(h) /\ h[i] # Dot
           /\ NameOctets(h)[k + 1] = NextDot(h, k) - k - 1
           /\ LabelsFit(h) => NextDot(h, k) - k - 1 < LabelLimit
  <1> DEFINE d == NextDot(h, k)
  <1>1. h \in Seq(Byte) /\ Len(h) \in Nat /\ Len(h) # 0 /\ k \in 0 .. Len(h)
    BY DEF IsHostName, Starts
  <1>2. d \in k + 1 .. Len(h) + 1 /\ d \in Dots(h) /\ \A j \in Dots(h) : j > k => d <= j
    BY <1>1, NextDotFacts
  <1>3. k = 0 \/ (k \in 1 .. Len(h) /\ h[k] = Dot)
    BY <1>1 DEF Starts
  <1>4. \A i \in 1 .. Len(h) : h[i] = Dot => i # 1 /\ i # Len(h) /\ h[i + 1] # Dot
    BY DEF IsHostName
  <1>5. NameOctets(h)[k + 1] = d - k - 1
    <2>1. k + 1 \in 1 .. Len(h) + 2 /\ k + 1 - 1 = k /\ k # Len(h) + 1
      BY <1>1
    <2>2. NameOctets(h)[k + 1] = OctetOf(h, k)
      BY <1>1, <2>1, NameOctetsAre
    <2>3. k = 0 \/ k \in Dots(h)
      BY <1>3 DEF Dots
    <2> QED BY <2>1, <2>2, <2>3 DEF OctetOf
  <1>6. d \in 1 .. Len(h) => h[d] = Dot
    BY <1>1, <1>2 DEF Dots
  <1> HIDE DEF d
  <1>7. d # k + 1
    <2>1. CASE k = 0
      BY <1>1, <1>2, <1>4, <1>6, <2>1
    <2>2. CASE k # 0
      <3>1. k \in 1 .. Len(h) /\ k # Len(h) /\ h[k + 1] # Dot
        BY <1>3, <1>4, <2>2
      <3>2. k + 1 \in 1 .. Len(h)
        BY <1>1, <3>1
      <3> QED BY <1>6, <3>1, <3>2
    <2> QED BY <2>1, <2>2
  <1>8. d \in Starts(h) \cup {Len(h) + 1}
    BY <1>1, <1>2, <1>6 DEF Starts
  <1>9. ASSUME NEW i \in k + 1 .. d - 1 PROVE i \in 1 .. Len(h) /\ h[i] # Dot
    <2>1. i \in 1 .. Len(h) /\ i > k /\ ~(d <= i)
      BY <1>1, <1>2
    <2>2. i \notin Dots(h)
      BY <1>2, <2>1
    <2> QED BY <2>1, <2>2 DEF Dots
  <1>10. LabelsFit(h) => d - k - 1 < LabelLimit
    BY <1>1, <1>3, <1>5 DEF LabelsFit
  <1>11. d \in k + 2 .. Len(h) + 1
    BY <1>1, <1>2, <1>7
  <1> QED BY <1>1, <1>5, <1>8, <1>9, <1>10, <1>11 DEF d

\* The octets of a name: their number, the characters, and the zero at the end.
LEMMA NameOctetsFacts ==
    ASSUME NEW h, IsHostName(h), LabelsFit(h)
    PROVE  /\ NameOctets(h) \in Seq(Byte)
           /\ Len(NameOctets(h)) = (IF h = <<>> THEN 1 ELSE Len(h) + 2)
           /\ NameOctets(h)[Len(NameOctets(h))] = 0
           /\ \A i \in 1 .. Len(h) : h[i] # Dot => NameOctets(h)[i + 1] = h[i]
  <1>1. h \in Seq(Byte) /\ Len(h) \in Nat
    BY DEF IsHostName
  <1>2. CASE h = <<>>
    <2>1. Len(h) = 0 /\ 0 \in 0 .. Len(h)
      BY <1>2
    <2>2. Dots(h) = {1}
      BY <2>1 DEF Dots
    <2>3. NextDot(h, 0) = 1
      BY <1>1, <2>1, <2>2, NextDotFacts
    <2>4. OctetOf(h, 0) = 0
      BY <2>1, <2>3 DEF OctetOf
    <2>5. NameOctets(h) = [i \in 1 .. 1 |-> OctetOf(h, i - 1)]
      BY <1>2, NameOctetsAre
    <2>6. NameOctets(h)[1] = 0 /\ DOMAIN NameOctets(h) = 1 .. 1
      BY <2>4, <2>5
    <2>7. NameOctets(h) \in Seq(Byte) /\ Len(NameOctets(h)) = 1
      <3>1. NameOctets(h) = [i \in 1 .. 1 |-> 0]
        BY <2>4, <2>5
      <3>2. 0 \in Byte
        BY DEF Byte
      <3> QED BY <3>1, <3>2
    <2> QED BY <1>2, <2>1, <2>6, <2>7
  <1>3. CASE h # <<>>
    <2> DEFINE N == Len(h) + 2
    <2>1. NameOctets(h) = [i \in 1 .. N |-> OctetOf(h, i - 1)] /\ N \in Nat
      BY <1>1, <1>3, NameOctetsAre
    <2>2. ASSUME NEW i \in 1 .. N PROVE OctetOf(h, i - 1) \in Byte
      <3>1. CASE i = N
        BY <1>1, <3>1 DEF OctetOf, Byte
      <3>2. CASE i # N /\ (i = 1 \/ h[i - 1] = Dot)
        <4>1. i - 1 \in Starts(h) /\ (i - 1) + 1 = i
          BY <1>1, <3>2 DEF Starts
        <4>2. /\ i - 1 \in 0 .. Len(h)
              /\ NextDot(h, i - 1) \in (i - 1) + 2 .. Len(h) + 1
              /\ NameOctets(h)[i] = NextDot(h, i - 1) - (i - 1) - 1
              /\ NextDot(h, i - 1) - (i - 1) - 1 < LabelLimit
          BY <1>3, <4>1, LabelFacts
        <4>3. ASSUME NEW e, NEW k \in 0 .. Len(h), e \in k + 2 .. Len(h) + 1, e - k - 1 < LabelLimit
              PROVE  e - k - 1 \in Byte
          BY <1>1, <4>3 DEF Byte, LabelLimit
        <4>4. NameOctets(h)[i] \in Byte
          BY <4>2, <4>3
        <4> QED BY <2>1, <4>4
      <3>3. CASE i # N /\ i # 1 /\ h[i - 1] # Dot
        <4>1. i - 1 \in 1 .. Len(h) /\ i - 1 # Len(h) + 1 /\ i - 1 # 0
          BY <1>1, <3>3
        <4>2. i - 1 \notin Dots(h)
          BY <1>1, <3>3, <4>1 DEF Dots
        <4> QED BY <1>1, <4>1, <4>2 DEF OctetOf
      <3> QED BY <3>1, <3>2, <3>3
    <2>3. NameOctets(h) \in Seq(Byte) /\ Len(NameOctets(h)) = N
      <3>1. NameOctets(h) = [i \in 1 .. N |-> OctetOf(h, i - 1)] /\ N \in Nat
            /\ \A i \in 1 .. N : OctetOf(h, i - 1) \in Byte
        BY <2>1, <2>2
      <3> HIDE DEF N
      <3>2. NameOctets(h) \in [1 .. N -> Byte]
        BY <3>1
      <3> QED BY <3>1, <3>2
    <2>4. NameOctets(h)[N] = 0
      <3>1. N \in 1 .. N /\ N - 1 = Len(h) + 1
        BY <1>1
      <3>2. NameOctets(h)[N] = OctetOf(h, Len(h) + 1)
        BY <2>1, <3>1
      <3> QED BY <3>2 DEF OctetOf
    <2>5. ASSUME NEW i \in 1 .. Len(h), h[i] # Dot PROVE NameOctets(h)[i + 1] = h[i]
      <3>1. i + 1 \in 1 .. N /\ (i + 1) - 1 = i /\ i # Len(h) + 1 /\ i # 0
        BY <1>1
      <3>2. i \notin Dots(h)
        BY <1>1, <2>5, <3>1 DEF Dots
      <3>3. NameOctets(h)[i + 1] = OctetOf(h, i)
        BY <2>1, <3>1
      <3> QED BY <3>1, <3>2, <3>3 DEF OctetOf
    <2> QED BY <1>3, <2>3, <2>4, <2>5
  <1> QED BY <1>2, <1>3

\* One step of the walk over a name, by the kind of octet that it meets.
LEMMA NameStepCases ==
    ASSUME NEW m, IsOctets(m), NEW f, NEW o \in HeaderSize .. Size(m) - 1
    PROVE  /\ At(m, o) >= Pointer =>
                NameStep(m, f, o) = IF o + 2 > Size(m) THEN Throws
                                    ELSE [ok |-> TRUE, off |-> o + 2, owner |-> <<>>]
           /\ At(m, o) \in LabelLimit .. Pointer - 1 => NameStep(m, f, o) = Throws
           /\ At(m, o) < LabelLimit =>
                NameStep(m, f, o) =
                    IF o + 1 + At(m, o) >= Size(m) THEN Throws
                    ELSE IF At(m, o) = 0 THEN [ok |-> TRUE, off |-> o + 1, owner |-> <<>>]
                    ELSE Labelled(Slice(m, o + 1, o + 1 + At(m, o)), f[o + 1 + At(m, o)])
  <1>1. At(m, o) \in Int
    BY Numbers
  <1>2. CASE At(m, o) >= Pointer
    <2>1. ~(At(m, o) \in LabelLimit .. Pointer - 1) /\ ~(At(m, o) < LabelLimit)
      BY <1>1, <1>2 DEF Pointer, LabelLimit
    <2> QED BY <1>2, <2>1 DEF NameStep
  <1>3. CASE At(m, o) \in LabelLimit .. Pointer - 1
    <2>1. ~(At(m, o) >= Pointer) /\ ~(At(m, o) < LabelLimit)
      BY <1>1, <1>3 DEF Pointer, LabelLimit
    <2> QED BY <1>3, <2>1 DEF NameStep
  <1>4. CASE At(m, o) < LabelLimit
    <2>1. ~(At(m, o) >= Pointer) /\ ~(At(m, o) \in LabelLimit .. Pointer - 1)
      BY <1>1, <1>4 DEF Pointer, LabelLimit
    <2> QED BY <1>4, <2>1 DEF NameStep
  <1>5. At(m, o) >= Pointer \/ At(m, o) \in LabelLimit .. Pointer - 1 \/ At(m, o) < LabelLimit
    BY <1>1 DEF Pointer, LabelLimit
  <1> QED BY <1>2, <1>3, <1>4, <1>5

\* The step looks at names behind it only.
LEMMA NameStepSame ==
    ASSUME NEW m, IsOctets(m), NEW f, NEW g, NEW o \in HeaderSize .. Size(m) - 1,
           \A p \in o + 1 .. Size(m) - 1 : f[p] = g[p]
    PROVE  NameStep(m, f, o) = NameStep(m, g, o)
  <1>1. At(m, o) \in 0 .. 255 /\ Size(m) \in Nat /\ o \in Nat
    BY Numbers DEF HeaderSize, Byte
  <1>2. CASE At(m, o) >= Pointer
    BY <1>2, NameStepCases
  <1>3. CASE At(m, o) \in LabelLimit .. Pointer - 1
    BY <1>3, NameStepCases
  <1>4. CASE At(m, o) < LabelLimit
    <2>1. CASE o + 1 + At(m, o) >= Size(m) \/ At(m, o) = 0
      BY <1>4, <2>1, NameStepCases
    <2>2. CASE ~(o + 1 + At(m, o) >= Size(m)) /\ At(m, o) # 0
      <3>1. f[o + 1 + At(m, o)] = g[o + 1 + At(m, o)]
        BY <1>1, <2>2
      <3>2. /\ NameStep(m, f, o) = Labelled(Slice(m, o + 1, o + 1 + At(m, o)), f[o + 1 + At(m, o)])
            /\ NameStep(m, g, o) = Labelled(Slice(m, o + 1, o + 1 + At(m, o)), g[o + 1 + At(m, o)])
        BY <1>4, <2>2, NameStepCases
      <3> QED BY <3>1, <3>2
    <2> QED BY <2>1, <2>2
  <1>5. At(m, o) >= Pointer \/ At(m, o) \in LabelLimit .. Pointer - 1 \/ At(m, o) < LabelLimit
    BY <1>1 DEF Pointer, LabelLimit
  <1> QED BY <1>2, <1>3, <1>4, <1>5

\* f holds the name at each offset from lo on.
IsNames(f, m, lo) == f = [o \in lo .. Size(m) - 1 |-> NameStep(m, f, o)]

\* What the recursive definition in get_rr_name defines exists.
LEMMA NamesExist ==
    ASSUME NEW m, IsOctets(m)
    PROVE  \E f : IsNames(f, m, HeaderSize)
  <1>1. Size(m) \in Nat /\ Size(m) >= HeaderSize /\ HeaderSize = 12
    BY Numbers DEF HeaderSize
  <1> DEFINE Z == Size(m)
             S == {n \in Nat : n <= Z - 12 /\ ~ \E f : IsNames(f, m, Z - n)}
  <1>2. ASSUME S # {} PROVE FALSE
    <2>1. PICK n \in S : \A k \in S : n <= k
      <3> S \subseteq Nat
        OBVIOUS
      <3> HIDE DEF S
      <3> QED BY <1>2, LeastNumber
    <2> DEFINE lo == Z - n
    <2>2. n \in Nat /\ lo \in 12 .. Z /\ n <= Z - 12 /\ ~ \E f : IsNames(f, m, lo)
      BY <1>1, <2>1
    <2>3. CASE n = 0
      <3> DEFINE g == [o \in lo .. Z - 1 |-> 0]
      <3>1. lo .. Z - 1 = {}
        BY <1>1, <2>3
      <3>2. g = [o \in lo .. Z - 1 |-> NameStep(m, g, o)]
        BY <3>1
      <3> HIDE DEF g, lo
      <3> QED BY <2>2, <3>2 DEF IsNames
    <2>4. CASE n # 0
      <3>1. n - 1 \in Nat /\ n - 1 \notin S /\ Z - (n - 1) = lo + 1 /\ n - 1 <= Z - 12
        BY <1>1, <2>1, <2>4
      <3>2. PICK f : IsNames(f, m, lo + 1)
        BY <3>1
      <3> DEFINE g == [o \in lo .. Z - 1 |-> IF o = lo THEN NameStep(m, f, lo) ELSE f[o]]
      <3>3. lo \in lo .. Z - 1 /\ lo \in HeaderSize .. Z - 1
        BY <1>1, <2>2, <2>4
      <3> HIDE DEF lo
      <3>4. \A o \in lo + 1 .. Z - 1 : f[o] = NameStep(m, f, o)
        BY <3>2 DEF IsNames
      <3>5. \A o \in lo + 1 .. Z - 1 : g[o] = f[o]
        BY <1>1, <2>2
      <3>6. g[lo] = NameStep(m, f, lo) /\ g = [o \in lo .. Z - 1 |-> g[o]]
        BY <3>3
      <3> HIDE DEF g
      <3>7. ASSUME NEW o \in lo .. Z - 1 PROVE g[o] = NameStep(m, g, o)
        <4>1. o \in HeaderSize .. Size(m) - 1 /\ \A p \in o + 1 .. Size(m) - 1 : p \in lo + 1 .. Z - 1
          BY <1>1, <2>2
        <4>2. NameStep(m, f, o) = NameStep(m, g, o)
          BY <3>5, <4>1, NameStepSame
        <4>3. o = lo \/ o \in lo + 1 .. Z - 1
          BY <1>1, <2>2
        <4> QED BY <3>4, <3>5, <3>6, <4>2, <4>3
      <3>8. IsNames(g, m, lo)
        BY <3>6, <3>7 DEF IsNames
      <3> QED BY <2>2, <3>8
    <2> QED BY <2>3, <2>4
  <1>3. Z - 12 \notin S /\ Z - 12 \in Nat /\ Z - (Z - 12) = 12
    BY <1>1, <1>2
  <1> QED BY <1>1, <1>3

\* get_rr_name walks over names of which each is one step from those behind it.
LEMMA NamesWalked ==
    ASSUME NEW m, IsOctets(m)
    PROVE  \E f : /\ \A o \in HeaderSize .. Size(m) - 1 : f[o] = NameStep(m, f, o)
                  /\ \A off : get_rr_name(m, off) =
                                IF off + 1 >= Size(m) THEN Throws ELSE NotTooLong(f[off])
  <1> DEFINE g == CHOOSE f : f = [o \in HeaderSize .. Size(m) - 1 |-> NameStep(m, f, o)]
  <1>1. \E f : f = [o \in HeaderSize .. Size(m) - 1 |-> NameStep(m, f, o)]
    BY NamesExist DEF IsNames
  <1>2. g = [o \in HeaderSize .. Size(m) - 1 |-> NameStep(m, g, o)]
    BY <1>1
  <1>3. \A off : get_rr_name(m, off) = IF off + 1 >= Size(m) THEN Throws ELSE NotTooLong(g[off])
    BY DEF get_rr_name
  <1> HIDE DEF g
  <1>4. \A o \in HeaderSize .. Size(m) - 1 : g[o] = NameStep(m, g, o)
    BY <1>2
  <1> QED BY <1>3, <1>4

\* A sequence is what stands before a place, the place, and the rest.
LEMMA SplitAt ==
    ASSUME NEW F \in Seq(Byte), NEW k \in Nat, NEW d \in k + 1 .. Len(F)
    PROVE  SubSeq(F, k + 1, Len(F))
             = SubSeq(F, k + 1, d - 1) \o <<F[d]>> \o SubSeq(F, d + 1, Len(F))
  <1> DEFINE a == SubSeq(F, k + 1, d - 1)
             b == <<F[d]>>
             c == SubSeq(F, d + 1, Len(F))
             s == SubSeq(F, k + 1, Len(F))
             n == d - 1 - k
  <1>1. Len(F) \in Nat /\ d \in 1 .. Len(F) /\ n \in Nat /\ n = d - 1 - k /\ d \in Nat
    OBVIOUS
  <1>2. a \in Seq(Byte) /\ Len(a) = n /\ \A i \in 1 .. n : a[i] = F[k + i]
    BY <1>1
  <1>3. b \in Seq(Byte) /\ Len(b) = 1 /\ b[1] = F[d]
    BY <1>1
  <1>4. c \in Seq(Byte) /\ Len(c) = Len(F) - d /\ \A i \in 1 .. Len(F) - d : c[i] = F[d + i]
    BY <1>1
  <1>5. s \in Seq(Byte) /\ Len(s) = Len(F) - k /\ \A i \in 1 .. Len(F) - k : s[i] = F[k + i]
    BY <1>1
  <1> HIDE DEF a, b, c, s, n
  <1>6. /\ a \o b \in Seq(Byte) /\ Len(a \o b) = n + 1
        /\ \A i \in 1 .. n : (a \o b)[i] = F[k + i]
        /\ (a \o b)[n + 1] = F[d]
    <2>1. a \in Seq(Byte) /\ b \in Seq(Byte)
      BY <1>2, <1>3
    <2>2. /\ a \o b \in Seq(Byte) /\ Len(a \o b) = Len(a) + Len(b)
          /\ \A i \in 1 .. Len(a) : (a \o b)[i] = a[i]
          /\ \A i \in 1 .. Len(b) : (a \o b)[Len(a) + i] = b[i]
      BY <2>1, ConcatParts
    <2> QED BY <1>1, <1>2, <1>3, <2>2
  <1>7. /\ a \o b \o c \in Seq(Byte) /\ Len(a \o b \o c) = n + 1 + (Len(F) - d)
        /\ \A i \in 1 .. n + 1 : (a \o b \o c)[i] = (a \o b)[i]
        /\ \A i \in 1 .. Len(F) - d : (a \o b \o c)[n + 1 + i] = F[d + i]
    <2> DEFINE ab == a \o b
    <2>0. Len(ab) = n + 1
      BY <1>6
    <2>1. ab \in Seq(Byte) /\ c \in Seq(Byte)
      BY <1>4, <1>6
    <2> HIDE DEF ab
    <2>2. /\ ab \o c \in Seq(Byte) /\ Len(ab \o c) = Len(ab) + Len(c)
          /\ \A i \in 1 .. Len(ab) : (ab \o c)[i] = ab[i]
          /\ \A i \in 1 .. Len(c) : (ab \o c)[Len(ab) + i] = c[i]
      BY <2>1, ConcatParts
    <2>3. /\ ab \o c \in Seq(Byte) /\ Len(ab \o c) = n + 1 + (Len(F) - d)
          /\ \A i \in 1 .. n + 1 : (ab \o c)[i] = ab[i]
          /\ \A i \in 1 .. Len(F) - d : (ab \o c)[n + 1 + i] = F[d + i]
      BY <1>4, <2>0, <2>2
    <2> QED BY <2>3 DEF ab
  <1>8. n + 1 + (Len(F) - d) = Len(F) - k
    BY <1>1
  <1>9. ASSUME NEW i \in 1 .. Len(F) - k PROVE s[i] = (a \o b \o c)[i]
    <2>1. CASE i \in 1 .. n
      BY <1>1, <1>5, <1>6, <1>7, <2>1
    <2>2. CASE i = n + 1
      <3>1. k + i = d
        BY <1>1, <2>2
      <3> QED BY <1>1, <1>5, <1>6, <1>7, <2>2, <3>1
    <2>3. CASE i > n + 1
      <3>1. i - n - 1 \in 1 .. Len(F) - d /\ n + 1 + (i - n - 1) = i /\ d + (i - n - 1) = k + i
        BY <1>1, <2>3
      <3>2. (a \o b \o c)[n + 1 + (i - n - 1)] = F[d + (i - n - 1)]
        BY <1>7, <3>1
      <3> QED BY <1>5, <3>1, <3>2
    <2>4. i \in 1 .. n \/ i = n + 1 \/ i > n + 1
      BY <1>1
    <2> QED BY <2>1, <2>2, <2>3, <2>4
  <1>10. s = a \o b \o c
    <2>1. /\ s \in Seq(Byte) /\ a \o b \o c \in Seq(Byte) /\ Len(s) = Len(a \o b \o c)
          /\ \A i \in 1 .. Len(s) : s[i] = (a \o b \o c)[i]
      BY <1>5, <1>7, <1>8, <1>9
    <2> QED BY <2>1, SeqEqual
  <1> QED BY <1>10 DEF a, b, c, s

\* The characters of a name behind the k-th may all be in a name.
CharsFit(h, k) == \A i \in k + 1 .. Len(h) : is_dns_char(h[i]) \/ h[i] = Dot

\* What the walk over the name h at offset off finds at its k-th place.
NameFrom(h, off, k) ==
    IF CharsFit(h, k)
    THEN [ok |-> TRUE, off |-> off + Len(h) + 2, owner |-> SubSeq(FullName(h), k + 1, Len(h) + 1)]
    ELSE Throws

\* The name as it is read, with its final dot.
LEMMA FullNameFacts ==
    ASSUME NEW h \in Seq(Byte), h # <<>>
    PROVE  /\ FullName(h) \in Seq(Byte) /\ Len(FullName(h)) = Len(h) + 1
           /\ \A i \in 1 .. Len(h) : FullName(h)[i] = h[i]
           /\ FullName(h)[Len(h) + 1] = Dot
  <1>1. FullName(h) = Append(h, Dot) /\ Dot \in Byte
    BY DEF FullName, Dot, Byte
  <1> QED BY <1>1

\* The label that begins behind place k, in front of a name that is known.
LEMMA LabelRead ==
    ASSUME NEW h, IsHostName(h), LabelsFit(h), h # <<>>, NEW k \in Starts(h), NEW off \in Nat
    PROVE  Labelled(SubSeq(h, k + 1, NextDot(h, k) - 1), NameFrom(h, off, NextDot(h, k)))
             = NameFrom(h, off, k)
  <1> DEFINE d == NextDot(h, k)
             text == SubSeq(h, k + 1, d - 1)
             rest == NameFrom(h, off, d)
             F == FullName(h)
  <1>1. /\ h \in Seq(Byte) /\ Len(h) \in Nat /\ k \in 0 .. Len(h) /\ d \in k + 2 .. Len(h) + 1
        /\ \A i \in k + 1 .. d - 1 : i \in 1 .. Len(h) /\ h[i] # Dot
        /\ d \in Starts(h) \cup {Len(h) + 1}
    BY LabelFacts DEF IsHostName
  <1>2. F \in Seq(Byte) /\ Len(F) = Len(h) + 1 /\ \A i \in 1 .. Len(h) : F[i] = h[i]
    BY <1>1, FullNameFacts
  <1>3. F[d] = Dot
    <2>1. d = Len(h) + 1 \/ (d \in 1 .. Len(h) /\ h[d] = Dot)
      BY <1>1 DEF Starts
    <2> QED BY <1>1, <1>2, <2>1, FullNameFacts
  <1> HIDE DEF d, F
  <1>4. text \in Seq(Byte) /\ Len(text) = d - 1 - k /\ \A i \in 1 .. d - 1 - k : text[i] = h[k + i]
    BY <1>1
  <1>5. text = SubSeq(F, k + 1, d - 1)
    <2>1. /\ SubSeq(F, k + 1, d - 1) \in Seq(Byte) /\ Len(SubSeq(F, k + 1, d - 1)) = d - 1 - k
          /\ \A i \in 1 .. d - 1 - k : SubSeq(F, k + 1, d - 1)[i] = F[k + i]
      BY <1>1, <1>2
    <2>2. \A i \in 1 .. d - 1 - k : F[k + i] = h[k + i]
      BY <1>1, <1>2
    <2> HIDE DEF text
    <2> QED BY <1>4, <2>1, <2>2, SeqEqual
  <1>6. SubSeq(F, k + 1, Len(h) + 1) = text \o <<Dot>> \o SubSeq(F, d + 1, Len(h) + 1)
    <2>1. k \in Nat /\ d \in k + 1 .. Len(F)
      BY <1>1, <1>2
    <2>2. SubSeq(F, k + 1, Len(F)) = SubSeq(F, k + 1, d - 1) \o <<F[d]>> \o SubSeq(F, d + 1, Len(F))
      BY <1>2, <2>1, SplitAt
    <2> QED BY <1>2, <1>3, <1>5, <2>2
  <1>7. CharsFit(h, k) <=> CharsFit(h, d) /\ ~ \E i \in DOMAIN text : ~is_dns_char(text[i])
    <2>1. DOMAIN text = 1 .. d - 1 - k
      BY <1>4
    <2>2. ASSUME CharsFit(h, k), NEW i \in 1 .. d - 1 - k PROVE is_dns_char(text[i])
      <3>1. k + i \in k + 1 .. d - 1 /\ k + i \in k + 1 .. Len(h)
        BY <1>1
      <3> QED BY <1>1, <1>4, <2>2, <3>1 DEF CharsFit
    <2>3. CharsFit(h, k) => CharsFit(h, d)
      <3>1. \A i \in d + 1 .. Len(h) : i \in k + 1 .. Len(h)
        BY <1>1
      <3> QED BY <3>1 DEF CharsFit
    <2>4. ASSUME CharsFit(h, d), \A i \in 1 .. d - 1 - k : is_dns_char(text[i]),
                 NEW i \in k + 1 .. Len(h)
          PROVE  is_dns_char(h[i]) \/ h[i] = Dot
      <3>1. CASE i < d
        <4>1. i - k \in 1 .. d - 1 - k /\ k + (i - k) = i
          BY <1>1, <3>1
        <4> QED BY <1>4, <2>4, <4>1
      <3>2. CASE i = d
        BY <1>1, <1>2, <1>3, <3>2
      <3>3. CASE i > d
        BY <1>1, <2>4, <3>3 DEF CharsFit
      <3> QED BY <1>1, <3>1, <3>2, <3>3
    <2>5. CharsFit(h, d) /\ (\A i \in 1 .. d - 1 - k : is_dns_char(text[i])) => CharsFit(h, k)
      BY <2>4 DEF CharsFit
    <2> HIDE DEF text
    <2> QED BY <2>1, <2>2, <2>3, <2>5
  <1> HIDE DEF text
  <1>8. CASE CharsFit(h, k)
    <2>1. rest = [ok |-> TRUE, off |-> off + Len(h) + 2, owner |-> SubSeq(F, d + 1, Len(h) + 1)]
      BY <1>7, <1>8 DEF NameFrom, F
    <2> HIDE DEF rest
    <2>2. Labelled(text, rest) = [rest EXCEPT !.owner = text \o <<Dot>> \o @]
      BY <1>7, <1>8, <2>1 DEF Labelled
    <2>3. Labelled(text, rest)
            = [ok |-> TRUE, off |-> off + Len(h) + 2, owner |-> SubSeq(F, k + 1, Len(h) + 1)]
      BY <1>6, <2>1, <2>2
    <2>4. NameFrom(h, off, k)
            = [ok |-> TRUE, off |-> off + Len(h) + 2, owner |-> SubSeq(F, k + 1, Len(h) + 1)]
      BY <1>8 DEF NameFrom, F
    <2> QED BY <2>3, <2>4 DEF rest, text, d
  <1>9. CASE ~CharsFit(h, k)
    <2>1. NameFrom(h, off, k) = Throws
      BY <1>9 DEF NameFrom
    <2>2. ~rest.ok \/ \E i \in DOMAIN text : ~is_dns_char(text[i])
      <3>1. ~CharsFit(h, d) => ~rest.ok
        BY DEF NameFrom, Throws
      <3> QED BY <1>7, <1>9, <3>1
    <2>3. Labelled(text, rest) = Throws
      BY <2>2 DEF Labelled
    <2> QED BY <2>1, <2>3 DEF rest, text, d
  <1> QED BY <1>8, <1>9

\* The walk over the octets of a name finds the name from every label on, if its
\* characters may be in a name.
LEMMA NameWalk ==
    ASSUME NEW m, IsOctets(m), NEW h, IsHostName(h), LabelsFit(h), h # <<>>,
           NEW off, Stand(m, off, NameOctets(h)), off + Len(NameOctets(h)) < Size(m),
           NEW f, \A o \in HeaderSize .. Size(m) - 1 : f[o] = NameStep(m, f, o)
    PROVE  f[off] = NameFrom(h, off, 0)
  <1> DEFINE K == Starts(h) \cup {Len(h) + 1}
             S == {n \in Nat : \E k \in K : n = Len(h) + 1 - k /\ f[off + k] # NameFrom(h, off, k)}
             N == NameOctets(h)
  <1>1. /\ h \in Seq(Byte) /\ Len(h) \in Nat /\ Len(h) # 0 /\ Len(N) = Len(h) + 2
        /\ N[Len(h) + 2] = 0 /\ \A i \in 1 .. Len(h) : h[i] # Dot => N[i + 1] = h[i]
    BY NameOctetsFacts DEF IsHostName
  <1>2. /\ off \in Nat /\ off >= 12 /\ Size(m) \in Nat /\ off + Len(h) + 2 < Size(m)
        /\ \A i \in 1 .. Len(h) + 2 : At(m, off + i - 1) = N[i]
    BY <1>1, Numbers DEF Stand, HeaderSize
  <1>3. K \subseteq 0 .. Len(h) + 1 /\ 0 \in K
    BY <1>1 DEF Starts
  <1>4. ASSUME NEW k \in 0 .. Len(h) + 1
        PROVE  At(m, off + k) = N[k + 1] /\ off + k \in HeaderSize .. Size(m) - 1
    <2>1. k + 1 \in 1 .. Len(h) + 2 /\ off + (k + 1) - 1 = off + k
      BY <1>1, <1>2
    <2> QED BY <1>1, <1>2, <2>1 DEF HeaderSize
  <1> HIDE DEF N
  <1>5. ASSUME S # {} PROVE FALSE
    <2>1. PICK n \in S : \A j \in S : n <= j
      <3> S \subseteq Nat
        OBVIOUS
      <3> HIDE DEF S
      <3> QED BY <1>5, LeastNumber
    <2>2. PICK k \in K : n = Len(h) + 1 - k /\ f[off + k] # NameFrom(h, off, k)
      BY <2>1
    <2>3. k \in 0 .. Len(h) + 1
      BY <1>3
    <2>4. f[off + k] = NameStep(m, f, off + k)
      BY <1>4, <2>3
    <2>5. CASE k = Len(h) + 1
      <3>1. At(m, off + k) = 0
        BY <1>1, <1>4, <2>3, <2>5
      <3>2. NameStep(m, f, off + k) = [ok |-> TRUE, off |-> off + k + 1, owner |-> <<>>]
        <4>1. 0 < LabelLimit /\ ~(off + k + 1 + 0 >= Size(m))
          BY <1>1, <1>2, <2>5 DEF LabelLimit
        <4> QED BY <1>4, <2>3, <3>1, <4>1, NameStepCases
      <3>3. CharsFit(h, k)
        BY <1>1, <2>5 DEF CharsFit
      <3>4. SubSeq(FullName(h), k + 1, Len(h) + 1) = <<>>
        BY <1>1, <2>5, FullNameFacts
      <3>5. NameFrom(h, off, k) = [ok |-> TRUE, off |-> off + Len(h) + 2, owner |-> <<>>]
        BY <3>3, <3>4 DEF NameFrom
      <3>6. off + k + 1 = off + Len(h) + 2
        BY <1>1, <1>2, <2>5
      <3> QED BY <2>2, <2>4, <3>2, <3>5, <3>6
    <2>6. CASE k # Len(h) + 1
      <3> DEFINE d == NextDot(h, k)
                 L == d - k - 1
                 text == SubSeq(h, k + 1, d - 1)
      <3>1. k \in Starts(h)
        BY <2>6
      <3>2. /\ k \in 0 .. Len(h) /\ d \in k + 2 .. Len(h) + 1 /\ d \in K
            /\ \A i \in k + 1 .. d - 1 : i \in 1 .. Len(h) /\ h[i] # Dot
            /\ N[k + 1] = L /\ L < LabelLimit
        BY <3>1, LabelFacts DEF N
      <3>3. Labelled(text, NameFrom(h, off, d)) = NameFrom(h, off, k)
        BY <1>2, <3>1, LabelRead
      <3> HIDE DEF d, K
      <3>4. f[off + d] = NameFrom(h, off, d)
        <4>1. Len(h) + 1 - d \in Nat /\ Len(h) + 1 - d < n
          BY <1>1, <2>2, <3>2
        <4>2. Len(h) + 1 - d \notin S
          <5>1. n \in Nat
            BY <2>1
          <5> HIDE DEF S
          <5> QED BY <2>1, <4>1, <5>1
        <4> QED BY <3>2, <4>1, <4>2
      <3>5. /\ At(m, off + k) = L /\ L \in Nat /\ L # 0 /\ off + k + 1 + L = off + d
            /\ ~(off + k + 1 + L >= Size(m)) /\ off + d \in Nat /\ off + k + 1 \in Nat
        BY <1>1, <1>2, <1>4, <3>2
      <3>6. /\ text \in Seq(Byte) /\ Len(text) = L /\ \A i \in 1 .. L : text[i] = h[k + i]
        BY <1>1, <3>2
      <3> HIDE DEF L, text
      <3>7. Stand(m, off + k + 1, text)
        <4>1. ASSUME NEW i \in 1 .. L PROVE At(m, off + k + 1 + i - 1) = text[i]
          <5>1. k + i \in k + 1 .. d - 1 /\ k + i \in 0 .. Len(h) + 1 /\ off + k + 1 + i - 1 = off + (k + i)
            BY <1>1, <1>2, <3>2, <3>5 DEF L
          <5>2. k + i \in 1 .. Len(h) /\ h[k + i] # Dot
            BY <3>2, <5>1
          <5>3. At(m, off + (k + i)) = N[(k + i) + 1] /\ N[(k + i) + 1] = h[k + i]
            BY <1>1, <1>4, <5>1, <5>2
          <5> QED BY <3>6, <5>1, <5>3
        <4>2. off + k + 1 >= HeaderSize /\ off + k + 1 + Len(text) <= Size(m)
          BY <1>2, <3>2, <3>5, <3>6 DEF HeaderSize
        <4> QED BY <3>5, <3>6, <4>1, <4>2 DEF Stand
      <3>8. Slice(m, off + k + 1, off + d) = text
        BY <3>5, <3>6, <3>7, StandSlice
      <3>9. NameStep(m, f, off + k) = Labelled(Slice(m, off + k + 1, off + k + 1 + L), f[off + k + 1 + L])
        <4>1. off + k \in HeaderSize .. Size(m) - 1 /\ At(m, off + k) < LabelLimit
          BY <1>4, <2>3, <3>2, <3>5
        <4> QED BY <3>5, <4>1, NameStepCases
      <3> QED BY <2>2, <2>4, <3>3, <3>4, <3>5, <3>8, <3>9
    <2> QED BY <2>5, <2>6
  <1>6. Len(h) + 1 \notin S /\ Len(h) + 1 \in Nat /\ Len(h) + 1 = Len(h) + 1 - 0
    <2> HIDE DEF S
    <2> QED BY <1>1, <1>5
  <1>7. f[off + 0] = NameFrom(h, off, 0)
    BY <1>3, <1>6
  <1> QED BY <1>2, <1>7

\* A name is read as it was written, or refused if it is not readable.
LEMMA NameReads ==
    ASSUME NEW m, IsOctets(m), NEW h, IsHostName(h), LabelsFit(h),
           NEW off, Stand(m, off, NameOctets(h)), off + Len(NameOctets(h)) < Size(m)
    PROVE  get_rr_name(m, off) =
             IF Readable(h)
             THEN [ok |-> TRUE, off |-> off + Len(NameOctets(h)), owner |-> FullName(h)]
             ELSE Throws
  <1>1. PICK f : /\ \A o \in HeaderSize .. Size(m) - 1 : f[o] = NameStep(m, f, o)
                 /\ \A o : get_rr_name(m, o) = IF o + 1 >= Size(m) THEN Throws ELSE NotTooLong(f[o])
    BY NamesWalked
  <1>2. /\ h \in Seq(Byte) /\ Len(h) \in Nat /\ Len(NameOctets(h)) \in Nat \ {0}
        /\ Len(NameOctets(h)) = IF h = <<>> THEN 1 ELSE Len(h) + 2
    BY NameOctetsFacts DEF IsHostName
  <1>3. off \in Nat /\ off >= HeaderSize /\ Size(m) \in Nat /\ ~(off + 1 >= Size(m))
    BY <1>2, Numbers DEF Stand
  <1>4. get_rr_name(m, off) = NotTooLong(f[off])
    BY <1>1, <1>3
  <1>5. CASE h = <<>>
    <2>1. Len(NameOctets(h)) = 1 /\ NameOctets(h)[1] = 0
      BY <1>5, NameOctetsFacts
    <2>2. At(m, off) = 0
      <3>1. At(m, off + 1 - 1) = 0 /\ off + 1 - 1 = off
        BY <1>3, <2>1 DEF Stand
      <3> QED BY <3>1
    <2>3. off \in HeaderSize .. Size(m) - 1 /\ 0 < LabelLimit /\ ~(off + 1 + 0 >= Size(m))
      BY <1>3 DEF LabelLimit, HeaderSize
    <2>4. f[off] = [ok |-> TRUE, off |-> off + 1, owner |-> <<>>]
      BY <1>1, <2>2, <2>3, NameStepCases
    <2>5. FullName(h) = <<>> /\ Readable(h)
      BY <1>5 DEF Readable, FullName, MaxHostName
    <2> QED BY <1>4, <2>1, <2>4, <2>5 DEF NotTooLong, MaxHostName
  <1>6. CASE h # <<>>
    <2>1. f[off] = NameFrom(h, off, 0)
      BY <1>1, <1>6, NameWalk
    <2>2. FullName(h) \in Seq(Byte) /\ Len(FullName(h)) = Len(h) + 1
      BY <1>2, <1>6, FullNameFacts
    <2>3. SubSeq(FullName(h), 0 + 1, Len(h) + 1) = FullName(h)
      BY <1>2, <2>2
    <2>4. Readable(h) <=> CharsFit(h, 0) /\ Len(FullName(h)) <= MaxHostName
      BY <1>2 DEF Readable, CharsFit
    <2>5. CASE CharsFit(h, 0)
      <3>1. f[off] = [ok |-> TRUE, off |-> off + Len(h) + 2, owner |-> FullName(h)]
        BY <2>1, <2>3, <2>5 DEF NameFrom
      <3>2. off + Len(h) + 2 = off + Len(NameOctets(h))
        BY <1>2, <1>3, <1>6
      <3>3. f[off].ok /\ f[off].owner = FullName(h)
        BY <3>1
      <3>4. CASE Len(FullName(h)) <= MaxHostName
        <4>1. get_rr_name(m, off) = f[off]
          BY <1>4, <3>3, <3>4 DEF NotTooLong
        <4> QED BY <2>4, <2>5, <3>1, <3>2, <3>4, <4>1
      <3>5. CASE ~(Len(FullName(h)) <= MaxHostName)
        <4>1. get_rr_name(m, off) = Throws
          BY <1>4, <3>3, <3>5 DEF NotTooLong
        <4> QED BY <2>4, <3>5, <4>1
      <3> QED BY <3>4, <3>5
    <2>6. CASE ~CharsFit(h, 0)
      <3>1. f[off] = Throws
        BY <2>1, <2>6 DEF NameFrom
      <3> QED BY <1>4, <2>4, <2>6, <3>1 DEF NotTooLong, Throws
    <2> QED BY <2>5, <2>6
  <1> QED BY <1>5, <1>6

\* A pointer is read as a name of its own.
LEMMA PointerReads ==
    ASSUME NEW m, IsOctets(m), NEW off, Stand(m, off, <<Pointer, HeaderSize>>)
    PROVE  get_rr_name(m, off) = [ok |-> TRUE, off |-> off + 2, owner |-> <<>>]
  <1>1. PICK f : /\ \A o \in HeaderSize .. Size(m) - 1 : f[o] = NameStep(m, f, o)
                 /\ \A o : get_rr_name(m, o) = IF o + 1 >= Size(m) THEN Throws ELSE NotTooLong(f[o])
    BY NamesWalked
  <1>2. off \in Nat /\ off >= HeaderSize /\ Size(m) \in Nat /\ off + 2 <= Size(m) /\ At(m, off + 1 - 1) = Pointer
    BY Numbers DEF Stand
  <1>3. At(m, off) >= Pointer /\ off \in HeaderSize .. Size(m) - 1 /\ ~(off + 2 > Size(m)) /\ ~(off + 1 >= Size(m))
    BY <1>2 DEF Pointer, HeaderSize
  <1>4. f[off] = [ok |-> TRUE, off |-> off + 2, owner |-> <<>>]
    BY <1>1, <1>3, NameStepCases
  <1> QED BY <1>1, <1>3, <1>4 DEF NotTooLong, MaxHostName

-----------------------------------------------------------------------------
(***************************************************************************)
(* Messages: the question and one record.                                  *)
(***************************************************************************)

QuestionOctets(c) == NameOctets(c.host) \o htons(c.type) \o htons(c.class)

\* The parts of the question's octets.
LEMMA QuestionFacts ==
    ASSUME NEW c \in Content
    PROVE  /\ QuestionOctets(c) \in Seq(Byte) /\ Len(QuestionOctets(c)) = Len(NameOctets(c.host)) + 4
           /\ Len(NameOctets(c.host)) \in Nat \ {0}
           /\ NameOctets(c.host) \o htons(c.type) \in Seq(Byte)
           /\ Len(NameOctets(c.host) \o htons(c.type)) = Len(NameOctets(c.host)) + 2
           /\ IsHostName(c.host) /\ LabelsFit(c.host)
           /\ NameOctets(c.host) \in Seq(Byte) /\ c.type \in Word /\ c.class \in Word
  <1> DEFINE N == NameOctets(c.host)
             T == htons(c.type)
             C == htons(c.class)
             NT == N \o T
  <1>1. c.type \in Word /\ c.class \in Word /\ IsHostName(c.host) /\ LabelsFit(c.host)
    BY DEF Content
  <1>2. N \in Seq(Byte) /\ T \in Seq(Byte) /\ C \in Seq(Byte)
    BY <1>1, NameOctetsFacts, HtonsFacts
  <1>3. Len(T) = 2 /\ Len(C) = 2
    BY <1>1, HtonsFacts
  <1>4. c.host \in Seq(Byte) /\ Len(c.host) \in Nat
    BY <1>1 DEF IsHostName
  <1>5. Len(N) \in Nat \ {0}
    <2> DEFINE k == Len(c.host)
    <2>1. Len(N) = IF c.host = <<>> THEN 1 ELSE k + 2
      BY <1>1, NameOctetsFacts, Zenon
    <2>2. k \in Nat
      BY <1>4
    <2> HIDE DEF N, k
    <2> QED BY <2>1, <2>2
  <1> HIDE DEF N, T, C
  <1>6. NT \in Seq(Byte) /\ Len(NT) = Len(N) + Len(T)
    BY <1>2, ConcatLen
  <1> HIDE DEF NT
  <1>7. NT \o C \in Seq(Byte) /\ Len(NT \o C) = Len(NT) + Len(C)
    BY <1>2, <1>6, ConcatLen
  <1>8. Len(NT \o C) = Len(N) + 4 /\ Len(NT) = Len(N) + 2
    BY <1>3, <1>5, <1>6, <1>7
  <1> QED BY <1>1, <1>2, <1>5, <1>6, <1>7, <1>8 DEF QuestionOctets, NT, N, T, C

\* The question is read as it was written, or refused.
LEMMA QuestionReads ==
    ASSUME NEW m, IsOctets(m), NEW c \in Content, Stand(m, HeaderSize, QuestionOctets(c))
    PROVE  get_rr_question(m, HeaderSize) =
             IF Readable(c.host)
             THEN [ok |-> TRUE, off |-> HeaderSize + Len(QuestionOctets(c)), owner |-> FullName(c.host),
                   type |-> c.type, class |-> c.class]
             ELSE Throws
  <1> DEFINE N == NameOctets(c.host)
             T == htons(c.type)
             C == htons(c.class)
             NT == N \o T
             o == HeaderSize
  <1>0. /\ N \in Seq(Byte) /\ c.type \in Word /\ c.class \in Word
        /\ IsHostName(c.host) /\ LabelsFit(c.host)
        /\ Len(QuestionOctets(c)) = Len(N) + 4 /\ Len(N) \in Nat
    BY QuestionFacts
  <1>1. /\ N \in Seq(Byte) /\ T \in Seq(Byte) /\ C \in Seq(Byte) /\ Len(T) = 2 /\ Len(C) = 2
        /\ c.type \in Word /\ c.class \in Word /\ IsHostName(c.host) /\ LabelsFit(c.host)
        /\ Len(QuestionOctets(c)) = Len(N) + 4 /\ Len(N) \in Nat
    BY <1>0, HtonsFacts
  <1>2. NT \in Seq(Byte) /\ Len(NT) = Len(N) + 2
    BY QuestionFacts
  <1>3. Stand(m, o, NT \o C)
    BY DEF QuestionOctets
  <1> HIDE DEF C, NT
  <1>4. Stand(m, o, NT) /\ Stand(m, o + Len(N) + 2, C)
    <2>1. Stand(m, o, NT) /\ Stand(m, o + Len(NT), C)
      BY <1>1, <1>2, <1>3, StandConcat
    <2>2. o + Len(NT) = o + Len(N) + 2
      BY <1>1, <1>2 DEF HeaderSize
    <2> QED BY <2>1, <2>2
  <1> HIDE DEF N, T
  <1>5. Stand(m, o, N) /\ Stand(m, o + Len(N), T)
    BY <1>1, <1>4, StandConcat DEF NT
  <1>6. o + Len(N) + 4 <= Size(m) /\ Size(m) \in Nat /\ o \in Nat
    BY <1>1, <1>4, Numbers DEF Stand, HeaderSize
  <1>7. ntohs(m, o + Len(N)) = c.type /\ ntohs(m, o + Len(N) + 2) = c.class
    BY <1>1, <1>4, <1>5, NtohsReads DEF T, C
  <1>8. get_rr_name(m, o) = IF Readable(c.host)
                            THEN [ok |-> TRUE, off |-> o + Len(N), owner |-> FullName(c.host)]
                            ELSE Throws
    <2>1. o + Len(N) < Size(m)
      BY <1>1, <1>6
    <2> QED BY <1>1, <1>5, <2>1, NameReads DEF N
  <1>9. CASE Readable(c.host)
    <2> DEFINE name == get_rr_name(m, o)
    <2>1. name.ok = TRUE /\ name.off = o + Len(N) /\ name.owner = FullName(c.host)
      BY <1>8, <1>9
    <2> HIDE DEF name
    <2>2. ~(name.off + 4 > Size(m)) /\ name.off + 4 = o + (Len(N) + 4)
      <3>1. Len(N) \in Nat
        BY <1>1
      <3> HIDE DEF o
      <3> QED BY <1>6, <2>1, <3>1
    <2>3. QuestionAfter(m, name) =
            [ok |-> TRUE, off |-> o + (Len(N) + 4), owner |-> FullName(c.host),
             type |-> c.type, class |-> c.class]
      BY <1>7, <2>1, <2>2 DEF QuestionAfter
    <2> QED BY <1>1, <1>9, <2>3 DEF get_rr_question, name
  <1>10. CASE ~Readable(c.host)
    BY <1>8, <1>10 DEF get_rr_question, QuestionAfter, Throws
  <1> QED BY <1>9, <1>10

\* The octets of a record's owner.
LEMMA OwnerFacts ==
    ASSUME NEW r \in Record, NEW h, IsHostName(h), LabelsFit(h)
    PROVE  Owner(r.form, h) \in Seq(Byte) /\ Len(Owner(r.form, h)) \in Nat \ {0}
  <1>1. r.form \in {"pointer", "full", "root"}
    BY DEF Record
  <1>2. CASE r.form = "pointer"
    <2>1. Owner(r.form, h) = <<Pointer, HeaderSize>>
      BY <1>2 DEF Owner
    <2> QED BY <2>1 DEF Pointer, HeaderSize, Byte
  <1>3. CASE r.form = "full"
    <2>1. Owner(r.form, h) = NameOctets(h)
      BY <1>3 DEF Owner
    <2>2. h \in Seq(Byte) /\ Len(h) \in Nat
      BY DEF IsHostName
    <2> QED BY <2>1, <2>2, NameOctetsFacts
  <1>4. CASE r.form = "root"
    <2>1. Owner(r.form, h) = <<0>>
      BY <1>4 DEF Owner
    <2> QED BY <2>1 DEF Byte
  <1> QED BY <1>1, <1>2, <1>3, <1>4

GotOwner(r, h) == IF r.form = "full" THEN FullName(h) ELSE <<>>

\* The empty name is the root.
LEMMA RootFacts == IsHostName(<<>>) /\ LabelsFit(<<>>) /\ NameOctets(<<>>) = <<0>> /\ Readable(<<>>)
  <1> DEFINE h == <<>>
  <1>1. h \in Seq(Byte) /\ Len(h) = 0
    OBVIOUS
  <1>2. IsHostName(h)
    BY <1>1 DEF IsHostName
  <1>3. NameOctets(h) = [i \in 1 .. 1 |-> OctetOf(h, i - 1)]
    BY <1>2, NameOctetsAre
  <1>4. OctetOf(h, 0) = 0
    <2>1. Dots(h) = {1} /\ 0 \in 0 .. Len(h)
      BY <1>1 DEF Dots
    <2>2. NextDot(h, 0) = 1
      BY <1>1, <2>1, NextDotFacts
    <2> QED BY <1>1, <2>2 DEF OctetOf
  <1>5. NameOctets(h) = <<0>>
    BY <1>3, <1>4
  <1>6. LabelsFit(h)
    BY <1>1, <1>5 DEF LabelsFit, LabelLimit
  <1>7. Readable(h)
    BY <1>1 DEF Readable, FullName, MaxHostName
  <1> QED BY <1>2, <1>5, <1>6, <1>7

\* The owner of a record is read as it was written.
LEMMA OwnerReads ==
    ASSUME NEW m, IsOctets(m), NEW r \in Record, NEW h, IsHostName(h), LabelsFit(h), Readable(h),
           NEW o, Stand(m, o, Owner(r.form, h)), o + Len(Owner(r.form, h)) < Size(m)
    PROVE  get_rr_name(m, o) = [ok |-> TRUE, off |-> o + Len(Owner(r.form, h)), owner |-> GotOwner(r, h)]
  <1>1. r.form \in {"pointer", "full", "root"}
    BY DEF Record
  <1>2. CASE r.form = "pointer"
    <2>1. Owner(r.form, h) = <<Pointer, HeaderSize>> /\ Len(<<Pointer, HeaderSize>>) = 2
      BY <1>2 DEF Owner
    <2>2. GotOwner(r, h) = <<>>
      BY <1>2 DEF GotOwner
    <2> QED BY <2>1, <2>2, PointerReads
  <1>3. CASE r.form = "full"
    <2>1. Owner(r.form, h) = NameOctets(h)
      BY <1>3 DEF Owner
    <2>2. GotOwner(r, h) = FullName(h)
      BY <1>3 DEF GotOwner
    <2> QED BY <2>1, <2>2, NameReads
  <1>4. CASE r.form = "root"
    <2>1. Owner(r.form, h) = NameOctets(<<>>)
      BY <1>4, RootFacts DEF Owner
    <2>2. GotOwner(r, h) = <<>> /\ FullName(<<>>) = <<>>
      BY <1>4 DEF GotOwner, FullName
    <2> QED BY <2>1, <2>2, NameReads, RootFacts
  <1> QED BY <1>1, <1>2, <1>3, <1>4

\* What get_rr finds of a record that begins at offset o.
Got(r, h, o) ==
    [ok |-> TRUE, off |-> o + Len(RecordOctets(h, r)), owner |-> GotOwner(r, h),
     type |-> r.type, class |-> r.class, ttl |-> r.ttl, data |-> r.data]

\* The parts of a record's octets, and where they begin.
LEMMA RecordOctetsFacts ==
    ASSUME NEW r \in Record, NEW h, IsHostName(h), LabelsFit(h)
    PROVE  LET w  == Owner(r.form, h)
               p1 == w \o htons(r.type)
               p2 == p1 \o htons(r.class)
               p3 == p2 \o htonl(r.ttl)
               p4 == p3 \o htons(Len(r.data))
           IN  /\ RecordOctets(h, r) = p4 \o r.data
               /\ w \in Seq(Byte) /\ p1 \in Seq(Byte) /\ p2 \in Seq(Byte) /\ p3 \in Seq(Byte)
               /\ p4 \in Seq(Byte) /\ RecordOctets(h, r) \in Seq(Byte)
               /\ Len(w) \in Nat \ {0}
               /\ Len(p1) = Len(w) + 2 /\ Len(p2) = Len(w) + 4 /\ Len(p3) = Len(w) + 8
               /\ Len(p4) = Len(w) + 10 /\ Len(RecordOctets(h, r)) = Len(w) + 10 + Len(r.data)
               /\ r.data \in Seq(Byte) /\ Len(r.data) \in Word /\ Len(r.data) \in Nat
               /\ r.type \in Word /\ r.class \in Word /\ r.ttl \in Int32
               /\ htons(r.type) \in Seq(Byte) /\ htons(r.class) \in Seq(Byte)
               /\ htonl(r.ttl) \in Seq(Byte) /\ htons(Len(r.data)) \in Seq(Byte)
               /\ Len(htonl(r.ttl)) = 4
  <1> DEFINE w  == Owner(r.form, h)
             t  == htons(r.type)
             c  == htons(r.class)
             l  == htonl(r.ttl)
             n  == htons(Len(r.data))
             d  == r.data
             p1 == w \o t
             p2 == p1 \o c
             p3 == p2 \o l
             p4 == p3 \o n
             p5 == p4 \o d
  <1>1. /\ r.type \in Word /\ r.class \in Word /\ r.ttl \in Int32
        /\ d \in Seq(Byte) /\ Len(d) \in Word
    BY DEF Record
  <1>2. /\ w \in Seq(Byte) /\ t \in Seq(Byte) /\ c \in Seq(Byte) /\ l \in Seq(Byte) /\ n \in Seq(Byte)
    BY <1>1, OwnerFacts, HtonsFacts, HtonlFacts
  <1>3. Len(t) = 2 /\ Len(c) = 2 /\ Len(l) = 4 /\ Len(n) = 2 /\ Len(w) \in Nat \ {0}
    BY <1>1, OwnerFacts, HtonsFacts, HtonlFacts
  <1>4. RecordOctets(h, r) = p5
    BY DEF RecordOctets
  <1>5. Len(d) \in Nat
    BY <1>1
  <1> HIDE DEF w, t, c, l, n, d
  <1>6. p1 \in Seq(Byte) /\ Len(p1) = Len(w) + Len(t)
    BY <1>2, ConcatLen
  <1> HIDE DEF p1
  <1>7. p2 \in Seq(Byte) /\ Len(p2) = Len(p1) + Len(c)
    BY <1>2, <1>6, ConcatLen
  <1> HIDE DEF p2
  <1>8. p3 \in Seq(Byte) /\ Len(p3) = Len(p2) + Len(l)
    BY <1>2, <1>7, ConcatLen
  <1> HIDE DEF p3
  <1>9. p4 \in Seq(Byte) /\ Len(p4) = Len(p3) + Len(n)
    BY <1>2, <1>8, ConcatLen
  <1> HIDE DEF p4
  <1>10. p5 \in Seq(Byte) /\ Len(p5) = Len(p4) + Len(d)
    BY <1>1, <1>9, ConcatLen
  <1> HIDE DEF p5
  <1>11. /\ Len(p1) = Len(w) + 2 /\ Len(p2) = Len(w) + 4 /\ Len(p3) = Len(w) + 8
         /\ Len(p4) = Len(w) + 10 /\ Len(p5) = Len(w) + 10 + Len(d)
    BY <1>3, <1>5, <1>6, <1>7, <1>8, <1>9, <1>10
  <1> QED BY <1>1, <1>2, <1>3, <1>4, <1>5, <1>6, <1>7, <1>8, <1>9, <1>10, <1>11
          DEF p5, p4, p3, p2, p1, w, t, c, l, n, d

\* The parts of a record that stands at offset o.
LEMMA RecordStands ==
    ASSUME NEW m, IsOctets(m), NEW r \in Record, NEW h, IsHostName(h), LabelsFit(h),
           NEW o, Stand(m, o, RecordOctets(h, r))
    PROVE  LET w == Owner(r.form, h)
               e == o + Len(w)
           IN  /\ Stand(m, o, w) /\ Stand(m, e, htons(r.type)) /\ Stand(m, e + 2, htons(r.class))
               /\ Stand(m, e + 4, htonl(r.ttl)) /\ Stand(m, e + 8, htons(Len(r.data)))
               /\ Stand(m, e + 10, r.data)
  <1> DEFINE w  == Owner(r.form, h)
             t  == htons(r.type)
             c  == htons(r.class)
             l  == htonl(r.ttl)
             n  == htons(Len(r.data))
             d  == r.data
             p1 == w \o t
             p2 == p1 \o c
             p3 == p2 \o l
             p4 == p3 \o n
             e  == o + Len(w)
  <1>1. /\ RecordOctets(h, r) = p4 \o d
        /\ w \in Seq(Byte) /\ p1 \in Seq(Byte) /\ p2 \in Seq(Byte) /\ p3 \in Seq(Byte) /\ p4 \in Seq(Byte)
        /\ Len(w) \in Nat
        /\ Len(p1) = Len(w) + 2 /\ Len(p2) = Len(w) + 4 /\ Len(p3) = Len(w) + 8 /\ Len(p4) = Len(w) + 10
        /\ d \in Seq(Byte) /\ t \in Seq(Byte) /\ c \in Seq(Byte) /\ l \in Seq(Byte) /\ n \in Seq(Byte)
    BY RecordOctetsFacts
  <1>2. o \in Nat
    BY DEF Stand
  <1> HIDE DEF w, t, c, l, n, d, p4
  <1>3. Stand(m, o, p4) /\ Stand(m, o + Len(p4), d)
    BY <1>1, StandConcat
  <1> HIDE DEF p3
  <1>4. Stand(m, o, p3) /\ Stand(m, o + Len(p3), n)
    BY <1>1, <1>3, StandConcat DEF p4
  <1> HIDE DEF p2
  <1>5. Stand(m, o, p2) /\ Stand(m, o + Len(p2), l)
    BY <1>1, <1>4, StandConcat DEF p3
  <1> HIDE DEF p1
  <1>6. Stand(m, o, p1) /\ Stand(m, o + Len(p1), c)
    BY <1>1, <1>5, StandConcat DEF p2
  <1>7. Stand(m, o, w) /\ Stand(m, o + Len(w), t)
    BY <1>1, <1>6, StandConcat DEF p1
  <1>8. /\ o + Len(p1) = e + 2 /\ o + Len(p2) = e + 4 /\ o + Len(p3) = e + 8 /\ o + Len(p4) = e + 10
    BY <1>1, <1>2
  <1> QED BY <1>3, <1>4, <1>5, <1>6, <1>7, <1>8 DEF e, w, t, c, l, n, d

\* A record is read as it was written.
LEMMA RecordReads ==
    ASSUME NEW m, IsOctets(m), NEW r \in Record, NEW h, IsHostName(h), LabelsFit(h), Readable(h),
           NEW o, Stand(m, o, RecordOctets(h, r))
    PROVE  get_rr(m, o) = Got(r, h, o)
  <1> DEFINE w == Owner(r.form, h)
             e == o + Len(w)
             name == get_rr_name(m, o)
             d == r.data
             z == e + 10 + Len(d)
  <1>1. /\ Stand(m, o, w) /\ Stand(m, e, htons(r.type)) /\ Stand(m, e + 2, htons(r.class))
        /\ Stand(m, e + 4, htonl(r.ttl)) /\ Stand(m, e + 8, htons(Len(d)))
        /\ Stand(m, e + 10, r.data)
    BY RecordStands
  <1>2. /\ r.type \in Word /\ r.class \in Word /\ r.ttl \in Int32 /\ Len(d) \in Word
        /\ Len(d) \in Nat /\ r.data \in Seq(Byte) /\ Len(w) \in Nat
        /\ Len(RecordOctets(h, r)) = Len(w) + 10 + Len(d)
    BY RecordOctetsFacts
  <1>3. o \in Nat /\ Size(m) \in Nat /\ z <= Size(m) /\ z = o + Len(RecordOctets(h, r))
    <2>1. o \in Nat /\ Size(m) \in Nat /\ (e + 10) + Len(d) <= Size(m)
      BY <1>1, Numbers DEF Stand
    <2>2. z = o + Len(RecordOctets(h, r))
      <3> HIDE DEF w, d
      <3> QED BY <1>2, <2>1
    <2> QED BY <2>1, <2>2
  <1>4. /\ ntohs(m, e) = r.type /\ ntohs(m, e + 2) = r.class /\ ntohs(m, e + 8) = Len(d)
        /\ ntohl(m, e + 4) = r.ttl
    BY <1>1, <1>2, NtohsReads, NtohlReads
  <1>5. Slice(m, e + 10, z) = r.data
    <2> HIDE DEF e
    <2> QED BY <1>1, <1>2, StandSlice
  <1>6. name = [ok |-> TRUE, off |-> e, owner |-> GotOwner(r, h)]
    <2>1. o + Len(w) < Size(m)
      <3> HIDE DEF w, d
      <3> QED BY <1>2, <1>3
    <2> QED BY <1>1, <2>1, OwnerReads
  <1>7. e \in Nat /\ ~(e + 10 > Size(m)) /\ ~(z > Size(m))
    <2> HIDE DEF w, d
    <2> QED BY <1>2, <1>3
  <1> HIDE DEF name, z, e
  <1>8. RecordTo(m, name, z) = [ok |-> TRUE, off |-> z, owner |-> GotOwner(r, h),
                                type |-> r.type, class |-> r.class, ttl |-> r.ttl, data |-> r.data]
    <2>1. name.off = e /\ name.owner = GotOwner(r, h)
      BY <1>6
    <2> QED BY <1>4, <1>5, <2>1 DEF RecordTo
  <1>9. RecordAfter(m, name) = RecordTo(m, name, z)
    <2>1. name.ok /\ name.off = e
      BY <1>6
    <2>2. name.off + 10 + ntohs(m, name.off + 8) = z
      BY <1>4, <2>1 DEF z
    <2> QED BY <1>7, <2>1, <2>2 DEF RecordAfter
  <1> QED BY <1>3, <1>8, <1>9 DEF get_rr, Got, name

-----------------------------------------------------------------------------
(***************************************************************************)
(* Messages: all records.                                                  *)
(***************************************************************************)

\* The octets of the k-th record.
OctetsOf(c, k) == RecordOctets(c.host, Records(c)[k])

\* f holds the octets up to each record, to the n-th.
IsOctetsRun(f, c, n) ==
    f = [k \in 0 .. n |-> IF k = 0 THEN QuestionOctets(c)
                          ELSE f[k - 1] \o OctetsOf(c, k)]

\* The recursive function behind OctetsTo exists.
LEMMA OctetsRunExists ==
    ASSUME NEW c, NEW N \in Nat
    PROVE  \E f : IsOctetsRun(f, c, N)
  <1> DEFINE S == {n \in Nat : ~ \E f : IsOctetsRun(f, c, n)}
  <1>1. SUFFICES ASSUME S # {} PROVE FALSE
    OBVIOUS
  <1>2. PICK n \in S : \A k \in S : n <= k
    <2> S \subseteq Nat
      OBVIOUS
    <2> HIDE DEF S
    <2> QED BY <1>1, LeastNumber
  <1>3. n \in Nat /\ ~ \E f : IsOctetsRun(f, c, n)
    BY <1>2
  <1>4. CASE n = 0
    <2> DEFINE g == [k \in 0 .. 0 |-> QuestionOctets(c)]
    <2>1. g = [k \in 0 .. 0 |-> IF k = 0 THEN QuestionOctets(c)
                                ELSE g[k - 1] \o OctetsOf(c, k)]
      OBVIOUS
    <2> HIDE DEF g
    <2> QED BY <1>3, <1>4, <2>1 DEF IsOctetsRun
  <1>5. CASE n # 0
    <2>1. n - 1 \in Nat /\ n - 1 \notin S
      BY <1>2, <1>3, <1>5
    <2>2. PICK f : IsOctetsRun(f, c, n - 1)
      BY <2>1
    <2> DEFINE g == [k \in 0 .. n |-> IF k = n THEN f[n - 1] \o OctetsOf(c, n) ELSE f[k]]
    <2>3. \A k \in 0 .. n - 1 : f[k] = IF k = 0 THEN QuestionOctets(c)
                                       ELSE f[k - 1] \o OctetsOf(c, k)
      BY <2>2 DEF IsOctetsRun
    <2>4. g = [k \in 0 .. n |-> g[k]] /\ g[n] = f[n - 1] \o OctetsOf(c, n)
          /\ \A k \in 0 .. n - 1 : g[k] = f[k]
      <3>1. n \in 0 .. n /\ \A k \in 0 .. n - 1 : k \in 0 .. n /\ k # n
        BY <1>3
      <3> QED BY <3>1
    <2> HIDE DEF g
    <2>5. ASSUME NEW k \in 0 .. n
          PROVE  g[k] = IF k = 0 THEN QuestionOctets(c)
                        ELSE g[k - 1] \o OctetsOf(c, k)
      <3>1. CASE k = n
        <4>1. n - 1 \in 0 .. n - 1
          BY <2>1
        <4> QED BY <1>5, <2>4, <3>1, <4>1
      <3>2. CASE k # n
        <4>1. k \in 0 .. n - 1 /\ (k # 0 => k - 1 \in 0 .. n - 1)
          BY <1>3, <3>2
        <4> QED BY <2>3, <2>4, <4>1
      <3> QED BY <3>1, <3>2
    <2>6. IsOctetsRun(g, c, n)
      BY <2>4, <2>5 DEF IsOctetsRun
    <2> QED BY <1>3, <2>6
  <1> QED BY <1>4, <1>5

\* The octets, record by record.
LEMMA OctetsRun ==
    ASSUME NEW c, NEW n \in Nat
    PROVE  \E f : /\ OctetsTo(c, n) = f[n] /\ f[0] = QuestionOctets(c)
                  /\ \A k \in 1 .. n : f[k] = f[k - 1] \o OctetsOf(c, k)
  <1> DEFINE g == CHOOSE f : IsOctetsRun(f, c, n)
  <1>1. IsOctetsRun(g, c, n)
    BY OctetsRunExists
  <1>2. OctetsTo(c, n) = g[n]
    BY Zenon DEF OctetsTo, IsOctetsRun, QuestionOctets, OctetsOf
  <1> HIDE DEF g
  <1>3. \A k \in 0 .. n : g[k] = IF k = 0 THEN QuestionOctets(c)
                                 ELSE g[k - 1] \o OctetsOf(c, k)
    BY <1>1 DEF IsOctetsRun
  <1>4. 0 \in 0 .. n /\ \A k \in 1 .. n : k \in 0 .. n /\ k # 0
    OBVIOUS
  <1>5. g[0] = QuestionOctets(c) /\ \A k \in 1 .. n : g[k] = g[k - 1] \o OctetsOf(c, k)
    BY <1>3, <1>4
  <1> QED BY <1>2, <1>5

\* Contents with the same question and the same first records have the same
\* octets up to there.
LEMMA OctetsToSame ==
    ASSUME NEW c, NEW e, NEW n \in Nat, c.host = e.host, c.type = e.type, c.class = e.class,
           \A i \in 1 .. n : Records(c)[i] = Records(e)[i]
    PROVE  OctetsTo(c, n) = OctetsTo(e, n)
  <1>1. PICK f : /\ OctetsTo(c, n) = f[n] /\ f[0] = QuestionOctets(c)
                 /\ \A k \in 1 .. n : f[k] = f[k - 1] \o OctetsOf(c, k)
    BY OctetsRun
  <1>2. PICK g : /\ OctetsTo(e, n) = g[n] /\ g[0] = QuestionOctets(e)
                 /\ \A k \in 1 .. n : g[k] = g[k - 1] \o OctetsOf(e, k)
    BY OctetsRun
  <1>3. f[0] = g[0]
    BY <1>1, <1>2 DEF QuestionOctets
  <1> DEFINE S == {k \in Nat : k <= n /\ f[k] # g[k]}
  <1>4. ASSUME S # {} PROVE FALSE
    <2>1. PICK k \in S : \A j \in S : k <= j
      <3> S \subseteq Nat
        OBVIOUS
      <3> HIDE DEF S
      <3> QED BY <1>4, LeastNumber
    <2>2. k \in Nat /\ k <= n /\ f[k] # g[k] /\ k # 0
      BY <1>3, <2>1
    <2>3. k \in 1 .. n /\ k - 1 \in Nat /\ k - 1 <= n /\ k - 1 \notin S
      BY <2>1, <2>2
    <2>4. f[k - 1] = g[k - 1]
      BY <2>3
    <2>5. OctetsOf(c, k) = OctetsOf(e, k)
      BY <2>3 DEF OctetsOf
    <2> QED BY <1>1, <1>2, <2>2, <2>3, <2>4, <2>5
  <1> QED BY <1>1, <1>2, <1>4

\* The octets up to a record are those up to the one before it, and its own.
LEMMA OctetsToStep ==
    ASSUME NEW c, NEW n \in Nat
    PROVE  /\ OctetsTo(c, 0) = QuestionOctets(c)
           /\ OctetsTo(c, n + 1) = OctetsTo(c, n) \o OctetsOf(c, n + 1)
  <1>1. OctetsTo(c, 0) = QuestionOctets(c)
    BY OctetsRun
  <1>2. PICK f : /\ OctetsTo(c, n) = f[n] /\ f[0] = QuestionOctets(c)
                 /\ \A k \in 1 .. n : f[k] = f[k - 1] \o OctetsOf(c, k)
    BY OctetsRun
  <1>3. PICK g : /\ OctetsTo(c, n + 1) = g[n + 1] /\ g[0] = QuestionOctets(c)
                 /\ \A k \in 1 .. n + 1 : g[k] = g[k - 1] \o OctetsOf(c, k)
    <2>1. n + 1 \in Nat
      OBVIOUS
    <2> QED BY <2>1, OctetsRun
  <1> DEFINE S == {k \in Nat : k <= n /\ f[k] # g[k]}
  <1>4. ASSUME S # {} PROVE FALSE
    <2>1. PICK k \in S : \A j \in S : k <= j
      <3> S \subseteq Nat
        OBVIOUS
      <3> HIDE DEF S
      <3> QED BY <1>4, LeastNumber
    <2>2. k \in Nat /\ k <= n /\ f[k] # g[k] /\ k # 0
      BY <1>2, <1>3, <2>1
    <2>3. k \in 1 .. n /\ k \in 1 .. n + 1 /\ k - 1 \in Nat /\ k - 1 <= n /\ k - 1 \notin S
      BY <2>1, <2>2
    <2>4. f[k - 1] = g[k - 1]
      BY <2>3
    <2> QED BY <1>2, <1>3, <2>2, <2>3, <2>4
  <1>5. f[n] = g[n]
    BY <1>4
  <1>6. n + 1 \in 1 .. n + 1 /\ n + 1 - 1 = n
    OBVIOUS
  <1> DEFINE p == n + 1
  <1>7. p \in 1 .. n + 1 /\ p - 1 = n /\ OctetsTo(c, p) = g[p]
    BY <1>3, <1>6
  <1> HIDE DEF p
  <1>8. g[p] = g[p - 1] \o OctetsOf(c, p) /\ g[p - 1] = OctetsTo(c, n)
    BY <1>2, <1>3, <1>5, <1>7
  <1>9. OctetsTo(c, n + 1) = OctetsTo(c, n) \o OctetsOf(c, n + 1)
    BY <1>7, <1>8 DEF p
  <1> QED BY <1>1, <1>9

\* The records of a content.
LEMMA RecordsFacts ==
    ASSUME NEW c \in Content
    PROVE  /\ c.an \in Seq(Record) /\ c.ns \in Seq(Record) /\ c.ar \in Seq(Record)
           /\ c.ns \o c.ar \in Seq(Record)
           /\ Len(c.an) \in Nat /\ Len(c.ns) \in Nat /\ Len(c.ar) \in Nat
           /\ Records(c) \in Seq(Record) /\ Len(Records(c)) \in Nat
           /\ Len(Records(c)) = Len(c.an) + Len(c.ns) + Len(c.ar)
           /\ \A i \in 1 .. Len(c.an) : Records(c)[i] = c.an[i]
           /\ \A i \in 1 .. Len(c.ns) : Records(c)[Len(c.an) + i] = c.ns[i]
           /\ \A i \in 1 .. Len(c.ar) : Records(c)[Len(c.an) + Len(c.ns) + i] = c.ar[i]
           /\ (Records(c) = <<>>) = (Len(Records(c)) = 0)
           /\ \A i \in 1 .. Len(Records(c)) : Records(c)[i] \in Record
  <1> DEFINE a == c.an
             b == c.ns
             d == c.ar
             ab == a \o b
  <1>1. a \in Seq(Record) /\ b \in Seq(Record) /\ d \in Seq(Record)
    BY DEF Content
  <1>2. Records(c) = ab \o d
    BY DEF Records
  <1> HIDE DEF a, b, d
  <1>3. /\ ab \in Seq(Record) /\ Len(ab) = Len(a) + Len(b)
        /\ \A i \in 1 .. Len(a) : ab[i] = a[i]
        /\ \A i \in 1 .. Len(b) : ab[Len(a) + i] = b[i]
    BY <1>1, ConcatParts
  <1>4. Len(a) \in Nat /\ Len(b) \in Nat /\ Len(d) \in Nat
    BY <1>1
  <1> HIDE DEF ab
  <1>5. /\ ab \o d \in Seq(Record) /\ Len(ab \o d) = Len(ab) + Len(d)
        /\ \A i \in 1 .. Len(ab) : (ab \o d)[i] = ab[i]
        /\ \A i \in 1 .. Len(d) : (ab \o d)[Len(ab) + i] = d[i]
    <2>1. ab \in Seq(Record) /\ d \in Seq(Record)
      BY <1>1, <1>3
    <2> QED BY <2>1, ConcatParts
  <1>6. \A i \in 1 .. Len(a) : (ab \o d)[i] = a[i]
    BY <1>3, <1>4, <1>5
  <1>7. ASSUME NEW i \in 1 .. Len(b) PROVE (ab \o d)[Len(a) + i] = b[i]
    <2>1. Len(a) + i \in 1 .. Len(ab)
      BY <1>3, <1>4
    <2> QED BY <1>3, <1>5, <2>1
  <1>8. \A i \in 1 .. Len(d) : (ab \o d)[Len(a) + Len(b) + i] = d[i]
    BY <1>3, <1>5
  <1>9. Len(ab \o d) = Len(a) + Len(b) + Len(d) /\ Len(ab \o d) \in Nat
    BY <1>3, <1>4, <1>5
  <1>10. b \o d \in Seq(Record)
    BY <1>1
  <1> DEFINE R == ab \o d
  <1>11. R \in Seq(Record)
    BY <1>5
  <1> HIDE DEF R
  <1>12. (R = <<>>) = (Len(R) = 0) /\ \A i \in 1 .. Len(R) : R[i] \in Record
    BY <1>11
  <1> QED BY <1>1, <1>2, <1>4, <1>6, <1>7, <1>8, <1>9, <1>10, <1>11, <1>12 DEF R, a, b, d

\* The octets up to a record are a sequence of octets.
LEMMA OctetsToIsSeq ==
    ASSUME NEW c \in Content, NEW n \in 0 .. Len(Records(c))
    PROVE  OctetsTo(c, n) \in Seq(Byte)
  <1> DEFINE N == Len(Records(c))
             S == {k \in Nat : k <= N /\ OctetsTo(c, k) \notin Seq(Byte)}
  <1>1. N \in Nat /\ \A i \in 1 .. N : Records(c)[i] \in Record
    BY RecordsFacts
  <1> HIDE DEF N
  <1>2. ASSUME S # {} PROVE FALSE
    <2>1. PICK k \in S : \A j \in S : k <= j
      <3> S \subseteq Nat
        OBVIOUS
      <3> HIDE DEF S
      <3> QED BY <1>2, LeastNumber
    <2>2. k \in Nat /\ k <= N /\ OctetsTo(c, k) \notin Seq(Byte)
      BY <2>1
    <2>3. k # 0
      BY <2>2, OctetsToStep, QuestionFacts
    <2>4. k - 1 \in Nat /\ k - 1 <= N /\ k - 1 \notin S /\ k \in 1 .. N /\ (k - 1) + 1 = k
      BY <1>1, <2>1, <2>2, <2>3
    <2>5. OctetsTo(c, k - 1) \in Seq(Byte)
      BY <2>4
    <2>6. OctetsOf(c, k) \in Seq(Byte)
      <3>1. Records(c)[k] \in Record /\ IsHostName(c.host) /\ LabelsFit(c.host)
        BY <1>1, <2>4, QuestionFacts
      <3> QED BY <3>1, RecordOctetsFacts DEF OctetsOf
    <2>7. OctetsTo(c, k) = OctetsTo(c, k - 1) \o OctetsOf(c, k)
      BY <2>4, OctetsToStep
    <2> QED BY <2>2, <2>5, <2>6, <2>7, ConcatLen
  <1> QED BY <1>1, <1>2 DEF N

\* The number of octets up to the n-th record.
Extent(c, n) == Len(OctetsTo(c, n))

\* The k-th record's octets stand behind those of the records before it.
LEMMA OctetsToParts ==
    ASSUME NEW c \in Content, NEW k \in 1 .. Len(Records(c))
    PROVE  /\ k - 1 \in 0 .. Len(Records(c)) /\ k \in 0 .. Len(Records(c))
           /\ Records(c)[k] \in Record
           /\ OctetsTo(c, k - 1) \in Seq(Byte) /\ OctetsTo(c, k) \in Seq(Byte)
           /\ OctetsOf(c, k) \in Seq(Byte)
           /\ OctetsTo(c, k) = OctetsTo(c, k - 1) \o OctetsOf(c, k)
           /\ Extent(c, k - 1) \in Nat /\ Extent(c, k) \in Nat /\ Len(OctetsOf(c, k)) \in Nat \ {0}
           /\ Extent(c, k) = Extent(c, k - 1) + Len(OctetsOf(c, k))
           /\ \A i \in 1 .. Extent(c, k - 1) : OctetsTo(c, k)[i] = OctetsTo(c, k - 1)[i]
           /\ \A i \in 1 .. Len(OctetsOf(c, k)) :
                OctetsTo(c, k)[Extent(c, k - 1) + i] = OctetsOf(c, k)[i]
  <1> DEFINE N == Len(Records(c))
             a == OctetsTo(c, k - 1)
             b == OctetsOf(c, k)
  <1>1. N \in Nat /\ Records(c)[k] \in Record
    BY RecordsFacts
  <1>2. k - 1 \in 0 .. N /\ k \in 0 .. N /\ k - 1 \in Nat /\ (k - 1) + 1 = k
    BY <1>1
  <1>3. a \in Seq(Byte) /\ OctetsTo(c, k) \in Seq(Byte)
    BY <1>2, OctetsToIsSeq
  <1>4. OctetsTo(c, k) = a \o b
    BY <1>2, OctetsToStep
  <1>5. b \in Seq(Byte) /\ Len(b) \in Nat \ {0}
    <2> DEFINE r == Records(c)[k]
               w == Owner(r.form, c.host)
               d == r.data
    <2>1. Records(c)[k] \in Record /\ IsHostName(c.host) /\ LabelsFit(c.host)
      BY <1>1, QuestionFacts
    <2>2. b \in Seq(Byte) /\ Len(b) = Len(w) + 10 + Len(d) /\ Len(w) \in Nat /\ Len(d) \in Nat
      BY <2>1, RecordOctetsFacts DEF OctetsOf
    <2> HIDE DEF b, w, d
    <2> QED BY <2>2
  <1> HIDE DEF a, b
  <1>6. /\ Len(a \o b) = Len(a) + Len(b) /\ Len(a) \in Nat
        /\ \A i \in 1 .. Len(a) : (a \o b)[i] = a[i]
        /\ \A i \in 1 .. Len(b) : (a \o b)[Len(a) + i] = b[i]
    BY <1>3, <1>5, ConcatParts
  <1>7. Len(a \o b) \in Nat
    BY <1>5, <1>6
  <1> QED BY <1>1, <1>2, <1>3, <1>4, <1>5, <1>6, <1>7 DEF Extent, a, b, N

\* What stands before a record stands there whatever follows it.
LEMMA OctetsPrefix ==
    ASSUME NEW c \in Content, NEW n \in 0 .. Len(Records(c)), NEW k \in 0 .. n
    PROVE  /\ Extent(c, k) \in Nat /\ Extent(c, n) \in Nat /\ Extent(c, k) <= Extent(c, n)
           /\ \A i \in 1 .. Extent(c, k) : OctetsTo(c, n)[i] = OctetsTo(c, k)[i]
  <1> DEFINE N == Len(Records(c))
             P(j) == /\ Extent(c, j) \in Nat /\ Extent(c, k) <= Extent(c, j)
                     /\ \A i \in 1 .. Extent(c, k) : OctetsTo(c, j)[i] = OctetsTo(c, k)[i]
             S == {j \in Nat : k <= j /\ j <= n /\ ~P(j)}
  <1>1. N \in Nat /\ n \in Nat /\ k \in Nat /\ k \in 0 .. N
    BY RecordsFacts
  <1>2. Extent(c, k) \in Nat
    BY <1>1, OctetsToIsSeq DEF Extent
  <1>3. ASSUME S # {} PROVE FALSE
    <2>1. PICK j \in S : \A i \in S : j <= i
      <3> S \subseteq Nat
        OBVIOUS
      <3> HIDE DEF S
      <3> QED BY <1>3, LeastNumber
    <2>2. j \in Nat /\ k <= j /\ j <= n /\ ~P(j)
      BY <2>1
    <2>3. j # k
      BY <1>2, <2>2
    <2>4. j - 1 \in Nat /\ k <= j - 1 /\ j - 1 <= n /\ j - 1 \notin S /\ j \in 1 .. N
      <3>1. j - 1 \in Nat /\ k <= j - 1 /\ j - 1 <= n /\ j \in 1 .. N /\ ~(j <= j - 1)
        BY <1>1, <2>2, <2>3
      <3> HIDE DEF S
      <3> QED BY <2>1, <3>1
    <2>5. P(j - 1)
      <3> HIDE DEF P
      <3> QED BY <2>4
    <2>6. /\ Extent(c, j) \in Nat /\ Extent(c, j - 1) <= Extent(c, j)
          /\ \A i \in 1 .. Extent(c, j - 1) : OctetsTo(c, j)[i] = OctetsTo(c, j - 1)[i]
      <3>1. /\ Extent(c, j - 1) \in Nat /\ Len(OctetsOf(c, j)) \in Nat
            /\ Extent(c, j) = Extent(c, j - 1) + Len(OctetsOf(c, j))
            /\ \A i \in 1 .. Extent(c, j - 1) : OctetsTo(c, j)[i] = OctetsTo(c, j - 1)[i]
        BY <2>4, OctetsToParts
      <3> QED BY <3>1
    <2>7. P(j)
      BY <1>2, <2>5, <2>6
    <2> QED BY <2>2, <2>7
  <1>4. P(n)
    <2> HIDE DEF P
    <2> QED BY <1>1, <1>3
  <1> QED BY <1>2, <1>4

\* In a message that begins with the octets up to the n-th record, those up to
\* each record before it stand at the beginning too, and the record behind them.
LEMMA RecordStandsAt ==
    ASSUME NEW m, IsOctets(m), NEW c \in Content, NEW n \in 0 .. Len(Records(c)),
           Stand(m, HeaderSize, OctetsTo(c, n)), NEW k \in 1 .. n
    PROVE  /\ Stand(m, HeaderSize, OctetsTo(c, k))
           /\ Stand(m, HeaderSize + Extent(c, k - 1), OctetsOf(c, k))
  <1>1. Len(Records(c)) \in Nat /\ n \in Nat
    BY RecordsFacts
  <1>2. k \in 0 .. n /\ k \in 1 .. Len(Records(c))
    BY <1>1
  <1>3. /\ Extent(c, k) \in Nat /\ Extent(c, n) \in Nat /\ Extent(c, k) <= Extent(c, n)
        /\ \A i \in 1 .. Extent(c, k) : OctetsTo(c, n)[i] = OctetsTo(c, k)[i]
    BY <1>2, OctetsPrefix
  <1>4. /\ HeaderSize \in Nat /\ HeaderSize >= HeaderSize /\ HeaderSize + Extent(c, n) <= Size(m)
        /\ \A i \in 1 .. Extent(c, n) : At(m, HeaderSize + i - 1) = OctetsTo(c, n)[i]
    BY DEF Stand, Extent
  <1>5. HeaderSize + Extent(c, k) <= Size(m)
    BY <1>3, <1>4, Numbers
  <1>6. \A i \in 1 .. Extent(c, k) : At(m, HeaderSize + i - 1) = OctetsTo(c, k)[i]
    BY <1>3, <1>4
  <1>7. Stand(m, HeaderSize, OctetsTo(c, k))
    BY <1>4, <1>5, <1>6 DEF Stand, Extent
  <1>8. /\ OctetsTo(c, k) = OctetsTo(c, k - 1) \o OctetsOf(c, k)
        /\ OctetsTo(c, k - 1) \in Seq(Byte) /\ OctetsOf(c, k) \in Seq(Byte)
    BY <1>2, OctetsToParts
  <1> QED BY <1>7, <1>8, StandConcat DEF Extent

\* The same for the question.
LEMMA QuestionStands ==
    ASSUME NEW m, IsOctets(m), NEW c \in Content, NEW n \in 0 .. Len(Records(c)),
           Stand(m, HeaderSize, OctetsTo(c, n))
    PROVE  Stand(m, HeaderSize, QuestionOctets(c))
  <1>1. Len(Records(c)) \in Nat /\ n \in Nat
    BY RecordsFacts
  <1>2. 0 \in 0 .. n /\ OctetsTo(c, 0) = QuestionOctets(c)
    BY <1>1, OctetsToStep
  <1>3. /\ Extent(c, 0) \in Nat /\ Extent(c, n) \in Nat /\ Extent(c, 0) <= Extent(c, n)
        /\ \A i \in 1 .. Extent(c, 0) : OctetsTo(c, n)[i] = OctetsTo(c, 0)[i]
    BY <1>2, OctetsPrefix
  <1>4. /\ HeaderSize \in Nat /\ HeaderSize >= HeaderSize /\ HeaderSize + Extent(c, n) <= Size(m)
        /\ \A i \in 1 .. Extent(c, n) : At(m, HeaderSize + i - 1) = OctetsTo(c, n)[i]
    BY DEF Stand, Extent
  <1>5. HeaderSize + Extent(c, 0) <= Size(m)
    BY <1>3, <1>4, Numbers
  <1>6. \A i \in 1 .. Extent(c, 0) : At(m, HeaderSize + i - 1) = OctetsTo(c, 0)[i]
    BY <1>3, <1>4
  <1> QED BY <1>2, <1>4, <1>5, <1>6 DEF Stand, Extent

\* f holds the walks over the records, to the n-th.
IsWalkRun(f, m, n) ==
    f = [k \in 0 .. n |-> IF k = 0 THEN WalkFrom(get_rr_question(m, HeaderSize))
                          ELSE WalkOn(m, f[k - 1])]

\* The recursive function behind Walk exists.
LEMMA WalkRunExists ==
    ASSUME NEW m, NEW N \in Nat
    PROVE  \E f : IsWalkRun(f, m, N)
  <1> DEFINE q == WalkFrom(get_rr_question(m, HeaderSize))
             S == {n \in Nat : ~ \E f : IsWalkRun(f, m, n)}
  <1>1. SUFFICES ASSUME S # {} PROVE FALSE
    OBVIOUS
  <1>2. PICK n \in S : \A k \in S : n <= k
    <2> S \subseteq Nat
      OBVIOUS
    <2> HIDE DEF S
    <2> QED BY <1>1, LeastNumber
  <1>3. n \in Nat /\ ~ \E f : IsWalkRun(f, m, n)
    BY <1>2
  <1>4. CASE n = 0
    <2> DEFINE g == [k \in 0 .. 0 |-> q]
    <2> HIDE DEF q
    <2>1. g = [k \in 0 .. 0 |-> IF k = 0 THEN q ELSE WalkOn(m, g[k - 1])]
      OBVIOUS
    <2> HIDE DEF g
    <2> QED BY <1>3, <1>4, <2>1 DEF IsWalkRun, q
  <1>5. CASE n # 0
    <2>1. n - 1 \in Nat /\ n - 1 \notin S
      BY <1>2, <1>3, <1>5
    <2>2. PICK f : IsWalkRun(f, m, n - 1)
      BY <2>1
    <2> DEFINE g == [k \in 0 .. n |-> IF k = n THEN WalkOn(m, f[n - 1]) ELSE f[k]]
    <2>3. \A k \in 0 .. n - 1 : f[k] = IF k = 0 THEN q ELSE WalkOn(m, f[k - 1])
      BY <2>2 DEF IsWalkRun
    <2> HIDE DEF q
    <2>4. g = [k \in 0 .. n |-> g[k]] /\ g[n] = WalkOn(m, f[n - 1])
          /\ \A k \in 0 .. n - 1 : g[k] = f[k]
      <3>1. n \in 0 .. n /\ \A k \in 0 .. n - 1 : k \in 0 .. n /\ k # n
        BY <1>3
      <3> QED BY <3>1
    <2> HIDE DEF g
    <2>5. ASSUME NEW k \in 0 .. n
          PROVE  g[k] = IF k = 0 THEN q ELSE WalkOn(m, g[k - 1])
      <3>1. CASE k = n
        <4>1. n - 1 \in 0 .. n - 1
          BY <2>1
        <4> QED BY <1>5, <2>4, <3>1, <4>1
      <3>2. CASE k # n
        <4>1. k \in 0 .. n - 1 /\ (k # 0 => k - 1 \in 0 .. n - 1)
          BY <1>3, <3>2
        <4> QED BY <2>3, <2>4, <4>1
      <3> QED BY <3>1, <3>2
    <2>6. IsWalkRun(g, m, n)
      BY <2>4, <2>5 DEF IsWalkRun, q
    <2> QED BY <1>3, <2>6
  <1> QED BY <1>4, <1>5

\* The walk, record by record.
LEMMA WalkRun ==
    ASSUME NEW m, NEW n \in Nat
    PROVE  \E f : /\ Walk(m, n) = f[n] /\ f[0] = WalkFrom(get_rr_question(m, HeaderSize))
                  /\ \A k \in 1 .. n : f[k] = WalkOn(m, f[k - 1])
  <1> DEFINE g == CHOOSE f : IsWalkRun(f, m, n)
             q == WalkFrom(get_rr_question(m, HeaderSize))
  <1>1. IsWalkRun(g, m, n)
    BY WalkRunExists
  <1>2. Walk(m, n) = g[n]
    BY Zenon DEF Walk, IsWalkRun
  <1> HIDE DEF g
  <1>3. \A k \in 0 .. n : g[k] = IF k = 0 THEN q ELSE WalkOn(m, g[k - 1])
    BY <1>1 DEF IsWalkRun
  <1> HIDE DEF q
  <1>4. 0 \in 0 .. n /\ \A k \in 1 .. n : k \in 0 .. n /\ k # 0
    OBVIOUS
  <1>5. g[0] = q /\ \A k \in 1 .. n : g[k] = WalkOn(m, g[k - 1])
    BY <1>3, <1>4
  <1> QED BY <1>2, <1>5 DEF q

\* The walk over one record more goes on where the walk before it ends.
LEMMA WalkStep ==
    ASSUME NEW m, NEW n \in Nat
    PROVE  /\ Walk(m, 0) = WalkFrom(get_rr_question(m, HeaderSize))
           /\ Walk(m, n + 1) = WalkOn(m, Walk(m, n))
  <1> DEFINE q == WalkFrom(get_rr_question(m, HeaderSize))
             p == n + 1
  <1>1. Walk(m, 0) = q
    BY WalkRun
  <1>2. PICK f : /\ Walk(m, n) = f[n] /\ f[0] = q
                 /\ \A k \in 1 .. n : f[k] = WalkOn(m, f[k - 1])
    BY WalkRun
  <1>3. PICK g : /\ Walk(m, p) = g[p] /\ g[0] = q
                 /\ \A k \in 1 .. p : g[k] = WalkOn(m, g[k - 1])
    <2>1. p \in Nat
      OBVIOUS
    <2> QED BY <2>1, WalkRun
  <1> HIDE DEF q
  <1> DEFINE S == {k \in Nat : k <= n /\ f[k] # g[k]}
  <1>4. ASSUME S # {} PROVE FALSE
    <2>1. PICK k \in S : \A j \in S : k <= j
      <3> S \subseteq Nat
        OBVIOUS
      <3> HIDE DEF S
      <3> QED BY <1>4, LeastNumber
    <2>2. k \in Nat /\ k <= n /\ f[k] # g[k] /\ k # 0
      BY <1>2, <1>3, <2>1
    <2>3. k \in 1 .. n /\ k \in 1 .. p /\ k - 1 \in Nat /\ k - 1 <= n /\ k - 1 \notin S
      BY <2>1, <2>2
    <2>4. f[k - 1] = g[k - 1]
      BY <2>3
    <2> QED BY <1>2, <1>3, <2>2, <2>3, <2>4
  <1>5. f[n] = g[n]
    BY <1>4
  <1>6. p \in 1 .. p /\ p - 1 = n
    OBVIOUS
  <1> HIDE DEF p
  <1>7. g[p] = WalkOn(m, g[p - 1]) /\ g[p - 1] = Walk(m, n)
    BY <1>2, <1>3, <1>5, <1>6
  <1> QED BY <1>1, <1>3, <1>7 DEF p, q

\* What has been refused once stays so.
LEMMA WalkThrows ==
    ASSUME NEW m, NEW k \in Nat, Walk(m, k) = Throws, NEW n \in Nat, k <= n
    PROVE  Walk(m, n) = Throws
  <1> DEFINE S == {j \in Nat : k <= j /\ Walk(m, j) # Throws}
  <1>1. ASSUME S # {} PROVE FALSE
    <2>1. PICK j \in S : \A i \in S : j <= i
      <3> S \subseteq Nat
        OBVIOUS
      <3> HIDE DEF S
      <3> QED BY <1>1, LeastNumber
    <2>2. j \in Nat /\ k <= j /\ Walk(m, j) # Throws /\ j # k
      BY <2>1
    <2>3. j - 1 \in Nat /\ k <= j - 1 /\ j - 1 \notin S /\ (j - 1) + 1 = j
      BY <2>1, <2>2
    <2>4. Walk(m, j - 1) = Throws
      BY <2>3
    <2>5. Walk(m, j) = WalkOn(m, Walk(m, j - 1))
      BY <2>3, WalkStep
    <2> QED BY <2>2, <2>4, <2>5 DEF WalkOn, Throws
  <1> QED BY <1>1

\* A function over 1 .. k is what it is up to k - 1, and its last value.
LEMMA AppendLast ==
    ASSUME NEW k \in Nat \ {0}, NEW f, f = [i \in 1 .. k |-> f[i]]
    PROVE  Append([i \in 1 .. k - 1 |-> f[i]], f[k]) = f
  <1> DEFINE S == {f[i] : i \in 1 .. k}
             g == [i \in 1 .. k - 1 |-> f[i]]
             h == Append(g, f[k])
  <1>1. k - 1 \in Nat /\ (k - 1) + 1 = k /\ k \in 1 .. k /\ \A i \in 1 .. k - 1 : i \in 1 .. k
    OBVIOUS
  <1>2. f[k] \in S /\ \A i \in 1 .. k - 1 : f[i] \in S
    BY <1>1
  <1>3. f \in Seq(S) /\ Len(f) = k
    <2>1. f \in [1 .. k -> S]
      <3>1. \A i \in 1 .. k : f[i] \in S
        OBVIOUS
      <3> HIDE DEF S
      <3> QED BY <3>1
    <2> HIDE DEF S
    <2> QED BY <2>1
  <1> HIDE DEF S
  <1>4. g \in [1 .. k - 1 -> S] /\ \A i \in 1 .. k - 1 : g[i] = f[i]
    BY <1>2
  <1> HIDE DEF g
  <1>5. g \in Seq(S) /\ Len(g) = k - 1
    BY <1>1, <1>4
  <1>6. h \in Seq(S) /\ Len(h) = k /\ h[k] = f[k] /\ \A i \in 1 .. k - 1 : h[i] = g[i]
    BY <1>1, <1>2, <1>5
  <1> HIDE DEF h
  <1>7. ASSUME NEW i \in 1 .. k PROVE h[i] = f[i]
    <2>1. i = k \/ i \in 1 .. k - 1
      BY <1>1
    <2> QED BY <1>4, <1>6, <2>1
  <1>8. h = f
    BY <1>3, <1>6, <1>7, SeqEqual
  <1> QED BY <1>8 DEF h, g

\* What the walk finds in a message that says c.
GotAt(c, i) == Got(Records(c)[i], c.host, HeaderSize + Extent(c, i - 1))
FixedAt(c, i) == HeaderSize + Extent(c, i - 1) + Len(Owner(Records(c)[i].form, c.host))

Found(c, n) ==
    [ok |-> TRUE, off |-> HeaderSize + Extent(c, n),
     rrs |-> [i \in 1 .. n |-> GotAt(c, i)], at |-> [i \in 1 .. n |-> FixedAt(c, i)]]

\* One record more is found as it was written.
LEMMA WalkOnReads ==
    ASSUME NEW m, IsOctets(m), NEW c \in Content, Readable(c.host), NEW k \in 1 .. Len(Records(c)),
           Stand(m, HeaderSize + Extent(c, k - 1), OctetsOf(c, k))
    PROVE  WalkOn(m, Found(c, k - 1)) = Found(c, k)
  <1> DEFINE o == HeaderSize + Extent(c, k - 1)
             r == Records(c)[k]
             w == Owner(r.form, c.host)
             d == r.data
  <1>1. r \in Record /\ IsHostName(c.host) /\ LabelsFit(c.host)
    BY RecordsFacts, QuestionFacts
  <1>2. get_rr(m, o) = GotAt(c, k)
    BY <1>1, RecordReads DEF OctetsOf, GotAt
  <1>3. /\ Extent(c, k - 1) \in Nat /\ Extent(c, k) = Extent(c, k - 1) + Len(OctetsOf(c, k))
        /\ k \in Nat \ {0}
    BY RecordsFacts, OctetsToParts
  <1>4. Len(OctetsOf(c, k)) = Len(w) + 10 + Len(d) /\ Len(w) \in Nat /\ Len(d) \in Nat
    BY <1>1, RecordOctetsFacts DEF OctetsOf
  <1>5. /\ GotAt(c, k).ok = TRUE /\ GotAt(c, k).data = d
        /\ GotAt(c, k).off = o + Len(OctetsOf(c, k))
    BY DEF GotAt, Got, OctetsOf
  <1>6. FixedAt(c, k) = o + Len(w)
    BY DEF FixedAt
  <1> HIDE DEF w, d, r
  <1>7. /\ o + Len(OctetsOf(c, k)) = HeaderSize + Extent(c, k)
        /\ o + Len(OctetsOf(c, k)) - Len(d) - 10 = FixedAt(c, k)
        /\ o \in Nat /\ Len(OctetsOf(c, k)) \in Nat
    BY <1>3, <1>4, <1>6 DEF HeaderSize
  <1> DEFINE f == [i \in 1 .. k |-> GotAt(c, i)]
             g == [i \in 1 .. k |-> FixedAt(c, i)]
             x == GotAt(c, k)
  <1>8. /\ f = [i \in 1 .. k |-> f[i]] /\ f[k] = GotAt(c, k)
        /\ g = [i \in 1 .. k |-> g[i]] /\ g[k] = FixedAt(c, k)
        /\ [i \in 1 .. k - 1 |-> GotAt(c, i)] = [i \in 1 .. k - 1 |-> f[i]]
        /\ [i \in 1 .. k - 1 |-> FixedAt(c, i)] = [i \in 1 .. k - 1 |-> g[i]]
    <2>1. k \in 1 .. k /\ \A i \in 1 .. k - 1 : i \in 1 .. k
      BY <1>3
    <2> QED BY <2>1
  <1> HIDE DEF f, g
  <1>9. /\ Append([i \in 1 .. k - 1 |-> GotAt(c, i)], GotAt(c, k)) = f
        /\ Append([i \in 1 .. k - 1 |-> FixedAt(c, i)], FixedAt(c, k)) = g
    <2>1. /\ Append([i \in 1 .. k - 1 |-> f[i]], f[k]) = f
          /\ Append([i \in 1 .. k - 1 |-> g[i]], g[k]) = g
      BY <1>3, <1>8, AppendLast
    <2> QED BY <1>8, <2>1, Zenon
  <1> DEFINE s == Found(c, k - 1)
  <1>10. /\ s.ok = TRUE /\ s.off = o
         /\ s.rrs = [i \in 1 .. k - 1 |-> GotAt(c, i)]
         /\ s.at = [i \in 1 .. k - 1 |-> FixedAt(c, i)]
    BY DEF Found
  <1> HIDE DEF s, o
  <1>11. WalkOn(m, s) = WalkedOn(s, x)
    BY <1>2, <1>10 DEF WalkOn
  <1>12. x.ok = TRUE /\ x.off = HeaderSize + Extent(c, k) /\ x.off - Len(x.data) - 10 = FixedAt(c, k)
    <2>1. x.ok = TRUE /\ x.off = HeaderSize + Extent(c, k)
      BY <1>5, <1>7
    <2>2. ASSUME NEW y, NEW z, y = o + Len(OctetsOf(c, k)), z = d
          PROVE  y - Len(z) - 10 = FixedAt(c, k)
      BY <1>4, <1>7, <2>2
    <2>3. x.off = o + Len(OctetsOf(c, k)) /\ x.data = d
      BY <1>5
    <2>4. x.off - Len(x.data) - 10 = FixedAt(c, k)
      <3> HIDE DEF x
      <3> QED BY <2>2, <2>3, Zenon
    <2> QED BY <2>1, <2>4
  <1> HIDE DEF x
  <1>13. WalkedOn(s, x) = [ok |-> TRUE, off |-> HeaderSize + Extent(c, k), rrs |-> f, at |-> g]
    BY <1>9, <1>10, <1>12 DEF WalkedOn, x
  <1> QED BY <1>11, <1>13 DEF Found, f, g, s

\* The walk over a message that says c finds what c says, or is refused
\* because of the question's name.
LEMMA WalkReads ==
    ASSUME NEW m, IsOctets(m), NEW c \in Content, NEW n \in 0 .. Len(Records(c)),
           Stand(m, HeaderSize, OctetsTo(c, n))
    PROVE  Walk(m, n) = IF Readable(c.host) THEN Found(c, n) ELSE Throws
  <1>1. Len(Records(c)) \in Nat /\ n \in Nat
    BY RecordsFacts
  <1>2. Stand(m, HeaderSize, QuestionOctets(c)) /\ Extent(c, 0) = Len(QuestionOctets(c))
    BY <1>1, QuestionStands, OctetsToStep DEF Extent
  <1>3. Walk(m, 0) = WalkFrom(get_rr_question(m, HeaderSize))
    BY <1>1, WalkStep
  <1>4. CASE ~Readable(c.host)
    <2>1. get_rr_question(m, HeaderSize) = Throws
      BY <1>2, <1>4, QuestionReads
    <2>2. Walk(m, 0) = Throws
      BY <1>3, <2>1 DEF WalkFrom, Throws
    <2> QED BY <1>1, <1>4, <2>2, WalkThrows
  <1>5. CASE Readable(c.host)
    <2>1. Walk(m, 0) = Found(c, 0)
      <3> DEFINE q == get_rr_question(m, HeaderSize)
      <3>1. q.ok = TRUE /\ q.off = HeaderSize + Extent(c, 0)
        BY <1>2, <1>5, QuestionReads
      <3> HIDE DEF q
      <3>2. WalkFrom(q) = [ok |-> TRUE, off |-> HeaderSize + Extent(c, 0), rrs |-> <<>>, at |-> <<>>]
        BY <3>1 DEF WalkFrom
      <3>3. [i \in 1 .. 0 |-> GotAt(c, i)] = <<>> /\ [i \in 1 .. 0 |-> FixedAt(c, i)] = <<>>
        OBVIOUS
      <3> QED BY <1>3, <3>2, <3>3 DEF Found, q
    <2> DEFINE S == {k \in Nat : k <= n /\ Walk(m, k) # Found(c, k)}
    <2>2. ASSUME S # {} PROVE FALSE
      <3>1. PICK k \in S : \A j \in S : k <= j
        <4> S \subseteq Nat
          OBVIOUS
        <4> HIDE DEF S
        <4> QED BY <2>2, LeastNumber
      <3>2. k \in Nat /\ k <= n /\ Walk(m, k) # Found(c, k) /\ k # 0
        BY <2>1, <3>1
      <3>3. /\ k - 1 \in Nat /\ k - 1 <= n /\ k - 1 \notin S /\ (k - 1) + 1 = k
            /\ k \in 1 .. n /\ k \in 1 .. Len(Records(c))
        BY <1>1, <3>1, <3>2
      <3>4. Walk(m, k - 1) = Found(c, k - 1)
        BY <3>3
      <3>5. Walk(m, k) = WalkOn(m, Found(c, k - 1))
        BY <3>3, <3>4, WalkStep
      <3>6. Stand(m, HeaderSize + Extent(c, k - 1), OctetsOf(c, k))
        BY <3>3, RecordStandsAt
      <3> QED BY <1>5, <3>2, <3>3, <3>5, <3>6, WalkOnReads
    <2>3. Walk(m, n) = Found(c, n)
      BY <1>1, <2>2
    <2> QED BY <1>5, <2>3
  <1> QED BY <1>4, <1>5

-----------------------------------------------------------------------------
(***************************************************************************)
(* Messages: what is cut short.  It is read as the whole message is, or    *)
(* refused.                                                                *)
(***************************************************************************)

\* s is m without its last octets.
IsCut(s, m) == IsOctets(m) /\ \E n \in 0 .. Len(m.body) : s.body = SubSeq(m.body, 1, n)

\* What a message that was cut short holds.
LEMMA CutFacts ==
    ASSUME NEW m, NEW s, IsCut(s, m)
    PROVE  /\ IsOctets(m) /\ IsOctets(s) /\ Size(s) \in Nat /\ Size(m) \in Nat
           /\ HeaderSize <= Size(s) /\ Size(s) <= Size(m)
           /\ \A o \in HeaderSize .. Size(s) - 1 : At(s, o) = At(m, o) /\ At(s, o) \in Byte
           /\ \A a \in Nat, b \in Nat : HeaderSize <= a /\ a <= b /\ b <= Size(s) =>
                Slice(s, a, b) = Slice(m, a, b)
  <1>1. IsOctets(m) /\ m.body \in Seq(Byte)
    BY DEF IsCut, IsOctets
  <1>2. PICK n \in 0 .. Len(m.body) : s.body = SubSeq(m.body, 1, n)
    BY DEF IsCut
  <1> DEFINE b == m.body
             t == s.body
  <1>3. /\ t \in Seq(Byte) /\ Len(t) = n /\ Len(b) \in Nat /\ n \in Nat /\ n <= Len(b)
        /\ \A i \in 1 .. n : t[i] = b[i]
    <2> HIDE DEF b
    <2>1. b \in Seq(Byte) /\ n \in 0 .. Len(b) /\ t = SubSeq(b, 1, n)
      BY <1>1, <1>2 DEF b
    <2> HIDE DEF t
    <2> QED BY <2>1
  <1>4. IsOctets(s)
    BY <1>3 DEF IsOctets
  <1>5. Size(s) = n + 12 /\ Size(m) = Len(b) + 12 /\ HeaderSize = 12
    BY <1>1, <1>3, <1>4, Numbers DEF HeaderSize
  <1>6. Size(s) \in Nat /\ Size(m) \in Nat /\ HeaderSize <= Size(s) /\ Size(s) <= Size(m)
    <2> HIDE DEF b, t
    <2> QED BY <1>3, <1>5
  <1>7. ASSUME NEW o \in HeaderSize .. Size(s) - 1 PROVE At(s, o) = At(m, o) /\ At(s, o) \in Byte
    <2>1. o \in HeaderSize .. Size(m) - 1
      BY <1>6 DEF HeaderSize
    <2>2. o - HeaderSize + 1 \in 1 .. n
      BY <1>3, <1>5
    <2> QED BY <1>1, <1>3, <1>4, <2>1, <2>2, Numbers
  <1>8. ASSUME NEW p \in Nat, NEW q \in Nat, HeaderSize <= p, p <= q, q <= Size(s)
        PROVE  Slice(s, p, q) = Slice(m, p, q)
    <2> DEFINE x == p - 12
               y == q - 12
               u == SubSeq(t, x + 1, y)
               v == SubSeq(b, x + 1, y)
    <2>1. x \in Nat /\ y \in Nat /\ x <= y /\ y <= n
      BY <1>3, <1>5, <1>8
    <2>2. Slice(s, p, q) = u /\ Slice(m, p, q) = v
      BY <1>5 DEF Slice
    <2>3. b \in Seq(Byte)
      BY <1>1
    <2> HIDE DEF x, y, b, t
    <2>4. /\ u \in Seq(Byte) /\ Len(u) = y - x /\ \A i \in 1 .. y - x : u[i] = t[x + i]
          /\ v \in Seq(Byte) /\ Len(v) = y - x /\ \A i \in 1 .. y - x : v[i] = b[x + i]
      BY <1>3, <2>1, <2>3
    <2>5. \A i \in 1 .. y - x : t[x + i] = b[x + i]
      BY <1>3, <2>1
    <2> HIDE DEF u, v
    <2>6. u = v
      BY <2>4, <2>5, SeqEqual
    <2> QED BY <2>2, <2>6
  <1> QED BY <1>1, <1>4, <1>6, <1>7, <1>8

\* The name x that is found in s is y in the whole message, and ends in s.
CutName(x, y, s) ==
    x.ok => /\ x = y
            /\ \E z \in Nat : \E w : /\ HeaderSize <= z /\ z <= Size(s)
                                     /\ x = [ok |-> TRUE, off |-> z, owner |-> w]

\* A label does not change what was read behind it.
LEMMA LabelledCut ==
    ASSUME NEW s, NEW text, NEW x, NEW y, CutName(x, y, s)
    PROVE  CutName(Labelled(text, x), Labelled(text, y), s)
  <1> DEFINE bad == ~x.ok \/ \E i \in DOMAIN text : ~is_dns_char(text[i])
  <1>1. CASE bad
    <2>1. Labelled(text, x) = Throws
      BY <1>1 DEF Labelled
    <2> QED BY <2>1 DEF CutName, Throws
  <1>2. CASE ~bad
    <2>0. PICK z \in Nat : \E w : /\ HeaderSize <= z /\ z <= Size(s) /\ x = y
                                  /\ x = [ok |-> TRUE, off |-> z, owner |-> w]
      BY <1>2 DEF CutName
    <2>1. PICK w : /\ HeaderSize <= z /\ z <= Size(s) /\ x = y
                   /\ x = [ok |-> TRUE, off |-> z, owner |-> w]
      BY <2>0
    <2>2. Labelled(text, x) = [x EXCEPT !.owner = text \o <<Dot>> \o @]
      BY <1>2 DEF Labelled
    <2>3. Labelled(text, x) = [ok |-> TRUE, off |-> z, owner |-> text \o <<Dot>> \o x.owner]
      <3>1. ASSUME NEW v PROVE [x EXCEPT !.owner = v] = [ok |-> TRUE, off |-> z, owner |-> v]
        <4>1. x = [ok |-> TRUE, off |-> z, owner |-> w]
          BY <2>1
        <4>2. ASSUME NEW a, NEW b, a = [ok |-> b, off |-> z, owner |-> w]
              PROVE  [a EXCEPT !.owner = v] = [ok |-> b, off |-> z, owner |-> v]
          BY <4>2
        <4> QED BY <4>1, <4>2, Zenon
      <3> QED BY <2>2, <3>1, Zenon
    <2>4. Labelled(text, x) = Labelled(text, y)
      BY <2>1
    <2>5. \E v : Labelled(text, x) = [ok |-> TRUE, off |-> z, owner |-> v]
      BY <2>3
    <2> HIDE DEF bad
    <2> QED BY <2>1, <2>4, <2>5 DEF CutName
  <1> QED BY <1>1, <1>2

\* A name is read in the cut message as in the whole one, or refused.
LEMMA NamesCut ==
    ASSUME NEW m, NEW s, IsCut(s, m), NEW f, NEW g,
           \A o \in HeaderSize .. Size(m) - 1 : f[o] = NameStep(m, f, o),
           \A o \in HeaderSize .. Size(s) - 1 : g[o] = NameStep(s, g, o),
           NEW off \in HeaderSize .. Size(s) - 1
    PROVE  CutName(g[off], f[off], s)
  <1> DEFINE Z == Size(s)
             S == {n \in Nat : \E o \in HeaderSize .. Z - 1 : n = Z - o /\ ~CutName(g[o], f[o], s)}
  <1>1. /\ IsOctets(m) /\ IsOctets(s) /\ Z \in Nat /\ Size(m) \in Nat /\ Z <= Size(m)
        /\ \A o \in HeaderSize .. Z - 1 : At(s, o) = At(m, o) /\ At(s, o) \in Byte
        /\ \A a \in Nat, b \in Nat : HeaderSize <= a /\ a <= b /\ b <= Z => Slice(s, a, b) = Slice(m, a, b)
    BY CutFacts
  <1>2. HeaderSize \in Nat /\ \A o \in HeaderSize .. Z - 1 : o \in Nat /\ o \in HeaderSize .. Size(m) - 1
    BY <1>1 DEF HeaderSize
  <1> HIDE DEF Z
  <1>3. CutName(Throws, f[off], s) /\ \A y : CutName(Throws, y, s)
    BY DEF CutName, Throws
  <1>4. ASSUME S # {} PROVE FALSE
    <2>1. PICK n \in S : \A k \in S : n <= k
      <3> S \subseteq Nat
        OBVIOUS
      <3> HIDE DEF S
      <3> QED BY <1>4, LeastNumber
    <2>2. PICK o \in HeaderSize .. Z - 1 : n = Z - o /\ ~CutName(g[o], f[o], s)
      BY <2>1
    <2>3. /\ g[o] = NameStep(s, g, o) /\ f[o] = NameStep(m, f, o) /\ At(s, o) = At(m, o)
          /\ At(s, o) \in 0 .. 255 /\ o \in Nat /\ o \in HeaderSize .. Size(m) - 1
          /\ HeaderSize <= o /\ o < Z
      BY <1>1, <1>2 DEF Z, Byte
    <2> DEFINE a == At(s, o)
               p == o + 1 + a
    <2>4. CASE a >= Pointer
      <3>1. /\ g[o] = IF o + 2 > Z THEN Throws ELSE [ok |-> TRUE, off |-> o + 2, owner |-> <<>>]
            /\ f[o] = IF o + 2 > Size(m) THEN Throws ELSE [ok |-> TRUE, off |-> o + 2, owner |-> <<>>]
        BY <1>1, <2>2, <2>3, <2>4, NameStepCases DEF Z
      <3>2. CASE o + 2 > Z
        BY <1>3, <2>2, <3>1, <3>2
      <3>3. CASE ~(o + 2 > Z)
        <4>1. ~(o + 2 > Size(m)) /\ o + 2 \in Nat /\ HeaderSize <= o + 2 /\ o + 2 <= Z
          BY <1>1, <1>2, <2>3, <3>3
        <4>2. g[o] = [ok |-> TRUE, off |-> o + 2, owner |-> <<>>] /\ g[o] = f[o]
          BY <3>1, <3>3, <4>1
        <4>3. CutName(g[o], f[o], s)
          BY <4>1, <4>2 DEF CutName, Z
        <4> QED BY <2>2, <4>3
      <3> QED BY <3>2, <3>3
    <2>5. CASE a \in LabelLimit .. Pointer - 1
      <3>1. g[o] = Throws
        BY <1>1, <2>2, <2>3, <2>5, NameStepCases DEF Z
      <3> QED BY <1>3, <2>2, <3>1
    <2>6. CASE a < LabelLimit
      <3>1. /\ g[o] = IF p >= Z THEN Throws
                      ELSE IF a = 0 THEN [ok |-> TRUE, off |-> o + 1, owner |-> <<>>]
                      ELSE Labelled(Slice(s, o + 1, p), g[p])
            /\ f[o] = IF p >= Size(m) THEN Throws
                      ELSE IF a = 0 THEN [ok |-> TRUE, off |-> o + 1, owner |-> <<>>]
                      ELSE Labelled(Slice(m, o + 1, p), f[p])
        BY <1>1, <2>2, <2>3, <2>6, NameStepCases DEF Z
      <3>2. CASE p >= Z
        BY <1>3, <2>2, <3>1, <3>2
      <3>3. CASE ~(p >= Z)
        <4>1. a \in Nat /\ p \in Nat /\ ~(p >= Size(m)) /\ o + 1 \in Nat /\ HeaderSize <= o + 1
              /\ o + 1 <= p /\ p <= Z /\ o + 1 <= Z /\ p \in HeaderSize .. Z - 1
          <5>1. a \in 0 .. 255
            BY <2>3
          <5> HIDE DEF a
          <5> QED BY <1>1, <1>2, <2>3, <3>3, <5>1
        <4> HIDE DEF a, p
        <4>2. CASE a = 0
          <5>1. g[o] = [ok |-> TRUE, off |-> o + 1, owner |-> <<>>] /\ g[o] = f[o]
            BY <3>1, <3>3, <4>1, <4>2
          <5>2. CutName(g[o], f[o], s)
            BY <4>1, <5>1 DEF CutName, Z
          <5> QED BY <2>2, <5>2
        <4>3. CASE a # 0
          <5>1. g[o] = Labelled(Slice(s, o + 1, p), g[p]) /\ f[o] = Labelled(Slice(m, o + 1, p), f[p])
            BY <3>1, <3>3, <4>1, <4>3
          <5>2. Slice(s, o + 1, p) = Slice(m, o + 1, p)
            BY <1>1, <4>1
          <5>3. CutName(g[p], f[p], s)
            <6>1. n \in Nat /\ n = Z - o /\ Z - p \in Nat /\ Z - p < n
              <7>1. o < p /\ o \in Nat /\ p \in Nat /\ p <= Z /\ Z \in Nat
                BY <1>1, <2>3, <4>1
              <7> QED BY <2>2, <7>1
            <6>2. Z - p \notin S
              <7> HIDE DEF S
              <7> QED BY <2>1, <6>1
            <6> QED BY <4>1, <6>1, <6>2
          <5>4. CutName(g[o], f[o], s)
            BY <5>1, <5>2, <5>3, LabelledCut
          <5> QED BY <2>2, <5>4
        <4> QED BY <4>2, <4>3
      <3> QED BY <3>2, <3>3
    <2>7. a >= Pointer \/ a \in LabelLimit .. Pointer - 1 \/ a < LabelLimit
      BY <2>3 DEF Pointer, LabelLimit
    <2> QED BY <2>4, <2>5, <2>6, <2>7
  <1>5. Z - off \in Nat /\ Z - off \notin S
    <2>1. Z - off \in Nat
      BY <1>1, <1>2 DEF Z
    <2> HIDE DEF S
    <2> QED BY <1>4, <2>1
  <1> QED BY <1>5 DEF Z

\* get_rr_name over a message that was cut short.
LEMMA NameCut ==
    ASSUME NEW m, NEW s, IsCut(s, m), NEW o \in Nat, HeaderSize <= o
    PROVE  CutName(get_rr_name(s, o), get_rr_name(m, o), s)
  <1>1. /\ IsOctets(m) /\ IsOctets(s) /\ Size(s) \in Nat /\ Size(m) \in Nat /\ Size(s) <= Size(m)
    BY CutFacts
  <1>2. PICK f : /\ \A p \in HeaderSize .. Size(m) - 1 : f[p] = NameStep(m, f, p)
                 /\ \A p : get_rr_name(m, p) = IF p + 1 >= Size(m) THEN Throws ELSE NotTooLong(f[p])
    BY <1>1, NamesWalked
  <1>3. PICK g : /\ \A p \in HeaderSize .. Size(s) - 1 : g[p] = NameStep(s, g, p)
                 /\ \A p : get_rr_name(s, p) = IF p + 1 >= Size(s) THEN Throws ELSE NotTooLong(g[p])
    BY <1>1, NamesWalked
  <1>4. \A y : CutName(Throws, y, s)
    BY DEF CutName, Throws
  <1>5. CASE o + 1 >= Size(s)
    BY <1>3, <1>4, <1>5
  <1>6. CASE ~(o + 1 >= Size(s))
    <2>1. o \in HeaderSize .. Size(s) - 1 /\ ~(o + 1 >= Size(m))
      BY <1>1, <1>6 DEF HeaderSize
    <2>2. get_rr_name(s, o) = NotTooLong(g[o]) /\ get_rr_name(m, o) = NotTooLong(f[o])
      BY <1>2, <1>3, <1>6, <2>1
    <2>3. CutName(g[o], f[o], s)
      BY <1>2, <1>3, <2>1, NamesCut
    <2>4. CASE g[o].ok /\ Len(g[o].owner) <= MaxHostName
      <3>1. NotTooLong(g[o]) = g[o] /\ g[o] = f[o]
        BY <2>3, <2>4 DEF NotTooLong, CutName
      <3> QED BY <2>2, <2>3, <3>1
    <2>5. CASE ~(g[o].ok /\ Len(g[o].owner) <= MaxHostName)
      <3>1. NotTooLong(g[o]) = Throws
        BY <2>5 DEF NotTooLong
      <3> QED BY <1>4, <2>2, <3>1
    <2> QED BY <2>4, <2>5
  <1> QED BY <1>5, <1>6

\* The same for a question, a record or a walk.
CutResult(x, y, s) ==
    x.ok => x = y /\ x.off \in Nat /\ HeaderSize <= x.off /\ x.off <= Size(s)

\* A number is read in s as in the whole message.
LEMMA NumbersCut ==
    ASSUME NEW m, NEW s, IsCut(s, m), NEW o \in Nat, HeaderSize <= o
    PROVE  /\ o + 2 <= Size(s) => ntohs(s, o) = ntohs(m, o) /\ ntohs(s, o) \in Nat
           /\ o + 4 <= Size(s) => ntohl(s, o) = ntohl(m, o)
  <1>1. /\ Size(s) \in Nat /\ HeaderSize \in Nat
        /\ \A p \in HeaderSize .. Size(s) - 1 : At(s, p) = At(m, p) /\ At(s, p) \in Byte
    BY CutFacts DEF HeaderSize
  <1>2. ASSUME o + 2 <= Size(s)
        PROVE  ntohs(s, o) = ntohs(m, o) /\ ntohs(s, o) \in Nat
    <2>1. o \in HeaderSize .. Size(s) - 1 /\ o + 1 \in HeaderSize .. Size(s) - 1
      BY <1>1, <1>2
    <2>2. ntohs(s, o) = ntohs(m, o)
      BY <1>1, <2>1 DEF ntohs
    <2>3. At(s, o) \in 0 .. 255 /\ At(s, o + 1) \in 0 .. 255
      BY <1>1, <2>1 DEF Byte
    <2>4. ntohs(s, o) \in Nat
      <3>1. \A i, j \in 0 .. 255 : i * 256 + j \in Nat
        OBVIOUS
      <3> QED BY <2>3, <3>1, Zenon DEF ntohs
    <2> QED BY <2>2, <2>4
  <1>3. ASSUME o + 4 <= Size(s) PROVE ntohl(s, o) = ntohl(m, o)
    <2>1. /\ o \in HeaderSize .. Size(s) - 1 /\ o + 1 \in HeaderSize .. Size(s) - 1
          /\ o + 2 \in HeaderSize .. Size(s) - 1 /\ (o + 2) + 1 \in HeaderSize .. Size(s) - 1
      BY <1>1, <1>3
    <2>2. At(s, o) = At(m, o) /\ At(s, o + 1) = At(m, o + 1) /\ ntohs(s, o + 2) = ntohs(m, o + 2)
      BY <1>1, <2>1 DEF ntohs
    <2> QED BY <2>2, SMT DEF ntohl
  <1> QED BY <1>2, <1>3

\* get_rr_question over a message that was cut short.
LEMMA QuestionCut ==
    ASSUME NEW m, NEW s, IsCut(s, m)
    PROVE  CutResult(get_rr_question(s, HeaderSize), get_rr_question(m, HeaderSize), s)
  <1> DEFINE x == get_rr_name(s, HeaderSize)
             y == get_rr_name(m, HeaderSize)
             e == x.off
  <1>1. CutName(x, y, s)
    BY NameCut DEF HeaderSize
  <1>2. Size(s) \in Nat /\ Size(m) \in Nat /\ Size(s) <= Size(m)
    BY CutFacts
  <1> HIDE DEF x, y
  <1>3. CASE ~x.ok \/ x.off + 4 > Size(s)
    <2>1. QuestionAfter(s, x) = Throws
      BY <1>3 DEF QuestionAfter
    <2> QED BY <2>1 DEF get_rr_question, CutResult, Throws, x
  <1>4. CASE ~(~x.ok \/ x.off + 4 > Size(s))
    <2>1. x = y /\ e \in Nat /\ HeaderSize <= e /\ e <= Size(s)
      BY <1>1, <1>4 DEF CutName
    <2>2. e + 4 \in Nat /\ e + 2 \in Nat /\ HeaderSize <= e + 2 /\ e + 4 <= Size(s) /\ ~(e + 4 > Size(m))
          /\ (e + 2) + 2 <= Size(s) /\ e + 2 <= Size(s) /\ HeaderSize <= e + 4
      <3>1. ~(e + 4 > Size(s)) /\ HeaderSize \in Nat
        BY <1>4 DEF HeaderSize
      <3> HIDE DEF e
      <3> QED BY <1>2, <2>1, <3>1
    <2>3. ntohs(s, e) = ntohs(m, e) /\ ntohs(s, e + 2) = ntohs(m, e + 2)
      BY <2>1, <2>2, NumbersCut
    <2>4. QuestionAfter(s, x) = [ok |-> TRUE, off |-> e + 4, owner |-> x.owner,
                                 type |-> ntohs(s, e), class |-> ntohs(s, e + 2)]
      BY <1>4 DEF QuestionAfter
    <2>5. QuestionAfter(m, y) = [ok |-> TRUE, off |-> e + 4, owner |-> x.owner,
                                 type |-> ntohs(m, e), class |-> ntohs(m, e + 2)]
      <3>1. x.ok /\ ~(x.off + 4 > Size(m))
        BY <1>4, <2>2
      <3> QED BY <2>1, <3>1 DEF QuestionAfter
    <2>6. QuestionAfter(s, x) = QuestionAfter(m, y)
      BY <2>3, <2>4, <2>5
    <2>7. QuestionAfter(s, x).off = e + 4
      BY <2>4
    <2> QED BY <2>2, <2>6, <2>7 DEF get_rr_question, CutResult, x, y
  <1> QED BY <1>3, <1>4

\* get_rr over a message that was cut short.
LEMMA RecordCut ==
    ASSUME NEW m, NEW s, IsCut(s, m), NEW o \in Nat, HeaderSize <= o
    PROVE  CutResult(get_rr(s, o), get_rr(m, o), s)
  <1> DEFINE x == get_rr_name(s, o)
             y == get_rr_name(m, o)
             e == x.off
             n == ntohs(s, e + 8)
             z == e + 10 + n
  <1>1. CutName(x, y, s)
    BY NameCut
  <1>2. Size(s) \in Nat /\ Size(m) \in Nat /\ Size(s) <= Size(m)
    BY CutFacts
  <1> HIDE DEF x, y
  <1>3. CASE ~x.ok \/ x.off + 10 > Size(s) \/ z > Size(s)
    <2>1. RecordAfter(s, x) = Throws
      BY <1>3 DEF RecordAfter
    <2> QED BY <2>1 DEF get_rr, CutResult, Throws, x
  <1>4. CASE ~(~x.ok \/ x.off + 10 > Size(s) \/ z > Size(s))
    <2>1. x = y /\ e \in Nat /\ HeaderSize <= e /\ e <= Size(s)
      BY <1>1, <1>4 DEF CutName
    <2>2. /\ e + 10 \in Nat /\ e + 2 \in Nat /\ e + 4 \in Nat /\ e + 8 \in Nat /\ HeaderSize \in Nat
          /\ HeaderSize <= e + 2 /\ HeaderSize <= e + 4 /\ HeaderSize <= e + 8 /\ HeaderSize <= e + 10
          /\ e + 10 <= Size(s) /\ ~(e + 10 > Size(m))
          /\ e + 2 <= Size(s) /\ (e + 2) + 2 <= Size(s) /\ (e + 4) + 4 <= Size(s) /\ (e + 8) + 2 <= Size(s)
      <3>1. ~(e + 10 > Size(s)) /\ HeaderSize \in Nat
        BY <1>4 DEF HeaderSize
      <3> HIDE DEF e
      <3> QED BY <1>2, <2>1, <3>1
    <2>3. /\ ntohs(s, e) = ntohs(m, e) /\ ntohs(s, e + 2) = ntohs(m, e + 2)
          /\ ntohl(s, e + 4) = ntohl(m, e + 4) /\ ntohs(s, e + 8) = ntohs(m, e + 8) /\ n \in Nat
      BY <2>1, <2>2, NumbersCut
    <2>4. z \in Nat /\ e + 10 <= z /\ z <= Size(s) /\ ~(z > Size(m)) /\ HeaderSize <= z
      <3>1. ~(z > Size(s))
        BY <1>4
      <3> HIDE DEF e, n
      <3> QED BY <1>2, <2>2, <2>3, <3>1
    <2>5. Slice(s, e + 10, z) = Slice(m, e + 10, z)
      BY <2>2, <2>4, CutFacts
    <2>6. RecordAfter(s, x) = RecordTo(s, x, z)
      BY <1>4 DEF RecordAfter
    <2>7. RecordAfter(m, y) = RecordTo(m, x, z)
      <3>1. x.ok /\ ~(x.off + 10 > Size(m)) /\ x.off + 10 + ntohs(m, x.off + 8) = z
        BY <1>4, <2>2, <2>3
      <3> QED BY <2>1, <2>4, <3>1 DEF RecordAfter
    <2>8. RecordTo(s, x, z) = RecordTo(m, x, z)
      BY <2>3, <2>5 DEF RecordTo
    <2>9. RecordAfter(s, x).off = z
      BY <2>6 DEF RecordTo
    <2> HIDE DEF z
    <2> QED BY <2>4, <2>6, <2>7, <2>8, <2>9 DEF get_rr, CutResult, x, y
  <1> QED BY <1>3, <1>4

\* The walk over a message that was cut short.
LEMMA WalkCut ==
    ASSUME NEW m, NEW s, IsCut(s, m), NEW n \in Nat
    PROVE  CutResult(Walk(s, n), Walk(m, n), s)
  <1> DEFINE S == {k \in Nat : ~CutResult(Walk(s, k), Walk(m, k), s)}
  <1>1. \A y : CutResult(Throws, y, s)
    BY DEF CutResult, Throws
  <1>2. CutResult(Walk(s, 0), Walk(m, 0), s)
    <2> DEFINE x == get_rr_question(s, HeaderSize)
               y == get_rr_question(m, HeaderSize)
    <2>1. CutResult(x, y, s)
      BY QuestionCut
    <2>2. Walk(s, 0) = WalkFrom(x) /\ Walk(m, 0) = WalkFrom(y)
      BY WalkStep
    <2> HIDE DEF x, y
    <2>3. CASE ~x.ok
      BY <1>1, <2>2, <2>3 DEF WalkFrom
    <2>4. CASE x.ok
      <3>1. x = y /\ x.off \in Nat /\ HeaderSize <= x.off /\ x.off <= Size(s)
        BY <2>1, <2>4 DEF CutResult
      <3>2. WalkFrom(x) = [ok |-> TRUE, off |-> x.off, rrs |-> <<>>, at |-> <<>>]
        BY <2>4 DEF WalkFrom
      <3>3. WalkFrom(x) = WalkFrom(y) /\ WalkFrom(x).off = x.off
        BY <3>1, <3>2
      <3> QED BY <2>2, <3>1, <3>3 DEF CutResult
    <2> QED BY <2>3, <2>4
  <1>3. ASSUME S # {} PROVE FALSE
    <2>1. PICK k \in S : \A j \in S : k <= j
      <3> S \subseteq Nat
        OBVIOUS
      <3> HIDE DEF S
      <3> QED BY <1>3, LeastNumber
    <2>2. k \in Nat /\ ~CutResult(Walk(s, k), Walk(m, k), s) /\ k # 0
      BY <1>2, <2>1
    <2>3. k - 1 \in Nat /\ k - 1 \notin S /\ (k - 1) + 1 = k
      BY <2>1, <2>2
    <2> DEFINE x == Walk(s, k - 1)
               y == Walk(m, k - 1)
               r == get_rr(s, x.off)
    <2>4. CutResult(x, y, s)
      BY <2>3
    <2>5. Walk(s, k) = WalkOn(s, x) /\ Walk(m, k) = WalkOn(m, y)
      BY <2>3, WalkStep
    <2> HIDE DEF x, y
    <2>6. CASE ~x.ok
      BY <1>1, <2>2, <2>5, <2>6 DEF WalkOn
    <2>7. CASE x.ok
      <3>1. x = y /\ x.off \in Nat /\ HeaderSize <= x.off
        BY <2>4, <2>7 DEF CutResult
      <3>2. CutResult(r, get_rr(m, x.off), s)
        BY <3>1, RecordCut
      <3>3. WalkOn(s, x) = WalkedOn(x, r) /\ WalkOn(m, y) = WalkedOn(x, get_rr(m, x.off))
        BY <2>7, <3>1 DEF WalkOn
      <3> HIDE DEF r
      <3>4. CASE ~r.ok
        BY <1>1, <2>2, <2>5, <3>3, <3>4 DEF WalkedOn
      <3>5. CASE r.ok
        <4>1. r = get_rr(m, x.off) /\ r.off \in Nat /\ HeaderSize <= r.off /\ r.off <= Size(s)
          BY <3>2, <3>5 DEF CutResult
        <4>2. WalkedOn(x, r).off = r.off
          BY <3>5 DEF WalkedOn
        <4>3. CutResult(WalkOn(s, x), WalkOn(m, y), s)
          BY <3>3, <4>1, <4>2 DEF CutResult
        <4> QED BY <2>2, <2>5, <4>3
      <3> QED BY <3>4, <3>5
    <2> QED BY <2>6, <2>7
  <1> QED BY <1>3

-----------------------------------------------------------------------------
(***************************************************************************)
(* Messages: another ttl.                                                  *)
(***************************************************************************)

\* The octets of a record, place by place: those before the ttl, the ttl, and
\* those behind it.
Placed(R, w, p, l, n, d) ==
    /\ Len(w) \in Nat /\ Len(d) \in Nat /\ Len(R) = Len(w) + 10 + Len(d)
    /\ \A j \in 1 .. Len(w) + 4 : R[j] = p[j]
    /\ \A j \in 1 .. 4 : R[Len(w) + 4 + j] = l[j]
    /\ \A j \in 1 .. 2 : R[Len(w) + 8 + j] = n[j]
    /\ \A j \in 1 .. Len(d) : R[Len(w) + 10 + j] = d[j]

\* Where the parts of a record's octets stand.
LEMMA RecordPlaces ==
    ASSUME NEW r \in Record, NEW h, IsHostName(h), LabelsFit(h)
    PROVE  Placed(RecordOctets(h, r), Owner(r.form, h),
                  Owner(r.form, h) \o htons(r.type) \o htons(r.class),
                  htonl(r.ttl), htons(Len(r.data)), r.data)
  <1> DEFINE w  == Owner(r.form, h)
             p  == w \o htons(r.type) \o htons(r.class)
             l  == htonl(r.ttl)
             n  == htons(Len(r.data))
             d  == r.data
             q  == p \o l
             u  == q \o n
             R  == RecordOctets(h, r)
             W  == Len(w)
  <1>1. /\ R = u \o d /\ p \in Seq(Byte) /\ q \in Seq(Byte) /\ u \in Seq(Byte) /\ d \in Seq(Byte)
        /\ l \in Seq(Byte) /\ n \in Seq(Byte) /\ R \in Seq(Byte)
    BY RecordOctetsFacts
  <1>2. /\ W \in Nat /\ Len(d) \in Nat /\ Len(p) = W + 4 /\ Len(q) = W + 8 /\ Len(u) = W + 10
        /\ Len(R) = W + 10 + Len(d) /\ Len(l) = 4
    BY RecordOctetsFacts
  <1>3. Len(n) = 2
    BY RecordOctetsFacts, HtonsFacts
  <1> HIDE DEF W, w, p, l, n, d, R
  <1>4. /\ \A i \in 1 .. Len(p) : q[i] = p[i]
        /\ \A i \in 1 .. Len(l) : q[Len(p) + i] = l[i]
    BY <1>1, ConcatParts
  <1> HIDE DEF q
  <1>5. /\ \A i \in 1 .. Len(q) : u[i] = q[i]
        /\ \A i \in 1 .. Len(n) : u[Len(q) + i] = n[i]
    BY <1>1, ConcatParts
  <1> HIDE DEF u
  <1>6. /\ \A i \in 1 .. Len(u) : R[i] = u[i]
        /\ \A i \in 1 .. Len(d) : R[Len(u) + i] = d[i]
    BY <1>1, ConcatParts
  <1>7. \A j \in 1 .. W + 4 : R[j] = p[j]
    BY <1>2, <1>4, <1>5, <1>6
  <1>8. ASSUME NEW j \in 1 .. 4 PROVE R[W + 4 + j] = l[j]
    <2>1. W + 4 + j \in 1 .. W + 8 /\ W + 4 + j \in 1 .. W + 10
      BY <1>2
    <2> QED BY <1>2, <1>4, <1>5, <1>6, <2>1
  <1>9. ASSUME NEW j \in 1 .. 2 PROVE R[W + 8 + j] = n[j]
    <2>1. W + 8 + j \in 1 .. W + 10
      BY <1>2
    <2> QED BY <1>2, <1>3, <1>5, <1>6, <2>1
  <1>10. \A j \in 1 .. Len(d) : R[W + 10 + j] = d[j]
    BY <1>2, <1>6
  <1>11. Placed(R, w, p, l, n, d)
    BY <1>2, <1>7, <1>8, <1>9, <1>10 DEF W, Placed
  <1> QED BY <1>11 DEF w, p, l, n, d, R

AgedRecord(r, ttl) == IF r.type = rr_type.opt THEN r ELSE [r EXCEPT !.ttl = ttl]

\* Only the lifetime of a record changes, and not that of the extension record.
LEMMA AgedRecordFacts ==
    ASSUME NEW r \in Record, NEW ttl \in Int32
    PROVE  LET e == AgedRecord(r, ttl)
           IN  /\ e \in Record /\ e.form = r.form /\ e.type = r.type /\ e.class = r.class
               /\ e.data = r.data /\ e.ttl = IF r.type = rr_type.opt THEN r.ttl ELSE ttl
  <1>1. CASE r.type = rr_type.opt
    BY <1>1 DEF AgedRecord
  <1>2. CASE r.type # rr_type.opt
    <2> DEFINE T == [form : {"pointer", "full", "root"}, type : Word, class : Word,
                     ttl : Int32, data : Seq(Byte)]
               e == [r EXCEPT !.ttl = ttl]
    <2>1. r \in T /\ Len(r.data) \in Word /\ (IsTxt(r) => r.data # <<>> /\ r.data[1] = Len(r.data) - 1)
      BY DEF Record
    <2>2. e \in T /\ e.form = r.form /\ e.type = r.type /\ e.class = r.class /\ e.data = r.data /\ e.ttl = ttl
      BY <2>1
    <2>3. AgedRecord(r, ttl) = e
      BY <1>2 DEF AgedRecord
    <2> HIDE DEF e
    <2>4. IsTxt(e) <=> IsTxt(r)
      BY <2>2 DEF IsTxt
    <2>5. e \in Record
      BY <2>1, <2>2, <2>4 DEF Record
    <2> QED BY <1>2, <2>2, <2>3, <2>5
  <1> QED BY <1>1, <1>2

\* Only the four octets of the ttl are others, and none in an extension record.
LEMMA AgedOctets ==
    ASSUME NEW r \in Record, NEW ttl \in Int32, NEW h, IsHostName(h), LabelsFit(h)
    PROVE  LET w == Len(Owner(r.form, h))
               R == RecordOctets(h, r)
               E == RecordOctets(h, AgedRecord(r, ttl))
           IN  /\ Len(E) = Len(R) /\ w \in Nat /\ Len(R) \in Nat /\ w + 8 <= Len(R)
               /\ \A j \in 1 .. Len(R) :
                    E[j] = IF r.type # rr_type.opt /\ j \in w + 5 .. w + 8
                           THEN htonl(ttl)[j - w - 4] ELSE R[j]
  <1> DEFINE o == Owner(r.form, h)
             w == Len(o)
             e == AgedRecord(r, ttl)
             R == RecordOctets(h, r)
             E == RecordOctets(h, e)
             p == Owner(r.form, h) \o htons(r.type) \o htons(r.class)
             n == htons(Len(r.data))
             d == r.data
  <1>1. /\ e \in Record /\ e.form = r.form /\ e.type = r.type /\ e.class = r.class /\ e.data = r.data
        /\ e.ttl = IF r.type = rr_type.opt THEN r.ttl ELSE ttl
    BY AgedRecordFacts
  <1>2. /\ w \in Nat /\ Len(d) \in Nat /\ Len(R) = w + 10 + Len(d)
        /\ \A j \in 1 .. w + 4 : R[j] = p[j]
        /\ \A j \in 1 .. 2 : R[w + 8 + j] = n[j]
        /\ \A j \in 1 .. Len(d) : R[w + 10 + j] = d[j]
    <2>1. Placed(R, o, p, htonl(r.ttl), n, d)
      BY RecordPlaces
    <2> HIDE DEF R, o, p, n, d
    <2> QED BY <2>1 DEF Placed
  <1>3. /\ Len(E) = w + 10 + Len(d)
        /\ \A j \in 1 .. w + 4 : E[j] = p[j]
        /\ \A j \in 1 .. 4 : E[w + 4 + j] = htonl(e.ttl)[j]
        /\ \A j \in 1 .. 2 : E[w + 8 + j] = n[j]
        /\ \A j \in 1 .. Len(d) : E[w + 10 + j] = d[j]
    <2> HIDE DEF e
    <2>1. Placed(E, Owner(e.form, h), Owner(e.form, h) \o htons(e.type) \o htons(e.class),
                 htonl(e.ttl), htons(Len(e.data)), e.data)
      BY <1>1, RecordPlaces
    <2> HIDE DEF E
    <2>2. e.form = r.form /\ e.type = r.type /\ e.class = r.class /\ e.data = r.data
      BY <1>1
    <2>3. Placed(E, o, p, htonl(e.ttl), n, d)
      BY <2>1, <2>2
    <2> HIDE DEF o, p, n, d
    <2> QED BY <2>3 DEF Placed
  <1>4. r.type = rr_type.opt => E = R
    BY DEF AgedRecord
  <1> HIDE DEF e, o, w, R, E, p, n, d
  <1>5. ASSUME NEW j \in 1 .. Len(R)
        PROVE  E[j] = IF r.type # rr_type.opt /\ j \in w + 5 .. w + 8
                      THEN htonl(ttl)[j - w - 4] ELSE R[j]
    <2>1. CASE r.type = rr_type.opt
      BY <1>4, <2>1
    <2>2. CASE r.type # rr_type.opt
      <3>0. e.ttl = ttl
        BY <1>1, <2>2
      <3>1. CASE j \in 1 .. w + 4
        <4>1. j \notin w + 5 .. w + 8
          BY <1>2, <3>1
        <4> QED BY <1>2, <1>3, <3>1, <4>1
      <3>2. CASE j \in w + 5 .. w + 8
        <4>0. w \in Nat
          BY <1>2
        <4>1. j - w - 4 \in 1 .. 4 /\ w + 4 + (j - w - 4) = j
          <5> HIDE DEF w
          <5> QED BY <3>2, <4>0
        <4>2. E[w + 4 + (j - w - 4)] = htonl(ttl)[j - w - 4]
          BY <1>3, <3>0, <4>1
        <4> QED BY <2>2, <3>2, <4>1, <4>2
      <3>3. CASE j \in w + 9 .. w + 10
        <4>1. j \notin w + 5 .. w + 8 /\ j - w - 8 \in 1 .. 2 /\ w + 8 + (j - w - 8) = j
          BY <1>2, <3>3
        <4>2. E[w + 8 + (j - w - 8)] = R[w + 8 + (j - w - 8)]
          BY <1>2, <1>3, <4>1
        <4> QED BY <4>1, <4>2
      <3>4. CASE j > w + 10
        <4>1. j \notin w + 5 .. w + 8 /\ j - w - 10 \in 1 .. Len(d) /\ w + 10 + (j - w - 10) = j
          BY <1>2, <3>4
        <4>2. E[w + 10 + (j - w - 10)] = R[w + 10 + (j - w - 10)]
          BY <1>2, <1>3, <4>1
        <4> QED BY <4>1, <4>2
      <3>5. j \in 1 .. w + 4 \/ j \in w + 5 .. w + 8 \/ j \in w + 9 .. w + 10 \/ j > w + 10
        BY <1>2
      <3> QED BY <3>1, <3>2, <3>3, <3>4, <3>5
    <2> QED BY <2>1, <2>2
  <1>6. Len(E) = Len(R) /\ Len(R) \in Nat /\ w + 8 <= Len(R)
    BY <1>2, <1>3
  <1> QED BY <1>2, <1>5, <1>6 DEF e, o, w, R, E

AgedAll(rrs, ttl) == [i \in DOMAIN rrs |-> AgedRecord(rrs[i], ttl)]

AgedContent(c, id, ttl) ==
    [c EXCEPT !.id = id, !.an = AgedAll(@, ttl), !.ns = AgedAll(@, ttl), !.ar = AgedAll(@, ttl)]

\* The records of a section, each with its new lifetime.
LEMMA AgedAllFacts ==
    ASSUME NEW rrs \in Seq(Record), NEW ttl \in Int32
    PROVE  /\ AgedAll(rrs, ttl) \in Seq(Record) /\ Len(AgedAll(rrs, ttl)) = Len(rrs)
           /\ \A i \in 1 .. Len(rrs) : AgedAll(rrs, ttl)[i] = AgedRecord(rrs[i], ttl)
  <1>1. DOMAIN rrs = 1 .. Len(rrs) /\ Len(rrs) \in Nat /\ \A i \in 1 .. Len(rrs) : rrs[i] \in Record
    OBVIOUS
  <1>2. \A i \in 1 .. Len(rrs) : AgedRecord(rrs[i], ttl) \in Record
    BY <1>1, AgedRecordFacts
  <1>3. /\ AgedAll(rrs, ttl) \in [1 .. Len(rrs) -> Record]
        /\ \A i \in 1 .. Len(rrs) : AgedAll(rrs, ttl)[i] = AgedRecord(rrs[i], ttl)
    BY <1>1, <1>2 DEF AgedAll
  <1> QED BY <1>1, <1>3

\* The fields of a content, one by one.
ContentFields ==
    [id : Word, host : Seq(Byte), type : Word, class : Word, qr : BOOLEAN,
     tc : BOOLEAN, rcode : 0 .. 15, an : Seq(Record), ns : Seq(Record), ar : Seq(Record)]

\* What a message from the cache means.
LEMMA AgedContentFacts ==
    ASSUME NEW c \in Content, NEW id \in Word, NEW ttl \in Int32
    PROVE  LET e == AgedContent(c, id, ttl)
           IN  /\ e \in Content /\ e.id = id /\ e.host = c.host /\ e.type = c.type /\ e.class = c.class
               /\ e.qr = c.qr /\ e.tc = c.tc /\ e.rcode = c.rcode
               /\ Len(e.an) = Len(c.an) /\ Len(e.ns) = Len(c.ns) /\ Len(e.ar) = Len(c.ar)
               /\ Len(Records(e)) = Len(Records(c))
               /\ \A i \in 1 .. Len(Records(c)) : Records(e)[i] = AgedRecord(Records(c)[i], ttl)
  <1> DEFINE A == AgedAll(c.an, ttl)
             B == AgedAll(c.ns, ttl)
             D == AgedAll(c.ar, ttl)
             e == AgedContent(c, id, ttl)
  <1>1. c \in ContentFields /\ IsHostName(c.host) /\ LabelsFit(c.host)
    BY DEF Content, ContentFields
  <1>2. c.an \in Seq(Record) /\ c.ns \in Seq(Record) /\ c.ar \in Seq(Record)
    BY <1>1 DEF ContentFields
  <1>3. /\ A \in Seq(Record) /\ Len(A) = Len(c.an) /\ \A i \in 1 .. Len(c.an) : A[i] = AgedRecord(c.an[i], ttl)
        /\ B \in Seq(Record) /\ Len(B) = Len(c.ns) /\ \A i \in 1 .. Len(c.ns) : B[i] = AgedRecord(c.ns[i], ttl)
        /\ D \in Seq(Record) /\ Len(D) = Len(c.ar) /\ \A i \in 1 .. Len(c.ar) : D[i] = AgedRecord(c.ar[i], ttl)
    BY <1>2, AgedAllFacts
  <1>4. e = [c EXCEPT !.id = id, !.an = A, !.ns = B, !.ar = D]
    BY Zenon DEF AgedContent
  <1> HIDE DEF A, B, D, e
  <1>5. /\ e \in ContentFields /\ e.id = id /\ e.host = c.host /\ e.type = c.type /\ e.class = c.class
        /\ e.qr = c.qr /\ e.tc = c.tc /\ e.rcode = c.rcode /\ e.an = A /\ e.ns = B /\ e.ar = D
    BY <1>1, <1>3, <1>4 DEF ContentFields
  <1>6. e \in Content
    BY <1>1, <1>5 DEF Content, ContentFields
  <1> DEFINE a == Len(c.an)
             b == Len(c.ns)
             d == Len(c.ar)
             N == Len(Records(c))
  <1>7. /\ a \in Nat /\ b \in Nat /\ d \in Nat /\ N = a + b + d
        /\ \A i \in 1 .. a : Records(c)[i] = c.an[i]
        /\ \A i \in 1 .. b : Records(c)[a + i] = c.ns[i]
        /\ \A i \in 1 .. d : Records(c)[a + b + i] = c.ar[i]
    BY RecordsFacts
  <1>8. /\ Len(Records(e)) = a + b + d
        /\ \A i \in 1 .. a : Records(e)[i] = A[i]
        /\ \A i \in 1 .. b : Records(e)[a + i] = B[i]
        /\ \A i \in 1 .. d : Records(e)[a + b + i] = D[i]
    <2>1. /\ Len(Records(e)) = Len(e.an) + Len(e.ns) + Len(e.ar)
          /\ \A i \in 1 .. Len(e.an) : Records(e)[i] = e.an[i]
          /\ \A i \in 1 .. Len(e.ns) : Records(e)[Len(e.an) + i] = e.ns[i]
          /\ \A i \in 1 .. Len(e.ar) : Records(e)[Len(e.an) + Len(e.ns) + i] = e.ar[i]
      BY <1>6, RecordsFacts
    <2>2. e.an = A /\ e.ns = B /\ e.ar = D /\ Len(A) = a /\ Len(B) = b /\ Len(D) = d
      BY <1>3, <1>5
    <2> HIDE DEF a, b, d
    <2> QED BY <2>1, <2>2, Zenon
  <1> HIDE DEF a, b, d, N
  <1>9. ASSUME NEW i \in 1 .. N PROVE Records(e)[i] = AgedRecord(Records(c)[i], ttl)
    <2>1. CASE i \in 1 .. a
      BY <1>3, <1>7, <1>8, <2>1 DEF a
    <2>2. CASE i \in a + 1 .. a + b
      <3>1. i - a \in 1 .. b /\ a + (i - a) = i
        BY <1>7, <2>2
      <3>2. Records(e)[a + (i - a)] = AgedRecord(Records(c)[a + (i - a)], ttl)
        BY <1>3, <1>7, <1>8, <3>1 DEF b
      <3> QED BY <3>1, <3>2
    <2>3. CASE i \in a + b + 1 .. a + b + d
      <3>1. i - a - b \in 1 .. d /\ a + b + (i - a - b) = i
        BY <1>7, <2>3
      <3>2. Records(e)[a + b + (i - a - b)] = AgedRecord(Records(c)[a + b + (i - a - b)], ttl)
        BY <1>3, <1>7, <1>8, <3>1 DEF d
      <3> QED BY <3>1, <3>2
    <2>4. i \in 1 .. a \/ i \in a + 1 .. a + b \/ i \in a + b + 1 .. a + b + d
      BY <1>7
    <2> QED BY <2>1, <2>2, <2>3, <2>4
  <1>10. Len(e.an) = Len(c.an) /\ Len(e.ns) = Len(c.ns) /\ Len(e.ar) = Len(c.ar)
    BY <1>3, <1>5
  <1> QED BY <1>5, <1>6, <1>7, <1>8, <1>9, <1>10 DEF e, N

\* A record with another lifetime takes as many octets.
LEMMA AgedParts ==
    ASSUME NEW c \in Content, NEW id \in Word, NEW ttl \in Int32, NEW k \in 1 .. Len(Records(c))
    PROVE  LET e == AgedContent(c, id, ttl)
               r == Records(c)[k]
               w == Len(Owner(r.form, c.host))
           IN  /\ Len(OctetsOf(e, k)) = Len(OctetsOf(c, k)) /\ w \in Nat /\ Len(OctetsOf(c, k)) \in Nat
               /\ w + 8 <= Len(OctetsOf(c, k))
               /\ \A j \in 1 .. Len(OctetsOf(c, k)) :
                    OctetsOf(e, k)[j] = IF r.type # rr_type.opt /\ j \in w + 5 .. w + 8
                                        THEN htonl(ttl)[j - w - 4] ELSE OctetsOf(c, k)[j]
  <1> DEFINE e == AgedContent(c, id, ttl)
             r == Records(c)[k]
  <1>1. r \in Record /\ IsHostName(c.host) /\ LabelsFit(c.host)
    BY RecordsFacts, QuestionFacts
  <1>2. e.host = c.host /\ Records(e)[k] = AgedRecord(r, ttl)
    BY AgedContentFacts
  <1>3. OctetsOf(e, k) = RecordOctets(c.host, AgedRecord(r, ttl)) /\ OctetsOf(c, k) = RecordOctets(c.host, r)
    BY <1>2 DEF OctetsOf
  <1> HIDE DEF e, r
  <1> QED BY <1>1, <1>3, AgedOctets DEF e, r

\* Every record stands where it stood before.
LEMMA AgedExtent ==
    ASSUME NEW c \in Content, NEW id \in Word, NEW ttl \in Int32, NEW n \in 0 .. Len(Records(c))
    PROVE  Extent(AgedContent(c, id, ttl), n) = Extent(c, n)
  <1> DEFINE e == AgedContent(c, id, ttl)
             N == Len(Records(c))
             S == {k \in Nat : k <= N /\ Extent(e, k) # Extent(c, k)}
  <1>1. /\ e \in Content /\ e.host = c.host /\ e.type = c.type /\ e.class = c.class
        /\ Len(Records(e)) = N /\ N \in Nat
    BY AgedContentFacts, RecordsFacts
  <1>2. Extent(e, 0) = Extent(c, 0)
    <2>1. QuestionOctets(e) = QuestionOctets(c)
      BY <1>1 DEF QuestionOctets
    <2> QED BY <2>1, OctetsToStep DEF Extent
  <1> HIDE DEF e, N
  <1>3. ASSUME S # {} PROVE FALSE
    <2>1. PICK k \in S : \A j \in S : k <= j
      <3> S \subseteq Nat
        OBVIOUS
      <3> HIDE DEF S
      <3> QED BY <1>3, LeastNumber
    <2>2. k \in Nat /\ k <= N /\ Extent(e, k) # Extent(c, k) /\ k # 0
      BY <1>2, <2>1
    <2>3. k - 1 \in Nat /\ k - 1 <= N /\ k - 1 \notin S /\ k \in 1 .. N
      BY <1>1, <2>1, <2>2
    <2>4. Extent(e, k - 1) = Extent(c, k - 1)
      BY <2>3
    <2>5. Len(OctetsOf(e, k)) = Len(OctetsOf(c, k))
      BY <2>3, AgedParts DEF e, N
    <2>6. Extent(c, k) = Extent(c, k - 1) + Len(OctetsOf(c, k))
      BY <2>3, OctetsToParts DEF N
    <2>7. Extent(e, k) = Extent(e, k - 1) + Len(OctetsOf(e, k))
      BY <1>1, <2>3, OctetsToParts
    <2> QED BY <2>2, <2>4, <2>5, <2>6, <2>7
  <1> QED BY <1>1, <1>3 DEF e, N

\* Each octet is one of the question or of one record.
LEMMA PlaceOf ==
    ASSUME NEW c \in Content, NEW i \in 1 .. Extent(c, Len(Records(c)))
    PROVE  \/ i \in 1 .. Extent(c, 0)
           \/ \E k \in 1 .. Len(Records(c)) : i > Extent(c, k - 1) /\ i <= Extent(c, k)
  <1> DEFINE N == Len(Records(c))
             S == {k \in Nat : k <= N /\ i <= Extent(c, k)}
  <1>1. N \in Nat /\ \A k \in 0 .. N : Extent(c, k) \in Nat
    BY RecordsFacts, OctetsToIsSeq DEF Extent
  <1>2. i \in Nat /\ i >= 1
    BY <1>1
  <1>3. N \in S
    BY <1>1
  <1>4. PICK k \in S : \A j \in S : k <= j
    <2> S \subseteq Nat
      OBVIOUS
    <2> HIDE DEF S
    <2> QED BY <1>3, LeastNumber
  <1>5. k \in Nat /\ k <= N /\ i <= Extent(c, k)
    BY <1>4
  <1>6. CASE k = 0
    BY <1>1, <1>2, <1>5, <1>6
  <1>7. CASE k # 0
    <2>1. k - 1 \in Nat /\ k - 1 <= N /\ k - 1 \notin S /\ k \in 1 .. N /\ k - 1 \in 0 .. N
      BY <1>1, <1>4, <1>5, <1>7
    <2>2. i > Extent(c, k - 1)
      BY <1>1, <1>2, <2>1
    <2> QED BY <1>5, <2>1, <2>2
  <1> QED BY <1>6, <1>7

\* The records whose ttl has an octet at the i-th place.
Hits(c, i) ==
    {k \in 1 .. Len(Records(c)) :
        /\ Records(c)[k].type # rr_type.opt
        /\ i + HeaderSize - 1 \in FixedAt(c, k) + 4 .. FixedAt(c, k) + 7}

\* The ttl of a record lies in the record.
LEMMA HitFacts ==
    ASSUME NEW c \in Content, NEW i \in Nat, NEW k \in 1 .. Len(Records(c))
    PROVE  LET w == Len(Owner(Records(c)[k].form, c.host))
               x == Extent(c, k - 1)
           IN  /\ w \in Nat /\ x \in Nat /\ FixedAt(c, k) = HeaderSize + x + w
               /\ k \in Hits(c, i) <=> Records(c)[k].type # rr_type.opt /\ i - x \in w + 5 .. w + 8
               /\ k \in Hits(c, i) => i > x /\ i <= Extent(c, k)
  <1> DEFINE r == Records(c)[k]
             w == Len(Owner(r.form, c.host))
             x == Extent(c, k - 1)
  <1>1. /\ x \in Nat /\ Extent(c, k) = x + Len(OctetsOf(c, k))
    BY OctetsToParts
  <1>2. w \in Nat /\ w + 8 <= Len(OctetsOf(c, k)) /\ Len(OctetsOf(c, k)) \in Nat
    <2>1. r \in Record /\ IsHostName(c.host) /\ LabelsFit(c.host)
      BY RecordsFacts, QuestionFacts
    <2> DEFINE d == Len(r.data)
    <2>2. Len(OctetsOf(c, k)) = w + 10 + d /\ w \in Nat /\ d \in Nat
      BY <2>1, RecordOctetsFacts DEF OctetsOf
    <2> HIDE DEF d, w
    <2> QED BY <2>2
  <1>3. FixedAt(c, k) = HeaderSize + x + w
    BY DEF FixedAt
  <1>4. k \in Hits(c, i) <=> r.type # rr_type.opt /\ i + HeaderSize - 1 \in FixedAt(c, k) + 4 .. FixedAt(c, k) + 7
    BY DEF Hits
  <1> HIDE DEF r, w, x
  <1>5. (i + HeaderSize - 1 \in FixedAt(c, k) + 4 .. FixedAt(c, k) + 7) <=> (i - x \in w + 5 .. w + 8)
    BY <1>1, <1>2, <1>3 DEF HeaderSize
  <1>6. k \in Hits(c, i) => i > x /\ i <= Extent(c, k)
    BY <1>1, <1>2, <1>4, <1>5
  <1> QED BY <1>1, <1>2, <1>3, <1>4, <1>5, <1>6 DEF r, w, x

\* No two records have an octet at the same place.
LEMMA HitIsAlone ==
    ASSUME NEW c \in Content, NEW i \in Nat, NEW k \in 1 .. Len(Records(c)),
           i > Extent(c, k - 1), i <= Extent(c, k), NEW j \in Hits(c, i)
    PROVE  j = k
  <1> DEFINE N == Len(Records(c))
  <1>1. N \in Nat /\ j \in 1 .. N /\ k \in 1 .. N
    BY RecordsFacts DEF Hits
  <1>2. i > Extent(c, j - 1) /\ i <= Extent(c, j)
    BY <1>1, HitFacts
  <1>3. /\ Extent(c, j) \in Nat /\ Extent(c, k) \in Nat
        /\ Extent(c, j - 1) \in Nat /\ Extent(c, k - 1) \in Nat
    BY <1>1, OctetsToParts
  <1>4. CASE j < k
    <2>1. k - 1 \in 0 .. N /\ j \in 0 .. k - 1
      BY <1>1, <1>4
    <2>2. Extent(c, j) <= Extent(c, k - 1)
      BY <2>1, OctetsPrefix
    <2> QED BY <1>2, <1>3, <2>2
  <1>5. CASE j > k
    <2>1. j - 1 \in 0 .. N /\ k \in 0 .. j - 1
      BY <1>1, <1>5
    <2>2. Extent(c, k) <= Extent(c, j - 1)
      BY <2>1, OctetsPrefix
    <2> QED BY <1>2, <1>3, <2>2
  <1> QED BY <1>1, <1>4, <1>5

\* No octet of the question is one of a lifetime.
LEMMA NoHitInQuestion ==
    ASSUME NEW c \in Content, NEW i \in 1 .. Extent(c, 0)
    PROVE  Hits(c, i) = {}
  <1> SUFFICES ASSUME NEW j \in Hits(c, i) PROVE FALSE
    OBVIOUS
  <1> DEFINE N == Len(Records(c))
  <1>1. N \in Nat /\ j \in 1 .. N
    BY RecordsFacts DEF Hits
  <1>2. j - 1 \in 0 .. N /\ 0 \in 0 .. j - 1
    BY <1>1
  <1>3. Extent(c, 0) \in Nat /\ Extent(c, j - 1) \in Nat /\ Extent(c, 0) <= Extent(c, j - 1)
    BY <1>2, OctetsPrefix
  <1>4. i \in Nat /\ i <= Extent(c, 0)
    BY <1>3
  <1>5. i > Extent(c, j - 1)
    BY <1>1, <1>4, HitFacts
  <1> QED BY <1>3, <1>4, <1>5

\* The octet at the i-th place of the aged message.
LEMMA AgedPlace ==
    ASSUME NEW c \in Content, NEW id \in Word, NEW ttl \in Int32,
           NEW i \in 1 .. Extent(c, Len(Records(c)))
    PROVE  OctetsTo(AgedContent(c, id, ttl), Len(Records(c)))[i] =
             IF Hits(c, i) = {} THEN OctetsTo(c, Len(Records(c)))[i]
             ELSE htonl(ttl)[i + HeaderSize - 1 - (FixedAt(c, CHOOSE k \in Hits(c, i) : TRUE) + 3)]
  <1> DEFINE e == AgedContent(c, id, ttl)
             N == Len(Records(c))
  <1>1. /\ e \in Content /\ e.host = c.host /\ e.type = c.type /\ e.class = c.class
        /\ Len(Records(e)) = N /\ N \in Nat
    BY AgedContentFacts, RecordsFacts
  <1>2. \A k \in 0 .. N : Extent(e, k) = Extent(c, k) /\ Extent(c, k) \in Nat
    BY AgedExtent, OctetsToIsSeq DEF Extent
  <1>3. i \in Nat
    BY <1>1, <1>2
  <1>4. ASSUME NEW k \in 0 .. N, i <= Extent(c, k)
        PROVE  OctetsTo(e, N)[i] = OctetsTo(e, k)[i] /\ OctetsTo(c, N)[i] = OctetsTo(c, k)[i]
    <2>1. i \in 1 .. Extent(c, k) /\ i \in 1 .. Extent(e, k) /\ N \in 0 .. N
      BY <1>1, <1>2, <1>3, <1>4
    <2>2. OctetsTo(c, N)[i] = OctetsTo(c, k)[i]
      BY <2>1, OctetsPrefix
    <2>3. N \in 0 .. Len(Records(e))
      BY <1>1, <2>1
    <2> HIDE DEF e, N
    <2>4. OctetsTo(e, N)[i] = OctetsTo(e, k)[i]
      BY <1>1, <2>1, <2>3, OctetsPrefix
    <2> QED BY <2>2, <2>4
  <1>5. CASE i \in 1 .. Extent(c, 0)
    <2>1. Hits(c, i) = {}
      BY <1>5, NoHitInQuestion
    <2>2. QuestionOctets(e) = QuestionOctets(c)
      BY <1>1 DEF QuestionOctets
    <2>3. OctetsTo(e, 0) = OctetsTo(c, 0)
      BY <2>2, OctetsToStep
    <2>4. 0 \in 0 .. N /\ i <= Extent(c, 0)
      BY <1>1, <1>2, <1>5
    <2> HIDE DEF e, N
    <2>5. OctetsTo(e, N)[i] = OctetsTo(c, N)[i]
      BY <1>4, <2>3, <2>4
    <2> QED BY <2>1, <2>5 DEF e, N
  <1>6. ASSUME NEW k \in 1 .. N, i > Extent(c, k - 1), i <= Extent(c, k)
        PROVE  OctetsTo(e, N)[i] =
                 IF Hits(c, i) = {} THEN OctetsTo(c, N)[i]
                 ELSE htonl(ttl)[i + HeaderSize - 1 - (FixedAt(c, CHOOSE j \in Hits(c, i) : TRUE) + 3)]
    <2> DEFINE x == Extent(c, k - 1)
               w == Len(Owner(Records(c)[k].form, c.host))
               q == i - x
               R == OctetsOf(c, k)
               E == OctetsOf(e, k)
    <2>1. /\ x \in Nat /\ w \in Nat /\ FixedAt(c, k) = HeaderSize + x + w
          /\ k \in Hits(c, i) <=> Records(c)[k].type # rr_type.opt /\ q \in w + 5 .. w + 8
      BY <1>3, HitFacts
    <2>2. /\ Extent(c, k) = x + Len(R) /\ k \in 0 .. N /\ Len(R) \in Nat
          /\ \A j \in 1 .. Len(R) : OctetsTo(c, k)[x + j] = R[j]
      BY OctetsToParts
    <2>3. /\ \A j \in 1 .. Len(E) : OctetsTo(e, k)[x + j] = E[j]
      <3>1. k \in 1 .. Len(Records(e)) /\ e \in Content /\ k - 1 \in 0 .. N
        BY <1>1
      <3>2. Extent(e, k - 1) = x
        BY <1>2, <3>1
      <3> HIDE DEF e, x
      <3>3. \A j \in 1 .. Len(OctetsOf(e, k)) :
               OctetsTo(e, k)[Extent(e, k - 1) + j] = OctetsOf(e, k)[j]
        BY <3>1, OctetsToParts, Zenon
      <3> QED BY <3>2, <3>3, Zenon
    <2>4. /\ Len(E) = Len(R)
          /\ \A j \in 1 .. Len(R) :
                E[j] = IF Records(c)[k].type # rr_type.opt /\ j \in w + 5 .. w + 8
                       THEN htonl(ttl)[j - w - 4] ELSE R[j]
      BY AgedParts
    <2> HIDE DEF x, w, R, E
    <2>5. q \in 1 .. Len(R) /\ x + q = i
      BY <1>3, <1>6, <2>1, <2>2 DEF x
    <2>6. OctetsTo(e, N)[i] = E[q] /\ OctetsTo(c, N)[i] = R[q]
      <3>1. OctetsTo(e, N)[i] = OctetsTo(e, k)[i] /\ OctetsTo(c, N)[i] = OctetsTo(c, k)[i]
        BY <1>4, <1>6, <2>2
      <3>2. OctetsTo(e, k)[x + q] = E[q] /\ OctetsTo(c, k)[x + q] = R[q]
        BY <2>2, <2>3, <2>4, <2>5
      <3> QED BY <2>5, <3>1, <3>2
    <2>7. \A j \in Hits(c, i) : j = k
      BY <1>3, <1>6, HitIsAlone DEF x
    <2>8. CASE k \in Hits(c, i)
      <3>1. (CHOOSE j \in Hits(c, i) : TRUE) = k
        BY <2>7, <2>8
      <3>2. E[q] = htonl(ttl)[q - w - 4]
        BY <2>1, <2>4, <2>5, <2>8
      <3>3. i + HeaderSize - 1 - (FixedAt(c, k) + 3) = q - w - 4
        BY <1>3, <2>1 DEF HeaderSize
      <3> HIDE DEF q
      <3> QED BY <2>6, <2>8, <3>1, <3>2, <3>3
    <2>9. CASE k \notin Hits(c, i)
      <3>1. Hits(c, i) = {}
        BY <2>7, <2>9
      <3>2. E[q] = R[q]
        BY <2>1, <2>4, <2>5, <2>9
      <3> QED BY <2>6, <3>1, <3>2
    <2> QED BY <2>8, <2>9
  <1> QED BY <1>5, <1>6, PlaceOf DEF e, N

\* WithTtl writes the octets of the aged content.
LEMMA AgedBody ==
    ASSUME NEW c \in Content, NEW id \in Word, NEW ttl \in Int32, NEW m,
           m.body = OctetsTo(c, Len(Records(c)))
    PROVE  WithTtl(m, Found(c, Len(Records(c))), ttl) = OctetsTo(AgedContent(c, id, ttl), Len(Records(c)))
  <1> DEFINE e == AgedContent(c, id, ttl)
             N == Len(Records(c))
             b == m.body
             f == Found(c, N)
             v == OctetsTo(e, N)
             X(i) == IF Hits(c, i) = {} THEN b[i]
                     ELSE htonl(ttl)[i + HeaderSize - 1 - (FixedAt(c, CHOOSE k \in Hits(c, i) : TRUE) + 3)]
  <1>1. N \in Nat /\ N \in 0 .. N /\ e \in Content /\ Len(Records(e)) = N
    BY RecordsFacts, AgedContentFacts
  <1>2. b \in Seq(Byte) /\ DOMAIN b = 1 .. Len(b) /\ Len(b) = Extent(c, N)
    <2>1. OctetsTo(c, N) \in Seq(Byte)
      BY <1>1, OctetsToIsSeq
    <2> QED BY <2>1 DEF Extent
  <1>3. v \in Seq(Byte) /\ Len(v) = Extent(c, N)
    <2>1. N \in 0 .. Len(Records(e)) /\ Extent(e, N) = Extent(c, N)
      BY <1>1, AgedExtent
    <2> HIDE DEF e, N
    <2>2. OctetsTo(e, N) \in Seq(Byte)
      BY <1>1, <2>1, OctetsToIsSeq
    <2> QED BY <2>1, <2>2 DEF Extent
  <1>4. \A i \in 1 .. Extent(c, N) : v[i] = X(i)
    BY AgedPlace
  <1>5. /\ DOMAIN f.at = 1 .. N /\ \A k \in 1 .. N : f.at[k] = FixedAt(c, k)
        /\ \A k \in 1 .. N : f.rrs[k].type = Records(c)[k].type
    <2>1. f.at = [k \in 1 .. N |-> FixedAt(c, k)] /\ f.rrs = [k \in 1 .. N |-> GotAt(c, k)]
      BY DEF Found
    <2>2. \A k \in 1 .. N : GotAt(c, k).type = Records(c)[k].type
      BY DEF GotAt, Got
    <2> HIDE DEF f, N
    <2> QED BY <2>1, <2>2
  <1> HIDE DEF f
  <1> DEFINE hit(i) == {k \in DOMAIN f.at : /\ f.rrs[k].type # rr_type.opt
                                            /\ i + HeaderSize - 1 \in f.at[k] + 4 .. f.at[k] + 7}
  <1>6. \A i : hit(i) = Hits(c, i)
    BY <1>5 DEF Hits
  <1>7. WithTtl(m, f, ttl) =
          [i \in DOMAIN b |->
             IF hit(i) = {} THEN b[i]
             ELSE htonl(ttl)[i + HeaderSize - 1 - (f.at[CHOOSE k \in hit(i) : TRUE] + 3)]]
    BY Zenon DEF WithTtl
  <1> HIDE DEF hit
  <1>8. \A i : Hits(c, i) # {} =>
          f.at[CHOOSE k \in Hits(c, i) : TRUE] = FixedAt(c, CHOOSE k \in Hits(c, i) : TRUE)
    <2>1. \A i : Hits(c, i) \subseteq 1 .. N
      BY DEF Hits
    <2>2. \A i : Hits(c, i) # {} => (CHOOSE k \in Hits(c, i) : TRUE) \in Hits(c, i)
      OBVIOUS
    <2> QED BY <1>5, <2>1, <2>2
  <1>9. WithTtl(m, f, ttl) = [i \in 1 .. Extent(c, N) |-> X(i)]
    <2>1. ASSUME NEW i
          PROVE  (IF hit(i) = {} THEN b[i]
                  ELSE htonl(ttl)[i + HeaderSize - 1 - (f.at[CHOOSE k \in hit(i) : TRUE] + 3)]) = X(i)
      <3>1. hit(i) = Hits(c, i)
        BY <1>6
      <3>2. CASE Hits(c, i) = {}
        BY <3>1, <3>2
      <3>3. CASE Hits(c, i) # {}
        <4> DEFINE k == CHOOSE j \in Hits(c, i) : TRUE
        <4>1. (CHOOSE j \in hit(i) : TRUE) = k
          BY <3>1, Zenon
        <4>2. f.at[k] = FixedAt(c, k)
          BY <1>8, <3>3
        <4>3. X(i) = htonl(ttl)[i + HeaderSize - 1 - (FixedAt(c, k) + 3)]
          BY <3>3
        <4>4. hit(i) # {}
          BY <3>1, <3>3
        <4> HIDE DEF k, X, b
        <4> QED BY <4>1, <4>2, <4>3, <4>4
      <3> QED BY <3>2, <3>3
    <2> HIDE DEF X, b
    <2> QED BY <1>2, <1>7, <2>1
  <1> HIDE DEF X
  <1>10. v = [i \in 1 .. Extent(c, N) |-> X(i)]
    <2> HIDE DEF v
    <2>1. DOMAIN v = 1 .. Extent(c, N) /\ v = [i \in DOMAIN v |-> v[i]]
      BY <1>3
    <2> QED BY <1>4, <2>1
  <1> QED BY <1>9, <1>10 DEF f, v, e, N

-----------------------------------------------------------------------------
(***************************************************************************)
(* Messages: the TXT records.                                              *)
(***************************************************************************)

TxtOn(sofar, r) == IF IsTxt(r) THEN Append(sofar, r) ELSE sofar

IsTxtRun(f, rrs, n) ==
    f = [k \in 0 .. n |-> IF k = 0 THEN <<>> ELSE TxtOn(f[k - 1], rrs[k])]

\* The recursive function behind TxtRecords exists.
LEMMA TxtRunExists ==
    ASSUME NEW rrs, NEW N \in Nat
    PROVE  \E f : IsTxtRun(f, rrs, N)
  <1> DEFINE S == {n \in Nat : ~ \E f : IsTxtRun(f, rrs, n)}
  <1>1. SUFFICES ASSUME S # {} PROVE FALSE
    OBVIOUS
  <1>2. PICK n \in S : \A k \in S : n <= k
    <2> S \subseteq Nat
      OBVIOUS
    <2> HIDE DEF S
    <2> QED BY <1>1, LeastNumber
  <1>3. n \in Nat /\ ~ \E f : IsTxtRun(f, rrs, n)
    BY <1>2
  <1>4. CASE n = 0
    <2> DEFINE g == [k \in 0 .. 0 |-> <<>>]
    <2>1. g = [k \in 0 .. 0 |-> IF k = 0 THEN <<>> ELSE TxtOn(g[k - 1], rrs[k])]
      OBVIOUS
    <2> HIDE DEF g
    <2> QED BY <1>3, <1>4, <2>1 DEF IsTxtRun
  <1>5. CASE n # 0
    <2>1. n - 1 \in Nat /\ n - 1 \notin S
      BY <1>2, <1>3, <1>5
    <2>2. PICK f : IsTxtRun(f, rrs, n - 1)
      BY <2>1
    <2> DEFINE g == [k \in 0 .. n |-> IF k = n THEN TxtOn(f[n - 1], rrs[n]) ELSE f[k]]
    <2>3. \A k \in 0 .. n - 1 : f[k] = IF k = 0 THEN <<>> ELSE TxtOn(f[k - 1], rrs[k])
      BY <2>2 DEF IsTxtRun
    <2>4. g = [k \in 0 .. n |-> g[k]] /\ g[n] = TxtOn(f[n - 1], rrs[n])
          /\ \A k \in 0 .. n - 1 : g[k] = f[k]
      <3>1. n \in 0 .. n /\ \A k \in 0 .. n - 1 : k \in 0 .. n /\ k # n
        BY <1>3
      <3> QED BY <3>1
    <2> HIDE DEF g
    <2>5. ASSUME NEW k \in 0 .. n
          PROVE  g[k] = IF k = 0 THEN <<>> ELSE TxtOn(g[k - 1], rrs[k])
      <3>1. CASE k = n
        <4>1. n - 1 \in 0 .. n - 1
          BY <2>1
        <4> QED BY <1>5, <2>4, <3>1, <4>1
      <3>2. CASE k # n
        <4>1. k \in 0 .. n - 1 /\ (k # 0 => k - 1 \in 0 .. n - 1)
          BY <1>3, <3>2
        <4> QED BY <2>3, <2>4, <4>1
      <3> QED BY <3>1, <3>2
    <2>6. IsTxtRun(g, rrs, n)
      BY <2>4, <2>5 DEF IsTxtRun
    <2> QED BY <1>3, <2>6
  <1> QED BY <1>4, <1>5

\* The TXT records, record by record.
LEMMA TxtRun ==
    ASSUME NEW rrs, Len(rrs) \in Nat
    PROVE  \E f : /\ TxtRecords(rrs) = f[Len(rrs)] /\ f[0] = <<>>
                  /\ \A k \in 1 .. Len(rrs) : f[k] = TxtOn(f[k - 1], rrs[k])
  <1> DEFINE n == Len(rrs)
             g == CHOOSE f : IsTxtRun(f, rrs, n)
  <1>1. IsTxtRun(g, rrs, n)
    BY TxtRunExists
  <1>2. TxtRecords(rrs) = g[n]
    BY Zenon DEF TxtRecords, IsTxtRun, TxtOn
  <1> HIDE DEF g
  <1>3. \A k \in 0 .. n : g[k] = IF k = 0 THEN <<>> ELSE TxtOn(g[k - 1], rrs[k])
    BY <1>1 DEF IsTxtRun
  <1>4. 0 \in 0 .. n /\ \A k \in 1 .. n : k \in 0 .. n /\ k # 0
    OBVIOUS
  <1>5. g[0] = <<>> /\ \A k \in 1 .. n : g[k] = TxtOn(g[k - 1], rrs[k])
    BY <1>3, <1>4
  <1> QED BY <1>2, <1>5

\* Records that agree on what is a text, and on the texts, have the same texts.
SameTxt(A, S, B, T) ==
    /\ A \in Seq(S) /\ B \in Seq(T) /\ Len(A) = Len(B)
    /\ \A i \in 1 .. Len(B) : A[i].data = B[i].data /\ IsTxt(B[i])

\* Two lists of texts grow together.
LEMMA SameTxtOn ==
    ASSUME NEW S, NEW T, NEW A, NEW B, SameTxt(A, S, B, T), NEW a \in S, NEW b \in T,
           IsTxt(a) <=> IsTxt(b), a.data = b.data
    PROVE  SameTxt(TxtOn(A, a), S, TxtOn(B, b), T)
  <1>1. /\ A \in Seq(S) /\ B \in Seq(T) /\ Len(A) = Len(B) /\ Len(B) \in Nat
        /\ \A i \in 1 .. Len(B) : A[i].data = B[i].data /\ IsTxt(B[i])
    BY DEF SameTxt
  <1>2. CASE ~IsTxt(b)
    BY <1>2 DEF TxtOn
  <1>3. CASE IsTxt(b)
    <2> DEFINE C == Append(A, a)
               D == Append(B, b)
               n == Len(B)
    <2>1. TxtOn(A, a) = C /\ TxtOn(B, b) = D
      BY <1>3 DEF TxtOn
    <2>2. C \in Seq(S) /\ Len(C) = n + 1 /\ C[n + 1] = a /\ \A i \in 1 .. n : C[i] = A[i]
      BY <1>1
    <2>3. D \in Seq(T) /\ Len(D) = n + 1 /\ D[n + 1] = b /\ \A i \in 1 .. n : D[i] = B[i]
      BY <1>1
    <2> HIDE DEF C, D
    <2>4. ASSUME NEW i \in 1 .. n + 1 PROVE C[i].data = D[i].data /\ IsTxt(D[i])
      <3>1. i = n + 1 \/ i \in 1 .. n
        BY <1>1
      <3>2. CASE i = n + 1
        BY <1>3, <2>2, <2>3, <3>2
      <3>3. CASE i \in 1 .. n
        BY <1>1, <2>2, <2>3, <3>3
      <3> QED BY <3>1, <3>2, <3>3
    <2> HIDE DEF n
    <2>5. SameTxt(C, S, D, T)
      BY <2>2, <2>3, <2>4 DEF SameTxt
    <2> QED BY <2>1, <2>5
  <1> QED BY <1>2, <1>3

\* Records of the same types and data hold the same texts.
LEMMA TxtSame ==
    ASSUME NEW S, NEW T, NEW a \in Seq(S), NEW b \in Seq(T), Len(a) = Len(b),
           \A i \in 1 .. Len(b) : (IsTxt(a[i]) <=> IsTxt(b[i])) /\ a[i].data = b[i].data
    PROVE  SameTxt(TxtRecords(a), S, TxtRecords(b), T)
  <1> DEFINE n == Len(b)
  <1>1. n \in Nat /\ Len(a) \in Nat
    OBVIOUS
  <1>2. PICK f : /\ TxtRecords(a) = f[Len(a)] /\ f[0] = <<>>
                 /\ \A k \in 1 .. Len(a) : f[k] = TxtOn(f[k - 1], a[k])
    BY <1>1, TxtRun
  <1>3. PICK g : /\ TxtRecords(b) = g[Len(b)] /\ g[0] = <<>>
                 /\ \A k \in 1 .. Len(b) : g[k] = TxtOn(g[k - 1], b[k])
    BY <1>1, TxtRun
  <1> DEFINE X == {k \in Nat : k <= n /\ ~SameTxt(f[k], S, g[k], T)}
  <1>4. SameTxt(<<>>, S, <<>>, T)
    BY DEF SameTxt
  <1>5. \A k \in 1 .. n : a[k] \in S /\ b[k] \in T
    OBVIOUS
  <1> HIDE DEF n
  <1>6. ASSUME X # {} PROVE FALSE
    <2>1. PICK k \in X : \A j \in X : k <= j
      <3> X \subseteq Nat
        OBVIOUS
      <3> HIDE DEF X
      <3> QED BY <1>6, LeastNumber
    <2>2. k \in Nat /\ k <= n /\ ~SameTxt(f[k], S, g[k], T) /\ k # 0
      BY <1>2, <1>3, <1>4, <2>1
    <2>3. k \in 1 .. n /\ k - 1 \in Nat /\ k - 1 <= n /\ k - 1 \notin X
      BY <1>1, <2>1, <2>2
    <2>4. SameTxt(f[k - 1], S, g[k - 1], T)
      BY <2>3
    <2>5. /\ f[k] = TxtOn(f[k - 1], a[k]) /\ g[k] = TxtOn(g[k - 1], b[k])
          /\ (IsTxt(a[k]) <=> IsTxt(b[k])) /\ a[k].data = b[k].data
      BY <1>2, <1>3, <2>3 DEF n
    <2>6. SameTxt(f[k], S, g[k], T)
      BY <1>5, <2>3, <2>4, <2>5, SameTxtOn
    <2> QED BY <2>2, <2>6
  <1>7. SameTxt(f[n], S, g[n], T)
    BY <1>1, <1>6
  <1> QED BY <1>2, <1>3, <1>7 DEF n

\* A text is put back behind its length.
LEMMA TextBack ==
    ASSUME NEW d \in Seq(Byte), d # <<>>, d[1] = Len(d) - 1
    PROVE  <<Len(Tail(d))>> \o Tail(d) = d
  <1> DEFINE t == Tail(d)
             n == Len(d)
             u == <<n - 1>>
             v == u \o t
  <1>1. n \in Nat \ {0} /\ d[1] \in Byte /\ n - 1 \in Byte
    <2>1. n \in Nat \ {0} /\ d[1] \in Byte
      OBVIOUS
    <2> QED BY <2>1
  <1>2. t \in Seq(Byte) /\ Len(t) = n - 1 /\ \A i \in 1 .. n - 1 : t[i] = d[i + 1]
    OBVIOUS
  <1>3. u \in Seq(Byte) /\ Len(u) = 1 /\ u[1] = n - 1
    <2>1. ASSUME NEW x \in Byte PROVE <<x>> \in Seq(Byte)
      OBVIOUS
    <2>2. Len(u) = 1 /\ u[1] = n - 1
      OBVIOUS
    <2> QED BY <1>1, <2>1, <2>2, Zenon
  <1> HIDE DEF t, u
  <1>4. /\ v \in Seq(Byte) /\ Len(v) = Len(u) + Len(t)
        /\ \A i \in 1 .. Len(u) : v[i] = u[i]
        /\ \A i \in 1 .. Len(t) : v[Len(u) + i] = t[i]
    <2>1. u \in Seq(Byte) /\ t \in Seq(Byte)
      BY <1>2, <1>3
    <2> QED BY <2>1, ConcatParts
  <1> HIDE DEF v
  <1>5. Len(v) = n
    BY <1>1, <1>2, <1>3, <1>4
  <1>6. ASSUME NEW i \in 1 .. n PROVE v[i] = d[i]
    <2>1. CASE i = 1
      BY <1>3, <1>4, <2>1
    <2>2. CASE i # 1
      <3>1. i - 1 \in 1 .. n - 1 /\ 1 + (i - 1) = i /\ (i - 1) + 1 = i
        BY <1>1, <2>2
      <3>2. v[1 + (i - 1)] = t[i - 1] /\ t[i - 1] = d[(i - 1) + 1]
        BY <1>2, <1>3, <1>4, <3>1
      <3> QED BY <3>1, <3>2
    <2> QED BY <2>1, <2>2
  <1>7. v = d
    BY <1>4, <1>5, <1>6, SeqEqual
  <1> QED BY <1>2, <1>7 DEF v, u, t

\* get_txt_answer takes the texts of c out of a message that says c.
LEMMA TextsRead ==
    ASSUME NEW m, NEW c \in Content, m.head.ancount = Len(c.an), Walk(m, Len(c.an)) = Found(c, Len(c.an))
    PROVE  SameTexts(get_txt_answer(m), TxtRecords(c.an))
  <1> DEFINE n == Len(c.an)
             b == c.an
             a == [i \in 1 .. n |-> GotAt(c, i)]
             S == {GotAt(c, i) : i \in 1 .. n}
             A == TxtRecords(a)
             B == TxtRecords(b)
             txt == [i \in DOMAIN A |-> A[i].data]
             cut == [i \in DOMAIN txt |-> IF txt[i] = <<>> THEN <<>> ELSE Tail(txt[i])]
  <1>1. n \in Nat /\ b \in Seq(Record) /\ \A i \in 1 .. n : Records(c)[i] = b[i]
    BY RecordsFacts
  <1>2. a \in Seq(S) /\ Len(a) = n /\ \A i \in 1 .. n : a[i] = GotAt(c, i)
    <2>1. a \in [1 .. n -> S] /\ \A i \in 1 .. n : a[i] = GotAt(c, i)
      OBVIOUS
    <2> HIDE DEF a, S, n
    <2> QED BY <1>1, <2>1
  <1>3. ASSUME NEW i \in 1 .. n PROVE (IsTxt(a[i]) <=> IsTxt(b[i])) /\ a[i].data = b[i].data
    <2>1. a[i].type = b[i].type /\ a[i].class = b[i].class /\ a[i].data = b[i].data
      BY <1>1, <1>2 DEF GotAt, Got
    <2> HIDE DEF a, b
    <2> QED BY <2>1 DEF IsTxt
  <1>4. (Found(c, n)).ok = TRUE /\ (Found(c, n)).rrs = a
    BY DEF Found
  <1> HIDE DEF a, S
  <1>5. SameTxt(A, S, B, Record)
    <2> HIDE DEF b
    <2>1. Len(b) = n
      BY DEF b
    <2> HIDE DEF n
    <2> QED BY <1>1, <1>2, <1>3, <2>1, TxtSame
  <1> HIDE DEF A, B
  <1>6. /\ A \in Seq(S) /\ B \in Seq(Record) /\ Len(A) = Len(B) /\ Len(B) \in Nat
        /\ DOMAIN A = 1 .. Len(B) /\ DOMAIN B = 1 .. Len(B)
        /\ \A i \in 1 .. Len(B) : A[i].data = B[i].data /\ IsTxt(B[i])
    BY <1>5 DEF SameTxt
  <1>7. find_txt_answers(m) = [ok |-> TRUE, txt |-> txt]
    BY <1>4 DEF find_txt_answers, TxtOf, TxtData, A
  <1>8. get_txt_answer(m) = [ok |-> TRUE, txt |-> cut]
    <2> DEFINE x == find_txt_answers(m)
    <2>1. x.ok = TRUE /\ x = [ok |-> TRUE, txt |-> txt]
      BY <1>7
    <2>2. WithoutLength(x) = [x EXCEPT !.txt = [i \in DOMAIN @ |-> IF @[i] = <<>> THEN <<>> ELSE Tail(@[i])]]
      BY <2>1 DEF WithoutLength
    <2>3. x.txt = txt
      BY <2>1
    <2>4. WithoutLength(x) = [x EXCEPT !.txt = cut]
      <3> HIDE DEF x
      <3> QED BY <2>2, <2>3
    <2> HIDE DEF x, cut
    <2>5. ASSUME NEW y, NEW z, y = [ok |-> z, txt |-> txt]
          PROVE  [y EXCEPT !.txt = cut] = [ok |-> z, txt |-> cut]
      <3> HIDE DEF txt
      <3> QED BY <2>5
    <2>6. [x EXCEPT !.txt = cut] = [ok |-> TRUE, txt |-> cut]
      BY <2>1, <2>5, Zenon
    <2> QED BY <2>4, <2>6 DEF get_txt_answer, x
  <1>9. ASSUME NEW i \in 1 .. Len(B)
        PROVE  <<Len(cut[i])>> \o cut[i] = B[i].data
    <2> DEFINE d == B[i].data
    <2>1. B[i] \in Record /\ IsTxt(B[i])
      BY <1>6
    <2>2. d \in Seq(Byte) /\ d # <<>> /\ d[1] = Len(d) - 1
      BY <2>1 DEF Record
    <2>3. txt[i] = d /\ cut[i] = Tail(d)
      <3>1. txt[i] = d /\ i \in DOMAIN txt
        BY <1>6
      <3> HIDE DEF txt, d
      <3> QED BY <2>2, <3>1
    <2> HIDE DEF d, cut
    <2>4. <<Len(Tail(d))>> \o Tail(d) = d
      BY <2>2, TextBack
    <2> QED BY <2>3, <2>4 DEF d
  <1>10. Len(cut) = Len(B)
    <2>1. DOMAIN cut = 1 .. Len(B) /\ cut = [i \in 1 .. Len(B) |-> cut[i]]
      BY <1>6
    <2> HIDE DEF cut
    <2> DEFINE U == {cut[i] : i \in 1 .. Len(B)}
               k == Len(B)
    <2>2. cut \in [1 .. k -> U] /\ k \in Nat
      BY <1>6, <2>1
    <2> HIDE DEF U, k
    <2>3. Len(cut) = k
      BY <2>2
    <2> QED BY <2>3 DEF k
  <1> HIDE DEF cut
  <1>11. SameTexts(get_txt_answer(m), B)
    BY <1>6, <1>8, <1>9, <1>10 DEF SameTexts
  <1> QED BY <1>11 DEF B

-----------------------------------------------------------------------------
(***************************************************************************)
(* Messages: the invariant.                                                *)
(***************************************************************************)

\* What the octets up to a record, and nothing else, are in a message.
LEMMA BodyFacts ==
    ASSUME NEW c \in Content, NEW n \in 0 .. Len(Records(c)), NEW m, m.body = OctetsTo(c, n)
    PROVE  /\ IsOctets(m) /\ Stand(m, HeaderSize, OctetsTo(c, n)) /\ Size(m) = HeaderSize + Extent(c, n)
           /\ Extent(c, n) \in Nat /\ Extent(c, n) > 0 /\ m # None
           /\ get_rr_question(m, HeaderSize) =
                IF Readable(c.host)
                THEN [ok |-> TRUE, off |-> HeaderSize + Len(QuestionOctets(c)), owner |-> FullName(c.host),
                      type |-> c.type, class |-> c.class]
                ELSE Throws
           /\ Walk(m, n) = IF Readable(c.host) THEN Found(c, n) ELSE Throws
  <1>1. OctetsTo(c, n) \in Seq(Byte)
    BY OctetsToIsSeq
  <1>2. IsOctets(m)
    BY <1>1 DEF IsOctets
  <1>3. Size(m) = HeaderSize + Extent(c, n) /\ Extent(c, n) \in Nat
    BY <1>1 DEF Size, Extent
  <1>4. Stand(m, HeaderSize, OctetsTo(c, n))
    <2>1. HeaderSize \in Nat /\ HeaderSize >= HeaderSize /\ HeaderSize + Len(OctetsTo(c, n)) <= Size(m)
      BY <1>3 DEF HeaderSize, Extent
    <2>2. ASSUME NEW i \in 1 .. Len(OctetsTo(c, n)) PROVE At(m, HeaderSize + i - 1) = OctetsTo(c, n)[i]
      <3>1. (HeaderSize + i - 1) - HeaderSize + 1 = i
        BY <1>1 DEF HeaderSize
      <3> QED BY <3>1 DEF At
    <2> QED BY <2>1, <2>2 DEF Stand
  <1>5. Extent(c, n) > 0
    <2>1. n \in Nat /\ 0 \in 0 .. n
      BY RecordsFacts
    <2>2. Extent(c, 0) <= Extent(c, n) /\ Extent(c, 0) \in Nat
      BY <2>1, OctetsPrefix
    <2> DEFINE a == NameOctets(c.host)
    <2>3. Extent(c, 0) = Len(a) + 4 /\ Len(a) \in Nat
      BY OctetsToStep, QuestionFacts DEF Extent
    <2> HIDE DEF a
    <2> QED BY <1>3, <2>2, <2>3
  <1>6. m # None
    <2>1. m.body # <<>>
      BY <1>1, <1>5 DEF Extent
    <2> QED BY <2>1 DEF None
  <1>7. Stand(m, HeaderSize, QuestionOctets(c))
    BY <1>2, <1>4, QuestionStands
  <1> QED BY <1>2, <1>3, <1>4, <1>5, <1>6, <1>7, QuestionReads, WalkReads

\* What stands in front of a record is what its message began with.
LEMMA PrefixStands ==
    ASSUME NEW m, IsOctets(m), NEW c \in Content, NEW n \in 0 .. Len(Records(c)),
           Stand(m, HeaderSize, OctetsTo(c, n)), NEW k \in 0 .. n
    PROVE  Stand(m, HeaderSize, OctetsTo(c, k))
  <1>1. n \in Nat /\ (k = 0 \/ k \in 1 .. n)
    BY RecordsFacts
  <1>2. CASE k = 0
    BY <1>2, QuestionStands, OctetsToStep
  <1>3. CASE k \in 1 .. n
    BY <1>3, RecordStandsAt
  <1> QED BY <1>1, <1>2, <1>3

\* The message says what is meant; one whose answer was written over other
\* records has lost those, and its header still counts them.
MessageInv ==
    /\ content \in Content /\ clobbered \in BOOLEAN
    /\ msg = None => content = NoContent /\ ~clobbered
    /\ msg # None /\ ~clobbered => msg = Encoded(content)
    /\ msg # None /\ clobbered =>
          /\ msg.head = Encoded(content).head
          /\ msg.body = OctetsTo(content, Len(content.an))
          /\ content.ns \o content.ar # <<>> /\ content.qr

\* What was answered from the hosts file is in the last answer, for good.
HostedInv ==
    hosted # NoAddress =>
        /\ hosted \in Addresses /\ msg # None /\ content.qr /\ content.an # <<>>
        /\ content.an[Len(content.an)].type = rr_type.a
        /\ content.an[Len(content.an)].data = AddressOctets(hosted)

\* The fields of an encoded message.
LEMMA EncodedFacts ==
    ASSUME NEW c
    PROVE  /\ Encoded(c).body = OctetsTo(c, Len(Records(c)))
           /\ Encoded(c).head.id = c.id /\ Encoded(c).head.qr = c.qr /\ Encoded(c).head.tc = c.tc
           /\ Encoded(c).head.rcode = c.rcode /\ Encoded(c).head.qdcount = 1
           /\ Encoded(c).head.ancount = Len(c.an) /\ Encoded(c).head.nscount = Len(c.ns)
           /\ Encoded(c).head.arcount = Len(c.ar)
  BY DEF Encoded

\* What every message is, clobbered or not.
LEMMA MessageShape ==
    ASSUME MessageInv, msg # None
    PROVE  /\ content \in Content /\ msg.head = Encoded(content).head
           /\ AllRecords(msg) = Len(Records(content)) /\ AllRecords(msg) \in Nat
           /\ \E n \in 0 .. Len(Records(content)) : msg.body = OctetsTo(content, n)
           /\ ~clobbered => msg.body = OctetsTo(content, Len(Records(content)))
           /\ clobbered => /\ msg.body = OctetsTo(content, Len(content.an))
                           /\ Len(content.an) < Len(Records(content))
           /\ Len(content.an) \in 0 .. Len(Records(content))
           /\ Len(Records(content)) \in 0 .. Len(Records(content))
  <1> DEFINE c == content
             N == Len(Records(c))
             A == Len(c.an)
             B == Len(c.ns)
             D == Len(c.ar)
  <1>1. c \in Content /\ clobbered \in BOOLEAN
    BY DEF MessageInv
  <1>2. N \in Nat /\ N = A + B + D /\ A \in Nat /\ B \in Nat /\ D \in Nat
    BY <1>1, RecordsFacts
  <1>3. msg.head = Encoded(c).head
    BY <1>1 DEF MessageInv
  <1>4. AllRecords(msg) = A + B + D
    BY <1>3, EncodedFacts DEF AllRecords
  <1>5. ~clobbered => msg.body = OctetsTo(c, N)
    BY EncodedFacts DEF MessageInv
  <1>6. clobbered => msg.body = OctetsTo(c, A) /\ A < N
    <2> SUFFICES ASSUME clobbered PROVE msg.body = OctetsTo(c, A) /\ A < N
      OBVIOUS
    <2>1. msg.body = OctetsTo(c, A) /\ c.ns \o c.ar # <<>>
      BY DEF MessageInv
    <2>2. c.ns \in Seq(Record) /\ c.ar \in Seq(Record)
      BY <1>1, RecordsFacts
    <2>3. B + D # 0
      <3> SUFFICES ASSUME B + D = 0 PROVE FALSE
        OBVIOUS
      <3>1. B = 0 /\ D = 0
        <4> HIDE DEF B, D
        <4> QED BY <1>2
      <3>2. c.ns = <<>> /\ c.ar = <<>>
        <4>1. \A s \in Seq(Record) : Len(s) = 0 => s = <<>>
          OBVIOUS
        <4> QED BY <2>2, <3>1, <4>1
      <3> QED BY <2>1, <3>2
    <2>4. A < N
      <3> HIDE DEF A, B, D, N
      <3> QED BY <1>2, <2>3
    <2> QED BY <2>1, <2>4
  <1>7. A \in 0 .. N /\ N \in 0 .. N
    <2> HIDE DEF A, B, D, N
    <2> QED BY <1>2
  <1> HIDE DEF A, B, D, N
  <1>8. \E n \in 0 .. N : msg.body = OctetsTo(c, n)
    BY <1>1, <1>5, <1>6, <1>7
  <1> QED BY <1>1, <1>2, <1>3, <1>4, <1>5, <1>6, <1>7, <1>8 DEF A, N

\* What every message reads as: the question and the walk over the answers.
LEMMA MessageReads ==
    ASSUME MessageInv, msg # None
    PROVE  /\ IsOctets(msg) /\ content \in Content
           /\ get_rr_question(msg, HeaderSize) =
                IF Readable(content.host)
                THEN [ok |-> TRUE, off |-> HeaderSize + Len(QuestionOctets(content)),
                      owner |-> FullName(content.host), type |-> content.type, class |-> content.class]
                ELSE Throws
           /\ get_question(msg) = get_rr_question(msg, HeaderSize)
           /\ Walk(msg, Len(content.an)) = IF Readable(content.host) THEN Found(content, Len(content.an)) ELSE Throws
           /\ Stand(msg, HeaderSize, OctetsTo(content, Len(content.an)))
           /\ ~clobbered =>
                /\ Walk(msg, AllRecords(msg)) =
                     IF Readable(content.host) THEN Found(content, Len(Records(content))) ELSE Throws
                /\ Size(msg) = HeaderSize + Extent(content, Len(Records(content)))
           /\ clobbered => Size(msg) = HeaderSize + Extent(content, Len(content.an))
  <1> DEFINE c == content
             N == Len(Records(c))
             A == Len(c.an)
  <1>1. /\ c \in Content /\ msg.head = Encoded(c).head /\ AllRecords(msg) = N /\ N \in Nat
        /\ ~clobbered => msg.body = OctetsTo(c, N)
        /\ clobbered => msg.body = OctetsTo(c, A)
        /\ A \in 0 .. N /\ N \in 0 .. N
    BY MessageShape
  <1>2. PICK n \in 0 .. N : msg.body = OctetsTo(c, n) /\ A \in 0 .. n
    <2>1. CASE clobbered
      BY <1>1, <2>1
    <2>2. CASE ~clobbered
      BY <1>1, <2>2
    <2> QED BY <2>1, <2>2
  <1>3. /\ IsOctets(msg) /\ Stand(msg, HeaderSize, OctetsTo(c, n))
        /\ get_rr_question(msg, HeaderSize) =
                IF Readable(c.host)
                THEN [ok |-> TRUE, off |-> HeaderSize + Len(QuestionOctets(c)),
                      owner |-> FullName(c.host), type |-> c.type, class |-> c.class]
                ELSE Throws
    BY <1>1, <1>2, BodyFacts
  <1>4. get_question(msg) = get_rr_question(msg, HeaderSize)
    BY <1>1, EncodedFacts DEF get_question
  <1>5. Stand(msg, HeaderSize, OctetsTo(c, A))
    BY <1>1, <1>2, <1>3, PrefixStands
  <1>6. Walk(msg, A) = IF Readable(c.host) THEN Found(c, A) ELSE Throws
    BY <1>1, <1>3, <1>5, WalkReads
  <1>7. ~clobbered => /\ Walk(msg, AllRecords(msg)) = IF Readable(c.host) THEN Found(c, N) ELSE Throws
                      /\ Size(msg) = HeaderSize + Extent(c, N)
    BY <1>1, BodyFacts
  <1>8. clobbered => Size(msg) = HeaderSize + Extent(c, A)
    BY <1>1, BodyFacts
  <1> QED BY <1>1, <1>3, <1>4, <1>5, <1>6, <1>7, <1>8

\* The records that a walk finds, field by field.
LEMMA FoundFacts ==
    ASSUME NEW c, NEW n \in Nat
    PROVE  /\ Found(c, n).ok /\ Found(c, n).off = HeaderSize + Extent(c, n)
           /\ DOMAIN Found(c, n).rrs = 1 .. n /\ Len(Found(c, n).rrs) = n
           /\ \A i \in 1 .. n :
                /\ Found(c, n).rrs[i].type = Records(c)[i].type
                /\ Found(c, n).rrs[i].class = Records(c)[i].class
                /\ Found(c, n).rrs[i].ttl = Records(c)[i].ttl
                /\ Found(c, n).rrs[i].data = Records(c)[i].data
                /\ Found(c, n).rrs[i].owner = GotOwner(Records(c)[i], c.host)
  <1> DEFINE R == Found(c, n).rrs
  <1>1. /\ Found(c, n).ok /\ Found(c, n).off = HeaderSize + Extent(c, n)
        /\ R = [i \in 1 .. n |-> GotAt(c, i)]
    BY DEF Found
  <1>2. DOMAIN R = 1 .. n /\ \A i \in 1 .. n : R[i] = GotAt(c, i)
    BY <1>1
  <1>3. Len(R) = n
    <2> HIDE DEF R
    <2>1. R \in [1 .. n -> {GotAt(c, i) : i \in 1 .. n}]
      BY <1>1
    <2> QED BY <2>1
  <1>4. ASSUME NEW i \in 1 .. n
        PROVE  /\ R[i].type = Records(c)[i].type /\ R[i].class = Records(c)[i].class
               /\ R[i].ttl = Records(c)[i].ttl /\ R[i].data = Records(c)[i].data
               /\ R[i].owner = GotOwner(Records(c)[i], c.host)
    <2> DEFINE x == R[i]
               r == Records(c)[i]
               z == HeaderSize + Extent(c, i - 1) + Len(RecordOctets(c.host, r))
               w == GotOwner(r, c.host)
    <2>1. x = [ok |-> TRUE, off |-> z, owner |-> w, type |-> r.type, class |-> r.class,
               ttl |-> r.ttl, data |-> r.data]
      BY <1>2 DEF GotAt, Got
    <2> HIDE DEF x, z, w, r
    <2>2. x.type = r.type /\ x.class = r.class /\ x.ttl = r.ttl /\ x.data = r.data /\ x.owner = w
      BY <2>1
    <2> QED BY <2>2 DEF x, r, w
  <1> HIDE DEF R
  <1> QED BY <1>1, <1>2, <1>3, <1>4 DEF R

\* A message whose octets are those of its content reads back.
LEMMA InvReadsBack == MessageInv /\ HostedInv => ReadsBack
  <1> SUFFICES ASSUME MessageInv, HostedInv PROVE ReadsBack
    OBVIOUS
  <1> DEFINE c == content
             N == Len(Records(c))
             w == Walk(msg, AllRecords(msg))
             q == get_question(msg)
             V == [ok |-> TRUE, off |-> HeaderSize + Len(QuestionOctets(c)),
                   owner |-> FullName(c.host), type |-> c.type, class |-> c.class]
  <1>1. ASSUME msg # None PROVE q = IF Readable(c.host) THEN V ELSE Throws
    BY <1>1, MessageReads
  <1>2. V.ok = TRUE /\ Throws.ok = FALSE /\ Readable(c.host) \in BOOLEAN
    BY DEF Throws, Readable
  <1>3. ASSUME msg # None PROVE q.ok = Readable(c.host)
    BY <1>1, <1>2, <1>3
  <1>4. ASSUME Intact
        PROVE  /\ QuestionSays(q, c) /\ RecordsSay(w, c) /\ msg.head.id = c.id
               /\ SameTexts(get_txt_answer(msg), TxtRecords(c.an))
               /\ hosted # NoAddress => Lists(Walk(msg, msg.head.ancount), hosted)
    <2>1. msg # None /\ ~clobbered /\ Readable(c.host)
      BY <1>4 DEF Intact, Whole
    <2>2. QuestionSays(q, c)
      BY <1>1, <2>1 DEF QuestionSays
    <2>3. /\ c \in Content /\ msg.head = Encoded(c).head /\ N \in Nat
      BY <2>1, MessageShape
    <2>4. w = Found(c, N) /\ Size(msg) = HeaderSize + Extent(c, N) /\ Walk(msg, Len(c.an)) = Found(c, Len(c.an))
      BY <2>1, MessageReads
    <2>5. RecordsSay(w, c)
      <3>1. w.ok /\ w.off = Size(msg) /\ Len(w.rrs) = N /\ DOMAIN w.rrs = 1 .. N
        BY <2>3, <2>4, FoundFacts
      <3>2. ASSUME NEW i \in 1 .. N PROVE RecordSays(w.rrs[i], Records(c)[i], c.host)
        BY <2>3, <2>4, FoundFacts DEF RecordSays, GotOwner
      <3> HIDE DEF w
      <3> QED BY <3>1, <3>2 DEF RecordsSay
    <2>6. msg.head.id = c.id /\ msg.head.ancount = Len(c.an)
      BY <2>3, EncodedFacts
    <2>7. SameTexts(get_txt_answer(msg), TxtRecords(c.an))
      BY <2>3, <2>4, <2>6, TextsRead
    <2>8. ASSUME hosted # NoAddress PROVE Lists(Walk(msg, msg.head.ancount), hosted)
      <3> DEFINE a == Len(c.an)
                 f == Found(c, a)
      <3>1. /\ hosted \in Addresses /\ c.an # <<>> /\ c.an[a].type = rr_type.a
            /\ c.an[a].data = AddressOctets(hosted)
        BY <2>8 DEF HostedInv
      <3>2. hosted.inet = "ipv4" /\ AddressOctets(hosted) = hosted.octets
        BY <1>4, <3>1, MessageAssumption DEF Intact, AddressOctets
      <3>3. c.an \in Seq(Record) /\ a \in Nat /\ \A i \in 1 .. a : Records(c)[i] = c.an[i]
        BY <2>3, RecordsFacts
      <3>4. a \in 1 .. a /\ a # 0
        BY <3>1, <3>3
      <3>5. /\ f.ok /\ DOMAIN f.rrs = 1 .. a /\ Len(f.rrs) = a
            /\ f.rrs[a].type = c.an[a].type /\ f.rrs[a].data = c.an[a].data
        BY <3>3, <3>4, FoundFacts
      <3>6. Walk(msg, msg.head.ancount) = f
        BY <2>4, <2>6
      <3> HIDE DEF f, a
      <3>7. f.rrs # <<>>
        BY <3>4, <3>5
      <3> QED BY <3>1, <3>2, <3>5, <3>6, <3>7 DEF Lists
    <2> QED BY <2>2, <2>5, <2>6, <2>7, <2>8
  <1> QED BY <1>3, <1>4 DEF ReadsBack

\* The least of the lifetimes, when there are any.
LEMMA LeastLifetime ==
    ASSUME NEW T, T \subseteq Int32
    PROVE  LET U == {IntMax} \cup T
               t == CHOOSE x \in U : \A u \in U : x <= u
           IN  IF T = {} THEN t = IntMax ELSE t \in T /\ \A u \in T : t <= u
  <1> DEFINE U == {IntMax} \cup T
             P(x) == x \in U /\ \A u \in U : x <= u
             t == CHOOSE x \in U : \A u \in U : x <= u
             low == 0 - IntMax - 1
             S == {u - low : u \in U}
  <1>1. IntMax \in Int32 /\ low \in Int /\ \A u \in Int32 : u \in Int /\ low <= u /\ u <= IntMax
    BY SMT DEF IntMax, Int32
  <1>2. IntMax \in Int
    BY <1>1
  <1> HIDE DEF low
  <1>3. \A u \in U : u \in Int /\ low <= u /\ u <= IntMax
    BY <1>1
  <1>4. S \subseteq Nat /\ S # {}
    <2>1. ASSUME NEW u \in U PROVE u - low \in Nat
      BY <1>1, <1>3
    <2> QED BY <2>1
  <1>5. PICK y \in S : \A z \in S : y <= z
    <2> HIDE DEF S
    <2> QED BY <1>4, LeastNumber
  <1>6. PICK x \in U : y = x - low
    BY <1>5
  <1>7. ASSUME NEW u \in U PROVE x <= u
    <2>1. u - low \in S
      OBVIOUS
    <2>2. x - low <= u - low
      BY <1>5, <1>6, <2>1
    <2> HIDE DEF U
    <2> QED BY <1>1, <1>3, <1>6, <2>2
  <1>8. t \in U /\ \A u \in U : t <= u
    <2> HIDE DEF S
    <2>1. \E z \in U : \A u \in U : z <= u
      BY <1>6, <1>7
    <2> HIDE DEF U
    <2> QED BY <2>1
  <1> HIDE DEF t, S
  <1>9. CASE T = {}
    BY <1>8, <1>9 DEF t
  <1>10. CASE T # {}
    <2>1. \A u \in T : t <= u
      BY <1>8
    <2>2. t \in T
      <3>1. CASE t = IntMax
        <4>1. PICK u \in T : TRUE
          BY <1>10
        <4>2. u \in Int /\ u <= IntMax /\ IntMax <= u
          BY <1>3, <2>1, <3>1
        <4>3. u = IntMax
          BY <1>2, <4>2
        <4> QED BY <3>1, <4>3
      <3> QED BY <1>8, <3>1
    <2> QED BY <1>10, <2>1, <2>2 DEF t
  <1> QED BY <1>9, <1>10

\* The least lifetime is taken over the records of the content.
LEMMA LeastTtlFound ==
    ASSUME MessageInv, Whole
    PROVE  IsLeastTtl(answer_min_ttl(msg), content, Records(content))
  <1> DEFINE c == content
             N == Len(Records(c))
             rrs == Records(c)
             q == get_rr_question(msg, HeaderSize)
             T == {rrs[i].ttl : i \in {k \in DOMAIN rrs : rrs[k].type # rr_type.opt}}
             good == {rcodes.noerror, rcodes.nxdomain}
             keep == c.qr /\ ~c.tc /\ rrs # <<>> /\ c.class = internet /\ c.rcode \in good
             least == answer_min_ttl(msg)
             f == Found(c, N)
  <1>1. msg # None /\ ~clobbered /\ Readable(c.host)
    BY DEF Whole
  <1>2. c \in Content /\ msg.head = Encoded(c).head /\ AllRecords(msg) = N /\ N \in Nat
    BY <1>1, MessageShape
  <1>3. /\ q.ok /\ q.class = c.class /\ Walk(msg, AllRecords(msg)) = f
    BY <1>1, MessageReads
  <1>4. /\ rrs \in Seq(Record) /\ DOMAIN rrs = 1 .. N /\ (rrs = <<>>) = (N = 0)
        /\ \A i \in 1 .. N : rrs[i] \in Record
    <2>1. rrs \in Seq(Record) /\ (rrs = <<>>) = (N = 0) /\ \A i \in 1 .. N : rrs[i] \in Record
      BY <1>2, RecordsFacts, Zenon
    <2>2. \A s \in Seq(Record) : DOMAIN s = 1 .. Len(s)
      OBVIOUS
    <2> QED BY <2>1, <2>2, Zenon
  <1>5. msg.head.tc = c.tc /\ msg.head.rcode = c.rcode /\ msg.head.qr = c.qr
    BY <1>2, EncodedFacts
  <1>6. /\ f.ok /\ DOMAIN f.rrs = 1 .. N
        /\ \A i \in 1 .. N : f.rrs[i].ttl = rrs[i].ttl /\ f.rrs[i].type = rrs[i].type
    BY <1>2, FoundFacts
  <1> HIDE DEF f, q, rrs
  <1>7. T = {f.rrs[i].ttl : i \in {k \in DOMAIN f.rrs : f.rrs[k].type # rr_type.opt}}
    BY <1>4, <1>6
  <1>8. T \subseteq Int32
    <2>1. \A r \in Record : r.ttl \in Int32
      BY DEF Record
    <2> QED BY <1>4, <2>1
  <1> HIDE DEF T
  <1>9. LeastTtl(f.rrs) = CHOOSE x \in {IntMax} \cup T : \A u \in {IntMax} \cup T : x <= u
    BY <1>7 DEF LeastTtl
  <1>10. IF T = {} THEN LeastTtl(f.rrs) = IntMax
         ELSE LeastTtl(f.rrs) \in T /\ \A u \in T : LeastTtl(f.rrs) <= u
    BY <1>8, <1>9, LeastLifetime
  <1>11. CASE ~keep
    <2>1. least = [ok |-> TRUE, ttl |-> 0]
      <3>1. CASE c.tc \/ c.rcode \notin good \/ ~c.qr \/ N = 0
        BY <1>2, <1>5, <3>1 DEF answer_min_ttl
      <3>2. CASE ~(c.tc \/ c.rcode \notin good \/ ~c.qr \/ N = 0)
        <4>1. least = MinTtlOf(q, f)
          BY <1>2, <1>3, <1>5, <3>2 DEF answer_min_ttl, q
        <4>2. c.class # internet
          BY <1>4, <1>11, <3>2
        <4> QED BY <1>3, <4>1, <4>2 DEF MinTtlOf
      <3> QED BY <3>1, <3>2
    <2>2. least.ok /\ least.ttl = 0
      BY <2>1
    <2> HIDE DEF least, keep
    <2> QED BY <1>11, <2>2 DEF IsLeastTtl, least, keep, rrs
  <1>12. CASE keep
    <2>1. least = MinTtlOf(q, f)
      <3>1. ~(c.tc \/ c.rcode \notin good \/ ~c.qr \/ N = 0)
        BY <1>4, <1>12
      <3> QED BY <1>2, <1>3, <1>5, <3>1 DEF answer_min_ttl, q
    <2>2. least = [ok |-> TRUE, ttl |-> LeastTtl(f.rrs)]
      BY <1>3, <1>6, <1>12, <2>1 DEF MinTtlOf
    <2>3. least.ok /\ least.ttl = LeastTtl(f.rrs)
      BY <2>2
    <2> HIDE DEF least, keep
    <2> QED BY <1>10, <1>12, <2>3 DEF IsLeastTtl, least, keep, T, rrs
  <1> QED BY <1>11, <1>12

\* So it is when none of them is negative.
LEMMA InvMinTtlIsLeast == MessageInv => MinTtlIsLeast
  BY LeastTtlFound DEF MinTtlIsLeast

\* The walk over a message that lacks octets leaves it, and throws.
LEMMA InvTruncationIsRefused == MessageInv => TruncationIsRefused
  <1> SUFFICES ASSUME MessageInv PROVE TruncationIsRefused
    OBVIOUS
  <1> DEFINE c == content
             N == Len(Records(c))
             A == Len(c.an)
  <1>1. ASSUME Whole, NEW n \in 0 .. Len(msg.body) - 1,
               Walk([msg EXCEPT !.body = SubSeq(@, 1, n)], AllRecords(msg)).ok
        PROVE  FALSE
    <2> DEFINE s == [msg EXCEPT !.body = SubSeq(@, 1, n)]
    <2>1. msg # None /\ ~clobbered /\ Readable(c.host)
      BY <1>1 DEF Whole
    <2>2. msg = Encoded(c) /\ c \in Content /\ AllRecords(msg) = N /\ N \in Nat
      BY <2>1, MessageShape DEF MessageInv
    <2>3. /\ IsOctets(msg) /\ Walk(msg, N) = Found(c, N) /\ Size(msg) = HeaderSize + Extent(c, N)
      BY <2>1, <2>2, MessageReads
    <2>4. s.body = SubSeq(msg.body, 1, n)
      BY <2>2 DEF Encoded
    <2>5. /\ Len(msg.body) \in Nat /\ Size(msg) = Len(msg.body) + HeaderSize /\ n \in Nat /\ n < Len(msg.body)
          /\ n \in 0 .. Len(msg.body)
      BY <1>1, <2>3, Numbers
    <2>6. IsCut(s, msg)
      BY <2>3, <2>4, <2>5 DEF IsCut
    <2>7. Size(s) = HeaderSize + n
      <3>1. \A b \in Seq(Byte) : \A k \in 0 .. Len(b) : Len(SubSeq(b, 1, k)) = k
        OBVIOUS
      <3>2. Len(s.body) = n
        BY <2>3, <2>4, <2>5, <3>1 DEF IsOctets
      <3> QED BY <3>2 DEF Size
    <2> HIDE DEF s
    <2>8. Walk(s, N) = Walk(msg, N) /\ Walk(s, N).off <= Size(s)
      BY <1>1, <2>2, <2>6, WalkCut DEF CutResult, s
    <2>9. Found(c, N).off = HeaderSize + Extent(c, N)
      BY <2>2, FoundFacts
    <2>10. Size(msg) <= HeaderSize + n
      BY <2>3, <2>7, <2>8, <2>9
    <2> DEFINE z == Len(msg.body)
    <2>11. z + HeaderSize <= HeaderSize + n /\ z \in Nat /\ n \in Nat /\ n < z
      BY <2>5, <2>10
    <2> HIDE DEF z
    <2> QED BY <2>11 DEF HeaderSize
  <1>2. ASSUME msg # None, clobbered PROVE ~Walk(msg, AllRecords(msg)).ok
    <2>1. /\ c \in Content /\ AllRecords(msg) = N /\ N \in Nat /\ A \in Nat /\ A < N
      BY <1>2, MessageShape, RecordsFacts
    <2>2. /\ IsOctets(msg) /\ Size(msg) = HeaderSize + Extent(c, A)
          /\ Walk(msg, A) = IF Readable(c.host) THEN Found(c, A) ELSE Throws
      BY <1>2, MessageReads
    <2>3. CASE ~Readable(c.host)
      <3>1. Walk(msg, N) = Throws
        BY <2>1, <2>2, <2>3, WalkThrows
      <3> QED BY <2>1, <3>1 DEF Throws
    <2>4. CASE Readable(c.host)
      <3>1. Walk(msg, A + 1) = WalkOn(msg, Found(c, A))
        BY <2>1, <2>2, <2>4, WalkStep
      <3>2. Found(c, A).ok /\ Found(c, A).off = Size(msg)
        BY <2>1, <2>2, FoundFacts
      <3>3. get_rr_name(msg, Size(msg)) = Throws
        <4>1. PICK f : \A o : get_rr_name(msg, o) = IF o + 1 >= Size(msg) THEN Throws ELSE NotTooLong(f[o])
          BY <2>2, NamesWalked
        <4>2. Size(msg) \in Nat
          BY <2>2, Numbers
        <4> QED BY <4>1, <4>2
      <3>4. get_rr(msg, Size(msg)) = Throws
        BY <3>3 DEF get_rr, RecordAfter, Throws
      <3>5. Walk(msg, A + 1) = Throws
        BY <3>1, <3>2, <3>4 DEF WalkOn, WalkedOn, Throws
      <3>6. A + 1 \in Nat /\ A + 1 <= N
        <4> HIDE DEF A, N
        <4> QED BY <2>1
      <3>7. Walk(msg, N) = Throws
        BY <2>1, <3>5, <3>6, WalkThrows
      <3> QED BY <2>1, <3>7 DEF Throws
    <2> QED BY <2>3, <2>4
  <1> QED BY <1>1, <1>2 DEF TruncationIsRefused

\* What becomes of the description of one record.
Told(r) == IF Unnameable(r) THEN {FALSE} ELSE IF Overruns(r) THEN BOOLEAN ELSE {TRUE}

\* short_info describes a record, or throws.
LEMMA DescribedFacts ==
    ASSUME NEW r, NEW x, x.type = r.type, x.class = r.class, x.data = r.data, Len(r.data) \in Nat
    PROVE  Described(x) = Told(r)
  <1> DEFINE d == Len(r.data)
  <1>1. CASE IsAddress(r)
    <2>1. Described(x) = AddressFits(x)
      BY <1>1 DEF Described, IsAddress, internet, rr_type
    <2>2. AddressFits(x) = IF d \notin 4 .. 128 THEN {FALSE}
                           ELSE IF d > RoomFor(x.type) THEN BOOLEAN ELSE {TRUE}
      BY DEF AddressFits
    <2>3. RoomFor(x.type) = IF r.type = 1 THEN 12 ELSE 20
      BY DEF RoomFor, rr_type
    <2>4. Unnameable(r) <=> d < 4 \/ d > 128
      BY <1>1 DEF Unnameable, IsAddress
    <2>5. Overruns(r) <=> d > RoomFor(x.type)
      BY <1>1, <2>3 DEF Overruns
    <2>0. d \in Nat
      OBVIOUS
    <2> HIDE DEF d
    <2>6. d \notin 4 .. 128 <=> d < 4 \/ d > 128
      BY <2>0
    <2> QED BY <2>1, <2>2, <2>4, <2>5, <2>6 DEF Told
  <1>2. CASE ~IsAddress(r)
    <2>1. Described(x) = {r.class \in {1, 3, 4, 254, 255}}
      BY <1>2 DEF Described, IsAddress, internet, rr_type, rr_class_cstr
    <2>2. ~Overruns(r) /\ (Unnameable(r) <=> r.class \notin {1, 3, 4, 254, 255})
      BY <1>2 DEF Overruns, Unnameable
    <2>3. CASE r.class \in {1, 3, 4, 254, 255}
      <3>1. (r.class \in {1, 3, 4, 254, 255}) = TRUE
        BY <2>3
      <3>2. Described(x) = {TRUE}
        BY <2>1, <3>1, Zenon
      <3> QED BY <2>2, <2>3, <3>2, Zenon DEF Told
    <2>4. CASE r.class \notin {1, 3, 4, 254, 255}
      <3>1. (r.class \in {1, 3, 4, 254, 255}) = FALSE
        BY <2>4
      <3>2. Described(x) = {FALSE}
        BY <2>1, <3>1, Zenon
      <3> QED BY <2>2, <2>4, <3>2, Zenon DEF Told
    <2> QED BY <2>3, <2>4
  <1> QED BY <1>1, <1>2

\* short_info describes the records of the content, or throws for one of them.
LEMMA InvAnswerEndsForReason == MessageInv => AnswerEndsForReason
  <1> SUFFICES ASSUME MessageInv, msg # None, content.qr, ~clobbered
               PROVE  pass_answer_downstream(msg) =
                          IF HasReason(content) THEN {FALSE}
                          ELSE IF \E i \in DOMAIN content.an : Overruns(content.an[i])
                               THEN BOOLEAN ELSE {TRUE}
    BY DEF AnswerEndsForReason
  <1> DEFINE c == content
             A == Len(c.an)
             q == get_rr_question(msg, HeaderSize)
             w == Walk(msg, A)
  <1>1. /\ c \in Content /\ msg.head = Encoded(c).head /\ A \in Nat /\ c.an \in Seq(Record)
        /\ \A i \in 1 .. A : Records(c)[i] = c.an[i]
    BY MessageShape, RecordsFacts
  <1>2. msg.head.rcode = c.rcode /\ msg.head.ancount = A
    BY <1>1, EncodedFacts
  <1>3. short_info(msg) = InfoOf(c.rcode, q, w)
    BY <1>2 DEF short_info
  <1>4. CASE ~Readable(c.host)
    <2>1. q = Throws
      BY <1>4, MessageReads
    <2>2. short_info(msg) = {FALSE}
      BY <1>3, <2>1 DEF InfoOf, Throws
    <2>3. HasReason(c)
      BY <1>4 DEF HasReason
    <2> QED BY <2>2, <2>3 DEF pass_answer_downstream
  <1>5. CASE Readable(c.host)
    <2>1. q.ok /\ q.class = c.class /\ w = Found(c, A)
      BY <1>5, MessageReads
    <2>2. answer_min_ttl(msg).ok
      <3>1. Whole
        BY <1>5 DEF Whole
      <3>2. IsLeastTtl(answer_min_ttl(msg), content, Records(content))
        BY <3>1, LeastTtlFound
      <3> QED BY <3>2 DEF IsLeastTtl
    <2>3. pass_answer_downstream(msg) = InfoOf(c.rcode, q, w)
      BY <1>3, <2>2 DEF pass_answer_downstream
    <2>4. /\ w.ok /\ DOMAIN w.rrs = 1 .. A
          /\ \A i \in 1 .. A : /\ w.rrs[i].type = c.an[i].type /\ w.rrs[i].class = c.an[i].class
                               /\ w.rrs[i].data = c.an[i].data
      BY <1>1, <2>1, FoundFacts
    <2>5. DOMAIN c.an = 1 .. A /\ \A i \in 1 .. A : c.an[i] \in Record
      BY <1>1
    <2> HIDE DEF q, w
    <2>6. \A i \in 1 .. A : Described(w.rrs[i]) = Told(c.an[i])
      <3>1. \A y \in Record : Len(y.data) \in Nat
        BY DEF Record, Word
      <3> QED BY <2>4, <2>5, <3>1, DescribedFacts
    <2>7. pkt_rcode_cstr(c.rcode) <=> ~(c.rcode > 10)
      <3>1. c.rcode \in 0 .. 15
        BY <1>1 DEF Content
      <3> QED BY <3>1 DEF pkt_rcode_cstr
    <2>8. rr_class_cstr(q.class) <=> c.class \in {1, 3, 4, 254, 255}
      BY <2>1 DEF rr_class_cstr, internet
    <2>9. HasReason(c) <=> \/ ~pkt_rcode_cstr(c.rcode) \/ ~rr_class_cstr(q.class)
                           \/ \E i \in 1 .. A : Unnameable(c.an[i])
      BY <1>5, <2>5, <2>7, <2>8 DEF HasReason
    <2>10. \A i \in 1 .. A : Told(c.an[i]) = {FALSE} <=> Unnameable(c.an[i])
      <3>1. BOOLEAN # {FALSE} /\ {TRUE} # {FALSE}
        OBVIOUS
      <3> QED BY <3>1 DEF Told
    <2>11. HasReason(c) <=> \/ ~(pkt_rcode_cstr(c.rcode) /\ q.ok /\ rr_class_cstr(q.class) /\ w.ok)
                            \/ \E i \in DOMAIN w.rrs : Described(w.rrs[i]) = {FALSE}
      <3>1. (\E i \in DOMAIN w.rrs : Described(w.rrs[i]) = {FALSE})
              <=> \E i \in 1 .. A : Unnameable(c.an[i])
        BY <2>4, <2>6, <2>10, Zenon
      <3> QED BY <2>1, <2>4, <2>9, <3>1, Zenon
    <2> HIDE DEF A, c
    <2>12. CASE HasReason(c)
      <3>1. InfoOf(c.rcode, q, w) = {FALSE}
        BY <2>11, <2>12, Zenon DEF InfoOf
      <3> QED BY <2>3, <2>12, <3>1, Zenon DEF c
    <2>13. CASE ~HasReason(c)
      <3> DEFINE all == UNION {Described(w.rrs[i]) : i \in DOMAIN w.rrs}
                 over == \E i \in DOMAIN c.an : Overruns(c.an[i])
      <3>1. InfoOf(c.rcode, q, w) = {TRUE} \cup all
        BY <2>11, <2>13, Zenon DEF InfoOf
      <3>2. \A i \in 1 .. A : Told(c.an[i]) = IF Overruns(c.an[i]) THEN BOOLEAN ELSE {TRUE}
        BY <2>9, <2>13, Zenon DEF Told
      <3>3. \A i \in DOMAIN w.rrs :
               Described(w.rrs[i]) = IF Overruns(c.an[i]) THEN BOOLEAN ELSE {TRUE}
        BY <2>4, <2>6, <3>2, Zenon
      <3>4. CASE over
        <4>1. PICK i \in DOMAIN w.rrs : Described(w.rrs[i]) = BOOLEAN
          BY <2>4, <2>5, <3>3, <3>4, Zenon
        <4>2. \A x \in BOOLEAN : x \in all
          BY <4>1, Zenon
        <4>3. \A x \in all : x \in BOOLEAN
          BY <3>3, Zenon
        <4>4. {TRUE} \cup all = BOOLEAN
          BY <4>2, <4>3, Zenon
        <4> QED BY <2>3, <2>13, <3>1, <3>4, <4>4, Zenon DEF c
      <3>5. CASE ~over
        <4>1. \A i \in DOMAIN w.rrs : Described(w.rrs[i]) = {TRUE}
          BY <2>4, <2>5, <3>3, <3>5, Zenon
        <4>2. \A x \in all : x = TRUE
          BY <4>1, Zenon
        <4>3. {TRUE} \cup all = {TRUE}
          BY <4>2, Zenon
        <4> QED BY <2>3, <2>13, <3>1, <3>5, <4>3, Zenon DEF c
      <3> QED BY <3>4, <3>5, Zenon
    <2> QED BY <2>12, <2>13
  <1> QED BY <1>4, <1>5

-----------------------------------------------------------------------------
(***************************************************************************)
(* Messages: the steps.                                                    *)
(***************************************************************************)

\* A content that is changed field by field.
LEMMA ContentIntro ==
    ASSUME NEW c, c \in ContentFields, IsHostName(c.host), LabelsFit(c.host)
    PROVE  c \in Content
  BY DEF Content, ContentFields

\* No content is a content: an empty query.
LEMMA NoContentFacts == NoContent \in Content
  <1> DEFINE e == <<>>
  <1>1. e \in Seq(Byte) /\ e \in Seq(Record)
    OBVIOUS
  <1>2. 0 \in Word /\ 0 \in 0 .. 15 /\ FALSE \in BOOLEAN
    BY DEF Word
  <1>3. NoContent \in ContentFields
    <2> HIDE DEF e
    <2>1. NoContent = [id |-> 0, host |-> e, type |-> 0, class |-> 0, qr |-> FALSE, tc |-> FALSE,
                       rcode |-> 0, an |-> e, ns |-> e, ar |-> e]
      BY DEF NoContent, e
    <2> QED BY <1>1, <1>2, <2>1 DEF ContentFields
  <1>4. NoContent.host = <<>>
    BY DEF NoContent
  <1> QED BY <1>3, <1>4, RootFacts, ContentIntro

\* What a peer sends is a message.
LEMMA EncodedIsMessage ==
    ASSUME NEW c \in Content
    PROVE  Encoded(c) # None
  <1>1. Len(Records(c)) \in 0 .. Len(Records(c))
    BY RecordsFacts
  <1> QED BY <1>1, EncodedFacts, BodyFacts

\* The header of a message.
HeaderOf(id, qr, tc, rcode, an, ns, ar) ==
    [id |-> id, qr |-> qr, tc |-> tc, rcode |-> rcode, qdcount |-> 1,
     ancount |-> an, nscount |-> ns, arcount |-> ar]

\* What a content is encoded as, part by part.
LEMMA EncodedHeader ==
    ASSUME NEW c
    PROVE  Encoded(c) = [head |-> HeaderOf(c.id, c.qr, c.tc, c.rcode, Len(c.an), Len(c.ns), Len(c.ar)),
                         body |-> Encoded(c).body]
  BY DEF Encoded, HeaderOf

\* A query has a question and no records.
LEMMA BuildFacts ==
    ASSUME NEW h \in Hosts, NEW type \in {rr_type.a, rr_type.txt}, NEW id \in Ids, Buildable(h)
    PROVE  LET e == [NoContent EXCEPT !.id = id, !.host = h, !.type = type, !.class = internet]
           IN  e \in Content /\ query(h, type, id) = Encoded(e)
  <1> DEFINE e == [NoContent EXCEPT !.id = id, !.host = h, !.type = type, !.class = internet]
             n == <<>>
  <1>1. IsHostName(h) /\ LabelsFit(h) /\ h \in Seq(Byte) /\ id \in Word
    BY MessageAssumption DEF Buildable, IsHostName
  <1>2. type \in Word /\ internet \in Word
    BY DEF rr_type, internet, Word
  <1>3. n \in Seq(Record) /\ Len(n) = 0 /\ n \o n \o n = n
    <2>1. \A s \in Seq(Record) : s \o <<>> = s
      OBVIOUS
    <2>2. n \in Seq(Record) /\ Len(n) = 0
      OBVIOUS
    <2> QED BY <2>1, <2>2, Zenon
  <1>4. ASSUME NEW x \in ContentFields,
               NEW y, y = [x EXCEPT !.id = id, !.host = h, !.type = type, !.class = internet]
        PROVE  /\ y \in ContentFields /\ y.id = id /\ y.host = h /\ y.type = type /\ y.class = internet
               /\ y.an = x.an /\ y.ns = x.ns /\ y.ar = x.ar /\ y.qr = x.qr /\ y.tc = x.tc
               /\ y.rcode = x.rcode
    BY <1>1, <1>2, <1>4 DEF ContentFields
  <1>5. NoContent \in ContentFields
    BY NoContentFacts DEF Content, ContentFields
  <1> DEFINE d == NoContent
  <1>6. d.an = n /\ d.ns = n /\ d.ar = n /\ d.rcode = 0 /\ d.qr = FALSE /\ d.tc = FALSE
    BY Zenon DEF NoContent
  <1> HIDE DEF n
  <1>7. /\ e \in ContentFields /\ e.id = id /\ e.host = h /\ e.type = type /\ e.class = internet
        /\ e.an = n /\ e.ns = n /\ e.ar = n /\ e.qr = FALSE /\ e.tc = FALSE /\ e.rcode = 0
    BY <1>4, <1>5, <1>6, Zenon
  <1> HIDE DEF e
  <1>8. e \in Content
    BY <1>1, <1>7, ContentIntro
  <1>9. Records(e) = n
    BY <1>3, <1>7 DEF Records
  <1>10. OctetsTo(e, 0) = NameOctets(h) \o htons(type) \o htons(internet)
    BY <1>7, OctetsToStep DEF QuestionOctets
  <1>11. Encoded(e) = query(h, type, id)
    <2>1. Encoded(e) = [head |-> HeaderOf(id, FALSE, FALSE, 0, 0, 0, 0), body |-> OctetsTo(e, 0)]
      <3>1. Encoded(e).body = OctetsTo(e, 0)
        BY <1>3, <1>9, EncodedFacts
      <3>2. Len(e.an) = 0 /\ Len(e.ns) = 0 /\ Len(e.ar) = 0
        BY <1>3, <1>7
      <3> QED BY <1>7, <3>1, <3>2, EncodedHeader, Zenon
    <2>2. query(h, type, id) = [head |-> HeaderOf(id, FALSE, FALSE, 0, 0, 0, 0),
                                body |-> NameOctets(h) \o htons(type) \o htons(internet)]
      <3>1. rcodes.noerror = 0
        BY DEF rcodes
      <3> QED BY <3>1, Zenon DEF query, HeaderOf
    <2> QED BY <1>10, <2>1, <2>2, Zenon
  <1> QED BY <1>8, <1>11 DEF e

\* A response with a code and nothing else.
LEMMA MarkFacts ==
    ASSUME NEW c \in Content, NEW v \in 0 .. 15
    PROVE  LET e == [c EXCEPT !.rcode = v, !.qr = TRUE]
           IN  e \in Content /\ mark(Encoded(c), v) = Encoded(e)
  <1> DEFINE e == [c EXCEPT !.rcode = v, !.qr = TRUE]
             m == Encoded(c)
  <1>1. c \in ContentFields /\ IsHostName(c.host) /\ LabelsFit(c.host)
    BY DEF Content, ContentFields
  <1>2. ASSUME NEW b \in BOOLEAN, NEW x, x = [c EXCEPT !.rcode = v, !.qr = b]
        PROVE  /\ x \in ContentFields /\ x.id = c.id /\ x.host = c.host /\ x.type = c.type
               /\ x.class = c.class /\ x.tc = c.tc /\ x.rcode = v /\ x.qr = b
               /\ x.an = c.an /\ x.ns = c.ns /\ x.ar = c.ar
    BY <1>1, <1>2 DEF ContentFields
  <1>3. /\ e \in ContentFields /\ e.id = c.id /\ e.host = c.host /\ e.type = c.type
        /\ e.class = c.class /\ e.tc = c.tc /\ e.rcode = v /\ e.qr = TRUE
        /\ e.an = c.an /\ e.ns = c.ns /\ e.ar = c.ar
    <2>1. TRUE \in BOOLEAN
      OBVIOUS
    <2> QED BY <1>2, <2>1, Zenon
  <1> HIDE DEF e
  <1>4. e \in Content
    BY <1>1, <1>3, ContentIntro
  <1>5. Records(e) = Records(c)
    BY <1>3 DEF Records
  <1>6. Encoded(e).body = m.body
    <2>1. OctetsTo(e, Len(Records(c))) = OctetsTo(c, Len(Records(c)))
      BY <1>3, <1>5, OctetsToSame, RecordsFacts
    <2> QED BY <1>5, <2>1, EncodedFacts
  <1>7. mark(m, v) = [head |-> HeaderOf(c.id, TRUE, c.tc, v, Len(c.an), Len(c.ns), Len(c.ar)),
                      body |-> m.body]
    <2> DEFINE H  == HeaderOf(c.id, c.qr, c.tc, c.rcode, Len(c.an), Len(c.ns), Len(c.ar))
               H1 == HeaderOf(c.id, c.qr, c.tc, v, Len(c.an), Len(c.ns), Len(c.ar))
               H2 == HeaderOf(c.id, TRUE, c.tc, v, Len(c.an), Len(c.ns), Len(c.ar))
    <2>1. m = [head |-> H, body |-> m.body]
      BY EncodedHeader
    <2>2. H1 = [H EXCEPT !.rcode = v] /\ H2 = [H1 EXCEPT !.qr = TRUE]
      <3>1. ASSUME NEW b
            PROVE  [H1 EXCEPT !.qr = b] = HeaderOf(c.id, b, c.tc, v, Len(c.an), Len(c.ns), Len(c.ar))
        BY DEF HeaderOf
      <3>2. H2 = [H1 EXCEPT !.qr = TRUE]
        BY <3>1, Zenon
      <3>3. H1 = [H EXCEPT !.rcode = v]
        BY DEF HeaderOf
      <3> QED BY <3>2, <3>3
    <2> HIDE DEF m, H, H1, H2
    <2>3. ASSUME NEW b, NEW k, k = [H1 EXCEPT !.qr = b]
          PROVE  [m EXCEPT !.head.rcode = v, !.head.qr = b] = [head |-> k, body |-> m.body]
      <3>1. [m EXCEPT !.head.rcode = v] = [head |-> H1, body |-> m.body]
        BY <2>1, <2>2
      <3>2. ASSUME NEW l, l = [head |-> H1, body |-> m.body]
            PROVE  [l EXCEPT !.head.qr = b] = [head |-> k, body |-> m.body]
        BY <2>3, <3>2
      <3>3. [m EXCEPT !.head.rcode = v, !.head.qr = b] = [[m EXCEPT !.head.rcode = v] EXCEPT !.head.qr = b]
        OBVIOUS
      <3> QED BY <3>1, <3>2, <3>3, Zenon
    <2>4. mark(m, v) = [head |-> H2, body |-> m.body]
      BY <2>2, <2>3, Zenon DEF mark
    <2> QED BY <2>4 DEF H2
  <1>8. Encoded(e) = [head |-> HeaderOf(c.id, TRUE, c.tc, v, Len(c.an), Len(c.ns), Len(c.ar)),
                      body |-> m.body]
    BY <1>3, <1>6, EncodedHeader, Zenon
  <1> QED BY <1>4, <1>7, <1>8 DEF e

\* What the message means with one answer more.
WithAnswer(c, r) == [c EXCEPT !.qr = TRUE, !.an = Append(@, r)]

\* The octets of an answer more, and its header.
LEMMA AnswerFacts ==
    ASSUME NEW c \in Content, NEW r \in Record
    PROVE  LET e == WithAnswer(c, r)
               a == Len(c.an)
           IN  /\ e \in Content /\ e.qr = TRUE /\ e.ns = c.ns /\ e.ar = c.ar /\ Len(e.an) = a + 1
               /\ Encoded(e).head = HeaderOf(c.id, TRUE, c.tc, c.rcode, a + 1, Len(c.ns), Len(c.ar))
               /\ OctetsTo(e, a + 1) = OctetsTo(c, a) \o RecordOctets(c.host, r)
               /\ Len(Records(e)) = Len(Records(c)) + 1
  <1> DEFINE e == WithAnswer(c, r)
             a == Len(c.an)
             s == Append(c.an, r)
  <1>1. c \in ContentFields /\ IsHostName(c.host) /\ LabelsFit(c.host)
    BY DEF Content, ContentFields
  <1>2. /\ c.an \in Seq(Record) /\ a \in Nat /\ \A i \in 1 .. a : Records(c)[i] = c.an[i]
        /\ Len(Records(c)) = a + Len(c.ns) + Len(c.ar)
    BY RecordsFacts
  <1>3. /\ s \in Seq(Record) /\ Len(s) = a + 1 /\ s[a + 1] = r /\ \A i \in 1 .. a : s[i] = c.an[i]
    BY <1>2
  <1> HIDE DEF s
  <1>4. ASSUME NEW b \in BOOLEAN, NEW x, x = [c EXCEPT !.qr = b, !.an = s]
        PROVE  /\ x \in ContentFields /\ x.id = c.id /\ x.host = c.host /\ x.type = c.type
               /\ x.class = c.class /\ x.tc = c.tc /\ x.rcode = c.rcode /\ x.qr = b
               /\ x.an = s /\ x.ns = c.ns /\ x.ar = c.ar
    BY <1>1, <1>3, <1>4 DEF ContentFields
  <1>5. e = [c EXCEPT !.qr = TRUE, !.an = s]
    BY Zenon DEF WithAnswer, s
  <1>6. /\ e \in ContentFields /\ e.id = c.id /\ e.host = c.host /\ e.type = c.type
        /\ e.class = c.class /\ e.tc = c.tc /\ e.rcode = c.rcode /\ e.qr = TRUE
        /\ e.an = s /\ e.ns = c.ns /\ e.ar = c.ar
    <2>1. TRUE \in BOOLEAN
      OBVIOUS
    <2> QED BY <1>4, <1>5, <2>1, Zenon
  <1> HIDE DEF e
  <1>7. e \in Content
    BY <1>1, <1>6, ContentIntro
  <1>8. /\ Len(Records(e)) = (a + 1) + Len(c.ns) + Len(c.ar)
        /\ \A i \in 1 .. a + 1 : Records(e)[i] = s[i]
    BY <1>3, <1>6, <1>7, RecordsFacts
  <1>9. Len(c.ns) \in Nat /\ Len(c.ar) \in Nat
    BY RecordsFacts
  <1>10. Len(Records(e)) = Len(Records(c)) + 1
    <2> DEFINE x == Len(c.ns)
               y == Len(c.ar)
    <2>1. (a + 1) + x + y = (a + x + y) + 1
      <3>1. a \in Nat /\ x \in Nat /\ y \in Nat
        BY <1>2, <1>9
      <3> HIDE DEF a, x, y
      <3> QED BY <3>1
    <2> QED BY <1>2, <1>8, <2>1
  <1>11. OctetsTo(e, a) = OctetsTo(c, a)
    <2>1. \A i \in 1 .. a : Records(e)[i] = Records(c)[i]
      <3>1. \A i \in 1 .. a : i \in 1 .. a + 1
        <4>1. a \in Nat
          BY <1>2
        <4> HIDE DEF a
        <4> QED BY <4>1
      <3> QED BY <1>2, <1>3, <1>8, <3>1, Zenon
    <2> QED BY <1>2, <1>6, <2>1, OctetsToSame
  <1>12. OctetsTo(e, a + 1) = OctetsTo(c, a) \o RecordOctets(c.host, r)
    <2>1. Records(e)[a + 1] = r
      <3>1. a + 1 \in 1 .. a + 1
        <4>1. a \in Nat
          BY <1>2
        <4> HIDE DEF a
        <4> QED BY <4>1
      <3> QED BY <1>3, <1>8, <3>1, Zenon
    <2>2. OctetsTo(e, a + 1) = OctetsTo(e, a) \o OctetsOf(e, a + 1)
      BY <1>2, OctetsToStep
    <2> QED BY <1>6, <1>11, <2>1, <2>2 DEF OctetsOf
  <1>13. Encoded(e).head = HeaderOf(c.id, TRUE, c.tc, c.rcode, a + 1, Len(c.ns), Len(c.ar))
    <2>1. Encoded(e).head = HeaderOf(e.id, e.qr, e.tc, e.rcode, Len(e.an), Len(e.ns), Len(e.ar))
      BY DEF Encoded, HeaderOf
    <2> QED BY <1>3, <1>6, <2>1, Zenon
  <1> QED BY <1>3, <1>6, <1>7, <1>10, <1>12, <1>13, Zenon DEF e, a

\* add_answer writes the record behind the question and the answers.
LEMMA AddAnswerFacts ==
    ASSUME MessageInv, Processed, Walk(msg, msg.head.ancount).ok, NEW r \in Record,
           r.form = "pointer", r.class = internet
    PROVE  add_answer(msg, r.data, r.type, r.ttl) =
             [head |-> Encoded(WithAnswer(content, r)).head,
              body |-> OctetsTo(WithAnswer(content, r), Len(content.an) + 1)]
  <1> DEFINE c == content
             a == Len(c.an)
             e == WithAnswer(c, r)
             H == HeaderOf(c.id, c.qr, c.tc, c.rcode, a, Len(c.ns), Len(c.ar))
             H1 == HeaderOf(c.id, c.qr, c.tc, c.rcode, a + 1, Len(c.ns), Len(c.ar))
             H2 == HeaderOf(c.id, TRUE, c.tc, c.rcode, a + 1, Len(c.ns), Len(c.ar))
  <1>1. msg # None /\ c \in Content /\ msg.head = Encoded(c).head /\ a \in Nat
    BY MessageShape, RecordsFacts DEF Processed
  <1>2. /\ IsOctets(msg) /\ Stand(msg, HeaderSize, OctetsTo(c, a))
        /\ Walk(msg, a) = IF Readable(c.host) THEN Found(c, a) ELSE Throws
    BY <1>1, MessageReads
  <1>3. msg.head = H /\ msg.head.ancount = a
    <2>1. msg.head = H
      BY <1>1 DEF Encoded, HeaderOf
    <2> QED BY <1>1, <2>1, EncodedFacts
  <1>4. Walk(msg, msg.head.ancount) = Found(c, a)
    BY <1>2, <1>3 DEF Throws
  <1>5. Slice(msg, HeaderSize, Walk(msg, msg.head.ancount).off) = OctetsTo(c, a)
    <2>1. Found(c, a).off = HeaderSize + Extent(c, a)
      BY <1>1, FoundFacts
    <2>2. OctetsTo(c, a) \in Seq(Byte)
      BY <1>1, MessageShape, OctetsToIsSeq
    <2> QED BY <1>2, <1>4, <2>1, <2>2, StandSlice DEF Extent
  <1>6. [msg.head EXCEPT !.ancount = @ + 1, !.qr = TRUE] = H2
    <2>1. [msg.head EXCEPT !.ancount = @ + 1] = H1
      BY <1>3 DEF HeaderOf
    <2>2. ASSUME NEW b
          PROVE  [H1 EXCEPT !.qr = b] = HeaderOf(c.id, b, c.tc, c.rcode, a + 1, Len(c.ns), Len(c.ar))
      BY DEF HeaderOf
    <2>3. ASSUME NEW b, NEW h
          PROVE  [h EXCEPT !.ancount = @ + 1, !.qr = b] = [[h EXCEPT !.ancount = @ + 1] EXCEPT !.qr = b]
      OBVIOUS
    <2> HIDE DEF H, H1
    <2> QED BY <2>1, <2>2, <2>3, Zenon
  <1>7. RecordOctets(c.host, r) =
          <<Pointer, HeaderSize>> \o htons(r.type) \o htons(internet) \o htonl(r.ttl)
          \o htons(Len(r.data)) \o r.data
    BY DEF RecordOctets, Owner
  <1>8. OctetsTo(e, a + 1) = OctetsTo(c, a) \o RecordOctets(c.host, r) /\ Encoded(e).head = H2
    BY <1>1, AnswerFacts, Zenon
  <1> QED BY <1>5, <1>6, <1>7, <1>8, Zenon DEF add_answer

\* An answer is written where it belongs, or over what stood behind the answers.
LEMMA AnsweredKeeps ==
    ASSUME MessageInv, Processed, NEW type, NEW data, Answered(type, data),
           msg' = add_answer(msg, data, type, 10),
           [form |-> "pointer", type |-> type, class |-> internet, ttl |-> 10, data |-> data] \in Record
    PROVE  MessageInv'
  <1> DEFINE r == [form |-> "pointer", type |-> type, class |-> internet, ttl |-> 10, data |-> data]
             c == content
             e == WithAnswer(c, r)
             a == Len(c.an)
  <1>1. r \in Record /\ r.form = "pointer" /\ r.class = internet /\ r.type = type /\ r.ttl = 10 /\ r.data = data
    OBVIOUS
  <1> HIDE DEF r
  <1>2. content' = e /\ Walk(msg, msg.head.ancount).ok
    BY Zenon DEF Answered, WithAnswer, r
  <1>3. clobbered' = (c.ns \o c.ar # <<>>)
    BY DEF Answered
  <1>4. msg' = [head |-> Encoded(e).head, body |-> OctetsTo(e, a + 1)]
    BY <1>1, <1>2, AddAnswerFacts
  <1>5. c \in Content /\ msg # None
    BY DEF MessageInv, Processed
  <1>6. /\ e \in Content /\ e.qr = TRUE /\ e.ns = c.ns /\ e.ar = c.ar /\ Len(e.an) = a + 1
        /\ Len(Records(e)) = Len(Records(c)) + 1
    BY <1>1, <1>5, AnswerFacts, Zenon
  <1> HIDE DEF e
  <1>7. msg'.head = Encoded(e).head /\ msg'.body = OctetsTo(e, Len(e.an))
    BY <1>4, <1>6
  <1>8. Len(e.an) \in 0 .. Len(Records(e))
    <2> DEFINE x == Len(e.an)
               y == Len(e.ns)
               z == Len(e.ar)
               n == Len(Records(e))
    <2>1. x \in Nat /\ y \in Nat /\ z \in Nat /\ n = x + y + z
      BY <1>6, RecordsFacts
    <2> HIDE DEF x, y, z, n
    <2>2. x \in 0 .. n
      BY <2>1
    <2> QED BY <2>2 DEF x, n
  <1>9. msg' # None
    BY <1>6, <1>7, <1>8, BodyFacts
  <1>10. ASSUME ~clobbered' PROVE msg' = Encoded(e)
    <2>1. e.ns \o e.ar = <<>>
      BY <1>3, <1>6, <1>10
    <2>2. Len(Records(e)) = Len(e.an)
      <3>1. \A p \in Seq(Record) : p \o <<>> = p
        OBVIOUS
      <3>2. e.an \in Seq(Record) /\ e.ns \in Seq(Record) /\ e.ar \in Seq(Record)
        BY <1>6, RecordsFacts
      <3>3. \A s, t, u \in Seq(Record) : (s \o t) \o u = s \o (t \o u)
        OBVIOUS
      <3>4. Records(e) = e.an \o (e.ns \o e.ar)
        BY <3>2, <3>3 DEF Records
      <3> QED BY <2>1, <3>1, <3>2, <3>4, Zenon
    <2>3. Encoded(e) = [head |-> Encoded(e).head, body |-> OctetsTo(e, a + 1)]
      <3>1. Encoded(e) = [head |-> Encoded(e).head, body |-> Encoded(e).body]
        BY DEF Encoded
      <3> QED BY <1>6, <2>2, <3>1, EncodedFacts, Zenon
    <2> QED BY <1>4, <2>3
  <1>11. clobbered' \in BOOLEAN
    BY <1>3
  <1> QED BY <1>2, <1>3, <1>6, <1>7, <1>9, <1>10, <1>11 DEF MessageInv

\* The records that set_answer and set_txt_answer write.
LEMMA AddressRecord ==
    ASSUME NEW addr \in Addresses
    PROVE  [form |-> "pointer", type |-> rr_type.a, class |-> internet, ttl |-> 10,
            data |-> AddressOctets(addr)] \in Record
  <1> DEFINE d == AddressOctets(addr)
             z == <<0, 0, 0, 0>>
  <1>1. z \in Seq(Byte) /\ Len(z) = 4
    BY DEF Byte
  <1>2. d \in Seq(Byte) /\ Len(d) = 4
    <2> HIDE DEF z
    <2> QED BY <1>1, MessageAssumption DEF AddressOctets, z
  <1> HIDE DEF d
  <1>3. 1 \in Word /\ 4 \in Word /\ 1 # 16
    BY DEF Word
  <1>4. 10 \in Int32
    BY SMT DEF Int32, IntMax
  <1>5. rr_type.a = 1 /\ internet = 1 /\ rr_type.txt = 16
    BY DEF rr_type, internet
  <1> DEFINE r == [form |-> "pointer", type |-> 1, class |-> 1, ttl |-> 10, data |-> d]
  <1>6. r \in [form : {"pointer", "full", "root"}, type : Word, class : Word, ttl : Int32, data : Seq(Byte)]
    <2> HIDE DEF Word, Int32
    <2> QED BY <1>2, <1>3, <1>4
  <1>7. r.data = d /\ r.type = 1
    OBVIOUS
  <1> HIDE DEF r
  <1>8. r \in Record
    BY <1>2, <1>3, <1>5, <1>6, <1>7, Zenon DEF Record, IsTxt
  <1> QED BY <1>5, <1>8 DEF r, d

\* A text of up to 255 octets, behind its length.
LEMMA TextRecord ==
    ASSUME NEW text \in Texts
    PROVE  [form |-> "pointer", type |-> rr_type.txt, class |-> internet, ttl |-> 10,
            data |-> <<Len(text)>> \o text] \in Record
  <1> DEFINE n == Len(text)
             d == <<Len(text)>> \o text
  <1>1. text \in Seq(Byte) /\ n \in Byte /\ n \in Nat
    BY MessageAssumption
  <1>2. d \in Seq(Byte) /\ Len(d) = n + 1 /\ d[1] = n
    <2>1. <<n>> \in Seq(Byte) /\ Len(<<n>>) = 1 /\ <<n>>[1] = n
      BY <1>1
    <2> DEFINE s == <<n>>
    <2> HIDE DEF s
    <2>2. s \o text \in Seq(Byte) /\ Len(s \o text) = Len(s) + Len(text) /\ (s \o text)[1] = s[1]
      <3>1. 1 \in 1 .. Len(s)
        BY <2>1 DEF s
      <3>2. s \in Seq(Byte)
        BY <2>1 DEF s
      <3> QED BY <1>1, <3>1, <3>2, ConcatParts
    <2>3. 1 + n = n + 1
      BY <1>1
    <2> QED BY <2>1, <2>2, <2>3 DEF s
  <1> HIDE DEF d, n
  <1>3. n + 1 \in Word /\ (n + 1) - 1 = n /\ n + 1 # 0
    BY <1>1, SMT DEF Word, Byte
  <1>4. 1 \in Word /\ 16 \in Word
    BY DEF Word
  <1>5. 10 \in Int32
    BY SMT DEF Int32, IntMax
  <1>6. rr_type.txt = 16 /\ internet = 1
    BY DEF rr_type, internet
  <1> DEFINE r == [form |-> "pointer", type |-> 16, class |-> 1, ttl |-> 10, data |-> d]
  <1>7. r \in [form : {"pointer", "full", "root"}, type : Word, class : Word, ttl : Int32, data : Seq(Byte)]
    BY <1>2, <1>4, <1>5
  <1>8. r.data = d
    OBVIOUS
  <1> HIDE DEF r
  <1>9. d # <<>> /\ d[1] = Len(d) - 1 /\ Len(d) \in Word
    BY <1>2, <1>3
  <1>10. r \in Record
    BY <1>7, <1>8, <1>9 DEF Record
  <1> QED BY <1>6, <1>10 DEF r, d

\* What the cache gives back says the same with another id and other lifetimes.
LEMMA FromCacheFacts ==
    ASSUME MessageInv, NEW id \in Word, NEW ttl \in Int32, msg # None, Walk(msg, AllRecords(msg)).ok
    PROVE  /\ AgedContent(content, id, ttl) \in Content /\ ~clobbered
           /\ adjust_id_and_ttl(msg, id, ttl) = Encoded(AgedContent(content, id, ttl))
  <1> DEFINE c == content
             N == Len(Records(c))
             e == AgedContent(c, id, ttl)
             H == HeaderOf(c.id, c.qr, c.tc, c.rcode, Len(c.an), Len(c.ns), Len(c.ar))
             H1 == HeaderOf(id, c.qr, c.tc, c.rcode, Len(c.an), Len(c.ns), Len(c.ar))
  <1>1. ~clobbered
    BY InvTruncationIsRefused DEF TruncationIsRefused
  <1>2. c \in Content /\ msg = Encoded(c) /\ AllRecords(msg) = N /\ N \in Nat
    BY <1>1, MessageShape DEF MessageInv
  <1>3. Walk(msg, AllRecords(msg)) = Found(c, N)
    BY <1>1, MessageReads DEF Throws
  <1>4. /\ e \in Content /\ e.id = id /\ e.qr = c.qr /\ e.tc = c.tc /\ e.rcode = c.rcode
        /\ Len(e.an) = Len(c.an) /\ Len(e.ns) = Len(c.ns) /\ Len(e.ar) = Len(c.ar)
        /\ Len(Records(e)) = N
    <2> HIDE DEF c
    <2> QED BY <1>2, AgedContentFacts
  <1> HIDE DEF e
  <1>5. WithTtl(msg, Walk(msg, AllRecords(msg)), ttl) = Encoded(e).body
    BY <1>2, <1>3, <1>4, EncodedFacts, AgedBody DEF e
  <1>6. [msg.head EXCEPT !.id = id] = H1
    <2>1. msg.head = H
      BY <1>2 DEF Encoded, HeaderOf
    <2> QED BY <2>1 DEF HeaderOf
  <1>7. Encoded(e) = [head |-> H1, body |-> Encoded(e).body]
    BY <1>4, EncodedHeader, Zenon
  <1> HIDE DEF H1
  <1>8. adjust_id_and_ttl(msg, id, ttl) = [head |-> H1, body |-> Encoded(e).body]
    BY <1>5, <1>6 DEF adjust_id_and_ttl
  <1> QED BY <1>1, <1>4, <1>7, <1>8 DEF e

\* There is no message at first.
LEMMA MessageInitInv == MessageInit => MessageInv
  BY NoContentFacts DEF MessageInit, MessageInv

\* The response to a query with a code and nothing else.
LEMMA MarkedKeeps ==
    ASSUME MessageInv, Filtered, NEW v \in 0 .. 15, msg' = mark(msg, v),
           content' = [content EXCEPT !.rcode = v, !.qr = TRUE], UNCHANGED clobbered
    PROVE  MessageInv'
  <1>1. msg # None /\ ~content.qr /\ content \in Content
    BY DEF Filtered, Processed, MessageInv
  <1>2. ~clobbered /\ msg = Encoded(content)
    BY <1>1 DEF MessageInv
  <1>3. content' \in Content /\ msg' = Encoded(content')
    BY <1>1, <1>2, MarkFacts, Zenon
  <1>4. msg' # None
    BY <1>3, EncodedIsMessage
  <1>5. ~clobbered' /\ clobbered' \in BOOLEAN
    BY <1>2 DEF MessageInv
  <1> QED BY <1>3, <1>4, <1>5 DEF MessageInv

\* Every step keeps the octets and the content together.
LEMMA MessageStep == MessageInv /\ [MessageNext]_messageVars => MessageInv'
  <1> SUFFICES ASSUME MessageInv, [MessageNext]_messageVars PROVE MessageInv'
    OBVIOUS
  <1>1. ASSUME NEW h \in Hosts, NEW type \in {rr_type.a, rr_type.txt}, NEW id \in Ids, Build(h, type, id)
        PROVE  MessageInv'
    <2>1. content' \in Content /\ msg' = Encoded(content')
      BY <1>1, BuildFacts, Zenon DEF Build
    <2>2. msg' # None
      BY <2>1, EncodedIsMessage
    <2>3. ~clobbered' /\ clobbered' \in BOOLEAN
      BY <1>1 DEF Build, MessageInv
    <2> QED BY <2>1, <2>2, <2>3 DEF MessageInv
  <1>2. ASSUME NEW c \in Peers, Receive(c) PROVE MessageInv'
    <2>1. content' \in Content /\ msg' = Encoded(content')
      BY <1>2, MessageAssumption DEF Receive
    <2>2. msg' # None
      BY <2>1, EncodedIsMessage
    <2>3. ~clobbered' /\ clobbered' \in BOOLEAN
      BY <1>2 DEF Receive, MessageInv
    <2> QED BY <2>1, <2>2, <2>3 DEF MessageInv
  <1>3. CASE Refuse
    <2>1. rcodes.refused \in 0 .. 15
      BY DEF rcodes
    <2> QED BY <1>3, <2>1, MarkedKeeps, Zenon DEF Refuse
  <1>4. CASE ServFail
    <2>1. rcodes.servfail \in 0 .. 15
      BY DEF rcodes
    <2> QED BY <1>4, <2>1, MarkedKeeps, Zenon DEF ServFail
  <1>5. ASSUME NEW addr \in Addresses, AnswerFromHosts(addr) PROVE MessageInv'
    <2>1. Processed /\ Answered(rr_type.a, AddressOctets(addr))
      BY <1>5 DEF AnswerFromHosts, Filtered
    <2>2. msg' = add_answer(msg, AddressOctets(addr), rr_type.a, 10)
      BY <1>5 DEF AnswerFromHosts, set_answer
    <2> QED BY <2>1, <2>2, AddressRecord, AnsweredKeeps
  <1>6. ASSUME NEW text \in Texts, AnswerCertificate(text) PROVE MessageInv'
    <2>1. Processed /\ Answered(rr_type.txt, <<Len(text)>> \o text)
      BY <1>6 DEF AnswerCertificate
    <2>2. msg' = add_answer(msg, <<Len(text)>> \o text, rr_type.txt, 10)
      BY <1>6 DEF AnswerCertificate, set_txt_answer
    <2> QED BY <2>1, <2>2, TextRecord, AnsweredKeeps
  <1>7. ASSUME NEW id \in Ids, NEW ttl \in Ttls, FromCache(id, ttl) PROVE MessageInv'
    <2>1. id \in Word /\ ttl \in Int32
      BY MessageAssumption
    <2>2. msg # None /\ Walk(msg, AllRecords(msg)).ok /\ msg' = adjust_id_and_ttl(msg, id, ttl)
      BY <1>7 DEF FromCache
    <2>3. content' = AgedContent(content, id, ttl)
      BY <1>7, Zenon DEF FromCache, AgedContent, AgedAll, AgedRecord
    <2>4. content' \in Content /\ ~clobbered /\ msg' = Encoded(content')
      BY <2>1, <2>2, <2>3, FromCacheFacts
    <2>5. msg' # None
      BY <2>4, EncodedIsMessage
    <2>6. ~clobbered' /\ clobbered' \in BOOLEAN
      BY <1>7, <2>4 DEF FromCache, MessageInv
    <2> QED BY <2>4, <2>5, <2>6 DEF MessageInv
  <1>8. CASE Discard
    BY <1>8, NoContentFacts DEF Discard, MessageInv
  <1>9. CASE UNCHANGED messageVars
    BY <1>9 DEF messageVars, MessageInv
  <1> QED BY <1>1, <1>2, <1>3, <1>4, <1>5, <1>6, <1>7, <1>8, <1>9 DEF MessageNext

\* Nothing but the lifetime of a hosts file's answer is changed once it is made.
LEMMA HostedStep == MessageInv /\ HostedInv /\ [MessageNext]_messageVars => HostedInv'
  <1> SUFFICES ASSUME MessageInv, HostedInv, [MessageNext]_messageVars PROVE HostedInv'
    OBVIOUS
  <1>1. ASSUME hosted' = hosted, msg = None \/ ~content.qr PROVE HostedInv'
    BY <1>1 DEF HostedInv
  <1>2. ASSUME NEW addr \in Addresses, AnswerFromHosts(addr) PROVE HostedInv'
    <2> DEFINE r == [form |-> "pointer", type |-> rr_type.a, class |-> internet, ttl |-> 10,
                     data |-> AddressOctets(addr)]
    <2>1. /\ hosted' = addr
          /\ content' = [content EXCEPT !.qr = TRUE, !.an = Append(@, r)]
      BY <1>2 DEF AnswerFromHosts, Answered
    <2>2. r.type = rr_type.a /\ r.data = AddressOctets(addr)
      OBVIOUS
    <2>3. content \in Content /\ content.an \in Seq(Record)
      BY DEF MessageInv, Content
    <2> HIDE DEF r
    <2>4. content'.qr = TRUE /\ content'.an = Append(content.an, r)
      BY <2>1, <2>3 DEF Content
    <2>5. r \in Record
      BY AddressRecord DEF r
    <2>6. Append(content.an, r) # <<>> /\ Append(content.an, r)[Len(Append(content.an, r))] = r
      BY <2>3, <2>5
    <2>7. msg' # None
      <3>1. DOMAIN msg'.body # {}
        <4>1. msg' = add_answer(msg, AddressOctets(addr), rr_type.a, 10)
          BY <1>2 DEF AnswerFromHosts, set_answer
        <4> QED BY <4>1 DEF add_answer
      <3> QED BY <3>1 DEF None
    <2> QED BY <2>1, <2>2, <2>4, <2>6, <2>7 DEF HostedInv
  <1>3. ASSUME NEW id \in Ids, NEW ttl \in Ttls, FromCache(id, ttl) PROVE HostedInv'
    <2>1. content' = AgedContent(content, id, ttl) /\ hosted' = hosted /\ msg # None
      BY <1>3, Zenon DEF FromCache, AgedContent, AgedAll, AgedRecord
    <2>2. content \in Content /\ content.an \in Seq(Record)
      BY DEF MessageInv, Content
    <2>3. content'.qr = content.qr /\ content'.an = AgedAll(content.an, ttl)
      BY <2>1, <2>2 DEF AgedContent, Content
    <2>4. \A i \in DOMAIN content.an :
             /\ AgedAll(content.an, ttl)[i].type = content.an[i].type
             /\ AgedAll(content.an, ttl)[i].data = content.an[i].data
      BY <2>2 DEF AgedAll, AgedRecord, Record
    <2>5. ttl \in Int32
      BY MessageAssumption
    <2>6. Len(AgedAll(content.an, ttl)) = Len(content.an)
      BY <2>2, <2>5, AgedAllFacts
    <2>7. msg' # None
      <3>1. content' \in Content /\ ~clobbered /\ msg' = Encoded(content')
        BY <1>3, <2>1, <2>5, FromCacheFacts, MessageAssumption DEF FromCache
      <3> QED BY <3>1, EncodedIsMessage
    <2>8. ASSUME content.an # <<>>
          PROVE  Len(content.an) \in DOMAIN content.an /\ AgedAll(content.an, ttl) # <<>>
      BY <2>2, <2>6, <2>8
    <2> QED BY <2>1, <2>3, <2>4, <2>6, <2>7, <2>8 DEF HostedInv
  <1>4. CASE Discard
    BY <1>4 DEF Discard, HostedInv
  <1>5. CASE UNCHANGED messageVars
    BY <1>5 DEF messageVars, HostedInv
  <1>6. ASSUME NEW h \in Hosts, NEW type \in {rr_type.a, rr_type.txt}, NEW id \in Ids, Build(h, type, id)
        PROVE  HostedInv'
    BY <1>1, <1>6 DEF Build
  <1>7. ASSUME NEW c \in Peers, Receive(c) PROVE HostedInv'
    BY <1>1, <1>7 DEF Receive
  <1>8. CASE Refuse \/ ServFail
    BY <1>1, <1>8 DEF Refuse, ServFail, Filtered, Processed
  <1>9. ASSUME NEW text \in Texts, AnswerCertificate(text) PROVE HostedInv'
    BY <1>1, <1>9 DEF AnswerCertificate, Processed
  <1> QED BY <1>2, <1>3, <1>4, <1>5, <1>6, <1>7, <1>8, <1>9 DEF MessageNext

\* The octets of a message say what is meant, whatever was done to it: built by
\* the constructor, received, answered, refused, or taken from the cache.
THEOREM MessageInvariance == MessageSpec => [](MessageInv /\ HostedInv)
  <1>1. MessageInit => HostedInv
    BY DEF MessageInit, HostedInv
  <1> QED BY <1>1, MessageInitInv, MessageStep, HostedStep, PTL DEF MessageSpec

\* Whatever has been done to a message, get_question and the walk of get_rr over
\* its records find what it is meant to say, get_txt_answer takes out the texts
\* that set_txt_answer put in, and an IPv4 address of the hosts file is listed; a
\* name that is not readable is refused.
THEOREM MessageReadsBack == MessageSpec => []ReadsBack
  BY MessageInvariance, InvReadsBack, PTL

\* answer_min_ttl is the least lifetime of the records, the extension record left
\* out, for an answer that may be cached, and zero for any other message, as long
\* as no lifetime is negative.
THEOREM MessageMinTtl == MessageSpec => []MinTtlIsLeast
  BY MessageInvariance, InvMinTtlIsLeast, PTL

\* The walk over the records refuses every message that was cut short, at any
\* octet, and every answer that was written over records its header counts.
THEOREM MessageTruncation == MessageSpec => []TruncationIsRefused
  BY MessageInvariance, InvTruncationIsRefused, PTL

\* pass_answer_downstream throws for exactly the answers with a name that is not
\* readable, a code or a class without a name, or an address of fewer than 4 or
\* more than 128 octets, and may fail for those with an address that is longer
\* than its structure.
THEOREM MessageAnswerEnds == MessageSpec => []AnswerEndsForReason
  BY MessageInvariance, InvAnswerEndsForReason, PTL

=============================================================================
