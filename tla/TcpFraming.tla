---------------------------- MODULE TcpFraming ----------------------------
(***************************************************************************)
(* One direction of a TCP connection: tcp_connection::tcp_send and         *)
(* tcp_receive in network/srcz/connection.cpp.  A message is sent behind   *)
(* two octets with its length.  TCP delivers octets, not messages: what one*)
(* recv finds may be part of a message or more than one.                   *)
(*                                                                         *)
(* tcp_receive runs in one callback on a socket that does not block, but   *)
(* octets may arrive between two of its calls to recv.  A net_error is     *)
(* caught by the callback, which closes the connection; every other        *)
(* exception leaves the callback and ends the event loop.                  *)
(***************************************************************************)
EXTENDS Integers, Sequences

CONSTANTS
    Messages,    \* the messages that cdns sends
    BadFrames,   \* what other programs may send: frames of length 0 or too long
    Reserved,    \* the size of the receiver's buffer
    MaxFrames    \* bound: frames sent

Octet == 0 .. 255

\* The largest number that two octets can hold.
MaxLength == 65535

ASSUME MessagesAssumption ==
    \A m \in Messages : m \in Seq(Octet) /\ Len(m) \in 1 .. Reserved - 2

ASSUME FramesAssumption ==
    \A f \in BadFrames :
        /\ f \in Seq(Octet) /\ Len(f) >= 2
        /\ LET length == f[1] * 256 + f[2] IN length = 0 \/ length + 2 > Reserved

ASSUME BoundAssumption == Reserved \in 2 .. MaxLength /\ MaxFrames \in Nat

VARIABLES
    frames,   \* history: the frames that the peer has begun to send
    wire,     \* octets on their way
    sock,     \* octets in the receiver's socket
    shut,     \* the peer has closed its side
    pc,       \* the receiver: idle, more (in the loop), or how the callback ended
    buf,      \* the octets received so far: q
    got       \* the message given to the caller

vars == <<frames, wire, sock, shut, pc, buf, got>>

Outcomes == {"message", "net_error", "escape"}

Frame(m) == <<Len(m) \div 256, Len(m) % 256>> \o m

\* tcp_n: the length that the first two octets announce, with these two.
Announced(octets) == octets[1] * 256 + octets[2] + 2

Payload(octets) == SubSeq(octets, 3, Len(octets))

Init ==
    /\ frames = <<>> /\ wire = <<>> /\ sock = <<>> /\ shut = FALSE
    /\ pc = "idle" /\ buf = <<>> /\ got = <<>>

-----------------------------------------------------------------------------
(* The sender *)

\* Mutant of Send: a send that takes only a part is taken for a whole one.
SendPart(m, n) ==
    /\ ~shut /\ Len(frames) < MaxFrames /\ n \in 1 .. Len(Frame(m))
    /\ frames' = Append(frames, Frame(m))
    /\ wire' = wire \o SubSeq(Frame(m), 1, n)
    /\ UNCHANGED <<shut, sock, pc, buf, got>>

\* tcp_send: one call of send takes n of the octets.  When it is not all of
\* them, a logic_error ends the sender.
Send(m, n) ==
    /\ ~shut /\ Len(frames) < MaxFrames /\ n \in 1 .. Len(Frame(m))
    /\ frames' = Append(frames, Frame(m))
    /\ wire' = wire \o SubSeq(Frame(m), 1, n)
    /\ shut' = (n < Len(Frame(m)))
    /\ UNCHANGED <<sock, pc, buf, got>>

\* Other programs may send other frames.
OtherSends(f) ==
    /\ ~shut /\ Len(frames) < MaxFrames
    /\ frames' = Append(frames, f)
    /\ wire' = wire \o f
    /\ UNCHANGED <<shut, sock, pc, buf, got>>

\* The peer closes, or its send has failed.
Shut ==
    /\ ~shut /\ shut' = TRUE
    /\ UNCHANGED <<frames, wire, sock, pc, buf, got>>

\* The network brings the next n octets.
Arrive(n) ==
    /\ n \in 1 .. Len(wire)
    /\ sock' = sock \o SubSeq(wire, 1, n)
    /\ wire' = SubSeq(wire, n + 1, Len(wire))
    /\ UNCHANGED <<frames, shut, pc, buf, got>>

-----------------------------------------------------------------------------
(* The receiver *)

\* What recv with the given room takes out of the socket.
Taken(room) == IF Len(sock) <= room THEN Len(sock) ELSE room

\* Behind the loop: the octets must be exactly one message.
AfterLoop(octets) ==
    IF Len(octets) = Announced(octets)
    THEN pc' = "message" /\ got' = Payload(octets)
    ELSE pc' = "escape" /\ UNCHANGED got

\* The loop's condition, with the octets that are there.
Loop(octets) ==
    IF Len(octets) < Announced(octets) THEN pc' = "more" /\ UNCHANGED got
    ELSE AfterLoop(octets)

\* Mutant of Refused: the two octets of the length are counted twice.
RefusedEarly(octets) ==
    Len(octets) < 2 \/ Announced(octets) = 2 \/ Announced(octets) + 2 > Reserved

\* The exceptions for what the first call of recv has found.
Refused(octets) ==
    \/ Len(octets) < 2
    \/ Announced(octets) = 2
    \/ Announced(octets) > MaxLength
    \/ Announced(octets) > Reserved

\* The socket is readable.  At the end of the stream recv finds nothing.
FirstReceive ==
    /\ pc = "idle"
    /\ sock # <<>> \/ (shut /\ wire = <<>>)
    /\ buf' = SubSeq(sock, 1, Taken(Reserved))
    /\ sock' = SubSeq(sock, Taken(Reserved) + 1, Len(sock))
    /\ IF sock = <<>> THEN pc' = "net_error" /\ UNCHANGED got
       ELSE IF Refused(buf') THEN pc' = "escape" /\ UNCHANGED got
       ELSE Loop(buf')
    /\ UNCHANGED <<frames, wire, shut>>

\* One turn of the loop: recv fails when nothing has arrived.
ReceiveMore ==
    /\ pc = "more"
    /\ LET n == Taken(Reserved - Len(buf))
       IN  /\ buf' = buf \o SubSeq(sock, 1, n)
           /\ sock' = SubSeq(sock, n + 1, Len(sock))
    /\ IF sock = <<>> THEN pc' = "net_error" /\ UNCHANGED got ELSE Loop(buf')
    /\ UNCHANGED <<frames, wire, shut>>

Next ==
    \/ \E m \in Messages : \E n \in 1 .. Len(Frame(m)) : Send(m, n)
    \/ \E f \in BadFrames : OtherSends(f)
    \/ Shut
    \/ \E n \in 1 .. Len(wire) : Arrive(n)
    \/ FirstReceive \/ ReceiveMore

Spec == Init /\ [][Next]_vars

-----------------------------------------------------------------------------
(* Properties *)

Good(f) == \E m \in Messages : f = Frame(m)

\* However the octets are cut, and whatever is lost when the sender ends in
\* the middle: the message that tcp_receive returns is the first one sent,
\* whole and alone, and the receiver never holds more than its buffer.
WholeMessages ==
    /\ pc = "message" => Good(frames[1]) /\ got = Payload(frames[1])
    /\ Len(buf) <= Reserved

\* tcp_receive ends the event loop only for a reason outside of the sender
\* being slow: a frame that is not good, more than one frame, or a first
\* delivery of a single octet.
EscapeHasReason ==
    pc = "escape" => Len(frames) > 1 \/ ~Good(frames[1]) \/ Len(buf) = 1

-----------------------------------------------------------------------------
(* The inductive invariant of the proofs *)

\* Every octet that the peer has sent, in the order in which recv finds them.
Stream == buf \o (sock \o wire)

Frames == {Frame(m) : m \in Messages} \union BadFrames

TypeOK ==
    /\ frames \in Seq(Frames)
    /\ wire \in Seq(Octet) /\ sock \in Seq(Octet) /\ buf \in Seq(Octet)
    /\ got \in Seq(Octet)
    /\ shut \in BOOLEAN /\ pc \in {"idle", "more"} \union Outcomes

\* The stream begins with the first frame.  Only a peer that has gone can have
\* left that frame unfinished, and only a second frame makes the stream longer.
StreamBegins ==
    /\ frames = <<>> => Stream = <<>>
    /\ frames # <<>> =>
        /\ \A i \in 1 .. Len(Stream) : i <= Len(frames[1]) => Stream[i] = frames[1][i]
        /\ Len(Stream) < Len(frames[1]) => shut
        /\ Len(frames) = 1 => Len(Stream) <= Len(frames[1])

\* What the receiver holds at each of its points.
ReceiverInv ==
    /\ pc = "idle" => buf = <<>>
    /\ pc = "escape" => buf # <<>>
    /\ pc = "more" => ~Refused(buf) /\ Len(buf) < Announced(buf)
    /\ pc = "message" =>
        ~Refused(buf) /\ Len(buf) = Announced(buf) /\ got = Payload(buf)

Inv == TypeOK /\ StreamBegins /\ ReceiverInv /\ WholeMessages /\ EscapeHasReason

=============================================================================
