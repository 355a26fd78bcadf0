------------------------------ MODULE Padding ------------------------------
(***************************************************************************)
(* Padding and sizes of DNScrypt packets: pad_buffer, find_end, and the    *)
(* sizes that the two functions curve reckon with.  A packet's text is a   *)
(* sequence of octets.  The sizes of the code are parameters:              *)
(* BlockSize 64, MinPad 8, QueryHead 68, ResponseHead 48, MaxSize 55535.   *)
(***************************************************************************)
EXTENDS Integers, Sequences

CONSTANTS
    BlockSize,      \* padded texts are multiples of this where there is room
    MinPad,         \* octets of padding at least
    QueryHead,      \* octets before the text of an encrypted question, with the MAC
    ResponseHead,   \* the same of an answer
    MaxSize         \* octets reserved in a packet: query::max_size

ASSUME SizesAssumption ==
    /\ BlockSize \in Nat \ {0} /\ MinPad \in Nat \ {0} /\ MaxSize \in Nat
    /\ QueryHead \in Nat /\ ResponseHead \in 0 .. QueryHead
    /\ MinPad + 2 <= 2 * QueryHead

EndMark == 128   \* 0x80

Octets == 0 .. 255

\* The length up to which a text is padded, when there is room for MinPad.
PaddedLen(len, room, rnd) ==
    LET raw == len + MinPad + rnd
        whole == raw + (BlockSize - (raw % BlockSize))
    IN  IF whole > room THEN room ELSE whole

\* What rndfunc may return.
Rnd(len, room) == IF room < len + MinPad THEN {0} ELSE 0 .. room - len - MinPad

\* Mutant of pad_buffer: only zeros are written behind the text.
PadUnmarked(text, room, rnd) ==
    IF room < Len(text) + MinPad THEN text
    ELSE text \o [i \in 1 .. PaddedLen(Len(text), room, rnd) - Len(text) |-> 0]

\* n octets of padding: the mark and zeros.
PadOctets(n) == [i \in 1 .. n |-> IF i = 1 THEN EndMark ELSE 0]

\* Mutant of pad_buffer: exactly MinPad octets of room are not used.
PadOffByOne(text, room, rnd) ==
    IF room <= Len(text) + MinPad THEN text
    ELSE text \o PadOctets(PaddedLen(Len(text), room, rnd) - Len(text))

\* A text without room for MinPad octets is left without any padding.
pad_buffer(text, room, rnd) ==
    IF room < Len(text) + MinPad THEN text
    ELSE text \o PadOctets(PaddedLen(Len(text), room, rnd) - Len(text))

\* Where find_end stops: at the last octet that is not zero, or at the first one.
Stop(text) ==
    CHOOSE k \in 1 .. Len(text) :
        /\ k = 1 \/ text[k] # 0
        /\ \A i \in k + 1 .. Len(text) : text[i] = 0

\* find_end throws when it does not stop at an end mark.
HasEnd(text) == text[Stop(text)] = EndMark

find_end(text) == Stop(text) - 1

-----------------------------------------------------------------------------
\* max_len and mxsz: the octets that an encrypted packet may take.
Space(len) ==
    IF 3 * (len + QueryHead) < MaxSize THEN 3 * (len + QueryHead) ELSE MaxSize

\* The room for the padded text; two octets are kept for the length before a
\* message over TCP.  An answer is reckoned with the head of a question, too.
Room(len) == Space(len) - QueryHead - 2

\* The client's curve throws: "not enough space allocated".
NoSpace(len) == Space(len) < len + QueryHead

\* The length is so near the limit that a text is encrypted without padding.
Full(len) == len > MaxSize - QueryHead - 2 - MinPad

=============================================================================
