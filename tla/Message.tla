------------------------------ MODULE Message ------------------------------
(***************************************************************************)
(* DNS messages: dns/srcz/query.cpp.  The class reads and changes messages *)
(* in place, by walking over octets; it never builds them from a parsed    *)
(* form.  The model follows it octet by octet behind the 12 octets of the  *)
(* header, whose fields are a record (header and set_header are inverse to *)
(* each other).                                                            *)
(*                                                                         *)
(* A message lives as in the responder: it is made by the constructor or   *)
(* comes from a peer; it is answered from the hosts file, or with a        *)
(* certificate, or refused; it is taken from the cache with another id and *)
(* ttl.  `content' is what its octets are meant to say, and `hosted' the   *)
(* address it was answered with.                                           *)
(***************************************************************************)
EXTENDS Integers, Sequences, FiniteSets, SequencesExt

CONSTANTS
    Hosts,       \* host names, without a final dot
    Peers,       \* what peers' messages say: a set of contents
    Ids,         \* message ids
    Ttls,        \* lifetimes given to cached answers
    Addresses,   \* the hosts file's addresses: [inet, octets]
    ServerName,  \* the host name of a DNSCrypt server
    Texts,       \* the certificates of a server: texts of TXT records
    MaxAnswers   \* bound: records in the answer section

VARIABLES
    msg,        \* the message; no message: None
    content,    \* history: what the message is meant to say
    hosted,     \* history: the hosts file's address in the last answer
    clobbered   \* history: an answer was written over other records

messageVars == <<msg, content, hosted, clobbered>>

None      == [head |-> <<>>, body |-> <<>>]
NoAddress == [inet |-> "none", octets |-> <<>>]

HeaderSize   == 12
LabelLimit   == 64
Pointer      == 192
MaxHostName  == 256
IntMax       == 2147483647
Dot          == 46

rr_type  == [a |-> 1, ns |-> 2, txt |-> 16, aaaa |-> 28, opt |-> 41]
internet == 1
rcodes   == [noerror |-> 0, servfail |-> 2, nxdomain |-> 3, refused |-> 5]

-----------------------------------------------------------------------------
(* Octets *)

Size(m) == HeaderSize + Len(m.body)

At(m, o) == m.body[o - HeaderSize + 1]

\* The octets from offset `from' to before offset `to'.
Slice(m, from, to) == SubSeq(m.body, from - HeaderSize + 1, to - HeaderSize)

\* ntohs and htons, ntohl and htonl: numbers are big-endian, a ttl is signed.
ntohs(m, o) == At(m, o) * 256 + At(m, o + 1)

htons(n) == <<n \div 256, n % 256>>

ntohl(m, o) ==
    LET high == IF At(m, o) >= 128 THEN At(m, o) - 256 ELSE At(m, o)
    IN  high * 16777216 + At(m, o + 1) * 65536 + ntohs(m, o + 2)

htonl(n) == htons((n \div 65536) % 65536) \o htons(n % 65536)

is_dns_char(c) == c \in (48 .. 57) \cup (65 .. 90) \cup (97 .. 122) \cup {45}

-----------------------------------------------------------------------------
(* Reading.  A result with ok = FALSE is a std::runtime_error. *)

Throws == [ok |-> FALSE]

\* The label text in front of the name that follows it.
Labelled(text, rest) ==
    IF ~rest.ok \/ \E i \in DOMAIN text : ~is_dns_char(text[i]) THEN Throws
    ELSE [rest EXCEPT !.owner = text \o <<Dot>> \o @]

NotTooLong(name) == IF name.ok /\ Len(name.owner) <= MaxHostName THEN name ELSE Throws

\* The name at offset o, given the names that begin behind it.  A pointer ends
\* the name and is not followed.
NameStep(m, names, o) ==
    CASE At(m, o) >= Pointer ->
            IF o + 2 > Size(m) THEN Throws
            ELSE [ok |-> TRUE, off |-> o + 2, owner |-> <<>>]
      [] At(m, o) \in LabelLimit .. Pointer - 1 -> Throws
      [] At(m, o) < LabelLimit ->
            IF o + 1 + At(m, o) >= Size(m) THEN Throws
            ELSE IF At(m, o) = 0 THEN [ok |-> TRUE, off |-> o + 1, owner |-> <<>>]
            ELSE Labelled(Slice(m, o + 1, o + 1 + At(m, o)), names[o + 1 + At(m, o)])

\* The name at off and the offset behind it.
get_rr_name(m, off) ==
    LET walk[o \in HeaderSize .. Size(m) - 1] == NameStep(m, walk, o)
    IN  IF off + 1 >= Size(m) THEN Throws ELSE NotTooLong(walk[off])

QuestionAfter(m, name) ==
    IF ~name.ok \/ name.off + 4 > Size(m) THEN Throws
    ELSE [ok    |-> TRUE, off |-> name.off + 4, owner |-> name.owner,
          type  |-> ntohs(m, name.off), class |-> ntohs(m, name.off + 2)]

get_rr_question(m, off) == QuestionAfter(m, get_rr_name(m, off))

\* A record behind its name; its data begin at name.off + 10.
RecordTo(m, name, end) ==
    [ok    |-> TRUE, off |-> end, owner |-> name.owner,
     type  |-> ntohs(m, name.off), class |-> ntohs(m, name.off + 2),
     ttl   |-> ntohl(m, name.off + 4), data |-> Slice(m, name.off + 10, end)]

\* Mutant of RecordAfter: the record's data may end behind the message.
LongRecord(m, name) ==
    IF ~name.ok \/ name.off + 10 > Size(m) THEN Throws
    ELSE LET end == name.off + 10 + ntohs(m, name.off + 8)
         IN  RecordTo(m, name, IF end > Size(m) THEN Size(m) ELSE end)

RecordAfter(m, name) ==
    IF ~name.ok \/ name.off + 10 > Size(m) THEN Throws
    ELSE LET end == name.off + 10 + ntohs(m, name.off + 8)
         IN  IF end > Size(m) THEN Throws ELSE RecordTo(m, name, end)

get_rr(m, off) == RecordAfter(m, get_rr_name(m, off))

\* The loops over records: what is known after one more record r.  `at' holds
\* the offset of each record's fixed part.
WalkedOn(sofar, r) ==
    IF ~r.ok THEN Throws
    ELSE [ok  |-> TRUE, off |-> r.off, rrs |-> Append(sofar.rrs, r),
          at  |-> Append(sofar.at, r.off - Len(r.data) - 10)]

WalkOn(m, sofar) ==
    IF ~sofar.ok THEN Throws ELSE WalkedOn(sofar, get_rr(m, sofar.off))

WalkFrom(q) == IF q.ok THEN [ok |-> TRUE, off |-> q.off, rrs |-> <<>>, at |-> <<>>] ELSE Throws

\* The walk over the question and n records.
Walk(m, n) ==
    LET walk[k \in 0 .. n] ==
            IF k = 0 THEN WalkFrom(get_rr_question(m, HeaderSize)) ELSE WalkOn(m, walk[k - 1])
    IN  walk[n]

AllRecords(m) == m.head.ancount + m.head.nscount + m.head.arcount

is_dns(m) == Size(m) >= 15 /\ m.head.qdcount = 1 /\ m.head.arcount <= 1

get_question(m) ==
    IF m.head.qdcount # 1 THEN Throws ELSE get_rr_question(m, HeaderSize)

\* Mutant of LeastTtl: the extension record counts.
LeastOfAll(rrs) ==
    LET ttls == {IntMax} \cup {rrs[i].ttl : i \in DOMAIN rrs}
    IN  CHOOSE t \in ttls : \A u \in ttls : t <= u

LeastTtl(rrs) ==
    LET ttls == {IntMax} \cup
                {rrs[i].ttl : i \in {k \in DOMAIN rrs : rrs[k].type # rr_type.opt}}
    IN  CHOOSE t \in ttls : \A u \in ttls : t <= u

\* What answer_min_ttl makes of the question and the walk.
MinTtlOf(q, w) ==
    IF ~q.ok THEN Throws
    ELSE IF q.class # internet THEN [ok |-> TRUE, ttl |-> 0]
    ELSE IF ~w.ok THEN Throws
    ELSE [ok |-> TRUE, ttl |-> LeastTtl(w.rrs)]

answer_min_ttl(m) ==
    IF m.head.tc \/ m.head.rcode \notin {rcodes.noerror, rcodes.nxdomain}
       \/ ~m.head.qr \/ AllRecords(m) = 0
    THEN [ok |-> TRUE, ttl |-> 0]
    ELSE MinTtlOf(get_rr_question(m, HeaderSize), Walk(m, AllRecords(m)))

IsTxt(r) == r.type = rr_type.txt /\ r.class = internet

\* The TXT records among the records.
TxtRecords(rrs) ==
    LET found[n \in 0 .. Len(rrs)] ==
            IF n = 0 THEN <<>>
            ELSE IF IsTxt(rrs[n])
                 THEN Append(found[n - 1], rrs[n]) ELSE found[n - 1]
    IN  found[Len(rrs)]

TxtData(rrs) ==
    LET txts == TxtRecords(rrs) IN [i \in DOMAIN txts |-> txts[i].data]

TxtOf(w) == IF w.ok THEN [ok |-> TRUE, txt |-> TxtData(w.rrs)] ELSE Throws

find_txt_answers(m) == TxtOf(Walk(m, m.head.ancount))

\* The texts without the octet of their length.
WithoutLength(found) ==
    IF ~found.ok THEN Throws
    ELSE [found EXCEPT !.txt = [i \in DOMAIN @ |-> IF @[i] = <<>> THEN <<>> ELSE Tail(@[i])]]

get_txt_answer(m) == WithoutLength(find_txt_answers(m))

\* pkt_rcode_cstr and rr_class_cstr throw for codes and classes without a name;
\* all types have one.
pkt_rcode_cstr(rcode) == rcode \in 0 .. 10

rr_class_cstr(class) == class \in {internet, 3, 4, 254, 255}

\* From the address in a sockaddr_in or a sockaddr_in6 to the end of it.
RoomFor(type) == IF type = rr_type.a THEN 12 ELSE 20

\* Mutant of AddressFits: an address of just four octets is too short.
AddressLonger(r) ==
    IF Len(r.data) \notin 5 .. 128 THEN {FALSE}
    ELSE IF Len(r.data) > RoomFor(r.type) THEN BOOLEAN ELSE {TRUE}

\* Whether network::address can be made of a record's data: it throws for data
\* shorter than an IPv4 address or longer than a sockaddr_storage.  In between it
\* copies them all, and past the end of the structure anything may happen.
AddressFits(r) ==
    IF Len(r.data) \notin 4 .. 128 THEN {FALSE}
    ELSE IF Len(r.data) > RoomFor(r.type) THEN BOOLEAN ELSE {TRUE}

\* Whether short_info can say what is in the record of an answer.
Described(r) ==
    IF r.class = internet /\ r.type \in {rr_type.a, rr_type.aaaa} THEN AddressFits(r)
    ELSE {r.class = internet \/ rr_class_cstr(r.class)}

\* What short_info makes of the question and the walk: text, or an exception.
InfoOf(rcode, q, w) ==
    IF ~(pkt_rcode_cstr(rcode) /\ q.ok /\ rr_class_cstr(q.class) /\ w.ok)
       \/ \E i \in DOMAIN w.rrs : Described(w.rrs[i]) = {FALSE}
    THEN {FALSE}
    ELSE {TRUE} \cup UNION {Described(w.rrs[i]) : i \in DOMAIN w.rrs}

short_info(m) ==
    InfoOf(m.head.rcode, get_rr_question(m, HeaderSize), Walk(m, m.head.ancount))

\* pass_answer_downstream logs every answer and stores the good ones.  FALSE: it
\* throws, and the process ends, for on_receive catches network errors only.
pass_answer_downstream(m) ==
    IF m.head.rcode \in {rcodes.noerror, rcodes.nxdomain} /\ ~answer_min_ttl(m).ok
    THEN {FALSE} ELSE short_info(m)

\* Whether the question asks for the certificate of `hostname'.
AsksFor(q, hostname) ==
    q.ok /\ q.owner = Append(hostname, Dot) /\ q.type = rr_type.txt /\ q.class = internet

is_dnscrypt_certificate_request(m, hostname) ==
    m.head.qdcount = 1 /\ AsksFor(get_rr_question(m, HeaderSize), hostname)

-----------------------------------------------------------------------------
(* Writing *)

\* The constructor writes the characters of the host name where they stand
\* and the length of each label in the place of the dot before it.
NameOctets(h) ==
    LET end       == IF h = <<>> \/ h[Len(h)] = Dot THEN Len(h) ELSE Len(h) + 1
        dots      == {i \in 1 .. Len(h) : h[i] = Dot} \cup {Len(h) + 1}
        nextDot(k) == CHOOSE i \in dots : i > k /\ \A j \in dots : j > k => i <= j
        octet(k)  == IF k = Len(h) + 1 THEN 0
                     ELSE IF k = 0 \/ k \in dots THEN nextDot(k) - k - 1
                     ELSE h[k]
    IN  [i \in 1 .. end + 1 |-> octet(i - 1)]

\* The octets that hold the length of a label hold no more than 63.
LabelsFit(h) ==
    \A k \in 0 .. Len(h) : (k = 0 \/ h[k] = Dot) => NameOctets(h)[k + 1] < LabelLimit

\* query::query (hostname, type, id) throws for other host names.
Buildable(h) ==
    /\ Len(h) <= MaxHostName
    /\ \A i \in 1 .. Len(h) : is_dns_char(h[i]) \/ h[i] = Dot
    /\ LabelsFit(h)

query(h, type, id) ==
    [head |-> [id |-> id, qr |-> FALSE, tc |-> FALSE, rcode |-> rcodes.noerror, qdcount |-> 1,
               ancount |-> 0, nscount |-> 0, arcount |-> 0],
     body |-> NameOctets(h) \o htons(type) \o htons(internet)]

\* Appends an answer behind the question and the answers, over whatever
\* stands there.  The walk over them must not throw.
add_answer(m, data, type, ttl) ==
    [head |-> [m.head EXCEPT !.ancount = @ + 1, !.qr = TRUE],
     body |-> Slice(m, HeaderSize, Walk(m, m.head.ancount).off)
              \o (<<Pointer, HeaderSize>> \o htons(type) \o htons(internet) \o htonl(ttl)
                  \o htons(Len(data)) \o data)]

\* The address is read as an IPv4 one: in an IPv6 address the flow label,
\* zero, stands there.
AddressOctets(addr) == IF addr.inet = "ipv4" THEN addr.octets ELSE <<0, 0, 0, 0>>

set_answer(m, addr) == add_answer(m, AddressOctets(addr), rr_type.a, 10)

set_txt_answer(m, text) == add_answer(m, <<Len(text)>> \o text, rr_type.txt, 10)

\* Mutant of WithTtl: the extension record is changed too.
AllTtls(m, w, ttl) ==
    [i \in DOMAIN m.body |->
        LET hit == {k \in DOMAIN w.at : i + HeaderSize - 1 \in w.at[k] + 4 .. w.at[k] + 7}
        IN  IF hit = {} THEN m.body[i]
            ELSE htonl(ttl)[i + HeaderSize - 1 - (w.at[CHOOSE k \in hit : TRUE] + 3)]]

\* The octets of m with the ttl of each record of the walk w replaced, except
\* in the extension record.
WithTtl(m, w, ttl) ==
    [i \in DOMAIN m.body |->
        LET hit == {k \in DOMAIN w.at : /\ w.rrs[k].type # rr_type.opt
                                       /\ i + HeaderSize - 1 \in w.at[k] + 4 .. w.at[k] + 7}
        IN  IF hit = {} THEN m.body[i]
            ELSE htonl(ttl)[i + HeaderSize - 1 - (w.at[CHOOSE k \in hit : TRUE] + 3)]]

adjust_id_and_ttl(m, id, ttl) ==
    [head |-> [m.head EXCEPT !.id = id], body |-> WithTtl(m, Walk(m, AllRecords(m)), ttl)]

mark(m, rcode) == [m EXCEPT !.head.rcode = rcode, !.head.qr = TRUE]

-----------------------------------------------------------------------------
(* What a peer sends: the octets of a content.  A record's owner is written *)
(* as a pointer to the question's name, in full, or it is the root.         *)

Owner(form, host) == CASE form = "pointer" -> <<Pointer, HeaderSize>>
                       [] form = "full"    -> NameOctets(host)
                       [] form = "root"    -> <<0>>

RecordOctets(host, r) ==
    Owner(r.form, host) \o htons(r.type) \o htons(r.class) \o htonl(r.ttl)
    \o htons(Len(r.data)) \o r.data

Records(c) == c.an \o c.ns \o c.ar

\* The octets of the question and of the records up to the n-th.
OctetsTo(c, n) ==
    LET octets[k \in 0 .. n] ==
            IF k = 0 THEN NameOctets(c.host) \o htons(c.type) \o htons(c.class)
            ELSE octets[k - 1] \o RecordOctets(c.host, Records(c)[k])
    IN  octets[n]

Encoded(c) ==
    [head |-> [id |-> c.id, qr |-> c.qr, tc |-> c.tc, rcode |-> c.rcode, qdcount |-> 1,
               ancount |-> Len(c.an), nscount |-> Len(c.ns), arcount |-> Len(c.ar)],
     body |-> OctetsTo(c, Len(Records(c)))]

-----------------------------------------------------------------------------
(* The messages that the constants stand for *)

Byte   == 0 .. 255
Word   == {n \in Nat : n < 65536}
Int32  == {n \in Int : 0 - IntMax - 1 <= n /\ n <= IntMax}

\* A name without a final dot, none of whose labels is empty.
IsHostName(h) ==
    /\ h \in Seq(Byte)
    /\ \A i \in 1 .. Len(h) : h[i] = Dot => i # 1 /\ i # Len(h) /\ h[i + 1] # Dot

\* What a TXT record holds is one text.
Record ==
    {r \in [form : {"pointer", "full", "root"}, type : Word, class : Word,
            ttl : Int32, data : Seq(Byte)] :
        /\ Len(r.data) \in Word
        /\ IsTxt(r) => r.data # <<>> /\ r.data[1] = Len(r.data) - 1}

Content ==
    {c \in [id : Word, host : Seq(Byte), type : Word, class : Word, qr : BOOLEAN,
            tc : BOOLEAN, rcode : 0 .. 15, an : Seq(Record), ns : Seq(Record),
            ar : Seq(Record)] :
        IsHostName(c.host) /\ LabelsFit(c.host)}

ASSUME MessageAssumption ==
    /\ MaxAnswers \in Nat
    /\ Ids \subseteq Word /\ Ttls \subseteq Int32
    /\ \A h \in Hosts : IsHostName(h)
    /\ Peers \subseteq Content
    /\ \A a \in Addresses :
          /\ a.inet \in {"ipv4", "ipv6"}
          /\ a.inet = "ipv4" => a.octets \in Seq(Byte) /\ Len(a.octets) = 4
    /\ \A text \in Texts : text \in Seq(Byte) /\ Len(text) \in Byte

-----------------------------------------------------------------------------
(* The life of a message *)

NoContent == [id |-> 0, host |-> <<>>, type |-> 0, class |-> 0, qr |-> FALSE, tc |-> FALSE,
              rcode |-> 0, an |-> <<>>, ns |-> <<>>, ar |-> <<>>]

MessageInit == msg = None /\ content = NoContent /\ hosted = NoAddress /\ clobbered = FALSE

\* The constructor: the certifier and cdrill make their queries with it.
Build(h, type, id) ==
    /\ msg = None /\ Buildable(h)
    /\ msg' = query(h, type, id)
    /\ content' = [NoContent EXCEPT !.id = id, !.host = h, !.type = type, !.class = internet]
    /\ UNCHANGED <<hosted, clobbered>>

Receive(c) ==
    /\ msg = None
    /\ msg' = Encoded(c) /\ content' = c
    /\ UNCHANGED <<hosted, clobbered>>

\* The responder drops what is_dns refuses, and reads the question of the rest.
Processed == msg # None /\ ~content.qr /\ is_dns(msg) /\ get_question(msg).ok

\* The filter throws for the root, whose name is empty.
Filtered == Processed /\ get_question(msg).owner # <<>>

Refuse ==
    /\ Filtered
    /\ msg' = mark(msg, rcodes.refused)
    /\ content' = [content EXCEPT !.rcode = rcodes.refused, !.qr = TRUE]
    /\ UNCHANGED <<hosted, clobbered>>

ServFail ==
    /\ Filtered
    /\ msg' = mark(msg, rcodes.servfail)
    /\ content' = [content EXCEPT !.rcode = rcodes.servfail, !.qr = TRUE]
    /\ UNCHANGED <<hosted, clobbered>>

\* An answer of the given data is appended; the walk over the answers that
\* the query may hold already must not throw.
Answered(type, data) ==
    /\ Walk(msg, msg.head.ancount).ok
    /\ content' = [content EXCEPT !.qr = TRUE, !.an = Append(@,
            [form |-> "pointer", type |-> type, class |-> internet, ttl |-> 10, data |-> data])]
    /\ clobbered' = (content.ns \o content.ar # <<>>)

\* pre_filter finds the name in the hosts file, whatever type is asked for.
AnswerFromHosts(addr) ==
    /\ Filtered /\ Len(content.an) < MaxAnswers
    /\ msg' = set_answer(msg, addr)
    /\ Answered(rr_type.a, AddressOctets(addr))
    /\ hosted' = addr

\* A DNSCrypt server answers the question for its certificate.
AnswerCertificate(text) ==
    /\ Processed /\ Len(content.an) < MaxAnswers
    /\ is_dnscrypt_certificate_request(msg, ServerName)
    /\ msg' = set_txt_answer(msg, text)
    /\ Answered(rr_type.txt, <<Len(text)>> \o text)
    /\ UNCHANGED hosted

\* cache::retrieve gives a stored answer a new id and the rest of its life.
FromCache(id, ttl) ==
    /\ msg # None /\ content.qr /\ ~content.tc
    /\ content.rcode \in {rcodes.noerror, rcodes.nxdomain}
    /\ Walk(msg, AllRecords(msg)).ok
    /\ msg' = adjust_id_and_ttl(msg, id, ttl)
    /\ LET aged(rrs) == [i \in DOMAIN rrs |->
                            IF rrs[i].type = rr_type.opt THEN rrs[i] ELSE [rrs[i] EXCEPT !.ttl = ttl]]
       IN  content' = [content EXCEPT !.id = id, !.an = aged(@), !.ns = aged(@), !.ar = aged(@)]
    /\ UNCHANGED <<hosted, clobbered>>

\* The message has been sent, or an exception has left the callback.
Discard ==
    /\ msg # None
    /\ msg' = None /\ content' = NoContent /\ hosted' = NoAddress /\ clobbered' = FALSE

MessageNext ==
    \/ \E h \in Hosts, type \in {rr_type.a, rr_type.txt}, id \in Ids : Build(h, type, id)
    \/ \E c \in Peers : Receive(c)
    \/ Refuse \/ ServFail
    \/ \E addr \in Addresses : AnswerFromHosts(addr)
    \/ \E text \in Texts : AnswerCertificate(text)
    \/ \E id \in Ids, ttl \in Ttls : FromCache(id, ttl)
    \/ Discard

MessageSpec == MessageInit /\ [][MessageNext]_messageVars

-----------------------------------------------------------------------------
(* Properties *)

FullName(h) == IF h = <<>> THEN <<>> ELSE Append(h, Dot)

\* The names that get_rr_name accepts: letters, digits and hyphens, and no
\* more than 256 characters with the final dot.
Readable(h) ==
    Len(FullName(h)) <= MaxHostName /\ \A i \in DOMAIN h : is_dns_char(h[i]) \/ h[i] = Dot

Whole == msg # None /\ ~clobbered /\ Readable(content.host)

\* An answer with an IPv6 address of the hosts file, which query.cpp:416 asserts
\* away and hosts.cpp:54 lets in, is not what was meant: it says 0.0.0.0.
Intact == Whole /\ hosted.inet # "ipv6"

QuestionSays(q, c) ==
    q.ok /\ q.owner = FullName(c.host) /\ q.type = c.type /\ q.class = c.class

RecordSays(got, r, host) ==
    /\ got.type = r.type /\ got.class = r.class /\ got.ttl = r.ttl /\ got.data = r.data
    /\ got.owner = IF r.form = "full" THEN FullName(host) ELSE <<>>

RecordsSay(w, c) ==
    /\ w.ok /\ w.off = Size(msg) /\ Len(w.rrs) = Len(Records(c))
    /\ \A i \in DOMAIN w.rrs : RecordSays(w.rrs[i], Records(c)[i], c.host)

SameTexts(got, txts) ==
    /\ got.ok /\ Len(got.txt) = Len(txts)
    /\ \A i \in DOMAIN txts : <<Len(got.txt[i])>> \o got.txt[i] = txts[i].data

\* The last answer is a record of the address's family and holds the address.
Lists(w, addr) ==
    /\ w.ok /\ w.rrs # <<>>
    /\ w.rrs[Len(w.rrs)].type = IF addr.inet = "ipv4" THEN rr_type.a ELSE rr_type.aaaa
    /\ w.rrs[Len(w.rrs)].data = addr.octets

\* Whatever has been done to a message, get_question and the walk of get_rr
\* over its records find what it is meant to say, and end where it ends; the
\* texts that set_txt_answer put in are those get_txt_answer takes out, and an
\* answer from the hosts file lists the IPv4 address it has there; a name that is
\* not readable is refused, never read as another one.
ReadsBack ==
    /\ msg # None => get_question(msg).ok = Readable(content.host)
    /\ Intact => /\ QuestionSays(get_question(msg), content)
                 /\ RecordsSay(Walk(msg, AllRecords(msg)), content)
                 /\ msg.head.id = content.id
                 /\ SameTexts(get_txt_answer(msg), TxtRecords(content.an))
                 /\ hosted # NoAddress => Lists(Walk(msg, msg.head.ancount), hosted)

IsLeastTtl(least, c, rrs) ==
    LET ttls  == {rrs[i].ttl : i \in {k \in DOMAIN rrs : rrs[k].type # rr_type.opt}}
        keep  == /\ c.qr /\ ~c.tc /\ rrs # <<>> /\ c.class = internet
                 /\ c.rcode \in {rcodes.noerror, rcodes.nxdomain}
    IN  /\ least.ok
        /\ ~keep => least.ttl = 0
        /\ keep => IF ttls = {} THEN least.ttl = IntMax
                   ELSE least.ttl \in ttls /\ \A t \in ttls : least.ttl <= t

NoneNegative(rrs) == \A i \in DOMAIN rrs : rrs[i].type # rr_type.opt => rrs[i].ttl >= 0

\* answer_min_ttl is the least ttl of the records, the extension record left
\* out, for an answer that may be cached, and zero for any other message, as long
\* as no record has a negative ttl.  With one the result is negative, which
\* query.cpp:694 asserts it is not.
MinTtlIsLeast ==
    Whole /\ NoneNegative(Records(content))
        => IsLeastTtl(answer_min_ttl(msg), content, Records(content))

\* A record that short_info cannot describe, and one whose address it copies past
\* the end of a structure.
IsAddress(r) == r.type \in {1, 28} /\ r.class = 1

Unnameable(r) ==
    r.class \notin {1, 3, 4, 254, 255} \/ (IsAddress(r) /\ (Len(r.data) < 4 \/ Len(r.data) > 128))

Overruns(r) == IsAddress(r) /\ Len(r.data) > IF r.type = 1 THEN 12 ELSE 20

HasReason(c) ==
    \/ ~Readable(c.host)
    \/ c.rcode > 10
    \/ c.class \notin {1, 3, 4, 254, 255}
    \/ \E i \in DOMAIN c.an : Unnameable(c.an[i])

\* The answers of resolvers that end the process are exactly these: the name is
\* not readable, the code or a class has no name, or an address has fewer than 4
\* or more than 128 octets.  Those whose address is longer than the structure it
\* is copied to may end it.  It is the line in the log that costs the process its
\* life, at any log level.
AnswerEndsForReason ==
    msg # None /\ content.qr /\ ~clobbered =>
        pass_answer_downstream(msg) =
            IF HasReason(content) THEN {FALSE}
            ELSE IF \E i \in DOMAIN content.an : Overruns(content.an[i]) THEN BOOLEAN ELSE {TRUE}

\* A message that lacks records its header counts is refused by the walk over
\* them: a datagram or a stream that ends early is never taken for a whole
\* answer, and an answer written over the extension record of its query is
\* never stored in the cache.
TruncationIsRefused ==
    /\ Whole => \A n \in 0 .. Len(msg.body) - 1 :
                   ~Walk([msg EXCEPT !.body = SubSeq(@, 1, n)], AllRecords(msg)).ok
    /\ msg # None /\ clobbered => ~Walk(msg, AllRecords(msg)).ok

\* add_answer asserts that there are no additional records, and that the
\* message has grown by the answer (query.cpp:440, 477): an answer made here
\* has all the records that its header counts.
LocalAnswerIsWhole ==
    msg # None /\ Readable(content.host) => Walk(msg, AllRecords(msg)).ok

=============================================================================
