------------------------------ MODULE Exchange ------------------------------
(***************************************************************************)
(* Two cdns processes that talk DNScrypt over UDP: the resolver object of  *)
(* the one (dns/crypt/srcz/resolver.cpp, encryptor.cpp) and the server role*)
(* of the other (cresponder::process and respond, server_crypt.cpp).       *)
(*                                                                         *)
(* Datagrams may be lost, come twice and come in any order, and a late     *)
(* answer meets a new question that uses the same port.  The server keeps  *)
(* the nonce and the key of a question in the class of the message         *)
(* (emessage); whether the reply is encrypted depends on whether the class *)
(* has survived until then.                                                *)
(*                                                                         *)
(* The nonce also stands for the client's key, which is derived from it.   *)
(* Exceptions of the cryptography are no net_error: they leave the callback*)
(* and end the process.                                                    *)
(***************************************************************************)
EXTENDS Padding

CONSTANTS
    Questions,    \* the client's questions; each has its own nonce
    Asks,         \* the texts of questions, in octets
    Answers,      \* the texts of answers
    Ports,        \* the client's ports
    DnsHeader,    \* sizeof (message_header)
    MaxRequests   \* bound: datagrams handled by the server

Plain == "plain"   \* in the place of a nonce: the datagram is not encrypted

ASSUME ExchangeAssumption ==
    /\ Plain \notin Questions
    /\ Asks \cup Answers \subseteq Seq(Octets)
    /\ \A t \in Asks \cup Answers : Len(t) \in DnsHeader + 3 .. MaxSize
    /\ DnsHeader \in Nat \ {0} /\ MaxRequests \in Nat

VARIABLES
    cipher,     \* the client's, from the certificate's version
    proc,       \* the state of the two processes
    phase,      \* the client's upstream of each question
    port,       \* and its port
    asked,      \* history: the text of each question
    got,        \* the decrypted answer
    toServer,   \* datagrams sent to the server
    toClient,   \* datagrams sent by the server
    reqs        \* the server's requests

vars == <<cipher, proc, phase, port, asked, got, toServer, toClient, reqs>>
clientVars == <<cipher, phase, port, asked, got, toServer>>
serverVars == <<toClient, reqs>>

NoText == <<>>

\* server::encryptor sets es_version to 0.0, whatever its certificate says.
ServerCipher == "xsalsa20poly1305"

Init ==
    /\ cipher \in {"xsalsa20poly1305", "xchacha20poly1305"}
    /\ proc = [client |-> "running", server |-> "running"]
    /\ phase = [q \in Questions |-> "new"]
    /\ port \in [Questions -> Ports]
    /\ asked = [q \in Questions |-> NoText] /\ got = [q \in Questions |-> NoText]
    /\ toServer = {} /\ toClient = {} /\ reqs = <<>>

Padded(text) ==
    {pad_buffer(text, Room(Len(text)), rnd) : rnd \in Rnd(Len(text), Room(Len(text)))}

-----------------------------------------------------------------------------
(* The client *)

PortFree(q) == \A o \in Questions : port[o] = port[q] => phase[o] # "sent"

\* on_send: fold with encryptor::curve, then send.
Fold(q, text) ==
    /\ proc.client = "running" /\ phase[q] = "new" /\ PortFree(q)
    /\ asked' = [asked EXCEPT ![q] = text]
    /\ IF NoSpace(Len(text))
       THEN proc' = [proc EXCEPT !.client = "ended"] /\ UNCHANGED <<phase, toServer>>
       ELSE /\ \E boxed \in Padded(text) :
                 toServer' = toServer \cup {[nonce |-> q, port |-> port[q], text |-> boxed]}
            /\ phase' = [phase EXCEPT ![q] = "sent"]
            /\ UNCHANGED proc
    /\ UNCHANGED <<cipher, port, got, serverVars>>

\* Mutant of Opens: the nonce is not compared.
OpensAny(q, r) ==
    /\ r.nonce # Plain /\ cipher = ServerCipher
    /\ HasEnd(r.text) /\ find_end(r.text) >= DnsHeader

\* encryptor::uncurve succeeds: magic, nonce, MAC, end mark and least size.
Opens(q, r) ==
    /\ r.nonce # Plain /\ r.nonce = q /\ cipher = ServerCipher
    /\ HasEnd(r.text) /\ find_end(r.text) >= DnsHeader

\* on_receive: close and unfold.
Unfold(q, r) ==
    /\ proc.client = "running" /\ phase[q] = "sent" /\ r.port = port[q]
    /\ IF Opens(q, r)
       THEN /\ got' = [got EXCEPT ![q] = SubSeq(r.text, 1, find_end(r.text))]
            /\ phase' = [phase EXCEPT ![q] = "answered"]
            /\ UNCHANGED proc
       ELSE proc' = [proc EXCEPT !.client = "ended"] /\ phase' = [phase EXCEPT ![q] = "closed"] /\ UNCHANGED got
    /\ UNCHANGED <<cipher, port, asked, toServer, serverVars>>

\* The upstream's timer.
Timeout(q) ==
    /\ proc.client = "running" /\ phase[q] = "sent"
    /\ phase' = [phase EXCEPT ![q] = "closed"]
    /\ UNCHANGED <<cipher, proc, port, asked, got, toServer, serverVars>>

\* A program that does not encrypt asks the server, too.  One such datagram is
\* enough: it may be handled several times.
PlainAsk(text, p) ==
    /\ \A d \in toServer : d.nonce # Plain
    /\ toServer' = toServer \cup {[nonce |-> Plain, port |-> p, text |-> text]}
    /\ UNCHANGED <<cipher, proc, phase, port, asked, got, serverVars>>

-----------------------------------------------------------------------------
(* The server *)

\* The class of the request's message and of the packet sent upstream.
Class(nonce) == IF nonce = Plain THEN "query" ELSE "emessage"

\* Mutant of AdaptedClass: the resolver's class keeps the session of the question.
AdaptedKeeps(class, provider) == class

\* provider::adapt_message clones the message, resolver::adapt_message makes
\* one of its own class from the octets.
AdaptedClass(class, provider) == IF provider = "crypt" THEN "message" ELSE class

\* respond: the reply of the given class, encrypted with server::encryptor::curve
\* if it is an emessage.
Replies(req, class, text, via) ==
    IF class = "emessage"
    THEN {[nonce |-> req.nonce, port |-> req.port, text |-> boxed, via |-> via,
           question |-> req.nonce, answer |-> text] : boxed \in Padded(text)}
    ELSE {[nonce |-> Plain, port |-> req.port, text |-> text, via |-> via,
           question |-> req.nonce, answer |-> text]}

\* curve moves the text behind the head without looking at the space: beyond
\* it the behaviour is undefined, the process ends or goes on.
Overrun(class, text) == class = "emessage" /\ Len(text) + ResponseHead > MaxSize

Respond(req, class, text, via) ==
    \/ /\ \E r \in Replies(req, class, text, via) : toClient' = toClient \cup {r}
       /\ UNCHANGED proc
    \/ Overrun(class, text) /\ proc' = [proc EXCEPT !.server = "undefined"] /\ UNCHANGED toClient

\* uncurve of the server fails: cipher, end mark or least size.
Unreadable(d) ==
    d.nonce # Plain /\ (cipher # ServerCipher \/ ~HasEnd(d.text) \/ find_end(d.text) < DnsHeader)

\* cresponder::process throws.
Rejects(d) ==
    /\ proc.server = "running" /\ Unreadable(d)
    /\ proc' = [proc EXCEPT !.server = "ended"]
    /\ UNCHANGED <<clientVars, serverVars>>

\* The request after cresponder::process has decrypted it.
Request(d) ==
    [nonce |-> d.nonce, port |-> d.port, provider |-> "none",
     text |-> IF d.nonce = Plain THEN d.text ELSE SubSeq(d.text, 1, find_end(d.text))]

\* A datagram that cresponder::process passes on to responder::process.
Passes(d) == proc.server = "running" /\ ~Unreadable(d) /\ Len(reqs) < MaxRequests

\* packet::is_dns by its size: room for a question behind the header.
IsDns(text) == Len(text) >= DnsHeader + 3

Accepts(d) == Passes(d) /\ IsDns(Request(d).text)

\* responder::process closes the request: no DNS message.
Discard(d) ==
    /\ Passes(d) /\ ~IsDns(Request(d).text)
    /\ reqs' = Append(reqs, Request(d))
    /\ UNCHANGED <<clientVars, proc, toClient>>

\* Black list, cache and hosts list answer with a copy of class query; so does
\* cresponder::process itself, when a plain question asks for the certificate.
AnswerLocally(d, text) ==
    /\ Accepts(d)
    /\ reqs' = Append(reqs, Request(d))
    /\ Respond(Request(d), "query", text, "local")
    /\ UNCHANGED clientVars

\* No resolver, or the upstream could not be made: SERVFAIL with the original
\* message, as long as the question.
FailAtOnce(d) ==
    /\ Accepts(d)
    /\ reqs' = Append(reqs, Request(d))
    /\ Respond(Request(d), Class(d.nonce), Request(d).text, "failure")
    /\ UNCHANGED clientVars

\* An upstream to a plain or a DNScrypt resolver.
Forward(d, provider) ==
    /\ Accepts(d)
    /\ reqs' = Append(reqs, [Request(d) EXCEPT !.provider = provider])
    /\ UNCHANGED <<clientVars, proc, toClient>>

Settle(i) == reqs' = [reqs EXCEPT ![i].provider = "none"]

\* pass_answer_downstream with the upstream's answer.
PassAnswer(i, text) ==
    /\ proc.server = "running" /\ reqs[i].provider # "none"
    /\ Settle(i)
    /\ Respond(reqs[i], AdaptedClass(Class(reqs[i].nonce), reqs[i].provider), text, reqs[i].provider)
    /\ UNCHANGED clientVars

\* pass_failure_downstream with the question as it was.
PassFailure(i) ==
    /\ proc.server = "running" /\ reqs[i].provider # "none"
    /\ Settle(i)
    /\ Respond(reqs[i], AdaptedClass(Class(reqs[i].nonce), reqs[i].provider),
               reqs[i].text, reqs[i].provider)
    /\ UNCHANGED clientVars

\* Nobody is told: a timeout, or a failure after the question was encrypted.
Silent(i) ==
    /\ proc.server = "running" /\ reqs[i].provider # "none"
    /\ Settle(i)
    /\ UNCHANGED <<clientVars, proc, toClient>>

Next ==
    \/ \E q \in Questions : \E t \in Asks : Fold(q, t)
    \/ \E q \in Questions : \E r \in toClient : Unfold(q, r)
    \/ \E q \in Questions : Timeout(q)
    \/ \E t \in Asks, p \in Ports : PlainAsk(t, p)
    \/ \E d \in toServer :
        \/ Rejects(d) \/ Discard(d) \/ FailAtOnce(d)
        \/ \E t \in Answers : AnswerLocally(d, t)
        \/ \E provider \in {"plain", "crypt"} : Forward(d, provider)
    \/ \E i \in DOMAIN reqs : PassFailure(i) \/ Silent(i) \/ \E t \in Answers : PassAnswer(i, t)

Spec == Init /\ [][Next]_vars

-----------------------------------------------------------------------------
(* Properties *)

\* Texts are octets and an encrypted question fits into the space that a
\* packet has.
TypeOK ==
    /\ proc \in [client : {"running", "ended"}, server : {"running", "ended", "undefined"}]
    /\ phase \in [Questions -> {"new", "sent", "answered", "closed"}]
    /\ \A d \in toServer :
        d.text \in Seq(Octets) /\ (d.nonce # Plain => Len(d.text) + QueryHead <= MaxSize)
    /\ \A r \in toClient : r.text \in Seq(Octets)

\* What is read is what was written; of a text that was encrypted without
\* padding it may be a part, up to an octet that looks like the end mark.
ReadAs(written, read) ==
    \/ written = read
    \/ /\ Full(Len(written))
       /\ \E n \in 0 .. Len(written) : read = SubSeq(written, 1, n)

\* Over losses, repetitions, late datagrams and used ports: the text that the
\* client passes on was given by the server as an answer to this question, and
\* the server has answered the question that was asked.
OwnAnswer ==
    /\ \A q \in Questions : phase[q] = "answered" =>
        \E r \in toClient : r.question = q /\ ReadAs(r.answer, got[q])
    /\ \A i \in DOMAIN reqs : reqs[i].nonce # Plain =>
        ReadAs(asked[reqs[i].nonce], reqs[i].text)

\* Padding hides the length but never changes the text: without a full packet
\* both sides read exactly what was written.
PaddingIsUndone ==
    /\ \A i \in DOMAIN reqs : reqs[i].nonce # Plain /\ ~Full(Len(asked[reqs[i].nonce])) =>
        reqs[i].text = asked[reqs[i].nonce]
    /\ \A q \in Questions :
        (phase[q] = "answered" /\ \A r \in toClient : ~Full(Len(r.answer))) =>
            \E r \in toClient : r.question = q /\ r.answer = got[q]

\* Which replies to an encrypted question leave encrypted: failures that the
\* server makes at once and what comes over a plain resolver.  Answers of the
\* black list, the cache and the hosts list, and of a DNScrypt resolver, have
\* lost the session and leave in plain text.  A plain question never gets an
\* encrypted reply.
RepliesInKind ==
    \A r \in toClient :
        IF r.question # Plain /\ r.via \in {"failure", "plain"}
        THEN r.nonce = r.question ELSE r.nonce = Plain

\* Which exceptions of curve and uncurve end a process.  The client ends only
\* for a question too long to be encrypted, or for a datagram on its port that
\* has lost its session, answers something else or is full; the server only for
\* a full question or for a certificate of version 2, whose cipher it does not
\* use.
EndsForReason ==
    /\ proc.client = "ended" =>
        \E q \in Questions :
            \/ NoSpace(Len(asked[q]))
            \/ \E r \in toClient :
                /\ phase[q] = "closed" /\ r.port = port[q]
                /\ r.question # q \/ Full(Len(r.answer)) \/ r.via \in {"local", "crypt"}
    /\ proc.server = "ended" =>
        cipher # ServerCipher \/ \E q \in Questions : phase[q] # "new" /\ Full(Len(asked[q]))

-----------------------------------------------------------------------------
(***************************************************************************)
(* The inductive invariant behind them.                                    *)
(***************************************************************************)

\* What was sent to the server is what was asked, padded.
DatagramsAreAsked ==
    \A d \in toServer :
        /\ d.nonce \in Questions \cup {Plain} /\ d.text \in Seq(Octets)
        /\ d.nonce = Plain => IsDns(d.text)
        /\ d.nonce # Plain =>
            /\ phase[d.nonce] # "new" /\ asked[d.nonce] \in Asks
            /\ ~NoSpace(Len(asked[d.nonce])) /\ d.text \in Padded(asked[d.nonce])

\* A request holds the question as far as it could be read.
RequestsAreRead ==
    \A i \in DOMAIN reqs :
        /\ reqs[i].provider # "none" => IsDns(reqs[i].text)
        /\ reqs[i].nonce # Plain =>
            /\ phase[reqs[i].nonce] # "new" /\ cipher = ServerCipher
            /\ ReadAs(asked[reqs[i].nonce], reqs[i].text)

\* An encrypted reply holds its answer, padded, with a cipher that both know.
RepliesAreSealed ==
    \A r \in toClient :
        /\ r.question \in Questions \cup {Plain} /\ r.answer \in Seq(Octets) /\ IsDns(r.answer)
        /\ r.via \in {"local", "failure", "plain", "crypt"} /\ r.text \in Seq(Octets)
        /\ r.nonce # Plain => cipher = ServerCipher /\ r.text \in Padded(r.answer)

Shape ==
    /\ proc \in [client : {"running", "ended"}, server : {"running", "ended", "undefined"}]
    /\ phase \in [Questions -> {"new", "sent", "answered", "closed"}]
    /\ asked \in [Questions -> Seq(Octets)] /\ got \in [Questions -> Seq(Octets)]
    /\ reqs \in Seq([nonce : Questions \cup {Plain}, port : Ports,
                      provider : {"none", "plain", "crypt"}, text : Seq(Octets)])
    /\ \A d \in toServer : d.port \in Ports
    /\ port \in [Questions -> Ports]

Inv ==
    /\ Shape /\ DatagramsAreAsked /\ RequestsAreRead /\ RepliesAreSealed
    /\ OwnAnswer /\ RepliesInKind /\ EndsForReason

=============================================================================
