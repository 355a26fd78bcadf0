----------------------------- MODULE MCMessage -----------------------------
(* Messages for TLC: few names, among them ones at the limits of length. *)
EXTENDS Message

A == 97
Underscore == 95

Label(n) == [i \in 1 .. n |-> A]

\* 255 characters, 256 with the final dot: the longest name that is read.
Longest == Label(63) \o <<Dot>> \o Label(63) \o <<Dot>> \o Label(63) \o <<Dot>> \o Label(63)

\* 256 characters: the constructor takes it, get_rr_name does not.
TooLong == Label(63) \o <<Dot>> \o Label(63) \o <<Dot>> \o Label(63) \o <<Dot>> \o Label(61)
           \o <<Dot>> \o Label(2)

MCServerName == <<A, Dot, 98>>

MCHosts == {<<A>>, MCServerName, Longest, TooLong, Label(64)}

RR(form, type, ttl, data) ==
    [form |-> form, type |-> type, class |-> internet, ttl |-> ttl, data |-> data]

\* The extension record: its class and ttl are no class and no ttl.
Opt == [form |-> "root", type |-> rr_type.opt, class |-> 1232, ttl |-> 0 - 32768, data |-> <<>>]

MCAnswers == {<<>>, <<RR("pointer", rr_type.a, 300, <<10, 0, 0, 1>>)>>,
              <<RR("full", rr_type.txt, 7, <<2, A, A>>)>>,
              <<RR("pointer", rr_type.txt, 0, <<0>>), RR("full", rr_type.a, IntMax, <<1, 2, 3, 4>>)>>,
              <<RR("pointer", rr_type.aaaa, 3, <<1, 2, 3>>)>>,
              <<RR("pointer", rr_type.a, 3, Label(12)), RR("pointer", rr_type.aaaa, 3, Label(16))>>,
              <<RR("pointer", rr_type.a, 3, Label(13))>>,
              <<RR("pointer", rr_type.aaaa, 3, Label(21)), RR("pointer", rr_type.aaaa, 3, Label(128))>>,
              <<RR("pointer", rr_type.aaaa, 3, Label(20)), RR("pointer", rr_type.a, 3, Label(129))>>,
              <<RR("root", rr_type.a, 3, <<1, 2, 3, 4>>), [RR("pointer", rr_type.a, 3, <<>>) EXCEPT !.class = 4]>>,
              <<[RR("pointer", rr_type.a, 3, <<>>) EXCEPT !.class = 2]>>}

MCAuthorities == {<<>>, <<RR("root", rr_type.ns, 5, <<Pointer, HeaderSize>>)>>}

MCAdditionals == {<<>>, <<Opt>>, <<RR("full", rr_type.a, 0 - 1, <<1, 2, 3, 4>>)>>}

MCReplies ==
    {[id |-> 1, host |-> h, type |-> rr_type.a, class |-> k, qr |-> TRUE, tc |-> tc, rcode |-> rc,
      an |-> an, ns |-> ns, ar |-> ar] :
        h \in {<<>>, <<A, Underscore>>, MCServerName}, k \in {1, 2, 3}, tc \in BOOLEAN, rc \in {0, 3, 10, 11},
        an \in MCAnswers, ns \in MCAuthorities, ar \in MCAdditionals}

MCQuestions ==
    {[NoContent EXCEPT !.id = 2, !.host = h, !.type = type, !.class = internet, !.ar = ar] :
        h \in {<<>>, <<A>>, MCServerName, <<A, Underscore>>, Longest},
        type \in {rr_type.a, rr_type.txt, rr_type.aaaa}, ar \in {<<>>, <<Opt>>}}

MCPeers == MCReplies \cup MCQuestions

MCAddresses == {[inet |-> "ipv4", octets |-> <<127, 0, 0, 1>>],
                [inet |-> "ipv6", octets |-> <<0, 0, 0, 0, 0, 0, 0, 0, 0, 0, 0, 0, 0, 0, 0, 1>>]}

MCTexts == {<<A>>, <<A, 0, 255>>}

=============================================================================
