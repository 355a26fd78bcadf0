---------------------------- MODULE MCProviders ----------------------------
(* Files and certificates for TLC. *)
EXTENDS Providers

Addr(ip, port) == [ip |-> ip, port |-> port]

MCAddressParts ==
    [w \in {"A", "A:443", "B", "B:443", "C", "C:443", "V", "V:443"} |->
        Addr(CASE w \in {"A", "A:443"} -> "A" [] w \in {"B", "B:443"} -> "B"
               [] w \in {"C", "C:443"} -> "C" [] w \in {"V", "V:443"} -> "V",
             IF w \in {"A", "B", "C", "V"} THEN NoPort ELSE 443)]
MCSix      == {"V"}
MCKeyTexts == {"k1", "k2"}
MCOnionTexts == {"", "A", "nowhere"}
MCAskable  == {<<"n1">>, <<"n2">>}

\* The list of resolvers: good rows in all pairs, bad ones behind a good one.
Row(style, a, n, k) == [style |-> style, address |-> a, name |-> n, key |-> k]
N1 == <<"n1">>
N2 == <<"n2">>
GoodRows == {Row("plain", "A", N1, "k1"), Row("quoted", "A:443", N2, "k2"),
             Row("quoted", "B", <<"n1", Separator, "n2">>, "k1"),
             Row("tail", "B:443", N1, "k2"), Row("return", "V", N2, "k2"),
             Row("blank", "A", N1, "k1")}
BadRows  == {Row("plain", "nowhere", N1, "k1"), Row("plain", "B", N1, "nokey"),
             Row("plain", "B", <<"n1", Separator, "n2">>, "k1"),
             Row("quoted", "B", <<>>, "k1"),
             Row("after", "B", N1, "k1"), Row("inner", "B", N1, "k1"),
             Row("open", "B", N1, "k1"), Row("short", "B", N1, "k1")}
First    == Row("plain", "A", N1, "k1")
Usual    == <<"Resolver address", "Provider name", "Provider public key">>
Other    == <<"Provider public key", "Name", "Provider name", "Resolver address">>

MCLists ==
    {ListOf(Usual, rows) : rows \in BoundedSeq(GoodRows, 2)}
    \cup {ListOf(Usual, <<First, r>>) : r \in BadRows}
    \cup {ListOf(Other, <<First, Row("tail", "B:443", N1, "k2")>>),
          ListOf(Usual, <<Row("plain", "C", N1, "k1")>>),
          ListOf(Front(Usual), <<First>>), ListOf(<<"Name">> \o Front(Usual), <<First>>),
          Unreadable}

\* resolv.conf
Server(text, servers, bad) == [text |-> text, servers |-> servers, bad |-> bad]
ResolvLines == {Server(<<"nameserver", "A", Hash, "x", Newline>>, <<"A">>, FALSE),
                Server(<<"A:443", "V", Newline>>, <<"A:443", "V">>, FALSE),
                Server(<<"search", "B", Newline>>, <<>>, FALSE),
                Server(<<Hash, "nameserver", "B", Newline>>, <<>>, FALSE)}
LastLines   == ResolvLines \cup
               {Server(<<"nameserver", "B">>, <<>>, FALSE), Server(<<"B">>, <<"B">>, FALSE),
                Server(<<"nameserver", "B", Blank>>, <<"B">>, FALSE),
                Server(<<"nameserver", "nowhere", Newline>>, <<>>, TRUE)}
MCResolvs   == {LinesOf(<<Server(<<"V", Newline>>, <<"V">>, FALSE), b>>) : b \in LastLines}
               \cup {LinesOf(<<>>), Unreadable}

\* The hosts file
Line(text, ip, names, bad) == [text |-> text, ip |-> ip, names |-> names, bad |-> bad]
HostLines == {Line(<<"A", Blank, "h", Blank, "g", Newline>>, "A", {"h", "g"}, FALSE),
              Line(<<"B", Blank, "h", Hash, "g", Newline>>, "B", {"h"}, FALSE),
              Line(<<"V", Blank, "g", Return, Newline>>, "V", {"g"}, FALSE),
              Line(<<Hash, "A", Blank, "g", Newline>>, "A", {}, FALSE),
              Line(<<"odd", Newline>>, "A", {}, FALSE),
              Line(<<"odd", Blank, "h", Newline>>, "A", {}, TRUE),
              Line(<<"A:443", Blank, "h", Newline>>, "A", {}, TRUE),
              Line(<<"A", Blank, "h">>, "A", {"h"}, FALSE)}
MCHostFiles == {LinesOf(<<Line(<<"V", Blank, "h", Newline>>, "V", {"h"}, FALSE), b>>) : b \in HostLines}
               \cup {LinesOf(<<>>), Unreadable}

\* One of the files at a time is out of the ordinary.
List0   == ListOf(Usual, <<First>>)
Resolv0 == LinesOf(<<Server(<<"nameserver", "B", Newline>>, <<"B">>, FALSE)>>)
Hosts0  == LinesOf(<<>>)
InARow(S) == FoldSet(LAMBDA x, row : Append(row, x), <<>>, S)
Found0  == [list |-> List0, resolv |-> Resolv0, hosts |-> Hosts0, filters |-> {3}]
AllFiles ==
    InARow(UNION {{[f EXCEPT !.list = l] : l \in MCLists}
                  \cup {[f EXCEPT !.resolv = r] : r \in MCResolvs}
                  \cup {[f EXCEPT !.hosts = h] : h \in MCHostFiles}
                  \cup {[f EXCEPT !.filters = s] : s \in {{}, {MaxEntry}, {3, MaxEntry + 1}}}
                    : f \in {Found0}})

\* A definition of its own, AllFiles is evaluated once.
MCFiles == AllFiles

\* Certificates; the time is 5.
Cert(major, minor, serial, signer, begin, end, weak) ==
    [major |-> major, minor |-> minor, serial |-> serial, signer |-> signer,
     begin |-> begin, end |-> end, weak |-> weak]
Valid == {Cert(1, 0, 2, "k1", 5, 9, FALSE), Cert(1, 0, 2, "k1", 1, 5, FALSE),
          Cert(1, 1, 1, "k1", 1, 9, FALSE), Cert(2, 0, 1, "k1", 1, 9, FALSE),
          Cert(1, 0, 1, "k1", 1, 9, TRUE)}
Wrong == {Cert(3, 0, 9, "k1", 1, 9, FALSE), Cert(2, 0, 3, "k2", 1, 9, FALSE),
          Cert(1, 0, 9, "k1", 6, 9, FALSE), Cert(1, 0, 9, "k1", 1, 4, FALSE),
          Cert(1, 0, 9, "k1", 5, 5, FALSE)}
Both  == <<Cert(1, 0, 1, "k1", 1, 9, FALSE), Cert(1, 0, 1, "k2", 1, 9, FALSE)>>

\* All pairs with a valid one are tried on one resolver, which is on one of the
\* lists; of what the others send one certificate is valid, or none.
MCAnswers ==
    [a \in {Addr(ip, 443) : ip \in {"A", "B", "C", "V"}} |->
        IF a.ip = "C" THEN {s \in BoundedSeq(Valid \cup Wrong, 2) :
                                Len(s) = 2 => s[1] \in Valid \/ s[2] \in Valid}
        ELSE {<<>>, Both}]

\* The hypothesis of the theorems about what the files mean.
ASSUME MCReadAsMeant == ReadAsMeant

=============================================================================
