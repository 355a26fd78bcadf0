---------------------------- MODULE ResolverFiles ----------------------------
(***************************************************************************)
(* The files that a start and a reload read: the CSV list of DNScrypt      *)
(* resolvers, resolv.conf and the hosts file.                              *)
(*                                                                         *)
(* A text is a sequence of tokens.  A word without separators, quotes and  *)
(* blanks is one token.  The limits on the length of a word, 32000 and     *)
(* 2048 characters, are left out.                                          *)
(***************************************************************************)
EXTENDS Integers, Sequences, FiniteSets, SequencesExt

CONSTANTS
  AddressParts,     \* ip and port that the words which are addresses consist of
  Six,              \* the IPv6 addresses among the ips
  KeyTexts,         \* words that are public keys
  MaxColumns        \* csv_max_columns, 50

NoPort    == -1
Separator == ","
Quote     == "'"
Return    == "\\r"
Newline   == "\\n"
Blank     == " "
Hash      == "#"
Words     == STRING \ {Separator, Quote, Return, Newline, Blank, Hash}
Keywords  == {"search", "domain", "sortlist", "options"}
CryptPort == 443
DnsPort   == 53

Unreadable == [readable |-> FALSE]
Text(ls)   == [readable |-> TRUE, lines |-> ls]

\* What a function returns, or that it throws std::runtime_error.
Returns(v) == [threw |-> FALSE, value |-> v]
Throws     == [threw |-> TRUE]

-----------------------------------------------------------------------------
(* network::address *)

IsAddress(word) == Len(word) = 1 /\ word[1] \in DOMAIN AddressParts

address(word, default) ==
    LET a == AddressParts[word[1]]
    IN  [a EXCEPT !.port = IF @ = NoPort THEN default ELSE @]

\* inet() of an address is ipv6.
IsSix(a) == a.ip \in Six

\* operator<<: the port is always printed.
Printed(a) == CHOOSE w \in DOMAIN AddressParts : AddressParts[w] = a

-----------------------------------------------------------------------------
(* csv::parse_line *)

CharRead(s, ch) ==
    LET word    == Last(s.words)
        failed  == [s EXCEPT !.threw = TRUE]
        opened  == IF word = <<>> THEN [s EXCEPT !.quote = TRUE] ELSE failed
        closed  == [s EXCEPT !.quote = FALSE, !.closing = TRUE, !.words = Append(@, <<>>)]
        behind  == IF word = <<>> THEN [s EXCEPT !.closing = FALSE] ELSE failed
        next    == [s EXCEPT !.words = Append(@, <<>>)]
    IN  IF s.threw \/ ch = Return THEN s
        ELSE IF ch = Quote THEN IF s.quote THEN closed ELSE opened
        ELSE IF ch = Separator /\ ~s.quote THEN IF s.closing THEN behind ELSE next
        ELSE [s EXCEPT !.words[Len(s.words)] = Append(@, ch)]

LineBegins == [words |-> << <<>> >>, quote |-> FALSE, closing |-> FALSE, threw |-> FALSE]

\* After each number of characters.
LineStates(line) ==
    LET read[k \in 0 .. Len(line)] ==
            IF k = 0 THEN LineBegins ELSE CharRead(read[k - 1], line[k])
    IN  read

\* Behind a closing quote a new word has begun; text in it is dropped at the
\* end of the line.  An empty line has no columns.
LineEnds(s) ==
    IF s.threw \/ s.quote THEN Throws
    ELSE Returns(IF s.closing \/ s.words = << <<>> >> THEN Front(s.words) ELSE s.words)

parse_line(line) == LineEnds(LineStates(line)[Len(line)])

-----------------------------------------------------------------------------
(* The list of DNScrypt resolvers *)

\* The first column with that title, 0 if there is none.
find_col(headers, title) ==
    LET cols == {i \in DOMAIN headers : headers[i] = <<title>>}
    IN  IF cols = {} THEN 0 ELSE CHOOSE i \in cols : \A j \in cols : i <= j

Column(headers, cols, title) ==
    LET i == find_col(headers, title) IN IF i = 0 THEN <<>> ELSE cols[i]

\* The resolver's own name and the flags, which only serve the log, are left out.
parse_resolver(headers, cols) ==
    LET name == Column(headers, cols, "Provider name")
        key  == Column(headers, cols, "Provider public key")
        ip   == Column(headers, cols, "Resolver address")
    IN  IF name = <<>> \/ ~IsAddress(ip) \/ Len(key) # 1 \/ key[1] \notin KeyTexts
        THEN Throws
        ELSE Returns([address |-> address(ip, CryptPort), name |-> name, key |-> key[1]])

\* One turn of the loop of parse_resolvers_list.
RowRead(headers, found, line) ==
    LET cols == parse_line(line)
        row  == parse_resolver(headers, cols.value)
    IN  IF found.threw \/ cols.threw THEN Throws
        ELSE IF cols.value = <<>> THEN found
        ELSE IF Len(cols.value) # Len(headers) \/ row.threw THEN Throws
        ELSE Returns(Append(found.value, row.value))

\* The loop over the lines behind the titles, after each number of turns.
RowStates(headers, lines) ==
    LET read[k \in 0 .. Len(lines) - 1] ==
            IF k = 0 THEN Returns(<<>>) ELSE RowRead(headers, read[k - 1], lines[k + 1])
    IN  read

parse_resolvers_list(file) ==
    LET headers == parse_line(file.lines[1])
    IN  IF \/ ~file.readable
           \/ headers.threw
           \/ Len(headers.value) \notin 3 .. MaxColumns
        THEN Throws
        ELSE RowStates(headers.value, file.lines)[Len(file.lines) - 1]

\* What save_providers and save_resolvers write: titles and rows, nothing quoted.
Saved(rows) ==
    Text(<< <<"Resolver address", Separator, "Provider name", Separator,
              "Provider public key">> >> \o
         [i \in DOMAIN rows |-> <<Printed(rows[i].address), Separator>> \o rows[i].name
                                    \o <<Separator, rows[i].key>>])

-----------------------------------------------------------------------------
(* responder::from_file *)

\* The extractions of from_file on the whole text: a first word of a line that
\* is a comment or a keyword skips the line, `nameserver' takes the next word,
\* in the next line if need be, and skips what follows it; any other word is an
\* address itself.  The skipping fails when the text is at its end with that
\* word, and the word is not used.
WordRead(noipv6, text, s, i) ==
    LET w == text[i]
        taken(next) ==
            IF ~IsAddress(<<w>>) THEN [s EXCEPT !.threw = TRUE]
            ELSE LET a == address(<<w>>, DnsPort)
                 IN  [s EXCEPT !.mode = next,
                               !.found = IF noipv6 /\ IsSix(a) THEN @ ELSE Append(@, a)]
        ignored == s.mode = "skip" \/ (s.mode = "server" /\ i = Len(text))
    IN  IF s.threw THEN s
        ELSE IF w = Newline THEN [s EXCEPT !.mode = IF @ = "skip" THEN "any" ELSE @]
        ELSE IF ignored THEN s
        ELSE IF s.mode = "server" THEN taken("skip")
        ELSE IF w \in {Hash} \cup Keywords THEN [s EXCEPT !.mode = "skip"]
        ELSE IF w = "nameserver" THEN [s EXCEPT !.mode = "server"]
        ELSE taken("any")

\* A file that cannot be opened is an empty one.
from_file(file, noipv6) ==
    LET text == IF file.readable THEN FlattenSeq(file.lines) ELSE <<>>
        s    == FoldLeftDomain(LAMBDA t, i : WordRead(noipv6, text, t, i),
                               [mode |-> "any", found |-> <<>>, threw |-> FALSE], text)
    IN  IF s.threw THEN Throws ELSE Returns(s.found)

-----------------------------------------------------------------------------
(* The hosts file *)

NoHosts == [n \in {} |-> ""]

\* The first line with the name counts.
Named(map, name, ip) ==
    [n \in DOMAIN map \cup {name} |-> IF n \in DOMAIN map THEN map[n] ELSE ip]

\* A word has ended; the one of a line that has no other is not looked at.
WordEnds(noipv6, s, line_break) ==
    LET fresh == [s EXCEPT !.word = ""]
        isip  == s.word \in DOMAIN AddressParts /\ AddressParts[s.word].port = NoPort
        six   == AddressParts[s.word].ip \in Six
        first == IF ~isip THEN [s EXCEPT !.threw = TRUE]
                 ELSE IF noipv6 /\ six THEN [fresh EXCEPT !.skip = TRUE]
                 ELSE [fresh EXCEPT !.ip = s.word]
    IN  IF s.word = "" THEN s
        ELSE IF s.ip # "" THEN [fresh EXCEPT !.map = Named(@, s.word, s.ip)]
        ELSE IF line_break THEN fresh
        ELSE first

HostsCharRead(noipv6, s, ch) ==
    IF s.threw THEN s
    ELSE IF s.skip THEN [s EXCEPT !.skip = (ch # Newline)]
    ELSE IF ch \in {Newline, Hash}
         THEN [WordEnds(noipv6, s, TRUE) EXCEPT !.ip = "", !.skip = (ch = Hash)]
    ELSE IF ch \in {Blank, Return} THEN WordEnds(noipv6, s, FALSE)
    ELSE [s EXCEPT !.word = ch]

\* The constructor of dns::hosts; the end of the file is a line break.
hosts_file(file, noipv6) ==
    LET s == FoldLeft(LAMBDA t, ch : HostsCharRead(noipv6, t, ch),
                      [word |-> "", ip |-> "", skip |-> FALSE, map |-> NoHosts,
                       threw |-> FALSE],
                      Append(FlattenSeq(file.lines), Newline))
    IN  IF ~file.readable \/ s.threw THEN Throws ELSE Returns(s.map)

-----------------------------------------------------------------------------
(* How the files are written.  A row of the list and a line of the other    *)
(* files carry, next to their text, what their author means.                *)

Joined(cols) ==
    FlattenSeq([i \in DOMAIN cols |-> IF i = 1 THEN cols[i] ELSE <<Separator>> \o cols[i]])

Field(row, title) ==
    CASE title = "Resolver address"    -> <<row.address>>
      [] title = "Provider name"       -> row.name
      [] title = "Provider public key" -> <<row.key>>
      [] OTHER                         -> <<"x">>

Written(header, row) ==
    LET cols   == [i \in DOMAIN header |-> Field(row, header[i])]
        quoted == [i \in DOMAIN header |-> <<Quote>> \o cols[i] \o <<Quote>>]
    IN  CASE row.style = "blank"  -> <<>>
          [] row.style = "plain"  -> Joined(cols)
          [] row.style = "return" -> Joined(cols) \o <<Return>>
          [] row.style = "quoted" -> Joined(quoted)
          [] row.style = "tail"   -> Joined(quoted) \o <<"x">>
          [] row.style = "after"  -> Joined([quoted EXCEPT ![1] = Append(@, "x")])
          [] row.style = "inner"  -> Joined([cols EXCEPT ![1] = Append(@, Quote)])
          [] row.style = "open"   -> <<Quote>> \o Joined(cols)
          [] row.style = "short"  -> Joined(Front(cols))

ListOf(header, rows) ==
    [readable |-> TRUE, header |-> header, rows |-> rows,
     lines |-> <<Joined([i \in DOMAIN header |-> <<header[i]>>])>>
                \o [i \in DOMAIN rows |-> Written(header, rows[i])]]

\* A file of lines that each have a text.
LinesOf(ls) ==
    [readable |-> TRUE, meant |-> ls, lines |-> [i \in DOMAIN ls |-> ls[i].text]]

=============================================================================
