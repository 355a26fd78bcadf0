------------------------------- MODULE Options -------------------------------
(***************************************************************************)
(* The options of the daemon: the table of names, what one option does,    *)
(* and how a line of the configuration file is read (dns/srcz/options.cpp, *)
(* dns/crypt/srcz/crypt_options.cpp).                                      *)
(*                                                                         *)
(* A name is the sequence of its syllables and separators.  A word after a *)
(* name is a record: its text, the number strtol finds at its front (0 if  *)
(* there is none; fractions of a time-out are dropped), and whether that   *)
(* number is the whole text.                                               *)
(***************************************************************************)
EXTENDS Integers, Sequences, SequencesExt, FiniteSetsExt

CONSTANTS
  Lowered,          \* maps syllables with capitals to those without
  UIntMax           \* UINT_MAX

Separators == {"-", "_"}

\* The table of long options with the ones that crypt::options adds: the name,
\* whether an argument follows, and the letter.
Option(name, arg, letter) == [name |-> name, arg |-> arg, letter |-> letter]

LongOptions == {
  Option(<<"local", "-", "address">>, TRUE, "a"),
  Option(<<"daemonize">>, FALSE, "d"),
  Option(<<"resolvers", "-", "list">>, TRUE, "L"),
  Option(<<"log", "file">>, TRUE, "l"),
  Option(<<"log", "level">>, TRUE, "m"),
  Option(<<"exceptions">>, FALSE, "x"),
  Option(<<"sys", "log">>, FALSE, "s"),
  Option(<<"max", "-", "active", "-", "requests">>, TRUE, "n"),
  Option(<<"user">>, TRUE, "u"),
  Option(<<"tcp", "-", "only">>, FALSE, "t"),
  Option(<<"min", "-", "ttl">>, TRUE, "M"),
  Option(<<"onion">>, TRUE, "O"),
  Option(<<"no", "-", "ipv6">>, FALSE, "6"),
  Option(<<"black", "list">>, TRUE, "B"),
  Option(<<"white", "list">>, TRUE, "W"),
  Option(<<"hosts">>, TRUE, "H"),
  Option(<<"time", "out">>, TRUE, "T"),
  Option(<<"cache", "dir">>, TRUE, "E"),
  Option(<<"version">>, FALSE, "V"),
  Option(<<"help">>, FALSE, "h"),
  Option(<<"crypt", "-", "resolvers">>, TRUE, "D"),
  Option(<<"server", "-", "pubkey">>, TRUE, "P"),
  Option(<<"server", "-", "secretkey">>, TRUE, "S"),
  Option(<<"server", "-", "certificate">>, TRUE, "C"),
  Option(<<"server", "-", "name">>, TRUE, "N")}

\* The fields by the letter that sets them: switches, texts and sets of files.
Flags == {"d", "x", "s", "t", "6"}
Texts == {"a", "L", "l", "u", "O", "H", "E", "D", "P", "S", "C", "N"}
Lists == {"B", "W"}

\* The constructors: everything is off or empty but these.
Defaults ==
  [flags |-> {},
   text  |-> [o \in Texts |-> IF o = "a" THEN "127.0.0.1:53"
                           ELSE IF o = "L" THEN "dns-resolvers.txt"
                           ELSE IF o = "D" THEN "dnscrypt-resolvers.csv" ELSE ""],
   lists |-> [o \in Lists |-> {}],
   level |-> 6, max |-> 250, min_ttl |-> 60, timeout |-> 7]

-----------------------------------------------------------------------------
ascii_tolower(s) == IF s \in DOMAIN Lowered THEN Lowered[s] ELSE s

\* normalize: the first separator goes, and only that one.
normalize(word) ==
  LET seps == {i \in DOMAIN word : word[i] \in Separators}
      bare == IF seps = {} THEN word ELSE RemoveAt(word, Min(seps))
  IN  [i \in DOMAIN bare |-> ascii_tolower(bare[i])]

\* find_option, with the name normalized the same way.
find_option(word) == {o \in LongOptions : normalize(o.name) = normalize(word)}

\* apply_option throws; "?" is what getopt_long makes of an unknown option or a
\* missing argument.  strtoul makes a negative number a huge one.
Refuses(letter, arg) ==
  \/ letter = "?"
  \/ letter = "m" /\ (arg.text = "" \/ ~arg.whole \/ arg.number < 0)
  \/ letter = "n" /\ (arg.text = "" \/ ~arg.whole \/ arg.number \notin 1 .. UIntMax)

\* apply_option returns false, for help and version.
Tells(letter) == letter \in {"h", "V"}

UShort(n) == n % 65536

\* What apply_option stores when it neither throws nor returns false.
apply_option(opts, letter, arg) ==
  CASE letter \in Flags -> [opts EXCEPT !.flags = @ \cup {letter}]
    [] letter \in Texts -> [opts EXCEPT !.text[letter] = arg.text]
    [] letter \in Lists -> [opts EXCEPT !.lists[letter] = @ \cup {arg.text}]
    [] letter = "m" -> [opts EXCEPT !.level = UShort(arg.number)]
    [] letter = "n" -> [opts EXCEPT !.max = arg.number]
    [] letter = "M" -> [opts EXCEPT !.min_ttl = UShort(arg.number)]
    [] letter = "T" -> [opts EXCEPT !.timeout = arg.number]

\* Mutant of Off: a switch is on once a line names it.
OffNever(option, arg) == FALSE

\* Three words leave a switch as it is.
Off(option, arg) == ~option.arg /\ arg.text \in {"no", "off", "false"}

\* The options that parse_file applies for a line.  Comments, lines of 512
\* octets or more and unknown names are passed over in silence; help and version
\* only earn a warning.
Applied(line) ==
  {o \in find_option(line.name) :
     ~line.ignored /\ ~Off(o, line.arg) /\ ~Tells(o.letter)}

\* A line ends parse_file with an exception.
BadLine(line) == \E o \in Applied(line) : Refuses(o.letter, line.arg)

\* One turn of the loop of parse_file.
ParseLine(opts, line) ==
  IF Applied(line) = {}
    THEN opts
    ELSE LET o == CHOOSE o \in Applied(line) : TRUE
         IN  apply_option(opts, o.letter, line.arg)

\* Mutant of options_apply: daemons do not turn to syslog.
options_applyNoSyslog(opts) == opts

\* options_apply: a daemon without a log file logs to syslog.
options_apply(opts) ==
  IF "d" \in opts.flags /\ opts.text["l"] = ""
    THEN [opts EXCEPT !.flags = @ \cup {"s"}]
    ELSE opts

\* options_apply throws: "--logfile and --syslog are mutually exclusive".
Exclusive(opts) == opts.text["l"] # "" /\ "s" \in opts.flags

-----------------------------------------------------------------------------
(***************************************************************************)
(* What a configuration file means, without reading it line by line.       *)
(***************************************************************************)

\* The name in small letters and without separators.
Squeezed(name) ==
  LET bare == SelectSeq(name, LAMBDA s : s \notin Separators)
  IN  [i \in DOMAIN bare |-> ascii_tolower(bare[i])]

\* The separators after the first one, and their places.
Further(name) ==
  LET seps == {i \in DOMAIN name : name[i] \in Separators}
  IN  {<<i, name[i]>> : i \in {k \in seps : \E j \in seps : j < k}}

\* A name is spelled in any case, with or without its first separator, which may
\* be anywhere.  The others must be as they are in the table: MaxActiveRequests
\* is no option.
SameName(name, spelled) ==
  Squeezed(name) = Squeezed(spelled) /\ Further(name) = Further(spelled)

\* A line is about a letter.
Meant(line, letter) ==
  /\ ~line.ignored
  /\ \E o \in LongOptions : o.letter = letter /\ SameName(o.name, line.name)

Lines(file, letter) == {i \in DOMAIN file : Meant(file[i], letter)}

\* The last line about letter decides, if there is one.
LastOr(file, letter, default, Read(_)) ==
  LET at == Lines(file, letter)
  IN  IF at = {} THEN default ELSE Read(file[Max(at)].arg)

\* A file without a bad line means: every switch that some line turns on and
\* none turns off again, the last of the texts and numbers, and all the lists.
Meaning(file) ==
  [flags |-> {f \in Flags : \E i \in Lines(file, f) :
                file[i].arg.text \notin {"no", "off", "false"}},
   text  |-> [t \in Texts |->
                LastOr(file, t, Defaults.text[t], LAMBDA a : a.text)],
   lists |-> [l \in Lists |-> {file[i].arg.text : i \in Lines(file, l)}],
   level |-> LastOr(file, "m", 6, LAMBDA a : UShort(a.number)),
   max   |-> LastOr(file, "n", 250, LAMBDA a : a.number),
   min_ttl |-> LastOr(file, "M", 60, LAMBDA a : UShort(a.number)),
   timeout |-> LastOr(file, "T", 7, LAMBDA a : a.number)]
=============================================================================
