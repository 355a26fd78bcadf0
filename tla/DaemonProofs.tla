---------------------------- MODULE DaemonProofs ----------------------------
(***************************************************************************)
(* The daemon's invariants for every configuration file, command line and  *)
(* set of users and addresses.                                             *)
(***************************************************************************)
EXTENDS Daemon, WellFoundedInduction, TLAPS

\* The letters of apply_option.
Stored == Flags \cup Texts \cup Lists \cup {"m", "n", "M", "T"}

\* Every letter of the table is one that apply_option has a case for.
LEMMA LettersKnown ==
  \A o \in LongOptions : o.letter \in Stored \cup {"h", "V"}
BY SMT DEF LongOptions, Option, Stored, Flags, Texts, Lists

\* apply_option keeps the types of the fields.
LEMMA ApplyType ==
  ASSUME NEW o \in OptionsType, NEW l \in Stored, NEW a \in Words
  PROVE  apply_option(o, l, a) \in OptionsType
<1>1. a.text \in STRING /\ a.number \in Int /\ UShort(a.number) \in Int
  BY DEF Words, UShort
<1>2. CASE l \in Flags
  BY <1>1, <1>2 DEF apply_option, OptionsType
<1>3. CASE l \in Texts
  BY <1>1, <1>3 DEF apply_option, OptionsType, Flags, Texts
<1>4. CASE l \in Lists
  BY <1>1, <1>4 DEF apply_option, OptionsType, Flags, Texts, Lists
<1>5. CASE l \in {"m", "n", "M", "T"}
  BY <1>1, <1>5 DEF apply_option, OptionsType, Flags, Texts, Lists
<1> QED BY <1>2, <1>3, <1>4, <1>5 DEF Stored

\* Reading a line keeps the types of the fields.
LEMMA LineType ==
  ASSUME NEW o \in OptionsType, NEW line \in ConfigLines
  PROVE  ParseLine(o, line) \in OptionsType
<1>1. CASE Applied(line) = {}
  BY <1>1 DEF ParseLine
<1>2. CASE Applied(line) # {}
  <2> DEFINE x == CHOOSE x \in Applied(line) : TRUE
  <2>1. x \in Applied(line)
    BY <1>2
  <2>2. x \in LongOptions /\ x.letter \notin {"h", "V"}
    BY <2>1 DEF Applied, find_option, Tells
  <2>3. x.letter \in Stored
    BY <2>2, LettersKnown
  <2>4. line.arg \in Words
    BY DaemonAssumption
  <2>5. ParseLine(o, line) = apply_option(o, x.letter, line.arg)
    BY <1>2 DEF ParseLine
  <2> QED BY <2>3, <2>4, <2>5, ApplyType
<1> QED BY <1>1, <1>2

\* options_apply only adds syslog, and a daemon has a log afterwards.
LEMMA OptionsApplied ==
  ASSUME NEW o \in OptionsType
  PROVE  /\ options_apply(o) \in OptionsType
         /\ options_apply(o).text = o.text
         /\ o.text["l"] = "" /\ "d" \in options_apply(o).flags
              => "s" \in options_apply(o).flags
BY DEF options_apply, OptionsType, Flags

-----------------------------------------------------------------------------
\* An exception that ends the process keeps the invariant: its message is
\* written unless the daemon has nowhere to write it.
LEMMA ThrowKeeps ==
  ASSUME Inv, phase \in BeforeUser \cup Serving, NEW e, Throw(e), e # "none",
         e = "permission" => env.uid # "root"
  PROVE  Inv'
<1> USE DEF Inv
<1>1. /\ phase' = "ended" /\ why' = e
      /\ env' = env /\ opts' = opts /\ forked' = forked /\ log' = log
      /\ told' = println(Severity(e)) \cup (IF forked THEN {} ELSE {"stderr"})
  BY DEF Throw, started
<1>2. FailureIsTold'
  <2>1. CASE ~forked
    BY <1>1, <2>1 DEF FailureIsTold
  <2>2. CASE forked
    <3>1. phase \notin BeforeFork /\ "d" \in opts.flags
      BY <2>2 DEF LogIsSet
    <3>2. CASE opts.text["l"] # ""
      BY <1>1, <3>2 DEF FailureIsTold
    <3>3. CASE opts.text["l"] = ""
      <4>1. log.level = opts.level /\ log.syslog
        BY <3>1, <3>3 DEF LogIsSet, BeforeFork, BeforeLog, BeforeUser, Serving
      <4>2. Severity(e) \in Int /\ opts.level \in Int
        BY DEF Severity, OptionsType
      <4>3. println(Severity(e)) = {} <=> opts.level < Severity(e)
        BY <4>1, <4>2 DEF println
      <4> QED BY <1>1, <2>2, <3>3, <4>3 DEF FailureIsTold, Severity
    <3> QED BY <3>2, <3>3
  <2> QED BY <2>1, <2>2
<1>3. PrivilegesLast'
  BY <1>1 DEF PrivilegesLast
<1> QED
  BY <1>1, <1>2, <1>3
  DEF LogIsSet, UserIsKept, OnlyEndedFails, BeforeLog, BeforeFork, BeforeUser,
      Serving

\* Fail does so too.
LEMMA FailKeeps ==
  ASSUME Inv, phase \in BeforeUser \cup Serving, NEW e, Fail(e), e # "none",
         e = "permission" => env.uid # "root"
  PROVE  Inv'
BY ThrowKeeps DEF Fail

\* A normal end keeps the invariant.
LEMMA ReturnKeeps ==
  ASSUME Inv, phase \in BeforeUser \cup Serving, Return
  PROVE  Inv'
<1>1. /\ phase' = "ended" /\ why' = "none"
      /\ env' = env /\ opts' = opts /\ forked' = forked
  BY DEF Inv, OnlyEndedFails, Return, started, reported, BeforeUser, BeforeFork,
         BeforeLog, Serving
<1> QED
  BY <1>1
  DEF Inv, LogIsSet, UserIsKept, OnlyEndedFails, FailureIsTold, PrivilegesLast,
      BeforeLog, BeforeFork, BeforeUser, Serving

-----------------------------------------------------------------------------
\* Inv of Daemon is inductive.
THEOREM Invariance == Spec => []Inv
<1> USE DEF BeforeLog, BeforeFork, BeforeUser, Serving
<1>1. Init => Inv
  <2> SUFFICES ASSUME Init PROVE Inv
    OBVIOUS
  <2>1. Defaults \in OptionsType
    <3>1. /\ Defaults.flags \subseteq Flags
          /\ Defaults.lists \in [Lists -> SUBSET STRING]
          /\ Defaults.text = [o \in Texts |-> Defaults.text[o]]
          /\ Defaults = [flags |-> Defaults.flags, text |-> Defaults.text,
                         lists |-> Defaults.lists, level |-> 6, max |-> 250,
                         min_ttl |-> 60, timeout |-> 7]
      BY DEF Defaults
    <3>2. Defaults.text \in [Texts -> STRING \cup {Defaults.text[o] : o \in Texts}]
      BY <3>1, Zenon
    <3> QED BY <3>1, <3>2 DEF OptionsType
  <2> QED
    BY <2>1 DEF Init, Inv, LogIsSet, UserIsKept, OnlyEndedFails, FailureIsTold,
               PrivilegesLast
<1>2. Inv /\ [Next]_vars => Inv'
  <2> SUFFICES ASSUME Inv, [Next]_vars PROVE Inv'
    OBVIOUS
  <2>1. CASE Construct
    <3>1. CASE Go("options")
      BY <2>1, <3>1
      DEF Construct, Go, started, reported, Inv, LogIsSet, UserIsKept,
          OnlyEndedFails, FailureIsTold, PrivilegesLast
    <3>2. CASE Throw("logic_error")
      BY <2>1, <3>2, ThrowKeeps DEF Construct
    <3> QED BY <2>1, <3>1, <3>2 DEF Construct, Fail
  <2>2. CASE ReadLine
    <3> PICK line \in ConfigLines :
          IF BadLine(line)
            THEN Fail("runtime_error")
            ELSE /\ opts' = ParseLine(opts, line)
                 /\ read' = Append(read, line)
                 /\ UNCHANGED <<env, phase, log, forked, uid, listeners,
                                pending, status, reported>>
      BY <2>2 DEF ReadLine
    <3>1. CASE BadLine(line)
      BY <2>2, <3>1, FailKeeps DEF ReadLine
    <3>2. CASE ~BadLine(line)
      <4>1. opts' \in OptionsType
        BY <3>2, LineType DEF Inv
      <4> QED
        BY <2>2, <3>2, <4>1
        DEF ReadLine, reported, Inv, LogIsSet, UserIsKept, OnlyEndedFails,
            FailureIsTold, PrivilegesLast
    <3> QED BY <3>1, <3>2
  <2>3. CASE ReadArgument
    <3> PICK a \in Arguments :
          CASE Refuses(a.letter, a.arg) -> Fail("runtime_error")
            [] Tells(a.letter) -> Return
            [] OTHER -> /\ opts' = apply_option(opts, a.letter, a.arg)
                        /\ read' = Append(read, a)
                        /\ UNCHANGED <<env, phase, log, forked, uid, listeners,
                                       pending, status, reported>>
      BY <2>3 DEF ReadArgument
    <3>0. a.arg \in Words
          /\ (a.letter \in {o.letter : o \in LongOptions} \/ a.letter = "?")
      BY DaemonAssumption
    <3>1. CASE Refuses(a.letter, a.arg) /\ Fail("runtime_error")
      BY <2>3, <3>1, FailKeeps DEF ReadArgument
    <3>2. CASE Tells(a.letter) /\ Return
      BY <2>3, <3>2, ReturnKeeps DEF ReadArgument
    <3>3. CASE ~Refuses(a.letter, a.arg) /\ ~Tells(a.letter)
      <4>1. a.letter \in Stored
        BY <3>0, <3>3, LettersKnown DEF Refuses, Tells
      <4>2. opts' \in OptionsType
        BY <3>0, <3>3, <4>1, ApplyType DEF Inv
      <4> QED
        BY <2>3, <3>3, <4>2
        DEF ReadArgument, reported, Inv, LogIsSet, UserIsKept, OnlyEndedFails,
            FailureIsTold, PrivilegesLast
    <3> QED BY <3>1, <3>2, <3>3
  <2>4. CASE EndOptions
    <3>1. CASE Exclusive(options_apply(opts))
      BY <2>4, <3>1, FailKeeps DEF EndOptions
    <3>2. CASE ~Exclusive(options_apply(opts))
      <4>1. /\ opts' \in OptionsType
            /\ opts'.text["l"] = "" /\ "d" \in opts'.flags => "s" \in opts'.flags
        BY <2>4, <3>2, OptionsApplied DEF EndOptions, Inv
      <4> QED
        BY <2>4, <3>2, <4>1
        DEF EndOptions, reported, Inv, LogIsSet, UserIsKept, OnlyEndedFails,
            FailureIsTold, PrivilegesLast
    <3> QED BY <3>1, <3>2
  <2>5. CASE SetupLog
    <3>1. CASE Fail("runtime_error")
      BY <2>5, <3>1, FailKeeps DEF SetupLog
    <3>2. CASE ~Fail("runtime_error")
      <4>1. /\ phase = "log" /\ phase' \in {"daemonize", "responder"}
            /\ env' = env /\ opts' = opts /\ forked' = forked /\ uid' = uid
            /\ why' = why
            /\ phase' = "daemonize" => "d" \in opts.flags
            /\ log' = IF opts.text["l"] = ""
                        THEN [level |-> opts.level, syslog |-> "s" \in opts.flags]
                        ELSE log
        BY <2>5, <3>2 DEF SetupLog, logger_init, started, reported
      <4>2. /\ log'.level = IF opts.text["l"] = "" THEN opts.level ELSE 6
            /\ log'.syslog <=> opts.text["l"] = "" /\ "s" \in opts.flags
        BY <4>1 DEF Inv, LogIsSet
      <4>3. LogIsSet'
        BY <4>1, <4>2 DEF Inv, LogIsSet
      <4> QED
        BY <4>1, <4>3
        DEF Inv, UserIsKept, OnlyEndedFails, FailureIsTold, PrivilegesLast
    <3> QED BY <3>1, <3>2
  <2>6. CASE Daemonize
    <3>1. CASE Fail("system_error")
      BY <2>6, <3>1, FailKeeps DEF Daemonize
    <3>2. CASE ~Fail("system_error")
      <4>1. /\ phase = "daemonize" /\ phase' = "responder" /\ forked' = TRUE
            /\ env' = env /\ opts' = opts /\ log' = log /\ uid' = uid
            /\ why' = why
        BY <2>6, <3>2 DEF Daemonize, started, reported
      <4>2. "d" \in opts.flags
        BY <4>1 DEF Inv, LogIsSet
      <4> QED
        BY <4>1, <4>2
        DEF Inv, LogIsSet, UserIsKept, OnlyEndedFails, FailureIsTold,
            PrivilegesLast
    <3> QED BY <3>1, <3>2
  <2>7. CASE MakeResponder
    <3>1. CASE Go("listeners")
      BY <2>7, <3>1
      DEF MakeResponder, Go, started, reported, Inv, LogIsSet, UserIsKept,
          OnlyEndedFails, FailureIsTold, PrivilegesLast
    <3>2. CASE ~Go("listeners")
      BY <2>7, <3>2, FailKeeps DEF MakeResponder, Thrown
    <3> QED BY <3>1, <3>2
  <2>8. CASE StartListeners
    <3>1. CASE Fail("runtime_error") \/ Fail("taken")
      BY <2>8, <3>1, FailKeeps DEF StartListeners
    <3>2. CASE Forbidden(uid) /\ Fail("permission")
      <4>1. env.uid # "root"
        BY <2>8, <3>2 DEF Forbidden, StartListeners, Inv, UserIsKept
      <4> QED BY <2>8, <3>2, <4>1, FailKeeps DEF StartListeners
    <3>3. CASE /\ listeners' = {"udp", "tcp"} /\ status' = "ready"
               /\ phase' = "user"
               /\ UNCHANGED <<started, read, log, forked, uid, pending, reported>>
      BY <2>8, <3>3
      DEF StartListeners, started, reported, Inv, LogIsSet, UserIsKept,
          OnlyEndedFails, FailureIsTold, PrivilegesLast
    <3> QED BY <2>8, <3>1, <3>2, <3>3 DEF StartListeners
  <2>9. CASE RevokePrivileges
    <3>1. CASE opts.text["u"] \in {"", "root"}
      BY <2>9, <3>1, DaemonAssumption
      DEF RevokePrivileges, Go, started, reported, Inv, LogIsSet, UserIsKept,
          OnlyEndedFails, FailureIsTold, PrivilegesLast
    <3>2. CASE opts.text["u"] \in KnownUsers /\ uid = "root"
      BY <2>9, <3>2, DaemonAssumption
      DEF RevokePrivileges, started, reported, Inv, LogIsSet, UserIsKept,
          OnlyEndedFails, FailureIsTold, PrivilegesLast
    <3>3. CASE /\ opts.text["u"] \notin {"", "root"}
               /\ ~(opts.text["u"] \in KnownUsers /\ uid = "root")
      BY <2>9, <3>3, FailKeeps DEF RevokePrivileges
    <3> QED BY <3>1, <3>2, <3>3
  <2>10. CASE UpdateCertificates
    <3>1. CASE Go("loop")
      BY <2>10, <3>1
      DEF UpdateCertificates, Go, started, reported, Inv, LogIsSet, UserIsKept,
          OnlyEndedFails, FailureIsTold, PrivilegesLast
    <3>2. CASE ~Go("loop")
      BY <2>10, <3>2, FailKeeps DEF UpdateCertificates
    <3> QED BY <3>1, <3>2
  <2>11. CASE HandleSignals
    <3>1. CASE Fail("runtime_error")
      BY <2>11, <3>1, FailKeeps DEF HandleSignals
    <3>2. CASE ~Fail("runtime_error")
      <4>1. /\ phase = "loop" /\ phase' \in {"loop", "save"}
            /\ env' = env /\ opts' = opts /\ log' = log /\ uid' = uid
            /\ forked' = forked /\ why' = why /\ listeners' = listeners
        BY <2>11, <3>2 DEF HandleSignals, started, reported
      <4> QED
        BY <4>1
        DEF Inv, LogIsSet, UserIsKept, OnlyEndedFails, FailureIsTold,
            PrivilegesLast
    <3> QED BY <3>1, <3>2
  <2>12. CASE Save
    <3>1. CASE Return
      BY <2>12, <3>1, ReturnKeeps DEF Save
    <3>2. CASE ~Return
      BY <2>12, <3>2, FailKeeps DEF Save
    <3> QED BY <3>1, <3>2
  <2>13. CASE LoopFails
    BY <2>13, FailKeeps DEF LoopFails, Thrown
  <2>14. CASE TestingTimeout
    BY <2>14
    DEF TestingTimeout, Go, started, reported, Inv, LogIsSet, UserIsKept,
        OnlyEndedFails, FailureIsTold, PrivilegesLast
  <2>15. CASE \E s \in {"stop", "reload"} : Signal(s)
    <3>1. /\ phase' = phase \/ (phase' = "killed" /\ phase = "main")
          /\ env' = env /\ opts' = opts /\ log' = log /\ uid' = uid
          /\ forked' = forked /\ why' = why /\ told' = told
          /\ listeners' = listeners
      BY <2>15 DEF Signal, Go, started, reported
    <3> QED
      BY <3>1
      DEF Inv, LogIsSet, UserIsKept, OnlyEndedFails, FailureIsTold,
          PrivilegesLast
  <2>16. CASE UNCHANGED vars
    BY <2>16
    DEF vars, Inv, LogIsSet, UserIsKept, OnlyEndedFails, FailureIsTold,
        PrivilegesLast
  <2> QED
    BY <2>1, <2>2, <2>3, <2>4, <2>5, <2>6, <2>7, <2>8, <2>9, <2>10, <2>11,
       <2>12, <2>13, <2>14, <2>15, <2>16 DEF Next, Step
<1> QED BY <1>1, <1>2, PTL DEF Spec

\* Every exception that ends a process without a log file is told, but for daemons
\* with a low log level, whatever the configuration file, the command line and
\* the moment of the failure.
THEOREM FailuresAreTold == Spec => []FailureIsTold
<1>1. Inv => FailureIsTold
  BY DEF Inv
<1> QED BY <1>1, Invariance, PTL

\* Root's privileges are there when the ports are bound and gone when the loop
\* runs, for every configuration.
THEOREM RootIsGivenUpLast == Spec => []PrivilegesLast
<1>1. Inv => PrivilegesLast
  BY DEF Inv
<1> QED BY <1>1, Invariance, PTL
-----------------------------------------------------------------------------
(***************************************************************************)
(* A configuration file: one line more changes its meaning as one turn of  *)
(* the loop of parse_file changes the options.                             *)
(***************************************************************************)

\* A set of natural numbers has a least one.
LEMMA LeastNumber ==
  ASSUME NEW S, S \subseteq Nat, S # {}
  PROVE  \E x \in S : \A y \in S : x <= y
<1> DEFINE R == OpToRel(<, Nat)
<1>1. IsWellFoundedOn(R, Nat)
  BY NatLessThanWellFounded
<1>2. PICK x \in S : \A y \in S : <<y, x>> \notin R
  <2> HIDE DEF R
  <2> QED BY <1>1, WFMin
<1>3. \A y \in S : ~(y < x)
  BY <1>2 DEF OpToRel
<1> QED BY <1>3

\* The places of lines in a file have a last one.
LEMMA LastPlace ==
  ASSUME NEW n \in Nat, NEW S, S \subseteq 1 .. n, S # {}
  PROVE  Max(S) \in S /\ \A y \in S : Max(S) >= y
<1> DEFINE T == {n - x : x \in S}
<1>1. T \subseteq Nat /\ T # {}
  <2>1. \A x \in S : n - x \in Nat
    OBVIOUS
  <2> QED BY <2>1
<1>2. PICK t \in T : \A u \in T : t <= u
  <2> HIDE DEF T
  <2> QED BY <1>1, LeastNumber
<1>3. PICK x \in S : t = n - x
  BY <1>2
<1>4. ASSUME NEW y \in S PROVE x >= y
  <2>1. n - y \in T
    OBVIOUS
  <2>2. t <= n - y
    BY <1>2, <2>1
  <2> QED BY <1>3, <2>2
<1> QED BY <1>4 DEF Max

\* The lines about a letter when one more line is read, and the last of them.
LEMMA OneLineMore ==
  ASSUME NEW file \in Seq(ConfigLines), NEW line \in ConfigLines, NEW l
  PROVE  /\ Meant(line, l) =>
              /\ Lines(Append(file, line), l) = Lines(file, l) \cup {Len(file) + 1}
              /\ Append(file, line)[Max(Lines(Append(file, line), l))] = line
         /\ ~Meant(line, l) => Lines(Append(file, line), l) = Lines(file, l)
         /\ \A i \in Lines(file, l) : Append(file, line)[i] = file[i]
         /\ Append(file, line)[Len(file) + 1] = line
         /\ Lines(file, l) # {} => Max(Lines(file, l)) \in Lines(file, l)
<1> DEFINE n == Len(file)
           more == Append(file, line)
<1>1. /\ n \in Nat /\ DOMAIN file = 1 .. n
      /\ more \in Seq(ConfigLines) /\ DOMAIN more = 1 .. n + 1
      /\ \A i \in 1 .. n : more[i] = file[i]
      /\ more[n + 1] = line
  OBVIOUS
<1> HIDE DEF more, n
<1>2. Lines(file, l) \subseteq 1 .. n
  BY <1>1 DEF Lines
<1>3. Lines(more, l) = {i \in 1 .. n + 1 : Meant(more[i], l)}
  BY <1>1 DEF Lines
<1>4. Lines(file, l) = {i \in 1 .. n : Meant(file[i], l)}
  BY <1>1 DEF Lines
<1>5. ASSUME Meant(line, l)
      PROVE  Lines(more, l) = Lines(file, l) \cup {n + 1} /\ more[Max(Lines(more, l))] = line
  <2>1. Lines(more, l) = Lines(file, l) \cup {n + 1}
    BY <1>1, <1>3, <1>4, <1>5
  <2>2. Max(Lines(more, l)) = n + 1
    BY <1>1, <1>2, <2>1 DEF Max
  <2> QED BY <1>1, <2>1, <2>2
<1>6. ~Meant(line, l) => Lines(more, l) = Lines(file, l)
  BY <1>1, <1>3, <1>4
<1>7. Lines(file, l) # {} => Max(Lines(file, l)) \in Lines(file, l)
  BY <1>1, <1>2, LastPlace
<1>8. \A i \in Lines(file, l) : more[i] = file[i]
  BY <1>1, <1>2
<1> QED BY <1>1, <1>5, <1>6, <1>7, <1>8 DEF more, n

\* Reading(file, line): the meaning of a file with one line more, field by field.
LEMMA MeaningGrows ==
  ASSUME NEW file \in Seq(ConfigLines), NEW line \in ConfigLines
  PROVE  LET old == Meaning(file)
             new == Meaning(Append(file, line))
             a == line.arg
         IN  /\ new.flags = old.flags \cup
                   {f \in Flags : Meant(line, f) /\ a.text \notin {"no", "off", "false"}}
             /\ new.text = [t \in Texts |-> IF Meant(line, t) THEN a.text ELSE old.text[t]]
             /\ new.lists = [l \in Lists |-> IF Meant(line, l)
                               THEN old.lists[l] \cup {a.text} ELSE old.lists[l]]
             /\ new.level = IF Meant(line, "m") THEN UShort(a.number) ELSE old.level
             /\ new.max = IF Meant(line, "n") THEN a.number ELSE old.max
             /\ new.min_ttl = IF Meant(line, "M") THEN UShort(a.number) ELSE old.min_ttl
             /\ new.timeout = IF Meant(line, "T") THEN a.number ELSE old.timeout
<1> DEFINE more == Append(file, line)
           a == line.arg
<1>1. \A l : /\ Meant(line, l) =>
                  /\ Lines(more, l) = Lines(file, l) \cup {Len(file) + 1}
                  /\ more[Max(Lines(more, l))] = line
             /\ ~Meant(line, l) => Lines(more, l) = Lines(file, l)
             /\ \A i \in Lines(file, l) : more[i] = file[i]
             /\ more[Len(file) + 1] = line
             /\ Lines(file, l) # {} => Max(Lines(file, l)) \in Lines(file, l)
  BY OneLineMore
<1> HIDE DEF more
<1>2. Meaning(more).flags = Meaning(file).flags \cup
        {f \in Flags : Meant(line, f) /\ a.text \notin {"no", "off", "false"}}
  <2>1. Meaning(more).flags = {f \in Flags : \E i \in Lines(more, f) :
                                 more[i].arg.text \notin {"no", "off", "false"}}
    BY DEF Meaning
  <2>2. Meaning(file).flags = {f \in Flags : \E i \in Lines(file, f) :
                                 file[i].arg.text \notin {"no", "off", "false"}}
    BY DEF Meaning
  <2>3. \A f \in Flags : (\E i \in Lines(more, f) :
                              more[i].arg.text \notin {"no", "off", "false"})
          <=> \/ \E i \in Lines(file, f) : file[i].arg.text \notin {"no", "off", "false"}
              \/ Meant(line, f) /\ a.text \notin {"no", "off", "false"}
    BY <1>1
  <2> QED BY <2>1, <2>2, <2>3, Zenon
<1>3. Meaning(more).text =
        [t \in Texts |-> IF Meant(line, t) THEN a.text ELSE Meaning(file).text[t]]
  <2>1. Meaning(more).text = [t \in Texts |->
          IF Lines(more, t) = {} THEN Defaults.text[t]
                                 ELSE more[Max(Lines(more, t))].arg.text]
    BY DEF Meaning, LastOr
  <2>2. \A t \in Texts : Meaning(file).text[t] =
          IF Lines(file, t) = {} THEN Defaults.text[t]
                                 ELSE file[Max(Lines(file, t))].arg.text
    BY DEF Meaning, LastOr
  <2>3. \A t \in Texts :
          (IF Lines(more, t) = {} THEN Defaults.text[t]
                                  ELSE more[Max(Lines(more, t))].arg.text)
          = IF Meant(line, t) THEN a.text ELSE Meaning(file).text[t]
    BY <1>1, <2>2
  <2> QED BY <2>1, <2>3
<1>4. Meaning(more).lists = [l \in Lists |->
        IF Meant(line, l) THEN Meaning(file).lists[l] \cup {a.text}
                          ELSE Meaning(file).lists[l]]
  <2>1. /\ Meaning(more).lists = [l \in Lists |-> {more[i].arg.text : i \in Lines(more, l)}]
        /\ \A l \in Lists :
             Meaning(file).lists[l] = {file[i].arg.text : i \in Lines(file, l)}
    BY DEF Meaning
  <2>2. \A l \in Lists : {more[i].arg.text : i \in Lines(more, l)}
          = IF Meant(line, l) THEN Meaning(file).lists[l] \cup {a.text}
                              ELSE Meaning(file).lists[l]
    BY <1>1, <2>1
  <2> QED BY <2>1, <2>2
<1>5. /\ Meaning(more).level =
            IF Meant(line, "m") THEN UShort(a.number) ELSE Meaning(file).level
      /\ Meaning(more).max = IF Meant(line, "n") THEN a.number ELSE Meaning(file).max
  BY <1>1 DEF Meaning, LastOr
<1>6. /\ Meaning(more).min_ttl =
            IF Meant(line, "M") THEN UShort(a.number) ELSE Meaning(file).min_ttl
      /\ Meaning(more).timeout =
            IF Meant(line, "T") THEN a.number ELSE Meaning(file).timeout
  BY <1>1 DEF Meaning, LastOr
<1> QED BY <1>2, <1>3, <1>4, <1>5, <1>6 DEF more

Letters == Texts \cup Lists \cup {"m", "n", "M", "T"}

\* The table: switches have no argument, all the others have, and the letters of
\* different kinds are different.
LEMMA TableKinds ==
  /\ \A o \in LongOptions : o.letter \in Letters => o.arg
  /\ \A o \in LongOptions : o.letter \in Flags => ~o.arg
  /\ Flags \cap Letters = {} /\ Texts \cap Lists = {}
  /\ (Texts \cup Lists) \cap {"m", "n", "M", "T"} = {}
  /\ Stored = Flags \cup Letters /\ Stored \cap {"h", "V"} = {}
<1>1. \A o \in LongOptions : o.letter \in Letters => o.arg
  BY SMT DEF LongOptions, Option, Letters, Texts, Lists
<1>2. \A o \in LongOptions : o.letter \in Flags => ~o.arg
  BY SMT DEF LongOptions, Option, Flags
<1> QED BY <1>1, <1>2 DEF Letters, Stored, Flags, Texts, Lists

\* What a line is about: nothing, or one letter.
LEMMA LineIsAbout ==
  ASSUME NEW line \in ConfigLines
  PROVE  /\ Applied(line) = {} =>
              /\ \A k \in Letters : ~Meant(line, k)
              /\ \A f \in Flags : Meant(line, f) => line.arg.text \in {"no", "off", "false"}
         /\ \A x \in Applied(line) :
              /\ x.letter \in Stored
              /\ \A k \in Stored : Meant(line, k) <=> k = x.letter
              /\ x.letter \in Flags => line.arg.text \notin {"no", "off", "false"}
<1>1. \A k : Meant(line, k) <=>
               ~line.ignored /\ \E o \in find_option(line.name) : o.letter = k
  BY NamesAssumption DEF Meant, find_option
<1>2. \A o, p \in find_option(line.name) : o.letter = p.letter
  BY NamesAssumption DEF find_option
<1>3. find_option(line.name) \subseteq LongOptions
  BY DEF find_option
<1>4. ASSUME Applied(line) = {}, NEW k \in Stored, Meant(line, k)
      PROVE  k \in Flags /\ line.arg.text \in {"no", "off", "false"}
  <2>1. PICK o \in find_option(line.name) : o.letter = k /\ ~line.ignored
    BY <1>1, <1>4
  <2>2. o \in LongOptions /\ ~Tells(o.letter)
    BY <1>3, <1>4, <2>1, TableKinds DEF Tells
  <2>3. Off(o, line.arg)
    BY <1>4, <2>1, <2>2 DEF Applied
  <2>4. ~o.arg /\ line.arg.text \in {"no", "off", "false"}
    BY <2>3 DEF Off
  <2> QED BY <1>4, <2>1, <2>2, <2>4, TableKinds
<1>5. ASSUME NEW x \in Applied(line)
      PROVE  /\ x.letter \in Stored
             /\ \A k \in Stored : Meant(line, k) <=> k = x.letter
             /\ x.letter \in Flags => line.arg.text \notin {"no", "off", "false"}
  <2>1. /\ x \in find_option(line.name) /\ ~line.ignored /\ ~Off(x, line.arg)
        /\ x.letter \notin {"h", "V"} /\ x \in LongOptions
    BY <1>3 DEF Applied, Tells
  <2>2. x.letter \in Stored
    BY <2>1, LettersKnown
  <2>3. \A k \in Stored : Meant(line, k) <=> k = x.letter
    BY <1>1, <1>2, <2>1
  <2>4. x.letter \in Flags => line.arg.text \notin {"no", "off", "false"}
    BY <2>1, TableKinds DEF Off
  <2> QED BY <2>2, <2>3, <2>4
<1> QED BY <1>4, <1>5, TableKinds

\* One turn of the loop of parse_file.
LEMMA LineMeans ==
  ASSUME NEW file \in Seq(ConfigLines), NEW line \in ConfigLines,
         Meaning(file) \in OptionsType
  PROVE  ParseLine(Meaning(file), line) = Meaning(Append(file, line))
<1> DEFINE old == Meaning(file)
           new == Meaning(Append(file, line))
           a == line.arg
<1>1. /\ new.flags = old.flags \cup
            {f \in Flags : Meant(line, f) /\ a.text \notin {"no", "off", "false"}}
      /\ new.text = [t \in Texts |-> IF Meant(line, t) THEN a.text ELSE old.text[t]]
      /\ new.lists = [l \in Lists |-> IF Meant(line, l)
                        THEN old.lists[l] \cup {a.text} ELSE old.lists[l]]
      /\ new.level = IF Meant(line, "m") THEN UShort(a.number) ELSE old.level
      /\ new.max = IF Meant(line, "n") THEN a.number ELSE old.max
      /\ new.min_ttl = IF Meant(line, "M") THEN UShort(a.number) ELSE old.min_ttl
      /\ new.timeout = IF Meant(line, "T") THEN a.number ELSE old.timeout
  BY MeaningGrows
<1>2. /\ new = [flags |-> new.flags, text |-> new.text, lists |-> new.lists,
               level |-> new.level, max |-> new.max, min_ttl |-> new.min_ttl,
               timeout |-> new.timeout]
      /\ old = [flags |-> old.flags, text |-> old.text, lists |-> old.lists,
               level |-> old.level, max |-> old.max, min_ttl |-> old.min_ttl,
               timeout |-> old.timeout]
  BY DEF Meaning
<1>3. old.text = [t \in Texts |-> old.text[t]] /\ old.lists = [l \in Lists |-> old.lists[l]]
  BY DEF OptionsType
<1> SUFFICES ParseLine(old, line) = new
  OBVIOUS
<1> HIDE DEF old, new
<1>4. CASE Applied(line) = {}
  <2>1. /\ \A k \in Letters : ~Meant(line, k)
        /\ \A f \in Flags : Meant(line, f) => a.text \in {"no", "off", "false"}
    BY <1>4, LineIsAbout
  <2>2. new = old
    BY <1>1, <1>2, <1>3, <2>1 DEF Letters
  <2> QED BY <1>4, <2>2 DEF ParseLine
<1>5. CASE Applied(line) # {}
  <2> DEFINE x == CHOOSE x \in Applied(line) : TRUE
             k == x.letter
  <2>1. x \in Applied(line) /\ ParseLine(old, line) = apply_option(old, k, a)
    BY <1>5 DEF ParseLine
  <2> HIDE DEF x
  <2>2. /\ k \in Stored /\ (\A j \in Stored : Meant(line, j) <=> j = k)
        /\ k \in Flags => a.text \notin {"no", "off", "false"}
    BY <2>1, LineIsAbout
  <2> HIDE DEF k
  <2>3. CASE k \in Flags
    <3>1. /\ new.flags = old.flags \cup {k} /\ new.text = old.text
          /\ new.lists = old.lists /\ new.level = old.level /\ new.max = old.max
          /\ new.min_ttl = old.min_ttl /\ new.timeout = old.timeout
      BY <1>1, <1>3, <2>2, <2>3, TableKinds DEF Letters
    <3>2. apply_option(old, k, a) = [old EXCEPT !.flags = @ \cup {k}]
      <4>1. k \notin Texts \cup Lists \cup {"m", "n", "M", "T"}
        BY <2>3, TableKinds DEF Letters
      <4> QED BY <2>3, <4>1 DEF apply_option
    <3> QED BY <1>2, <2>1, <3>1, <3>2
  <2>4. CASE k \in Letters
    <3>1. new.flags = old.flags
      BY <1>1, <2>2, <2>4, TableKinds
    <3>2. CASE k \in Texts
      <4>1. /\ new.text = [old.text EXCEPT ![k] = a.text]
            /\ new.lists = old.lists /\ new.level = old.level /\ new.max = old.max
            /\ new.min_ttl = old.min_ttl /\ new.timeout = old.timeout
        BY <1>1, <1>3, <2>2, <3>2, TableKinds DEF Letters
      <4>2. apply_option(old, k, a) = [old EXCEPT !.text[k] = a.text]
        BY <2>4, <3>2, TableKinds DEF apply_option
      <4> QED BY <1>2, <2>1, <3>1, <4>1, <4>2
    <3>3. CASE k \in Lists
      <4>1. /\ new.text = old.text /\ new.level = old.level /\ new.max = old.max
            /\ new.min_ttl = old.min_ttl /\ new.timeout = old.timeout
        BY <1>1, <1>3, <2>2, <3>3, TableKinds DEF Letters
      <4>3. new.lists = [old.lists EXCEPT ![k] = @ \cup {a.text}]
        <5>1. \A l \in Lists : Meant(line, l) <=> l = k
          BY <2>2, TableKinds DEF Letters
        <5>2. new.lists = [l \in Lists |->
                IF l = k THEN old.lists[l] \cup {a.text} ELSE old.lists[l]]
          BY <1>1, <5>1
        <5> QED BY <1>3, <3>3, <5>2
      <4>2. apply_option(old, k, a) = [old EXCEPT !.lists[k] = @ \cup {a.text}]
        BY <2>4, <3>3, TableKinds DEF apply_option
      <4> QED BY <1>2, <2>1, <3>1, <4>1, <4>2, <4>3
    <3>4. CASE k \in {"m", "n", "M", "T"}
      <4>1. /\ new.lists = old.lists /\ new.text = old.text
            /\ new.level = IF k = "m" THEN UShort(a.number) ELSE old.level
            /\ new.max = IF k = "n" THEN a.number ELSE old.max
            /\ new.min_ttl = IF k = "M" THEN UShort(a.number) ELSE old.min_ttl
            /\ new.timeout = IF k = "T" THEN a.number ELSE old.timeout
        <5>1. /\ \A l \in Texts \cup Lists : ~Meant(line, l)
              /\ \A l \in {"m", "n", "M", "T"} : Meant(line, l) <=> l = k
          BY <2>2, <3>4, TableKinds DEF Letters
        <5>2. new.lists = old.lists /\ new.text = old.text
          BY <1>1, <1>3, <5>1
        <5> QED BY <1>1, <5>1, <5>2
      <4>2. k \notin Flags \cup Texts \cup Lists
        BY <2>4, <3>4, TableKinds
      <4>3. apply_option(old, k, a) =
              [flags |-> old.flags, text |-> old.text, lists |-> old.lists,
               level |-> IF k = "m" THEN UShort(a.number) ELSE old.level,
               max |-> IF k = "n" THEN a.number ELSE old.max,
               min_ttl |-> IF k = "M" THEN UShort(a.number) ELSE old.min_ttl,
               timeout |-> IF k = "T" THEN a.number ELSE old.timeout]
        BY <1>2, <3>4, <4>2 DEF apply_option
      <4> QED BY <1>2, <2>1, <3>1, <4>1, <4>3
    <3> QED BY <2>4, <3>2, <3>3, <3>4 DEF Letters
  <2> QED BY <2>2, <2>3, <2>4, TableKinds
<1> QED BY <1>4, <1>5

\* Until a configuration file is read, the options are what its lines mean so far.
ReadMeans ==
  phase \in {"main", "options"} /\ env.file =>
    read \in Seq(ConfigLines) /\ opts = Meaning(read)

\* An empty file means the values that the constructors set.
LEMMA EmptyFile == Meaning(<<>>) = Defaults
<1>1. \A l : Lines(<<>>, l) = {}
  BY DEF Lines
<1>2. /\ Meaning(<<>>).flags = {} /\ Meaning(<<>>).lists = [l \in Lists |-> {}]
      /\ Meaning(<<>>).text = [t \in Texts |-> Defaults.text[t]]
      /\ Meaning(<<>>).level = 6 /\ Meaning(<<>>).max = 250
      /\ Meaning(<<>>).min_ttl = 60 /\ Meaning(<<>>).timeout = 7
  BY <1>1 DEF Meaning, LastOr
<1>3. Meaning(<<>>) =
        [flags |-> Meaning(<<>>).flags, text |-> Meaning(<<>>).text,
         lists |-> Meaning(<<>>).lists, level |-> Meaning(<<>>).level,
         max |-> Meaning(<<>>).max, min_ttl |-> Meaning(<<>>).min_ttl,
         timeout |-> Meaning(<<>>).timeout]
  BY DEF Meaning
<1>4. Defaults = [flags |-> {}, text |-> [t \in Texts |-> Defaults.text[t]],
                  lists |-> [l \in Lists |-> {}], level |-> 6, max |-> 250,
                  min_ttl |-> 60, timeout |-> 7]
  BY DEF Defaults
<1> QED BY <1>2, <1>3, <1>4

\* Whatever lines a configuration file has, in whatever order and however many,
\* and whatever signals come meanwhile: when parse_file has read them one by one
\* they have set exactly what the file as a whole means.
THEOREM ConfigFilesMean == Spec => []ConfigMeans
<1>1. Init => ReadMeans
  BY EmptyFile DEF Init, ReadMeans
<1>2. Inv /\ ReadMeans /\ [Next]_vars => ReadMeans'
  <2> SUFFICES ASSUME Inv, ReadMeans, [Next]_vars,
                      phase' \in {"main", "options"}, env'.file
               PROVE  read' \in Seq(ConfigLines) /\ opts' = Meaning(read')
    BY DEF ReadMeans
  <2>1. CASE ReadLine /\ phase' # "ended"
    <3>1. PICK line \in ConfigLines :
            opts' = ParseLine(opts, line) /\ read' = Append(read, line) /\ env' = env
      BY <2>1 DEF ReadLine, Fail, Throw
    <3>2. read \in Seq(ConfigLines) /\ opts = Meaning(read) /\ opts \in OptionsType
      BY <2>1, <3>1 DEF ReadMeans, ReadLine, Inv
    <3> QED BY <3>1, <3>2, LineMeans
  <2>2. CASE ReadArgument /\ phase' # "ended"
    <3>1. env' = env /\ ~env.file
      BY <2>2 DEF ReadArgument, Fail, Throw, Return
    <3> QED BY <3>1
  <2>3. CASE ~ReadLine /\ ~ReadArgument
    <3>1. phase \in {"main", "options"} /\ UNCHANGED <<env, read, opts>>
      BY <2>3 DEF Next, Step, vars, started, Construct, EndOptions, SetupLog, Daemonize,
         MakeResponder, StartListeners, RevokePrivileges, UpdateCertificates,
         HandleSignals, Save, LoopFails, TestingTimeout, Signal, Go, Fail, Throw, Return
    <3> QED BY <3>1 DEF ReadMeans
  <2> QED BY <2>1, <2>2, <2>3
<1>3. ReadMeans => ConfigMeans
  BY DEF ReadMeans, ConfigMeans
<1> QED BY <1>1, <1>2, <1>3, Invariance, PTL DEF Spec
=============================================================================
