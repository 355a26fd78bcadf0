-------------------------------- MODULE Daemon --------------------------------
(***************************************************************************)
(* The life of the daemon's process, from main to its exit: cdaemon's      *)
(* constructor reads the options, sets up logging, becomes a daemon, makes *)
(* the responder, binds the listeners, gives up root, runs the event loop  *)
(* and saves (dns/srcz/daemon.cpp, dns/crypt/srcz/daemon.cpp, dns-main.cpp,*)
(* sys/srcz/sysunix.cpp, logger.cpp, backtrace/src/catch.cpp).  Signals    *)
(* come at any time.  What the loop does for clients is in Proxy, what a   *)
(* reload reads is in Providers.                                           *)
(***************************************************************************)
EXTENDS Options

CONSTANTS
  ConfigLines,    \* lines of a configuration file
  Arguments,      \* command line options: [letter, arg]
  MaxOptions,     \* bound: lines or arguments read
  KnownUsers,     \* users that getpwnam finds, other than root
  BadAddresses,   \* texts that are no address
  Privileged      \* addresses whose port only root may bind

\* Words, lines and arguments have the parts that the parser looks at.
Words == [text : STRING, number : Int, whole : BOOLEAN]

ASSUME DaemonAssumption ==
  /\ ConfigLines \subseteq [name : Seq(STRING), arg : Words, ignored : BOOLEAN]
  /\ Arguments \subseteq [letter : {o.letter : o \in LongOptions} \cup {"?"}, arg : Words]
  /\ KnownUsers \cap {"", "root"} = {}
  /\ UIntMax \in Nat

\* find_option tells the options of the table apart, and it knows a line's name
\* exactly when that is a spelling of the option's name: what normalize does to
\* the names of the table and of the lines.
ASSUME NamesAssumption ==
  /\ \A o, p \in LongOptions :
       normalize(o.name) = normalize(p.name) => o.letter = p.letter
  /\ \A line \in ConfigLines, o \in LongOptions :
       normalize(o.name) = normalize(line.name) <=> SameName(o.name, line.name)

VARIABLES
  env,        \* what the process was started with
  phase,      \* how far it has come
  read,       \* the lines read so far (history)
  opts,       \* the options
  log,        \* the logger: its level, and whether it is syslog
  forked,     \* a daemon, with its standard streams on /dev/null
  uid,
  listeners,
  pending,    \* signals that came and wait for the loop
  status,     \* the last state told to systemd
  why,        \* the exception that ended the process
  told        \* where its message was written

vars == <<env, phase, read, opts, log, forked, uid, listeners, pending, status,
          why, told>>

started == <<env, opts>>
reported == <<why, told>>

\* The process goes on to p and changes nothing else.
Go(p) ==
  /\ phase' = p
  /\ UNCHANGED <<started, read, log, forked, uid, listeners, pending, status,
                 reported>>

\* One uid for each user; a guest is any other unprivileged one.
Uids == {"root", "guest"} \cup KnownUsers

\* Who starts the process, whether with a configuration file or with options,
\* and whether everybody may read the hosts file or only root.
Environments ==
  [uid : {"root", "guest"}, file : BOOLEAN, hosts : {"all", "root"}]

Init ==
  /\ env \in Environments
  /\ phase = "main"
  /\ read = <<>>
  /\ opts = Defaults
  /\ log = [level |-> 6, syslog |-> FALSE]
  /\ forked = FALSE
  /\ uid = env.uid
  /\ listeners = {}
  /\ pending = {}
  /\ status = "none"
  /\ why = "none"
  /\ told = {}

-----------------------------------------------------------------------------
(***************************************************************************)
(* Errors.                                                                 *)
(***************************************************************************)

\* The severity at which log_errors logs an exception.
Severity(error) ==
  CASE error = "other" -> 0
    [] error = "exception" -> 1
    [] error = "logic_error" -> 2
    [] OTHER -> 3

\* What files, libraries and lack of memory may make the code throw: the two
\* kinds of errors, other exceptions of the library, and anything else.
Thrown == {"runtime_error", "logic_error", "exception", "other"}

\* println: where a message goes, if it goes anywhere.
println(severity) ==
  IF severity > log.level THEN {}
  ELSE IF log.syslog THEN {"syslog"}
  ELSE IF forked THEN {} ELSE {"stderr"}

\* An exception leaves log_errors, which logs it, and catch_all_errors, which
\* writes it to the standard error stream and exits.
Throw(error) ==
  /\ phase' = "ended"
  /\ why' = error
  /\ told' = println(Severity(error)) \cup (IF forked THEN {} ELSE {"stderr"})
  /\ listeners' = {}
  /\ read' = <<>>
  /\ UNCHANGED <<started, log, forked, uid, pending>>

\* It leaves cdaemon's constructor.  daemon's constructor has run, so the
\* destructor runs, too, and tells systemd.
Fail(error) ==
  /\ Throw(error)
  /\ status' = "stopping"

\* The constructor returns, and with it main.
Return ==
  /\ phase' = "ended"
  /\ status' = "stopping"
  /\ listeners' = {}
  /\ read' = <<>>
  /\ UNCHANGED <<started, log, forked, uid, pending, reported>>

-----------------------------------------------------------------------------
(***************************************************************************)
(* The start.                                                              *)
(***************************************************************************)

\* The constructors of daemon and cdaemon without options: libev, if it has a
\* backend, takes over the signals, and sodium_init may fail.
Construct ==
  /\ phase = "main"
  /\ \/ Go("options")
     \/ Throw("logic_error") /\ UNCHANGED status
     \/ Fail("logic_error")

\* One line of the configuration file.
ReadLine ==
  /\ phase = "options" /\ env.file
  /\ Len(read) < MaxOptions
  /\ \E line \in ConfigLines :
       IF BadLine(line)
         THEN Fail("runtime_error")
         ELSE /\ opts' = ParseLine(opts, line)
              /\ read' = Append(read, line)
              /\ UNCHANGED <<env, phase, log, forked, uid, listeners, pending,
                             status, reported>>

\* One option that getopt_long finds; help and version end the program.
ReadArgument ==
  /\ phase = "options" /\ ~env.file
  /\ Len(read) < MaxOptions
  /\ \E a \in Arguments :
       CASE Refuses(a.letter, a.arg) -> Fail("runtime_error")
         [] Tells(a.letter) -> Return
         [] OTHER -> /\ opts' = apply_option(opts, a.letter, a.arg)
                     /\ read' = Append(read, a)
                     /\ UNCHANGED <<env, phase, log, forked, uid, listeners,
                                    pending, status, reported>>

\* parse: the options have been read.
EndOptions ==
  /\ phase = "options"
  /\ IF Exclusive(options_apply(opts))
       THEN Fail("runtime_error")
       ELSE /\ opts' = options_apply(opts)
            /\ phase' = "log"
            /\ read' = <<>>
            /\ UNCHANGED <<env, log, forked, uid, listeners, pending, status,
                           reported>>

\* logger_init: the level and where the lines go.
logger_init(level, syslog) == [level |-> level, syslog |-> syslog]

\* setup0: the log file is opened, and nothing else is done with it; the logger
\* keeps its level and its streams then.
SetupLog ==
  /\ phase = "log"
  /\ \/ /\ log' = IF opts.text["l"] = ""
                    THEN logger_init(opts.level, "s" \in opts.flags)
                    ELSE log
        /\ phase' = IF "d" \in opts.flags THEN "daemonize" ELSE "responder"
        /\ UNCHANGED <<started, read, forked, uid, listeners, pending, status,
                       reported>>
     \/ opts.text["l"] # "" /\ Fail("runtime_error")

\* do_daemonize: fork, setsid and the opening of /dev/null may fail; then the
\* standard error stream is the one of the caller still.
Daemonize ==
  /\ phase = "daemonize"
  /\ \/ /\ forked' = TRUE
        /\ phase' = "responder"
        /\ UNCHANGED <<started, read, log, uid, listeners, pending, status,
                       reported>>
     \/ Fail("system_error")

\* A reader of the hosts file.
HostsReadable == opts.text["H"] = "" \/ env.hosts = "all" \/ uid = "root"

\* The server's keys are loaded and the responder is made: an unreadable hosts
\* file, other contents of files and the keys may fail.
MakeResponder ==
  /\ phase = "responder"
  /\ \/ HostsReadable /\ Go("listeners")
     \/ \E e \in Thrown : Fail(e)

\* systemd_init_descriptors: no sockets, a UDP and a TCP one, or others.  They
\* are given to the process that systemd started, and a fork is another one.
Descriptors == IF forked THEN {"none"} ELSE {"none", "pair", "other"}

\* Mutant of Forbidden: the user has been changed before.
ForbiddenAsUser(user) ==
  /\ opts.text["a"] \in Privileged
  /\ user # "root" \/ opts.text["u"] \in KnownUsers

\* bind_listener fails for lack of permission.
Forbidden(user) == opts.text["a"] \in Privileged /\ user # "root"

\* setup without the change of user: the address, the sockets from systemd or
\* new ones, and the message that all is ready.  The port may be taken, by a
\* process that does not share it.
StartListeners ==
  /\ phase = "listeners"
  /\ \E sockets \in Descriptors :
       CASE opts.text["a"] \in BadAddresses \/ sockets = "other" ->
              Fail("runtime_error")
         [] opts.text["a"] \notin BadAddresses /\ sockets = "none" /\ Forbidden(uid) ->
              Fail("permission")
         [] OTHER ->
              \/ /\ listeners' = {"udp", "tcp"}
                 /\ status' = "ready"
                 /\ phase' = "user"
                 /\ UNCHANGED <<started, read, log, forked, uid, pending, reported>>
              \/ sockets = "none" /\ Fail("taken")

\* revoke_privileges: nothing for root itself; everybody else needs root to
\* change the groups.
RevokePrivileges ==
  /\ phase = "user"
  /\ LET user == opts.text["u"]
     IN  CASE user \in {"", "root"} -> Go("certificates")
           [] user \in KnownUsers /\ uid = "root" ->
                /\ uid' = user
                /\ phase' = "certificates"
                /\ UNCHANGED <<started, read, log, forked, listeners, pending,
                               status, reported>>
           [] OTHER -> Fail("runtime_error")

\* The timeout is so low that no timer can be made with it.
TooLow == opts.timeout <= 0

\* update_certificates asks the DNScrypt resolvers that have no certificate, if
\* there are any.
UpdateCertificates ==
  /\ phase = "certificates"
  /\ \/ Go("loop")
     \/ TooLow /\ Fail("logic_error")

-----------------------------------------------------------------------------
(***************************************************************************)
(* The loop, and the end.                                                  *)
(***************************************************************************)

\* Mutant of HandleSignals: what came together with a reload is forgotten.
HandleSignalsReloadOnly ==
  /\ phase = "loop"
  /\ pending # {}
  /\ \/ "reload" \in pending /\ ~HostsReadable /\ Fail("runtime_error")
     \/ /\ "reload" \in pending => HostsReadable
        /\ pending' = {}
        /\ status' = IF "reload" \in pending THEN "ready" ELSE status
        /\ phase' = IF pending = {"stop"} THEN "save" ELSE "loop"
        /\ UNCHANGED <<started, read, log, forked, uid, listeners, reported>>

\* One turn of the loop calls the watchers of all the signals that came: a
\* reload tells systemd and reads the files again, as the user the process is
\* now; an interrupt or a termination breaks the loop after this turn.
HandleSignals ==
  /\ phase = "loop"
  /\ pending # {}
  /\ \/ "reload" \in pending /\ ~HostsReadable /\ Fail("runtime_error")
     \/ /\ "reload" \in pending => HostsReadable
        /\ pending' = {}
        /\ status' = IF "reload" \in pending THEN "ready" ELSE status
        /\ phase' = IF "stop" \in pending THEN "save" ELSE "loop"
        /\ UNCHANGED <<started, read, log, forked, uid, listeners, reported>>

\* An exception that the event loop does not catch: the first request under a
\* timeout that is too low, or the ones of Proxy's LoopEnds.
LoopFails ==
  /\ phase = "loop"
  /\ \E e \in Thrown : Fail(e)

\* The timer breaks the loop that CDNS_TESTING_TIMEOUT in the environment starts.
TestingTimeout ==
  /\ phase = "loop"
  /\ Go("save")

\* execute, after the loop: the cache and the resolvers are saved into the cache
\* directory, if there is one.
Save ==
  /\ phase = "save"
  /\ \/ Return
     \/ opts.text["E"] # "" /\ Fail("runtime_error")

\* A signal comes.  Before the constructor has run it kills the process.
Signal(s) ==
  \/ phase = "main" /\ Go("killed")
  \/ /\ phase \notin {"main", "killed", "ended"}
     /\ pending' = pending \cup {s}
     /\ UNCHANGED <<started, phase, read, log, forked, uid, listeners, status,
                    reported>>

\* What the process does by itself, clients and files apart.
Step ==
  \/ Construct \/ EndOptions \/ SetupLog \/ Daemonize \/ MakeResponder
  \/ StartListeners \/ RevokePrivileges \/ UpdateCertificates
  \/ HandleSignals \/ Save

Next ==
  \/ Step
  \/ ReadLine \/ ReadArgument
  \/ LoopFails \/ TestingTimeout
  \/ \E s \in {"stop", "reload"} : Signal(s)

Spec == Init /\ [][Next]_vars

\* The process is scheduled, and the files and the arguments it reads end.
LiveSpec == Spec /\ WF_vars(Step)

-----------------------------------------------------------------------------
(***************************************************************************)
(* Properties.                                                             *)
(***************************************************************************)

\* Whatever lines the configuration file has, in whatever order and spelling,
\* reading it one line after the other gives what the file as a whole means.
ConfigMeans == phase = "options" /\ env.file => opts = Meaning(read)

\* Without a log file an exception that ends the process is written where somebody
\* can read it, daemon or not, at every moment of the start and after it: only a
\* daemon whose log level is below the severity of the error ends in silence.
FailureIsTold ==
  phase = "ended" /\ why # "none" /\ opts.text["l"] = "" =>
    (told = {} <=> forked /\ opts.level < Severity(why))

\* With a log file too, as the configuration file says of it: "Log file to write
\* server errors and information to".
LogFileTells ==
  phase = "ended" /\ why # "none" /\ opts.text["l"] # "" /\ opts.level >= Severity(why) =>
    told # {}

\* The user id of root is given up after everything that needs it and before
\* anything is served: who starts as root is never refused a port, and the loop
\* runs as the configured user (root, as a user to change to, changes nothing).
\* revoke_privileges does not change the group id.
PrivilegesLast ==
  /\ why = "permission" => env.uid # "root"
  /\ phase \in {"certificates", "loop", "save"} =>
       /\ listeners = {"udp", "tcp"}
       /\ opts.text["u"] \in KnownUsers => uid = opts.text["u"]
       /\ opts.text["u"] \in KnownUsers \cup {"", "root"}

\* A signal to stop is never lost, during the start and with reloads, too: the
\* process ends.
SignalEnds == "stop" \in pending ~> phase = "ended"

-----------------------------------------------------------------------------
(***************************************************************************)
(* The inductive invariant behind the safety properties.                   *)
(***************************************************************************)
\* (The default texts are named for the provers, which do not know that a text
\* in quotes is a string.)
OptionsType ==
  [flags : SUBSET Flags,
   text : [Texts -> STRING \cup {Defaults.text[o] : o \in Texts}],
   lists : [Lists -> SUBSET STRING],
   level : Int, max : Int, min_ttl : Int, timeout : Int]

\* The phases in the order in which they come.
BeforeLog == {"main", "options", "log"}
BeforeFork == BeforeLog \cup {"daemonize"}
BeforeUser == BeforeFork \cup {"responder", "listeners", "user"}
Serving == {"certificates", "loop", "save"}

\* A daemon always has a log of its own, the logger is as the options say once
\* it is set up, and only a process that the options make a daemon is one.
LogIsSet ==
  /\ phase \notin {"main", "options", "ended", "killed"} =>
       (opts.text["l"] = "" /\ "d" \in opts.flags => "s" \in opts.flags)
  /\ phase \in (BeforeUser \ BeforeLog) \cup Serving =>
       /\ log.level = IF opts.text["l"] = "" THEN opts.level ELSE 6
       /\ log.syslog <=> opts.text["l"] = "" /\ "s" \in opts.flags
  /\ phase \in BeforeLog => log.level = 6 /\ ~log.syslog
  /\ phase \in BeforeFork => ~forked
  /\ forked \/ phase = "daemonize" => "d" \in opts.flags

\* Nothing changes the user before the listeners are bound.
UserIsKept ==
  /\ phase \in BeforeUser => uid = env.uid
  /\ phase = "user" => listeners = {"udp", "tcp"}

\* Only an exception has a reason.
OnlyEndedFails == phase # "ended" => why = "none"

Inv ==
  /\ phase \in BeforeUser \cup Serving \cup {"ended", "killed"}
  /\ env \in Environments
  /\ forked \in BOOLEAN
  /\ opts \in OptionsType
  /\ LogIsSet
  /\ UserIsKept
  /\ OnlyEndedFails
  /\ FailureIsTold
  /\ PrivilegesLast
=============================================================================
