------------------------------ MODULE MCDaemon ------------------------------
EXTENDS Daemon

MCLowered == ("Log" :> "log") @@ ("File" :> "file") @@ ("Daemonize" :> "daemonize")
          @@ ("TCP" :> "tcp") @@ ("Only" :> "only") @@ ("Max" :> "max")
          @@ ("Active" :> "active") @@ ("Requests" :> "requests")
          @@ ("TTL" :> "ttl")

Text(t) == [text |-> t, number |-> 0, whole |-> t = ""]
Number(t, n) == [text |-> t, number |-> n, whole |-> TRUE]
Line(name, arg) == [name |-> name, arg |-> arg, ignored |-> FALSE]

MCLines == {
  [Line(<<"daemonize">>, Text("")) EXCEPT !.ignored = TRUE],
  Line(<<"Daemonize">>, Text("yes")),
  Line(<<"daemonize">>, Text("no")),
  Line(<<"sys", "log">>, Text("No")),
  Line(<<"Log", "File">>, Text("file")),
  Line(<<"log", "level">>, Number("1", 1)),
  Line(<<"log", "-", "level">>, Number("65536", 65536)),
  Line(<<"log", "_", "level">>, Text("x")),
  Line(<<"user">>, Text("cdns")),
  Line(<<"user">>, Text("nobody")),
  Line(<<"TCP", "Only">>, Text("")),
  Line(<<"Max", "Active", "Requests">>, Number("9", 9)),
  Line(<<"Max", "-", "Active", "-", "Requests">>, Number("8", 8)),
  Line(<<"max", "-", "active", "-", "requests">>, Number("0", 0)),
  Line(<<"max", "-", "active", "-", "requests">>, Number("1001", UIntMax + 1)),
  Line(<<"max", "-", "active", "_", "requests">>, Number("7", 7)),
  Line(<<"min", "_", "TTL">>, Number("-1", -1)),
  Line(<<"time", "out">>, Text("ten")),
  Line(<<"black", "list">>, Text("a")),
  Line(<<"black", "list">>, Text("b")),
  Line(<<"hosts">>, Text("hosts")),
  Line(<<"cache", "dir">>, Text("cache")),
  Line(<<"help">>, Text("")),
  Line(<<"ephemeral", "keys">>, Text("on"))}

MCArguments == {
  [letter |-> "d", arg |-> Text("")],
  [letter |-> "l", arg |-> Text("file")],
  [letter |-> "m", arg |-> Number("2", 2)],
  [letter |-> "u", arg |-> Text("root")],
  [letter |-> "u", arg |-> Text("cdns")],
  [letter |-> "a", arg |-> Text("1.2.3.4:5300")],
  [letter |-> "a", arg |-> Text("localhost")],
  [letter |-> "h", arg |-> Text("")],
  [letter |-> "?", arg |-> Text("")]}
=============================================================================
