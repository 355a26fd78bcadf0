------------------------------- MODULE MCWire -------------------------------
(***************************************************************************)
(* What goes over the wire, for TLC: messages, and the frames of a TCP     *)
(* connection.  The two modules share no state, so it is enough that each  *)
(* takes its steps while the other is where it begins: all behaviours of   *)
(* both are there, and not the product of their states.                    *)
(***************************************************************************)
EXTENDS MCMessage, MCTcpFraming

NothingSent == frames = <<>> /\ ~shut /\ pc = "idle"

WireNext ==
    \/ msg = None /\ Next /\ UNCHANGED messageVars
    \/ NothingSent /\ MessageNext /\ UNCHANGED vars

WireInit == Init /\ MessageInit

WireSpec == WireInit /\ [][WireNext]_<<vars, messageVars>>

=============================================================================
