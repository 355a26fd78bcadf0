----------------------------- MODULE ClientView -----------------------------
(***************************************************************************)
(* What a client may rely on, whatever the proxy does inside: a request is *)
(* answered at most once, and one that the proxy has forgotten stays       *)
(* unanswered.  One callback of the proxy may settle several requests.     *)
(***************************************************************************)
CONSTANT Requests

VARIABLE view       \* what became of each request

Views == {"unsent", "waiting", "answered", "lost"}

\* The moves a request may make in one step.  A UDP request can be received and
\* answered in one callback.
Moves ==
  {<<v, v>> : v \in Views} \cup
  {<<"unsent", "waiting">>, <<"unsent", "answered">>,
   <<"waiting", "answered">>, <<"waiting", "lost">>}

Init == view = [r \in Requests |-> "unsent"]

Next ==
  /\ view' \in [Requests -> Views]
  /\ \A r \in Requests : <<view[r], view'[r]>> \in Moves

Spec == Init /\ [][Next]_view

=============================================================================
