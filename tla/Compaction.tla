----------------------------- MODULE Compaction -----------------------------
(***************************************************************************)
(* What one pass of the "clean up requests" loop keeps of a vector of      *)
(* requests.  The same loop is written twice in the code, for the incoming *)
(* requests of a listener and for the upstream requests of the responder:  *)
(*                                                                         *)
(*   last = 0                                                              *)
(*   for (i = 0; i < reqs.size(); ++i)                                     *)
(*       if (closed (reqs[i]))  erase (reqs.begin() + i)                   *)
(*       else                   last = i + 1                               *)
(*   reqs.resize (last)                                                    *)
(*                                                                         *)
(* Elements are only ever pushed at the back and removed by this loop, so  *)
(* a vector is modelled by the set of its elements, numbered in the order  *)
(* they were pushed.  Module Descriptors runs the loop itself on sequences *)
(* and checks that it computes Survivors.                                  *)
(***************************************************************************)
EXTENDS Integers, FiniteSets

\* The elements of q directly in front of j that are closed, up to the first
\* open one.
ClosedRunBefore(q, closed, j) ==
  {k \in q : k < j /\ \A m \in q : (k <= m /\ m < j) => m \in closed}

\* erase() moves the next element into slot i, and ++i then steps over it: an
\* element is looked at exactly when the closed run in front of it is even.
Examined(q, closed) ==
  {j \in q : Cardinality(ClosedRunBefore(q, closed, j)) % 2 = 0}

\* What is left: not erased, and not behind the last open element the loop
\* looked at, where resize(last) cuts the vector.
Survivors(q, closed) ==
  {j \in q : /\ ~(j \in closed /\ j \in Examined(q, closed))
             /\ \E k \in Examined(q, closed) \ closed : j <= k}

=============================================================================
