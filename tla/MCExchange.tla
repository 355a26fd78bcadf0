----------------------------- MODULE MCExchange -----------------------------
(* Texts at the limits of the sizes, for TLC. *)
EXTENDS Exchange

Zeros(n) == [i \in 1 .. n |-> 0]

\* Ending like a padded text; full, with a mark right behind the header; too
\* long to be encrypted.
MCAsks == {<<1, 2, 3, 128, 0>>, <<1, 2, 128>> \o Zeros(10), <<1, 2, 3>> \o Zeros(14)}

\* The longest one that is padded; full, with a mark; too long for curve.
MCAnswers == {<<5>> \o Zeros(11), <<6, 2, 3, 128>> \o Zeros(9), <<7, 2, 3, 4>> \o Zeros(14)}

=============================================================================
