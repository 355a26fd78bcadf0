------------------------------ MODULE MCFilter ------------------------------
(* Words and names over the letters a and b, for TLC. *)
EXTENDS Filter

A == 97
B == 98
UpperA == 65

\* *a*  *b.*  *.b*  *aa*  *.*  *ab*   *   **
MCSubstrings == {<<Star, A, Star>>, <<Star, B, Dot, Star>>, <<Star, Dot, B, Star>>,
    <<Star, A, A, Star>>, <<Star, A, B, Star>>, <<Star>>, <<Star, Star>>}

\* a.*  ab.*  a.b.*  b.*  b*  a.a.*
MCPrefixes == {<<A, Dot, Star>>, <<A, B, Dot, Star>>, <<A, Dot, B, Dot, Star>>,
    <<B, Dot, Star>>, <<B, Star>>, <<A, Dot, A, Dot, Star>>}

\* .a  *.a  *.b.a  .A.a  .aa  *.b
MCSuffixes == {<<Dot, A>>, <<Star, Dot, A>>, <<Star, Dot, B, Dot, A>>,
    <<Dot, UpperA, Dot, A>>, <<Dot, A, A>>, <<Star, Dot, B>>}

\* a  b  A.b  b.a  aa  ab.  a.a  #a
MCExact == {<<A>>, <<B>>, <<UpperA, Dot, B>>, <<B, Dot, A>>, <<A, A>>,
    <<A, B, Dot>>, <<A, Dot, A>>, <<Hash, A>>}

MCFileWords == MCSubstrings \cup MCPrefixes \cup MCSuffixes \cup MCExact

\* All the names of up to four characters that neither begin nor end with a dot.
MCNames == {n \in UNION {[1 .. k -> {Dot, A, B}] : k \in 1 .. 4} :
                n[1] # Dot /\ n[Len(n)] # Dot} \cup {<<UpperA, Dot, A>>, <<B, UpperA>>}

=============================================================================
