--------------------------- MODULE ResolverProofs ---------------------------
(***************************************************************************)
(* The resolvers, for all files and all answers: which there are, which    *)
(* certificate each uses, and that the saved list reads back.  The         *)
(* certifier, for every number of queries, requests, certificates and      *)
(* retry steps.                                                            *)
(***************************************************************************)
EXTENDS Certifier, Providers, FiniteSetTheorems, SequenceTheorems, WellFoundedInduction, TLAPS

\* A set of numbers that is not empty has a least one.
LEMMA LeastNumber ==
    ASSUME NEW S, S \subseteq Nat, S # {}
    PROVE  \E x \in S : \A y \in S : x <= y
  <1> DEFINE R == OpToRel(<, Nat)
  <1>1. IsWellFoundedOn(R, Nat)
    BY NatLessThanWellFounded
  <1>2. PICK x \in S : \A y \in S : <<y, x>> \notin R
    <2> HIDE DEF R
    <2> QED BY <1>1, WFMin
  <1>3. \A y \in S : ~(y < x)
    BY <1>2 DEF OpToRel
  <1> QED BY <1>3

-----------------------------------------------------------------------------
(***************************************************************************)
(* The loops: a recursive function exists and has the values that its      *)
(* definition says.                                                        *)
(***************************************************************************)

\* f holds the choices of find_valid_certificate, after up to n turns.
IsBestRun(f, certs, pk, n) ==
    f = [k \in 0 .. n |-> IF k = 0 THEN NoCert ELSE Better(f[k - 1], certs[k], pk)]

\* The recursive function behind BestStates exists.
LEMMA BestRunExists ==
    ASSUME NEW certs, NEW pk, NEW N \in Nat
    PROVE  \E f : IsBestRun(f, certs, pk, N)
  <1> DEFINE S == {n \in Nat : ~ \E f : IsBestRun(f, certs, pk, n)}
             q == NoCert
  <1>1. SUFFICES ASSUME S # {} PROVE FALSE
    OBVIOUS
  <1>2. PICK n \in S : \A k \in S : n <= k
    <2> S \subseteq Nat
      OBVIOUS
    <2> HIDE DEF S
    <2> QED BY <1>1, LeastNumber
  <1>3. n \in Nat /\ ~ \E f : IsBestRun(f, certs, pk, n)
    BY <1>2
  <1>4. CASE n = 0
    <2> DEFINE g == [k \in 0 .. 0 |-> q]
    <2> HIDE DEF q
    <2>1. g = [k \in 0 .. 0 |-> IF k = 0 THEN q ELSE Better(g[k - 1], certs[k], pk)]
      OBVIOUS
    <2> HIDE DEF g
    <2> QED BY <1>3, <1>4, <2>1 DEF IsBestRun, q
  <1>5. CASE n # 0
    <2>1. n - 1 \in Nat /\ n - 1 \notin S
      BY <1>2, <1>3, <1>5
    <2>2. PICK f : IsBestRun(f, certs, pk, n - 1)
      BY <2>1
    <2> DEFINE g == [k \in 0 .. n |-> IF k = n THEN Better(f[n - 1], certs[n], pk) ELSE f[k]]
    <2>3. \A k \in 0 .. n - 1 : f[k] = IF k = 0 THEN q ELSE Better(f[k - 1], certs[k], pk)
      BY <2>2 DEF IsBestRun
    <2> HIDE DEF q
    <2>4. g = [k \in 0 .. n |-> g[k]] /\ g[n] = Better(f[n - 1], certs[n], pk)
          /\ \A k \in 0 .. n - 1 : g[k] = f[k]
      <3>1. n \in 0 .. n /\ \A k \in 0 .. n - 1 : k \in 0 .. n /\ k # n
        BY <1>3
      <3> QED BY <3>1
    <2> HIDE DEF g
    <2>5. ASSUME NEW k \in 0 .. n
          PROVE  g[k] = IF k = 0 THEN q ELSE Better(g[k - 1], certs[k], pk)
      <3>1. CASE k = n
        <4>1. n - 1 \in 0 .. n - 1
          BY <2>1
        <4> QED BY <1>5, <2>4, <3>1, <4>1
      <3>2. CASE k # n
        <4>1. k \in 0 .. n - 1 /\ (k # 0 => k - 1 \in 0 .. n - 1)
          BY <1>3, <3>2
        <4> QED BY <2>3, <2>4, <4>1
      <3> QED BY <3>1, <3>2
    <2>6. IsBestRun(g, certs, pk, n)
      BY <2>4, <2>5 DEF IsBestRun, q
    <2> QED BY <1>3, <2>6
  <1> QED BY <1>4, <1>5

\* BestStates, turn by turn.
LEMMA BestStep ==
    ASSUME NEW certs, NEW pk, Len(certs) \in Nat
    PROVE  /\ BestStates(certs, pk)[0] = NoCert
           /\ \A k \in 1 .. Len(certs) :
                 BestStates(certs, pk)[k] = Better(BestStates(certs, pk)[k - 1], certs[k], pk)
  <1> DEFINE n == Len(certs)
             g == CHOOSE f : IsBestRun(f, certs, pk, n)
             q == NoCert
  <1>1. IsBestRun(g, certs, pk, n)
    BY BestRunExists
  <1>2. BestStates(certs, pk) = g
    BY Zenon DEF BestStates, IsBestRun
  <1> HIDE DEF g
  <1>3. \A k \in 0 .. n : g[k] = IF k = 0 THEN q ELSE Better(g[k - 1], certs[k], pk)
    BY <1>1 DEF IsBestRun
  <1> HIDE DEF q
  <1>4. 0 \in 0 .. n /\ \A k \in 1 .. n : k \in 0 .. n /\ k # 0
    OBVIOUS
  <1>5. g[0] = q /\ \A k \in 1 .. n : g[k] = Better(g[k - 1], certs[k], pk)
    BY <1>3, <1>4
  <1> HIDE DEF n
  <1> QED BY <1>2, <1>5, Zenon DEF q, n

\* f holds the states of the first loop of load, after up to n turns.
IsMergeRun(f, old, rows, n) ==
    f = [k \in 0 .. n |-> IF k = 0 THEN [map |-> old, used |-> 0] ELSE RowMerged(f[k - 1], rows[k])]

\* The recursive function behind MergeStates exists.
LEMMA MergeRunExists ==
    ASSUME NEW old, NEW rows, NEW N \in Nat
    PROVE  \E f : IsMergeRun(f, old, rows, N)
  <1> DEFINE S == {n \in Nat : ~ \E f : IsMergeRun(f, old, rows, n)}
             q == [map |-> old, used |-> 0]
  <1>1. SUFFICES ASSUME S # {} PROVE FALSE
    OBVIOUS
  <1>2. PICK n \in S : \A k \in S : n <= k
    <2> S \subseteq Nat
      OBVIOUS
    <2> HIDE DEF S
    <2> QED BY <1>1, LeastNumber
  <1>3. n \in Nat /\ ~ \E f : IsMergeRun(f, old, rows, n)
    BY <1>2
  <1>4. CASE n = 0
    <2> DEFINE g == [k \in 0 .. 0 |-> q]
    <2> HIDE DEF q
    <2>1. g = [k \in 0 .. 0 |-> IF k = 0 THEN q ELSE RowMerged(g[k - 1], rows[k])]
      OBVIOUS
    <2> HIDE DEF g
    <2> QED BY <1>3, <1>4, <2>1 DEF IsMergeRun, q
  <1>5. CASE n # 0
    <2>1. n - 1 \in Nat /\ n - 1 \notin S
      BY <1>2, <1>3, <1>5
    <2>2. PICK f : IsMergeRun(f, old, rows, n - 1)
      BY <2>1
    <2> DEFINE g == [k \in 0 .. n |-> IF k = n THEN RowMerged(f[n - 1], rows[n]) ELSE f[k]]
    <2>3. \A k \in 0 .. n - 1 : f[k] = IF k = 0 THEN q ELSE RowMerged(f[k - 1], rows[k])
      BY <2>2 DEF IsMergeRun
    <2> HIDE DEF q
    <2>4. g = [k \in 0 .. n |-> g[k]] /\ g[n] = RowMerged(f[n - 1], rows[n])
          /\ \A k \in 0 .. n - 1 : g[k] = f[k]
      <3>1. n \in 0 .. n /\ \A k \in 0 .. n - 1 : k \in 0 .. n /\ k # n
        BY <1>3
      <3> QED BY <3>1
    <2> HIDE DEF g
    <2>5. ASSUME NEW k \in 0 .. n
          PROVE  g[k] = IF k = 0 THEN q ELSE RowMerged(g[k - 1], rows[k])
      <3>1. CASE k = n
        <4>1. n - 1 \in 0 .. n - 1
          BY <2>1
        <4> QED BY <1>5, <2>4, <3>1, <4>1
      <3>2. CASE k # n
        <4>1. k \in 0 .. n - 1 /\ (k # 0 => k - 1 \in 0 .. n - 1)
          BY <1>3, <3>2
        <4> QED BY <2>3, <2>4, <4>1
      <3> QED BY <3>1, <3>2
    <2>6. IsMergeRun(g, old, rows, n)
      BY <2>4, <2>5 DEF IsMergeRun, q
    <2> QED BY <1>3, <2>6
  <1> QED BY <1>4, <1>5

\* MergeStates, turn by turn.
LEMMA MergeStep ==
    ASSUME NEW old, NEW rows, Len(rows) \in Nat
    PROVE  /\ MergeStates(old, rows)[0] = [map |-> old, used |-> 0]
           /\ \A k \in 1 .. Len(rows) :
                 MergeStates(old, rows)[k] = RowMerged(MergeStates(old, rows)[k - 1], rows[k])
  <1> DEFINE n == Len(rows)
             g == CHOOSE f : IsMergeRun(f, old, rows, n)
             q == [map |-> old, used |-> 0]
  <1>1. IsMergeRun(g, old, rows, n)
    BY MergeRunExists
  <1>2. MergeStates(old, rows) = g
    BY Zenon DEF MergeStates, IsMergeRun
  <1> HIDE DEF g
  <1>3. \A k \in 0 .. n : g[k] = IF k = 0 THEN q ELSE RowMerged(g[k - 1], rows[k])
    BY <1>1 DEF IsMergeRun
  <1> HIDE DEF q
  <1>4. 0 \in 0 .. n /\ \A k \in 1 .. n : k \in 0 .. n /\ k # 0
    OBVIOUS
  <1>5. g[0] = q /\ \A k \in 1 .. n : g[k] = RowMerged(g[k - 1], rows[k])
    BY <1>3, <1>4
  <1> HIDE DEF n
  <1> QED BY <1>2, <1>5, Zenon DEF q, n

\* f holds the states of parse_line, after up to n turns.
IsLineRun(f, line, n) ==
    f = [k \in 0 .. n |-> IF k = 0 THEN LineBegins ELSE CharRead(f[k - 1], line[k])]

\* The recursive function behind LineStates exists.
LEMMA LineRunExists ==
    ASSUME NEW line, NEW N \in Nat
    PROVE  \E f : IsLineRun(f, line, N)
  <1> DEFINE S == {n \in Nat : ~ \E f : IsLineRun(f, line, n)}
             q == LineBegins
  <1>1. SUFFICES ASSUME S # {} PROVE FALSE
    OBVIOUS
  <1>2. PICK n \in S : \A k \in S : n <= k
    <2> S \subseteq Nat
      OBVIOUS
    <2> HIDE DEF S
    <2> QED BY <1>1, LeastNumber
  <1>3. n \in Nat /\ ~ \E f : IsLineRun(f, line, n)
    BY <1>2
  <1>4. CASE n = 0
    <2> DEFINE g == [k \in 0 .. 0 |-> q]
    <2> HIDE DEF q
    <2>1. g = [k \in 0 .. 0 |-> IF k = 0 THEN q ELSE CharRead(g[k - 1], line[k])]
      OBVIOUS
    <2> HIDE DEF g
    <2> QED BY <1>3, <1>4, <2>1 DEF IsLineRun, q
  <1>5. CASE n # 0
    <2>1. n - 1 \in Nat /\ n - 1 \notin S
      BY <1>2, <1>3, <1>5
    <2>2. PICK f : IsLineRun(f, line, n - 1)
      BY <2>1
    <2> DEFINE g == [k \in 0 .. n |-> IF k = n THEN CharRead(f[n - 1], line[n]) ELSE f[k]]
    <2>3. \A k \in 0 .. n - 1 : f[k] = IF k = 0 THEN q ELSE CharRead(f[k - 1], line[k])
      BY <2>2 DEF IsLineRun
    <2> HIDE DEF q
    <2>4. g = [k \in 0 .. n |-> g[k]] /\ g[n] = CharRead(f[n - 1], line[n])
          /\ \A k \in 0 .. n - 1 : g[k] = f[k]
      <3>1. n \in 0 .. n /\ \A k \in 0 .. n - 1 : k \in 0 .. n /\ k # n
        BY <1>3
      <3> QED BY <3>1
    <2> HIDE DEF g
    <2>5. ASSUME NEW k \in 0 .. n
          PROVE  g[k] = IF k = 0 THEN q ELSE CharRead(g[k - 1], line[k])
      <3>1. CASE k = n
        <4>1. n - 1 \in 0 .. n - 1
          BY <2>1
        <4> QED BY <1>5, <2>4, <3>1, <4>1
      <3>2. CASE k # n
        <4>1. k \in 0 .. n - 1 /\ (k # 0 => k - 1 \in 0 .. n - 1)
          BY <1>3, <3>2
        <4> QED BY <2>3, <2>4, <4>1
      <3> QED BY <3>1, <3>2
    <2>6. IsLineRun(g, line, n)
      BY <2>4, <2>5 DEF IsLineRun, q
    <2> QED BY <1>3, <2>6
  <1> QED BY <1>4, <1>5

\* LineStates, turn by turn.
LEMMA LineStep ==
    ASSUME NEW line, Len(line) \in Nat
    PROVE  /\ LineStates(line)[0] = LineBegins
           /\ \A k \in 1 .. Len(line) :
                 LineStates(line)[k] = CharRead(LineStates(line)[k - 1], line[k])
  <1> DEFINE n == Len(line)
             g == CHOOSE f : IsLineRun(f, line, n)
             q == LineBegins
  <1>1. IsLineRun(g, line, n)
    BY LineRunExists
  <1>2. LineStates(line) = g
    BY Zenon DEF LineStates, IsLineRun
  <1> HIDE DEF g
  <1>3. \A k \in 0 .. n : g[k] = IF k = 0 THEN q ELSE CharRead(g[k - 1], line[k])
    BY <1>1 DEF IsLineRun
  <1> HIDE DEF q
  <1>4. 0 \in 0 .. n /\ \A k \in 1 .. n : k \in 0 .. n /\ k # 0
    OBVIOUS
  <1>5. g[0] = q /\ \A k \in 1 .. n : g[k] = CharRead(g[k - 1], line[k])
    BY <1>3, <1>4
  <1> HIDE DEF n
  <1> QED BY <1>2, <1>5, Zenon DEF q, n

\* f holds the states of the loop over the rows, after up to n turns.
IsRowRun(f, headers, lines, n) ==
    f = [k \in 0 .. n |-> IF k = 0 THEN Returns(<<>>) ELSE RowRead(headers, f[k - 1], lines[k + 1])]

\* The recursive function behind RowStates exists.
LEMMA RowRunExists ==
    ASSUME NEW headers, NEW lines, NEW N \in Nat
    PROVE  \E f : IsRowRun(f, headers, lines, N)
  <1> DEFINE S == {n \in Nat : ~ \E f : IsRowRun(f, headers, lines, n)}
             q == Returns(<<>>)
  <1>1. SUFFICES ASSUME S # {} PROVE FALSE
    OBVIOUS
  <1>2. PICK n \in S : \A k \in S : n <= k
    <2> S \subseteq Nat
      OBVIOUS
    <2> HIDE DEF S
    <2> QED BY <1>1, LeastNumber
  <1>3. n \in Nat /\ ~ \E f : IsRowRun(f, headers, lines, n)
    BY <1>2
  <1>4. CASE n = 0
    <2> DEFINE g == [k \in 0 .. 0 |-> q]
    <2> HIDE DEF q
    <2>1. g = [k \in 0 .. 0 |-> IF k = 0 THEN q ELSE RowRead(headers, g[k - 1], lines[k + 1])]
      OBVIOUS
    <2> HIDE DEF g
    <2> QED BY <1>3, <1>4, <2>1 DEF IsRowRun, q
  <1>5. CASE n # 0
    <2>1. n - 1 \in Nat /\ n - 1 \notin S
      BY <1>2, <1>3, <1>5
    <2>2. PICK f : IsRowRun(f, headers, lines, n - 1)
      BY <2>1
    <2> DEFINE g == [k \in 0 .. n |-> IF k = n THEN RowRead(headers, f[n - 1], lines[n + 1]) ELSE f[k]]
    <2>3. \A k \in 0 .. n - 1 : f[k] = IF k = 0 THEN q ELSE RowRead(headers, f[k - 1], lines[k + 1])
      BY <2>2 DEF IsRowRun
    <2> HIDE DEF q
    <2>4. g = [k \in 0 .. n |-> g[k]] /\ g[n] = RowRead(headers, f[n - 1], lines[n + 1])
          /\ \A k \in 0 .. n - 1 : g[k] = f[k]
      <3>1. n \in 0 .. n /\ \A k \in 0 .. n - 1 : k \in 0 .. n /\ k # n
        BY <1>3
      <3> QED BY <3>1
    <2> HIDE DEF g
    <2>5. ASSUME NEW k \in 0 .. n
          PROVE  g[k] = IF k = 0 THEN q ELSE RowRead(headers, g[k - 1], lines[k + 1])
      <3>1. CASE k = n
        <4>1. n - 1 \in 0 .. n - 1
          BY <2>1
        <4> QED BY <1>5, <2>4, <3>1, <4>1
      <3>2. CASE k # n
        <4>1. k \in 0 .. n - 1 /\ (k # 0 => k - 1 \in 0 .. n - 1)
          BY <1>3, <3>2
        <4> QED BY <2>3, <2>4, <4>1
      <3> QED BY <3>1, <3>2
    <2>6. IsRowRun(g, headers, lines, n)
      BY <2>4, <2>5 DEF IsRowRun, q
    <2> QED BY <1>3, <2>6
  <1> QED BY <1>4, <1>5

\* RowStates, turn by turn.
LEMMA RowStep ==
    ASSUME NEW headers, NEW lines, Len(lines) - 1 \in Nat
    PROVE  /\ RowStates(headers, lines)[0] = Returns(<<>>)
           /\ \A k \in 1 .. Len(lines) - 1 :
                 RowStates(headers, lines)[k] = RowRead(headers, RowStates(headers, lines)[k - 1], lines[k + 1])
  <1> DEFINE n == Len(lines) - 1
             g == CHOOSE f : IsRowRun(f, headers, lines, n)
             q == Returns(<<>>)
  <1>1. IsRowRun(g, headers, lines, n)
    BY RowRunExists
  <1>2. RowStates(headers, lines) = g
    BY Zenon DEF RowStates, IsRowRun
  <1> HIDE DEF g
  <1>3. \A k \in 0 .. n : g[k] = IF k = 0 THEN q ELSE RowRead(headers, g[k - 1], lines[k + 1])
    BY <1>1 DEF IsRowRun
  <1> HIDE DEF q
  <1>4. 0 \in 0 .. n /\ \A k \in 1 .. n : k \in 0 .. n /\ k # 0
    OBVIOUS
  <1>5. g[0] = q /\ \A k \in 1 .. n : g[k] = RowRead(headers, g[k - 1], lines[k + 1])
    BY <1>3, <1>4
  <1> HIDE DEF n
  <1> QED BY <1>2, <1>5, Zenon DEF q, n

-----------------------------------------------------------------------------
(***************************************************************************)
(* find_valid_certificate                                                  *)
(***************************************************************************)

\* The valid ones of the first n certificates.
Valids(certs, pk, n) == {i \in 1 .. n : IsValid(certs[i], pk)}

\* The i-th certificate b is better than the j-th one c, or the same.
Beats(b, i, c, j) ==
    \/ Version(c) < Version(b)
    \/ /\ Version(c) = Version(b)
       /\ c.serial < b.serial \/ (c.serial = b.serial /\ j <= i)

IsBest(b, certs, pk, n) ==
    /\ b = NoCert <=> Valids(certs, pk, n) = {}
    /\ b # NoCert => \E i \in Valids(certs, pk, n) :
                        /\ b = certs[i]
                        /\ \A j \in Valids(certs, pk, n) : Beats(b, i, certs[j], j)

\* Versions compare as numbers the way their two parts do.
LEMMA VersionOrder ==
    ASSUME NEW b \in Certificate, NEW c \in Certificate
    PROVE  /\ Version(b) \in Nat /\ b.serial \in Nat /\ b # NoCert
           /\ Version(c) < Version(b) <=>
                c.major < b.major \/ (c.major = b.major /\ c.minor < b.minor)
           /\ Version(c) = Version(b) <=> c.major = b.major /\ c.minor = b.minor
  <1>1. \A d \in Certificate : d.major \in Short /\ d.minor \in Short /\ d.serial \in Nat
    BY DEF Certificate
  <1>2. \A x \in Short : x \in Nat /\ x < 65536
    BY SMT DEF Short
  <1>3. b # NoCert
    <2>1. "major" \in DOMAIN b
      BY DEF Certificate
    <2>2. DOMAIN NoCert = {"none"}
      BY SMT DEF NoCert
    <2> QED BY <2>1, <2>2
  <1> QED BY <1>1, <1>2, <1>3, SMT DEF Version

\* Preferred certificates beat what the others beat.
LEMMA PreferredBeats ==
    ASSUME NEW b \in Certificate, NEW c \in Certificate, NEW d \in Certificate,
           NEW i \in Nat, NEW j \in Nat, NEW n \in Nat, i < n, j < n
    PROVE  /\ is_preferred_over(c, b) /\ Beats(b, i, d, j) => Beats(c, n, d, j)
           /\ ~is_preferred_over(c, b) => Beats(b, i, c, n)
           /\ Beats(c, n, c, n)
  <1>1. /\ Version(b) \in Nat /\ b.serial \in Nat /\ Version(c) \in Nat /\ c.serial \in Nat
        /\ Version(d) \in Nat /\ d.serial \in Nat
    BY VersionOrder
  <1> QED BY <1>1, SMT DEF Beats, is_preferred_over

\* One turn of the loop.
LEMMA BetterIsBest ==
    ASSUME NEW certs \in Seq(Certificate), NEW pk, NEW n \in 1 .. Len(certs), NEW b,
           IsBest(b, certs, pk, n - 1)
    PROVE  IsBest(Better(b, certs[n], pk), certs, pk, n)
  <1> DEFINE V == Valids(certs, pk, n - 1)
             W == Valids(certs, pk, n)
             c == certs[n]
  <1>1. /\ c \in Certificate /\ n \in Nat /\ n \in 1 .. n
        /\ \A i \in V : i \in 1 .. n /\ i \in Nat /\ i < n /\ certs[i] \in Certificate
    BY DEF Valids
  <1>2. ~IsValid(c, pk) => W = V
    BY <1>1 DEF Valids
  <1>3. IsValid(c, pk) => W = V \cup {n}
    BY <1>1 DEF Valids
  <1>4. c # NoCert
    BY <1>1, VersionOrder
  <1>5. /\ b = NoCert <=> V = {}
        /\ b # NoCert => \E i \in V : b = certs[i] /\ \A j \in V : Beats(b, i, certs[j], j)
    BY DEF IsBest
  <1> DEFINE Goal(x) == /\ x = NoCert <=> W = {}
                        /\ x # NoCert => \E i \in W : x = certs[i]
                                            /\ \A j \in W : Beats(x, i, certs[j], j)
  <1> HIDE DEF V, W, c
  <1>6. CASE ~IsValid(c, pk)
    <2>1. Better(b, c, pk) = b
      BY <1>6 DEF Better
    <2>2. Goal(b)
      BY <1>2, <1>5, <1>6, Zenon
    <2> QED BY <2>1, <2>2 DEF IsBest, W, c
  <1>7. CASE IsValid(c, pk) /\ (b = NoCert \/ is_preferred_over(c, b))
    <2>1. Better(b, c, pk) = c
      BY <1>7 DEF Better
    <2>2. n \in W /\ W # {} /\ c = certs[n]
      BY <1>3, <1>7 DEF c
    <2>3. ASSUME NEW j \in W PROVE Beats(c, n, certs[j], j)
      <3>1. CASE j = n
        BY <1>1, <2>2, <3>1, VersionOrder, SMT DEF Beats
      <3>2. CASE j \in V
        <4>1. b # NoCert
          BY <1>5, <3>2
        <4>2. PICK i \in V : b = certs[i] /\ Beats(b, i, certs[j], j)
          BY <1>5, <3>2, <4>1
        <4>3. is_preferred_over(c, b) /\ b \in Certificate /\ certs[j] \in Certificate
          BY <1>1, <1>7, <3>2, <4>1, <4>2
        <4>4. i \in Nat /\ j \in Nat /\ i < n /\ j < n
          BY <1>1, <3>2
        <4> QED BY <1>1, <4>2, <4>3, <4>4, PreferredBeats
      <3> QED BY <1>3, <1>7, <3>1, <3>2
    <2>4. Goal(c)
      BY <1>4, <2>2, <2>3, Zenon
    <2> QED BY <2>1, <2>4 DEF IsBest, W, c
  <1>8. CASE IsValid(c, pk) /\ b # NoCert /\ ~is_preferred_over(c, b)
    <2>1. Better(b, c, pk) = b
      BY <1>8 DEF Better
    <2>2. PICK i \in V : b = certs[i] /\ \A j \in V : Beats(b, i, certs[j], j)
      BY <1>5, <1>8
    <2>3. i \in W /\ i \in Nat /\ i < n /\ b \in Certificate
      BY <1>1, <1>3, <1>8, <2>2
    <2>4. Beats(b, i, c, n)
      BY <1>1, <1>8, <2>3, PreferredBeats
    <2>5. \A j \in W : Beats(b, i, certs[j], j)
      BY <1>3, <1>8, <2>2, <2>4 DEF c
    <2>6. Goal(b)
      BY <1>8, <2>2, <2>3, <2>5, Zenon
    <2> QED BY <2>1, <2>6 DEF IsBest, W, c
  <1> QED BY <1>6, <1>7, <1>8

\* The loop chooses the best of the certificates it has seen.
LEMMA ChosenIsBest ==
    ASSUME NEW certs \in Seq(Certificate), NEW pk
    PROVE  IsBest(Chosen(certs, pk), certs, pk, Len(certs))
  <1> DEFINE B == BestStates(certs, pk)
             S == {n \in Nat : n <= Len(certs) /\ ~IsBest(B[n], certs, pk, n)}
  <1>1. Len(certs) \in Nat
    OBVIOUS
  <1>2. B[0] = NoCert /\ \A k \in 1 .. Len(certs) : B[k] = Better(B[k - 1], certs[k], pk)
    BY <1>1, BestStep
  <1> HIDE DEF B
  <1>3. ASSUME S # {} PROVE FALSE
    <2>1. PICK n \in S : \A k \in S : n <= k
      <3> S \subseteq Nat
        OBVIOUS
      <3> HIDE DEF S
      <3> QED BY <1>3, LeastNumber
    <2>2. n \in Nat /\ n <= Len(certs) /\ ~IsBest(B[n], certs, pk, n)
      BY <2>1
    <2>3. CASE n = 0
      BY <1>2, <2>2, <2>3 DEF IsBest, Valids
    <2>4. CASE n # 0
      <3>1. n - 1 \in Nat /\ n - 1 \notin S /\ n - 1 <= Len(certs) /\ n \in 1 .. Len(certs)
        BY <1>1, <2>1, <2>2, <2>4
      <3>2. IsBest(B[n - 1], certs, pk, n - 1)
        BY <3>1
      <3> QED BY <1>2, <2>2, <3>1, <3>2, BetterIsBest
    <2> QED BY <2>3, <2>4
  <1> QED BY <1>1, <1>3 DEF Chosen, B

-----------------------------------------------------------------------------
(***************************************************************************)
(* cresponder::load                                                        *)
(***************************************************************************)

\* The first n rows without those that the option noipv6 rules out.
Wanted(no6, rows, n) == {i \in 1 .. n : ~(no6 /\ IsSix(rows[i].address))}

\* Where they are.
WantedPlaces(no6, rows, n) == {rows[i].address : i \in Wanted(no6, rows, n)}

\* After n turns of the first loop: what has been added, kept and dropped.
IsMerged(s, old, rows, n) ==
    /\ s = [map |-> s.map, used |-> s.used]
    /\ DOMAIN s.map \subseteq DOMAIN old \cup WantedPlaces(noipv6, rows, n)
    /\ WantedPlaces(noipv6, rows, n) \subseteq DOMAIN s.map
    /\ \A a \in DOMAIN old \ DOMAIN s.map : noipv6 /\ IsSix(a)
    /\ \A i \in 1 .. n : rows[i].address \in DOMAIN s.map => i \in Wanted(noipv6, rows, n)
    /\ \A a \in DOMAIN s.map \cap DOMAIN old : s.map[a] = old[a]
    /\ \A a \in DOMAIN s.map \ DOMAIN old :
          \E i \in Wanted(noipv6, rows, n) : rows[i].address = a /\ s.map[a] = certifier(rows[i])
    /\ s.used = Cardinality(Wanted(noipv6, rows, n))

\* A row that is wanted counts once.
LEMMA WantedStep ==
    ASSUME NEW rows, NEW n \in Nat \ {0}, ~(noipv6 /\ IsSix(rows[n].address))
    PROVE  /\ Wanted(noipv6, rows, n) = Wanted(noipv6, rows, n - 1) \cup {n}
           /\ Cardinality(Wanted(noipv6, rows, n)) = Cardinality(Wanted(noipv6, rows, n - 1)) + 1
  <1> DEFINE V == Wanted(noipv6, rows, n - 1)
  <1>1. V \in SUBSET (1 .. n - 1) /\ n \notin V
    BY DEF Wanted
  <1>2. IsFiniteSet(1 .. n - 1)
    <2>1. n - 1 \in Int /\ 1 \in Int
      OBVIOUS
    <2> QED BY <2>1, FS_Interval
  <1>3. Wanted(noipv6, rows, n) = V \cup {n}
    BY DEF Wanted
  <1> HIDE DEF V
  <1>4. IsFiniteSet(V)
    BY <1>1, <1>2, FS_Subset
  <1>5. Cardinality(V \cup {n}) = Cardinality(V) + 1
    BY <1>1, <1>4, FS_AddElement
  <1> QED BY <1>3, <1>5 DEF V

\* A row that is not wanted: its address is dropped.
LEMMA MergeDrops ==
    ASSUME NEW old, NEW rows, NEW n \in Nat \ {0}, NEW s, IsMerged(s, old, rows, n - 1),
           noipv6 /\ IsSix(rows[n].address)
    PROVE  IsMerged(RowMerged(s, rows[n]), old, rows, n)
  <1> DEFINE r == rows[n]
             V == Wanted(noipv6, rows, n - 1)
             P == WantedPlaces(noipv6, rows, n - 1)
             D == DOMAIN s.map \ {r.address}
             m == [a \in D |-> s.map[a]]
             t == [map |-> m, used |-> s.used]
  <1>1. /\ s = [map |-> s.map, used |-> s.used]
        /\ DOMAIN s.map \subseteq DOMAIN old \cup P
        /\ P \subseteq DOMAIN s.map
        /\ \A a \in DOMAIN old \ DOMAIN s.map : noipv6 /\ IsSix(a)
        /\ \A i \in 1 .. n - 1 : rows[i].address \in DOMAIN s.map => i \in V
        /\ \A a \in DOMAIN s.map \cap DOMAIN old : s.map[a] = old[a]
        /\ \A a \in DOMAIN s.map \ DOMAIN old :
              \E i \in V : rows[i].address = a /\ s.map[a] = certifier(rows[i])
        /\ s.used = Cardinality(V)
    BY Zenon DEF IsMerged
  <1>2. /\ Wanted(noipv6, rows, n) = V
        /\ Cardinality(V) = Cardinality(Wanted(noipv6, rows, n))
        /\ WantedPlaces(noipv6, rows, n) = P
    <2>1. Wanted(noipv6, rows, n) = V
      BY DEF Wanted
    <2> QED BY <2>1 DEF WantedPlaces
  <1>3. RowMerged(s, r) = t
    <2> DEFINE x == s.map
               y == s.used
    <2>1. [[map |-> x, used |-> y] EXCEPT !.map = [a \in DOMAIN @ \ {r.address} |-> @[a]]]
             = [map |-> [a \in DOMAIN x \ {r.address} |-> x[a]], used |-> y]
      OBVIOUS
    <2> HIDE DEF x, y
    <2>2. s = [map |-> x, used |-> y]
      BY <1>1 DEF x, y
    <2> QED BY <2>1, <2>2 DEF RowMerged, x, y
  <1>4. t.map = m /\ t.used = s.used /\ DOMAIN m = D /\ \A a \in D : m[a] = s.map[a]
    OBVIOUS
  <1>5. r.address \notin P
    BY DEF WantedPlaces, Wanted
  <1>6. ASSUME NEW i \in 1 .. n, rows[i].address \in D PROVE i \in V
    <2>1. i # n
      BY <1>6
    <2>2. i \in 1 .. n - 1
      BY <2>1
    <2> QED BY <1>1, <1>6, <2>2
  <1> DEFINE W == Wanted(noipv6, rows, n)
             Q == WantedPlaces(noipv6, rows, n)
  <1> HIDE DEF m, t, V, P, W, Q
  <1>7. W = V /\ Q = P
    BY <1>2 DEF W, Q
  <1>8. \A a \in DOMAIN old \ D : noipv6 /\ IsSix(a)
    BY <1>1
  <1>9. D \subseteq DOMAIN old \cup Q /\ Q \subseteq D /\ t.used = Cardinality(W)
    BY <1>1, <1>4, <1>5, <1>7
  <1>10. /\ \A a \in D \cap DOMAIN old : m[a] = old[a]
         /\ \A a \in D \ DOMAIN old : \E i \in W : rows[i].address = a /\ m[a] = certifier(rows[i])
         /\ \A i \in 1 .. n : rows[i].address \in D => i \in W
    BY <1>1, <1>4, <1>6, <1>7
  <1> HIDE DEF D
  <1>11. t = [map |-> t.map, used |-> t.used]
    BY DEF t
  <1>12. IsMerged(t, old, rows, n)
    BY <1>4, <1>8, <1>9, <1>10, <1>11, Zenon DEF IsMerged, W, Q
  <1> QED BY <1>3, <1>12

\* A row that is wanted: its address is added unless it is there.
LEMMA MergeAdds ==
    ASSUME NEW old, NEW rows, NEW n \in Nat \ {0}, NEW s, IsMerged(s, old, rows, n - 1),
           ~(noipv6 /\ IsSix(rows[n].address))
    PROVE  IsMerged(RowMerged(s, rows[n]), old, rows, n)
  <1> DEFINE r == rows[n]
             V == Wanted(noipv6, rows, n - 1)
             W == Wanted(noipv6, rows, n)
             P == WantedPlaces(noipv6, rows, n - 1)
             Q == WantedPlaces(noipv6, rows, n)
             D == DOMAIN s.map \cup {r.address}
             m == [a \in D |-> IF a \in DOMAIN s.map THEN s.map[a] ELSE certifier(r)]
             t == [map |-> m, used |-> s.used + 1]
  <1>1. /\ DOMAIN s.map \subseteq DOMAIN old \cup P
        /\ P \subseteq DOMAIN s.map
        /\ \A a \in DOMAIN old \ DOMAIN s.map : noipv6 /\ IsSix(a)
        /\ \A i \in 1 .. n - 1 : rows[i].address \in DOMAIN s.map => i \in V
        /\ \A a \in DOMAIN s.map \cap DOMAIN old : s.map[a] = old[a]
        /\ \A a \in DOMAIN s.map \ DOMAIN old :
              \E i \in V : rows[i].address = a /\ s.map[a] = certifier(rows[i])
        /\ s.used = Cardinality(V)
    BY Zenon DEF IsMerged
  <1>2. W = V \cup {n} /\ Cardinality(W) = Cardinality(V) + 1
    BY WantedStep
  <1>3. Q = P \cup {r.address}
    BY <1>2 DEF WantedPlaces
  <1>4. RowMerged(s, r) = t
    BY DEF RowMerged, Merge
  <1>5. /\ t.map = m /\ t.used = s.used + 1 /\ DOMAIN m = D
        /\ \A a \in D : m[a] = IF a \in DOMAIN s.map THEN s.map[a] ELSE certifier(r)
        /\ t = [map |-> t.map, used |-> t.used]
    OBVIOUS
  <1>6. ASSUME NEW i \in 1 .. n, rows[i].address \in D PROVE i \in W
    <2>1. CASE i = n
      BY <1>2, <2>1
    <2>2. CASE i # n
      <3>1. i \in 1 .. n - 1 /\ i \in 1 .. n
        BY <2>2
      <3>2. CASE rows[i].address \in DOMAIN s.map
        BY <1>1, <1>2, <3>1, <3>2
      <3>3. CASE rows[i].address = r.address
        BY <3>1, <3>3 DEF Wanted
      <3> QED BY <1>6, <3>2, <3>3
    <2> QED BY <2>1, <2>2
  <1> HIDE DEF m, t, V, P, W, Q
  <1>7. /\ \A a \in DOMAIN old \ D : noipv6 /\ IsSix(a)
        /\ D \subseteq DOMAIN old \cup Q /\ Q \subseteq D
    BY <1>1, <1>3
  <1>8. \A a \in D \cap DOMAIN old : m[a] = old[a]
    <2> SUFFICES ASSUME NEW a \in D \cap DOMAIN old PROVE m[a] = old[a]
      OBVIOUS
    <2>1. CASE a \in DOMAIN s.map
      BY <1>1, <1>5, <2>1
    <2>2. CASE a \notin DOMAIN s.map
      BY <1>1, <2>2
    <2> QED BY <2>1, <2>2
  <1>9. \A a \in D \ DOMAIN old : \E i \in W : rows[i].address = a /\ m[a] = certifier(rows[i])
    <2> SUFFICES ASSUME NEW a \in D \ DOMAIN old
                 PROVE  \E i \in W : rows[i].address = a /\ m[a] = certifier(rows[i])
      OBVIOUS
    <2>1. CASE a \in DOMAIN s.map
      BY <1>1, <1>2, <1>5, <2>1
    <2>2. CASE a \notin DOMAIN s.map
      BY <1>2, <1>5, <2>2
    <2> QED BY <2>1, <2>2
  <1> HIDE DEF D
  <1>10. t.used = Cardinality(W)
    BY <1>1, <1>2, <1>5
  <1>11. \A i \in 1 .. n : rows[i].address \in D => i \in W
    BY <1>6
  <1>12. DOMAIN t.map = D /\ \A a : t.map[a] = m[a]
    BY <1>5
  <1>13. /\ DOMAIN t.map \subseteq DOMAIN old \cup Q /\ Q \subseteq DOMAIN t.map
         /\ \A a \in DOMAIN old \ DOMAIN t.map : noipv6 /\ IsSix(a)
         /\ \A i \in 1 .. n : rows[i].address \in DOMAIN t.map => i \in W
    BY <1>7, <1>11, <1>12, Zenon
  <1>14. /\ \A a \in DOMAIN t.map \cap DOMAIN old : t.map[a] = old[a]
         /\ \A a \in DOMAIN t.map \ DOMAIN old :
               \E i \in W : rows[i].address = a /\ t.map[a] = certifier(rows[i])
    BY <1>8, <1>9, <1>12
  <1>15. IsMerged(t, old, rows, n)
    BY <1>5, <1>10, <1>13, <1>14, Zenon DEF IsMerged, W, Q
  <1> QED BY <1>4, <1>15

\* The first loop.
LEMMA LoopMerges ==
    ASSUME NEW old, NEW rows, Len(rows) \in Nat
    PROVE  IsMerged(MergeStates(old, rows)[Len(rows)], old, rows, Len(rows))
  <1> DEFINE M == MergeStates(old, rows)
             N == Len(rows)
             S == {n \in Nat : n <= N /\ ~IsMerged(M[n], old, rows, n)}
  <1>1. M[0] = [map |-> old, used |-> 0] /\ \A k \in 1 .. N : M[k] = RowMerged(M[k - 1], rows[k])
    BY MergeStep
  <1> HIDE DEF M
  <1>2. ASSUME S # {} PROVE FALSE
    <2>1. PICK n \in S : \A k \in S : n <= k
      <3> S \subseteq Nat
        OBVIOUS
      <3> HIDE DEF S
      <3> QED BY <1>2, LeastNumber
    <2>2. n \in Nat /\ n <= N /\ ~IsMerged(M[n], old, rows, n)
      BY <2>1
    <2>3. CASE n = 0
      <3>1. Wanted(noipv6, rows, 0) = {} /\ WantedPlaces(noipv6, rows, 0) = {}
        BY DEF WantedPlaces, Wanted
      <3>2. M[0].map = old /\ M[0].used = 0 /\ Cardinality(Wanted(noipv6, rows, 0)) = 0
        <4>1. Cardinality({}) = 0
          BY FS_EmptySet
        <4>2. M[0].map = old /\ M[0].used = 0
          BY <1>1
        <4> QED BY <3>1, <4>1, <4>2
      <3>3. M[0] = [map |-> M[0].map, used |-> M[0].used]
        BY <1>1
      <3>4. \A i \in 1 .. 0 : FALSE
        OBVIOUS
      <3>5. IsMerged(M[0], old, rows, 0)
        BY <3>1, <3>2, <3>3, <3>4 DEF IsMerged
      <3> QED BY <2>2, <2>3, <3>5
    <2>4. CASE n # 0
      <3>1. n - 1 \in Nat /\ n - 1 \notin S /\ n - 1 <= N /\ n \in 1 .. N /\ n \in Nat \ {0}
        BY <2>1, <2>2, <2>4
      <3>2. IsMerged(M[n - 1], old, rows, n - 1)
        BY <3>1
      <3>3. IsMerged(RowMerged(M[n - 1], rows[n]), old, rows, n)
        BY <3>1, <3>2, MergeAdds, MergeDrops
      <3> QED BY <1>1, <2>2, <3>1, <3>3
    <2> QED BY <2>3, <2>4
  <1> QED BY <1>2 DEF M

\* Two rows that are wanted have the same address.
Twice(no6, rows) ==
    \E i, j \in Wanted(no6, rows, Len(rows)) : i # j /\ rows[i].address = rows[j].address

\* Both loops: the resolvers are those of the rows that are wanted; one that was
\* there is kept as it is; the counts differ if rows have the same address.
LEMMA LoadFollowsRows ==
    ASSUME NEW old, NEW R, NEW rows \in Seq(R)
    PROVE  LET m == Merged(old, rows)
           IN  /\ DOMAIN m.map = WantedPlaces(noipv6, rows, Len(rows))
               /\ \A a \in DOMAIN m.map \cap DOMAIN old : m.map[a] = old[a]
               /\ \A a \in DOMAIN m.map \ DOMAIN old :
                    \E i \in Wanted(noipv6, rows, Len(rows)) :
                        rows[i].address = a /\ m.map[a] = certifier(rows[i])
               /\ Cardinality(DOMAIN m.map) # m.used <=> Twice(noipv6, rows)
  <1> DEFINE N == Len(rows)
             s == MergeStates(old, rows)[N]
             U == Wanted(noipv6, rows, N)
             P == WantedPlaces(noipv6, rows, N)
             L == {b \in DOMAIN s.map : \E i \in DOMAIN rows : rows[i].address = b}
  <1> DEFINE m == Merged(old, rows)
  <1>1. m.map = [a \in L |-> s.map[a]] /\ m.used = s.used
    BY DEF Merged, Listed
  <1>2. /\ DOMAIN s.map \subseteq DOMAIN old \cup P
        /\ P \subseteq DOMAIN s.map
        /\ \A i \in 1 .. N : rows[i].address \in DOMAIN s.map => i \in U
        /\ \A a \in DOMAIN s.map \cap DOMAIN old : s.map[a] = old[a]
        /\ \A a \in DOMAIN s.map \ DOMAIN old :
              \E i \in U : rows[i].address = a /\ s.map[a] = certifier(rows[i])
        /\ s.used = Cardinality(U)
    <2>1. N \in Nat
      OBVIOUS
    <2>2. IsMerged(s, old, rows, N)
      BY <2>1, LoopMerges
    <2> HIDE DEF s, N
    <2> QED BY <2>2, Zenon DEF IsMerged
  <1>3. DOMAIN rows = 1 .. N /\ U \subseteq 1 .. N /\ P = {rows[i].address : i \in U} /\ N \in Nat
    BY DEF Wanted, WantedPlaces
  <1>4. IsFiniteSet(U)
    <2>1. IsFiniteSet(1 .. N)
      BY <1>3, FS_Interval
    <2>2. U \in SUBSET (1 .. N)
      BY <1>3
    <2> QED BY <2>1, <2>2, FS_Subset
  <1> HIDE DEF s, U, P, N, m
  <1>5. L = P
    BY <1>2, <1>3
  <1> HIDE DEF L
  <1>6. DOMAIN m.map = P /\ \A a \in P : m.map[a] = s.map[a]
    BY <1>1, <1>5
  <1>7. Cardinality(P) # Cardinality(U) <=> \E i, j \in U : i # j /\ rows[i].address = rows[j].address
    <2> DEFINE f == [i \in U |-> rows[i].address]
    <2>1. f \in Surjection(U, P)
      BY <1>3 DEF Surjection
    <2>2. f \in Injection(U, P) <=> \A i, j \in U : rows[i].address = rows[j].address => i = j
      BY <1>3 DEF Injection, IsInjective
    <2> HIDE DEF f
    <2>3. Cardinality(P) = Cardinality(U) <=> f \in Injection(U, P)
      BY <1>4, <2>1, FS_Surjection
    <2> QED BY <2>2, <2>3
  <1>8. Cardinality(DOMAIN m.map) # m.used <=> Twice(noipv6, rows)
    BY <1>1, <1>2, <1>6, <1>7 DEF Twice, U, N
  <1>9. /\ \A a \in DOMAIN m.map \cap DOMAIN old : m.map[a] = old[a]
        /\ \A a \in DOMAIN m.map \ DOMAIN old :
              \E i \in U : rows[i].address = a /\ m.map[a] = certifier(rows[i])
    BY <1>2, <1>6
  <1> QED BY <1>6, <1>8, <1>9 DEF m, U, P, N

-----------------------------------------------------------------------------
(***************************************************************************)
(* The resolvers' inductive invariant.                                     *)
(***************************************************************************)
Response == [asked : {TRUE}, certs : Seq(Certificate)]

Provider ==
    [name : Seq(STRING), key : KeyTexts, ready : BOOLEAN, cert : Certificate \cup {NoCert},
     seen : {NotSeen} \cup Response]

\* Either nothing has been received, or the resolver has what was chosen last.
Held(p) ==
    \/ p.seen = NotSeen /\ ~p.ready
    \/ /\ p.seen \in Response
       /\ p.name \in Askable
       /\ p.ready <=> Chosen(p.seen.certs, p.key) # NoCert
       /\ p.ready => p.cert = Chosen(p.seen.certs, p.key)

\* In every state: only resolvers that can be asked become ready.
Kept(map) ==
    /\ IsFiniteSet(DOMAIN map)
    /\ DOMAIN map \subseteq Addresses
    /\ \A a \in DOMAIN map : map[a] \in Provider /\ (map[a].ready => map[a].name \in Askable)

\* While the process runs.
Fit(map) == \A a \in DOMAIN map : Held(map[a])

\* The encrypted resolvers are those of the rows, the plain ones and the local
\* names those that the parsers have found.
FollowsParsed ==
    up = "running" =>
        /\ ~ListRead[files].threw =>
              DOMAIN providers = WantedPlaces(noipv6, ListRead[files].value, Len(ListRead[files].value))
        /\ ~ResolvRead[files][noipv6].threw => plain = ResolvRead[files][noipv6].value
        /\ hosts = HostsRead[files][noipv6].value

\* A start or a reload fails because of a filter, the option for .onion names,
\* the hosts file, or two rows with one address.
FailedAsParsed ==
    \/ TooLong(files) \/ BadOnion
    \/ HostsRead[files][noipv6].threw
    \/ ~ListRead[files].threw /\ Twice(noipv6, ListRead[files].value)

\* A question may be folded with a weak key.
SomeWeak == weakDropped \/ \E a \in DOMAIN providers : WeakKey(providers[a])

FailsAsParsed ==
    /\ up = "running" => ~FailedAsParsed
    /\ up = "failed" => FailedAsParsed \/ SomeWeak

ProvidersInv ==
    /\ noipv6 \in BOOLEAN
    /\ Kept(providers)
    /\ up = "running" => Fit(providers)
    /\ FollowsParsed
    /\ FailsAsParsed

\* A row of the list as parse_resolver makes it.
Row == [address : Addresses, name : Seq(STRING), key : KeyTexts]

\* A new certifier has nothing.
LEMMA NewCertifier ==
    ASSUME NEW r \in Row
    PROVE  /\ r.address \in Addresses
           /\ certifier(r) \in Provider
           /\ Held(certifier(r)) /\ ~certifier(r).ready
  <1> DEFINE c == certifier(r)
  <1>1. r.address \in Addresses /\ r.name \in Seq(STRING) /\ r.key \in KeyTexts
    BY DEF Row
  <1>2. c.ready = FALSE /\ c.cert = NoCert /\ c.seen = NotSeen
    BY DEF certifier
  <1>3. c \in Provider
    BY <1>1 DEF certifier, Provider
  <1> QED BY <1>1, <1>2, <1>3, Zenon DEF Held

\* What load leaves is fit if what it found was.
LEMMA LoadFit ==
    ASSUME noipv6 \in BOOLEAN, NEW old, Kept(old), Fit(old), NEW f \in DOMAIN Files,
           ListRead[f].threw \/ ListRead[f].value \in Seq(Row)
    PROVE  LET l == Load(old, f)
           IN  /\ Kept(l.map) /\ Fit(l.map)
               /\ l.throws <=> ~ListRead[f].threw /\ Twice(noipv6, ListRead[f].value)
               /\ ~ListRead[f].threw =>
                    DOMAIN l.map = WantedPlaces(noipv6, ListRead[f].value, Len(ListRead[f].value))
               /\ ListRead[f].threw => l.map = old
               /\ \A a \in DOMAIN l.map \cap DOMAIN old : l.map[a] = old[a]
  <1> DEFINE rows == ListRead[f].value
             m == Merged(old, rows)
             l == Load(old, f)
  <1>1. CASE ListRead[f].threw
    <2>1. l.map = old /\ l.throws = FALSE
      BY <1>1, Zenon DEF Load
    <2> HIDE DEF l
    <2>2. /\ Kept(l.map) /\ Fit(l.map) /\ l.map = old
          /\ l.throws <=> ~ListRead[f].threw /\ Twice(noipv6, rows)
      BY <1>1, <2>1
    <2>3. \A a \in DOMAIN l.map \cap DOMAIN old : l.map[a] = old[a]
      BY <2>1
    <2> HIDE DEF rows
    <2> QED BY <1>1, <2>2, <2>3, Zenon DEF l, rows
  <1>2. CASE ~ListRead[f].threw
    <2> DEFINE N == Len(rows)
               U == Wanted(noipv6, rows, N)
    <2>1. rows \in Seq(Row)
      BY <1>2
    <2>2. /\ DOMAIN m.map = WantedPlaces(noipv6, rows, N)
          /\ \A a \in DOMAIN m.map \cap DOMAIN old : m.map[a] = old[a]
          /\ \A a \in DOMAIN m.map \ DOMAIN old :
                \E i \in U : rows[i].address = a /\ m.map[a] = certifier(rows[i])
          /\ Cardinality(DOMAIN m.map) # m.used <=> Twice(noipv6, rows)
      <3> HIDE DEF rows
      <3> QED BY <2>1, LoadFollowsRows
    <2>3. /\ l.map = m.map
          /\ l.throws <=> Cardinality(DOMAIN m.map) # m.used
      BY <1>2, Zenon DEF Load
    <2>4. /\ U \in SUBSET (1 .. N) /\ IsFiniteSet(1 .. N)
          /\ \A i \in U : rows[i] \in Row
      <3>1. N \in Nat /\ U \in SUBSET (1 .. N)
        BY <2>1 DEF Wanted
      <3>2. \A i \in U : rows[i] \in Row
        BY <2>1, <3>1
      <3>3. IsFiniteSet(1 .. N)
        <4>1. N \in Int /\ 1 \in Int
          BY <3>1
        <4> HIDE DEF N
        <4> QED BY <4>1, FS_Interval
      <3> HIDE DEF N, U
      <3> QED BY <3>1, <3>2, <3>3, Zenon
    <2> HIDE DEF rows, N, U, m, l
    <2>5. IsFiniteSet(DOMAIN m.map)
      <3> DEFINE P == WantedPlaces(noipv6, rows, N)
                 g == [i \in U |-> rows[i].address]
      <3>1. g \in Surjection(U, P)
        BY DEF Surjection, WantedPlaces, U
      <3>2. IsFiniteSet(U)
        BY <2>4, FS_Subset
      <3> HIDE DEF g, P
      <3>3. IsFiniteSet(P)
        BY <3>1, <3>2, FS_Surjection
      <3> QED BY <2>2, <3>3 DEF P
    <2>6. ASSUME NEW a \in DOMAIN m.map
          PROVE  /\ a \in Addresses /\ m.map[a] \in Provider
                 /\ m.map[a].ready => m.map[a].name \in Askable
                 /\ Held(m.map[a])
      <3>1. CASE a \in DOMAIN old
        BY <2>2, <3>1, Zenon DEF Kept, Fit
      <3>2. CASE a \notin DOMAIN old
        <4>1. PICK i \in U : rows[i].address = a /\ m.map[a] = certifier(rows[i])
          BY <2>2, <3>2
        <4>2. rows[i] \in Row
          BY <2>4
        <4> QED BY <4>1, <4>2, NewCertifier
      <3> QED BY <3>1, <3>2
    <2>7. Kept(m.map) /\ Fit(m.map)
      BY <2>5, <2>6 DEF Kept, Fit
    <2> QED BY <1>2, <2>2, <2>3, <2>7 DEF l, N, rows
  <1> QED BY <1>1, <1>2

\* A start and a reload establish the invariant.
LEMMA ReadInv ==
    ASSUME noipv6 \in BOOLEAN, NEW old, Kept(old), Fit(old), NEW servers, NEW weak,
           NEW f \in DOMAIN Files, ListRead[f].threw \/ ListRead[f].value \in Seq(Row),
           Read(f, servers, old, weak)
    PROVE  ProvidersInv'
  <1> DEFINE l == Load(old, f)
             rows == ListRead[f].value
             fails == TooLong(f) \/ BadOnion \/ HostsRead[f][noipv6].threw \/ l.throws
  <1>1. /\ Kept(l.map) /\ Fit(l.map)
        /\ l.throws <=> ~ListRead[f].threw /\ Twice(noipv6, rows)
        /\ ~ListRead[f].threw => DOMAIN l.map = WantedPlaces(noipv6, rows, Len(rows))
    BY LoadFit
  <1>2. /\ files' = f /\ noipv6' = noipv6 /\ onion' = onion
        /\ up' = IF fails THEN "failed" ELSE "running"
        /\ plain' = IF fails THEN <<>>
                    ELSE IF ResolvRead[f][noipv6].threw THEN servers ELSE ResolvRead[f][noipv6].value
        /\ hosts' = IF fails THEN NoHosts ELSE HostsRead[f][noipv6].value
        /\ providers' = IF fails THEN NoProviders ELSE l.map
    BY Zenon DEF Read
  <1> HIDE DEF l, rows
  <1>3. CASE fails
    <2>1. up' = "failed" /\ providers' = NoProviders
      BY <1>2, <1>3, Zenon
    <2>2. Kept(providers')
      <3>1. DOMAIN NoProviders = {} /\ IsFiniteSet({})
        BY FS_EmptySet DEF NoProviders
      <3> QED BY <2>1, <3>1 DEF Kept
    <2>3. FailedAsParsed'
      BY <1>1, <1>2, <1>3, Zenon DEF FailedAsParsed, BadOnion, TooLong, rows
    <2>4. FollowsParsed' /\ FailsAsParsed'
      BY <2>1, <2>3 DEF FollowsParsed, FailsAsParsed
    <2> QED BY <1>2, <2>1, <2>2, <2>4 DEF ProvidersInv
  <1>4. CASE ~fails
    <2>1. up' = "running" /\ providers' = l.map /\ hosts' = HostsRead[f][noipv6].value
      BY <1>2, <1>4, Zenon
    <2>2. ~ResolvRead[f][noipv6].threw => plain' = ResolvRead[f][noipv6].value
      BY <1>2, <1>4, Zenon
    <2>3. Kept(providers') /\ Fit(providers')
      BY <1>1, <2>1
    <2>4. FollowsParsed'
      BY <1>1, <1>2, <2>1, <2>2, Zenon DEF FollowsParsed, rows
    <2>5. ~FailedAsParsed'
      <3>1. /\ ~TooLong(f) /\ ~BadOnion /\ ~HostsRead[f][noipv6].threw
            /\ ~(~ListRead[f].threw /\ Twice(noipv6, rows))
        BY <1>1, <1>4, Zenon
      <3> QED BY <1>2, <3>1, Zenon DEF FailedAsParsed, BadOnion, TooLong, rows
    <2>6. FailsAsParsed'
      BY <2>1, <2>5 DEF FailsAsParsed
    <2> QED BY <1>2, <2>1, <2>3, <2>4, <2>6 DEF ProvidersInv
  <1> QED BY <1>3, <1>4

\* What Respond makes of a resolver.
Told(p, certs) ==
    LET cert == Chosen(certs, p.key)
    IN  [name |-> p.name, key |-> p.key, ready |-> cert # NoCert,
         cert |-> IF cert = NoCert THEN p.cert ELSE cert,
         seen |-> [asked |-> TRUE, certs |-> certs]]

\* It has the chosen certificate, or the one before if none was.
LEMMA ToldHolds ==
    ASSUME NEW p \in Provider, NEW certs \in Seq(Certificate), CanBeAsked(p)
    PROVE  LET q == Told(p, certs)
           IN  q \in Provider /\ q.name \in Askable /\ Held(q)
  <1> DEFINE q == Told(p, certs)
             c == Chosen(certs, p.key)
             r == [asked |-> TRUE, certs |-> certs]
  <1>1. p.name \in Seq(STRING) /\ p.key \in KeyTexts /\ p.cert \in Certificate \cup {NoCert}
    BY DEF Provider
  <1>2. c = NoCert \/ c \in Certificate
    <2> DEFINE V == Valids(certs, p.key, Len(certs))
    <2>1. c # NoCert => \E i \in V : c = certs[i]
      BY ChosenIsBest DEF IsBest
    <2>2. \A i \in V : certs[i] \in Certificate
      BY DEF Valids
    <2> QED BY <2>1, <2>2
  <1>3. r \in Response /\ r.certs = certs
    BY DEF Response
  <1>4. /\ q.name = p.name /\ q.key = p.key /\ q.seen = r
        /\ q.cert = (IF c = NoCert THEN p.cert ELSE c)
        /\ q.ready = (c # NoCert)
    BY DEF Told
  <1>5. q \in Provider
    <2> DEFINE b == c # NoCert
               d == IF c = NoCert THEN p.cert ELSE c
    <2>1. b \in BOOLEAN
      OBVIOUS
    <2>2. d \in Certificate \cup {NoCert}
      BY <1>1, <1>2
    <2>3. q = [name |-> p.name, key |-> p.key, ready |-> b, cert |-> d, seen |-> r]
      BY DEF Told
    <2> HIDE DEF b, d, r, q
    <2> QED BY <1>1, <1>3, <2>1, <2>2, <2>3 DEF Provider
  <1>6. q.name \in Askable
    BY <1>4 DEF CanBeAsked
  <1> HIDE DEF q, c, r
  <1>7. Held(q)
    <2>1. q.seen \in Response /\ q.seen.certs = certs
      BY <1>3, <1>4
    <2>2. (q.ready <=> c # NoCert) /\ (c # NoCert => q.cert = c)
      BY <1>4, Zenon
    <2>3. Chosen(q.seen.certs, q.key) = c
      BY <1>4, <2>1 DEF c
    <2> QED BY <1>6, <2>1, <2>2, <2>3, Zenon DEF Held
  <1> QED BY <1>5, <1>6, <1>7, Zenon DEF q

\* certifier::process_response keeps the invariant.
LEMMA RespondInv ==
    ASSUME ProvidersInv, NEW a \in DOMAIN providers, NEW certs \in Answers[a], Respond(a, certs)
    PROVE  ProvidersInv'
  <1> DEFINE p == providers[a]
             q == Told(p, certs)
  <1>1. /\ noipv6 \in BOOLEAN /\ Kept(providers) /\ Fit(providers)
        /\ FollowsParsed /\ FailsAsParsed /\ up = "running" /\ CanBeAsked(p)
    BY DEF ProvidersInv, Respond
  <1>2. certs \in Seq(Certificate)
    <2>1. a \in Addresses
      BY <1>1 DEF Kept
    <2> QED BY <2>1, ProvidersAssumption
  <1>3. p \in Provider
    BY <1>1 DEF Kept
  <1>4. q \in Provider /\ q.name \in Askable /\ Held(q)
    BY <1>1, <1>2, <1>3, ToldHolds
  <1>5. providers' = [providers EXCEPT ![a] = q]
    BY Zenon DEF Respond, Told
  <1>6. /\ up' = up /\ noipv6' = noipv6 /\ onion' = onion
        /\ files' = files /\ plain' = plain /\ hosts' = hosts
    BY Zenon DEF Respond
  <1> HIDE DEF p, q
  <1>7. /\ DOMAIN providers' = DOMAIN providers /\ providers'[a] = q
        /\ \A x \in DOMAIN providers : x # a => providers'[x] = providers[x]
    BY <1>5
  <1>8. Kept(providers')
    BY <1>1, <1>4, <1>7, Zenon DEF Kept
  <1>9. FollowsParsed'
    BY <1>1, <1>6, <1>7 DEF FollowsParsed
  <1>10. Fit(providers')
    BY <1>1, <1>4, <1>7, Zenon DEF Fit
  <1>11. ~FailedAsParsed'
    <2>1. ~FailedAsParsed
      BY <1>1 DEF FailsAsParsed
    <2> QED BY <1>6, <2>1, Zenon DEF FailedAsParsed, BadOnion, TooLong
  <1>12. FailsAsParsed'
    BY <1>1, <1>6, <1>11 DEF FailsAsParsed
  <1> QED BY <1>1, <1>6, <1>8, <1>9, <1>10, <1>12, Zenon DEF ProvidersInv

\* encryptor::fold fails because of a weak key only.
LEMMA FoldFailsInv ==
    ASSUME ProvidersInv, FoldFails
    PROVE  ProvidersInv'
  <1>1. /\ up' = "failed" /\ noipv6' = noipv6 /\ providers' = providers
        /\ weakDropped' = weakDropped
    BY Zenon DEF FoldFails
  <1>2. SomeWeak
    BY Zenon DEF FoldFails, SomeWeak
  <1>3. SomeWeak'
    BY <1>1, <1>2, Zenon DEF SomeWeak, WeakKey
  <1>4. FollowsParsed' /\ FailsAsParsed'
    BY <1>1, <1>3 DEF FollowsParsed, FailsAsParsed
  <1>5. Kept(providers')
    BY <1>1, Zenon DEF ProvidersInv
  <1> QED BY <1>1, <1>4, <1>5 DEF ProvidersInv

\* The constructors establish the invariant.
LEMMA ProvidersInitInv == ProvidersInit => ProvidersInv
  <1> SUFFICES ASSUME ProvidersInit PROVE ProvidersInv
    OBVIOUS
  <1>1. DOMAIN NoProviders = {} /\ IsFiniteSet({})
    BY FS_EmptySet DEF NoProviders
  <1>2. Kept(providers)
    BY <1>1 DEF Kept, ProvidersInit
  <1> QED BY <1>2 DEF ProvidersInit, ProvidersInv, FollowsParsed, FailsAsParsed

\* The resolvers are gone.
LEMMA GoneInv ==
    ASSUME ProvidersInv, Gone, up' \in {"unsaved", "stopped"}
    PROVE  ProvidersInv'
  <1>1. DOMAIN NoProviders = {} /\ IsFiniteSet({})
    BY FS_EmptySet DEF NoProviders
  <1>2. Kept(providers')
    BY <1>1 DEF Kept, Gone
  <1> QED BY <1>2 DEF Gone, ProvidersInv, FollowsParsed, FailsAsParsed

-----------------------------------------------------------------------------
(***************************************************************************)
(* The parser of the list: what it returns are rows.                       *)
(***************************************************************************)
Columns == Seq(Seq(STRING))

HasWords(s) == "words" \in DOMAIN s /\ s.words \in Columns \ {<<>>}

\* One character more.
LEMMA CharKeepsWords ==
    ASSUME NEW s, HasWords(s), NEW ch \in STRING
    PROVE  HasWords(CharRead(s, ch))
  <1> DEFINE W == s.words
             n == Len(W)
             t == [s EXCEPT !.words = Append(@, <<>>)]
             u == [s EXCEPT !.words[Len(s.words)] = Append(@, ch)]
  <1>1. W \in Columns /\ W # <<>> /\ n \in Nat /\ n \in 1 .. n /\ W[n] \in Seq(STRING)
    BY DEF HasWords, Columns
  <1>2. Append(W, <<>>) \in Columns \ {<<>>}
    <2>1. ASSUME NEW T, NEW w \in Seq(T), NEW x \in T
          PROVE  Append(w, x) \in Seq(T) /\ Append(w, x) # <<>>
      BY AppendProperties, Zenon
    <2>2. <<>> \in Seq(STRING)
      OBVIOUS
    <2>3. W \in Seq(Seq(STRING))
      BY <1>1 DEF Columns
    <2> HIDE DEF W
    <2>4. Append(W, <<>>) \in Seq(Seq(STRING)) /\ Append(W, <<>>) # <<>>
      BY <2>1, <2>2, <2>3, Zenon
    <2> QED BY <2>4, Zenon DEF Columns
  <1>3. [W EXCEPT ![n] = Append(@, ch)] \in Columns \ {<<>>}
    <2>1. Append(W[n], ch) \in Seq(STRING)
      BY <1>1
    <2> DEFINE x == Append(W[n], ch)
               V == [W EXCEPT ![n] = x]
    <2>2. W \in [1 .. n -> Seq(STRING)] /\ 1 \in 1 .. n
      BY <1>1 DEF Columns
    <2> HIDE DEF W, n, x
    <2>3. V \in [1 .. n -> Seq(STRING)] /\ DOMAIN V = 1 .. n
      BY <2>1, <2>2 DEF x
    <2> HIDE DEF V
    <2>4. V \in Seq(Seq(STRING))
      BY <1>1, <2>3
    <2>5. V # <<>>
      <3>1. DOMAIN <<>> = {}
        OBVIOUS
      <3>2. 1 \in DOMAIN V
        BY <2>2, <2>3, Zenon
      <3> QED BY <3>1, <3>2, Zenon
    <2> QED BY <2>4, <2>5 DEF V, x, Columns
  <1>4. /\ HasWords([s EXCEPT !.threw = TRUE])
        /\ HasWords([s EXCEPT !.quote = TRUE])
        /\ HasWords([s EXCEPT !.closing = FALSE])
    BY DEF HasWords
  <1>5. HasWords(t)
    <2>1. t.words = Append(W, <<>>) /\ "words" \in DOMAIN t
      BY DEF HasWords
    <2> HIDE DEF t, W
    <2> QED BY <1>2, <2>1 DEF HasWords
  <1>6. HasWords(u)
    <2>1. u.words = [W EXCEPT ![n] = Append(@, ch)] /\ "words" \in DOMAIN u
      BY DEF HasWords
    <2> HIDE DEF u, W, n
    <2> QED BY <1>3, <2>1 DEF HasWords
  <1>7. HasWords([s EXCEPT !.quote = FALSE, !.closing = TRUE, !.words = Append(@, <<>>)])
    <2> DEFINE v == [s EXCEPT !.quote = FALSE, !.closing = TRUE, !.words = Append(@, <<>>)]
    <2>1. v.words = Append(W, <<>>) /\ "words" \in DOMAIN v
      BY DEF HasWords
    <2> HIDE DEF v, W
    <2> QED BY <1>2, <2>1 DEF HasWords, v
  <1> QED BY <1>4, <1>5, <1>6, <1>7, Zenon DEF CharRead

\* A text of strings has columns of strings, or none.
LEMMA LineColumns ==
    ASSUME NEW line \in Seq(STRING)
    PROVE  parse_line(line) = Throws \/ \E v \in Columns : parse_line(line) = Returns(v)
  <1> DEFINE L == LineStates(line)
             N == Len(line)
             S == {n \in Nat : n <= N /\ ~HasWords(L[n])}
  <1>1. N \in Nat /\ L[0] = LineBegins /\ \A k \in 1 .. N : L[k] = CharRead(L[k - 1], line[k])
    BY LineStep
  <1> HIDE DEF L
  <1>2. ASSUME S # {} PROVE FALSE
    <2>1. PICK n \in S : \A k \in S : n <= k
      <3> S \subseteq Nat
        OBVIOUS
      <3> HIDE DEF S
      <3> QED BY <1>2, LeastNumber
    <2>2. n \in Nat /\ n <= N /\ ~HasWords(L[n])
      BY <2>1
    <2>3. CASE n = 0
      <3>1. << <<>> >> \in Columns /\ << <<>> >> # <<>>
        BY DEF Columns
      <3>2. HasWords(LineBegins)
        BY <3>1 DEF HasWords, LineBegins
      <3> QED BY <1>1, <2>2, <2>3, <3>2
    <2>4. CASE n # 0
      <3>1. n - 1 \in Nat /\ n - 1 \notin S /\ n - 1 <= N /\ n \in 1 .. N /\ line[n] \in STRING
        BY <1>1, <2>1, <2>2, <2>4
      <3>2. HasWords(L[n - 1])
        BY <3>1
      <3> QED BY <1>1, <2>2, <3>1, <3>2, CharKeepsWords
    <2> QED BY <2>3, <2>4
  <1>3. HasWords(L[N])
    BY <1>1, <1>2
  <1> DEFINE W == L[N].words
  <1>4. W \in Columns \ {<<>>}
    BY <1>3 DEF HasWords
  <1>5. parse_line(line) = LineEnds(L[N])
    BY DEF parse_line, L
  <1>6. Front(W) \in Columns
    BY <1>4 DEF Front, Columns
  <1> HIDE DEF W, N
  <1>7. parse_line(line) = Throws \/ parse_line(line) = Returns(Front(W)) \/ parse_line(line) = Returns(W)
    BY <1>5, Zenon DEF LineEnds, W
  <1> QED BY <1>4, <1>6, <1>7

\* A column of a row, if it is there.
LEMMA ColumnType ==
    ASSUME NEW headers \in Columns, NEW cols \in Columns, Len(cols) = Len(headers), NEW title
    PROVE  Column(headers, cols, title) \in Seq(STRING)
  <1> DEFINE C == {i \in DOMAIN headers : headers[i] = <<title>>}
             i == find_col(headers, title)
  <1>1. DOMAIN headers = 1 .. Len(headers) /\ DOMAIN cols = 1 .. Len(headers) /\ C \subseteq Nat
    BY DEF Columns
  <1>2. i = 0 \/ i \in C
    <2>1. CASE C = {}
      BY <2>1 DEF find_col
    <2>2. CASE C # {}
      <3>1. i = CHOOSE j \in C : \A k \in C : j <= k
        BY <2>2 DEF find_col
      <3> HIDE DEF C
      <3>2. \E j \in C : \A k \in C : j <= k
        BY <1>1, <2>2, LeastNumber
      <3> QED BY <3>1, <3>2, Zenon
    <2> QED BY <2>1, <2>2
  <1>3. CASE i = 0
    BY <1>3 DEF Column
  <1>4. CASE i # 0
    <2>1. i \in 1 .. Len(headers)
      BY <1>1, <1>2, <1>4
    <2>2. Column(headers, cols, title) = cols[i]
      BY <1>4 DEF Column
    <2> HIDE DEF i
    <2>3. cols[i] \in Seq(STRING)
      BY <1>1, <2>1 DEF Columns
    <2> QED BY <2>2, <2>3
  <1> QED BY <1>3, <1>4

\* What parse_resolver returns.
LEMMA ResolverType ==
    ASSUME NEW headers \in Columns, NEW cols \in Columns, Len(cols) = Len(headers)
    PROVE  \/ parse_resolver(headers, cols) = Throws
           \/ \E r \in Row : parse_resolver(headers, cols) = Returns(r)
  <1> DEFINE n == Column(headers, cols, "Provider name")
             k == Column(headers, cols, "Provider public key")
             w == Column(headers, cols, "Resolver address")
             r == [address |-> address(w, CryptPort), name |-> n, key |-> k[1]]
  <1>1. n \in Seq(STRING)
    BY ColumnType
  <1> HIDE DEF n, k, w, r
  <1>2. \/ parse_resolver(headers, cols) = Throws
        \/ /\ parse_resolver(headers, cols) = Returns(r)
           /\ IsAddress(w) /\ k[1] \in KeyTexts
    BY Zenon DEF parse_resolver, n, k, w, r
  <1>3. ASSUME IsAddress(w) PROVE address(w, CryptPort) \in Addresses
    <2>1. w[1] \in DOMAIN AddressParts
      BY <1>3 DEF IsAddress
    <2>2. <<w[1]>>[1] = w[1]
      OBVIOUS
    <2>3. address(w, CryptPort) = address(<<w[1]>>, CryptPort)
      BY <2>2, Zenon DEF address
    <2> QED BY <2>1, <2>3 DEF Addresses
  <1>4. ASSUME IsAddress(w), k[1] \in KeyTexts PROVE r \in Row
    BY <1>1, <1>3, <1>4 DEF Row, r
  <1> QED BY <1>2, <1>4

\* Rows so far, or an exception.
IsRows(found) == found = Throws \/ \E v \in Seq(Row) : found = Returns(v)

\* Throws and Returns.
LEMMA Outcome ==
    ASSUME NEW v
    PROVE  Throws.threw = TRUE /\ Returns(v).threw = FALSE /\ Returns(v).value = v
  BY DEF Throws, Returns

\* One turn of the loop.
LEMMA RowKeepsRows ==
    ASSUME NEW headers \in Columns, NEW found, IsRows(found), NEW line \in Seq(STRING)
    PROVE  IsRows(RowRead(headers, found, line))
  <1> DEFINE cols == parse_line(line)
             row  == parse_resolver(headers, cols.value)
  <1>1. CASE found.threw \/ cols.threw
    BY <1>1, Zenon DEF RowRead, IsRows
  <1>2. CASE ~(found.threw \/ cols.threw)
    <2>1. PICK v \in Seq(Row) : found = Returns(v)
      BY <1>2, Outcome, Zenon DEF IsRows
    <2>2. PICK c \in Columns : cols = Returns(c)
      BY <1>2, LineColumns, Outcome, Zenon
    <2>3. found.value = v /\ cols.value = c
      BY <2>1, <2>2, Outcome, Zenon
    <2>4. CASE c = <<>>
      BY <1>2, <2>3, <2>4, Zenon DEF RowRead
    <2>5. CASE c # <<>> /\ (Len(c) # Len(headers) \/ row.threw)
      <3>1. RowRead(headers, found, line) = Throws
        BY <1>2, <2>3, <2>5, Zenon DEF RowRead
      <3> QED BY <3>1 DEF IsRows
    <2>6. CASE c # <<>> /\ Len(c) = Len(headers) /\ ~row.threw
      <3>1. PICK r \in Row : row = Returns(r)
        BY <2>3, <2>6, ResolverType, Outcome, Zenon
      <3>2. row.value = r
        BY <3>1, Outcome, Zenon
      <3>3. RowRead(headers, found, line) = Returns(Append(v, r))
        BY <1>2, <2>3, <2>6, <3>2, Zenon DEF RowRead
      <3>4. Append(v, r) \in Seq(Row)
        OBVIOUS
      <3> QED BY <3>3, <3>4 DEF IsRows
    <2> QED BY <2>4, <2>5, <2>6
  <1> QED BY <1>1, <1>2

\* The list.
LEMMA ListRows ==
    ASSUME NEW file, file.readable => file.lines \in Seq(Seq(STRING)) \ {<<>>}
    PROVE  IsRows(parse_resolvers_list(file))
  <1> DEFINE lines == file.lines
             h == parse_line(lines[1])
             R == RowStates(h.value, lines)
             N == Len(lines) - 1
             S == {n \in Nat : n <= N /\ ~IsRows(R[n])}
  <1>1. CASE parse_resolvers_list(file) = Throws
    BY <1>1 DEF IsRows
  <1>2. CASE parse_resolvers_list(file) # Throws
    <2>1. file.readable /\ ~h.threw /\ parse_resolvers_list(file) = R[N]
      BY <1>2, Zenon DEF parse_resolvers_list
    <2>2. lines \in Seq(Seq(STRING)) /\ N \in Nat /\ lines[1] \in Seq(STRING)
          /\ \A n \in 1 .. N : lines[n + 1] \in Seq(STRING)
      <3>1. lines \in Seq(Seq(STRING)) \ {<<>>}
        BY <2>1
      <3> HIDE DEF lines
      <3>2. Len(lines) \in Nat \ {0}
        BY <3>1
      <3> QED BY <3>1, <3>2
    <2> HIDE DEF lines
    <2>3. h.value \in Columns
      BY <2>1, <2>2, LineColumns, Outcome, Zenon
    <2>4. R[0] = Returns(<<>>) /\ \A k \in 1 .. N : R[k] = RowRead(h.value, R[k - 1], lines[k + 1])
      BY <2>2, RowStep
    <2> HIDE DEF R, N, h
    <2>6. N \in Nat
      BY <2>2
    <2>5. ASSUME S # {} PROVE FALSE
      <3>1. PICK n \in S : \A k \in S : n <= k
        <4> S \subseteq Nat
          OBVIOUS
        <4> HIDE DEF S
        <4> QED BY <2>5, LeastNumber
      <3>2. n \in Nat /\ n <= N /\ ~IsRows(R[n])
        BY <3>1
      <3>3. CASE n = 0
        <4>1. <<>> \in Seq(Row)
          OBVIOUS
        <4> QED BY <2>4, <3>2, <3>3, <4>1 DEF IsRows
      <3>4. CASE n # 0
        <4>1. n - 1 \in Nat /\ n - 1 <= N /\ n \in 1 .. N
          BY <2>6, <3>2, <3>4
        <4>4. n - 1 \notin S
          BY <3>1, <3>2, <4>1
        <4>2. IsRows(R[n - 1])
          BY <4>1, <4>4
        <4>3. lines[n + 1] \in Seq(STRING)
          BY <2>2, <4>1
        <4> QED BY <2>3, <2>4, <3>2, <4>1, <4>2, <4>3, RowKeepsRows
      <3> QED BY <3>3, <3>4
    <2> QED BY <2>1, <2>2, <2>5
  <1> QED BY <1>1, <1>2

\* The list of each of the files.
LEMMA ListReadType ==
    ASSUME NEW f \in DOMAIN Files
    PROVE  ListRead[f].threw \/ ListRead[f].value \in Seq(Row)
  <1> DEFINE l == Files[f].list
  <1>1. l.readable => l.lines \in Seq(Seq(STRING)) \ {<<>>}
    BY ProvidersAssumption
  <1>2. ListRead[f] = parse_resolvers_list(l)
    BY DEF ListRead
  <1> HIDE DEF l
  <1>3. IsRows(ListRead[f])
    BY <1>1, <1>2, ListRows
  <1> QED BY <1>3, Outcome, Zenon DEF IsRows

-----------------------------------------------------------------------------
(***************************************************************************)
(* The steps of the resolvers and their theorems.                          *)
(***************************************************************************)

\* Every step keeps the invariant.
LEMMA ProvidersNextInv == ProvidersInv /\ [ProvidersNext]_providersVars => ProvidersInv'
  <1> SUFFICES ASSUME ProvidersInv, [ProvidersNext]_providersVars PROVE ProvidersInv'
    OBVIOUS
  <1>1. ASSUME NEW f \in DOMAIN Files, Start(f) PROVE ProvidersInv'
    <2>1. DOMAIN NoProviders = {} /\ IsFiniteSet({})
      BY FS_EmptySet DEF NoProviders
    <2>2. Kept(NoProviders) /\ Fit(NoProviders)
      BY <2>1 DEF Kept, Fit
    <2>3. noipv6 \in BOOLEAN /\ Read(f, <<>>, NoProviders, FALSE)
      BY <1>1 DEF ProvidersInv, Start
    <2> QED BY <2>2, <2>3, ListReadType, ReadInv
  <1>2. ASSUME NEW f \in DOMAIN Files, Reload(f) PROVE ProvidersInv'
    <2>1. noipv6 \in BOOLEAN /\ Kept(providers) /\ Fit(providers)
          /\ Read(f, plain, providers, weakDropped)
      BY <1>2 DEF ProvidersInv, Reload
    <2> QED BY <2>1, ListReadType, ReadInv
  <1>3. ASSUME NEW a \in DOMAIN providers, NEW certs \in Answers[a], Respond(a, certs)
        PROVE  ProvidersInv'
    BY <1>3, RespondInv
  <1>7. CASE FoldFails
    BY <1>7, FoldFailsInv
  <1>4. CASE SaveFails
    BY <1>4, GoneInv DEF SaveFails
  <1>5. CASE Terminate
    BY <1>5, GoneInv DEF Terminate
  <1>6. CASE UNCHANGED providersVars
    BY <1>6, Zenon
    DEF providersVars, ProvidersInv, FollowsParsed, FailsAsParsed, FailedAsParsed, BadOnion,
        TooLong, SomeWeak, WeakKey
  <1> QED BY <1>1, <1>2, <1>3, <1>4, <1>5, <1>6, <1>7 DEF ProvidersNext

\* The invariant holds in every reachable state.
THEOREM ProvidersInvariance == ProvidersSpec => []ProvidersInv
  <1>1. ProvidersInit => ProvidersInv
    BY ProvidersInitInv
  <1>2. ProvidersInv /\ [ProvidersNext]_providersVars => ProvidersInv'
    BY ProvidersNextInv
  <1> QED BY <1>1, <1>2, PTL DEF ProvidersSpec

\* The invariant says of each resolver what BestIsUsed says of the certificates.
LEMMA InvBestIsUsed == ProvidersInv => BestIsUsed
  <1> SUFFICES ASSUME ProvidersInv, NEW a \in DOMAIN providers,
                      up = "running", providers[a].seen.asked
               PROVE  LET p == providers[a]
                          good == {i \in DOMAIN p.seen.certs : IsValid(p.seen.certs[i], p.key)}
                      IN  /\ p.ready <=> good # {}
                          /\ p.ready => \E i \in good :
                                /\ p.cert = p.seen.certs[i]
                                /\ \A j \in good :
                                    LET c == p.seen.certs[j]
                                    IN  \/ c.major < p.cert.major
                                        \/ c.major = p.cert.major /\ c.minor < p.cert.minor
                                        \/ /\ c.major = p.cert.major /\ c.minor = p.cert.minor
                                           /\ \/ c.serial < p.cert.serial
                                              \/ c.serial = p.cert.serial /\ j <= i
    BY Zenon DEF BestIsUsed
  <1> DEFINE p == providers[a]
             certs == p.seen.certs
             good == {i \in DOMAIN certs : IsValid(certs[i], p.key)}
             b == Chosen(certs, p.key)
  <1>1. Held(p)
    BY DEF ProvidersInv, Fit
  <1>2. p.seen # NotSeen
    BY DEF NotSeen
  <1> HIDE DEF p
  <1>3. /\ p.seen \in Response
        /\ p.ready <=> b # NoCert
        /\ p.ready => p.cert = b
    BY <1>1, <1>2, Zenon DEF Held
  <1>4. certs \in Seq(Certificate)
    BY <1>3 DEF Response
  <1> HIDE DEF certs
  <1>5. good = Valids(certs, p.key, Len(certs)) /\ \A i \in good : certs[i] \in Certificate
    BY <1>4 DEF Valids
  <1>6. IsBest(b, certs, p.key, Len(certs))
    BY <1>4, ChosenIsBest
  <1> HIDE DEF good, b
  <1>7. /\ b = NoCert <=> good = {}
        /\ b # NoCert => \E i \in good : b = certs[i] /\ \A j \in good : Beats(b, i, certs[j], j)
    BY <1>5, <1>6 DEF IsBest
  <1>8. p.ready <=> good # {}
    BY <1>3, <1>7, Zenon
  <1>9. ASSUME p.ready
        PROVE  \E i \in good :
                  /\ p.cert = certs[i]
                  /\ \A j \in good :
                      LET c == certs[j]
                      IN  \/ c.major < p.cert.major
                          \/ c.major = p.cert.major /\ c.minor < p.cert.minor
                          \/ /\ c.major = p.cert.major /\ c.minor = p.cert.minor
                             /\ \/ c.serial < p.cert.serial
                                \/ c.serial = p.cert.serial /\ j <= i
    <2>1. p.cert = b /\ b # NoCert
      BY <1>3, <1>9, Zenon
    <2>2. PICK i \in good : b = certs[i] /\ \A j \in good : Beats(b, i, certs[j], j)
      BY <1>7, <2>1
    <2>3. ASSUME NEW j \in good
          PROVE  LET c == certs[j]
                 IN  \/ c.major < b.major
                     \/ c.major = b.major /\ c.minor < b.minor
                     \/ /\ c.major = b.major /\ c.minor = b.minor
                        /\ c.serial < b.serial \/ (c.serial = b.serial /\ j <= i)
      <3>1. certs[j] \in Certificate /\ b \in Certificate
        BY <1>5, <2>2
      <3>2. Beats(b, i, certs[j], j)
        BY <2>2
      <3> QED BY <3>1, <3>2, VersionOrder, Zenon DEF Beats
    <2> QED BY <2>1, <2>2, <2>3, Zenon
  <1> QED BY <1>8, <1>9, Zenon DEF p, certs, good

\* find_valid_certificate makes a resolver ready exactly when the last response
\* had a valid certificate, and with the best of them.
THEOREM ProvidersUseBest == ProvidersSpec => []BestIsUsed
  <1> QED BY InvBestIsUsed, ProvidersInvariance, PTL

\* After load and reload of responder and cresponder the resolvers and the local
\* names are those that the parsers return, whatever there was before.
THEOREM ProvidersFollow == ProvidersSpec => []FollowsParsed
  <1>1. ProvidersInv => FollowsParsed
    BY DEF ProvidersInv
  <1> QED BY <1>1, ProvidersInvariance, PTL

\* A process runs only if no word of a filter is too long, the option for .onion
\* names and the hosts file are good, and no two rows of the list that can be
\* used have one address: the check of the counts in load finds nothing else.
\* An exception that ends it means one of these or a weak key.
THEOREM ProvidersFail == ProvidersSpec => []FailsAsParsed
  <1>1. ProvidersInv => FailsAsParsed
    BY DEF ProvidersInv
  <1> QED BY <1>1, ProvidersInvariance, PTL

\* A step of a running process keeps what it has of the resolvers that stay, and
\* leaves none only if a list that could be read has no row that is wanted.
KeepsService ==
    up = "running" /\ up' = "running" =>
        /\ files' # files => \A a \in DOMAIN providers \cap DOMAIN providers' :
                                providers'[a] = providers[a]
        /\ (DOMAIN providers # {} /\ "plain" \in random_provider(FALSE)') =>
              /\ ~ListRead[files'].threw
              /\ Wanted(noipv6, ListRead[files'].value, Len(ListRead[files'].value)) = {}

\* The handler of SIGHUP does so.
LEMMA ReloadKeeps ==
    ASSUME ProvidersInv, NEW f \in DOMAIN Files, Reload(f)
    PROVE  KeepsService
  <1> DEFINE l == Load(providers, f)
             rows == ListRead[f].value
  <1> SUFFICES ASSUME up' = "running" PROVE KeepsService
    BY DEF KeepsService
  <1>1. noipv6 \in BOOLEAN /\ Kept(providers) /\ Fit(providers)
          /\ Read(f, plain, providers, weakDropped)
    BY DEF ProvidersInv, Reload
  <1>2. /\ ~ListRead[f].threw => DOMAIN l.map = WantedPlaces(noipv6, rows, Len(rows))
        /\ ListRead[f].threw => l.map = providers
        /\ \A a \in DOMAIN l.map \cap DOMAIN providers : l.map[a] = providers[a]
    BY <1>1, ListReadType, LoadFit
  <1>3. files' = f /\ providers' = l.map
    <2>1. \/ up' = "failed"
          \/ providers' = l.map
      BY <1>1, Zenon DEF Read
    <2> QED BY <1>1, <2>1 DEF Read
  <1> HIDE DEF l, rows
  <1>4. \A a \in DOMAIN providers \cap DOMAIN providers' : providers'[a] = providers[a]
    BY <1>2, <1>3
  <1>5. ASSUME DOMAIN providers # {}, "plain" \in random_provider(FALSE)'
        PROVE  ~ListRead[f].threw /\ Wanted(noipv6, rows, Len(rows)) = {}
    <2>1. DOMAIN providers' = {}
      BY <1>5 DEF random_provider
    <2>2. ~ListRead[f].threw
      BY <1>2, <1>3, <1>5, <2>1
    <2>3. WantedPlaces(noipv6, rows, Len(rows)) = {}
      BY <1>2, <1>3, <2>1, <2>2
    <2> QED BY <2>2, <2>3 DEF WantedPlaces
  <1> QED BY <1>3, <1>4, <1>5 DEF KeepsService, rows

\* A reload keeps the certificates of the resolvers that are still listed, and
\* goes over to the plain resolvers only if the list has no encrypted one.
THEOREM ProvidersKeepService == ProvidersSpec => [][KeepsService]_providersVars
  <1>1. ASSUME ProvidersInv, [ProvidersNext]_providersVars PROVE [KeepsService]_providersVars
    <2>1. CASE \E f \in DOMAIN Files : Start(f)
      BY <2>1 DEF Start, KeepsService
    <2>2. CASE \E f \in DOMAIN Files : Reload(f)
      BY <1>1, <2>2, ReloadKeeps
    <2>3. ASSUME NEW a \in DOMAIN providers, NEW certs \in Answers[a], Respond(a, certs)
          PROVE  KeepsService
      <3>1. files' = files /\ DOMAIN providers' = DOMAIN providers
        BY <2>3 DEF Respond
      <3>2. "plain" \in random_provider(FALSE)' => DOMAIN providers' = {}
        BY DEF random_provider
      <3> QED BY <3>1, <3>2, Zenon DEF KeepsService
    <2>4. CASE FoldFails \/ SaveFails \/ Terminate
      BY <2>4 DEF FoldFails, SaveFails, Terminate, KeepsService
    <2>5. CASE UNCHANGED providersVars
      BY <2>5
    <2> QED BY <1>1, <2>1, <2>2, <2>3, <2>4, <2>5 DEF ProvidersNext
  <1> QED BY <1>1, ProvidersInvariance, PTL DEF ProvidersSpec

-----------------------------------------------------------------------------
(***************************************************************************)
(* What save_providers writes: lines of three columns without quotes.      *)
(***************************************************************************)
Line3(a, name, k) == <<a, Separator>> \o name \o <<Separator, k>>

\* A set of words in which nothing means anything to parse_line.
Spoken(T) == Separator \notin T /\ Quote \notin T /\ Return \notin T

\* The first m characters of t are those of such a line.
Begins3(t, m, a, name, k) ==
    \A i \in 1 .. m :
        /\ i = 1 => t[i] = a
        /\ i = 2 \/ i = Len(name) + 3 => t[i] = Separator
        /\ i \in 3 .. Len(name) + 2 => t[i] = name[i - 2]
        /\ i = Len(name) + 4 => t[i] = k

\* The parser outside of quotes.
Plain(words) == [words |-> words, quote |-> FALSE, closing |-> FALSE, threw |-> FALSE]

\* Short sequences.
LEMMA Pair ==
    ASSUME NEW x, NEW y
    PROVE  Append(<<x>>, y) = <<x, y>>
  <1> DEFINE T == {x, y}
             s == Append(<<x>>, y)
             t == <<x, y>>
  <1>1. x \in T /\ y \in T
    OBVIOUS
  <1> HIDE DEF T
  <1>2. t \in Seq(T) /\ Len(t) = 2 /\ t[1] = x /\ t[2] = y
    BY <1>1
  <1>3. <<x>> \in Seq(T) /\ Len(<<x>>) = 1 /\ <<x>>[1] = x
    BY <1>1
  <1>4. s \in Seq(T) /\ Len(s) = 2 /\ s[1] = x /\ s[2] = y
    BY <1>1, <1>3
  <1> HIDE DEF s, t
  <1>5. Len(s) = Len(t) /\ \A i \in 1 .. Len(s) : s[i] = t[i]
    BY <1>2, <1>4
  <1>6. s = t
    BY <1>2, <1>4, <1>5, SeqEqual
  <1> QED BY <1>6 DEF s, t

\* The same of three.
LEMMA Triple ==
    ASSUME NEW x, NEW y, NEW z
    PROVE  Append(<<x, y>>, z) = <<x, y, z>>
  <1> DEFINE T == {x, y, z}
             s == Append(<<x, y>>, z)
             t == <<x, y, z>>
  <1>1. x \in T /\ y \in T /\ z \in T
    OBVIOUS
  <1> HIDE DEF T
  <1>2. t \in Seq(T) /\ Len(t) = 3 /\ t[1] = x /\ t[2] = y /\ t[3] = z
    BY <1>1
  <1>3. <<x, y>> \in Seq(T) /\ Len(<<x, y>>) = 2 /\ <<x, y>>[1] = x /\ <<x, y>>[2] = y
    BY <1>1
  <1>4. s \in Seq(T) /\ Len(s) = 3 /\ s[1] = x /\ s[2] = y /\ s[3] = z
    BY <1>1, <1>3
  <1> HIDE DEF s, t
  <1>5. Len(s) = Len(t) /\ \A i \in 1 .. Len(s) : s[i] = t[i]
    BY <1>2, <1>4
  <1>6. s = t
    BY <1>2, <1>4, <1>5, SeqEqual
  <1> QED BY <1>6 DEF s, t

\* Their parts.
LEMMA Tuples ==
    ASSUME NEW x, NEW y, NEW z
    PROVE  /\ Append(<<>>, x) = <<x>>
           /\ Len(<<>>) = 0 /\ Len(<<x>>) = 1 /\ Len(<<x, y>>) = 2 /\ Len(<<x, y, z>>) = 3
           /\ <<x, y, z>>[1] = x /\ <<x, y, z>>[2] = y /\ <<x, y, z>>[3] = z
           /\ <<x>>[1] = x
  <1>1. Append(<<>>, x) = <<x>>
    OBVIOUS
  <1>2. Len(<<>>) = 0 /\ Len(<<x>>) = 1 /\ Len(<<x, y>>) = 2 /\ Len(<<x, y, z>>) = 3
    OBVIOUS
  <1>3. <<x, y, z>>[1] = x /\ <<x, y, z>>[2] = y /\ <<x, y, z>>[3] = z /\ <<x>>[1] = x
    OBVIOUS
  <1> QED BY <1>1, <1>2, <1>3

\* The last element is replaced.
LEMMA ReplaceLast ==
    ASSUME NEW T, NEW ws \in Seq(T), NEW w \in T, NEW x \in T
    PROVE  [Append(ws, w) EXCEPT ![Len(Append(ws, w))] = x] = Append(ws, x)
  <1> DEFINE v == Append(ws, w)
             n == Len(v)
             s == [v EXCEPT ![n] = x]
             t == Append(ws, x)
  <1>1. v \in Seq(T) /\ Len(v) = Len(ws) + 1 /\ Len(ws) \in Nat /\ \A i \in 1 .. Len(ws) : v[i] = ws[i]
    OBVIOUS
  <1>2. t \in Seq(T) /\ Len(t) = Len(ws) + 1 /\ t[Len(t)] = x /\ \A i \in 1 .. Len(ws) : t[i] = ws[i]
    OBVIOUS
  <1> HIDE DEF v, t
  <1>3. n \in 1 .. n /\ n = Len(ws) + 1
    BY <1>1
  <1> HIDE DEF n
  <1>4. s \in Seq(T) /\ Len(s) = n /\ \A j \in 1 .. n : s[j] = IF j = n THEN x ELSE v[j]
    <2>1. n = Len(v) /\ n \in 1 .. Len(v)
      BY <1>3 DEF n
    <2> QED BY <1>1, <2>1, ExceptSeq
  <1> HIDE DEF s
  <1>5. Len(s) = Len(t) /\ \A j \in 1 .. Len(s) : s[j] = t[j]
    <2>1. \A j \in 1 .. n : j = n \/ j \in 1 .. Len(ws)
      BY <1>1, <1>3
    <2> QED BY <1>1, <1>2, <1>3, <1>4, <2>1
  <1>6. s = t
    BY <1>2, <1>4, <1>5, SeqEqual
  <1> QED BY <1>6 DEF s, t, n, v

\* The words of a state of the parser are replaced.
LEMMA ReplaceWords ==
    ASSUME NEW ws, NEW y
    PROVE  [Plain(ws) EXCEPT !.words = y] = Plain(y)
  <1>1. ASSUME NEW b, NEW c, NEW d
        PROVE  [[words |-> ws, quote |-> b, closing |-> c, threw |-> d] EXCEPT !.words = y]
                 = [words |-> y, quote |-> b, closing |-> c, threw |-> d]
    OBVIOUS
  <1> QED BY <1>1, Zenon DEF Plain

\* A character of a word goes to the last column.
LEMMA PlainWord ==
    ASSUME NEW T, Spoken(T), NEW ws \in Seq(Seq(T)), NEW w \in Seq(T), NEW ch \in T
    PROVE  CharRead(Plain(Append(ws, w)), ch) = Plain(Append(ws, Append(w, ch)))
  <1> DEFINE v == Append(ws, w)
             n == Len(v)
             x == Append(w, ch)
             s == Plain(v)
  <1>1. s.words = v /\ s.quote = FALSE /\ s.threw = FALSE
    BY DEF Plain
  <1>2. x \in Seq(T)
    OBVIOUS
  <1>3. [v EXCEPT ![n] = x] = Append(ws, x)
    <2>1. ASSUME NEW U, NEW u \in Seq(U), NEW y \in U, NEW z \in U
          PROVE  [Append(u, y) EXCEPT ![Len(Append(u, y))] = z] = Append(u, z)
      BY <2>1, ReplaceLast
    <2> HIDE DEF x
    <2> QED BY <1>2, <2>1
  <1>4. v[n] = w
    <2>1. ASSUME NEW U, NEW u \in Seq(U), NEW y \in U PROVE Append(u, y)[Len(Append(u, y))] = y
      OBVIOUS
    <2> QED BY <2>1, Zenon
  <1>5. ch # Separator /\ ch # Quote /\ ch # Return
    BY DEF Spoken
  <1>6. CharRead(s, ch) = [s EXCEPT !.words[Len(s.words)] = Append(@, ch)]
    <2> HIDE DEF s
    <2> QED BY <1>1, <1>5, Zenon DEF CharRead
  <1> HIDE DEF v, n, x
  <1>7. [s EXCEPT !.words[Len(s.words)] = Append(@, ch)] = [s EXCEPT !.words[n] = x]
    <2>1. Len(s.words) = n /\ Append(s.words[n], ch) = x
      BY <1>1, <1>4, Zenon DEF n, x
    <2> HIDE DEF s
    <2> QED BY <2>1, Zenon
  <1>8. [s EXCEPT !.words[n] = x] = Plain([v EXCEPT ![n] = x])
    <2> DEFINE y == [v EXCEPT ![n] = x]
    <2>1. [s EXCEPT !.words[n] = x] = [s EXCEPT !.words = [s.words EXCEPT ![n] = x]]
      <3> HIDE DEF s
      <3> QED OBVIOUS
    <2>2. [s.words EXCEPT ![n] = x] = y
      BY <1>1, Zenon
    <2> HIDE DEF y
    <2>3. [s EXCEPT !.words = y] = Plain(y)
      BY ReplaceWords, Zenon
    <2> HIDE DEF s
    <2> QED BY <2>1, <2>2, <2>3, Zenon DEF y
  <1> QED BY <1>3, <1>6, <1>7, <1>8, Zenon DEF v, x

\* A separator begins a column.
LEMMA PlainSeparator ==
    ASSUME NEW ws
    PROVE  CharRead(Plain(ws), Separator) = Plain(Append(ws, <<>>))
  <1> DEFINE s == Plain(ws)
             y == Append(ws, <<>>)
  <1>1. s.words = ws /\ s.quote = FALSE /\ s.threw = FALSE /\ s.closing = FALSE
    BY DEF Plain
  <1>2. Separator # Quote /\ Separator # Return
    BY DEF Separator, Quote, Return
  <1>3. CharRead(s, Separator) = [s EXCEPT !.words = Append(@, <<>>)]
    <2> HIDE DEF s
    <2> QED BY <1>1, <1>2, Zenon DEF CharRead
  <1>4. [s EXCEPT !.words = Append(@, <<>>)] = [s EXCEPT !.words = y]
    <2>1. Append(s.words, <<>>) = y
      BY <1>1, Zenon
    <2> HIDE DEF s, y
    <2> QED BY <2>1, Zenon
  <1> HIDE DEF y
  <1>5. [s EXCEPT !.words = y] = Plain(y)
    BY ReplaceWords, Zenon
  <1> QED BY <1>3, <1>4, <1>5, Zenon DEF y

\* A beginning grows by one element.
LEMMA BeginningGrows ==
    ASSUME NEW T, NEW s \in Seq(T), NEW i \in 1 .. Len(s)
    PROVE  /\ SubSeq(s, 1, i - 1) \in Seq(T)
           /\ Append(SubSeq(s, 1, i - 1), s[i]) = SubSeq(s, 1, i)
  OBVIOUS

\* What has been read of such a line after j characters, j less than all.
Columns3(a, name, j) ==
    IF j = 0 THEN << <<>> >>
    ELSE IF j = 1 THEN << <<a>> >>
    ELSE IF j <= Len(name) + 2 THEN << <<a>>, SubSeq(name, 1, j - 2) >>
    ELSE << <<a>>, name, <<>> >>

\* The cases of Columns3.
LEMMA Columns3Cases ==
    ASSUME NEW T, NEW a, NEW name \in Seq(T)
    PROVE  /\ Columns3(a, name, 0) = << <<>> >>
           /\ Columns3(a, name, 1) = << <<a>> >>
           /\ Columns3(a, name, 2) = << <<a>>, <<>> >>
           /\ Columns3(a, name, Len(name) + 2) = << <<a>>, name >>
           /\ Columns3(a, name, Len(name) + 3) = << <<a>>, name, <<>> >>
  <1> DEFINE n == Len(name)
             C(j) == Columns3(a, name, j)
  <1>1. n \in Nat
    OBVIOUS
  <1>2. C(0) = << <<>> >> /\ C(1) = << <<a>> >> /\ C(n + 3) = << <<a>>, name, <<>> >>
    BY <1>1 DEF Columns3
  <1>3. ASSUME NEW i \in 0 .. n PROVE C(i + 2) = << <<a>>, SubSeq(name, 1, i) >>
    <2>1. i + 2 # 0 /\ i + 2 # 1 /\ i + 2 <= n + 2 /\ (i + 2) - 2 = i
      BY <1>1
    <2> QED BY <2>1 DEF Columns3
  <1>4. SubSeq(name, 1, 0) = <<>> /\ 0 \in 0 .. n /\ 0 + 2 = 2 /\ n \in 0 .. n /\ SubSeq(name, 1, n) = name
    BY <1>1
  <1>5. C(2) = << <<a>>, <<>> >> /\ C(n + 2) = << <<a>>, name >>
    BY <1>3, <1>4
  <1> QED BY <1>1, <1>2, <1>3, <1>5

\* The first words are sequences of sequences.
LEMMA WordTypes ==
    ASSUME NEW T, NEW a \in T, NEW name \in Seq(T)
    PROVE  /\ <<>> \in Seq(T) /\ <<a>> \in Seq(T) /\ <<>> \in Seq(Seq(T))
           /\ << <<a>> >> \in Seq(Seq(T)) /\ << <<a>>, name >> \in Seq(Seq(T))
  <1>1. ASSUME NEW U, NEW x \in U, NEW y \in U
        PROVE  <<>> \in Seq(U) /\ <<x>> \in Seq(U) /\ <<x, y>> \in Seq(U)
    OBVIOUS
  <1>2. <<>> \in Seq(T) /\ <<a>> \in Seq(T)
    BY <1>1, Zenon
  <1> QED BY <1>1, <1>2, Zenon

\* The columns, one character after the other.
LEMMA Line3Read ==
    ASSUME NEW T, Spoken(T), NEW a \in T, NEW name \in Seq(T), NEW k,
           NEW t, Len(t) \in Nat, NEW m \in 0 .. Len(t), m <= Len(name) + 3,
           Begins3(t, m, a, name, k)
    PROVE  \A j \in 0 .. m : LineStates(t)[j] = Plain(Columns3(a, name, j))
  <1> DEFINE n == Len(name)
             L == LineStates(t)
             C(j) == Columns3(a, name, j)
             S == {j \in Nat : j <= m /\ L[j] # Plain(C(j))}
  <1>1. n \in Nat /\ m \in Nat /\ m <= n + 3
    OBVIOUS
  <1>2. /\ L[0] = LineBegins
        /\ \A j \in 1 .. m : L[j] = CharRead(L[j - 1], t[j])
    <2>1. \A j \in 1 .. m : j \in 1 .. Len(t)
      OBVIOUS
    <2> QED BY <2>1, LineStep
  <1> HIDE DEF L
  <1>3. /\ C(0) = << <<>> >> /\ C(1) = << <<a>> >> /\ C(2) = << <<a>>, <<>> >>
        /\ \A i \in 0 .. n : C(i + 2) = << <<a>>, SubSeq(name, 1, i) >>
        /\ C(n + 2) = << <<a>>, name >>
        /\ C(n + 3) = << <<a>>, name, <<>> >>
    <2>1. C(0) = << <<>> >> /\ C(1) = << <<a>> >>
      BY Columns3Cases
    <2>2. C(2) = << <<a>>, <<>> >>
      BY Columns3Cases
    <2>3. ASSUME NEW i \in 0 .. n PROVE C(i + 2) = << <<a>>, SubSeq(name, 1, i) >>
      <3>1. i + 2 # 0 /\ i + 2 # 1 /\ i + 2 <= n + 2 /\ (i + 2) - 2 = i
        BY <1>1
      <3> QED BY <3>1 DEF Columns3
    <2>4. C(n + 2) = << <<a>>, name >> /\ C(n + 3) = << <<a>>, name, <<>> >>
      BY Columns3Cases
    <2> QED BY <2>1, <2>2, <2>3, <2>4, Zenon
  <1> HIDE DEF C
  <1>4. /\ <<>> \in Seq(T) /\ <<a>> \in Seq(T) /\ <<>> \in Seq(Seq(T))
        /\ << <<a>> >> \in Seq(Seq(T)) /\ << <<a>>, name >> \in Seq(Seq(T))
    BY WordTypes, Zenon
  <1>5. L[0] = Plain(C(0))
    BY <1>2, <1>3, Zenon DEF LineBegins, Plain
  <1>6. ASSUME 1 \in 1 .. m PROVE L[1] = Plain(C(1))
    <2>1. t[1] = a
      BY <1>6 DEF Begins3
    <2>2. L[1] = CharRead(L[0], a)
      <3>1. 1 - 1 = 0
        OBVIOUS
      <3> QED BY <1>2, <1>6, <2>1, <3>1
    <2>3. << <<>> >> = Append(<<>>, <<>>)
      OBVIOUS
    <2>4. L[1] = CharRead(Plain(Append(<<>>, <<>>)), a)
      BY <1>3, <1>5, <2>2, <2>3, Zenon
    <2>5. L[1] = Plain(Append(<<>>, Append(<<>>, a)))
      BY <1>4, <2>4, PlainWord, Zenon
    <2>6. Append(<<>>, Append(<<>>, a)) = << <<a>> >>
      <3>1. ASSUME NEW x PROVE Append(<<>>, x) = <<x>>
        OBVIOUS
      <3> QED BY <3>1, Zenon
    <2> QED BY <1>3, <2>5, <2>6, Zenon
  <1>7. ASSUME 2 \in 1 .. m, L[1] = Plain(C(1)) PROVE L[2] = Plain(C(2))
    <2>1. t[2] = Separator
      BY <1>7 DEF Begins3
    <2>2. L[2] = CharRead(L[1], Separator)
      <3>1. 2 - 1 = 1
        OBVIOUS
      <3> QED BY <1>2, <1>7, <2>1, <3>1
    <2>3. L[2] = Plain(Append(<< <<a>> >>, <<>>))
      BY <1>3, <1>7, <2>2, PlainSeparator, Zenon
    <2> QED BY <1>3, <2>3, Pair, Zenon
  <1>8. ASSUME NEW i \in 1 .. n, i + 2 \in 1 .. m, L[i + 1] = Plain(C(i + 1))
        PROVE  L[i + 2] = Plain(C(i + 2))
    <2> DEFINE w == SubSeq(name, 1, i - 1)
    <2>1. /\ (i + 2) - 1 = i + 1 /\ name[i] \in T /\ (i + 2) - 2 = i
          /\ i - 1 \in 0 .. n /\ (i - 1) + 2 = i + 1 /\ i \in 0 .. n
          /\ i + 2 \in 3 .. n + 2
      BY <1>1
    <2>2. t[i + 2] = name[i]
      BY <1>8, <2>1 DEF Begins3
    <2>3. L[i + 2] = CharRead(L[i + 1], name[i])
      BY <1>2, <1>8, <2>1, <2>2
    <2>4. L[i + 1] = Plain(<< <<a>>, w >>)
      BY <1>3, <1>8, <2>1
    <2>5. w \in Seq(T) /\ Append(w, name[i]) = SubSeq(name, 1, i)
      BY BeginningGrows
    <2> HIDE DEF w
    <2>6. L[i + 1] = Plain(Append(<< <<a>> >>, w))
      BY <2>4, Pair, Zenon
    <2>7. L[i + 2] = Plain(Append(<< <<a>> >>, Append(w, name[i])))
      <3> DEFINE u == << <<a>> >>
      <3>1. u \in Seq(Seq(T)) /\ name[i] \in T
        BY <1>4, <2>1, Zenon
      <3> HIDE DEF u
      <3>2. CharRead(Plain(Append(u, w)), name[i]) = Plain(Append(u, Append(w, name[i])))
        BY <2>5, <3>1, PlainWord
      <3> QED BY <2>3, <2>6, <3>2, Zenon DEF u
    <2>8. C(i + 2) = << <<a>>, SubSeq(name, 1, i) >>
      BY <1>3, <2>1
    <2> QED BY <2>5, <2>7, <2>8, Pair, Zenon
  <1>9. ASSUME n + 3 \in 1 .. m, L[n + 2] = Plain(C(n + 2)) PROVE L[n + 3] = Plain(C(n + 3))
    <2>1. (n + 3) - 1 = n + 2
      BY <1>1
    <2>2. t[n + 3] = Separator
      BY <1>9 DEF Begins3
    <2>3. L[n + 3] = CharRead(L[n + 2], Separator)
      BY <1>2, <1>9, <2>1, <2>2
    <2>4. L[n + 3] = Plain(Append(<< <<a>>, name >>, <<>>))
      BY <1>3, <1>9, <2>3, PlainSeparator, Zenon
    <2> QED BY <1>3, <2>4, Triple, Zenon
  <1>10. ASSUME S # {} PROVE FALSE
    <2>1. PICK j \in S : \A i \in S : j <= i
      <3> S \subseteq Nat
        OBVIOUS
      <3> HIDE DEF S
      <3> QED BY <1>10, LeastNumber
    <2>2. j \in Nat /\ j <= m /\ L[j] # Plain(C(j))
      BY <2>1
    <2>3. j # 0 /\ j \in 1 .. m
      BY <1>1, <1>5, <2>2
    <2>4. j - 1 \in Nat /\ j - 1 <= m /\ j - 1 \notin S
      BY <1>1, <2>1, <2>2, <2>3
    <2>5. L[j - 1] = Plain(C(j - 1))
      BY <2>4
    <2>6. j # 1
      BY <1>6, <2>2, <2>3
    <2>7. j # 2
      <3>1. 2 - 1 = 1
        OBVIOUS
      <3> QED BY <1>7, <2>2, <2>3, <2>5, <3>1
    <2>8. CASE j = n + 3
      <3>1. j - 1 = n + 2
        BY <1>1, <2>8
      <3> QED BY <1>9, <2>2, <2>3, <2>5, <2>8, <3>1
    <2>9. CASE j # n + 3
      <3> DEFINE i == j - 2
      <3>1. i \in 1 .. n /\ i + 2 = j /\ i + 1 = j - 1
        BY <1>1, <2>2, <2>3, <2>6, <2>7, <2>9
      <3> HIDE DEF i
      <3> QED BY <1>8, <2>2, <2>3, <2>5, <3>1
    <2> QED BY <2>8, <2>9
  <1>11. \A j \in 0 .. m : L[j] = Plain(C(j))
    BY <1>1, <1>10
  <1> QED BY <1>11 DEF L, C

\* The end of a line outside of quotes.
LEMMA PlainEnds ==
    ASSUME NEW ws
    PROVE  LineEnds(Plain(ws)) = Returns(IF ws = << <<>> >> THEN Front(ws) ELSE ws)
  <1> DEFINE s == Plain(ws)
  <1>1. s.words = ws /\ s.quote = FALSE /\ s.threw = FALSE /\ s.closing = FALSE
    BY DEF Plain
  <1> HIDE DEF s
  <1>2. LineEnds(s) = Returns(IF ws = << <<>> >> THEN Front(ws) ELSE ws)
    BY <1>1, Zenon DEF LineEnds
  <1> QED BY <1>2 DEF s

\* A whole line has three columns.
LEMMA Line3Columns ==
    ASSUME NEW T, Spoken(T), NEW a \in T, NEW name \in Seq(T), NEW k \in T,
           NEW t, Len(t) = Len(name) + 4, Begins3(t, Len(t), a, name, k)
    PROVE  parse_line(t) = Returns(<< <<a>>, name, <<k>> >>)
  <1> DEFINE n == Len(name)
             L == LineStates(t)
             ws == << <<a>>, name, <<k>> >>
  <1>1. /\ n \in Nat /\ Len(t) = n + 4 /\ n + 3 \in 0 .. Len(t) /\ n + 3 <= n + 3
        /\ n + 4 \in 1 .. n + 4 /\ (n + 4) - 1 = n + 3 /\ n + 3 \in 0 .. n + 3
    OBVIOUS
  <1>2. Begins3(t, n + 3, a, name, k) /\ t[n + 4] = k
    BY <1>1 DEF Begins3
  <1>3. L[n + 3] = Plain(Columns3(a, name, n + 3))
    <2>1. \A j \in 0 .. n + 3 : L[j] = Plain(Columns3(a, name, j))
      <3> DEFINE m == n + 3
      <3>1. m \in 0 .. Len(t) /\ m <= Len(name) + 3 /\ Begins3(t, m, a, name, k) /\ Len(t) \in Nat
        BY <1>1, <1>2
      <3> HIDE DEF m
      <3>2. \A j \in 0 .. m : L[j] = Plain(Columns3(a, name, j))
        BY <3>1, Line3Read
      <3> QED BY <3>2 DEF m
    <2> QED BY <1>1, <2>1
  <1>4. L[n + 4] = CharRead(L[n + 3], k)
    BY <1>1, <1>2, LineStep
  <1> HIDE DEF L
  <1>5. Columns3(a, name, n + 3) = << <<a>>, name, <<>> >>
    BY Columns3Cases
  <1>6. L[n + 4] = CharRead(Plain(Append(<< <<a>>, name >>, <<>>)), k)
    BY <1>3, <1>4, <1>5, Triple, Zenon
  <1>7. L[n + 4] = Plain(Append(<< <<a>>, name >>, Append(<<>>, k)))
    <2> DEFINE u == << <<a>>, name >>
    <2>1. u \in Seq(Seq(T)) /\ <<>> \in Seq(T)
      BY WordTypes, Zenon
    <2> HIDE DEF u
    <2>2. CharRead(Plain(Append(u, <<>>)), k) = Plain(Append(u, Append(<<>>, k)))
      BY <2>1, PlainWord
    <2> QED BY <1>6, <2>2, Zenon DEF u
  <1>8. Append(<<>>, k) = <<k>>
    OBVIOUS
  <1>9. L[n + 4] = Plain(ws)
    BY <1>7, <1>8, Triple, Zenon
  <1>10. ws # << <<>> >>
    OBVIOUS
  <1> HIDE DEF ws
  <1>11. parse_line(t) = LineEnds(Plain(ws))
    BY <1>1, <1>9 DEF parse_line, L
  <1> QED BY <1>10, <1>11, PlainEnds, Zenon DEF ws

\* A sequence over a set is one over a larger set.
LEMMA SeqGrows ==
    ASSUME NEW S, NEW T, S \subseteq T, NEW s \in Seq(S)
    PROVE  s \in Seq(T)
  OBVIOUS

\* The characters of a line.
LEMMA Line3Begins ==
    ASSUME NEW T, NEW a \in T, NEW name \in Seq(T), NEW k \in T
    PROVE  /\ Line3(a, name, k) \in Seq(T \cup {Separator})
           /\ Len(Line3(a, name, k)) = Len(name) + 4
           /\ Begins3(Line3(a, name, k), Len(name) + 4, a, name, k)
  <1> DEFINE U == T \cup {Separator}
             t == <<a, Separator>> \o name \o <<Separator, k>>
             n == Len(name)
  <1>1. T \subseteq U /\ a \in U /\ k \in U /\ Separator \in U
    OBVIOUS
  <1> HIDE DEF U
  <1>2. name \in Seq(U)
    BY <1>1, SeqGrows, Zenon
  <1>3. /\ t \in Seq(U) /\ Len(t) = n + 4 /\ n \in Nat
        /\ t[1] = a /\ t[2] = Separator /\ t[n + 3] = Separator /\ t[n + 4] = k
        /\ \A i \in 1 .. n : t[i + 2] = name[i]
    BY <1>1, <1>2
  <1>4. t = Line3(a, name, k)
    BY DEF Line3
  <1> HIDE DEF t
  <1>5. ASSUME NEW i \in 3 .. n + 2 PROVE t[i] = name[i - 2]
    <2>1. i - 2 \in 1 .. n /\ (i - 2) + 2 = i
      BY <1>3
    <2> QED BY <1>3, <2>1
  <1>6. Begins3(t, n + 4, a, name, k)
    BY <1>3, <1>5 DEF Begins3
  <1> QED BY <1>3, <1>6, <1>4 DEF U

\* The column that is read, behind those that have been.
LEMMA Columns3Split ==
    ASSUME NEW T, NEW a \in T, NEW name \in Seq(T), NEW j \in 0 .. Len(name) + 3
    PROVE  \E ws \in Seq(Seq(T)), w \in Seq(T) :
              /\ Columns3(a, name, j) = Append(ws, w)
              /\ Len(ws) = 2 => w = <<>>
              /\ Len(ws) <= 2
  <1>1. /\ <<>> \in Seq(T) /\ <<a>> \in Seq(T) /\ <<>> \in Seq(Seq(T))
        /\ << <<a>> >> \in Seq(Seq(T)) /\ << <<a>>, name >> \in Seq(Seq(T))
    BY WordTypes, Zenon
  <1>2. ASSUME NEW x, NEW y
        PROVE  /\ Append(<<>>, x) = <<x>>
               /\ Len(<<>>) # 2 /\ Len(<<x>>) # 2
               /\ Len(<<>>) <= 2 /\ Len(<<x>>) <= 2 /\ Len(<<x, y>>) <= 2
    OBVIOUS
  <1>3. CASE j = 0
    <2>1. Columns3(a, name, j) = Append(<<>>, <<>>)
      BY <1>2, <1>3, Zenon DEF Columns3
    <2> QED BY <1>1, <1>2, <2>1, Zenon
  <1>4. CASE j = 1
    <2>1. Columns3(a, name, j) = << <<a>> >>
      BY <1>4 DEF Columns3
    <2>2. Columns3(a, name, j) = Append(<<>>, <<a>>)
      BY <1>2, <2>1, Zenon
    <2> QED BY <1>1, <1>2, <2>2, Zenon
  <1>5. CASE j \in 2 .. Len(name) + 2
    <2> DEFINE w == SubSeq(name, 1, j - 2)
               u == << <<a>> >>
    <2>1. Columns3(a, name, j) = << <<a>>, w >>
      BY <1>5 DEF Columns3
    <2>2. w \in Seq(T)
      BY <1>5
    <2> HIDE DEF w
    <2>3. Columns3(a, name, j) = Append(u, w) /\ Len(u) # 2 /\ Len(u) <= 2 /\ u \in Seq(Seq(T))
      BY <1>1, <1>2, <2>1, Pair, Zenon
    <2> HIDE DEF u
    <2> QED BY <2>2, <2>3, Zenon
  <1>6. CASE j = Len(name) + 3
    <2> DEFINE u == << <<a>>, name >>
    <2>1. Columns3(a, name, j) = << <<a>>, name, <<>> >>
      BY <1>6, Columns3Cases
    <2>2. Columns3(a, name, j) = Append(u, <<>>) /\ Len(u) <= 2 /\ u \in Seq(Seq(T))
      BY <1>1, <1>2, <2>1, Triple, Zenon
    <2> HIDE DEF u
    <2> QED BY <1>1, <2>2, Zenon
  <1>7. Len(name) \in Nat
    OBVIOUS
  <1> QED BY <1>3, <1>4, <1>5, <1>6, <1>7

\* A line that is cut off has not the three columns, or the last is not a key.
Torn(c) == Len(c) # 3 \/ c[3] \in {<<>>, <<"cut">>}

\* Of every line that is cut off.
LEMMA TornLine ==
    ASSUME NEW T, Spoken(T), "cut" \in T, NEW a \in T, NEW name \in Seq(T), NEW k \in T,
           NEW part \in Parts(Line3(a, name, k))
    PROVE  \E c : parse_line(part) = Returns(c) /\ Torn(c)
  <1> DEFINE t == Line3(a, name, k)
             U == T \cup {Separator}
             n == Len(name)
             L == LineStates(part)
  <1>1. t \in Seq(U) /\ Len(t) = n + 4 /\ Begins3(t, n + 4, a, name, k) /\ n \in Nat
    BY Line3Begins
  <1>2. PICK j \in 0 .. Len(t) - 1 : part \in {SubSeq(t, 1, j), Append(SubSeq(t, 1, j), "cut")}
    <2>1. part \in Parts(t)
      OBVIOUS
    <2> HIDE DEF t
    <2> QED BY <2>1, Zenon DEF Parts
  <1> HIDE DEF t
  <1>3. "cut" \in U /\ j \in 0 .. n + 3 /\ j \in Nat /\ j <= n + 3
    BY <1>1, <1>2
  <1> HIDE DEF U
  <1> DEFINE h == SubSeq(t, 1, j)
  <1>4. h \in Seq(U) /\ Len(h) = j /\ \A i \in 1 .. j : h[i] = t[i]
    BY <1>1, <1>3
  <1> HIDE DEF h
  <1>5. /\ part = h => Len(part) = j
        /\ part # h => Len(part) = j + 1 /\ part[j + 1] = "cut"
        /\ \A i \in 1 .. j : part[i] = t[i]
    <2>1. CASE part = h
      BY <1>4, <2>1
    <2>2. CASE part # h
      <3>1. part = Append(h, "cut")
        BY <1>2, <2>2 DEF h
      <3>2. Len(part) = j + 1 /\ part[j + 1] = "cut" /\ \A i \in 1 .. j : part[i] = h[i]
        BY <1>3, <1>4, <3>1
      <3> QED BY <1>4, <2>2, <3>2
    <2> QED BY <2>1, <2>2
  <1>6. Len(part) \in Nat /\ j \in 0 .. Len(part)
    BY <1>3, <1>5
  <1>7. Begins3(part, j, a, name, k)
    BY <1>1, <1>3, <1>5 DEF Begins3
  <1>8. L[j] = Plain(Columns3(a, name, j))
    <2>1. \A i \in 0 .. j : L[i] = Plain(Columns3(a, name, i))
      BY <1>3, <1>6, <1>7, Line3Read
    <2> QED BY <1>3, <2>1
  <1>9. PICK ws \in Seq(Seq(T)), w \in Seq(T) :
              /\ Columns3(a, name, j) = Append(ws, w)
              /\ Len(ws) = 2 => w = <<>>
              /\ Len(ws) <= 2
    BY <1>3, Columns3Split
  <1>10. ASSUME NEW x PROVE Len(Append(ws, x)) = Len(ws) + 1 /\ Append(ws, x)[Len(ws) + 1] = x
    OBVIOUS
  <1>11. Len(ws) \in Nat
    OBVIOUS
  <1>12. ASSUME NEW v, NEW x, Len(v) = Len(ws) + 1, v[Len(ws) + 1] = x,
                Len(ws) = 2 => x \in {<<>>, <<"cut">>}
         PROVE  Torn(v)
    <2>1. CASE Len(ws) = 2
      <3>1. v[3] = x
        BY <1>12, <2>1
      <3> QED BY <1>12, <2>1, <3>1, Zenon DEF Torn
    <2>2. CASE Len(ws) # 2
      <3>1. ASSUME NEW p \in Nat, p # 2 PROVE p + 1 # 3
        BY <3>1
      <3>2. Len(v) # 3
        BY <1>11, <1>12, <2>2, <3>1, Zenon
      <3> QED BY <3>2 DEF Torn
    <2> QED BY <2>1, <2>2
  <1>13. CASE part = h
    <2> DEFINE v == Append(ws, w)
               c == IF v = << <<>> >> THEN Front(v) ELSE v
    <2>1. parse_line(part) = LineEnds(Plain(v))
      BY <1>3, <1>5, <1>8, <1>9, <1>13 DEF parse_line
    <2> HIDE DEF v
    <2>2. parse_line(part) = Returns(c)
      BY <2>1, PlainEnds
    <2>3. CASE v = << <<>> >>
      <3>1. Len(c) = 0
        BY <2>3 DEF Front
      <3> QED BY <2>2, <3>1 DEF Torn
    <2>4. CASE v # << <<>> >>
      <3>1. c = v
        BY <2>4
      <3>2. Len(v) = Len(ws) + 1 /\ v[Len(ws) + 1] = w
        BY <1>10 DEF v
      <3>3. Torn(v)
        BY <1>9, <1>11, <1>12, <3>2
      <3> QED BY <2>2, <3>1, <3>3
    <2> QED BY <2>3, <2>4
  <1>14. CASE part # h
    <2> DEFINE x == Append(w, "cut")
               v == Append(ws, x)
    <2>1. Len(part) = j + 1 /\ part[j + 1] = "cut" /\ j + 1 \in 1 .. Len(part) /\ (j + 1) - 1 = j
      BY <1>3, <1>5, <1>14
    <2>2. L[j + 1] = CharRead(L[j], "cut")
      BY <1>6, <2>1, LineStep
    <2> HIDE DEF L
    <2>3. L[j + 1] = Plain(v)
      <3>1. CharRead(Plain(Append(ws, w)), "cut") = Plain(v)
        BY PlainWord
      <3> QED BY <1>8, <1>9, <2>2, <3>1, Zenon
    <2>4. x # <<>> /\ (w = <<>> => x = <<"cut">>)
      <3>1. ASSUME NEW y PROVE Append(<<>>, y) = <<y>>
        OBVIOUS
      <3>2. x # <<>>
        BY AppendProperties, Zenon
      <3> QED BY <3>1, <3>2, Zenon
    <2> HIDE DEF x
    <2>5. Len(v) = Len(ws) + 1 /\ v[Len(ws) + 1] = x
      BY <1>10
    <2>6. v # << <<>> >>
      <3>1. << <<>> >>[1] = <<>> /\ Len(<< <<>> >>) = 1
        OBVIOUS
      <3> HIDE DEF v
      <3> QED BY <1>11, <2>4, <2>5, <3>1
    <2> HIDE DEF v
    <2>7. parse_line(part) = LineEnds(Plain(v))
      BY <2>1, <2>3 DEF parse_line, L
    <2>8. parse_line(part) = Returns(v)
      BY <2>6, <2>7, PlainEnds
    <2>9. Torn(v)
      BY <1>9, <1>12, <2>4, <2>5
    <2> QED BY <2>8, <2>9
  <1> QED BY <1>13, <1>14

-----------------------------------------------------------------------------
(***************************************************************************)
(* The titles of a saved list and its rows.                                *)
(***************************************************************************)
TitleLine == <<"Resolver address", Separator, "Provider name", Separator, "Provider public key">>

SavedTitles == << <<"Resolver address">>, <<"Provider name">>, <<"Provider public key">> >>

\* A line of five tokens.
LEMMA FiveCharacters ==
    ASSUME NEW a, NEW name, NEW k, NEW t, Len(name) = 1, Len(t) = 5,
           t[1] = a, t[2] = Separator, t[3] = name[1], t[4] = Separator, t[5] = k
    PROVE  Begins3(t, Len(t), a, name, k)
  <1>1. Len(name) + 3 = 4 /\ Len(name) + 2 = 3 /\ Len(name) + 4 = 5
    OBVIOUS
  <1>2. ASSUME NEW i \in 1 .. 5
        PROVE  /\ i = 1 => t[i] = a
               /\ i = 2 \/ i = 4 => t[i] = Separator
               /\ i \in 3 .. 3 => t[i] = name[i - 2]
               /\ i = 5 => t[i] = k
    <2>1. i \in 3 .. 3 => i = 3 /\ i - 2 = 1
      OBVIOUS
    <2> QED BY <2>1, Zenon
  <1> QED BY <1>1, <1>2, Zenon DEF Begins3

\* The titles are read.
LEMMA TitlesRead == parse_line(TitleLine) = Returns(SavedTitles)
  <1> DEFINE T == Titles
             a == "Resolver address"
             name == <<"Provider name">>
             k == "Provider public key"
             t == TitleLine
  <1>1. Spoken(T)
    BY DEF Titles, Spoken, Separator, Quote, Return
  <1>2. a \in T /\ k \in T /\ "Provider name" \in T
    BY DEF Titles
  <1>3. ASSUME NEW U, NEW x \in U PROVE <<x>> \in Seq(U) /\ Len(<<x>>) = 1 /\ <<x>>[1] = x
    OBVIOUS
  <1>4. name \in Seq(T) /\ Len(name) = 1 /\ name[1] = "Provider name"
    BY <1>2, <1>3, Zenon
  <1>5. ASSUME NEW x, NEW y, NEW z, NEW s
        PROVE  LET u == <<x, s, y, s, z>>
               IN  Len(u) = 5 /\ u[1] = x /\ u[2] = s /\ u[3] = y /\ u[4] = s /\ u[5] = z
    OBVIOUS
  <1>6. /\ Len(t) = 5 /\ t[1] = a /\ t[2] = Separator /\ t[3] = "Provider name"
        /\ t[4] = Separator /\ t[5] = k
    BY <1>5, Zenon DEF TitleLine
  <1>7. Len(t) = Len(name) + 4
    <2>1. 1 + 4 = 5
      OBVIOUS
    <2> QED BY <1>4, <1>6, <2>1, Zenon
  <1>8. Begins3(t, Len(t), a, name, k)
    BY <1>4, <1>6, FiveCharacters, Zenon
  <1> HIDE DEF a, k, t, name, T
  <1>9. parse_line(t) = Returns(<< <<a>>, name, <<k>> >>)
    BY <1>1, <1>2, <1>4, <1>7, <1>8, Line3Columns
  <1> QED BY <1>9, Zenon DEF a, k, t, name, SavedTitles

\* A title is found in its column.
LEMMA TitleFound ==
    ASSUME NEW x, NEW y, NEW z, x # y, x # z, y # z
    PROVE  /\ find_col(<< <<x>>, <<y>>, <<z>> >>, x) = 1
           /\ find_col(<< <<x>>, <<y>>, <<z>> >>, y) = 2
           /\ find_col(<< <<x>>, <<y>>, <<z>> >>, z) = 3
  <1> DEFINE h == << <<x>>, <<y>>, <<z>> >>
  <1>1. ASSUME NEW u, NEW v, u # v PROVE <<u>> # <<v>>
    <2>1. <<u>>[1] = u /\ <<v>>[1] = v
      OBVIOUS
    <2> QED BY <1>1, <2>1, Zenon
  <1>2. DOMAIN h = 1 .. 3 /\ h[1] = <<x>> /\ h[2] = <<y>> /\ h[3] = <<z>>
    OBVIOUS
  <1>3. <<x>> # <<y>> /\ <<x>> # <<z>> /\ <<y>> # <<z>>
    BY <1>1, Zenon
  <1> HIDE DEF h
  <1>4. ASSUME NEW n \in 1 .. 3, NEW u, h[n] = <<u>>, \A i \in 1 .. 3 : i # n => h[i] # <<u>>
        PROVE  find_col(h, u) = n
    <2> DEFINE C == {i \in DOMAIN h : h[i] = <<u>>}
    <2>1. C = {n}
      BY <1>2, <1>4
    <2>2. find_col(h, u) = CHOOSE i \in C : \A j \in C : i <= j
      BY <2>1, Zenon DEF find_col
    <2> HIDE DEF C
    <2>3. n <= n
      OBVIOUS
    <2> QED BY <2>1, <2>2, <2>3, Zenon
  <1>5. \A i \in 1 .. 3 : i = 1 \/ i = 2 \/ i = 3
    OBVIOUS
  <1>6. 1 \in 1 .. 3 /\ 2 \in 1 .. 3 /\ 3 \in 1 .. 3
    OBVIOUS
  <1>7. find_col(h, x) = 1
    BY <1>2, <1>3, <1>4, <1>5, <1>6, Zenon
  <1>8. find_col(h, y) = 2
    BY <1>2, <1>3, <1>4, <1>5, <1>6, Zenon
  <1>9. find_col(h, z) = 3
    BY <1>2, <1>3, <1>4, <1>5, <1>6, Zenon
  <1> QED BY <1>7, <1>8, <1>9 DEF h

\* parse_resolver behind these titles.
LEMMA SavedResolver ==
    ASSUME NEW c
    PROVE  /\ (c[2] = <<>> \/ ~IsAddress(c[1]) \/ Len(c[3]) # 1 \/ c[3][1] \notin KeyTexts)
                => parse_resolver(SavedTitles, c) = Throws
           /\ (c[2] # <<>> /\ IsAddress(c[1]) /\ Len(c[3]) = 1 /\ c[3][1] \in KeyTexts)
                => parse_resolver(SavedTitles, c)
                     = Returns([address |-> address(c[1], CryptPort), name |-> c[2], key |-> c[3][1]])
  <1>1. /\ find_col(SavedTitles, "Resolver address") = 1
        /\ find_col(SavedTitles, "Provider name") = 2
        /\ find_col(SavedTitles, "Provider public key") = 3
    <2>1. /\ "Resolver address" # "Provider name"
          /\ "Resolver address" # "Provider public key"
          /\ "Provider name" # "Provider public key"
      OBVIOUS
    <2>2. ASSUME NEW x, NEW y, NEW z, x # y, x # z, y # z, SavedTitles = << <<x>>, <<y>>, <<z>> >>
          PROVE  find_col(SavedTitles, x) = 1 /\ find_col(SavedTitles, y) = 2
                 /\ find_col(SavedTitles, z) = 3
      BY <2>2, TitleFound
    <2> QED BY <2>1, <2>2, Zenon DEF SavedTitles
  <1>2. /\ Column(SavedTitles, c, "Resolver address") = c[1]
        /\ Column(SavedTitles, c, "Provider name") = c[2]
        /\ Column(SavedTitles, c, "Provider public key") = c[3]
    <2>1. ASSUME NEW title, NEW n, find_col(SavedTitles, title) = n, n # 0
          PROVE  Column(SavedTitles, c, title) = c[n]
      BY <2>1, Zenon DEF Column
    <2>2. 1 # 0 /\ 2 # 0 /\ 3 # 0
      OBVIOUS
    <2> QED BY <1>1, <2>1, <2>2, Zenon
  <1> QED BY <1>2, Zenon DEF parse_resolver

-----------------------------------------------------------------------------
(***************************************************************************)
(* The rows of a saved list, and what is left of them.                     *)
(***************************************************************************)

\* What can be saved: the rows of resolvers that have been asked.
SavedRow == {r \in Row : r.name \in Askable}

RowLine(r) == Line3(Printed(r.address), r.name, r.key)

\* An address is printed so that it is read again.
LEMMA PrintedAddress ==
    ASSUME NEW x \in Addresses
    PROVE  /\ Printed(x) \in DOMAIN AddressParts
           /\ address(<<Printed(x)>>, CryptPort) = x
  <1> DEFINE w == Printed(x)
  <1>1. w \in DOMAIN AddressParts /\ AddressParts[w] = x
    BY ProvidersAssumption, Zenon DEF Printed
  <1>2. PICK v \in DOMAIN AddressParts : x = address(<<v>>, CryptPort)
    BY DEF Addresses
  <1>3. /\ AddressParts[v] \in [ip : STRING, port : Nat \cup {NoPort}]
        /\ x \in [ip : STRING, port : Nat \cup {NoPort}]
    BY <1>1, ProvidersAssumption
  <1>4. x.port # NoPort
    <2> DEFINE p == AddressParts[v]
    <2>1. x = [p EXCEPT !.port = IF p.port = NoPort THEN CryptPort ELSE p.port]
      <3>1. <<v>>[1] = v
        OBVIOUS
      <3> QED BY <1>2, <3>1 DEF address
    <2> HIDE DEF p
    <2>2. p \in [ip : STRING, port : Nat \cup {NoPort}]
      BY <1>3 DEF p
    <2>3. x.port = IF p.port = NoPort THEN CryptPort ELSE p.port
      BY <2>1, <2>2
    <2> QED BY <2>3 DEF NoPort, CryptPort
  <1> HIDE DEF w
  <1>5. address(<<w>>, CryptPort) = [x EXCEPT !.port = IF x.port = NoPort THEN CryptPort ELSE x.port]
    <2>1. <<w>>[1] = w
      OBVIOUS
    <2> QED BY <1>1, <2>1 DEF address
  <1>6. [x EXCEPT !.port = x.port] = x
    BY <1>3
  <1>7. address(<<w>>, CryptPort) = x
    BY <1>4, <1>5, <1>6
  <1> QED BY <1>1, <1>7 DEF w

\* The tokens of a row.
RowTokens == Words \cup {"cut"}

\* They mean nothing to parse_line.
LEMMA RowTokensSpoken == Spoken(RowTokens) /\ "cut" \in RowTokens /\ Words \subseteq RowTokens
  <1>1. Spoken(Words)
    BY DEF Spoken, Words
  <1>2. "cut" # Separator /\ "cut" # Quote /\ "cut" # Return
    BY DEF Separator, Quote, Return
  <1> QED BY <1>1, <1>2, Zenon DEF Spoken, RowTokens

\* The fields of a row are made of them.
LEMMA RowTypes ==
    ASSUME NEW r \in SavedRow
    PROVE  /\ r.address \in Addresses /\ r.key \in KeyTexts
           /\ Printed(r.address) \in RowTokens /\ r.key \in RowTokens
           /\ r.name \in Seq(RowTokens) /\ r.name # <<>>
           /\ r = [address |-> r.address, name |-> r.name, key |-> r.key]
  <1>1. r \in Row /\ r.name \in Askable
    BY DEF SavedRow
  <1>2. /\ r.address \in Addresses /\ r.key \in KeyTexts
        /\ r = [address |-> r.address, name |-> r.name, key |-> r.key]
    BY <1>1 DEF Row
  <1>3. Printed(r.address) \in Words /\ r.key \in Words
    BY <1>2, PrintedAddress, ProvidersAssumption, Zenon
  <1>4. r.name \in Seq(Words) /\ r.name # <<>>
    BY <1>1, ProvidersAssumption, Zenon
  <1>5. r.name \in Seq(RowTokens)
    BY <1>4, RowTokensSpoken, SeqGrows, Zenon
  <1> QED BY <1>2, <1>3, <1>4, <1>5, RowTokensSpoken, Zenon

\* A whole line gives its row.
LEMMA RowLineRead ==
    ASSUME NEW r \in SavedRow, NEW v
    PROVE  RowRead(SavedTitles, Returns(v), RowLine(r)) = Returns(Append(v, r))
  <1> DEFINE a == Printed(r.address)
             c == << <<a>>, r.name, <<r.key>> >>
             t == RowLine(r)
  <1>1. /\ r.address \in Addresses /\ r.key \in KeyTexts
        /\ a \in RowTokens /\ r.key \in RowTokens
        /\ r.name \in Seq(RowTokens) /\ r.name # <<>>
        /\ r = [address |-> r.address, name |-> r.name, key |-> r.key]
    BY RowTypes
  <1>2. a \in DOMAIN AddressParts /\ address(<<a>>, CryptPort) = r.address
    BY <1>1, PrintedAddress
  <1> HIDE DEF a
  <1>3. Len(t) = Len(r.name) + 4 /\ Begins3(t, Len(r.name) + 4, a, r.name, r.key)
    BY <1>1, Line3Begins, Zenon DEF RowLine, a
  <1> HIDE DEF t
  <1>4. parse_line(t) = Returns(c)
    <2>1. Begins3(t, Len(t), a, r.name, r.key)
      BY <1>3, Zenon
    <2> QED BY <1>1, <1>3, <2>1, RowTokensSpoken, Line3Columns, Zenon
  <1>5. ASSUME NEW x, NEW y, NEW z
        PROVE  LET q == <<x, y, z>>
               IN  Len(q) = 3 /\ q # <<>> /\ q[1] = x /\ q[2] = y /\ q[3] = z
    OBVIOUS
  <1>6. Len(c) = 3 /\ c # <<>> /\ c[1] = <<a>> /\ c[2] = r.name /\ c[3] = <<r.key>>
    BY <1>5, Zenon
  <1> HIDE DEF c
  <1>7. Len(SavedTitles) = 3
    BY DEF SavedTitles
  <1>8. ASSUME NEW x PROVE Len(<<x>>) = 1 /\ <<x>>[1] = x
    OBVIOUS
  <1>9. IsAddress(c[1]) /\ Len(c[3]) = 1 /\ c[3][1] = r.key
    BY <1>2, <1>6, <1>8, Zenon DEF IsAddress
  <1>10. parse_resolver(SavedTitles, c) = Returns(r)
    BY <1>1, <1>2, <1>6, <1>9, SavedResolver, Zenon
  <1> DEFINE found == Returns(v)
             cols == parse_line(t)
             row == parse_resolver(SavedTitles, cols.value)
  <1>11. found.threw = FALSE /\ found.value = v /\ cols.threw = FALSE /\ cols.value = c
    BY <1>4, Outcome, Zenon
  <1>12. row.threw = FALSE /\ row.value = r
    BY <1>10, <1>11, Outcome, Zenon
  <1> HIDE DEF found
  <1>13. RowRead(SavedTitles, found, t) = Returns(Append(v, r))
    BY <1>6, <1>7, <1>11, <1>12, Zenon DEF RowRead
  <1> QED BY <1>13 DEF found, t

\* A part of a line gives nothing.
LEMMA TornRowRead ==
    ASSUME NEW r \in SavedRow, NEW v, NEW part \in Parts(RowLine(r))
    PROVE  RowRead(SavedTitles, Returns(v), part) \in {Throws, Returns(v)}
  <1> DEFINE a == Printed(r.address)
  <1>1. /\ a \in RowTokens /\ r.key \in RowTokens /\ r.name \in Seq(RowTokens)
    BY RowTypes
  <1>2. part \in Parts(Line3(a, r.name, r.key))
    BY DEF RowLine
  <1> HIDE DEF a
  <1>3. PICK c : parse_line(part) = Returns(c) /\ Torn(c)
    BY <1>1, <1>2, RowTokensSpoken, TornLine
  <1>4. Len(SavedTitles) = 3
    BY DEF SavedTitles
  <1>5. CASE c = <<>>
    BY <1>3, <1>5, Outcome, Zenon DEF RowRead
  <1>6. CASE c # <<>> /\ Len(c) # 3
    BY <1>3, <1>4, <1>6, Outcome, Zenon DEF RowRead
  <1>7. CASE c # <<>> /\ c[3] \in {<<>>, <<"cut">>}
    <2>1. Len(c[3]) # 1 \/ c[3][1] \notin KeyTexts
      <3>1. CASE c[3] = <<>>
        <4>1. Len(<<>>) # 1
          OBVIOUS
        <4> QED BY <3>1, <4>1, Zenon
      <3>2. CASE c[3] = <<"cut">>
        <4>1. ASSUME NEW x PROVE <<x>>[1] = x
          OBVIOUS
        <4> QED BY <3>2, <4>1, CutAssumption, Zenon
      <3> QED BY <1>7, <3>1, <3>2, Zenon
    <2>2. parse_resolver(SavedTitles, c) = Throws
      BY <2>1, SavedResolver, Zenon
    <2> QED BY <1>3, <1>7, <2>2, Outcome, Zenon DEF RowRead
  <1> QED BY <1>3, <1>5, <1>6, <1>7, Zenon DEF Torn

\* A text with the titles and the lines of the first m of some rows.
Lists(lines, rows, m) ==
    /\ Len(lines) \in Nat /\ m + 1 <= Len(lines)
    /\ lines[1] = TitleLine
    /\ \A i \in 1 .. m : lines[i + 1] = RowLine(rows[i])

\* The loop over the rows.
LEMMA RowsRead ==
    ASSUME NEW rows \in Seq(SavedRow), NEW lines, NEW m \in 0 .. Len(rows), Lists(lines, rows, m)
    PROVE  RowStates(SavedTitles, lines)[m] = Returns(SubSeq(rows, 1, m))
  <1> DEFINE R == RowStates(SavedTitles, lines)
             S == {j \in Nat : j <= m /\ R[j] # Returns(SubSeq(rows, 1, j))}
  <1>1. m \in Nat /\ Len(rows) \in Nat /\ m <= Len(rows)
    OBVIOUS
  <1>2. Len(lines) - 1 \in Nat /\ \A j \in 1 .. m : j \in 1 .. Len(lines) - 1
    BY <1>1 DEF Lists
  <1>3. R[0] = Returns(<<>>) /\ \A j \in 1 .. m : R[j] = RowRead(SavedTitles, R[j - 1], lines[j + 1])
    BY <1>2, RowStep
  <1> HIDE DEF R
  <1>4. ASSUME S # {} PROVE FALSE
    <2>1. PICK j \in S : \A i \in S : j <= i
      <3> S \subseteq Nat
        OBVIOUS
      <3> HIDE DEF S
      <3> QED BY <1>4, LeastNumber
    <2>2. j \in Nat /\ j <= m /\ R[j] # Returns(SubSeq(rows, 1, j))
      BY <2>1
    <2>3. j # 0
      <3>1. SubSeq(rows, 1, 0) = <<>>
        OBVIOUS
      <3> QED BY <1>3, <2>2, <3>1
    <2>4. j - 1 \in Nat /\ j - 1 <= m /\ j - 1 \notin S /\ j \in 1 .. m /\ j \in 1 .. Len(rows)
      BY <1>1, <2>1, <2>2, <2>3
    <2>5. R[j - 1] = Returns(SubSeq(rows, 1, j - 1))
      BY <2>4
    <2>6. rows[j] \in SavedRow /\ lines[j + 1] = RowLine(rows[j])
      BY <2>4 DEF Lists
    <2>7. R[j] = RowRead(SavedTitles, Returns(SubSeq(rows, 1, j - 1)), RowLine(rows[j]))
      BY <1>3, <2>4, <2>5, <2>6
    <2>8. R[j] = Returns(Append(SubSeq(rows, 1, j - 1), rows[j]))
      BY <2>6, <2>7, RowLineRead
    <2>9. Append(SubSeq(rows, 1, j - 1), rows[j]) = SubSeq(rows, 1, j)
      BY <2>4, BeginningGrows, Zenon
    <2> QED BY <2>2, <2>8, <2>9
  <1>5. m \notin S
    BY <1>4
  <1>6. R[m] = Returns(SubSeq(rows, 1, m))
    BY <1>1, <1>5
  <1> QED BY <1>6 DEF R

\* parse_resolvers_list behind the titles of a saved list.
LEMMA SavedListRead ==
    ASSUME NEW lines, lines[1] = TitleLine
    PROVE  parse_resolvers_list(Text(lines)) = RowStates(SavedTitles, lines)[Len(lines) - 1]
  <1> DEFINE file == Text(lines)
             h == parse_line(lines[1])
  <1>1. file.readable = TRUE /\ file.lines = lines
    BY DEF Text
  <1>2. h = Returns(SavedTitles)
    BY TitlesRead, Zenon
  <1>3. h.threw = FALSE /\ h.value = SavedTitles
    BY <1>2, Outcome, Zenon
  <1>4. Len(SavedTitles) \in 3 .. MaxColumns
    <2>1. Len(SavedTitles) = 3
      BY DEF SavedTitles
    <2> QED BY <2>1, ProvidersAssumption
  <1> HIDE DEF file
  <1>5. parse_resolvers_list(file) = RowStates(SavedTitles, lines)[Len(lines) - 1]
    BY <1>1, <1>3, <1>4, Zenon DEF parse_resolvers_list
  <1> QED BY <1>5 DEF file

\* The lines of a saved list.
LEMMA SavedLines ==
    ASSUME NEW rows \in Seq(SavedRow)
    PROVE  LET lines == Saved(rows).lines
           IN  /\ Saved(rows) = Text(lines)
               /\ Len(lines) = Len(rows) + 1
               /\ Lists(lines, rows, Len(rows))
               /\ \E T : lines \in Seq(T)
  <1> DEFINE line == [i \in DOMAIN rows |-> RowLine(rows[i])]
             lines == <<TitleLine>> \o line
             n == Len(rows)
  <1>1. Saved(rows) = Text(lines)
    BY Zenon DEF Saved, TitleLine, RowLine, Line3
  <1>2. Text(lines).lines = lines
    BY DEF Text
  <1>3. n \in Nat /\ DOMAIN rows = 1 .. n
    OBVIOUS
  <1> DEFINE T == {TitleLine} \cup {RowLine(rows[i]) : i \in 1 .. n}
  <1>4. line \in Seq(T) /\ Len(line) = n /\ \A i \in 1 .. n : line[i] = RowLine(rows[i])
    <2>1. line = [i \in 1 .. n |-> RowLine(rows[i])]
      BY <1>3
    <2>2. line \in [1 .. n -> T] /\ \A i \in 1 .. n : line[i] = RowLine(rows[i])
      BY <2>1
    <2> HIDE DEF line, T
    <2> QED BY <1>3, <2>2
  <1>5. TitleLine \in T
    OBVIOUS
  <1> HIDE DEF T, line
  <1>6. /\ lines \in Seq(T) /\ Len(lines) = n + 1 /\ lines[1] = TitleLine
        /\ \A i \in 1 .. n : lines[i + 1] = line[i]
    BY <1>3, <1>4, <1>5
  <1> HIDE DEF lines, n
  <1>7. Lists(lines, rows, n)
    BY <1>3, <1>4, <1>6 DEF Lists
  <1> QED BY <1>1, <1>2, <1>6, <1>7, Zenon DEF n

\* The whole file is read again.
LEMMA SavedBack ==
    ASSUME NEW rows \in Seq(SavedRow)
    PROVE  parse_resolvers_list(Saved(rows)) = Returns(rows)
  <1> DEFINE lines == Saved(rows).lines
             n == Len(rows)
  <1>1. Saved(rows) = Text(lines) /\ Len(lines) = n + 1 /\ Lists(lines, rows, n)
    BY SavedLines
  <1> HIDE DEF lines
  <1>2. n \in Nat /\ n \in 0 .. n /\ (n + 1) - 1 = n /\ SubSeq(rows, 1, n) = rows
    OBVIOUS
  <1>3. lines[1] = TitleLine
    BY <1>1 DEF Lists
  <1>4. parse_resolvers_list(Text(lines)) = RowStates(SavedTitles, lines)[n]
    BY <1>1, <1>2, <1>3, SavedListRead
  <1>5. RowStates(SavedTitles, lines)[n] = Returns(SubSeq(rows, 1, n))
    BY <1>1, <1>2, RowsRead
  <1> QED BY <1>1, <1>2, <1>4, <1>5

\* A beginning is a prefix.
LEMMA BeginningIsPrefix ==
    ASSUME NEW T, NEW s \in Seq(T), NEW m \in 0 .. Len(s)
    PROVE  IsPrefix(SubSeq(s, 1, m), s)
  <1> DEFINE p == SubSeq(s, 1, m)
  <1>1. p \in Seq(T) /\ Len(p) = m /\ m <= Len(s)
    OBVIOUS
  <1> HIDE DEF p
  <1>2. SubSeq(p, 1, Len(p)) = p
    BY <1>1
  <1>3. SubSeq(p, 1, Len(p)) = SubSeq(s, 1, Len(p))
    BY <1>1, <1>2 DEF p
  <1> QED BY <1>1, <1>3 DEF IsPrefix, p

\* The elements of a text that is cut off.
LEMMA CutLines ==
    ASSUME NEW T, NEW lines \in Seq(T), NEW n \in 1 .. Len(lines), NEW part
    PROVE  LET ls == Append(SubSeq(lines, 1, n - 1), part)
           IN  /\ Len(ls) = n
               /\ ls[n] = part
               /\ \A i \in 1 .. n - 1 : ls[i] = lines[i]
  <1> DEFINE U == T \cup {part}
             h == SubSeq(lines, 1, n - 1)
  <1>1. h \in Seq(T) /\ Len(h) = n - 1 /\ \A i \in 1 .. n - 1 : h[i] = lines[i]
    OBVIOUS
  <1>2. part \in U /\ T \subseteq U
    OBVIOUS
  <1> HIDE DEF U, h
  <1>3. h \in Seq(U)
    BY <1>1, <1>2, SeqGrows, Zenon
  <1>4. /\ Len(Append(h, part)) = n /\ Append(h, part)[n] = part
        /\ \A i \in 1 .. n - 1 : Append(h, part)[i] = h[i]
    BY <1>1, <1>2, <1>3
  <1> QED BY <1>1, <1>4 DEF h

\* What is left of the file gives the first rows, or nothing.
LEMMA CutBack ==
    ASSUME NEW rows \in Seq(SavedRow), NEW cut \in CutsOf(Saved(rows).lines)
    PROVE  LET part == parse_resolvers_list(cut) IN part.threw \/ IsPrefix(part.value, rows)
  <1> DEFINE lines == Saved(rows).lines
             N == Len(rows)
             back == parse_resolvers_list(cut)
  <1>1. Len(lines) = N + 1 /\ Lists(lines, rows, N) /\ N \in Nat /\ lines[1] = TitleLine
        /\ \A i \in 1 .. N : lines[i + 1] = RowLine(rows[i])
    <2>1. Len(lines) = N + 1 /\ Lists(lines, rows, N)
      BY SavedLines
    <2> HIDE DEF lines
    <2> QED BY <2>1 DEF Lists
  <1>2. PICK T : lines \in Seq(T)
    BY SavedLines
  <1>3. cut \in CutsOf(lines)
    OBVIOUS
  <1> HIDE DEF lines
  <1>4. PICK n \in 1 .. Len(lines) :
            \E p \in Parts(lines[n]) : cut = Text(Append(SubSeq(lines, 1, n - 1), p))
    BY <1>3, Zenon DEF CutsOf
  <1>5. PICK piece \in Parts(lines[n]) : cut = Text(Append(SubSeq(lines, 1, n - 1), piece))
    BY <1>4
  <1> DEFINE ls == Append(SubSeq(lines, 1, n - 1), piece)
  <1>6. Len(ls) = n /\ ls[n] = piece /\ \A i \in 1 .. n - 1 : ls[i] = lines[i]
    BY <1>2, CutLines
  <1> HIDE DEF ls
  <1>7. cut = Text(ls)
    BY <1>5 DEF ls
  <1>8. n \in Nat /\ n <= N + 1 /\ n >= 1
    BY <1>1
  <1>9. ASSUME NEW m \in 0 .. N, back \in {Throws, Returns(SubSeq(rows, 1, m))}
        PROVE  back.threw \/ IsPrefix(back.value, rows)
    <2>1. IsPrefix(SubSeq(rows, 1, m), rows)
      BY BeginningIsPrefix
    <2> HIDE DEF back
    <2> QED BY <1>9, <2>1, Outcome, Zenon
  <1>10. CASE n = 1
    <2> DEFINE h == parse_line(ls[1])
    <2>1. Len(ls) - 1 = 0 /\ Len(ls) - 1 \in Nat
      BY <1>6, <1>10
    <2>2. RowStates(h.value, ls)[0] = Returns(<<>>)
      BY <2>1, RowStep
    <2>3. cut.lines = ls
      BY <1>7 DEF Text
    <2>4. back = Throws \/ back = RowStates(h.value, ls)[0]
      BY <2>1, <2>3, Zenon DEF parse_resolvers_list
    <2>5. SubSeq(rows, 1, 0) = <<>> /\ 0 \in 0 .. N
      BY <1>1
    <2> HIDE DEF back, h
    <2>6. back \in {Throws, Returns(SubSeq(rows, 1, 0))}
      BY <2>2, <2>4, <2>5
    <2> QED BY <1>9, <2>5, <2>6 DEF back
  <1>11. CASE n # 1
    <2> DEFINE m == n - 2
               R == RowStates(SavedTitles, ls)
    <2>1. /\ m \in 0 .. N /\ m + 1 \in 1 .. N /\ m + 1 = n - 1 /\ m + 2 = n
          /\ Len(ls) - 1 = m + 1 /\ m + 1 \in 1 .. Len(ls) - 1 /\ (m + 1) - 1 = m /\ (m + 1) + 1 = n
          /\ 1 \in 1 .. n - 1
      BY <1>6, <1>8, <1>11
    <2>2. Lists(ls, rows, m)
      <3>1. ls[1] = TitleLine /\ Len(ls) \in Nat /\ m + 1 <= Len(ls)
        BY <1>1, <1>6, <1>8, <2>1
      <3>2. ASSUME NEW i \in 1 .. m PROVE ls[i + 1] = RowLine(rows[i])
        <4>1. i + 1 \in 1 .. n - 1 /\ i \in 1 .. N
          BY <1>8, <2>1
        <4> QED BY <1>1, <1>6, <4>1
      <3> QED BY <3>1, <3>2 DEF Lists
    <2>3. R[m] = Returns(SubSeq(rows, 1, m))
      BY <2>1, <2>2, RowsRead
    <2>4. R[m + 1] = RowRead(SavedTitles, R[m], ls[n])
      <3>1. Len(ls) - 1 \in Nat
        BY <1>6, <1>8
      <3>2. R[m + 1] = RowRead(SavedTitles, R[(m + 1) - 1], ls[(m + 1) + 1])
        BY <2>1, <3>1, RowStep
      <3> QED BY <2>1, <3>2
    <2>5. back = R[m + 1]
      <3>1. ls[1] = TitleLine
        BY <2>2 DEF Lists
      <3> QED BY <1>7, <2>1, <3>1, SavedListRead
    <2> HIDE DEF R, m
    <2>6. piece \in Parts(RowLine(rows[m + 1])) /\ rows[m + 1] \in SavedRow
      <3>1. lines[n] = RowLine(rows[m + 1])
        <4>1. lines[(m + 1) + 1] = RowLine(rows[m + 1])
          BY <1>1, <2>1
        <4> QED BY <2>1, <4>1
      <3> QED BY <1>5, <2>1, <3>1
    <2>7. RowRead(SavedTitles, Returns(SubSeq(rows, 1, m)), piece)
            \in {Throws, Returns(SubSeq(rows, 1, m))}
      BY <2>6, TornRowRead
    <2> HIDE DEF back
    <2>8. back \in {Throws, Returns(SubSeq(rows, 1, m))}
      BY <1>6, <2>3, <2>4, <2>5, <2>7
    <2> QED BY <1>9, <2>1, <2>8 DEF back
  <1> QED BY <1>10, <1>11

\* SetToSeq lists a finite set.
LEMMA SetListed ==
    ASSUME NEW S, IsFiniteSet(S)
    PROVE  LET f == SetToSeq(S)
           IN  /\ f \in Seq(S) /\ Len(f) = Cardinality(S)
               /\ \A x \in S : \E i \in DOMAIN f : f[i] = x
  <1> DEFINE n == Cardinality(S)
             f == SetToSeq(S)
  <1>1. n \in Nat /\ ExistsBijection(1 .. n, S)
    BY FS_CardinalityType
  <1>2. \E g \in [1 .. n -> S] : IsInjective(g)
    BY <1>1 DEF ExistsBijection, Bijection, Injection, IsInjective
  <1>3. f \in [1 .. n -> S] /\ IsInjective(f)
    BY <1>2, Zenon DEF SetToSeq
  <1> HIDE DEF f
  <1>4. f \in Injection(1 .. n, S)
    BY <1>3 DEF Injection, IsInjective
  <1>5. IsFiniteSet(1 .. n) /\ Cardinality(1 .. n) = n
    BY <1>1, FS_Interval
  <1>6. f \in Surjection(1 .. n, S)
    BY <1>4, <1>5, FS_Injection
  <1>7. \A x \in S : \E i \in DOMAIN f : f[i] = x
    BY <1>3, <1>6 DEF Surjection
  <1>8. f \in Seq(S) /\ Len(f) = n
    BY <1>1, <1>3
  <1> QED BY <1>7, <1>8 DEF f

\* The invariant says that what is saved can be read.
LEMMA InvSavedReadsBack == ProvidersInv => SavedReadsBack
  <1> SUFFICES ASSUME ProvidersInv PROVE SavedReadsBack
    OBVIOUS
  <1> DEFINE r == SetToSeq(Ready)
             P(a) == [address |-> a, name |-> providers[a].name, key |-> providers[a].key]
             rows == [i \in DOMAIN r |-> P(r[i])]
             N == Cardinality(Ready)
  <1>1. /\ IsFiniteSet(DOMAIN providers) /\ Ready \subseteq DOMAIN providers
        /\ \A a \in Ready : /\ a \in Addresses /\ providers[a] \in Provider
                            /\ providers[a].name \in Askable
    BY DEF ProvidersInv, Kept, Ready
  <1>2. IsFiniteSet(Ready)
    BY <1>1, FS_Subset
  <1>3. r \in Seq(Ready) /\ Len(r) = N /\ \A a \in Ready : \E i \in DOMAIN r : r[i] = a
    BY <1>2, SetListed
  <1>4. ASSUME NEW a \in Ready PROVE P(a) \in SavedRow
    <2>1. providers[a].name \in Seq(STRING) /\ providers[a].key \in KeyTexts
      BY <1>1 DEF Provider
    <2>2. P(a) \in Row /\ P(a).name = providers[a].name
      BY <1>1, <2>1 DEF Row
    <2> QED BY <1>1, <2>2 DEF SavedRow
  <1> HIDE DEF r
  <1>5. N \in Nat /\ DOMAIN r = 1 .. N /\ \A i \in 1 .. N : r[i] \in Ready
    BY <1>2, <1>3, FS_CardinalityType
  <1>6. rows \in Seq(SavedRow) /\ Len(rows) = N /\ DOMAIN rows = 1 .. N
    <2>1. rows \in [1 .. N -> SavedRow]
      BY <1>4, <1>5
    <2> HIDE DEF rows
    <2> QED BY <1>5, <2>1
  <1>7. save_providers = Saved(rows)
    BY Zenon DEF save_providers, r
  <1>8. ToSet(rows) = {P(a) : a \in Ready}
    <2>1. ToSet(rows) = {rows[i] : i \in 1 .. N}
      BY <1>6, Zenon DEF ToSet
    <2>2. \A i \in 1 .. N : rows[i] = P(r[i])
      BY <1>5
    <2> HIDE DEF rows, P
    <2> QED BY <1>3, <1>5, <2>1, <2>2
  <1> HIDE DEF rows
  <1>9. parse_resolvers_list(Saved(rows)) = Returns(rows)
    BY <1>6, SavedBack
  <1>10. \A cut \in CutsOf(Saved(rows).lines) :
            LET part == parse_resolvers_list(cut) IN part.threw \/ IsPrefix(part.value, rows)
    BY <1>6, CutBack
  <1>11. Returns(rows).threw = FALSE /\ Returns(rows).value = rows
    BY Outcome, Zenon
  <1> QED BY <1>6, <1>7, <1>8, <1>9, <1>10, <1>11, Zenon DEF SavedReadsBack

\* What save_providers writes is read again as the ready resolvers, and what is
\* left of it as the first of them or not at all.
THEOREM ProvidersSave == ProvidersSpec => []SavedReadsBack
  <1> QED BY InvSavedReadsBack, ProvidersInvariance, PTL

-----------------------------------------------------------------------------
(***************************************************************************)
(* What the files mean.  The parsers are taken to read them so, which is a *)
(* matter of the files and not of a behaviour.                             *)
(***************************************************************************)

\* The rows that parse_resolvers_list returns, and those of the list.
LEMMA RowsMeant ==
    ASSUME NEW l, NEW read, NEW no6 \in BOOLEAN, NEW rows, rows = read.value,
           Len(rows) \in Nat, DOMAIN rows = 1 .. Len(rows),
           ~read.threw, ListReadAsMeant(l, read)
    PROVE  /\ ListIsGood(l)
           /\ WantedPlaces(no6, rows, Len(rows)) = Places(l, no6)
           /\ Twice(no6, rows) <=> Cardinality(Places(l, no6)) # Cardinality(Usable(l, no6))
  <1> DEFINE N == Len(rows)
             said == {i \in DOMAIN l.rows : l.rows[i].style # "blank"}
             W == Wanted(no6, rows, N)
             U == Usable(l, no6)
             P == Places(l, no6)
             at0 == [i \in U |-> Place(l.rows[i].address, CryptPort)]
  <1>1. ListIsGood(l)
    BY Zenon DEF ListReadAsMeant
  <1>2. PICK at \in [DOMAIN rows -> said] :
            /\ \A j, k \in DOMAIN rows : at[j] = at[k] => j = k
            /\ \A i \in said : \E j \in DOMAIN rows : at[j] = i
            /\ \A j \in DOMAIN rows : rows[j].address = Place(l.rows[at[j]].address, CryptPort)
    BY Zenon DEF ListReadAsMeant
  <1>3. DOMAIN rows = 1 .. N /\ N \in Nat
    OBVIOUS
  <1>4. IsFiniteSet(said)
    <2>1. at \in Surjection(1 .. N, said)
      BY <1>2, <1>3 DEF Surjection
    <2>2. IsFiniteSet(1 .. N)
      BY <1>3, FS_Interval
    <2> HIDE DEF said
    <2> QED BY <2>1, <2>2, FS_Surjection
  <1>5. U \subseteq said /\ IsFiniteSet(U)
    <2>1. U \subseteq said
      BY DEF Usable
    <2> HIDE DEF said, U
    <2> QED BY <1>4, <2>1, FS_Subset
  <1>6. ASSUME NEW w PROVE IsSix(Place(w, CryptPort)) <=> AddressParts[w].ip \in Six
    <2>1. Place(w, CryptPort).ip = AddressParts[w].ip
      BY DEF Place
    <2> QED BY <2>1, Zenon DEF IsSix
  <1>7. ASSUME NEW j \in 1 .. N
        PROVE  /\ j \in W <=> at[j] \in U
               /\ rows[j].address = Place(l.rows[at[j]].address, CryptPort)
    <2>1. rows[j].address = Place(l.rows[at[j]].address, CryptPort) /\ at[j] \in said
      BY <1>2, <1>3
    <2>2. IsSix(rows[j].address) <=> AddressParts[l.rows[at[j]].address].ip \in Six
      BY <1>6, <2>1, Zenon
    <2>3. j \in W <=> ~(no6 /\ IsSix(rows[j].address))
      BY DEF Wanted
    <2>4. at[j] \in U <=> ~(no6 /\ AddressParts[l.rows[at[j]].address].ip \in Six)
      BY <2>1, Zenon DEF Usable
    <2> QED BY <2>1, <2>2, <2>3, <2>4
  <1>8. W \subseteq 1 .. N
    BY DEF Wanted
  <1>9. WantedPlaces(no6, rows, N) = {rows[j].address : j \in W}
    BY DEF WantedPlaces
  <1>10. P = {Place(l.rows[i].address, CryptPort) : i \in U}
    BY DEF Places
  <1>11. /\ \A i \in U : \E j \in W : at[j] = i
         /\ \A j \in W : at[j] \in U /\ at[j] \in said
    <2> HIDE DEF U, W, said
    <2> QED BY <1>2, <1>5, <1>7, <1>8, <1>3
  <1> HIDE DEF W, U, P, said, N
  <1>12. WantedPlaces(no6, rows, N) = P
    <2>1. ASSUME NEW j \in W PROVE rows[j].address \in P
      BY <1>7, <1>8, <1>10, <1>11
    <2>2. ASSUME NEW i \in U PROVE \E j \in W : rows[j].address = Place(l.rows[i].address, CryptPort)
      BY <1>7, <1>8, <1>11
    <2> QED BY <1>9, <1>10, <2>1, <2>2
  <1>13. at0 \in Surjection(U, P)
    <2>1. at0 \in [U -> P] /\ \A i \in U : at0[i] = Place(l.rows[i].address, CryptPort)
      BY <1>10
    <2>2. \A p \in P : \E i \in U : at0[i] = p
      BY <1>10, <2>1
    <2> HIDE DEF at0
    <2> QED BY <2>1, <2>2 DEF Surjection
  <1>14. Cardinality(P) = Cardinality(U) <=> at0 \in Injection(U, P)
    <2> HIDE DEF at0
    <2> QED BY <1>5, <1>13, FS_Surjection
  <1>15. at0 \in Injection(U, P) <=> ~Twice(no6, rows)
    <2>1. at0 \in [U -> P] /\ \A i \in U : at0[i] = Place(l.rows[i].address, CryptPort)
      BY <1>10
    <2> HIDE DEF at0
    <2>2. at0 \in Injection(U, P) <=> \A i, k \in U : at0[i] = at0[k] => i = k
      BY <2>1 DEF Injection, IsInjective
    <2>3. \A j \in W : rows[j].address = at0[at[j]]
      BY <1>7, <1>8, <1>11, <2>1
    <2>4. Twice(no6, rows) <=> \E j, k \in W : j # k /\ rows[j].address = rows[k].address
      BY Zenon DEF Twice, W, N
    <2>5. ASSUME NEW j \in W, NEW k \in W, j # k, rows[j].address = rows[k].address
          PROVE  \E i, m \in U : at0[i] = at0[m] /\ i # m
      <3>1. at[j] \in U /\ at[k] \in U /\ at[j] # at[k]
        BY <1>2, <1>8, <1>11, <1>3, <2>5
      <3>2. at0[at[j]] = at0[at[k]]
        BY <2>3, <2>5
      <3> QED BY <3>1, <3>2
    <2>6. ASSUME NEW i \in U, NEW m \in U, at0[i] = at0[m], i # m
          PROVE  \E j, k \in W : j # k /\ rows[j].address = rows[k].address
      <3>1. PICK j \in W : at[j] = i
        BY <1>11
      <3>2. PICK k \in W : at[k] = m
        BY <1>11
      <3>3. j # k /\ rows[j].address = rows[k].address
        BY <2>3, <2>6, <3>1, <3>2
      <3> QED BY <3>3
    <2> QED BY <2>2, <2>4, <2>5, <2>6
  <1> QED BY <1>1, <1>12, <1>14, <1>15 DEF N, P, U

\* A list that parse_resolvers_list reads is a good one and has these rows.
LEMMA ListMeant ==
    ASSUME ReadAsMeant, NEW f \in DOMAIN Files, NEW no6 \in BOOLEAN
    PROVE  LET l == Files[f].list
               rows == ListRead[f].value
           IN  /\ ListRead[f].threw <=> ~ListIsGood(l)
               /\ ~ListRead[f].threw =>
                    /\ WantedPlaces(no6, rows, Len(rows)) = Places(l, no6)
                    /\ Twice(no6, rows) <=> NamedTwice(l, no6)
  <1> DEFINE l == Files[f].list
             read == ListRead[f]
             rows == read.value
  <1>1. ListReadAsMeant(l, read)
    BY Zenon DEF ReadAsMeant
  <1>2. read.threw <=> ~ListIsGood(l)
    BY <1>1, Zenon DEF ListReadAsMeant
  <1>3. ASSUME ~read.threw
        PROVE  /\ WantedPlaces(no6, rows, Len(rows)) = Places(l, no6)
               /\ Twice(no6, rows) <=> NamedTwice(l, no6)
    <2>1. rows \in Seq(Row)
      BY <1>3, ListReadType
    <2> DEFINE v == rows
    <2>2. v = read.value
      OBVIOUS
    <2>3. Len(v) \in Nat /\ DOMAIN v = 1 .. Len(v)
      BY <2>1
    <2> HIDE DEF v, l, read
    <2>4. /\ ListIsGood(l)
          /\ WantedPlaces(no6, v, Len(v)) = Places(l, no6)
          /\ Twice(no6, v) <=> Cardinality(Places(l, no6)) # Cardinality(Usable(l, no6))
      BY <1>1, <1>3, <2>2, <2>3, RowsMeant
    <2> QED BY <2>2, <2>4, Zenon DEF NamedTwice
  <1> QED BY <1>2, <1>3

\* A process that runs or has failed has read files.
FilesKnown == up \in {"running", "failed"} => files \in DOMAIN Files

\* Start and reload see to it.
LEMMA FilesAreKnown == ProvidersSpec => []FilesKnown
  <1>1. ProvidersInit => FilesKnown
    BY DEF ProvidersInit, FilesKnown
  <1>2. FilesKnown /\ [ProvidersNext]_providersVars => FilesKnown'
    <2> SUFFICES ASSUME FilesKnown, [ProvidersNext]_providersVars PROVE FilesKnown'
      OBVIOUS
    <2>1. ASSUME NEW f \in DOMAIN Files, Start(f) \/ Reload(f) PROVE FilesKnown'
      BY <2>1 DEF Start, Reload, Read, FilesKnown
    <2>2. ASSUME NEW a, NEW certs, Respond(a, certs) PROVE FilesKnown'
      BY <2>2 DEF Respond, FilesKnown
    <2>3. CASE FoldFails \/ SaveFails \/ Terminate
      BY <2>3 DEF FoldFails, SaveFails, Terminate, FilesKnown
    <2>4. CASE UNCHANGED providersVars
      BY <2>4 DEF providersVars, FilesKnown
    <2> QED BY <2>1, <2>2, <2>3, <2>4 DEF ProvidersNext
  <1> QED BY <1>1, <1>2, PTL DEF ProvidersSpec

\* If the parsers read the files as they are meant, the resolvers and the local
\* names are always those of the files that load and reload have read last.
THEOREM ProvidersFollowFiles ==
    ASSUME ReadAsMeant
    PROVE  ProvidersSpec => []FollowsFiles
  <1>1. ProvidersInv /\ FilesKnown => FollowsFiles
    <2> SUFFICES ASSUME ProvidersInv, FilesKnown, up = "running" PROVE FollowsFiles
      BY Zenon DEF FollowsFiles
    <2> DEFINE f == Files[files]
               list == ListRead[files]
               servers == ResolvRead[files][noipv6]
               names == HostsRead[files][noipv6]
    <2>1. files \in DOMAIN Files /\ noipv6 \in BOOLEAN
      BY DEF FilesKnown, ProvidersInv
    <2>2. /\ ~list.threw => DOMAIN providers = WantedPlaces(noipv6, list.value, Len(list.value))
          /\ ~servers.threw => plain = servers.value
          /\ hosts = names.value
      BY DEF ProvidersInv, FollowsParsed
    <2>3. ~names.threw
      BY DEF ProvidersInv, FailsAsParsed, FailedAsParsed
    <2>4. /\ list.threw <=> ~ListIsGood(f.list)
          /\ ~list.threw => WantedPlaces(noipv6, list.value, Len(list.value)) = Places(f.list, noipv6)
      BY <2>1, ListMeant
    <2>5. /\ servers.threw <=> f.resolv.readable /\ SomeBad(f.resolv)
          /\ ~servers.threw =>
                servers.value = IF f.resolv.readable THEN Servers(f.resolv, noipv6) ELSE <<>>
          /\ ~names.threw => names.value = HostsSaid(f.hosts, noipv6)
      BY <2>1, Zenon DEF ReadAsMeant
    <2> HIDE DEF f, list, servers, names
    <2>6. /\ ListIsGood(f.list) => DOMAIN providers = Places(f.list, noipv6)
          /\ (f.resolv.readable /\ ~SomeBad(f.resolv)) => plain = Servers(f.resolv, noipv6)
          /\ ~f.resolv.readable => plain = <<>>
          /\ hosts = HostsSaid(f.hosts, noipv6)
      BY <2>2, <2>3, <2>4, <2>5, Zenon
    <2> QED BY <2>6, Zenon DEF FollowsFiles, f
  <1> QED BY <1>1, ProvidersInvariance, FilesAreKnown, PTL

\* Then a process runs only with files and options that are not Fatal, and the
\* exceptions that end it mean that they are or that a resolver has a weak key.
THEOREM ProvidersFailForReason ==
    ASSUME ReadAsMeant
    PROVE  ProvidersSpec => []FailsForReason
  <1>1. ProvidersInv /\ FilesKnown => FailsForReason
    <2> SUFFICES ASSUME ProvidersInv, FilesKnown, up \in {"running", "failed"}
                 PROVE  /\ up = "running" => ~Fatal
                        /\ up = "failed" => Fatal \/ SomeWeak
      BY Zenon DEF FailsForReason, SomeWeak
    <2> DEFINE f == Files[files]
               list == ListRead[files]
               names == HostsRead[files][noipv6]
    <2>1. files \in DOMAIN Files /\ noipv6 \in BOOLEAN
      BY DEF FilesKnown, ProvidersInv
    <2>2. /\ up = "running" => ~FailedAsParsed
          /\ up = "failed" => FailedAsParsed \/ SomeWeak
      BY DEF ProvidersInv, FailsAsParsed
    <2>3. /\ list.threw <=> ~ListIsGood(f.list)
          /\ ~list.threw => (Twice(noipv6, list.value) <=> NamedTwice(f.list, noipv6))
      BY <2>1, ListMeant
    <2>4. names.threw <=> ~f.hosts.readable \/ SomeBad(f.hosts)
      BY <2>1, Zenon DEF ReadAsMeant
    <2>5. NamedTwice(f.list, noipv6) => ListIsGood(f.list)
      BY Zenon DEF NamedTwice
    <2>6. TooLong(files) <=> ~(f.filters \subseteq 0 .. MaxEntry)
      <3>1. f.filters \subseteq Nat /\ MaxEntry \in Nat
        BY <2>1, ProvidersAssumption
      <3> QED BY <3>1 DEF TooLong
    <2>7. BadOnion <=> onion # "" /\ onion \notin DOMAIN AddressParts
      BY Zenon DEF BadOnion
    <2>8. FailedAsParsed <=> \/ TooLong(files) \/ BadOnion
                             \/ names.threw
                             \/ ~list.threw /\ Twice(noipv6, list.value)
      BY Zenon DEF FailedAsParsed
    <2>9. Fatal <=> \/ onion # "" /\ onion \notin DOMAIN AddressParts
                    \/ ~(f.filters \subseteq 0 .. MaxEntry)
                    \/ ~f.hosts.readable \/ SomeBad(f.hosts)
                    \/ NamedTwice(f.list, noipv6)
      BY Zenon DEF Fatal
    <2> HIDE DEF f, list, names
    <2>10. FailedAsParsed <=> Fatal
      BY <2>3, <2>4, <2>5, <2>6, <2>7, <2>8, <2>9, Zenon
    <2> QED BY <2>2, <2>10, Zenon
  <1> QED BY <1>1, ProvidersInvariance, FilesAreKnown, PTL

\* Then a reload takes no resolver that is still listed out of service, and goes
\* over to the plain resolvers only if the list names no encrypted one.
THEOREM ProvidersReloadKeepsService ==
    ASSUME ReadAsMeant
    PROVE  ProvidersSpec => ReloadKeepsService
  <1> DEFINE A == up = "running" /\ up' = "running" =>
                    /\ files' # files => \A a \in DOMAIN providers \cap DOMAIN providers' :
                                            providers'[a] = providers[a]
                    /\ (DOMAIN providers # {} /\ "plain" \in random_provider(FALSE)')
                        => NothingListed(Files[files'].list, noipv6)
  <1>1. ASSUME ProvidersInv, FilesKnown', [KeepsService]_providersVars PROVE [A]_providersVars
    <2>1. CASE UNCHANGED providersVars
      BY <2>1
    <2>2. CASE KeepsService
      <3> SUFFICES ASSUME up = "running", up' = "running", DOMAIN providers # {},
                          "plain" \in random_provider(FALSE)'
                   PROVE  NothingListed(Files[files'].list, noipv6)
        BY <2>2, Zenon DEF KeepsService
      <3> DEFINE g == files'
                 list == ListRead[g]
                 rows == list.value
      <3>1. ~list.threw /\ Wanted(noipv6, rows, Len(rows)) = {}
        BY <2>2, Zenon DEF KeepsService
      <3>2. g \in DOMAIN Files /\ noipv6 \in BOOLEAN
        BY <1>1 DEF FilesKnown, ProvidersInv
      <3> HIDE DEF g
      <3>3. ListIsGood(Files[g].list) /\ Places(Files[g].list, noipv6) = {}
        <4>1. /\ list.threw <=> ~ListIsGood(Files[g].list)
              /\ ~list.threw => WantedPlaces(noipv6, rows, Len(rows)) = Places(Files[g].list, noipv6)
          BY <3>2, ListMeant
        <4>2. WantedPlaces(noipv6, rows, Len(rows)) = {}
          BY <3>1 DEF WantedPlaces
        <4> HIDE DEF list, rows
        <4> QED BY <3>1, <4>1, <4>2 DEF rows
      <3> QED BY <3>3, Zenon DEF NothingListed, g
    <2> QED BY <1>1, <2>1, <2>2
  <1>2. ProvidersSpec => [][A]_providersVars
    BY <1>1, ProvidersInvariance, FilesAreKnown, ProvidersKeepService, PTL
  <1> QED BY <1>2 DEF ReloadKeepsService

-----------------------------------------------------------------------------
(***************************************************************************)
(* The certifier.                                                          *)
(***************************************************************************)

\* A quotient is bounded by c when the dividend is at most c divisors.
LEMMA QuotientBound ==
  ASSUME NEW a \in Nat, NEW b \in Nat \ {0}, NEW c \in Nat, a <= b * c
  PROVE  a \div b \in 0..c
<1>1. a \div b \in Int /\ a % b \in 0..(b - 1) /\ a = b * (a \div b) + (a % b)
  BY Z3
<1> QED BY <1>1, Z3

\* The delay after a failure stays between min_delay and max_delay.
LEMMA DelayInRange ==
  ASSUME NEW s \in 0..Steps
  PROVE  MinDelay + (s * (MaxDelay - MinDelay)) \div Steps \in MinDelay..MaxDelay
<1> DEFINE d == MaxDelay - MinDelay
<1>1. d \in Nat /\ s \in Nat /\ Steps \in Nat \ {0} /\ s <= Steps
  BY CertifierAssumption
<1>2. s * d \in Nat /\ s * d <= Steps * d
  BY <1>1, Z3
<1>3. (s * d) \div Steps \in 0..d
  BY <1>1, <1>2, QuotientBound
<1> QED BY <1>3, CertifierAssumption

-----------------------------------------------------------------------------
(***************************************************************************)
(* The inductive invariant, regrouped: what it says of numbers and of the  *)
(* request, of the two flags, and of the queries of clients.  Each action  *)
(* disturbs one or two of the three.                                       *)
(***************************************************************************)
DelayType == {0, SuccessDelay} \cup MinDelay..MaxDelay

AskInv ==
  /\ delay \in DelayType
  /\ step \in 0..Steps
  /\ attempts \in 0..(AttemptLimit + 1)
  /\ request \in {"none", "sending", "receiving"}
  /\ key \in 0..MaxKey
  /\ issued \in 0..MaxKey
  /\ FirstRequest
  /\ delay = 0 => attempts = AttemptLimit + 1 /\ request = "none"

FlagInv ==
  /\ due \in BOOLEAN
  /\ ready \in BOOLEAN
  /\ delay = 0 => ~due
  /\ key = 0 => ~ready

QueryInv ==
  /\ loop \in {"starting", "running", "ended"}
  /\ phase \in [Queries -> {"idle", "chosen", "sent"}]
  /\ sealed \in [Queries -> 0..MaxKey]
  /\ key = 0 => \A q \in Queries : phase[q] = "idle"
  /\ FirstCertificateIsSafe

\* The three parts make up the invariant.
LEMMA InvParts == Inv <=> AskInv /\ FlagInv /\ QueryInv
BY Zenon
DEF Inv, TypeOK, NoKeyIsUnused, TimerRunsUntilGivenUp, AskInv, FlagInv, QueryInv,
    DelayType

\* They do so in the next state too.
LEMMA InvPartsNext == Inv' <=> AskInv' /\ FlagInv' /\ QueryInv'
BY Zenon
DEF Inv, TypeOK, NoKeyIsUnused, TimerRunsUntilGivenUp, AskInv, FlagInv, QueryInv,
    DelayType

-----------------------------------------------------------------------------
\* Rescheduling after a failure keeps the timer's state, running or stopped, and
\* the types of the delay and the step.
LEMMA FailureReschedules ==
  ASSUME AskInv, NEW p \in BOOLEAN, AfterFailure(p)
  PROVE  /\ delay' \in DelayType
         /\ step' \in 0..Steps
         /\ delay' = 0 <=> delay = 0
<1>1. CASE p
  BY <1>1 DEF AfterFailure, AskInv
<1>2. CASE ~p
  <2>1. MinDelay + (step * (MaxDelay - MinDelay)) \div Steps \in MinDelay..MaxDelay
    BY DelayInRange DEF AskInv
  <2>2. delay' \in DelayType /\ (delay' = 0 <=> delay = 0)
    <3>1. CASE delay = 0
      BY <1>2, <3>1 DEF AfterFailure, DelayType
    <3>2. CASE delay # 0
      <4>1. delay' = MinDelay + (step * (MaxDelay - MinDelay)) \div Steps
        BY <1>2, <3>2 DEF AfterFailure
      <4> QED BY <2>1, <3>2, <4>1, CertifierAssumption DEF DelayType
    <3> QED BY <3>1, <3>2
  <2>3. step' \in 0..Steps
    BY <1>2, CertifierAssumption DEF AfterFailure, AskInv
  <2> QED BY <2>2, <2>3
<1> QED BY <1>1, <1>2

\* Rescheduling after a success does so too.
LEMMA SuccessReschedules ==
  ASSUME AskInv, NEW p \in BOOLEAN, AfterSuccess(p)
  PROVE  /\ delay' \in DelayType
         /\ step' \in 0..Steps
         /\ delay' = 0 <=> delay = 0
<1>1. step' \in 0..Steps
  BY CertifierAssumption DEF AfterSuccess
<1>2. CASE p \/ delay = 0
  BY <1>1, <1>2 DEF AfterSuccess, AskInv
<1>3. CASE ~p /\ delay # 0
  BY <1>1, <1>3, CertifierAssumption DEF AfterSuccess, DelayType
<1> QED BY <1>2, <1>3

\* certifier::update keeps the numbers, the key and whether the resolver is
\* ready; it never takes back a counted request.
LEMMA UpdateKeeps ==
  ASSUME AskInv, Update, issued' = issued
  PROVE  /\ AskInv'
         /\ attempts' >= attempts
         /\ key' = key /\ ready' = ready /\ due' = FALSE
<1> USE CertifierAssumption DEF AskInv, FirstRequest
<1>1. StillAsking \/ GiveUp \/ Ask \/ AskFails
  BY DEF Update
<1>2. key' = key /\ ready' = ready /\ due' = FALSE
  BY Zenon DEF Update, StillAsking, GiveUp, Ask, AskFails
<1>3. CASE StillAsking
  BY <1>2, <1>3 DEF StillAsking
<1>4. CASE GiveUp
  BY <1>2, <1>4 DEF GiveUp, DelayType
<1>5. CASE Ask
  BY <1>2, <1>5 DEF Ask, DelayType
<1>6. CASE AskFails
  <2>1. /\ delay' \in DelayType
        /\ step' \in 0..Steps
        /\ delay' = 0 <=> delay = 0
    BY <1>6, FailureReschedules DEF AskFails
  <2> QED BY <1>2, <1>6, <2>1 DEF AskFails
<1> QED BY <1>1, <1>2, <1>3, <1>4, <1>5, <1>6

\* So does an exception of it, which changes nothing else than the timer's flag.
LEMMA ThrowKeeps ==
  ASSUME AskInv, AskThrows, issued' = issued
  PROVE  /\ AskInv'
         /\ attempts' = attempts
         /\ key' = key /\ ready' = ready /\ due' = FALSE
BY Zenon DEF AskThrows, AskInv, FirstRequest

\* process_response without a certificate keeps the numbers and the key; the
\* resolver is not ready then.
LEMMA NoCertificateKeeps ==
  ASSUME AskInv, FlagInv, NoCertificate, request # "none", issued' = issued
  PROVE  /\ AskInv' /\ FlagInv'
         /\ key' = key /\ attempts' = attempts
<1>1. /\ delay' \in DelayType
      /\ step' \in 0..Steps
      /\ delay' = 0 <=> delay = 0
  BY FailureReschedules DEF NoCertificate, FlagInv
<1>2. key' = key /\ attempts' = attempts /\ request' = "none"
  BY DEF NoCertificate
<1>3. AskInv'
  BY <1>1, <1>2, CertifierAssumption DEF AskInv, FirstRequest
<1>4. FlagInv'
  BY <1>1, Zenon DEF NoCertificate, FlagInv
<1> QED BY <1>2, <1>3, <1>4

\* The queries' part is kept by a step that leaves them, the key and the issued
\* certificates alone and does not lower the count of requests.
LEMMA QueriesKept ==
  ASSUME AskInv, QueryInv, UNCHANGED queryVars, key' = key, attempts' >= attempts,
         attempts' \in Nat, loop' \in {"starting", "running", "ended"}
  PROVE  QueryInv'
BY CertifierAssumption DEF AskInv, QueryInv, queryVars, FirstCertificateIsSafe

\* The constructor establishes the invariant.
LEMMA InitInv == Init => Inv
<1> SUFFICES ASSUME Init PROVE AskInv /\ FlagInv /\ QueryInv
  BY InvParts
<1>1. AskInv
  BY CertifierAssumption DEF Init, AskInv, DelayType, FirstRequest
<1>2. FlagInv
  BY Zenon DEF Init, FlagInv
<1>3. QueryInv
  BY CertifierAssumption DEF Init, QueryInv, FirstCertificateIsSafe
<1> QED BY <1>1, <1>2, <1>3

\* Steps of the certifier that only touch the state of its request: no key, no
\* flag and no query changes.
LEMMA RequestMoves ==
  ASSUME Inv, request # "none", request' \in {"none", "receiving"},
         UNCHANGED <<loop, delay, due, step, attempts, ready, key, issued, queryVars>>
  PROVE  Inv'
<1>1. AskInv /\ FlagInv /\ QueryInv
  BY InvParts
<1>2. AskInv'
  BY <1>1, CertifierAssumption DEF AskInv, FirstRequest
<1>3. FlagInv'
  BY <1>1, Zenon DEF FlagInv
<1>4. QueryInv'
  BY <1>1, Zenon DEF QueryInv, FirstCertificateIsSafe, queryVars
<1> QED BY <1>2, <1>3, <1>4, InvPartsNext

\* Steps of a query: the certifier is not touched.
LEMMA QueryMoves ==
  ASSUME Inv, NEW q \in Queries, NEW p \in {"idle", "chosen", "sent"},
         phase' = [phase EXCEPT ![q] = p],
         p # "idle" => key # 0,
         \/ sealed' = sealed /\ p # "sent"
         \/ sealed' = [sealed EXCEPT ![q] = key],
         loop' \in {"running", "ended"},
         UNCHANGED <<certVars, issued>>
  PROVE  Inv'
<1>1. AskInv /\ FlagInv /\ QueryInv
  BY InvParts
<1>2. AskInv'
  BY <1>1, Zenon DEF AskInv, FirstRequest, certVars
<1>3. FlagInv'
  BY <1>1, Zenon DEF FlagInv, certVars
<1>4. key' = key /\ attempts' = attempts
  BY DEF certVars
<1>5. QueryInv'
  BY <1>1, <1>4, CertifierAssumption DEF AskInv, QueryInv, FirstCertificateIsSafe
<1> QED BY <1>2, <1>3, <1>5, InvPartsNext

\* Every step keeps the invariant.
LEMMA NextInv == Inv /\ [Next]_vars => Inv'
<1> SUFFICES ASSUME Inv, [Next]_vars PROVE Inv'
  OBVIOUS
<1>0. AskInv /\ FlagInv /\ QueryInv
  BY InvParts
<1>1. ASSUME Update \/ AskThrows, issued' = issued, UNCHANGED queryVars,
             loop' \in {"starting", "running", "ended"}
      PROVE  Inv'
  <2>1. /\ AskInv' /\ attempts' >= attempts
        /\ key' = key /\ ready' = ready /\ due' = FALSE
    <3>1. CASE Update
      BY <1>0, <1>1, <3>1, UpdateKeeps
    <3>2. CASE AskThrows
      <4>1. AskInv' /\ attempts' = attempts /\ key' = key /\ ready' = ready /\ due' = FALSE
        BY <1>0, <1>1, <3>2, ThrowKeeps
      <4>2. attempts' >= attempts
        BY <1>0, <4>1, CertifierAssumption DEF AskInv
      <4> QED BY <4>1, <4>2
    <3> QED BY <1>1, <3>1, <3>2
  <2>2. FlagInv'
    BY <1>0, <2>1, Zenon DEF FlagInv
  <2>3. QueryInv'
    BY <1>0, <1>1, <2>1, QueriesKept, CertifierAssumption DEF AskInv
  <2> QED BY <2>1, <2>2, <2>3, InvPartsNext
<1>2. ASSUME NoCertificate, request # "none", issued' = issued, UNCHANGED queryVars,
             loop' \in {"starting", "running", "ended"}
      PROVE  Inv'
  <2>1. AskInv' /\ FlagInv' /\ key' = key /\ attempts' = attempts
    BY <1>0, <1>2, NoCertificateKeeps
  <2>2. attempts' \in Nat /\ attempts' >= attempts
    BY <1>0, <2>1, CertifierAssumption DEF AskInv
  <2>3. QueryInv'
    BY <1>0, <1>2, <2>1, <2>2, QueriesKept
  <2> QED BY <2>1, <2>3, InvPartsNext
<1>3. ASSUME Begin PROVE Inv'
  BY <1>1, <1>3 DEF Begin
<1>4. ASSUME TimerDue PROVE Inv'
  <2>1. AskInv'
    BY <1>0, <1>4, Zenon DEF TimerDue, AskInv, FirstRequest
  <2>2. FlagInv'
    BY <1>0, <1>4, Zenon DEF TimerDue, FlagInv
  <2>3. QueryInv'
    BY <1>0, <1>4, Zenon DEF TimerDue, QueryInv, FirstCertificateIsSafe, queryVars
  <2> QED BY <2>1, <2>2, <2>3, InvPartsNext
<1>5. ASSUME TimerCallback PROVE Inv'
  BY <1>1, <1>5 DEF TimerCallback
<1>6. ASSUME RequestSent PROVE Inv'
  BY <1>6, RequestMoves DEF RequestSent
<1>7. ASSUME RequestSendFails PROVE Inv'
  BY <1>2, <1>7 DEF RequestSendFails
<1>8. ASSUME RequestLost PROVE Inv'
  BY <1>8, RequestMoves DEF RequestLost
<1>9. ASSUME AnswerUseless PROVE Inv'
  BY <1>2, <1>9 DEF AnswerUseless
<1>10. ASSUME AnswerUseful PROVE Inv'
  <2>1. PICK k \in 1..issued :
          /\ key' = k
          /\ request' = "none"
          /\ ready' = TRUE
          /\ AfterSuccess(due)
          /\ UNCHANGED <<loop, due, attempts, issued, queryVars>>
    BY <1>10 DEF AnswerUseful
  <2>2. /\ delay' \in DelayType
        /\ step' \in 0..Steps
        /\ delay' = 0 <=> delay = 0
    BY <1>0, <2>1, SuccessReschedules DEF FlagInv
  <2>3. k \in 1..MaxKey /\ request = "receiving"
    BY <1>0, <1>10, CertifierAssumption DEF AskInv, AnswerUseful
  <2>4. AskInv'
    BY <1>0, <2>1, <2>2, <2>3, CertifierAssumption DEF AskInv, FirstRequest
  <2>5. key' # 0
    BY <2>1, <2>3, CertifierAssumption
  <2>6. FlagInv'
    BY <1>0, <2>1, <2>2, <2>5, Zenon DEF FlagInv
  <2>7. attempts <= 1 => \A q \in Queries : phase[q] # "sent"
    BY <1>0, <2>3, CertifierAssumption DEF AskInv, FirstRequest, QueryInv
  <2>8. QueryInv'
    BY <1>0, <2>1, <2>5, <2>7, Zenon DEF QueryInv, FirstCertificateIsSafe, queryVars
  <2> QED BY <2>4, <2>6, <2>8, InvPartsNext
<1>11. ASSUME Rotate PROVE Inv'
  <2>1. AskInv'
    BY <1>0, <1>11, CertifierAssumption DEF Rotate, AskInv, FirstRequest, certVars
  <2>2. FlagInv'
    BY <1>0, <1>11, Zenon DEF Rotate, FlagInv, certVars
  <2>3. QueryInv'
    BY <1>0, <1>11, Zenon
    DEF Rotate, QueryInv, FirstCertificateIsSafe, queryVars, certVars
  <2> QED BY <2>1, <2>2, <2>3, InvPartsNext
<1>12. ASSUME LoopEnds PROVE Inv'
  <2>1. AskInv'
    BY <1>0, <1>12, Zenon DEF LoopEnds, AskInv, FirstRequest, certVars
  <2>2. FlagInv'
    BY <1>0, <1>12, Zenon DEF LoopEnds, FlagInv, certVars
  <2>3. QueryInv'
    BY <1>0, <1>12, Zenon
    DEF LoopEnds, QueryInv, FirstCertificateIsSafe, queryVars, certVars
  <2> QED BY <2>1, <2>2, <2>3, InvPartsNext
<1>13. ASSUME NEW q \in Queries, Choose(q) PROVE Inv'
  <2>1. key # 0
    BY <1>0, <1>13, Zenon DEF Choose, FlagInv
  <2> QED BY <1>13, <2>1, QueryMoves, Zenon DEF Choose
<1>14. ASSUME NEW q \in Queries, Fold(q) PROVE Inv'
  <2>1. key # 0
    BY <1>0, <1>14 DEF Fold, QueryInv
  <2> QED BY <1>14, <2>1, QueryMoves, Zenon DEF Fold
<1>15. ASSUME NEW q \in Queries, Unfold(q) PROVE Inv'
  <2>1. loop' \in {"running", "ended"}
    BY <1>15 DEF Unfold
  <2> QED BY <1>15, <2>1, QueryMoves, Zenon DEF Unfold
<1>16. ASSUME NEW q \in Queries, Drop(q) PROVE Inv'
  BY <1>16, QueryMoves, Zenon DEF Drop
<1>17. CASE UNCHANGED vars
  <2>1. AskInv'
    BY <1>0, <1>17, Zenon DEF vars, AskInv, FirstRequest, certVars
  <2>2. FlagInv'
    BY <1>0, <1>17, Zenon DEF vars, FlagInv, certVars
  <2>3. QueryInv'
    BY <1>0, <1>17, Zenon
    DEF vars, QueryInv, FirstCertificateIsSafe, queryVars, certVars
  <2> QED BY <2>1, <2>2, <2>3, InvPartsNext
<1> QED BY <1>3, <1>4, <1>5, <1>6, <1>7, <1>8, <1>9, <1>10, <1>11, <1>12, <1>13,
           <1>14, <1>15, <1>16, <1>17 DEF Next

-----------------------------------------------------------------------------
\* The invariant holds in every reachable state.
THEOREM Invariance == Spec => []Inv
<1>1. Init => Inv
  BY InitInv
<1>2. Inv /\ [Next]_vars => Inv'
  BY NextInv
<1> QED BY <1>1, <1>2, PTL DEF Spec

\* Every variable has its type: the delay stays within min_delay and max_delay
\* or is the one after a success, and the counters within their limits.
THEOREM TypeCorrect == Spec => []TypeOK
<1>1. Inv => TypeOK
  BY DEF Inv
<1> QED BY <1>1, Invariance, PTL

\* No query is encrypted without a key, in whatever order the certifier's and
\* the query's callbacks run.
THEOREM FoldHasKey == Spec => []ChosenHasKey
<1>1. Inv => ChosenHasKey
  BY Zenon DEF Inv, NoKeyIsUnused, ChosenHasKey
<1> QED BY <1>1, Invariance, PTL

\* certifier::update stops the timer only when all requests are used up.
THEOREM NeverStalls == Spec => []TimerRunsUntilGivenUp
<1>1. Inv => TimerRunsUntilGivenUp
  BY DEF Inv
<1> QED BY <1>1, Invariance, PTL

\* The first certificate that is installed disturbs no query in flight.
THEOREM FirstIsSafe == Spec => []FirstCertificateIsSafe
<1>1. Inv => FirstCertificateIsSafe
  BY DEF Inv
<1> QED BY <1>1, Invariance, PTL

\* attempts_ is never reset: with the timer stopped nothing changes the
\* certificate any more.
THEOREM NeverAsksAgain == Spec => GivenUpForGood
<1> DEFINE Frozen == delay = 0 => /\ delay' = 0 /\ attempts' = attempts
                                  /\ key' = key /\ ready' = ready
<1>1. ASSUME Inv, [Next]_vars PROVE Frozen
  <2> SUFFICES ASSUME delay = 0
               PROVE  delay' = 0 /\ attempts' = attempts /\ key' = key /\ ready' = ready
    OBVIOUS
  <2>1. attempts = AttemptLimit + 1 /\ request = "none" /\ ~due
    BY <1>1, Zenon DEF Inv, TimerRunsUntilGivenUp
  <2>2. ASSUME Update \/ AskThrows
        PROVE  delay' = 0 /\ attempts' = attempts /\ key' = key /\ ready' = ready
    <3>1. ~(attempts <= AttemptLimit)
      BY <2>1, CertifierAssumption
    <3> QED BY <2>1, <2>2, <3>1, Zenon DEF Update, StillAsking, GiveUp, Ask, AskFails, AskThrows
  <2>3. CASE Begin
    BY <2>2, <2>3 DEF Begin
  <2>4. CASE TimerDue \/ TimerCallback
    BY <2>1, <2>4, Zenon DEF TimerDue, TimerCallback
  <2>5. CASE RequestSent \/ RequestSendFails \/ RequestLost \/ AnswerUseless \/ AnswerUseful
    BY <2>1, <2>5, Zenon
    DEF RequestSent, RequestSendFails, RequestLost, AnswerUseless, AnswerUseful
  <2>6. CASE Rotate \/ LoopEnds \/ UNCHANGED vars
    BY <2>6, Zenon DEF Rotate, LoopEnds, vars, certVars
  <2>7. CASE \E q \in Queries : Choose(q) \/ Fold(q) \/ Unfold(q) \/ Drop(q)
    BY <2>7, Zenon DEF Choose, Fold, Unfold, Drop, certVars
  <2> QED BY <1>1, <2>3, <2>4, <2>5, <2>6, <2>7, Zenon DEF Next
<1>2. Inv /\ [Next]_vars => [Frozen]_vars
  BY <1>1
<1> QED BY <1>2, Invariance, PTL DEF Spec, GivenUpForGood

=============================================================================
