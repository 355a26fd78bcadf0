-------------------------- MODULE DescriptorsProofs --------------------------
(***************************************************************************)
(* Proofs about the clean-up loop and the descriptors of module            *)
(* Descriptors, for vectors of every length.                               *)
(*                                                                         *)
(* The loop is followed by the positions in the original vector of what is *)
(* left of it: kp[k] is where the k-th element that is left came from.     *)
(***************************************************************************)
EXTENDS Descriptors, FiniteSetTheorems, WellFoundedInduction, TLAPS

-----------------------------------------------------------------------------
(***************************************************************************)
(* The iterations of the loop.                                             *)
(***************************************************************************)

\* A set of numbers that is not empty has a least one.
LEMMA LeastNumber ==
  ASSUME NEW S, S \subseteq Nat, S # {}
  PROVE  \E x \in S : \A y \in S : x <= y
<1> DEFINE R == OpToRel(<, Nat)
<1>1. IsWellFoundedOn(R, Nat)
  BY NatLessThanWellFounded
<1>2. PICK x \in S : \A y \in S : <<y, x>> \notin R
  <2> HIDE DEF R
  <2> QED BY <1>1, WFMin
<1>3. \A y \in S : ~(y < x)
  BY <1>2 DEF OpToRel
<1> QED BY <1>3

\* A step of the loop from its n-th to its n + 1st state.
Start(q) == [reqs |-> q, i |-> 0, last |-> 0]

\* f holds the loop's variables after each of n iterations.
IsRun(f, n, q, closed) ==
  f = [m \in 0..n |-> IF m = 0 THEN Start(q) ELSE LoopStep(f[m - 1], closed)]

\* What LoopAfter's recursive definition defines exists.
LEMMA RunExists ==
  ASSUME NEW q, NEW closed, NEW N \in Nat
  PROVE  \E f : IsRun(f, N, q, closed)
<1> DEFINE S == {n \in Nat : ~ \E f : IsRun(f, n, q, closed)}
<1> SUFFICES ASSUME S # {} PROVE FALSE
  OBVIOUS
<1>1. PICK n \in S : \A m \in S : n <= m
  <2> S \subseteq Nat
    OBVIOUS
  <2> HIDE DEF S
  <2> QED BY LeastNumber
<1>2. CASE n = 0
  <2> DEFINE g == [m \in 0..0 |-> Start(q)]
  <2>1. g = [m \in 0..0 |-> IF m = 0 THEN Start(q) ELSE LoopStep(g[m - 1], closed)]
    OBVIOUS
  <2> HIDE DEF g
  <2> QED BY <1>2, <2>1 DEF IsRun
<1>3. CASE n # 0
  <2>1. n - 1 \in Nat /\ n - 1 \notin S
    BY <1>1, <1>3
  <2>2. PICK f : IsRun(f, n - 1, q, closed)
    BY <2>1
  <2> DEFINE g == [m \in 0..n |-> IF m = n THEN LoopStep(f[n - 1], closed) ELSE f[m]]
  <2>3. ASSUME NEW m \in 0..n
        PROVE  g[m] = IF m = 0 THEN Start(q) ELSE LoopStep(g[m - 1], closed)
    <3>1. CASE m = n
      <4>1. g[m] = LoopStep(f[n - 1], closed) /\ g[m - 1] = f[n - 1]
        BY <3>1, <2>1
      <4> HIDE DEF g
      <4> QED BY <4>1, <3>1, <1>3
    <3>2. CASE m # n
      <4>1. m \in 0..(n - 1)
        BY <3>2
      <4>2. f[m] = IF m = 0 THEN Start(q) ELSE LoopStep(f[m - 1], closed)
        BY <2>2, <4>1 DEF IsRun
      <4>3. g[m] = f[m] /\ (m # 0 => g[m - 1] = f[m - 1])
        BY <3>2, <4>1
      <4> HIDE DEF g
      <4> QED BY <4>2, <4>3
    <3> QED BY <3>1, <3>2
  <2>4. g = [m \in 0..n |-> g[m]]
    OBVIOUS
  <2>5. g = [m \in 0..n |-> IF m = 0 THEN Start(q) ELSE LoopStep(g[m - 1], closed)]
    <3> HIDE DEF g
    <3> QED BY <2>3, <2>4
  <2>6. IsRun(g, n, q, closed)
    <3> HIDE DEF g
    <3> QED BY <2>5 DEF IsRun
  <2> HIDE DEF g
  <2> QED BY <2>6
<1> QED BY <1>2, <1>3

\* What holds of the loop's variables at the start, and is handed on by each of
\* its iterations, holds at its end.  J[n] is the set of states with what is
\* claimed after n iterations.
LEMMA LoopInduction ==
  ASSUME NEW q, NEW closed, Len(q) \in Nat, NEW J,
         Start(q) \in J[0],
         \A n \in 0..(Len(q) - 1) : \A s \in J[n] : LoopStep(s, closed) \in J[n + 1]
  PROVE  LoopAfter(q, closed) \in J[Len(q)]
<1>1. \E f : IsRun(f, Len(q), q, closed)
  BY RunExists
<1>2. \E g : LoopAfter(q, closed) = g[Len(q)] /\ IsRun(g, Len(q), q, closed)
  BY <1>1, Zenon DEF LoopAfter, IsRun, Start
<1>3. PICK g : LoopAfter(q, closed) = g[Len(q)] /\ IsRun(g, Len(q), q, closed)
  BY <1>2
<1>4. \A m \in 0..Len(q) :
        g[m] = IF m = 0 THEN Start(q) ELSE LoopStep(g[m - 1], closed)
  BY <1>3 DEF IsRun
<1> DEFINE S == {n \in Nat : n <= Len(q) /\ g[n] \notin J[n]}
<1>5. ASSUME S # {} PROVE FALSE
  <2>1. PICK n \in S : \A m \in S : n <= m
    <3> S \subseteq Nat
      OBVIOUS
    <3> HIDE DEF S
    <3> QED BY <1>5, LeastNumber
  <2>2. n # 0
    BY <2>1, <1>4
  <2>3. n - 1 \in 0..(Len(q) - 1) /\ n - 1 \notin S
    BY <2>1, <2>2
  <2>4. g[n - 1] \in J[n - 1]
    BY <2>3
  <2>5. g[n] = LoopStep(g[n - 1], closed)
    BY <1>4, <2>2
  <2> QED BY <2>3, <2>4, <2>5
<1> QED BY <1>5, <1>3

-----------------------------------------------------------------------------
(***************************************************************************)
(* The positions that Compaction!Survivors names.  N is the length of the  *)
(* vector and cl the set of its positions with a closed request.           *)
(***************************************************************************)

Looked(N, cl) == C!Examined(1..N, cl)
Left(N, cl)   == C!Survivors(1..N, cl)

\* The position behind j is stepped over exactly when j is erased.
LEMMA SameCardinality ==
  ASSUME NEW S
  PROVE  C!Cardinality(S) = Cardinality(S)
BY Zenon DEF C!Cardinality, Cardinality

LEMMA LookedStep ==
  ASSUME NEW N \in Nat, NEW cl \in SUBSET (1..N)
  PROVE  /\ Looked(N, cl) \subseteq 1..N
         /\ 1 <= N => 1 \in Looked(N, cl)
         /\ \A j \in 1..N : j + 1 <= N =>
              (j + 1 \in Looked(N, cl) <=> ~(j \in cl /\ j \in Looked(N, cl)))
<1> DEFINE B(j) == C!ClosedRunBefore(1..N, cl, j)
<1>1. \A j \in 1..(N + 1) : IsFiniteSet(B(j)) /\ Cardinality(B(j)) \in Nat
  <2> TAKE j \in 1..(N + 1)
  <2>1. B(j) \in SUBSET (1..N)
    BY DEF C!ClosedRunBefore
  <2>2. IsFiniteSet(1..N)
    BY FS_Interval
  <2>3. IsFiniteSet(B(j))
    <3> HIDE DEF B
    <3> QED BY <2>1, <2>2, FS_Subset
  <2> QED BY <2>3, FS_CardinalityType
<1>2. B(1) = {}
  BY DEF C!ClosedRunBefore
<1>3. ASSUME NEW j \in 1..N, j \in cl PROVE B(j + 1) = B(j) \cup {j} /\ j \notin B(j)
  <2>1. \A k \in 1..N : k \in B(j + 1) <=> (k \in B(j) \/ k = j)
    BY <1>3 DEF C!ClosedRunBefore
  <2>2. B(j + 1) \subseteq 1..N /\ B(j) \subseteq 1..N /\ j \notin B(j)
    BY DEF C!ClosedRunBefore
  <2> HIDE DEF B
  <2> QED BY <2>1, <2>2
<1>4. ASSUME NEW j \in 1..N, j \notin cl PROVE B(j + 1) = {}
  BY <1>4 DEF C!ClosedRunBefore
<1>5. \A j \in 1..N : j \in Looked(N, cl) <=> Cardinality(B(j)) % 2 = 0
  BY SameCardinality DEF Looked, C!Examined
<1>6. Looked(N, cl) \subseteq 1..N
  BY DEF Looked, C!Examined
<1> HIDE DEF B
<1>7. 1 <= N => 1 \in Looked(N, cl)
  <2>1. Cardinality(B(1)) = 0
    BY <1>2, FS_EmptySet
  <2>2. 1 <= N => 1 \in 1..N
    OBVIOUS
  <2> QED BY <1>5, <2>1, <2>2
<1>8. ASSUME NEW j \in 1..N, j + 1 <= N
      PROVE  j + 1 \in Looked(N, cl) <=> ~(j \in cl /\ j \in Looked(N, cl))
  <2>0. j + 1 \in 1..N
    BY <1>8
  <2>1. CASE j \in cl
    <3>1. Cardinality(B(j + 1)) = Cardinality(B(j)) + 1
      BY <1>1, <1>3, <2>1, FS_AddElement
    <3>2. Cardinality(B(j)) \in Nat
      BY <1>1
    <3>3. \A c \in Nat : (c + 1) % 2 = 0 <=> ~(c % 2 = 0)
      BY SMT
    <3>4. Cardinality(B(j + 1)) % 2 = 0 <=> ~(Cardinality(B(j)) % 2 = 0)
      BY <3>1, <3>2, <3>3
    <3> QED BY <3>4, <2>0, <2>1, <1>5
  <2>2. CASE j \notin cl
    <3>1. Cardinality(B(j + 1)) = 0
      BY <1>4, <2>2, FS_EmptySet
    <3> QED BY <3>1, <2>0, <2>2, <1>5
  <2> QED BY <2>1, <2>2
<1> QED BY <1>6, <1>7, <1>8

-----------------------------------------------------------------------------
(***************************************************************************)
(* The invariant of the loop.  r is the vector as it is now, of L elements,*)
(* i and la are the loop's index and its last.  The element that the loop  *)
(* looks at next came from position i + (N - L) + 1.                       *)
(***************************************************************************)

\* kp gives the position in q of every element that is left: in their order, and
\* untouched from the index i on.
Traced(q, N, r, L, i, kp) ==
  /\ kp \in [1..L -> 1..N]
  /\ \A k \in 1..L : r[k] = q[kp[k]]
  /\ \A k, m \in 1..L : k < m => kp[k] < kp[m]
  /\ \A k \in 1..L : k > i => kp[k] = k + (N - L)

\* What was erased of the first p positions are the closed elements that were
\* looked at.
ErasedSoFar(N, cl, p, L, kp) ==
  /\ \A j \in 1..N : (\E k \in 1..L : kp[k] = j)
                       <=> (j > p \/ ~(j \in cl /\ j \in Looked(N, cl)))
  /\ p + 1 <= N => p + 1 \in Looked(N, cl)

\* last is behind the last open one that was looked at of the first p positions.
LastSoFar(N, cl, p, la, kp) ==
  /\ la > 0 => kp[la] \in Looked(N, cl) \ cl
  /\ \A j \in Looked(N, cl) \ cl : j <= p => la > 0 /\ j <= kp[la]

LoopInv(q, N, cl, r, L, i, la, kp) ==
  /\ L <= N /\ la <= i /\ la <= L
  /\ Traced(q, N, r, L, i, kp)
  /\ ErasedSoFar(N, cl, i + (N - L), L, kp)
  /\ LastSoFar(N, cl, i + (N - L), la, kp)

\* What a concatenation holds, place by place.
LEMMA ConcatParts ==
  ASSUME NEW S, NEW s \in Seq(S), NEW t \in Seq(S)
  PROVE  /\ s \o t \in Seq(S) /\ Len(s \o t) = Len(s) + Len(t)
         /\ \A k \in 1..Len(s) : (s \o t)[k] = s[k]
         /\ \A k \in 1..Len(t) : (s \o t)[Len(s) + k] = t[k]
OBVIOUS

\* erase(begin + i) takes one element out and moves the ones behind it.
LEMMA EraseMoves ==
  ASSUME NEW S, NEW r \in Seq(S), NEW i \in Nat, i < Len(r)
  PROVE  LET t == SubSeq(r, 1, i) \o SubSeq(r, i + 2, Len(r))
         IN  /\ t \in Seq(S)
             /\ Len(t) = Len(r) - 1
             /\ \A k \in 1..(Len(r) - 1) : t[k] = IF k <= i THEN r[k] ELSE r[k + 1]
<1> DEFINE a == SubSeq(r, 1, i)
           b == SubSeq(r, i + 2, Len(r))
           t == a \o b
<1>0. Len(r) \in Nat
  OBVIOUS
<1>1. /\ a \in Seq(S) /\ Len(a) = i
      /\ \A k \in 1..i : a[k] = r[k]
  BY <1>0
<1>2. /\ b \in Seq(S) /\ Len(b) = Len(r) - i - 1
      /\ \A k \in 1..(Len(r) - i - 1) : b[k] = r[k + i + 1]
  BY <1>0
<1> HIDE DEF a, b
<1>3. /\ t \in Seq(S) /\ Len(t) = Len(a) + Len(b)
      /\ \A k \in 1..Len(a) : t[k] = a[k]
      /\ \A k \in 1..Len(b) : t[Len(a) + k] = b[k]
  BY <1>1, <1>2, ConcatParts
<1> HIDE DEF t
<1>4. Len(t) = Len(r) - 1
  BY <1>0, <1>1, <1>2, <1>3
<1>5. ASSUME NEW k \in 1..(Len(r) - 1) PROVE t[k] = IF k <= i THEN r[k] ELSE r[k + 1]
  <2>1. CASE k <= i
    BY <2>1, <1>1, <1>3
  <2>2. CASE k > i
    <3>1. /\ k - i \in 1..(Len(r) - i - 1) /\ ~(k <= i)
          /\ (k - i) + i + 1 = k + 1 /\ i + (k - i) = k
      BY <2>2, <1>0
    <3>2. t[k] = b[k - i]
      BY <3>1, <1>1, <1>2, <1>3
    <3>3. b[k - i] = r[(k - i) + i + 1]
      BY <3>1, <1>2
    <3> QED BY <3>1, <3>2, <3>3
  <2> QED BY <2>1, <2>2
<1> QED BY <1>3, <1>4, <1>5, Zenon DEF t, a, b

\* A closed element is looked at and erased, and the next one is stepped over.
LEMMA EraseStep ==
  ASSUME NEW q, NEW N \in Nat, NEW cl \in SUBSET (1..N),
         NEW r, NEW L \in Nat, NEW i \in Nat, NEW la \in Nat, NEW kp,
         LoopInv(q, N, cl, r, L, i, la, kp),
         i < L, kp[i + 1] \in cl,
         NEW t, \A k \in 1..(L - 1) : t[k] = IF k <= i THEN r[k] ELSE r[k + 1]
  PROVE  \E kt : LoopInv(q, N, cl, t, L - 1, i + 1, la, kt)
<1> DEFINE p  == i + (N - L)
           kt == [k \in 1..(L - 1) |-> IF k <= i THEN kp[k] ELSE kp[k + 1]]
<1>1. /\ L <= N /\ la <= i /\ la <= L - 1 /\ L - 1 \in Nat
      /\ kp \in [1..L -> 1..N] /\ \A k \in 1..L : r[k] = q[kp[k]]
  BY DEF LoopInv, Traced
<1>2. \A k, m \in 1..L : k < m => kp[k] < kp[m]
  BY DEF LoopInv, Traced
<1>3. \A k \in 1..L : k > i => kp[k] = k + (N - L)
  BY DEF LoopInv, Traced
<1>4. \A j \in 1..N : (\E k \in 1..L : kp[k] = j)
                       <=> (j > p \/ ~(j \in cl /\ j \in Looked(N, cl)))
  BY DEF LoopInv, ErasedSoFar
<1>5. p \in Nat /\ (i + 1) + (N - (L - 1)) = p + 2 /\ p + 1 \in 1..N /\ i + 1 \in 1..L
  BY <1>1
<1>6. kp[i + 1] = p + 1
  BY <1>1, <1>3, <1>5
<1>7. p + 1 \in cl /\ p + 1 \in Looked(N, cl)
  BY <1>5, <1>6 DEF LoopInv, ErasedSoFar
<1> HIDE DEF p
<1>8. p + 2 <= N => p + 2 \notin Looked(N, cl)
  <2>1. (p + 1) + 1 = p + 2
    BY <1>5
  <2> QED BY <1>5, <1>7, <2>1, LookedStep
<1>9. p + 3 <= N => p + 3 \in Looked(N, cl)
  <2>1. (p + 2) + 1 = p + 3 /\ (p + 3 <= N => p + 2 \in 1..N)
    BY <1>5
  <2> QED BY <1>5, <1>8, <2>1, LookedStep
<1>10. Looked(N, cl) \subseteq 1..N
  BY LookedStep
<1>11. \A k \in 1..(L - 1) :
         /\ k <= i => kt[k] = kp[k] /\ k \in 1..L
         /\ k > i  => kt[k] = kp[k + 1] /\ k + 1 \in 1..L
  BY <1>1
<1>12. kt \in [1..(L - 1) -> 1..N]
  BY <1>1
<1> HIDE DEF kt
<1>13. Traced(q, N, t, L - 1, i + 1, kt)
  <2>2. ASSUME NEW k \in 1..(L - 1) PROVE t[k] = q[kt[k]]
    <3>1. CASE k <= i
      <4>1. t[k] = r[k] /\ kt[k] = kp[k] /\ k \in 1..L
        BY <3>1, <1>11
      <4> QED BY <4>1, <1>1
    <3>2. CASE k > i
      <4>1. t[k] = r[k + 1] /\ kt[k] = kp[k + 1] /\ k + 1 \in 1..L
        BY <3>2, <1>11
      <4> QED BY <4>1, <1>1
    <3> QED BY <3>1, <3>2
  <2>3. \A k, m \in 1..(L - 1) : k < m => kt[k] < kt[m]
    <3> TAKE k, m \in 1..(L - 1)
    <3> HAVE k < m
    <3>1. CASE k <= i /\ m <= i
      BY <3>1, <1>11, <1>2
    <3>2. CASE k <= i /\ m > i
      BY <3>2, <1>11, <1>2
    <3>3. CASE k > i /\ m > i
      BY <3>3, <1>11, <1>2
    <3> QED BY <3>1, <3>2, <3>3
  <2>4. \A k \in 1..(L - 1) : k > i + 1 => kt[k] = k + (N - (L - 1))
    BY <1>1, <1>3, <1>11
  <2> QED BY <1>12, <2>2, <2>3, <2>4 DEF Traced
<1>14. ASSUME NEW j \in 1..N
       PROVE  (\E k \in 1..(L - 1) : kt[k] = j)
                <=> ((\E k \in 1..L : kp[k] = j) /\ j # p + 1)
  <2>1. ASSUME NEW k \in 1..(L - 1), kt[k] = j
        PROVE  (\E m \in 1..L : kp[m] = j) /\ j # p + 1
    <3>1. CASE k <= i
      <4>1. kp[k] = j /\ k \in 1..L /\ k < i + 1
        BY <2>1, <3>1, <1>11
      <4>2. kp[k] < kp[i + 1]
        BY <4>1, <1>2, <1>5
      <4> QED BY <4>1, <4>2, <1>5, <1>6
    <3>2. CASE k > i
      <4>1. kp[k + 1] = j /\ k + 1 \in 1..L /\ i + 1 < k + 1
        BY <2>1, <3>2, <1>11
      <4>2. kp[i + 1] < kp[k + 1]
        BY <4>1, <1>2, <1>5
      <4> QED BY <4>1, <4>2, <1>5, <1>6
    <3> QED BY <3>1, <3>2
  <2>2. ASSUME NEW m \in 1..L, kp[m] = j, j # p + 1
        PROVE  \E k \in 1..(L - 1) : kt[k] = j
    <3>1. m # i + 1
      BY <2>2, <1>6
    <3>2. CASE m <= i
      <4>1. m \in 1..(L - 1)
        BY <3>2
      <4> QED BY <4>1, <3>2, <2>2, <1>11
    <3>3. CASE m > i + 1
      <4>1. m - 1 \in 1..(L - 1) /\ m - 1 > i /\ (m - 1) + 1 = m
        BY <3>3
      <4>2. kt[m - 1] = j
        BY <4>1, <2>2, <1>11
      <4> QED BY <4>1, <4>2
    <3> QED BY <3>1, <3>2, <3>3
  <2> QED BY <2>1, <2>2
<1>15. ErasedSoFar(N, cl, p + 2, L - 1, kt)
  <2>2. \A j \in 1..N : (\E k \in 1..(L - 1) : kt[k] = j)
                 <=> (j > p + 2 \/ ~(j \in cl /\ j \in Looked(N, cl)))
    <3> TAKE j \in 1..N
    <3>1. j > p /\ j # p + 1 <=> j > p + 2 \/ j = p + 2
      BY <1>5
    <3>2. j > p + 2 => j > p
      BY <1>5
    <3>3. j = p + 2 => j \notin Looked(N, cl)
      BY <1>8
    <3> QED BY <3>1, <3>2, <3>3, <1>4, <1>14, <1>7
  <2>3. (p + 2) + 1 = p + 3
    BY <1>5
  <2> QED BY <2>2, <2>3, <1>9 DEF ErasedSoFar
<1>16. LastSoFar(N, cl, p + 2, la, kt)
  <2>2. la > 0 => kt[la] = kp[la]
    BY <1>1, <1>11
  <2>3. la > 0 => kp[la] \in Looked(N, cl) \ cl
    BY DEF LoopInv, LastSoFar
  <2>4. ASSUME NEW j \in Looked(N, cl) \ cl, j <= p + 2
        PROVE  la > 0 /\ j <= kt[la]
    <3>1. j \in 1..N /\ j <= p
      BY <2>4, <1>5, <1>7, <1>8, <1>10
    <3>2. la > 0 /\ j <= kp[la]
      BY <3>1 DEF LoopInv, LastSoFar, p
    <3> QED BY <3>2, <2>2
  <2> QED BY <2>2, <2>3, <2>4 DEF LastSoFar
<1>17. L - 1 <= N /\ la <= i + 1 /\ la <= L - 1
  BY <1>1
<1> QED BY <1>5, <1>13, <1>15, <1>16, <1>17 DEF LoopInv

\* An open element is looked at and kept.
LEMMA OpenStep ==
  ASSUME NEW q, NEW N \in Nat, NEW cl \in SUBSET (1..N),
         NEW r, NEW L \in Nat, NEW i \in Nat, NEW la \in Nat, NEW kp,
         LoopInv(q, N, cl, r, L, i, la, kp),
         i < L, kp[i + 1] \notin cl
  PROVE  LoopInv(q, N, cl, r, L, i + 1, i + 1, kp)
<1> DEFINE p == i + (N - L)
<1>1. /\ L <= N /\ kp \in [1..L -> 1..N] /\ \A k \in 1..L : r[k] = q[kp[k]]
      /\ \A k, m \in 1..L : k < m => kp[k] < kp[m]
      /\ \A k \in 1..L : k > i => kp[k] = k + (N - L)
  BY DEF LoopInv, Traced
<1>2. \A j \in 1..N : (\E k \in 1..L : kp[k] = j)
                       <=> (j > p \/ ~(j \in cl /\ j \in Looked(N, cl)))
  BY DEF LoopInv, ErasedSoFar
<1>3. p \in Nat /\ (i + 1) + (N - L) = p + 1 /\ p + 1 \in 1..N /\ i + 1 \in 1..L
  BY <1>1
<1>4. kp[i + 1] = p + 1
  BY <1>1, <1>3
<1>5. p + 1 \notin cl /\ p + 1 \in Looked(N, cl)
  BY <1>3, <1>4 DEF LoopInv, ErasedSoFar
<1> HIDE DEF p
<1>6. (p + 1) + 1 <= N => (p + 1) + 1 \in Looked(N, cl)
  BY <1>3, <1>5, LookedStep
<1>7. Looked(N, cl) \subseteq 1..N
  BY LookedStep
<1>8. Traced(q, N, r, L, i + 1, kp)
  BY <1>1 DEF Traced
<1>9. ErasedSoFar(N, cl, p + 1, L, kp)
  <2>1. \A j \in 1..N : j > p <=> j > p + 1 \/ j = p + 1
    BY <1>3
  <2> QED BY <2>1, <1>2, <1>5, <1>6 DEF ErasedSoFar
<1>10. LastSoFar(N, cl, p + 1, i + 1, kp)
  BY <1>3, <1>4, <1>5, <1>7 DEF LastSoFar
<1> QED BY <1>1, <1>3, <1>8, <1>9, <1>10 DEF LoopInv

\* The positions of q with a closed request.
ClosedPlaces(q, closed) == {j \in 1..Len(q) : q[j] \in closed}

LoopVariables(S) == [reqs : Seq(S), i : Nat, last : Nat]

\* The loop ends behind its vector, with its invariant.
LEMMA LoopEnds ==
  ASSUME NEW S, NEW q \in Seq(S), NEW closed
  PROVE  LET s == LoopAfter(q, closed)
         IN  /\ s \in LoopVariables(S)
             /\ s.i >= Len(s.reqs)
             /\ \E kp : LoopInv(q, Len(q), ClosedPlaces(q, closed), s.reqs,
                                Len(s.reqs), s.i, s.last, kp)
<1> DEFINE N  == Len(q)
           cl == ClosedPlaces(q, closed)
           Good(s) == \E kp : LoopInv(q, N, cl, s.reqs, Len(s.reqs), s.i, s.last, kp)
           J == [n \in 0..N |-> {s \in LoopVariables(S) :
                                   (s.i = n \/ s.i >= Len(s.reqs)) /\ Good(s)}]
<1>1. N \in Nat /\ cl \in SUBSET (1..N)
  BY DEF ClosedPlaces
<1>2. Start(q) \in J[0]
  <2> DEFINE id == [k \in 1..N |-> k]
  <2>1. /\ Start(q) \in LoopVariables(S)
        /\ Start(q).reqs = q /\ Start(q).i = 0 /\ Start(q).last = 0
    BY DEF Start, LoopVariables
  <2>2. id \in [1..N -> 1..N] /\ \A k \in 1..N : id[k] = k
    OBVIOUS
  <2> HIDE DEF N, cl, id
  <2>3. 0 + (N - N) = 0
    BY <1>1
  <2>4. Traced(q, N, q, N, 0, id)
    BY <1>1, <2>2 DEF Traced
  <2>5. Looked(N, cl) \subseteq 1..N /\ (1 <= N => 1 \in Looked(N, cl))
    BY <1>1, LookedStep
  <2>6. ErasedSoFar(N, cl, 0, N, id)
    BY <1>1, <2>2, <2>5 DEF ErasedSoFar
  <2>7. LastSoFar(N, cl, 0, 0, id)
    BY <1>1, <2>5 DEF LastSoFar
  <2>8. LoopInv(q, N, cl, q, N, 0, 0, id)
    BY <1>1, <2>3, <2>4, <2>6, <2>7 DEF LoopInv
  <2>9. Good(Start(q))
    BY <2>1, <2>8 DEF N
  <2> HIDE DEF Good
  <2> QED BY <1>1, <2>1, <2>9
<1>3. ASSUME NEW n \in 0..(N - 1), NEW s \in J[n]
      PROVE  LoopStep(s, closed) \in J[n + 1]
  <2>1. /\ s \in LoopVariables(S) /\ (s.i = n \/ s.i >= Len(s.reqs))
        /\ Good(s)
    BY <1>1, <1>3
  <2>2. /\ s.reqs \in Seq(S) /\ s.i \in Nat /\ s.last \in Nat /\ Len(s.reqs) \in Nat
        /\ s = [reqs |-> s.reqs, i |-> s.i, last |-> s.last]
    BY <2>1 DEF LoopVariables
  <2>3. PICK kp : LoopInv(q, N, cl, s.reqs, Len(s.reqs), s.i, s.last, kp)
    BY <2>1
  <2>4. n + 1 \in 0..N
    BY <1>1
  <2> HIDE DEF N, cl
  <2>5. CASE s.i >= Len(s.reqs)
    <3>1. LoopStep(s, closed) = s
      BY <2>5 DEF LoopStep
    <3> HIDE DEF Good
    <3> QED BY <3>1, <2>1, <2>4, <2>5
  <2>6. ASSUME ~(s.i >= Len(s.reqs)) PROVE LoopStep(s, closed) \in J[n + 1]
    <3>1. s.i < Len(s.reqs) /\ s.i + 1 \in 1..Len(s.reqs) /\ s.i = n
      BY <2>1, <2>2, <2>6
    <3>2. s.reqs[s.i + 1] = q[kp[s.i + 1]] /\ kp[s.i + 1] \in 1..N
      BY <2>3, <3>1 DEF LoopInv, Traced
    <3>3. s.reqs[s.i + 1] \in closed <=> kp[s.i + 1] \in cl
      BY <3>2 DEF cl, N, ClosedPlaces
    <3>4. CASE s.reqs[s.i + 1] \in closed
      <4> DEFINE r == SubSeq(s.reqs, 1, s.i) \o SubSeq(s.reqs, s.i + 2, Len(s.reqs))
                 t == [reqs |-> r, i |-> s.i + 1, last |-> s.last]
      <4>1. LoopStep(s, closed) = t
        BY <2>6, <3>4 DEF LoopStep
      <4>2. /\ r \in Seq(S) /\ Len(r) = Len(s.reqs) - 1
            /\ \A k \in 1..(Len(s.reqs) - 1) :
                 r[k] = IF k <= s.i THEN s.reqs[k] ELSE s.reqs[k + 1]
        BY <2>2, <3>1, EraseMoves, Zenon
      <4> HIDE DEF r
      <4>3. \E kt : LoopInv(q, N, cl, r, Len(s.reqs) - 1, s.i + 1, s.last, kt)
        BY <1>1, <2>2, <2>3, <3>1, <3>3, <3>4, <4>2, EraseStep
      <4>4. t \in LoopVariables(S) /\ t.reqs = r /\ t.i = n + 1 /\ t.last = s.last
        BY <2>2, <3>1, <4>2 DEF LoopVariables
      <4> HIDE DEF t
      <4>5. Good(t)
        BY <3>1, <4>2, <4>3, <4>4
      <4> HIDE DEF Good
      <4> QED BY <2>4, <4>1, <4>4, <4>5
    <3>5. CASE s.reqs[s.i + 1] \notin closed
      <4> DEFINE t == [reqs |-> s.reqs, i |-> s.i + 1, last |-> s.i + 1]
      <4>1. LoopStep(s, closed) = t
        BY <2>6, <3>5 DEF LoopStep
      <4>2. LoopInv(q, N, cl, s.reqs, Len(s.reqs), s.i + 1, s.i + 1, kp)
        BY <1>1, <2>2, <2>3, <3>1, <3>3, <3>5, OpenStep
      <4>3. t \in LoopVariables(S) /\ t.reqs = s.reqs /\ t.i = n + 1 /\ t.last = n + 1
        BY <2>2, <3>1 DEF LoopVariables
      <4> HIDE DEF t
      <4>4. Good(t)
        BY <3>1, <4>2, <4>3
      <4> HIDE DEF Good
      <4> QED BY <2>4, <4>1, <4>3, <4>4
    <3> QED BY <3>4, <3>5
  <2> QED BY <2>5, <2>6
<1>4. LoopAfter(q, closed) \in J[N]
  <2> HIDE DEF J
  <2> QED BY <1>1, <1>2, <1>3, LoopInduction
<1>5. ASSUME NEW s, s \in J[N] PROVE s \in LoopVariables(S) /\ s.i >= Len(s.reqs) /\ Good(s)
  <2>1. s \in LoopVariables(S) /\ (s.i = N \/ s.i >= Len(s.reqs)) /\ Good(s)
    BY <1>1, <1>5
  <2>2. Len(s.reqs) <= N
    BY <2>1 DEF LoopInv
  <2>3. Len(s.reqs) \in Nat
    BY <2>1 DEF LoopVariables
  <2> HIDE DEF Good
  <2> QED BY <1>1, <2>1, <2>2, <2>3
<1> HIDE DEF J
<1> QED BY <1>4, <1>5

\* The positions of what a pass keeps: kp is the enumeration of the survivors in
\* their order.
Keeps(N, cl, q, c, kp) ==
  /\ kp \in [1..Len(c) -> 1..N]
  /\ \A k \in 1..Len(c) : c[k] = q[kp[k]]
  /\ \A k, m \in 1..Len(c) : k < m => kp[k] < kp[m]
  /\ \A j \in 1..N : (\E k \in 1..Len(c) : kp[k] = j) <=> j \in Left(N, cl)
  /\ Len(c) > 0 => kp[Len(c)] \in Looked(N, cl) \ cl

\* What Compact leaves are the survivors; resize(last) makes the vector shorter.
LEMMA CompactKeeps ==
  ASSUME NEW S, NEW q \in Seq(S), NEW closed
  PROVE  /\ Compact(q, closed) \in Seq(S)
         /\ Len(Compact(q, closed)) = LoopAfter(q, closed).last
         /\ LoopAfter(q, closed).last <= Len(LoopAfter(q, closed).reqs)
         /\ \E kp : Keeps(Len(q), ClosedPlaces(q, closed), q, Compact(q, closed), kp)
<1> DEFINE N  == Len(q)
           cl == ClosedPlaces(q, closed)
           s  == LoopAfter(q, closed)
           c  == Compact(q, closed)
           L  == Len(s.reqs)
<1>1. N \in Nat /\ cl \in SUBSET (1..N)
  BY DEF ClosedPlaces
<1>2. s \in LoopVariables(S) /\ s.i >= L
  BY LoopEnds
<1>3. PICK kp : LoopInv(q, N, cl, s.reqs, L, s.i, s.last, kp)
  BY LoopEnds
<1>4. c = SubSeq(s.reqs, 1, s.last)
  BY DEF Compact
<1> HIDE DEF N, cl, s, c
<1>5. s.reqs \in Seq(S) /\ s.i \in Nat /\ s.last \in Nat /\ L \in Nat
  BY <1>2 DEF LoopVariables
<1>6. L <= N /\ s.last <= L /\ Traced(q, N, s.reqs, L, s.i, kp)
  BY <1>3 DEF LoopInv
<1>7. c \in Seq(S) /\ Len(c) = s.last /\ \A k \in 1..s.last : c[k] = s.reqs[k]
  BY <1>4, <1>5, <1>6
<1> DEFINE p  == s.i + (N - L)
           kc == [k \in 1..s.last |-> kp[k]]
<1>8. p \in Nat /\ p >= N
  BY <1>1, <1>2, <1>5, <1>6
<1>9. \A j \in 1..N : (\E k \in 1..L : kp[k] = j) <=> ~(j \in cl /\ j \in Looked(N, cl))
  <2>1. \A j \in 1..N : (\E k \in 1..L : kp[k] = j)
                       <=> (j > p \/ ~(j \in cl /\ j \in Looked(N, cl)))
    BY <1>3 DEF LoopInv, ErasedSoFar
  <2> HIDE DEF p
  <2> QED BY <2>1, <1>1, <1>8
<1>10. /\ s.last > 0 => kp[s.last] \in Looked(N, cl) \ cl
       /\ \A j \in Looked(N, cl) \ cl : s.last > 0 /\ j <= kp[s.last]
  <2>1. LastSoFar(N, cl, p, s.last, kp)
    BY <1>3 DEF LoopInv
  <2>2. Looked(N, cl) \subseteq 1..N
    BY <1>1, LookedStep
  <2> HIDE DEF p
  <2> QED BY <1>1, <1>8, <2>1, <2>2 DEF LastSoFar
<1>11. /\ kp \in [1..L -> 1..N]
       /\ \A k \in 1..L : s.reqs[k] = q[kp[k]]
       /\ \A k, m \in 1..L : k < m => kp[k] < kp[m]
  BY <1>6 DEF Traced
<1>12. /\ kc \in [1..s.last -> 1..N]
       /\ \A k \in 1..s.last : k \in 1..L /\ kc[k] = kp[k]
  BY <1>5, <1>6, <1>11
<1> HIDE DEF kc
<1>13. \A k \in 1..s.last : c[k] = q[kc[k]]
  BY <1>7, <1>11, <1>12
<1>14. \A k, m \in 1..s.last : k < m => kc[k] < kc[m]
  BY <1>11, <1>12
<1>15. ASSUME NEW j \in 1..N
       PROVE  (\E k \in 1..s.last : kc[k] = j) <=> j \in Left(N, cl)
  <2>1. j \in Left(N, cl) <=> /\ ~(j \in cl /\ j \in Looked(N, cl))
                              /\ \E k \in Looked(N, cl) \ cl : j <= k
    BY DEF Left, Looked, C!Survivors
  <2>2. ASSUME NEW k \in 1..s.last, kc[k] = j PROVE j \in Left(N, cl)
    <3>1. kp[k] = j /\ k \in 1..L /\ s.last > 0 /\ s.last \in 1..L
      BY <2>2, <1>5, <1>6, <1>12
    <3>2. kp[s.last] \in Looked(N, cl) \ cl
      BY <3>1, <1>10
    <3>3. j <= kp[s.last]
      <4>1. CASE k = s.last
        BY <4>1, <3>1, <1>11
      <4>2. CASE k < s.last
        BY <4>2, <3>1, <1>11
      <4> QED BY <4>1, <4>2, <1>5
    <3> QED BY <2>1, <3>1, <3>2, <3>3, <1>9
  <2>3. ASSUME j \in Left(N, cl) PROVE \E k \in 1..s.last : kc[k] = j
    <3>1. PICK k \in 1..L : kp[k] = j
      BY <2>1, <2>3, <1>9
    <3>2. PICK e \in Looked(N, cl) \ cl : j <= e
      BY <2>1, <2>3
    <3>3. s.last > 0 /\ e <= kp[s.last] /\ s.last \in 1..L
      BY <1>10, <1>5, <1>6
    <3>4. kp[s.last] \in 1..N /\ e \in 1..N
      BY <3>3, <1>11, <1>1, LookedStep
    <3>5. ~(s.last < k)
      <4>1. s.last < k => kp[s.last] < kp[k]
        BY <3>3, <1>11
      <4> QED BY <4>1, <3>1, <3>2, <3>3, <3>4
    <3>6. k \in 1..s.last
      BY <3>5, <1>5
    <3> QED BY <3>1, <3>6, <1>12
  <2> QED BY <2>2, <2>3
<1>16. s.last > 0 => kc[s.last] \in Looked(N, cl) \ cl
  BY <1>5, <1>10, <1>12
<1>17. Keeps(N, cl, q, c, kc)
  BY <1>7, <1>12, <1>13, <1>14, <1>15, <1>16 DEF Keeps
<1> QED BY <1>6, <1>7, <1>17 DEF N, cl, s, c

-----------------------------------------------------------------------------
(***************************************************************************)
(* The survivors, counted.                                                 *)
(***************************************************************************)

\* An increasing enumeration of a set counts it.
LEMMA CountIncreasing ==
  ASSUME NEW n \in Nat, NEW N \in Nat, NEW f \in [1..n -> 1..N],
         \A k, m \in 1..n : k < m => f[k] < f[m],
         NEW T, \A j : j \in T <=> \E k \in 1..n : f[k] = j
  PROVE  Cardinality(T) = n
<1>1. \A k \in 1..n : f[k] \in T
  OBVIOUS
<1>2. f \in [1..n -> T] /\ \A j \in T : \E k \in 1..n : f[k] = j
  BY <1>1
<1>3. \A k, m \in 1..n : f[k] = f[m] => k = m
  <2> SUFFICES ASSUME NEW k \in 1..n, NEW m \in 1..n, f[k] = f[m], k # m PROVE FALSE
    OBVIOUS
  <2>1. k < m \/ m < k
    OBVIOUS
  <2>2. f[k] \in 1..N /\ f[m] \in 1..N
    OBVIOUS
  <2> QED BY <2>1, <2>2
<1>4. f \in Bijection(1..n, T)
  BY <1>2, <1>3 DEF Bijection, Injection, Surjection, IsInjective
<1>5. ExistsBijection(1..n, T)
  BY <1>4 DEF ExistsBijection
<1> QED BY <1>5, FS_CountingElements

\* The loop computes Survivors, for every vector and every choice of what is
\* closed.
LEMMA CompactSurvives ==
  ASSUME NEW S, NEW q \in Seq(S), NEW closed
  PROVE  KeepsSurvivors(q, closed)
<1> DEFINE N    == Len(q)
           cl   == ClosedPlaces(q, closed)
           c    == Compact(q, closed)
           n    == Len(c)
           kept == Left(N, cl)
<1>1. N \in Nat /\ DOMAIN q = 1..N
  OBVIOUS
<1>2. c \in Seq(S) /\ n \in Nat
      /\ LoopAfter(q, closed).last <= Len(LoopAfter(q, closed).reqs)
  BY CompactKeeps
<1>3. PICK kp : Keeps(N, cl, q, c, kp)
  BY CompactKeeps
<1>4. kept \subseteq 1..N
  BY DEF Left, C!Survivors
<1>5. C!Survivors(DOMAIN q, {i \in DOMAIN q : q[i] \in closed}) = kept
  BY <1>1 DEF Left, ClosedPlaces
<1> HIDE DEF N, cl, c, kept
<1>6. /\ kp \in [1..n -> 1..N]
      /\ \A k \in 1..n : c[k] = q[kp[k]]
      /\ \A k, m \in 1..n : k < m => kp[k] < kp[m]
      /\ \A j \in 1..N : (\E k \in 1..n : kp[k] = j) <=> j \in kept
  BY <1>3 DEF Keeps, kept
<1>7. \A j : j \in kept <=> \E k \in 1..n : kp[k] = j
  BY <1>4, <1>6
<1> HIDE DEF n
<1>8. Cardinality(kept) = n
  <2>1. n \in Nat /\ N \in Nat
    BY <1>1, <1>2
  <2>2. kp \in [1..n -> 1..N] /\ \A k, m \in 1..n : k < m => kp[k] < kp[m]
    BY <1>6
  <2> QED BY <2>1, <2>2, <1>7, CountIncreasing
<1>9. ASSUME NEW i \in kept
      PROVE  c[Cardinality({j \in kept : j <= i})] = q[i]
  <2>1. PICK k \in 1..n : kp[k] = i
    BY <1>7
  <2> DEFINE T == {j \in kept : j <= i}
             f == [x \in 1..k |-> kp[x]]
  <2>2. k \in Nat /\ f \in [1..k -> 1..N] /\ \A x \in 1..k : x \in 1..n /\ f[x] = kp[x]
    BY <1>2, <1>6
  <2>3. \A j : j \in T <=> \E x \in 1..k : f[x] = j
    <3>1. ASSUME NEW j \in T PROVE \E x \in 1..k : f[x] = j
      <4>1. PICK x \in 1..n : kp[x] = j
        BY <1>7
      <4>2. kp[x] <= kp[k] /\ kp[x] \in 1..N /\ kp[k] \in 1..N
        BY <4>1, <2>1, <1>6
      <4>3. ~(k < x)
        BY <4>2, <1>6, <1>1
      <4>4. x \in 1..k
        BY <4>3, <1>2
      <4> QED BY <4>1, <4>4
    <3>2. ASSUME NEW x \in 1..k PROVE f[x] \in T
      <4>1. x \in 1..n /\ f[x] = kp[x]
        BY <2>2
      <4>2. kp[x] <= i
        <5>1. CASE x = k
          BY <5>1, <2>1, <1>6
        <5>2. CASE x < k
          BY <5>2, <4>1, <2>1, <1>6
        <5> QED BY <5>1, <5>2, <2>2
      <4>3. kp[x] \in kept
        BY <4>1, <1>7
      <4> QED BY <4>1, <4>2, <4>3
    <3> HIDE DEF T, f
    <3> QED BY <3>1, <3>2
  <2>4. \A x, y \in 1..k : x < y => f[x] < f[y]
    BY <2>2, <1>6
  <2> HIDE DEF T, f
  <2>5. Cardinality(T) = k
    BY <2>2, <2>3, <2>4, <1>1, CountIncreasing
  <2> QED BY <2>1, <2>5, <1>6 DEF T
<1> DEFINE K == C!Survivors(DOMAIN q, {i \in DOMAIN q : q[i] \in closed})
<1>10. K = kept
  BY <1>5
<1> HIDE DEF K
<1>11. /\ Len(Compact(q, closed)) = Cardinality(K)
       /\ \A i \in K : Compact(q, closed)[Cardinality({j \in K : j <= i})] = q[i]
  BY <1>8, <1>9, <1>10 DEF n, c
<1> QED BY <1>2, <1>11 DEF KeepsSurvivors, K

-----------------------------------------------------------------------------
(***************************************************************************)
(* The damage of a pass, counted.                                          *)
(***************************************************************************)

\* Distinct requests are as many as their positions.
LEMMA ImageCount ==
  ASSUME NEW q, Len(q) \in Nat, Distinct(q),
         NEW T \in SUBSET (1..Len(q)), NEW U, U = {q[j] : j \in T}
  PROVE  Cardinality(U) = Cardinality(T)
<1> DEFINE f == [j \in T |-> q[j]]
<1>1. IsFiniteSet(T)
  <2>1. IsFiniteSet(1..Len(q))
    BY FS_Interval
  <2> QED BY <2>1, FS_Subset
<1>2. f \in [T -> U] /\ \A u \in U : \E j \in T : f[j] = u
  OBVIOUS
<1>3. \A i, j \in T : f[i] = f[j] => i = j
  BY DEF Distinct
<1> HIDE DEF f
<1>4. f \in Bijection(T, U)
  BY <1>2, <1>3 DEF Bijection, Injection, Surjection, IsInjective
<1>5. ExistsBijection(T, U)
  BY <1>4 DEF ExistsBijection
<1> QED BY <1>1, <1>5, FS_Bijection

\* Every element of A has its predecessor in B: A is not larger than B.
LEMMA Shifted ==
  ASSUME NEW N \in Nat, NEW A \in SUBSET (1..N), NEW B \in SUBSET (1..N),
         \A j \in A : j - 1 \in B
  PROVE  Cardinality(A) <= Cardinality(B)
<1> DEFINE f == [j \in A |-> j - 1]
<1>1. IsFiniteSet(B)
  <2>1. IsFiniteSet(1..N)
    BY FS_Interval
  <2> QED BY <2>1, FS_Subset
<1>2. f \in [A -> B] /\ \A i, j \in A : f[i] = f[j] => i = j
  OBVIOUS
<1> HIDE DEF f
<1>3. f \in Injection(A, B)
  BY <1>2 DEF Injection, IsInjective
<1> QED BY <1>1, <1>3, FS_Injection

\* What becomes of a position: an open one that is lost, and a closed one that is
\* kept, was stepped over after the one in front of it was erased.
LEMMA SteppedOver ==
  ASSUME NEW N \in Nat, NEW cl \in SUBSET (1..N), NEW j \in 1..N,
         j \in Left(N, cl) <=> j \in cl
  PROVE  j - 1 \in cl /\ j - 1 \in 1..N /\ j - 1 \notin Left(N, cl)
<1>1. \A k \in 1..N :
        k \in Left(N, cl) <=> /\ ~(k \in cl /\ k \in Looked(N, cl))
                              /\ \E m \in Looked(N, cl) \ cl : k <= m
  BY DEF Left, Looked, C!Survivors
<1>2. j \notin Looked(N, cl)
  <2>1. CASE j \in cl
    BY <2>1, <1>1
  <2>2. CASE j \notin cl
    <3>1. j <= j
      OBVIOUS
    <3> QED BY <2>2, <3>1, <1>1
  <2> QED BY <2>1, <2>2
<1>3. j # 1
  BY <1>2, LookedStep
<1>4. j - 1 \in 1..N /\ (j - 1) + 1 = j /\ j <= N
  BY <1>3
<1>5. j - 1 \in cl /\ j - 1 \in Looked(N, cl)
  BY <1>2, <1>4, LookedStep
<1> QED BY <1>1, <1>4, <1>5

\* One pass over a vector of distinct requests.
LEMMA PassDamage ==
  ASSUME NEW S, NEW q \in Seq(S), Distinct(q), NEW closed
  PROVE  DamageBounded(q, closed)
<1> DEFINE N  == Len(q)
           cl == ClosedPlaces(q, closed)
           c  == Compact(q, closed)
           K  == Left(N, cl)
           G  == (1..N) \ K
<1>1. N \in Nat /\ cl \in SUBSET (1..N)
  BY DEF ClosedPlaces
<1>2. K \in SUBSET (1..N) /\ G \in SUBSET (1..N)
  BY DEF Left, C!Survivors
<1>3. Range(c) = {q[j] : j \in K}
  <2>1. c \in Seq(S)
    BY CompactKeeps
  <2>2. PICK kp : Keeps(N, cl, q, c, kp)
    BY CompactKeeps
  <2>3. Range(c) = {c[k] : k \in 1..Len(c)}
    BY <2>1 DEF Range
  <2> HIDE DEF N, cl, c
  <2> QED BY <1>2, <2>2, <2>3 DEF Keeps
<1>4. Range(q) = {q[j] : j \in 1..N}
  BY DEF Range
<1>5. \A i, j \in 1..N : q[i] = q[j] => i = j
  BY DEF Distinct
<1>6. \A j \in 1..N : q[j] \in closed <=> j \in cl
  BY DEF ClosedPlaces
<1> HIDE DEF N, cl, c, K
<1> DEFINE kept == Range(c)
           gone == Range(q) \ kept
<1>7. gone = {q[j] : j \in G}
  BY <1>2, <1>3, <1>4, <1>5
<1>8. gone \ closed = {q[j] : j \in G \ cl} /\ gone \cap closed = {q[j] : j \in G \cap cl}
  BY <1>2, <1>6, <1>7
<1>9. kept \cap closed = {q[j] : j \in K \cap cl}
  BY <1>2, <1>3, <1>6
<1> HIDE DEF kept, gone
<1>10. /\ Cardinality(gone \ closed) = Cardinality(G \ cl)
       /\ Cardinality(gone \cap closed) = Cardinality(G \cap cl)
       /\ Cardinality(kept \cap closed) = Cardinality(K \cap cl)
  <2>1. G \ cl \in SUBSET (1..N) /\ G \cap cl \in SUBSET (1..N) /\ K \cap cl \in SUBSET (1..N)
    BY <1>1, <1>2
  <2> HIDE DEF G
  <2>2. ASSUME NEW T \in SUBSET (1..N), NEW U, U = {q[j] : j \in T}
        PROVE  Cardinality(U) = Cardinality(T)
    BY <2>2, <1>1, ImageCount DEF N
  <2> QED BY <2>1, <2>2, <1>8, <1>9, Zenon
<1>11. \A j \in 1..N : (j \in K <=> j \in cl) => j - 1 \in G \cap cl
  BY <1>1, SteppedOver DEF K
<1>12. Cardinality(G \ cl) <= Cardinality(G \cap cl)
  <2>1. \A j \in G \ cl : j - 1 \in G \cap cl
    BY <1>11
  <2>2. G \ cl \in SUBSET (1..N) /\ G \cap cl \in SUBSET (1..N)
    BY <1>2
  <2> HIDE DEF G
  <2> QED BY <2>1, <2>2, <1>1, Shifted
<1>13. ASSUME q # <<>> PROVE 2 * Cardinality(K \cap cl) < N
  <2> DEFINE A == K \cap cl
             B == G \cap cl
  <2>1. A \in SUBSET (1..N) /\ B \in SUBSET (1..N) /\ A \cap B = {}
    BY <1>2
  <2>2. \A j \in A : j - 1 \in B
    BY <1>2, <1>11
  <2>3. A \cup B \subseteq cl
    OBVIOUS
  <2>4. N > 0
    BY <1>13, <1>1 DEF N
  <2>5. A # {} => \E k \in 1..N : k \notin cl
    <3>1. \A j \in K : \E k \in Looked(N, cl) \ cl : j <= k
      BY DEF K, Left, Looked, C!Survivors
    <3>2. Looked(N, cl) \subseteq 1..N
      BY <1>1, LookedStep
    <3> QED BY <3>1, <3>2
  <2> HIDE DEF A, B
  <2>6. /\ IsFiniteSet(A) /\ IsFiniteSet(B) /\ IsFiniteSet(1..N) /\ IsFiniteSet(A \cup B)
        /\ Cardinality(1..N) = N
        /\ Cardinality(A) \in Nat /\ Cardinality(B) \in Nat /\ Cardinality(A \cup B) \in Nat
        /\ Cardinality({}) = 0
    <3>1. IsFiniteSet(1..N) /\ Cardinality(1..N) = N
      BY <1>1, FS_Interval
    <3>2. IsFiniteSet(A) /\ IsFiniteSet(B)
      BY <3>1, <2>1, FS_Subset
    <3>3. IsFiniteSet(A \cup B)
      BY <3>2, FS_Union
    <3> QED BY <3>1, <3>2, <3>3, FS_CardinalityType, FS_EmptySet
  <2>7. Cardinality(A) <= Cardinality(B)
    BY <2>1, <2>2, <1>1, Shifted
  <2>8. Cardinality(A \cup B) = Cardinality(A) + Cardinality(B)
    <3>1. Cardinality(A \cup B) = Cardinality(A) + Cardinality(B) - Cardinality(A \cap B)
      BY <2>6, FS_Union
    <3>2. Cardinality(A \cap B) = 0
      BY <2>1, <2>6
    <3> QED BY <3>1, <3>2, <2>6
  <2>9. CASE A = {}
    <3>1. Cardinality(A) = 0
      BY <2>6, <2>9
    <3>2. 2 * Cardinality(A) < N
      BY <2>4, <3>1, <1>1
    <3> QED BY <3>2 DEF A
  <2>10. CASE A # {}
    <3>1. PICK k \in 1..N : k \notin A \cup B
      BY <2>3, <2>5, <2>10
    <3>2. Cardinality((A \cup B) \cup {k}) = Cardinality(A \cup B) + 1
      BY <3>1, <2>6, FS_AddElement
    <3>3. (A \cup B) \cup {k} \in SUBSET (1..N)
      BY <2>1, <3>1
    <3>4. Cardinality((A \cup B) \cup {k}) <= N
      BY <3>3, <2>6, FS_Subset
    <3>5. 2 * Cardinality(A) < N
      BY <3>2, <3>4, <2>6, <2>7, <2>8, <1>1
    <3> QED BY <3>5 DEF A
  <2> QED BY <2>9, <2>10
<1> QED BY <1>10, <1>12, <1>13 DEF DamageBounded, kept, gone, N, c

-----------------------------------------------------------------------------
(***************************************************************************)
(* The invariant of the descriptors.                                       *)
(***************************************************************************)

\* A pass brings in nothing new, keeps the elements distinct, and leaves an open
\* element when it leaves any: last is behind one.
LEMMA PassFacts ==
  ASSUME NEW S, NEW q \in Seq(S), NEW closed
  PROVE  /\ Compact(q, closed) \in Seq(S)
         /\ Range(Compact(q, closed)) \subseteq Range(q)
         /\ Distinct(q) => Distinct(Compact(q, closed))
         /\ Compact(q, closed) # <<>> =>
              \E x \in Range(Compact(q, closed)) : x \in Range(q) \ closed
<1> DEFINE N  == Len(q)
           cl == ClosedPlaces(q, closed)
           c  == Compact(q, closed)
<1>1. c \in Seq(S)
  BY CompactKeeps
<1>2. PICK kp : Keeps(N, cl, q, c, kp)
  BY CompactKeeps
<1>3. /\ Range(q) = {q[j] : j \in 1..N} /\ Range(c) = {c[k] : k \in 1..Len(c)}
      /\ Len(c) \in Nat /\ N \in Nat
  BY <1>1 DEF Range
<1>4. \A j \in 1..N : q[j] \in closed <=> j \in cl
  BY DEF ClosedPlaces
<1>5. c # <<>> => Len(c) > 0
  BY <1>1
<1> HIDE DEF N, cl, c
<1>6. /\ kp \in [1..Len(c) -> 1..N]
      /\ \A k \in 1..Len(c) : c[k] = q[kp[k]]
      /\ \A k, m \in 1..Len(c) : k < m => kp[k] < kp[m]
      /\ Len(c) > 0 => kp[Len(c)] \in Looked(N, cl) \ cl
  BY <1>2 DEF Keeps
<1>7. Range(c) \subseteq Range(q)
  BY <1>3, <1>6
<1>8. ASSUME Distinct(q) PROVE Distinct(c)
  <2>1. \A i, j \in 1..N : q[i] = q[j] => i = j
    BY <1>8 DEF Distinct, N
  <2>2. ASSUME NEW k \in 1..Len(c), NEW m \in 1..Len(c), c[k] = c[m], k # m PROVE FALSE
    <3>1. kp[k] = kp[m] /\ kp[k] \in 1..N /\ kp[m] \in 1..N
      BY <2>1, <2>2, <1>6
    <3>2. k < m \/ m < k
      BY <2>2, <1>3
    <3> QED BY <3>1, <3>2, <1>3, <1>6
  <2> QED BY <2>2 DEF Distinct
<1>9. ASSUME c # <<>> PROVE \E x \in Range(c) : x \in Range(q) \ closed
  <2>1. Len(c) \in 1..Len(c) /\ kp[Len(c)] \notin cl
    BY <1>3, <1>5, <1>6, <1>9
  <2>2. c[Len(c)] = q[kp[Len(c)]] /\ kp[Len(c)] \in 1..N
    BY <2>1, <1>6
  <2>3. c[Len(c)] \in Range(c) /\ c[Len(c)] \in Range(q) /\ c[Len(c)] \notin closed
    BY <2>1, <2>2, <1>3, <1>4
  <2> QED BY <2>3
<1> QED BY <1>1, <1>7, <1>8, <1>9 DEF c

LEMMA ElementsOf ==
  ASSUME NEW S, NEW q \in Seq(S)
  PROVE  Range(q) \subseteq S
BY DEF Range

\* push_back.
LEMMA PushFacts ==
  ASSUME NEW S, NEW q \in Seq(S), NEW x, NEW T, S \subseteq T, x \in T
  PROVE  /\ q \in Seq(T) /\ Append(q, x) \in Seq(T)
         /\ Range(Append(q, x)) = Range(q) \cup {x}
         /\ Distinct(q) /\ x \notin Range(q) => Distinct(Append(q, x))
<1>1. q \in Seq(T)
  OBVIOUS
<1> DEFINE a == Append(q, x)
<1>2. /\ a \in Seq(T) /\ Len(a) = Len(q) + 1 /\ Len(q) \in Nat
      /\ \A k \in 1..Len(q) : a[k] = q[k]
      /\ a[Len(q) + 1] = x
  BY <1>1
<1>3. Range(q) = {q[j] : j \in 1..Len(q)} /\ Range(a) = {a[k] : k \in 1..Len(a)}
  BY <1>2 DEF Range
<1> HIDE DEF a
<1>4. \A k \in 1..Len(a) : k \in 1..Len(q) \/ k = Len(q) + 1
  BY <1>2
<1>5. 1..Len(q) \subseteq 1..Len(a) /\ Len(q) + 1 \in 1..Len(a)
  BY <1>2
<1>6. Range(a) = Range(q) \cup {x}
  BY <1>2, <1>3, <1>4, <1>5
<1>7. ASSUME Distinct(q), x \notin Range(q) PROVE Distinct(a)
  <2>1. \A i, j \in 1..Len(q) : q[i] = q[j] => i = j
    BY <1>7 DEF Distinct
  <2>2. \A i \in 1..Len(q) : q[i] # x
    BY <1>3, <1>7
  <2> QED BY <2>1, <2>2, <1>2, <1>4 DEF Distinct
<1> QED BY <1>1, <1>2, <1>6, <1>7 DEF a

\* Fewer connections are not more descriptors.
LEMMA FewerConnections ==
  ASSUME NEW n \in Nat, NEW T \in SUBSET (1..n), NEW U \in SUBSET T
  PROVE  Cardinality(U) <= Cardinality(T) /\ Cardinality(U) \in Nat /\ Cardinality(T) \in Nat
<1>1. IsFiniteSet(1..n)
  BY FS_Interval
<1>2. IsFiniteSet(T)
  BY <1>1, FS_Subset
<1>3. IsFiniteSet(U) /\ Cardinality(U) <= Cardinality(T)
  BY <1>2, FS_Subset
<1> QED BY <1>2, <1>3, FS_CardinalityType

LEMMA InitInv == Init => Inv
<1> SUFFICES ASSUME Init PROVE Inv
  OBVIOUS
<1>1. Range(<<>>) = {}
  BY DEF Range
<1>2. Cardinality({}) = 0
  BY FS_EmptySet
<1>3. TypeOK
  BY <1>1, DescriptorsAssumption DEF Init, TypeOK, Connections
<1>4. AskedOnce
  BY <1>1 DEF Init, AskedOnce, Distinct
<1>5. tcp \cap Range(ups) = {}
  BY DEF Init
<1>6. UpstreamsLeaveRoom
  BY <1>2, <1>5, DescriptorsAssumption DEF UpstreamsLeaveRoom
<1>7. IdleProxyAccepts
  BY DEF Init, IdleProxyAccepts
<1> QED BY <1>3, <1>4, <1>6, <1>7 DEF Inv

\* The clean-up of the listener's vector.
LEMMA KeptReqsFacts ==
  ASSUME TypeOK, AskedOnce
  PROVE  /\ KeptReqs \in Seq(1..pushed)
         /\ Range(KeptReqs) \subseteq Range(reqs)
         /\ Distinct(KeptReqs)
         /\ KeptReqs # <<>> => Range(KeptReqs) \cap open # {}
<1>1. reqs \in Seq(1..pushed) /\ Distinct(reqs)
  BY DEF TypeOK, AskedOnce
<1> DEFINE closed == Range(reqs) \ open
<1>2. /\ Compact(reqs, closed) \in Seq(1..pushed)
      /\ Range(Compact(reqs, closed)) \subseteq Range(reqs)
      /\ Distinct(reqs) => Distinct(Compact(reqs, closed))
      /\ Compact(reqs, closed) # <<>> =>
           \E x \in Range(Compact(reqs, closed)) : x \in Range(reqs) \ closed
  <2> HIDE DEF closed
  <2> QED BY <1>1, PassFacts
<1> QED BY <1>1, <1>2 DEF KeptReqs

\* The clean-up of the responder's vector.
LEMMA KeptUpsFacts ==
  ASSUME TypeOK, AskedOnce
  PROVE  /\ KeptUps \in Seq(1..pushed)
         /\ Range(KeptUps) \subseteq Range(ups)
         /\ Distinct(KeptUps)
<1>1. ups \in Seq(1..pushed) /\ Distinct(ups)
  BY DEF TypeOK, AskedOnce
<1> DEFINE closed == Range(ups) \ asking
<1>2. /\ Compact(ups, closed) \in Seq(1..pushed)
      /\ Range(Compact(ups, closed)) \subseteq Range(ups)
      /\ Distinct(ups) => Distinct(Compact(ups, closed))
  <2> HIDE DEF closed
  <2> QED BY <1>1, PassFacts
<1> QED BY <1>1, <1>2 DEF KeptUps

\* A request is put to the resolvers: the room that the guard of Ask finds is
\* enough for what the upstreams then hold.
LEMMA AskStep ==
  ASSUME TypeOK, AskedOnce, UpstreamsLeaveRoom,
         NEW m \in Nat, pushed <= m, NEW r \in 1..m,
         r \notin Range(ups), r \in tcp => r \in Range(reqs),
         reqs' = reqs, tcp' = tcp, Ask(r)
  PROVE  /\ reqs' \in Seq(1..m) /\ ups' \in Seq(1..m) /\ Distinct(ups')
         /\ Range(ups') \subseteq Range(ups) \cup {r}
         /\ asking' \subseteq Range(ups')
         /\ open' \subseteq tcp' \cap (Range(reqs') \cup Range(ups'))
         /\ Cardinality(tcp' \cap Range(ups')) < Limit
<1>1. /\ pushed \in Nat /\ 1..pushed \subseteq 1..m /\ tcp \in SUBSET (1..pushed)
      /\ Limit \in Nat
  BY DescriptorsAssumption DEF TypeOK
<1>2. reqs \in Seq(1..m)
  <2>1. reqs \in Seq(1..pushed)
    BY DEF TypeOK
  <2> QED BY <1>1, <2>1, PushFacts
<1>3. /\ KeptUps \in Seq(1..pushed) /\ Range(KeptUps) \subseteq Range(ups)
      /\ Distinct(KeptUps)
  BY KeptUpsFacts
<1>4. /\ KeptUps \in Seq(1..m) /\ Append(KeptUps, r) \in Seq(1..m)
      /\ Range(Append(KeptUps, r)) = Range(KeptUps) \cup {r}
      /\ Distinct(KeptUps) /\ r \notin Range(KeptUps) => Distinct(Append(KeptUps, r))
  BY <1>1, <1>3, PushFacts
<1> DEFINE kept == asking \cap Range(KeptUps)
<1>5. CASE /\ InUse(reqs, KeptUps, kept) < Limit
           /\ ups' = Append(KeptUps, r)
           /\ asking' = kept \cup {r}
           /\ open' = open \cap Connections(reqs', ups')
  <2> DEFINE U == Connections(reqs, KeptUps)
             T == tcp \cap Range(ups')
  <2>1. U \in SUBSET (1..pushed) /\ kept \in SUBSET (1..pushed)
    <3>1. Range(KeptUps) \subseteq 1..pushed
      BY <1>3, ElementsOf
    <3> QED BY <1>1, <3>1 DEF Connections
  <2>2. T \in SUBSET U
    <3>1. Range(ups') = Range(KeptUps) \cup {r}
      BY <1>4, <1>5
    <3> QED BY <3>1 DEF Connections
  <2>3. Cardinality(U) + Cardinality(kept) < Limit
    BY <1>5 DEF InUse
  <2> HIDE DEF U, T, kept
  <2>4. Cardinality(T) <= Cardinality(U) /\ Cardinality(T) \in Nat /\ Cardinality(U) \in Nat
    BY <1>1, <2>1, <2>2, FewerConnections
  <2>5. Cardinality(kept) \in Nat
    BY <1>1, <2>1, FewerConnections
  <2>6. Cardinality(T) < Limit
    BY <1>1, <2>3, <2>4, <2>5
  <2>7. Cardinality(tcp' \cap Range(ups')) < Limit
    BY <2>6 DEF T
  <2>8. open' \subseteq tcp' \cap (Range(reqs') \cup Range(ups'))
    BY <1>5 DEF Connections
  <2>9. asking' \subseteq Range(ups') /\ Range(ups') \subseteq Range(ups) \cup {r}
    BY <1>3, <1>4, <1>5 DEF kept
  <2>10. ups' \in Seq(1..m) /\ Distinct(ups')
    BY <1>3, <1>4, <1>5
  <2> QED BY <1>2, <2>7, <2>8, <2>9, <2>10
<1>6. CASE /\ ups' = KeptUps
           /\ asking' = kept
           /\ open' = (open \ {r}) \cap Connections(reqs', ups')
  <2> DEFINE U == tcp \cap Range(ups)
             T == tcp \cap Range(ups')
  <2>1. U \in SUBSET (1..pushed) /\ T \in SUBSET U
    BY <1>1, <1>3, <1>6
  <2>2. Cardinality(U) < Limit
    BY DEF UpstreamsLeaveRoom
  <2> HIDE DEF U, T
  <2>3. Cardinality(T) <= Cardinality(U) /\ Cardinality(T) \in Nat /\ Cardinality(U) \in Nat
    BY <1>1, <2>1, FewerConnections
  <2>4. Cardinality(T) < Limit
    BY <1>1, <2>2, <2>3
  <2>5. Cardinality(tcp' \cap Range(ups')) < Limit
    BY <2>4 DEF T
  <2>6. open' \subseteq tcp' \cap (Range(reqs') \cup Range(ups'))
    BY <1>6 DEF Connections
  <2>7. asking' \subseteq Range(ups') /\ Range(ups') \subseteq Range(ups) \cup {r}
    BY <1>3, <1>6
  <2>8. ups' \in Seq(1..m) /\ Distinct(ups')
    BY <1>3, <1>4, <1>6
  <2> QED BY <1>2, <2>5, <2>6, <2>7, <2>8
<1> QED BY <1>5, <1>6 DEF Ask

LEMMA AcceptTcpStep == Inv /\ AcceptTcp => Inv'
<1> SUFFICES ASSUME Inv, AcceptTcp PROVE Inv'
  OBVIOUS
<1> USE DEF Inv
<1>1. /\ pushed \in Nat /\ pushed + 1 \in 0..MaxPushed /\ pushed' = pushed + 1
      /\ loop = "running" /\ loop' = loop /\ MaxPushed \in Nat
  BY DescriptorsAssumption DEF TypeOK, AcceptTcp
<1>2. /\ KeptReqs \in Seq(1..pushed) /\ Range(KeptReqs) \subseteq Range(reqs)
      /\ Distinct(KeptReqs)
  BY KeptReqsFacts
<1>3. /\ Range(reqs) \subseteq 1..pushed /\ Range(ups) \subseteq 1..pushed
      /\ ups \in Seq(1..pushed) /\ tcp \subseteq 1..pushed
  BY DEF TypeOK, Range
<1>4. 1..pushed \subseteq 1..pushed' /\ pushed + 1 \in 1..pushed' /\ pushed + 1 \notin 1..pushed
  BY <1>1
<1>5. /\ reqs' \in Seq(1..pushed') /\ Range(reqs') = Range(KeptReqs) \cup {pushed + 1}
      /\ Distinct(reqs')
  <2>1. pushed + 1 \notin Range(KeptReqs)
    BY <1>2, <1>3, <1>4
  <2>2. reqs' = Append(KeptReqs, pushed + 1)
    BY DEF AcceptTcp
  <2>3. /\ Append(KeptReqs, pushed + 1) \in Seq(1..pushed')
        /\ Range(Append(KeptReqs, pushed + 1)) = Range(KeptReqs) \cup {pushed + 1}
        /\ Distinct(KeptReqs) /\ pushed + 1 \notin Range(KeptReqs)
             => Distinct(Append(KeptReqs, pushed + 1))
    BY <1>2, <1>4, PushFacts
  <2> QED BY <1>2, <2>1, <2>2, <2>3
<1>6. ups' \in Seq(1..pushed') /\ ups' = ups /\ asking' = asking
  BY <1>3, <1>4, PushFacts DEF AcceptTcp
<1>7. tcp' = tcp \cup {pushed + 1}
  BY DEF AcceptTcp
<1>8. /\ open' \subseteq tcp' \cap (Range(reqs') \cup Range(ups'))
      /\ unread' \subseteq (unread \cap Range(KeptReqs)) \cup {pushed + 1}
  BY <1>5, <1>6, <1>7 DEF AcceptTcp, Connections, AskedOnce
<1>9. TypeOK'
  <2>1. tcp' \subseteq 1..pushed' /\ unread' \subseteq 1..pushed'
    BY <1>3, <1>4, <1>7, <1>8 DEF AskedOnce
  <2>2. asking' \subseteq Range(ups')
    BY <1>6 DEF TypeOK
  <2> QED BY <1>1, <1>5, <1>6, <1>8, <2>1, <2>2 DEF TypeOK, Connections
<1>10. AskedOnce'
  BY <1>2, <1>3, <1>4, <1>5, <1>6, <1>7, <1>8 DEF AskedOnce
<1>11. UpstreamsLeaveRoom'
  <2>1. tcp' \cap Range(ups') = tcp \cap Range(ups)
    BY <1>3, <1>4, <1>6, <1>7
  <2> QED BY <2>1 DEF UpstreamsLeaveRoom
<1>12. IdleProxyAccepts'
  BY <1>1 DEF IdleProxyAccepts
<1> QED BY <1>9, <1>10, <1>11, <1>12

\* accept fails: everything that is counted is held by an upstream, unless the
\* clean-up left an open connection.
LEMMA AcceptFailsStep == Inv /\ AcceptFails => Inv'
<1> SUFFICES ASSUME Inv, AcceptFails PROVE Inv'
  OBVIOUS
<1> USE DEF Inv
<1>1. /\ pushed' = pushed /\ tcp' = tcp /\ ups' = ups /\ asking' = asking
      /\ loop' = "ended" /\ reqs' = KeptReqs
      /\ open' = open \cap Connections(KeptReqs, ups)
      /\ unread' = unread \cap Connections(KeptReqs, ups)
      /\ InUse(KeptReqs, ups, asking) >= Limit
  BY DEF AcceptFails
<1>2. /\ KeptReqs \in Seq(1..pushed) /\ Range(KeptReqs) \subseteq Range(reqs)
      /\ Distinct(KeptReqs)
      /\ KeptReqs # <<>> => Range(KeptReqs) \cap open # {}
  BY KeptReqsFacts
<1>3. TypeOK'
  BY <1>1, <1>2 DEF TypeOK, Connections
<1>4. AskedOnce'
  BY <1>1, <1>2 DEF AskedOnce, Connections
<1>5. UpstreamsLeaveRoom'
  BY <1>1 DEF UpstreamsLeaveRoom
<1>6. ASSUME open' \cup asking' = {} PROVE FALSE
  <2>1. asking = {} /\ open \cap Connections(KeptReqs, ups) = {}
    BY <1>1, <1>6
  <2>2. Range(KeptReqs) \subseteq Connections(KeptReqs, ups)
    BY <1>2 DEF Connections, AskedOnce
  <2>3. KeptReqs = <<>>
    BY <1>2, <2>1, <2>2
  <2>4. Range(<<>>) = {}
    BY DEF Range
  <2>5. Connections(KeptReqs, ups) = tcp \cap Range(ups)
    BY <2>3, <2>4 DEF Connections
  <2>6. Cardinality(asking) = 0
    BY <2>1, FS_EmptySet
  <2>7. Cardinality(tcp \cap Range(ups)) + 0 >= Limit
    BY <1>1, <2>5, <2>6 DEF InUse
  <2>8. Cardinality(tcp \cap Range(ups)) \in Nat
    <3>1. tcp \in SUBSET (1..pushed) /\ pushed \in Nat /\ tcp \cap Range(ups) \in SUBSET tcp
      BY DEF TypeOK
    <3> QED BY <3>1, FewerConnections
  <2> QED BY <2>7, <2>8, DescriptorsAssumption DEF UpstreamsLeaveRoom
<1>7. IdleProxyAccepts'
  BY <1>6 DEF IdleProxyAccepts
<1> QED BY <1>3, <1>4, <1>5, <1>7

LEMMA AskTcpStep == ASSUME NEW r PROVE Inv /\ AskTcp(r) => Inv'
<1> SUFFICES ASSUME Inv, AskTcp(r) PROVE Inv'
  OBVIOUS
<1> USE DEF Inv
<1>1. /\ loop = "running" /\ loop' = loop /\ pushed' = pushed /\ tcp' = tcp
      /\ reqs' = reqs /\ r \in unread /\ Ask(r) /\ unread' \subseteq unread \ {r}
  BY DEF AskTcp
<1>2. r \in 1..pushed /\ r \in Range(reqs) /\ r \notin Range(ups)
  BY <1>1 DEF AskedOnce, TypeOK
<1>3. pushed \in Nat /\ pushed <= pushed
  BY DescriptorsAssumption DEF TypeOK
<1>4. /\ reqs' \in Seq(1..pushed) /\ ups' \in Seq(1..pushed) /\ Distinct(ups')
      /\ Range(ups') \subseteq Range(ups) \cup {r}
      /\ asking' \subseteq Range(ups')
      /\ open' \subseteq tcp' \cap (Range(reqs') \cup Range(ups'))
      /\ Cardinality(tcp' \cap Range(ups')) < Limit
  BY <1>1, <1>2, <1>3, AskStep
<1>5. TypeOK'
  BY <1>1, <1>4 DEF TypeOK, Connections
<1>6. AskedOnce'
  BY <1>1, <1>4 DEF AskedOnce
<1>7. UpstreamsLeaveRoom' /\ IdleProxyAccepts'
  BY <1>1, <1>4 DEF UpstreamsLeaveRoom, IdleProxyAccepts
<1> QED BY <1>5, <1>6, <1>7

LEMMA AskUdpStep == Inv /\ AskUdp => Inv'
<1> SUFFICES ASSUME Inv, AskUdp PROVE Inv'
  OBVIOUS
<1> USE DEF Inv
<1>1. /\ loop = "running" /\ loop' = loop /\ pushed' = pushed + 1 /\ tcp' = tcp
      /\ reqs' = reqs /\ Ask(pushed + 1) /\ unread' \subseteq unread
      /\ pushed \in Nat /\ pushed' \in 0..MaxPushed
  BY DescriptorsAssumption DEF AskUdp, TypeOK
<1>2. /\ pushed + 1 \in 1..pushed' /\ pushed + 1 \notin 1..pushed /\ pushed <= pushed'
      /\ pushed' \in Nat /\ 1..pushed \subseteq 1..pushed'
  BY <1>1
<1>3. /\ Range(ups) \subseteq 1..pushed /\ Range(reqs) \subseteq 1..pushed
      /\ tcp \subseteq 1..pushed /\ unread \subseteq 1..pushed
  BY DEF TypeOK, Range
<1>4. pushed + 1 \notin Range(ups) /\ pushed + 1 \notin tcp /\ pushed + 1 \notin unread
  BY <1>2, <1>3
<1>5. /\ reqs' \in Seq(1..pushed') /\ ups' \in Seq(1..pushed') /\ Distinct(ups')
      /\ Range(ups') \subseteq Range(ups) \cup {pushed + 1}
      /\ asking' \subseteq Range(ups')
      /\ open' \subseteq tcp' \cap (Range(reqs') \cup Range(ups'))
      /\ Cardinality(tcp' \cap Range(ups')) < Limit
  BY <1>1, <1>2, <1>4, AskStep
<1>6. TypeOK'
  BY <1>1, <1>2, <1>3, <1>5 DEF TypeOK, Connections
<1>7. AskedOnce'
  BY <1>1, <1>4, <1>5 DEF AskedOnce
<1>8. UpstreamsLeaveRoom' /\ IdleProxyAccepts'
  BY <1>1, <1>5 DEF UpstreamsLeaveRoom, IdleProxyAccepts
<1> QED BY <1>6, <1>7, <1>8

\* Closing changes no vector.
LEMMA CloseSteps ==
  ASSUME NEW r
  PROVE  Inv /\ (Close(r) \/ CloseUpstream(r) \/ Answer(r) \/ UNCHANGED vars) => Inv'
<1> SUFFICES ASSUME Inv, Close(r) \/ CloseUpstream(r) \/ Answer(r) \/ UNCHANGED vars
             PROVE  Inv'
  OBVIOUS
<1> USE DEF Inv
<1>1. /\ pushed' = pushed /\ tcp' = tcp /\ reqs' = reqs /\ ups' = ups
      /\ asking' \subseteq asking /\ open' \subseteq open /\ unread' \subseteq unread
      /\ loop' = loop /\ (loop = "running" \/ UNCHANGED vars)
  BY DEF Close, CloseUpstream, Answer, vars
<1>2. TypeOK'
  BY <1>1 DEF TypeOK, Connections
<1>3. AskedOnce' /\ UpstreamsLeaveRoom'
  BY <1>1 DEF AskedOnce, UpstreamsLeaveRoom
<1>4. IdleProxyAccepts'
  BY <1>1 DEF IdleProxyAccepts, vars
<1> QED BY <1>2, <1>3, <1>4

\* The invariant of the vectors and the descriptors.
THEOREM Invariance == Spec => []Inv
<1>1. Inv /\ [Next]_vars => Inv'
  BY AcceptTcpStep, AcceptFailsStep, AskTcpStep, AskUdpStep, CloseSteps DEF Next
<1> QED BY <1>1, InitInv, PTL DEF Spec

\* The loop of listener.cpp and of responder.cpp leaves what Compaction says, in
\* every reachable state: the other modules may use Survivors for it.
THEOREM LoopKeepsSurvivorsHolds == Spec => []LoopKeepsSurvivors
<1>1. Inv => LoopKeepsSurvivors
  BY CompactSurvives DEF Inv, TypeOK, LoopKeepsSurvivors
<1> QED BY <1>1, Invariance, PTL

\* A pass of the clean-up loses no more open requests than it removes closed
\* ones, and leaves less than half of the vector closed.
THEOREM DamageIsBoundedHolds == Spec => []DamageIsBounded
<1>1. Inv => DamageIsBounded
  BY PassDamage DEF Inv, TypeOK, AskedOnce, DamageIsBounded
<1> QED BY <1>1, Invariance, PTL

\* accept runs out of descriptors, which ends the process, only while a
\* connection or an upstream is open: whatever the limit is.
THEOREM IdleProxyAcceptsHolds == Spec => []IdleProxyAccepts
<1>1. Inv => IdleProxyAccepts
  BY DEF Inv
<1> QED BY <1>1, Invariance, PTL

=============================================================================
