---------------------------- MODULE FilterProofs ----------------------------
(***************************************************************************)
(* Proofs about the filter: `match' decides as the words of the list files *)
(* say, for every set of words and every name.                             *)
(*                                                                         *)
(* words_match looks at one stored word, the nearest one that is not after *)
(* the name in the order of the set.  That is enough because no stored     *)
(* word extends another one, which words_insert sees to.                   *)
(***************************************************************************)
EXTENDS Filter, FiniteSetTheorems, SequenceTheorems, WellFoundedInduction, TLAPS

Texts == Seq(Nat)

-----------------------------------------------------------------------------
(***************************************************************************)
(* The order of texts.  A text is followed by zeros and its characters are *)
(* counted from one, which makes a text smaller than what extends it.      *)
(***************************************************************************)

\* A set of numbers that is not empty has a least one.
LEMMA LeastNumber ==
  ASSUME NEW S, S \subseteq Nat, S # {}
  PROVE  \E x \in S : \A y \in S : x <= y
<1> DEFINE R == OpToRel(<, Nat)
<1>1. IsWellFoundedOn(R, Nat)
  BY NatLessThanWellFounded
<1>2. PICK x \in S : \A y \in S : <<y, x>> \notin R
  <2> HIDE DEF R
  <2> QED BY <1>1, WFMin
<1>3. \A y \in S : ~(y < x)
  BY <1>2 DEF OpToRel
<1> QED BY <1>3

At(s, i) == IF i <= Len(s) THEN s[i] + 1 ELSE 0

\* a and b agree in front of place k.
Agree(a, b, k) == \A i \in 1..(k - 1) : At(a, i) = At(b, i)

LEMMA AtType ==
  ASSUME NEW s \in Texts, NEW i \in Nat \ {0}
  PROVE  At(s, i) \in Nat /\ (At(s, i) > 0 <=> i <= Len(s))
BY DEF At, Texts

\* Texts with the same places are the same.
LEMMA SameText ==
  ASSUME NEW a \in Texts, NEW b \in Texts, \A i \in Nat \ {0} : At(a, i) = At(b, i)
  PROVE  a = b
<1>1. Len(a) \in Nat /\ Len(b) \in Nat
  BY DEF Texts
<1>2. \A i \in Nat \ {0} : i <= Len(a) <=> i <= Len(b)
  BY AtType
<1>3. Len(a) = Len(b)
  <2>1. Len(a) > Len(b) => FALSE
    BY <1>1, <1>2
  <2>2. Len(b) > Len(a) => FALSE
    BY <1>1, <1>2
  <2> QED BY <1>1, <2>1, <2>2
<1>4. ASSUME NEW i \in 1..Len(a) PROVE a[i] = b[i]
  <2>1. i \in Nat \ {0} /\ At(a, i) = At(b, i)
    BY <1>1
  <2>2. a[i] \in Nat /\ b[i] \in Nat
    BY <1>3 DEF Texts
  <2>3. a[i] + 1 = b[i] + 1
    BY <1>1, <1>3, <2>1 DEF At
  <2> QED BY <2>2, <2>3
<1> QED BY <1>3, <1>4 DEF Texts

\* IsPrefix, place by place.
LEMMA PrefixMeans ==
  ASSUME NEW p \in Texts, NEW s \in Texts
  PROVE  IsPrefix(p, s) <=> \A i \in 1..Len(p) : At(p, i) = At(s, i)
<1>1. Len(p) \in Nat /\ Len(s) \in Nat
  BY DEF Texts
<1>2. ASSUME IsPrefix(p, s), NEW i \in 1..Len(p) PROVE At(p, i) = At(s, i)
  <2>1. Len(p) <= Len(s) /\ SubSeq(p, 1, Len(p)) = SubSeq(s, 1, Len(p))
    BY <1>2 DEF IsPrefix
  <2>2. SubSeq(p, 1, Len(p))[i] = p[i] /\ SubSeq(s, 1, Len(p))[i] = s[i]
    BY <1>1, <2>1 DEF Texts
  <2> QED BY <1>1, <2>1, <2>2 DEF At
<1>3. ASSUME \A i \in 1..Len(p) : At(p, i) = At(s, i) PROVE IsPrefix(p, s)
  <2>1. \A i \in 1..Len(p) : i <= Len(s)
    <3> TAKE i \in 1..Len(p)
    <3>1. i \in Nat \ {0} /\ i <= Len(p) /\ At(p, i) = At(s, i)
      BY <1>1, <1>3
    <3> QED BY <3>1, AtType
  <2>2. Len(p) <= Len(s)
    <3>1. CASE Len(p) = 0
      BY <1>1, <3>1
    <3>2. CASE Len(p) # 0
      BY <1>1, <2>1, <3>2
    <3> QED BY <3>1, <3>2
  <2>3. ASSUME NEW i \in 1..Len(p) PROVE p[i] = s[i]
    <3>1. p[i] \in Nat /\ s[i] \in Nat
      BY <1>1, <2>2 DEF Texts
    <3>2. p[i] + 1 = s[i] + 1
      BY <1>1, <1>3, <2>2 DEF At
    <3> QED BY <3>1, <3>2
  <2> DEFINE a == SubSeq(p, 1, Len(p))
             b == SubSeq(s, 1, Len(p))
  <2>4. /\ a \in Seq(Nat) /\ Len(a) = Len(p) /\ \A i \in 1..Len(p) : a[i] = p[i]
        /\ b \in Seq(Nat) /\ Len(b) = Len(p) /\ \A i \in 1..Len(p) : b[i] = s[i]
    BY <1>1, <2>2 DEF Texts
  <2> HIDE DEF a, b
  <2>5. a = b
    BY <2>3, <2>4
  <2> QED BY <2>2, <2>5 DEF IsPrefix, a, b
<1> QED BY <1>2, <1>3

\* std::lexicographical_compare, place by place: the first place where the texts
\* differ decides.
LEMMA LexMeans ==
  ASSUME NEW a \in Texts, NEW b \in Texts
  PROVE  lexicographical_compare(a, b)
           <=> \E k \in Nat \ {0} : Agree(a, b, k) /\ At(a, k) < At(b, k)
<1>1. Len(a) \in Nat /\ Len(b) \in Nat
  BY DEF Texts
<1>2. ASSUME IsStrictPrefix(a, b)
      PROVE  \E k \in Nat \ {0} : Agree(a, b, k) /\ At(a, k) < At(b, k)
  <2>1. a # b /\ Len(a) <= Len(b) /\ \A i \in 1..Len(a) : At(a, i) = At(b, i)
    BY <1>2, PrefixMeans DEF IsStrictPrefix, IsPrefix
  <2>2. Len(a) # Len(b)
    <3> SUFFICES ASSUME Len(a) = Len(b) PROVE FALSE
      OBVIOUS
    <3>1. \A i \in Nat \ {0} : At(a, i) = At(b, i)
      <4> TAKE i \in Nat \ {0}
      <4>1. CASE i <= Len(a)
        BY <4>1, <1>1, <2>1
      <4>2. CASE ~(i <= Len(a))
        BY <4>2 DEF At
      <4> QED BY <4>1, <4>2
    <3> QED BY <3>1, <2>1, SameText
  <2> DEFINE k == Len(a) + 1
  <2>3. k \in Nat \ {0} /\ k - 1 = Len(a) /\ ~(k <= Len(a)) /\ k <= Len(b)
    BY <1>1, <2>1, <2>2
  <2>4. Agree(a, b, k)
    BY <2>1, <2>3 DEF Agree
  <2>5. At(a, k) = 0 /\ At(b, k) > 0
    BY <2>3, AtType DEF At
  <2> HIDE DEF k
  <2> QED BY <2>3, <2>4, <2>5
<1>3. ASSUME NEW k \in 1..Len(a), k <= Len(b),
             SubSeq(a, 1, k - 1) = SubSeq(b, 1, k - 1), a[k] < b[k]
      PROVE  Agree(a, b, k) /\ At(a, k) < At(b, k) /\ k \in Nat \ {0}
  <2>1. k \in Nat \ {0} /\ k - 1 \in Nat /\ k - 1 <= Len(a) /\ k - 1 <= Len(b)
    BY <1>1, <1>3
  <2>2. ASSUME NEW i \in 1..(k - 1) PROVE At(a, i) = At(b, i)
    <3>1. SubSeq(a, 1, k - 1)[i] = a[i] /\ SubSeq(b, 1, k - 1)[i] = b[i]
      BY <1>1, <2>1 DEF Texts
    <3> QED BY <1>1, <1>3, <2>1, <3>1 DEF At
  <2>3. a[k] \in Nat /\ b[k] \in Nat
    BY <1>1, <1>3 DEF Texts
  <2>4. At(a, k) = a[k] + 1 /\ At(b, k) = b[k] + 1
    BY <1>1, <1>3 DEF At
  <2> QED BY <1>3, <2>1, <2>2, <2>3, <2>4 DEF Agree
<1>4. ASSUME NEW k \in Nat \ {0}, Agree(a, b, k), At(a, k) < At(b, k)
      PROVE  lexicographical_compare(a, b)
  <2>1. At(a, k) \in Nat /\ At(b, k) \in Nat /\ k <= Len(b)
    BY <1>4, AtType
  <2>2. \A i \in 1..(k - 1) : i <= Len(a) /\ At(a, i) = At(b, i)
    <3> TAKE i \in 1..(k - 1)
    <3>1. i \in Nat \ {0} /\ i <= Len(b) /\ At(a, i) = At(b, i)
      BY <1>1, <1>4, <2>1 DEF Agree
    <3> QED BY <3>1, AtType
  <2>3. k - 1 <= Len(a)
    <3>1. CASE k = 1
      BY <1>1, <3>1
    <3>2. CASE k # 1
      BY <1>1, <2>2, <3>2
    <3> QED BY <3>1, <3>2
  <2>4. CASE k <= Len(a)
    <3>1. k \in 1..Len(a) /\ k - 1 \in Nat /\ k - 1 <= Len(b)
      BY <1>1, <2>1, <2>4
    <3>2. a[k] \in Nat /\ b[k] \in Nat
      BY <1>1, <2>1, <3>1 DEF Texts
    <3>3. At(a, k) = a[k] + 1 /\ At(b, k) = b[k] + 1
      BY <2>1, <2>4 DEF At
    <3>4. a[k] < b[k]
      BY <1>4, <3>2, <3>3
    <3>5. ASSUME NEW i \in 1..(k - 1) PROVE a[i] = b[i]
      <4>1. a[i] \in Nat /\ b[i] \in Nat
        BY <1>1, <2>3, <3>1 DEF Texts
      <4>2. a[i] + 1 = b[i] + 1
        BY <1>1, <2>2, <2>3, <3>1 DEF At
      <4> QED BY <4>1, <4>2
    <3> DEFINE c == SubSeq(a, 1, k - 1)
               d == SubSeq(b, 1, k - 1)
    <3>6. /\ c \in Seq(Nat) /\ Len(c) = k - 1 /\ \A i \in 1..(k - 1) : c[i] = a[i]
          /\ d \in Seq(Nat) /\ Len(d) = k - 1 /\ \A i \in 1..(k - 1) : d[i] = b[i]
      BY <1>1, <2>3, <3>1 DEF Texts
    <3> HIDE DEF c, d
    <3>7. c = d
      BY <3>5, <3>6
    <3> QED BY <2>1, <3>1, <3>4, <3>7 DEF lexicographical_compare, c, d
  <2>5. CASE ~(k <= Len(a))
    <3>1. Len(a) = k - 1
      BY <1>1, <2>3, <2>5
    <3>2. IsPrefix(a, b)
      BY <2>2, <3>1, PrefixMeans
    <3>3. a # b
      BY <1>4, <2>1
    <3> QED BY <3>2, <3>3 DEF lexicographical_compare, IsStrictPrefix
  <2> QED BY <2>4, <2>5
<1>5. lexicographical_compare(a, b)
        => \E k \in Nat \ {0} : Agree(a, b, k) /\ At(a, k) < At(b, k)
  <2> SUFFICES ASSUME lexicographical_compare(a, b)
               PROVE  \E k \in Nat \ {0} : Agree(a, b, k) /\ At(a, k) < At(b, k)
    OBVIOUS
  <2>1. CASE IsStrictPrefix(a, b)
    BY <1>2, <2>1
  <2>2. CASE \E k \in 1..Len(a) :
               k <= Len(b) /\ SubSeq(a, 1, k - 1) = SubSeq(b, 1, k - 1) /\ a[k] < b[k]
    BY <1>3, <2>2
  <2> QED BY <2>1, <2>2 DEF lexicographical_compare
<1> QED BY <1>4, <1>5

\* Different texts differ first at some place.
LEMMA FirstDifference ==
  ASSUME NEW a \in Texts, NEW b \in Texts, NEW n \in Nat \ {0}, At(a, n) # At(b, n)
  PROVE  \E k \in 1..n : Agree(a, b, k) /\ At(a, k) # At(b, k)
<1> DEFINE S == {i \in Nat : i # 0 /\ At(a, i) # At(b, i)}
<1>1. PICK k \in S : \A i \in S : k <= i
  <2>1. S \subseteq Nat /\ S # {}
    OBVIOUS
  <2> HIDE DEF S
  <2> QED BY <2>1, LeastNumber
<1>2. k \in 1..n
  BY <1>1
<1>3. \A i \in 1..(k - 1) : i \notin S
  BY <1>1
<1> QED BY <1>1, <1>2, <1>3 DEF Agree

\* The order is a strict linear order.
LEMMA LexOrder ==
  ASSUME NEW a \in Texts, NEW b \in Texts, NEW c \in Texts
  PROVE  /\ ~lexicographical_compare(a, a)
         /\ lexicographical_compare(a, b) /\ lexicographical_compare(b, c)
              => lexicographical_compare(a, c)
         /\ lexicographical_compare(a, b) \/ lexicographical_compare(b, a) \/ a = b
<1>1. ~lexicographical_compare(a, a)
  <2> SUFFICES ASSUME NEW k \in Nat \ {0}, At(a, k) < At(a, k) PROVE FALSE
    BY LexMeans
  <2> QED BY AtType
<1>2. ASSUME lexicographical_compare(a, b), lexicographical_compare(b, c)
      PROVE  lexicographical_compare(a, c)
  <2>1. PICK k \in Nat \ {0} : Agree(a, b, k) /\ At(a, k) < At(b, k)
    BY <1>2, LexMeans
  <2>2. PICK m \in Nat \ {0} : Agree(b, c, m) /\ At(b, m) < At(c, m)
    BY <1>2, LexMeans
  <2>3. \A i \in Nat \ {0} : At(a, i) \in Nat /\ At(b, i) \in Nat /\ At(c, i) \in Nat
    BY AtType
  <2>4. CASE k < m
    <3>1. At(b, k) = At(c, k) /\ Agree(a, c, k)
      BY <2>1, <2>2, <2>4 DEF Agree
    <3> QED BY <2>1, <3>1, LexMeans
  <2>5. CASE k = m
    <3>1. At(a, k) < At(c, k) /\ Agree(a, c, k)
      BY <2>1, <2>2, <2>3, <2>5 DEF Agree
    <3> QED BY <2>1, <3>1, LexMeans
  <2>6. CASE m < k
    <3>1. At(a, m) = At(b, m) /\ Agree(a, c, m)
      BY <2>1, <2>2, <2>6 DEF Agree
    <3> QED BY <2>2, <3>1, LexMeans
  <2> QED BY <2>4, <2>5, <2>6
<1>3. ASSUME a # b PROVE lexicographical_compare(a, b) \/ lexicographical_compare(b, a)
  <2>1. PICK n \in Nat \ {0} : At(a, n) # At(b, n)
    BY <1>3, SameText
  <2>2. PICK k \in 1..n : Agree(a, b, k) /\ At(a, k) # At(b, k)
    BY <2>1, FirstDifference
  <2>3. k \in Nat \ {0} /\ At(a, k) \in Nat /\ At(b, k) \in Nat
    BY AtType
  <2>4. At(a, k) < At(b, k) \/ At(b, k) < At(a, k)
    BY <2>2, <2>3
  <2>5. Agree(b, a, k)
    BY <2>2 DEF Agree
  <2> QED BY <2>2, <2>3, <2>4, <2>5, LexMeans
<1> QED BY <1>1, <1>2, <1>3

\* A prefix comes before what extends it, and so does it to all between them.
LEMMA PrefixOrder ==
  ASSUME NEW p \in Texts, NEW s \in Texts, IsPrefix(p, s)
  PROVE  /\ ~lexicographical_compare(s, p)
         /\ \A x \in Texts : ~lexicographical_compare(x, p) /\ ~lexicographical_compare(s, x)
              => IsPrefix(p, x)
<1>1. \A i \in 1..Len(p) : At(p, i) = At(s, i)
  BY PrefixMeans
<1>2. Len(p) \in Nat
  BY DEF Texts
<1>3. ~lexicographical_compare(s, p)
  <2> SUFFICES ASSUME NEW k \in Nat \ {0}, At(s, k) < At(p, k) PROVE FALSE
    BY LexMeans
  <2>1. At(s, k) \in Nat /\ At(p, k) \in Nat /\ k <= Len(p)
    BY AtType
  <2> QED BY <1>1, <1>2, <2>1
<1>4. ASSUME NEW x \in Texts, ~lexicographical_compare(x, p), ~lexicographical_compare(s, x)
      PROVE  IsPrefix(p, x)
  <2> SUFFICES ASSUME NEW n \in 1..Len(p), At(p, n) # At(x, n) PROVE FALSE
    BY PrefixMeans
  <2>1. PICK k \in 1..n : Agree(p, x, k) /\ At(p, k) # At(x, k)
    BY <1>2, FirstDifference
  <2>2. k \in Nat \ {0} /\ k \in 1..Len(p) /\ At(p, k) \in Nat /\ At(x, k) \in Nat
    BY <1>2, AtType
  <2>3. At(p, k) = At(s, k) /\ Agree(s, x, k) /\ Agree(x, p, k)
    BY <1>1, <1>2, <2>1, <2>2 DEF Agree
  <2>4. CASE At(x, k) < At(p, k)
    BY <1>4, <2>2, <2>3, <2>4, LexMeans
  <2>5. CASE At(s, k) < At(x, k)
    BY <1>4, <2>2, <2>3, <2>5, LexMeans
  <2> QED BY <2>1, <2>2, <2>3, <2>4, <2>5
<1> QED BY <1>3, <1>4

LEMMA PrefixIsOrder ==
  ASSUME NEW a \in Texts, NEW b \in Texts, NEW c \in Texts
  PROVE  /\ IsPrefix(a, a)
         /\ IsPrefix(a, b) /\ IsPrefix(b, c) => IsPrefix(a, c)
         /\ IsPrefix(a, b) /\ IsPrefix(b, a) => a = b
<1>1. IsPrefix(a, a)
  BY PrefixMeans
<1>2. ASSUME IsPrefix(a, b), IsPrefix(b, c) PROVE IsPrefix(a, c)
  <2>1. Len(a) <= Len(b) /\ Len(a) \in Nat /\ Len(b) \in Nat
    BY <1>2 DEF IsPrefix, Texts
  <2>2. \A i \in 1..Len(a) : At(a, i) = At(b, i) /\ i \in 1..Len(b)
    BY <1>2, <2>1, PrefixMeans
  <2>3. \A i \in 1..Len(b) : At(b, i) = At(c, i)
    BY <1>2, PrefixMeans
  <2> QED BY <2>2, <2>3, PrefixMeans
<1>3. ASSUME IsPrefix(a, b), IsPrefix(b, a) PROVE a = b
  BY <1>3, PrefixOrder, LexOrder
<1> QED BY <1>1, <1>2, <1>3

-----------------------------------------------------------------------------
(***************************************************************************)
(* The two orders of the code: from the front and from the back.           *)
(***************************************************************************)

LEMMA KeyFacts ==
  ASSUME NEW cmp, NEW a \in Texts, NEW b \in Texts
  PROVE  Key(cmp, a) \in Texts /\ (Key(cmp, a) = Key(cmp, b) => a = b)
<1>1. CASE cmp = "comp"
  BY <1>1 DEF Key
<1>2. CASE cmp # "comp"
  <2>1. Key(cmp, a) = Reverse(a) /\ Key(cmp, b) = Reverse(b)
    BY <1>2 DEF Key
  <2>2. Len(a) \in Nat /\ Len(b) \in Nat
    BY DEF Texts
  <2>3. /\ Reverse(a) \in Texts /\ Len(Reverse(a)) = Len(a)
        /\ \A i \in 1..Len(a) : Reverse(a)[i] = a[(Len(a) - i) + 1]
    BY <2>2 DEF Reverse, Texts
  <2>4. /\ Reverse(b) \in Texts /\ Len(Reverse(b)) = Len(b)
        /\ \A i \in 1..Len(b) : Reverse(b)[i] = b[(Len(b) - i) + 1]
    BY <2>2 DEF Reverse, Texts
  <2>5. ASSUME Reverse(a) = Reverse(b) PROVE a = b
    <3>1. Len(a) = Len(b)
      BY <2>3, <2>4, <2>5
    <3>2. ASSUME NEW i \in 1..Len(a) PROVE a[i] = b[i]
      <4> DEFINE j == (Len(a) - i) + 1
      <4>1. j \in 1..Len(a) /\ (Len(a) - j) + 1 = i
        BY <2>2
      <4> HIDE DEF j
      <4>2. Reverse(a)[j] = a[i] /\ Reverse(b)[j] = b[i]
        BY <2>3, <2>4, <3>1, <4>1
      <4> QED BY <2>5, <4>2
    <3> QED BY <3>1, <3>2 DEF Texts
  <2> QED BY <2>1, <2>3, <2>5
<1> QED BY <1>1, <1>2

\* What the proofs need of the order of a set and of `contains'.
LEMMA OrderFacts ==
  ASSUME NEW cmp, NEW a \in Texts, NEW b \in Texts, NEW c \in Texts
  PROVE  /\ ~Before(cmp, a, a)
         /\ Before(cmp, a, b) /\ Before(cmp, b, c) => Before(cmp, a, c)
         /\ Before(cmp, a, b) \/ Before(cmp, b, a) \/ a = b
         /\ contains(cmp, a, a)
         /\ contains(cmp, a, b) /\ contains(cmp, b, c) => contains(cmp, a, c)
         /\ contains(cmp, a, b) /\ contains(cmp, b, a) => a = b
         /\ contains(cmp, a, b) => ~Before(cmp, a, b)
         /\ contains(cmp, a, b) /\ ~Before(cmp, c, b) /\ ~Before(cmp, a, c)
              => contains(cmp, c, b)
<1> DEFINE ka == Key(cmp, a)
           kb == Key(cmp, b)
           kc == Key(cmp, c)
<1>1. /\ ka \in Texts /\ kb \in Texts /\ kc \in Texts
      /\ ka = kb => a = b
  BY KeyFacts
<1> HIDE DEF ka, kb, kc
<1>2. /\ ~lexicographical_compare(ka, ka)
      /\ lexicographical_compare(ka, kb) /\ lexicographical_compare(kb, kc)
           => lexicographical_compare(ka, kc)
      /\ lexicographical_compare(ka, kb) \/ lexicographical_compare(kb, ka) \/ ka = kb
  BY <1>1, LexOrder
<1>3. /\ IsPrefix(ka, ka)
      /\ IsPrefix(kc, kb) /\ IsPrefix(kb, ka) => IsPrefix(kc, ka)
      /\ IsPrefix(kb, ka) /\ IsPrefix(ka, kb) => ka = kb
  BY <1>1, PrefixIsOrder
<1>4. IsPrefix(kb, ka) =>
        /\ ~lexicographical_compare(ka, kb)
        /\ ~lexicographical_compare(kc, kb) /\ ~lexicographical_compare(ka, kc)
              => IsPrefix(kb, kc)
  BY <1>1, PrefixOrder
<1> QED BY <1>1, <1>2, <1>3, <1>4 DEF Before, contains, ka, kb, kc

-----------------------------------------------------------------------------
(***************************************************************************)
(* The ordered sets of words.                                              *)
(***************************************************************************)

\* R is a strict order on U.
IsOrder(R, U) ==
  /\ \A a \in U : <<a, a>> \notin R
  /\ \A a, b, c \in U : <<a, b>> \in R /\ <<b, c>> \in R => <<a, c>> \in R

\* A finite set has an element that no other one exceeds in the order R.
LEMMA Maximal ==
  ASSUME NEW U, NEW R, IsOrder(R, U),
         NEW W \in SUBSET U, IsFiniteSet(W), W # {}
  PROVE  \E g \in W : \A x \in W : <<g, x>> \notin R
<1> DEFINE HasMax(T) == \E g \in T : \A x \in T : <<g, x>> \notin R
           S == {n \in Nat : \E T \in SUBSET U :
                   IsFiniteSet(T) /\ T # {} /\ Cardinality(T) = n /\ ~HasMax(T)}
<1> SUFFICES ASSUME ~HasMax(W) PROVE FALSE
  OBVIOUS
<1>1. Cardinality(W) \in S
  <2>1. Cardinality(W) \in Nat
    BY FS_CardinalityType
  <2> HIDE DEF HasMax
  <2> QED BY <2>1
<1>2. PICK n \in S : \A m \in S : n <= m
  <2>1. S \subseteq Nat /\ S # {}
    BY <1>1
  <2> HIDE DEF S
  <2> QED BY <2>1, LeastNumber
<1>3. PICK T \in SUBSET U : IsFiniteSet(T) /\ T # {} /\ Cardinality(T) = n /\ ~HasMax(T)
  BY <1>2
<1>4. PICK x \in T : TRUE
  BY <1>3
<1> DEFINE V == T \ {x}
<1>5. V \in SUBSET U /\ IsFiniteSet(V) /\ Cardinality(V) = n - 1 /\ n - 1 \in Nat
  <2>1. IsFiniteSet(V) /\ Cardinality(V) = Cardinality(T) - 1
    BY <1>3, <1>4, FS_RemoveElement
  <2>2. Cardinality(V) \in Nat
    BY <2>1, FS_CardinalityType
  <2> QED BY <1>3, <2>1, <2>2
<1>6. CASE V = {}
  <2>1. \A z \in T : z = x
    BY <1>6
  <2> QED BY <1>3, <1>4, <2>1 DEF IsOrder
<1>7. CASE V # {}
  <2>1. HasMax(V)
    <3>1. ~(n - 1 \in S)
      BY <1>2
    <3> HIDE DEF HasMax, V
    <3> QED BY <3>1, <1>5, <1>7
  <2>2. PICK y \in V : \A z \in V : <<y, z>> \notin R
    BY <2>1
  <2>3. CASE <<y, x>> \notin R
    <3>1. y \in T /\ \A z \in T : <<y, z>> \notin R
      BY <2>2, <2>3
    <3> QED BY <1>3, <3>1
  <2>4. CASE <<y, x>> \in R
    <3>1. \A z \in T : <<x, z>> \notin R
      BY <1>3, <1>4, <2>2, <2>4 DEF IsOrder
    <3> QED BY <1>3, <1>4, <3>1
  <2> QED BY <2>3, <2>4
<1> QED BY <1>6, <1>7

LEMMA GreatestFacts ==
  ASSUME NEW cmp, NEW W \in SUBSET Texts, IsFiniteSet(W), W # {}
  PROVE  /\ Greatest(cmp, W) \in W
         /\ \A x \in W : ~Before(cmp, Greatest(cmp, W), x)
<1> DEFINE R == {p \in Texts \X Texts : Before(cmp, p[1], p[2])}
<1>1. \A a, b \in Texts : <<a, b>> \in R <=> Before(cmp, a, b)
  OBVIOUS
<1> HIDE DEF R
<1>2. IsOrder(R, Texts)
  BY <1>1, OrderFacts DEF IsOrder
<1>3. \E g \in W : \A x \in W : <<g, x>> \notin R
  BY <1>2, Maximal
<1>4. \E g \in W : \A x \in W : ~Before(cmp, g, x)
  BY <1>1, <1>3
<1> QED BY <1>4 DEF Greatest

LEMMA LeastFacts ==
  ASSUME NEW cmp, NEW W \in SUBSET Texts, IsFiniteSet(W), W # {}
  PROVE  Least(cmp, W) \in W
<1> DEFINE R == {p \in Texts \X Texts : Before(cmp, p[2], p[1])}
<1>1. \A a, b \in Texts : <<a, b>> \in R <=> Before(cmp, b, a)
  OBVIOUS
<1> HIDE DEF R
<1>2. IsOrder(R, Texts)
  BY <1>1, OrderFacts DEF IsOrder
<1>3. \E g \in W : \A x \in W : <<g, x>> \notin R
  BY <1>2, Maximal
<1>4. \E g \in W : \A x \in W : ~Before(cmp, x, g)
  BY <1>1, <1>3
<1> QED BY <1>4 DEF Least

\* No word of an ordered set extends another one.
Antichain(cmp, W) == \A a, b \in W : contains(cmp, a, b) => a = b

\* An ordered set as words_insert keeps it.
Ordered(cmp, W) == W \in SUBSET Texts /\ IsFiniteSet(W) /\ Antichain(cmp, W)

\* Some word of W is at the beginning (or the end) of the text.
Covered(cmp, W, t) == \E w \in W : contains(cmp, t, w)

\* The nearest word is the only one that words_match has to look at.
LEMMA MatchLooksAtOne ==
  ASSUME NEW cmp, NEW W, Ordered(cmp, W), NEW t \in Texts
  PROVE  words_match(cmp, W, t) <=> Covered(cmp, W, t)
<1> DEFINE upTo == {w \in W : ~Before(cmp, t, w)}
           g == Greatest(cmp, upTo)
<1>1. W \in SUBSET Texts /\ IsFiniteSet(W) /\ Antichain(cmp, W)
  BY DEF Ordered
<1>2. upTo \in SUBSET W /\ upTo \in SUBSET Texts /\ IsFiniteSet(upTo)
  BY <1>1, FS_Subset
<1>3. words_match(cmp, W, t) <=> upTo # {} /\ contains(cmp, t, g)
  BY DEF words_match
<1>4. upTo # {} => g \in upTo /\ \A x \in upTo : ~Before(cmp, g, x)
  <2> HIDE DEF upTo
  <2> QED BY <1>2, GreatestFacts
<1>5. \A w : w \in upTo <=> w \in W /\ ~Before(cmp, t, w)
  OBVIOUS
<1> HIDE DEF upTo, g
<1>6. words_match(cmp, W, t) => Covered(cmp, W, t)
  BY <1>2, <1>3, <1>4 DEF Covered
<1>7. ASSUME NEW w \in W, contains(cmp, t, w) PROVE words_match(cmp, W, t)
  <2>1. w \in Texts /\ w \in upTo
    BY <1>1, <1>5, <1>7, OrderFacts
  <2>2. g \in upTo /\ g \in W /\ g \in Texts /\ ~Before(cmp, g, w) /\ ~Before(cmp, t, g)
    BY <1>2, <1>4, <1>5, <2>1
  <2>3. contains(cmp, g, w)
    BY <1>7, <2>1, <2>2, OrderFacts
  <2>4. g = w
    BY <1>1, <2>2, <2>3 DEF Antichain
  <2> QED BY <1>3, <1>7, <2>1, <2>4
<1> QED BY <1>6, <1>7 DEF Covered

\* words_insert keeps the set ordered and adds what the word covers, no more.
LEMMA InsertCovers ==
  ASSUME NEW cmp, NEW W, Ordered(cmp, W), NEW w \in Texts
  PROVE  /\ Ordered(cmp, words_insert(cmp, W, w))
         /\ \A t \in Texts : Covered(cmp, words_insert(cmp, W, w), t)
                               <=> Covered(cmp, W, t) \/ contains(cmp, t, w)
<1> DEFINE before == {x \in W : Before(cmp, x, w)}
           after  == {x \in W : Before(cmp, w, x)}
           run    == ExtendingRun(cmp, W, w)
           g      == Greatest(cmp, before)
           New    == (W \ run) \cup {w}
<1>1. W \in SUBSET Texts /\ IsFiniteSet(W) /\ Antichain(cmp, W)
  BY DEF Ordered
<1>2. words_insert(cmp, W, w) =
        IF w \in W \/ (before # {} /\ contains(cmp, w, g)) THEN W ELSE New
  BY DEF words_insert
<1>3. \A x : x \in run <=> x \in after /\ \A y \in after : ~Before(cmp, x, y) => contains(cmp, y, w)
  BY DEF ExtendingRun
<1>4. /\ \A x : x \in before <=> x \in W /\ Before(cmp, x, w)
      /\ \A x : x \in after <=> x \in W /\ Before(cmp, w, x)
  OBVIOUS
<1>5. before # {} => g \in before /\ \A x \in before : ~Before(cmp, g, x)
  <2>1. before \in SUBSET Texts /\ IsFiniteSet(before)
    BY <1>1, FS_Subset
  <2> HIDE DEF before
  <2> QED BY <2>1, GreatestFacts
<1> HIDE DEF before, after, run, g
<1>6. CASE w \in W \/ (before # {} /\ contains(cmp, w, g))
  <2>1. words_insert(cmp, W, w) = W
    BY <1>2, <1>6
  <2>2. PICK h \in W : contains(cmp, w, h)
    BY <1>1, <1>4, <1>5, <1>6, OrderFacts
  <2>3. \A t \in Texts : contains(cmp, t, w) => contains(cmp, t, h)
    BY <1>1, <2>2, OrderFacts
  <2> QED BY <2>1, <2>2, <2>3 DEF Covered
<1>7. CASE ~(w \in W \/ (before # {} /\ contains(cmp, w, g)))
  <2>1. words_insert(cmp, W, w) = New
    BY <1>2, <1>7
  <2>2. \A x \in run : x \in W /\ contains(cmp, x, w)
    BY <1>1, <1>3, <1>4, OrderFacts
  <2>3. ASSUME NEW x \in W \ run PROVE ~contains(cmp, x, w)
    <3> SUFFICES ASSUME contains(cmp, x, w) PROVE FALSE
      OBVIOUS
    <3>1. x \in Texts /\ x # w
      BY <1>1, <1>7
    <3>2. x \in after
      BY <1>4, <3>1, OrderFacts
    <3>3. ASSUME NEW y \in after, ~Before(cmp, x, y) PROVE contains(cmp, y, w)
      <4>1. y \in Texts /\ ~Before(cmp, y, w)
        <5>1. y \in Texts /\ Before(cmp, w, y)
          BY <1>1, <1>4
        <5> QED BY <5>1, OrderFacts
      <4> QED BY <3>1, <3>3, <4>1, OrderFacts
    <3> QED BY <1>3, <3>2, <3>3
  <2>4. ASSUME NEW x \in W PROVE ~contains(cmp, w, x)
    <3> SUFFICES ASSUME contains(cmp, w, x) PROVE FALSE
      OBVIOUS
    <3>1. x \in Texts /\ x # w
      BY <1>1, <1>7
    <3>2. x \in before
      BY <1>4, <3>1, OrderFacts
    <3>3. g \in W /\ g \in Texts /\ ~Before(cmp, g, x) /\ Before(cmp, g, w)
      BY <1>1, <1>4, <1>5, <3>2
    <3>4. ~Before(cmp, w, g)
      BY <3>3, OrderFacts
    <3>5. contains(cmp, g, x)
      BY <3>1, <3>3, <3>4, OrderFacts
    <3>6. g = x
      BY <1>1, <3>3, <3>5 DEF Antichain
    <3> QED BY <1>7, <3>2, <3>6
  <2>5. Antichain(cmp, New)
    BY <1>1, <2>3, <2>4 DEF Antichain
  <2>6. New \in SUBSET Texts /\ IsFiniteSet(New)
    <3>1. IsFiniteSet(W \ run)
      BY <1>1, FS_Subset
    <3> QED BY <1>1, <3>1, FS_AddElement
  <2>7. ASSUME NEW t \in Texts
        PROVE  Covered(cmp, New, t) <=> Covered(cmp, W, t) \/ contains(cmp, t, w)
    <3>1. \A x \in run : contains(cmp, t, x) => contains(cmp, t, w)
      BY <1>1, <2>2, OrderFacts
    <3> QED BY <3>1 DEF Covered
  <2> HIDE DEF New
  <2> QED BY <2>1, <2>5, <2>6, <2>7 DEF Ordered
<1> QED BY <1>6, <1>7

-----------------------------------------------------------------------------
(***************************************************************************)
(* Merging the ordered sets.                                               *)
(***************************************************************************)

MergeStart(words, other) == [words |-> words, rest |-> other]

\* f holds the variables of the loop of merge after each of n turns.
IsMergeRun(f, n, cmp, words, other) ==
  f = [m \in 0..n |-> IF m = 0 THEN MergeStart(words, other) ELSE WordTaken(cmp, f[m - 1])]

\* What the recursive definition in WordsMerged defines exists.
LEMMA MergeRunExists ==
  ASSUME NEW cmp, NEW words, NEW other, NEW N \in Nat
  PROVE  \E f : IsMergeRun(f, N, cmp, words, other)
<1> DEFINE S == {n \in Nat : ~ \E f : IsMergeRun(f, n, cmp, words, other)}
<1> SUFFICES ASSUME S # {} PROVE FALSE
  OBVIOUS
<1>1. PICK n \in S : \A m \in S : n <= m
  <2> S \subseteq Nat
    OBVIOUS
  <2> HIDE DEF S
  <2> QED BY LeastNumber
<1>2. CASE n = 0
  <2> DEFINE g == [m \in 0..0 |-> MergeStart(words, other)]
  <2>1. g = [m \in 0..0 |-> IF m = 0 THEN MergeStart(words, other) ELSE WordTaken(cmp, g[m - 1])]
    OBVIOUS
  <2> HIDE DEF g
  <2> QED BY <1>2, <2>1 DEF IsMergeRun
<1>3. CASE n # 0
  <2>1. n - 1 \in Nat /\ n - 1 \notin S
    BY <1>1, <1>3
  <2>2. PICK f : IsMergeRun(f, n - 1, cmp, words, other)
    BY <2>1
  <2> DEFINE g == [m \in 0..n |-> IF m = n THEN WordTaken(cmp, f[n - 1]) ELSE f[m]]
  <2>3. ASSUME NEW m \in 0..n
        PROVE  g[m] = IF m = 0 THEN MergeStart(words, other) ELSE WordTaken(cmp, g[m - 1])
    <3>1. CASE m = n
      <4>1. g[m] = WordTaken(cmp, f[n - 1]) /\ g[m - 1] = f[n - 1]
        BY <3>1, <2>1
      <4> HIDE DEF g
      <4> QED BY <4>1, <3>1, <1>3
    <3>2. CASE m # n
      <4>1. m \in 0..(n - 1)
        BY <3>2
      <4>2. f[m] = IF m = 0 THEN MergeStart(words, other) ELSE WordTaken(cmp, f[m - 1])
        BY <2>2, <4>1 DEF IsMergeRun
      <4>3. g[m] = f[m] /\ (m # 0 => g[m - 1] = f[m - 1])
        BY <3>2, <4>1
      <4> HIDE DEF g
      <4> QED BY <4>2, <4>3
    <3> QED BY <3>1, <3>2
  <2>4. g = [m \in 0..n |-> g[m]]
    OBVIOUS
  <2>5. g = [m \in 0..n |-> IF m = 0 THEN MergeStart(words, other) ELSE WordTaken(cmp, g[m - 1])]
    <3> HIDE DEF g
    <3> QED BY <2>3, <2>4
  <2>6. IsMergeRun(g, n, cmp, words, other)
    <3> HIDE DEF g
    <3> QED BY <2>5 DEF IsMergeRun
  <2> HIDE DEF g
  <2> QED BY <2>6
<1> QED BY <1>2, <1>3

\* The merged set is ordered and covers what either of the two covers.
LEMMA MergeCovers ==
  ASSUME NEW cmp, NEW W, NEW O, Ordered(cmp, W), Ordered(cmp, O)
  PROVE  /\ Ordered(cmp, WordsMerged(cmp, W, O))
         /\ \A t \in Texts : Covered(cmp, WordsMerged(cmp, W, O), t)
                               <=> Covered(cmp, W, t) \/ Covered(cmp, O, t)
<1>1. CASE W = {}
  <2>1. WordsMerged(cmp, W, O) = O
    BY <1>1 DEF WordsMerged
  <2> QED BY <1>1, <2>1 DEF Covered
<1>2. CASE W # {}
  <2> DEFINE N == Cardinality(O)
  <2>1. O \in SUBSET Texts /\ IsFiniteSet(O) /\ N \in Nat
    BY FS_CardinalityType DEF Ordered
  <2>2. \E f : IsMergeRun(f, N, cmp, W, O)
    BY <2>1, MergeRunExists
  <2>3. \E g : WordsMerged(cmp, W, O) = g[N].words /\ IsMergeRun(g, N, cmp, W, O)
    BY <1>2, <2>2, Zenon DEF WordsMerged, IsMergeRun, MergeStart
  <2>4. PICK g : WordsMerged(cmp, W, O) = g[N].words /\ IsMergeRun(g, N, cmp, W, O)
    BY <2>3
  <2> HIDE DEF N
  <2>5. \A m \in 0..N : g[m] = IF m = 0 THEN MergeStart(W, O) ELSE WordTaken(cmp, g[m - 1])
    BY <2>4 DEF IsMergeRun
  <2> DEFINE P(n) == /\ Ordered(cmp, g[n].words)
                     /\ g[n].rest \in SUBSET Texts /\ IsFiniteSet(g[n].rest)
                     /\ Cardinality(g[n].rest) = N - n
                     /\ \A t \in Texts : Covered(cmp, g[n].words, t) \/ Covered(cmp, g[n].rest, t)
                                           <=> Covered(cmp, W, t) \/ Covered(cmp, O, t)
  <2>6. P(0)
    <3>1. g[0] = MergeStart(W, O)
      BY <2>1, <2>5
    <3>2. g[0].words = W /\ g[0].rest = O
      BY <3>1 DEF MergeStart
    <3> QED BY <2>1, <3>2 DEF N
  <2>7. ASSUME NEW n \in 0..(N - 1), P(n) PROVE P(n + 1)
    <3> DEFINE rest == g[n].rest
               w    == Least(cmp, rest)
    <3>1. n + 1 \in 0..N /\ n + 1 # 0 /\ (n + 1) - 1 = n
      BY <2>1
    <3>2. g[n + 1] = WordTaken(cmp, g[n])
      BY <2>5, <3>1
    <3>3. g[n + 1].words = words_insert(cmp, g[n].words, w) /\ g[n + 1].rest = rest \ {w}
      BY <3>2 DEF WordTaken
    <3>4. rest # {}
      BY <2>1, <2>7, FS_EmptySet
    <3>5. w \in rest /\ w \in Texts
      <4> HIDE DEF rest, w
      <4>1. rest \in SUBSET Texts /\ IsFiniteSet(rest)
        BY <2>7 DEF rest
      <4> QED BY <3>4, <4>1, LeastFacts DEF w
    <3> HIDE DEF w
    <3>6. /\ Ordered(cmp, g[n + 1].words)
          /\ \A t \in Texts : Covered(cmp, g[n + 1].words, t)
                                <=> Covered(cmp, g[n].words, t) \/ contains(cmp, t, w)
      BY <2>7, <3>3, <3>5, InsertCovers
    <3>7. /\ IsFiniteSet(rest \ {w}) /\ Cardinality(rest \ {w}) = Cardinality(rest) - 1
      BY <2>7, <3>5, FS_RemoveElement
    <3>8. Cardinality(g[n + 1].rest) = N - (n + 1)
      BY <2>1, <2>7, <3>3, <3>7
    <3>9. \A t : Covered(cmp, rest, t) <=> Covered(cmp, g[n + 1].rest, t) \/ contains(cmp, t, w)
      BY <3>3, <3>5 DEF Covered
    <3> QED BY <2>7, <3>3, <3>6, <3>7, <3>8, <3>9
  <2> DEFINE S == {n \in Nat : n <= N /\ ~P(n)}
  <2>8. ASSUME S # {} PROVE FALSE
    <3>1. PICK n \in S : \A m \in S : n <= m
      <4> S \subseteq Nat
        OBVIOUS
      <4> HIDE DEF S
      <4> QED BY <2>8, LeastNumber
    <3>2. n \in Nat /\ n <= N /\ ~P(n)
      BY <3>1
    <3> HIDE DEF P
    <3>3. n # 0
      BY <2>6, <3>2
    <3>4. n - 1 \in 0..(N - 1) /\ n - 1 \notin S /\ (n - 1) + 1 = n
      BY <2>1, <3>1, <3>2, <3>3
    <3>5. P(n - 1)
      BY <2>1, <3>4
    <3> QED BY <2>7, <3>2, <3>4, <3>5
  <2>9. P(N)
    <3> HIDE DEF P
    <3> QED BY <2>1, <2>8
  <2>10. g[N].rest = {}
    <3>1. Cardinality(g[N].rest) = 0
      BY <2>1, <2>9
    <3> QED BY <2>9, <3>1, FS_EmptySet
  <2>11. \A t : ~Covered(cmp, {}, t)
    BY DEF Covered
  <2> QED BY <2>4, <2>9, <2>10, <2>11
<1> QED BY <1>1, <1>2

-----------------------------------------------------------------------------
(***************************************************************************)
(* The set of substrings.                                                  *)
(***************************************************************************)

\* std::string::find, place by place.
LEMMA OccursMeans ==
  ASSUME NEW s \in Texts, NEW t \in Texts
  PROVE  Occurs(s, t) <=> \E i \in 0..(Len(t) - Len(s)) : \A k \in 1..Len(s) : t[i + k] = s[k]
<1>1. Len(s) \in Nat /\ Len(t) \in Nat
  BY DEF Texts
<1>2. ASSUME NEW i \in 0..(Len(t) - Len(s))
      PROVE  SubSeq(t, i + 1, i + Len(s)) = s <=> \A k \in 1..Len(s) : t[i + k] = s[k]
  <2> DEFINE u == SubSeq(t, i + 1, i + Len(s))
  <2>1. /\ u \in Seq(Nat) /\ Len(u) = Len(s)
        /\ \A k \in 1..Len(s) : u[k] = t[i + k]
    <3> DEFINE m == i + 1
               n == i + Len(s)
    <3>1. /\ m \in Nat /\ n \in Nat /\ 1 <= m /\ n <= Len(t) /\ n - m + 1 = Len(s)
          /\ \A k \in 1..Len(s) : m + k - 1 = i + k
      BY <1>1
    <3> HIDE DEF m, n
    <3>2. \A k \in m..n : t[k] \in Nat
      BY <1>1, <3>1 DEF Texts
    <3>3. /\ SubSeq(t, m, n) \in Seq(Nat)
          /\ Len(SubSeq(t, m, n)) = IF m <= n THEN n - m + 1 ELSE 0
          /\ \A k \in 1..(n - m + 1) : SubSeq(t, m, n)[k] = t[m + k - 1]
      BY <3>1, <3>2, SubSeqProperties
    <3>4. Len(SubSeq(t, m, n)) = Len(s)
      BY <1>1, <3>1, <3>3
    <3> QED BY <3>1, <3>3, <3>4 DEF m, n
  <2> HIDE DEF u
  <2>2. ASSUME \A k \in 1..Len(s) : u[k] = s[k] PROVE u = s
    BY <2>1, <2>2, SeqEqual DEF Texts
  <2> QED BY <2>1, <2>2 DEF u
<1> QED BY <1>2 DEF Occurs

LEMMA OccursTransitive ==
  ASSUME NEW a \in Texts, NEW b \in Texts, NEW c \in Texts, Occurs(a, b), Occurs(b, c)
  PROVE  Occurs(a, c)
<1>1. Len(a) \in Nat /\ Len(b) \in Nat /\ Len(c) \in Nat
  BY DEF Texts
<1>2. PICK i \in 0..(Len(b) - Len(a)) : \A k \in 1..Len(a) : b[i + k] = a[k]
  BY OccursMeans
<1>3. PICK j \in 0..(Len(c) - Len(b)) : \A k \in 1..Len(b) : c[j + k] = b[k]
  BY OccursMeans
<1>4. j + i \in 0..(Len(c) - Len(a))
  BY <1>1
<1>5. ASSUME NEW k \in 1..Len(a) PROVE c[(j + i) + k] = a[k]
  <2>1. i + k \in 1..Len(b) /\ j + (i + k) = (j + i) + k
    BY <1>1
  <2>2. c[j + (i + k)] = b[i + k] /\ b[i + k] = a[k]
    BY <1>2, <1>3, <2>1
  <2> QED BY <2>1, <2>2
<1> QED BY <1>4, <1>5, OccursMeans

\* A set of substrings as substr_insert keeps it: none occurs in another one.
Separate(S) ==
  /\ S \in SUBSET Texts /\ IsFiniteSet(S)
  /\ \A a, b \in S : Occurs(a, b) => a = b

\* The substrings find what they found before and the names with the new one.
LEMMA SubsInsertCovers ==
  ASSUME NEW subs, Separate(subs), NEW w \in Texts, NEW r \in substr_insert(subs, w)
  PROVE  /\ Separate(r)
         /\ \A t \in Texts : substr_match(r, t) <=> substr_match(subs, t) \/ Occurs(w, t)
<1> DEFINE N == Cardinality(subs)
<1>1. PICK order \in SetToSeqs(subs) : r = InsertAlong(order, w)
  BY DEF substr_insert
<1>2. N \in Nat /\ subs \in SUBSET Texts /\ IsFiniteSet(subs)
  BY FS_CardinalityType DEF Separate
<1>3. order \in [1..N -> subs] /\ \A i, j \in 1..N : i # j => order[i] # order[j]
  BY Zenon DEF SetToSeqs
<1> HIDE DEF N
<1>4. \A s \in subs : \E i \in 1..N : order[i] = s
  <2>1. order \in Injection(1..N, subs)
    BY <1>3 DEF Injection, IsInjective
  <2>2. Cardinality(1..N) = N
    BY <1>2, FS_Interval
  <2>3. order \in Surjection(1..N, subs)
    BY <1>2, <2>1, <2>2, FS_Injection DEF N
  <2> QED BY <2>3 DEF Surjection
<1>5. Range(order) = subs /\ DOMAIN order = 1..N
  BY <1>3, <1>4 DEF Range
<1> DEFINE met  == {i \in DOMAIN order : Occurs(order[i], w) \/ Occurs(w, order[i])}
           i    == CHOOSE k \in met : \A m \in met : k <= m
           left == {order[j] : j \in {k \in DOMAIN order : k < i \/ ~Occurs(w, order[k])}}
<1>6. r = IF met = {} THEN Range(order) \cup {w}
          ELSE IF Occurs(order[i], w) THEN Range(order)
          ELSE left \cup {w}
  BY <1>1 DEF InsertAlong
<1>7. met # {} => i \in met /\ \A m \in met : i <= m
  <2>1. met \subseteq Nat
    BY <1>5
  <2> HIDE DEF met
  <2>2. met # {} => \E k \in met : \A m \in met : k <= m
    BY <2>1, LeastNumber
  <2> QED BY <2>2
<1>8. /\ left \in SUBSET subs
      /\ \A s \in subs \ left : Occurs(w, s)
  BY <1>3, <1>4, <1>5
<1>9. \A m : m \in met <=> m \in 1..N /\ (Occurs(order[m], w) \/ Occurs(w, order[m]))
  BY <1>5
<1> HIDE DEF left, met, i
<1>10. IsFiniteSet(subs \cup {w}) /\ IsFiniteSet(left \cup {w})
  <2>1. IsFiniteSet(left)
    BY <1>2, <1>8, FS_Subset
  <2> QED BY <1>2, <2>1, FS_AddElement
<1>11. \A S, t : substr_match(S, t) <=> \E s \in S : Occurs(s, t)
  BY DEF substr_match
<1>12. CASE met = {}
  <2>1. r = subs \cup {w}
    BY <1>5, <1>6, <1>12
  <2>2. \A s \in subs : ~Occurs(s, w) /\ ~Occurs(w, s)
    BY <1>4, <1>9, <1>12
  <2>3. \A a, b \in r : Occurs(a, b) => a = b
    BY <2>1, <2>2 DEF Separate
  <2> QED BY <1>2, <1>10, <1>11, <2>1, <2>3 DEF Separate
<1>13. CASE met # {} /\ Occurs(order[i], w)
  <2>1. r = subs
    BY <1>5, <1>6, <1>13
  <2>2. order[i] \in subs /\ order[i] \in Texts
    BY <1>2, <1>3, <1>7, <1>9, <1>13
  <2>3. \A t \in Texts : Occurs(w, t) => Occurs(order[i], t)
    BY <1>13, <2>2, OccursTransitive
  <2> QED BY <1>11, <2>1, <2>2, <2>3
<1>14. CASE met # {} /\ ~Occurs(order[i], w)
  <2>1. r = left \cup {w}
    BY <1>6, <1>14
  <2>2. \A t \in Texts : \A s \in subs \ left : Occurs(s, t) => Occurs(w, t)
    BY <1>2, <1>8, OccursTransitive
  <2>3. order[i] \in subs /\ order[i] \in Texts /\ Occurs(w, order[i])
    BY <1>2, <1>3, <1>7, <1>9, <1>14
  <2>4. ASSUME NEW s \in left PROVE ~Occurs(w, s)
    <3>1. PICK k \in 1..N : s = order[k] /\ (k < i \/ ~Occurs(w, order[k]))
      BY <1>5 DEF left
    <3>2. k < i => k \notin met
      BY <1>3, <1>7, <1>9, <1>14
    <3> QED BY <1>9, <3>1, <3>2
  <2>5. ASSUME NEW s \in left, Occurs(s, w) PROVE FALSE
    <3>1. s \in subs /\ s \in Texts
      BY <1>2, <1>8
    <3>2. Occurs(s, order[i])
      BY <2>3, <2>5, <3>1, OccursTransitive
    <3>3. s = order[i]
      BY <2>3, <3>1, <3>2 DEF Separate
    <3> QED BY <2>3, <2>4, <3>3
  <2>6. \A a, b \in r : Occurs(a, b) => a = b
    BY <1>8, <2>1, <2>4, <2>5 DEF Separate
  <2> QED BY <1>2, <1>8, <1>10, <1>11, <2>1, <2>2, <2>6 DEF Separate
<1> QED BY <1>12, <1>13, <1>14

SubsTaken(outs, w) == UNION {substr_insert(s, w) : s \in outs}

\* f holds the sets that the loop over the substrings may have after n turns.
IsSubsRun(f, n, subs, order) ==
  f = [m \in 0..n |-> IF m = 0 THEN {subs} ELSE SubsTaken(f[m - 1], order[m])]

\* What the recursive definition in SubsInserted defines exists.
LEMMA SubsRunExists ==
  ASSUME NEW subs, NEW order, NEW N \in Nat
  PROVE  \E f : IsSubsRun(f, N, subs, order)
<1> DEFINE S == {n \in Nat : ~ \E f : IsSubsRun(f, n, subs, order)}
<1> SUFFICES ASSUME S # {} PROVE FALSE
  OBVIOUS
<1>1. PICK n \in S : \A m \in S : n <= m
  <2> S \subseteq Nat
    OBVIOUS
  <2> HIDE DEF S
  <2> QED BY LeastNumber
<1>2. CASE n = 0
  <2> DEFINE g == [m \in 0..0 |-> {subs}]
  <2>1. g = [m \in 0..0 |-> IF m = 0 THEN {subs} ELSE SubsTaken(g[m - 1], order[m])]
    OBVIOUS
  <2> HIDE DEF g
  <2> QED BY <1>2, <2>1 DEF IsSubsRun
<1>3. CASE n # 0
  <2>1. n - 1 \in Nat /\ n - 1 \notin S
    BY <1>1, <1>3
  <2>2. PICK f : IsSubsRun(f, n - 1, subs, order)
    BY <2>1
  <2> DEFINE g == [m \in 0..n |-> IF m = n THEN SubsTaken(f[n - 1], order[n]) ELSE f[m]]
  <2>3. ASSUME NEW m \in 0..n
        PROVE  g[m] = IF m = 0 THEN {subs} ELSE SubsTaken(g[m - 1], order[m])
    <3>1. CASE m = n
      <4>1. g[m] = SubsTaken(f[n - 1], order[n]) /\ g[m - 1] = f[n - 1]
        BY <3>1, <2>1
      <4> HIDE DEF g
      <4> QED BY <4>1, <3>1, <1>3
    <3>2. CASE m # n
      <4>1. m \in 0..(n - 1)
        BY <3>2
      <4>2. f[m] = IF m = 0 THEN {subs} ELSE SubsTaken(f[m - 1], order[m])
        BY <2>2, <4>1 DEF IsSubsRun
      <4>3. g[m] = f[m] /\ (m # 0 => g[m - 1] = f[m - 1])
        BY <3>2, <4>1
      <4> HIDE DEF g
      <4> QED BY <4>2, <4>3
    <3> QED BY <3>1, <3>2
  <2>4. g = [m \in 0..n |-> g[m]]
    OBVIOUS
  <2>5. g = [m \in 0..n |-> IF m = 0 THEN {subs} ELSE SubsTaken(g[m - 1], order[m])]
    <3> HIDE DEF g
    <3> QED BY <2>3, <2>4
  <2>6. IsSubsRun(g, n, subs, order)
    <3> HIDE DEF g
    <3> QED BY <2>5 DEF IsSubsRun
  <2> HIDE DEF g
  <2> QED BY <2>6
<1> QED BY <1>2, <1>3

\* However the unordered sets are walked, the substrings of both are found.
LEMMA SubsMergeCovers ==
  ASSUME NEW subs, NEW other, Separate(subs), Separate(other), NEW r \in SubsMerged(subs, other)
  PROVE  /\ Separate(r)
         /\ \A t \in Texts : substr_match(r, t) <=> substr_match(subs, t) \/ substr_match(other, t)
<1>1. CASE subs = {}
  <2>1. r = other
    BY <1>1 DEF SubsMerged
  <2> QED BY <1>1, <2>1 DEF substr_match
<1>2. CASE subs # {}
  <2> DEFINE N == Cardinality(other)
  <2>1. PICK order \in SetToSeqs(other) : r \in SubsInserted(subs, order)
    BY <1>2 DEF SubsMerged
  <2>2. N \in Nat /\ other \in SUBSET Texts /\ IsFiniteSet(other)
    BY FS_CardinalityType DEF Separate
  <2>3. order \in [1..N -> other] /\ \A i, j \in 1..N : i # j => order[i] # order[j]
    BY <2>1, Zenon DEF SetToSeqs
  <2>4. \A s \in other : \E i \in 1..N : order[i] = s
    <3> HIDE DEF N
    <3>1. order \in Injection(1..N, other)
      BY <2>3 DEF Injection, IsInjective
    <3>2. Cardinality(1..N) = N
      BY <2>2, FS_Interval
    <3>3. order \in Surjection(1..N, other)
      BY <2>2, <3>1, <3>2, FS_Injection DEF N
    <3> QED BY <3>3 DEF Surjection
  <2> HIDE DEF N
  <2>5. Len(order) = N
    <3>1. order \in Seq(other)
      BY <2>2, <2>3
    <3> QED BY <2>2, <2>3, <3>1
  <2>6. \E f : IsSubsRun(f, N, subs, order)
    BY <2>2, SubsRunExists
  <2>7. \E g : SubsInserted(subs, order) = g[N] /\ IsSubsRun(g, N, subs, order)
    BY <2>5, <2>6, Zenon DEF SubsInserted, IsSubsRun, SubsTaken
  <2>8. PICK g : SubsInserted(subs, order) = g[N] /\ IsSubsRun(g, N, subs, order)
    BY <2>7
  <2>9. \A m \in 0..N : g[m] = IF m = 0 THEN {subs} ELSE SubsTaken(g[m - 1], order[m])
    BY <2>8 DEF IsSubsRun
  <2> DEFINE P(n) == \A s \in g[n] :
                       /\ Separate(s)
                       /\ \A t \in Texts : substr_match(s, t)
                            <=> substr_match(subs, t) \/ \E i \in 1..n : Occurs(order[i], t)
  <2>10. P(0)
    BY <2>2, <2>9
  <2>11. ASSUME NEW n \in 0..(N - 1), P(n) PROVE P(n + 1)
    <3> SUFFICES ASSUME NEW s \in g[n + 1]
                 PROVE  /\ Separate(s)
                        /\ \A t \in Texts : substr_match(s, t)
                             <=> substr_match(subs, t) \/ \E i \in 1..(n + 1) : Occurs(order[i], t)
      OBVIOUS
    <3>1. n + 1 \in 1..N /\ (n + 1) - 1 = n /\ n + 1 # 0
      BY <2>2
    <3>2. g[n + 1] = SubsTaken(g[n], order[n + 1])
      BY <2>9, <3>1
    <3>3. PICK o \in g[n] : s \in substr_insert(o, order[n + 1])
      BY <3>2 DEF SubsTaken
    <3>4. order[n + 1] \in Texts
      BY <2>2, <2>3, <3>1
    <3>5. /\ Separate(o)
          /\ \A t \in Texts : substr_match(o, t)
               <=> substr_match(subs, t) \/ \E i \in 1..n : Occurs(order[i], t)
      BY <2>11
    <3>6. /\ Separate(s)
          /\ \A t \in Texts : substr_match(s, t) <=> substr_match(o, t) \/ Occurs(order[n + 1], t)
      BY <3>3, <3>4, <3>5, SubsInsertCovers
    <3>7. \A i : i \in 1..(n + 1) <=> i \in 1..n \/ i = n + 1
      BY <2>2
    <3> QED BY <3>5, <3>6, <3>7
  <2> DEFINE S == {n \in Nat : n <= N /\ ~P(n)}
  <2>12. ASSUME S # {} PROVE FALSE
    <3>1. PICK n \in S : \A m \in S : n <= m
      <4> S \subseteq Nat
        OBVIOUS
      <4> HIDE DEF S
      <4> QED BY <2>12, LeastNumber
    <3>2. n \in Nat /\ n <= N /\ ~P(n)
      BY <3>1
    <3> HIDE DEF P
    <3>3. n # 0
      BY <2>10, <3>2
    <3>4. n - 1 \in 0..(N - 1) /\ n - 1 \notin S /\ (n - 1) + 1 = n
      BY <2>2, <3>1, <3>2, <3>3
    <3>5. P(n - 1)
      BY <2>2, <3>4
    <3> QED BY <2>11, <3>2, <3>4, <3>5
  <2>13. P(N)
    <3> HIDE DEF P
    <3> QED BY <2>2, <2>12
  <2>14. \A t : substr_match(other, t) <=> \E i \in 1..N : Occurs(order[i], t)
    BY <2>3, <2>4 DEF substr_match
  <2> QED BY <2>1, <2>8, <2>13, <2>14
<1> QED BY <1>1, <1>2

-----------------------------------------------------------------------------
(***************************************************************************)
(* The texts that `match' compares: a bare name with a dot in front, with  *)
(* one at the end, and with both.                                          *)
(***************************************************************************)

\* A text that is not empty and neither begins nor ends with a dot.
Bare(n) == n \in Texts /\ Len(n) > 0 /\ n[1] # Dot /\ n[Len(n)] # Dot

LEMMA DotIsCharacter == Dot \in Nat /\ <<Dot>> \in Texts /\ Len(<<Dot>>) = 1 /\ <<Dot>>[1] = Dot
BY DEF Dot, Texts

LEMMA FrontPlaces ==
  ASSUME NEW n \in Texts
  PROVE  /\ <<Dot>> \o n \in Texts /\ Len(<<Dot>> \o n) = Len(n) + 1
         /\ (<<Dot>> \o n)[1] = Dot
         /\ \A i \in 1..Len(n) : (<<Dot>> \o n)[i + 1] = n[i]
<1>1. Len(n) \in Nat
  BY DEF Texts
<1> DEFINE d == <<Dot>>
<1>2. d \in Seq(Nat) /\ Len(d) = 1 /\ d[1] = Dot
  BY DotIsCharacter DEF Texts
<1> HIDE DEF d
<1>3. /\ d \o n \in Seq(Nat) /\ Len(d \o n) = 1 + Len(n)
      /\ \A i \in 1..(1 + Len(n)) : (d \o n)[i] = IF i <= 1 THEN d[i] ELSE n[i - 1]
  <2>1. n \in Seq(Nat)
    BY DEF Texts
  <2>2. /\ d \o n \in Seq(Nat) /\ Len(d \o n) = Len(d) + Len(n)
        /\ \A i \in 1..(Len(d) + Len(n)) :
             (d \o n)[i] = IF i <= Len(d) THEN d[i] ELSE n[i - Len(d)]
    BY <1>2, <2>1, ConcatProperties
  <2> QED BY <1>2, <2>2
<1>4. ASSUME NEW i \in 1..Len(n) PROVE (d \o n)[i + 1] = n[i]
  <2>1. i + 1 \in 1..(1 + Len(n)) /\ ~(i + 1 <= 1) /\ (i + 1) - 1 = i
    BY <1>1
  <2> QED BY <1>3, <2>1
<1>5. (d \o n)[1] = Dot
  BY <1>1, <1>2, <1>3
<1>6. Len(d \o n) = Len(n) + 1
  BY <1>1, <1>3
<1> QED BY <1>3, <1>4, <1>5, <1>6 DEF d, Texts

LEMMA BackPlaces ==
  ASSUME NEW n \in Texts
  PROVE  /\ Append(n, Dot) \in Texts /\ Len(Append(n, Dot)) = Len(n) + 1
         /\ Append(n, Dot)[Len(n) + 1] = Dot
         /\ \A i \in 1..Len(n) : Append(n, Dot)[i] = n[i]
BY DotIsCharacter, AppendProperties DEF Texts

LEMMA BothPlaces ==
  ASSUME NEW n \in Texts
  PROVE  /\ <<Dot>> \o n \o <<Dot>> \in Texts /\ Len(<<Dot>> \o n \o <<Dot>>) = Len(n) + 2
         /\ (<<Dot>> \o n \o <<Dot>>)[1] = Dot
         /\ (<<Dot>> \o n \o <<Dot>>)[Len(n) + 2] = Dot
         /\ \A i \in 1..Len(n) : (<<Dot>> \o n \o <<Dot>>)[i + 1] = n[i]
         /\ <<Dot>> \o n \o <<Dot>> = Append(<<Dot>> \o n, Dot)
<1> DEFINE m == <<Dot>> \o n
<1>1. Len(n) \in Nat
  BY DEF Texts
<1>2. m \in Texts /\ Len(m) = Len(n) + 1 /\ m[1] = Dot /\ \A i \in 1..Len(n) : m[i + 1] = n[i]
  BY FrontPlaces
<1> HIDE DEF m
<1>3. Append(m, Dot) = m \o <<Dot>>
  BY <1>2, DotIsCharacter, AppendIsConcat DEF Texts
<1>4. /\ Append(m, Dot) \in Texts /\ Len(Append(m, Dot)) = Len(m) + 1
      /\ Append(m, Dot)[Len(m) + 1] = Dot
      /\ \A i \in 1..Len(m) : Append(m, Dot)[i] = m[i]
  BY <1>2, BackPlaces
<1>5. Len(m) + 1 = Len(n) + 2 /\ 1 \in 1..Len(m) /\ \A i \in 1..Len(n) : i + 1 \in 1..Len(m)
  BY <1>1, <1>2
<1> QED BY <1>2, <1>3, <1>4, <1>5 DEF m

\* `contains' in the order from the front, place by place.
LEMMA FrontMeans ==
  ASSUME NEW t \in Texts, NEW w \in Texts
  PROVE  /\ contains("comp", t, w)
              <=> Len(w) <= Len(t) /\ \A i \in 1..Len(w) : t[i] = w[i]
         /\ contains("comp", t, w) <=> IsPrefix(w, t)
<1>1. Len(t) \in Nat /\ Len(w) \in Nat
  BY DEF Texts
<1>2. contains("comp", t, w) <=> IsPrefix(w, t)
  BY DEF contains, Key
<1>3. ASSUME IsPrefix(w, t) PROVE Len(w) <= Len(t) /\ \A i \in 1..Len(w) : t[i] = w[i]
  <2>1. Len(w) <= Len(t) /\ \A i \in 1..Len(w) : At(w, i) = At(t, i)
    BY <1>3, PrefixMeans DEF IsPrefix
  <2>2. ASSUME NEW i \in 1..Len(w) PROVE t[i] = w[i]
    <3>1. t[i] \in Nat /\ w[i] \in Nat
      BY <1>1, <2>1 DEF Texts
    <3>2. w[i] + 1 = t[i] + 1
      BY <1>1, <2>1 DEF At
    <3> QED BY <3>1, <3>2
  <2> QED BY <2>1, <2>2
<1>4. ASSUME Len(w) <= Len(t), \A i \in 1..Len(w) : t[i] = w[i] PROVE IsPrefix(w, t)
  <2>1. \A i \in 1..Len(w) : At(w, i) = At(t, i)
    BY <1>1, <1>4 DEF At
  <2> QED BY <2>1, PrefixMeans
<1> QED BY <1>2, <1>3, <1>4

\* `contains' in the order from the back, place by place.
LEMMA BackMeans ==
  ASSUME NEW t \in Texts, NEW w \in Texts
  PROVE  /\ contains("rev_comp", t, w)
              <=> Len(w) <= Len(t) /\ \A i \in 1..Len(w) : t[(Len(t) - Len(w)) + i] = w[i]
         /\ contains("rev_comp", t, w) <=> IsSuffix(w, t)
<1> DEFINE a == Reverse(t)
           b == Reverse(w)
           d == Len(t) - Len(w)
<1>1. Len(t) \in Nat /\ Len(w) \in Nat
  BY DEF Texts
<1>2. /\ a \in Texts /\ Len(a) = Len(t) /\ \A i \in 1..Len(t) : a[i] = t[(Len(t) - i) + 1]
  BY <1>1 DEF Reverse, Texts
<1>3. /\ b \in Texts /\ Len(b) = Len(w) /\ \A i \in 1..Len(w) : b[i] = w[(Len(w) - i) + 1]
  BY <1>1 DEF Reverse, Texts
<1>4. contains("rev_comp", t, w) <=> IsPrefix(b, a)
  BY DEF contains, Key
<1>5. IsSuffix(w, t) <=> IsPrefix(b, a)
  BY DEF IsSuffix
<1> HIDE DEF a, b
<1>6. IsPrefix(b, a) <=> Len(w) <= Len(t) /\ \A i \in 1..Len(w) : a[i] = b[i]
  BY <1>2, <1>3, FrontMeans
<1>7. ASSUME Len(w) <= Len(t), \A i \in 1..Len(w) : a[i] = b[i], NEW i \in 1..Len(w)
      PROVE  t[d + i] = w[i]
  <2> DEFINE j == (Len(w) - i) + 1
  <2>1. /\ j \in 1..Len(w) /\ j \in 1..Len(t) /\ (Len(w) - j) + 1 = i
        /\ (Len(t) - j) + 1 = d + i
    BY <1>1, <1>7
  <2> HIDE DEF j, d
  <2> QED BY <1>2, <1>3, <1>7, <2>1
<1>8. ASSUME Len(w) <= Len(t), \A i \in 1..Len(w) : t[d + i] = w[i], NEW i \in 1..Len(w)
      PROVE  a[i] = b[i]
  <2> DEFINE j == (Len(w) - i) + 1
  <2>1. j \in 1..Len(w) /\ i \in 1..Len(t) /\ (Len(t) - i) + 1 = d + j
    BY <1>1, <1>8
  <2> HIDE DEF d
  <2>2. a[i] = t[d + j] /\ b[i] = w[j]
    BY <1>2, <1>3, <2>1
  <2> HIDE DEF j
  <2> QED BY <1>8, <2>1, <2>2
<1> HIDE DEF d
<1>9. IsPrefix(b, a) <=> Len(w) <= Len(t) /\ \A i \in 1..Len(w) : t[d + i] = w[i]
  BY <1>6, <1>7, <1>8
<1> QED BY <1>4, <1>5, <1>9 DEF d

LEMMA DottedNames ==
  ASSUME NEW n, Bare(n)
  PROVE  /\ FrontDot(n) = <<Dot>> \o n
         /\ BackDot(<<Dot>> \o n) = <<Dot>> \o n \o <<Dot>>
         /\ Tail(<<Dot>> \o n \o <<Dot>>) = Append(n, Dot)
<1> DEFINE d == <<Dot>> \o n
           b == <<Dot>> \o n \o <<Dot>>
           e == Append(n, Dot)
<1>1. n \in Texts /\ Len(n) \in Nat /\ Len(n) > 0 /\ n[1] # Dot /\ n[Len(n)] # Dot
  BY DEF Bare, Texts
<1>2. FrontDot(n) = d
  BY <1>1 DEF FrontDot
<1>3. d \in Texts /\ Len(d) = Len(n) + 1 /\ \A i \in 1..Len(n) : d[i + 1] = n[i]
  BY <1>1, FrontPlaces
<1>4. /\ b \in Texts /\ Len(b) = Len(n) + 2 /\ b[Len(n) + 2] = Dot
      /\ \A i \in 1..Len(n) : b[i + 1] = n[i]
      /\ b = Append(d, Dot)
  BY <1>1, BothPlaces
<1>5. /\ e \in Texts /\ Len(e) = Len(n) + 1 /\ e[Len(n) + 1] = Dot
      /\ \A i \in 1..Len(n) : e[i] = n[i]
  BY <1>1, BackPlaces
<1> HIDE DEF d, b, e
<1>6. BackDot(d) = b
  <2>1. d[Len(d)] = n[Len(n)]
    BY <1>1, <1>3
  <2> QED BY <1>1, <1>4, <2>1 DEF BackDot
<1>7. Tail(b) = e
  <2>1. b # <<>> /\ b \in Seq(Nat)
    BY <1>1, <1>4 DEF Texts
  <2>2. /\ Tail(b) \in Seq(Nat) /\ Len(Tail(b)) = Len(b) - 1
        /\ \A i \in 1..Len(Tail(b)) : Tail(b)[i] = b[i + 1]
    BY <2>1, HeadTailProperties
  <2>3. Len(Tail(b)) = Len(e) /\ e \in Seq(Nat)
    BY <1>1, <1>4, <1>5, <2>2 DEF Texts
  <2>4. ASSUME NEW i \in 1..Len(Tail(b)) PROVE Tail(b)[i] = e[i]
    <3>1. Tail(b)[i] = b[i + 1] /\ i \in 1..(Len(n) + 1)
      BY <1>5, <2>2, <2>3
    <3>2. CASE i = Len(n) + 1
      BY <1>1, <1>4, <1>5, <3>1, <3>2
    <3>3. CASE i # Len(n) + 1
      BY <1>1, <1>4, <1>5, <3>1, <3>3
    <3> QED BY <3>2, <3>3
  <2> QED BY <2>2, <2>3, <2>4, SeqEqual
<1> QED BY <1>2, <1>6, <1>7 DEF d, b, e

\* Lower case keeps the length of a text and its dots.
LEMMA LowerFacts ==
  ASSUME NEW s \in Texts
  PROVE  /\ ascii_tolower(s) \in Texts /\ Len(ascii_tolower(s)) = Len(s)
         /\ \A i \in 1..Len(s) : ascii_tolower(s)[i] = Dot <=> s[i] = Dot
<1>1. Len(s) \in Nat
  BY DEF Texts
<1>2. \A c \in Nat : LowerChar(c) \in Nat /\ (LowerChar(c) = Dot <=> c = Dot)
  BY DEF LowerChar, Dot
<1>3. \A i \in 1..Len(s) : s[i] \in Nat
  BY DEF Texts
<1>4. /\ ascii_tolower(s) \in Seq(Nat) /\ Len(ascii_tolower(s)) = Len(s)
      /\ \A i \in 1..Len(s) : ascii_tolower(s)[i] = LowerChar(s[i])
  BY <1>1, <1>2, <1>3 DEF ascii_tolower
<1> QED BY <1>2, <1>3, <1>4 DEF Texts

LEMMA LowerBare ==
  ASSUME NEW n, Bare(n)
  PROVE  Bare(ascii_tolower(n))
<1>1. n \in Texts /\ Len(n) \in Nat /\ Len(n) > 0 /\ n[1] # Dot /\ n[Len(n)] # Dot
  BY DEF Bare, Texts
<1>2. 1 \in 1..Len(n) /\ Len(n) \in 1..Len(n)
  BY <1>1
<1> QED BY <1>1, <1>2, LowerFacts DEF Bare

LEMMA NamesAreBare == \A n \in Names : Bare(n)
<1> SUFFICES ASSUME NEW n \in Names PROVE Bare(n)
  OBVIOUS
<1>1. n \in Seq(Nat) /\ n # <<>> /\ n[1] # Dot /\ n[Len(n)] # Dot
  BY TextsAssumption
<1>2. Len(n) > 0
  BY <1>1
<1> QED BY <1>1, <1>2 DEF Bare, Texts

-----------------------------------------------------------------------------
(***************************************************************************)
(* The filter.                                                             *)
(***************************************************************************)

\* A filter as the constructor and `merge' keep it.
Good(f) ==
  /\ f \in [prefix : SUBSET Texts, suffix : SUBSET Texts,
            substrings : SUBSET Texts, exact : SUBSET Texts]
  /\ Ordered("rev_comp", f.suffix) /\ ~Covered("rev_comp", f.suffix, <<>>)
  /\ Ordered("comp", f.prefix) /\ ~Covered("comp", f.prefix, <<>>)
  /\ Separate(f.substrings)

\* One of the words that f holds covers the bare name n.
Covers(f, n) ==
  \/ n \in f.exact
  \/ Covered("rev_comp", f.suffix, <<Dot>> \o n)
  \/ substr_match(f.substrings, <<Dot>> \o n \o <<Dot>>)
  \/ Covered("comp", f.prefix, Append(n, Dot))

LEMMA DottedTexts ==
  ASSUME NEW n, Bare(n)
  PROVE  <<Dot>> \o n \in Texts /\ Append(n, Dot) \in Texts /\ <<Dot>> \o n \o <<Dot>> \in Texts
BY FrontPlaces, BackPlaces, BothPlaces DEF Bare

\* `match' finds a name, with or without its final dot, exactly when the filter
\* covers it.
LEMMA MatchMeans ==
  ASSUME NEW f, Good(f), NEW n, Bare(n)
  PROVE  /\ match(f, n) <=> Covers(f, ascii_tolower(n))
         /\ match(f, Append(n, Dot)) <=> Covers(f, ascii_tolower(n))
<1> DEFINE low == ascii_tolower(n)
           e   == Append(n, Dot)
           Found(m) == \/ m \in f.exact
                       \/ words_match("rev_comp", f.suffix, FrontDot(m))
                       \/ substr_match(f.substrings, BackDot(FrontDot(m)))
                       \/ words_match("comp", f.prefix, Tail(BackDot(FrontDot(m))))
<1>1. n \in Texts /\ n \in Seq(Nat) /\ Len(n) \in Nat /\ Len(n) > 0 /\ n[Len(n)] # Dot
  BY DEF Bare, Texts
<1>2. SubSeq(n, 1, Len(n)) = n
  BY <1>1, SubSeqFull
<1>3. /\ e \in Texts /\ Len(e) = Len(n) + 1 /\ e[Len(n) + 1] = Dot
      /\ \A i \in 1..Len(n) : e[i] = n[i]
  BY <1>1, BackPlaces
<1> HIDE DEF e
<1>4. SubSeq(e, 1, Len(n)) = n
  <2> DEFINE k == Len(n)
             u == SubSeq(e, 1, k)
  <2>1. k \in Nat /\ k > 0 /\ 1 <= k /\ k - 1 + 1 = k /\ \A i \in 1..k : 1 + i - 1 = i
    BY <1>1
  <2>2. \A i \in 1..k : e[i] \in Nat
    BY <1>1, <1>3 DEF Texts
  <2> HIDE DEF k
  <2>3. /\ u \in Seq(Nat) /\ Len(u) = IF 1 <= k THEN k - 1 + 1 ELSE 0
        /\ \A i \in 1..(k - 1 + 1) : u[i] = e[1 + i - 1]
    BY <2>1, <2>2, SubSeqProperties
  <2> HIDE DEF u
  <2>4. Len(u) = Len(n) /\ \A i \in 1..Len(u) : u[i] = n[i]
    BY <1>3, <2>1, <2>3 DEF k
  <2>5. u = n
    BY <1>1, <2>3, <2>4, SeqEqual
  <2> QED BY <2>5 DEF u, k
<1>5. match(f, n) <=> Found(low)
  <2>1. (IF Len(n) > 1 /\ n[Len(n)] = Dot THEN Len(n) - 1 ELSE Len(n)) = Len(n)
    BY <1>1
  <2> QED BY <1>2, <2>1 DEF match
<1>6. match(f, e) <=> Found(low)
  <2>1. (IF Len(e) > 1 /\ e[Len(e)] = Dot THEN Len(e) - 1 ELSE Len(e)) = Len(n)
    BY <1>1, <1>3
  <2> QED BY <1>4, <2>1 DEF match
<1>7. Bare(low)
  BY LowerBare
<1> HIDE DEF low
<1>8. Found(low) <=> Covers(f, low)
  <2>1. /\ FrontDot(low) = <<Dot>> \o low
        /\ BackDot(FrontDot(low)) = <<Dot>> \o low \o <<Dot>>
        /\ Tail(BackDot(FrontDot(low))) = Append(low, Dot)
    BY <1>7, DottedNames
  <2>2. /\ words_match("rev_comp", f.suffix, <<Dot>> \o low)
             <=> Covered("rev_comp", f.suffix, <<Dot>> \o low)
        /\ words_match("comp", f.prefix, Append(low, Dot))
             <=> Covered("comp", f.prefix, Append(low, Dot))
    BY <1>7, DottedTexts, MatchLooksAtOne DEF Good
  <2> QED BY <2>1, <2>2 DEF Covers
<1> HIDE DEF Found
<1> QED BY <1>5, <1>6, <1>8 DEF low, e

\* What stands at the end of `.n', with a dot after it, occurs in `.n.'.
LEMMA SuffixOccurs ==
  ASSUME NEW n, Bare(n), NEW d \in Texts, d # <<>>, contains("rev_comp", <<Dot>> \o n, d)
  PROVE  Occurs(BackDot(d), <<Dot>> \o n \o <<Dot>>) /\ BackDot(d) \in Texts
<1> DEFINE p == <<Dot>> \o n
           b == <<Dot>> \o n \o <<Dot>>
           e == Append(d, Dot)
<1>1. /\ n \in Texts /\ Len(n) \in Nat /\ Len(n) > 0 /\ n[Len(n)] # Dot
      /\ Len(d) \in Nat /\ Len(d) > 0
  BY DEF Bare, Texts
<1>2. p \in Texts /\ Len(p) = Len(n) + 1 /\ \A i \in 1..Len(n) : p[i + 1] = n[i]
  BY <1>1, FrontPlaces
<1>3. b \in Texts /\ b = Append(p, Dot)
  BY <1>1, BothPlaces
<1>4. contains("rev_comp", p, d)
  OBVIOUS
<1> HIDE DEF p, b
<1>5. Len(d) <= Len(p) /\ \A i \in 1..Len(d) : p[(Len(p) - Len(d)) + i] = d[i]
  BY <1>2, <1>4, BackMeans
<1>6. d[Len(d)] = n[Len(n)]
  <2>1. Len(d) \in 1..Len(d) /\ (Len(p) - Len(d)) + Len(d) = Len(n) + 1
    BY <1>1, <1>2
  <2>2. p[Len(n) + 1] = d[Len(d)]
    BY <1>5, <2>1
  <2> QED BY <1>1, <1>2, <2>2
<1>7. BackDot(d) = e
  BY <1>1, <1>6 DEF BackDot
<1>8. /\ e \in Texts /\ Len(e) = Len(d) + 1 /\ e[Len(d) + 1] = Dot
      /\ \A i \in 1..Len(d) : e[i] = d[i]
  BY BackPlaces
<1>9. /\ Len(b) = Len(p) + 1 /\ b[Len(p) + 1] = Dot
      /\ \A i \in 1..Len(p) : b[i] = p[i]
  BY <1>2, <1>3, BackPlaces
<1> HIDE DEF e
<1> DEFINE k == Len(p) - Len(d)
<1>10. k \in 0..(Len(b) - Len(e))
  BY <1>1, <1>2, <1>5, <1>8, <1>9
<1>11. ASSUME NEW i \in 1..Len(e) PROVE b[k + i] = e[i]
  <2>1. CASE i = Len(d) + 1
    <3>1. k + i = Len(p) + 1
      BY <1>1, <1>2, <2>1
    <3> QED BY <1>8, <1>9, <2>1, <3>1
  <2>2. CASE i # Len(d) + 1
    <3>1. i \in 1..Len(d) /\ k + i \in 1..Len(p)
      BY <1>1, <1>2, <1>5, <1>8, <2>2
    <3> QED BY <1>5, <1>8, <1>9, <3>1
  <2> QED BY <2>1, <2>2
<1> HIDE DEF k
<1>12. Occurs(e, b)
  BY <1>3, <1>8, <1>10, <1>11, OccursMeans
<1> QED BY <1>7, <1>8, <1>12 DEF b

\* What stands at the beginning of `n.', with a dot before it, occurs in `.n.'.
LEMMA PrefixOccurs ==
  ASSUME NEW n, Bare(n), NEW d \in Texts, d # <<>>, contains("comp", Append(n, Dot), d)
  PROVE  Occurs(FrontDot(d), <<Dot>> \o n \o <<Dot>>) /\ FrontDot(d) \in Texts
<1> DEFINE a == Append(n, Dot)
           b == <<Dot>> \o n \o <<Dot>>
           e == <<Dot>> \o d
<1>1. /\ n \in Texts /\ Len(n) \in Nat /\ Len(n) > 0 /\ n[1] # Dot
      /\ Len(d) \in Nat /\ Len(d) > 0
  BY DEF Bare, Texts
<1>2. /\ a \in Texts /\ Len(a) = Len(n) + 1 /\ a[Len(n) + 1] = Dot
      /\ \A i \in 1..Len(n) : a[i] = n[i]
  BY <1>1, BackPlaces
<1>3. /\ b \in Texts /\ Len(b) = Len(n) + 2 /\ b[1] = Dot /\ b[Len(n) + 2] = Dot
      /\ \A i \in 1..Len(n) : b[i + 1] = n[i]
  BY <1>1, BothPlaces
<1>4. contains("comp", a, d)
  OBVIOUS
<1> HIDE DEF a, b
<1>5. Len(d) <= Len(a) /\ \A i \in 1..Len(d) : a[i] = d[i]
  BY <1>2, <1>4, FrontMeans
<1>6. d[1] = n[1]
  BY <1>1, <1>2, <1>5
<1>7. FrontDot(d) = e
  BY <1>1, <1>6 DEF FrontDot
<1>8. /\ e \in Texts /\ Len(e) = Len(d) + 1 /\ e[1] = Dot
      /\ \A i \in 1..Len(d) : e[i + 1] = d[i]
  BY FrontPlaces
<1> HIDE DEF e
<1>9. 0 \in 0..(Len(b) - Len(e))
  BY <1>1, <1>2, <1>3, <1>5, <1>8
<1>10. \A i \in 1..Len(a) : b[i + 1] = a[i]
  <2> TAKE i \in 1..Len(a)
  <2>1. CASE i = Len(n) + 1
    BY <1>1, <1>2, <1>3, <2>1
  <2>2. CASE i # Len(n) + 1
    BY <1>1, <1>2, <1>3, <2>2
  <2> QED BY <2>1, <2>2
<1>11. ASSUME NEW i \in 1..Len(e) PROVE b[0 + i] = e[i]
  <2>1. CASE i = 1
    BY <1>3, <1>8, <2>1
  <2>2. CASE i # 1
    <3>1. i - 1 \in 1..Len(d) /\ i - 1 \in 1..Len(a) /\ (i - 1) + 1 = i /\ 0 + i = i
      BY <1>1, <1>2, <1>5, <1>8, <2>2
    <3> QED BY <1>5, <1>8, <1>10, <3>1
  <2> QED BY <2>1, <2>2
<1>12. Occurs(e, b)
  BY <1>3, <1>8, <1>9, <1>11, OccursMeans
<1> QED BY <1>7, <1>8, <1>12 DEF b

LEMMA SubsetOrdered ==
  ASSUME NEW cmp, NEW W, Ordered(cmp, W), NEW V \in SUBSET W
  PROVE  Ordered(cmp, V)
<1>1. IsFiniteSet(V)
  BY FS_Subset DEF Ordered
<1> QED BY <1>1 DEF Ordered, Antichain

\* A word of an ordered set that does not cover the empty text is not empty.
LEMMA NotEmpty ==
  ASSUME NEW cmp, NEW W, ~Covered(cmp, W, <<>>), NEW w \in W
  PROVE  w # <<>>
<1>1. <<>> \in Texts
  BY DEF Texts
<1>2. contains(cmp, <<>>, <<>>)
  BY <1>1, OrderFacts
<1> QED BY <1>2 DEF Covered

LEMMA OptimizeFields ==
  ASSUME NEW f, Good(f), NEW g, g = optimize(f)
  PROVE  /\ g \in [prefix : SUBSET Texts, suffix : SUBSET Texts,
                   substrings : SUBSET Texts, exact : SUBSET Texts]
         /\ g.substrings = f.substrings
         /\ \A d : d \in g.suffix <=> d \in f.suffix /\ ~substr_match(f.substrings, BackDot(d))
         /\ \A d : d \in g.prefix <=> d \in f.prefix /\ ~substr_match(f.substrings, FrontDot(d))
         /\ \A w : w \in g.exact <=>
              /\ w \in f.exact
              /\ ~words_match("rev_comp", g.suffix, FrontDot(w))
              /\ ~substr_match(f.substrings, BackDot(FrontDot(w)))
              /\ ~words_match("comp", g.prefix, Tail(BackDot(FrontDot(w))))
<1> DEFINE sfx == {d \in f.suffix : ~substr_match(f.substrings, BackDot(d))}
           pfx == {d \in f.prefix : ~substr_match(f.substrings, FrontDot(d))}
           ext == {w \in f.exact :
                     ~(\/ words_match("rev_comp", sfx, FrontDot(w))
                       \/ substr_match(f.substrings, BackDot(FrontDot(w)))
                       \/ words_match("comp", pfx, Tail(BackDot(FrontDot(w)))))}
<1>1. g = [f EXCEPT !.suffix = sfx, !.prefix = pfx, !.exact = ext]
  BY Zenon DEF optimize
<1>2. f \in [prefix : SUBSET Texts, suffix : SUBSET Texts,
             substrings : SUBSET Texts, exact : SUBSET Texts]
  BY DEF Good
<1>3. sfx \in SUBSET Texts /\ pfx \in SUBSET Texts /\ ext \in SUBSET Texts
  BY <1>2
<1>4. \A d : d \in sfx <=> d \in f.suffix /\ ~substr_match(f.substrings, BackDot(d))
  OBVIOUS
<1>5. \A d : d \in pfx <=> d \in f.prefix /\ ~substr_match(f.substrings, FrontDot(d))
  OBVIOUS
<1>6. \A w : w \in ext <=>
              /\ w \in f.exact
              /\ ~words_match("rev_comp", sfx, FrontDot(w))
              /\ ~substr_match(f.substrings, BackDot(FrontDot(w)))
              /\ ~words_match("comp", pfx, Tail(BackDot(FrontDot(w))))
  <2> HIDE DEF sfx, pfx
  <2> QED OBVIOUS
<1> HIDE DEF sfx, pfx, ext
<1>7. /\ g.suffix = sfx /\ g.prefix = pfx /\ g.exact = ext /\ g.substrings = f.substrings
      /\ g \in [prefix : SUBSET Texts, suffix : SUBSET Texts,
                substrings : SUBSET Texts, exact : SUBSET Texts]
  BY <1>1, <1>2, <1>3
<1> QED BY <1>4, <1>5, <1>6, <1>7

\* The words that `optimize' drops are superfluous.
LEMMA OptimizeCovers ==
  ASSUME NEW f, Good(f), NEW g, g = optimize(f)
  PROVE  Good(g) /\ \A n : Bare(n) => (Covers(g, n) <=> Covers(f, n))
<1>1. /\ g \in [prefix : SUBSET Texts, suffix : SUBSET Texts,
                substrings : SUBSET Texts, exact : SUBSET Texts]
      /\ g.substrings = f.substrings
  BY OptimizeFields
<1>2. \A d : d \in g.suffix <=> d \in f.suffix /\ ~substr_match(f.substrings, BackDot(d))
  BY OptimizeFields
<1>3. \A d : d \in g.prefix <=> d \in f.prefix /\ ~substr_match(f.substrings, FrontDot(d))
  BY OptimizeFields
<1>4. \A w : w \in g.exact <=>
              /\ w \in f.exact
              /\ ~words_match("rev_comp", g.suffix, FrontDot(w))
              /\ ~substr_match(f.substrings, BackDot(FrontDot(w)))
              /\ ~words_match("comp", g.prefix, Tail(BackDot(FrontDot(w))))
  BY OptimizeFields
<1>5. /\ Ordered("rev_comp", f.suffix) /\ ~Covered("rev_comp", f.suffix, <<>>)
      /\ Ordered("comp", f.prefix) /\ ~Covered("comp", f.prefix, <<>>)
      /\ Separate(f.substrings)
      /\ f.suffix \in SUBSET Texts /\ f.prefix \in SUBSET Texts /\ f.substrings \in SUBSET Texts
  BY DEF Good
<1>6. g.suffix \in SUBSET f.suffix /\ g.prefix \in SUBSET f.prefix
  BY <1>2, <1>3
<1>7. Ordered("rev_comp", g.suffix) /\ Ordered("comp", g.prefix)
  BY <1>5, <1>6, SubsetOrdered
<1>8. /\ \A t : Covered("rev_comp", g.suffix, t) => Covered("rev_comp", f.suffix, t)
      /\ \A t : Covered("comp", g.prefix, t) => Covered("comp", f.prefix, t)
  BY <1>6 DEF Covered
<1>9. Good(g)
  BY <1>1, <1>5, <1>7, <1>8 DEF Good
<1>10. ASSUME NEW n, Bare(n) PROVE Covers(g, n) <=> Covers(f, n)
  <2> DEFINE p == <<Dot>> \o n
             b == <<Dot>> \o n \o <<Dot>>
             e == Append(n, Dot)
  <2>1. p \in Texts /\ b \in Texts /\ e \in Texts
    BY <1>10, DottedTexts
  <2>2. ASSUME Covered("rev_comp", f.suffix, p)
        PROVE  Covered("rev_comp", g.suffix, p) \/ substr_match(f.substrings, b)
    <3>1. PICK d \in f.suffix : contains("rev_comp", p, d)
      BY <2>2 DEF Covered
    <3>2. CASE d \in g.suffix
      BY <3>1, <3>2 DEF Covered
    <3>3. CASE d \notin g.suffix
      <4>1. PICK s \in f.substrings : Occurs(s, BackDot(d))
        BY <1>2, <3>3 DEF substr_match
      <4>2. d \in Texts /\ d # <<>> /\ s \in Texts
        BY <1>5, NotEmpty
      <4>3. Occurs(BackDot(d), b) /\ BackDot(d) \in Texts
        BY <1>10, <3>1, <4>2, SuffixOccurs
      <4>4. Occurs(s, b)
        BY <2>1, <4>1, <4>2, <4>3, OccursTransitive
      <4> QED BY <4>4 DEF substr_match
    <3> QED BY <3>2, <3>3
  <2>3. ASSUME Covered("comp", f.prefix, e)
        PROVE  Covered("comp", g.prefix, e) \/ substr_match(f.substrings, b)
    <3>1. PICK d \in f.prefix : contains("comp", e, d)
      BY <2>3 DEF Covered
    <3>2. CASE d \in g.prefix
      BY <3>1, <3>2 DEF Covered
    <3>3. CASE d \notin g.prefix
      <4>1. PICK s \in f.substrings : Occurs(s, FrontDot(d))
        BY <1>3, <3>3 DEF substr_match
      <4>2. d \in Texts /\ d # <<>> /\ s \in Texts
        BY <1>5, NotEmpty
      <4>3. Occurs(FrontDot(d), b) /\ FrontDot(d) \in Texts
        BY <1>10, <3>1, <4>2, PrefixOccurs
      <4>4. Occurs(s, b)
        BY <2>1, <4>1, <4>2, <4>3, OccursTransitive
      <4> QED BY <4>4 DEF substr_match
    <3> QED BY <3>2, <3>3
  <2>4. FrontDot(n) = p /\ BackDot(FrontDot(n)) = b /\ Tail(BackDot(FrontDot(n))) = e
    BY <1>10, DottedNames
  <2> HIDE DEF p, b, e
  <2>5. /\ words_match("rev_comp", g.suffix, p) <=> Covered("rev_comp", g.suffix, p)
        /\ words_match("comp", g.prefix, e) <=> Covered("comp", g.prefix, e)
    BY <1>7, <2>1, MatchLooksAtOne
  <2>6. n \in g.exact <=>
              /\ n \in f.exact /\ ~Covered("rev_comp", g.suffix, p)
              /\ ~substr_match(f.substrings, b) /\ ~Covered("comp", g.prefix, e)
    BY <1>4, <2>4, <2>5
  <2>7. \A h : Covers(h, n) <=> \/ n \in h.exact \/ Covered("rev_comp", h.suffix, p)
                                \/ substr_match(h.substrings, b) \/ Covered("comp", h.prefix, e)
    BY DEF Covers, p, b, e
  <2> QED BY <1>1, <1>8, <2>2, <2>3, <2>6, <2>7
<1> QED BY <1>9, <1>10

\* A word that a list file can hold: the constructor asserts that the only star
\* of a word, if it is the first character, stands before a dot.
ListWords ==
  {w \in Texts : w # <<>> /\ (w[1] = Star /\ Len(w) > 1 => w[Len(w)] = Star \/ w[2] = Dot)}

LEMMA FilesHoldListWords == FileWords \in SUBSET ListWords
BY TextsAssumption, WordsAssumption DEF ListWords, Texts

\* What the constructor makes of a word is a text; the text of a suffix begins
\* with a dot, that of a whole name does not.
LEMMA ClassifiedFacts ==
  ASSUME NEW w \in ListWords, NEW c, c = Classified(w)
  PROVE  /\ c.text \in Texts
         /\ c.text # <<>> => c.kind \in {"exact", "suffix", "prefix", "substring"}
         /\ c.text # <<>> /\ c.kind = "suffix" => c.text[1] = Dot
         /\ c.text # <<>> /\ c.kind = "exact" => c.text[1] # Dot
<1> DEFINE front == w[1] = Star
           back  == w[Len(w)] = Star
           bare  == IF front THEN Tail(w) ELSE w
           kind  == IF w[1] = Hash THEN "comment"
                    ELSE IF front /\ back THEN "substring"
                    ELSE IF back THEN "prefix"
                    ELSE IF bare[1] = Dot THEN "suffix"
                    ELSE "exact"
           text  == CASE kind = "comment"   -> <<>>
                      [] kind = "substring" -> SubSeq(w, 2, Len(w) - 1)
                      [] kind = "prefix"    -> SubSeq(w, 1, Len(w) - 1)
                      [] OTHER              -> bare
<1>1. c = [kind |-> kind, text |-> ascii_tolower(text)]
  BY Zenon DEF Classified
<1>2. c.kind = kind /\ c.text = ascii_tolower(text)
  <2> HIDE DEF kind, text
  <2> QED BY <1>1
<1>3. w \in Seq(Nat) /\ w # <<>> /\ Len(w) \in Nat
  BY DEF ListWords, Texts
<1>4. bare \in Seq(Nat)
  BY <1>3, HeadTailProperties
<1>5. SubSeq(w, 2, Len(w) - 1) \in Seq(Nat) /\ SubSeq(w, 1, Len(w) - 1) \in Seq(Nat)
  <2> DEFINE m == Len(w) - 1
  <2>1. m \in Int /\ (\A i \in 2..m : w[i] \in Nat) /\ (\A i \in 1..m : w[i] \in Nat)
    BY <1>3
  <2> HIDE DEF m
  <2>2. SubSeq(w, 2, m) \in Seq(Nat) /\ SubSeq(w, 1, m) \in Seq(Nat)
    BY <2>1, SubSeqProperties
  <2> QED BY <2>2 DEF m
<1>6. /\ kind \in {"comment", "substring", "prefix", "suffix", "exact"}
      /\ kind = "suffix" => bare[1] = Dot
      /\ kind = "exact" => bare[1] # Dot
  <2> HIDE DEF bare, front, back
  <2> QED OBVIOUS
<1> HIDE DEF kind, bare
<1>7. /\ kind = "comment" => text = <<>>
      /\ kind = "suffix" => text = bare
      /\ kind = "exact" => text = bare
  OBVIOUS
<1>8. text \in Texts
  BY <1>4, <1>5, <1>6 DEF Texts
<1> HIDE DEF text
<1>9. /\ ascii_tolower(text) \in Texts /\ Len(ascii_tolower(text)) = Len(text)
      /\ \A i \in 1..Len(text) : ascii_tolower(text)[i] = Dot <=> text[i] = Dot
  BY <1>8, LowerFacts
<1>10. c.text # <<>> => text # <<>> /\ 1 \in 1..Len(text)
  <2>1. text = <<>> => Len(ascii_tolower(text)) = 0
    BY <1>9
  <2>2. text = <<>> => ascii_tolower(text) = <<>>
    BY <1>9, <2>1 DEF Texts
  <2>3. text # <<>> => 1 \in 1..Len(text)
    BY <1>8 DEF Texts
  <2> QED BY <1>2, <2>2, <2>3
<1> QED BY <1>2, <1>6, <1>7, <1>9, <1>10

\* A suffix covers the name after its dot and the names below it.
LEMMA SuffixSays ==
  ASSUME NEW n, Bare(n), NEW s \in Texts, s # <<>>, s[1] = Dot
  PROVE  contains("rev_comp", <<Dot>> \o n, s) <=> n = Tail(s) \/ IsSuffix(s, n)
<1> DEFINE p == <<Dot>> \o n
<1>1. /\ n \in Texts /\ n \in Seq(Nat) /\ s \in Seq(Nat)
      /\ Len(n) \in Nat /\ Len(s) \in Nat /\ Len(s) > 0
  BY DEF Bare, Texts
<1>2. p \in Texts /\ Len(p) = Len(n) + 1 /\ p[1] = Dot /\ \A i \in 1..Len(n) : p[i + 1] = n[i]
  BY <1>1, FrontPlaces
<1> HIDE DEF p
<1>3. contains("rev_comp", p, s)
        <=> Len(s) <= Len(p) /\ \A i \in 1..Len(s) : p[(Len(p) - Len(s)) + i] = s[i]
  BY <1>2, BackMeans
<1>4. IsSuffix(s, n)
        <=> Len(s) <= Len(n) /\ \A i \in 1..Len(s) : n[(Len(n) - Len(s)) + i] = s[i]
  BY <1>1, BackMeans
<1>5. /\ Tail(s) \in Seq(Nat) /\ Len(Tail(s)) = Len(s) - 1
      /\ \A i \in 1..Len(Tail(s)) : Tail(s)[i] = s[i + 1]
  BY <1>1, HeadTailProperties
<1> DEFINE q == Tail(s)
<1>lengths. Len(p) = Len(n) + 1 /\ Len(q) = Len(s) - 1
  BY <1>2, <1>5
<1> HIDE DEF q
<1>6. CASE Len(s) > Len(p)
  <2>1. ~(Len(s) <= Len(p)) /\ ~(Len(s) <= Len(n)) /\ Len(q) # Len(n)
    BY <1>1, <1>lengths, <1>6
  <2>2. n # q
    BY <2>1
  <2> QED BY <1>3, <1>4, <2>1, <2>2 DEF p, q
<1>7. CASE Len(s) = Len(p)
  <2>1. Len(Tail(s)) = Len(n) /\ ~(Len(s) <= Len(n)) /\ \A i \in 1..Len(s) : (Len(p) - Len(s)) + i = i
    BY <1>1, <1>2, <1>5, <1>7
  <2>2. ASSUME \A i \in 1..Len(s) : p[i] = s[i] PROVE n = Tail(s)
    <3>1. ASSUME NEW i \in 1..Len(n) PROVE n[i] = Tail(s)[i]
      <4>1. i + 1 \in 1..Len(s)
        BY <1>1, <1>2, <1>7
      <4> QED BY <1>2, <1>5, <2>1, <2>2, <4>1
    <3> QED BY <1>1, <1>5, <2>1, <3>1, SeqEqual
  <2>3. ASSUME n = Tail(s), NEW i \in 1..Len(s) PROVE p[i] = s[i]
    <3>1. CASE i = 1
      BY <1>2, <3>1
    <3>2. CASE i # 1
      <4>1. i - 1 \in 1..Len(n) /\ (i - 1) + 1 = i
        BY <1>1, <1>2, <1>7, <3>2
      <4>2. p[i] = n[i - 1]
        BY <1>2, <4>1
      <4>3. Tail(s)[i - 1] = s[i]
        BY <1>5, <2>1, <4>1
      <4> QED BY <2>3, <4>2, <4>3
    <3> QED BY <3>1, <3>2
  <2>4. contains("rev_comp", p, s) <=> \A i \in 1..Len(s) : p[i] = s[i]
    BY <1>1, <1>2, <1>3, <1>7, <2>1
  <2> QED BY <1>4, <2>1, <2>2, <2>3, <2>4 DEF p
<1>8. CASE Len(s) < Len(p)
  <2>1. /\ Len(q) # Len(n) /\ Len(s) <= Len(n) /\ Len(s) <= Len(p)
        /\ \A i \in 1..Len(s) : /\ (Len(n) - Len(s)) + i \in 1..Len(n)
                                /\ (Len(p) - Len(s)) + i = ((Len(n) - Len(s)) + i) + 1
    BY <1>1, <1>lengths, <1>8
  <2>3. n # q
    BY <2>1
  <2>2. \A i \in 1..Len(s) : p[(Len(p) - Len(s)) + i] = n[(Len(n) - Len(s)) + i]
    BY <1>2, <2>1
  <2> QED BY <1>3, <1>4, <2>1, <2>2, <2>3 DEF p, q
<1> QED BY <1>1, <1>2, <1>6, <1>7, <1>8

\* A prefix covers the names that begin with it, and the name in front of the
\* dot at its end.
LEMMA PrefixSays ==
  ASSUME NEW n, Bare(n), NEW s \in Texts
  PROVE  contains("comp", Append(n, Dot), s) <=> Append(n, Dot) = s \/ IsPrefix(s, n)
<1> DEFINE e == Append(n, Dot)
<1>1. n \in Texts /\ s \in Seq(Nat) /\ Len(n) \in Nat /\ Len(s) \in Nat
  BY DEF Bare, Texts
<1>2. e \in Texts /\ e \in Seq(Nat) /\ Len(e) = Len(n) + 1 /\ \A i \in 1..Len(n) : e[i] = n[i]
  BY <1>1, BackPlaces DEF Texts
<1> HIDE DEF e
<1>3. contains("comp", e, s) <=> Len(s) <= Len(e) /\ \A i \in 1..Len(s) : e[i] = s[i]
  BY <1>2, FrontMeans
<1>4. IsPrefix(s, n) <=> Len(s) <= Len(n) /\ \A i \in 1..Len(s) : n[i] = s[i]
  BY <1>1, FrontMeans
<1>5. CASE Len(s) <= Len(n)
  <2>1. e # s /\ Len(s) <= Len(e) /\ \A i \in 1..Len(s) : e[i] = n[i]
    BY <1>1, <1>2, <1>5
  <2> QED BY <1>3, <1>4, <1>5, <2>1 DEF e
<1>6. CASE ~(Len(s) <= Len(n))
  <2>1. contains("comp", e, s) => Len(s) = Len(e) /\ \A i \in 1..Len(e) : e[i] = s[i]
    <3>1. Len(s) <= Len(e) => Len(s) = Len(e)
      <4>1. Len(e) = Len(n) + 1
        BY <1>2
      <4> QED BY <1>1, <1>6, <4>1
    <3> QED BY <1>3, <3>1
  <2>2. contains("comp", e, s) => e = s
    BY <1>1, <1>2, <2>1, SeqEqual
  <2>3. e = s => contains("comp", e, s)
    BY <1>1, <1>2, <1>3
  <2> QED BY <1>4, <1>6, <2>2, <2>3 DEF e
<1> QED BY <1>5, <1>6

\* Only the empty text is at the beginning or the end of the empty text.
LEMMA EmptyContains ==
  ASSUME NEW cmp, NEW w \in Texts, contains(cmp, <<>>, w)
  PROVE  w = <<>>
<1>1. <<>> \in Texts /\ Len(w) \in Nat
  BY DEF Texts
<1>2. Len(Key(cmp, w)) = Len(w) /\ Len(Key(cmp, <<>>)) = 0
  <2>1. CASE cmp = "comp"
    BY <2>1 DEF Key
  <2>2. CASE cmp # "comp"
    <3>1. Key(cmp, w) = Reverse(w) /\ Key(cmp, <<>>) = Reverse(<<>>)
      BY <2>2 DEF Key
    <3>2. Len(Reverse(w)) = Len(w) /\ Len(Reverse(<<>>)) = 0
      BY <1>1 DEF Reverse, Texts
    <3> QED BY <3>1, <3>2
  <2> QED BY <2>1, <2>2
<1>3. Len(Key(cmp, w)) <= Len(Key(cmp, <<>>))
  BY DEF contains, IsPrefix
<1>4. Len(w) = 0
  BY <1>1, <1>2, <1>3
<1> QED BY <1>4 DEF Texts

\* words_insert of a word that is not empty, as Good needs it.
LEMMA InsertGood ==
  ASSUME NEW cmp, NEW W, Ordered(cmp, W), ~Covered(cmp, W, <<>>), NEW w \in Texts, w # <<>>,
         NEW V, V = words_insert(cmp, W, w)
  PROVE  /\ Ordered(cmp, V) /\ ~Covered(cmp, V, <<>>) /\ V \in SUBSET Texts
         /\ \A t \in Texts : Covered(cmp, V, t) <=> Covered(cmp, W, t) \/ contains(cmp, t, w)
<1>1. <<>> \in Texts
  BY DEF Texts
<1>2. /\ Ordered(cmp, V)
      /\ \A t \in Texts : Covered(cmp, V, t) <=> Covered(cmp, W, t) \/ contains(cmp, t, w)
  BY InsertCovers
<1>3. ~contains(cmp, <<>>, w)
  BY EmptyContains
<1> QED BY <1>1, <1>2, <1>3 DEF Ordered

\* After a word has been read the filter covers what it covered before, and what
\* the word says.
LEMMA AddedCovers ==
  ASSUME NEW f, Good(f), NEW w \in ListWords, NEW g \in Added(f, w)
  PROVE  Good(g) /\ \A n : Bare(n) => (Covers(g, n) <=> Covers(f, n) \/ Says(Classified(w), n))
<1> DEFINE c == Classified(w)
           x == c.text
<1>1. /\ x \in Texts
      /\ x # <<>> => c.kind \in {"exact", "suffix", "prefix", "substring"}
      /\ x # <<>> /\ c.kind = "suffix" => x[1] = Dot
  BY ClassifiedFacts
<1> HIDE DEF c
<1>2. /\ x = <<>> => g = f
      /\ x # <<>> /\ c.kind = "exact" => g = [f EXCEPT !.exact = @ \cup {x}]
      /\ x # <<>> /\ c.kind = "suffix"
           => g = [f EXCEPT !.suffix = words_insert("rev_comp", f.suffix, x)]
      /\ x # <<>> /\ c.kind = "prefix"
           => g = [f EXCEPT !.prefix = words_insert("comp", f.prefix, x)]
      /\ x # <<>> /\ c.kind = "substring"
           => \E s \in substr_insert(f.substrings, x) : g = [f EXCEPT !.substrings = s]
  BY DEF Added, c
<1>3. /\ f \in [prefix : SUBSET Texts, suffix : SUBSET Texts,
                substrings : SUBSET Texts, exact : SUBSET Texts]
      /\ Ordered("rev_comp", f.suffix) /\ ~Covered("rev_comp", f.suffix, <<>>)
      /\ Ordered("comp", f.prefix) /\ ~Covered("comp", f.prefix, <<>>)
      /\ Separate(f.substrings)
  BY DEF Good
<1>4. \A n : Bare(n) =>
        <<Dot>> \o n \in Texts /\ Append(n, Dot) \in Texts /\ <<Dot>> \o n \o <<Dot>> \in Texts
  BY DottedTexts
<1> HIDE DEF x
<1>5. CASE x = <<>>
  BY <1>2, <1>5 DEF Says, c, x
<1>6. CASE x # <<>> /\ c.kind = "exact"
  <2>1. \A n : Says(c, n) <=> n = x
    BY <1>6 DEF Says, x
  <2>2. /\ g \in [prefix : SUBSET Texts, suffix : SUBSET Texts,
                  substrings : SUBSET Texts, exact : SUBSET Texts]
        /\ g.prefix = f.prefix /\ g.suffix = f.suffix /\ g.substrings = f.substrings
        /\ g.exact = f.exact \cup {x}
    BY <1>1, <1>2, <1>3, <1>6
  <2> QED BY <1>3, <2>1, <2>2 DEF Good, Covers, c
<1>7. CASE x # <<>> /\ c.kind = "suffix"
  <2>1. \A n : Says(c, n) <=> n = Tail(x) \/ IsSuffix(x, n)
    BY <1>7 DEF Says, x
  <2> DEFINE V == words_insert("rev_comp", f.suffix, x)
  <2>2. /\ Ordered("rev_comp", V) /\ ~Covered("rev_comp", V, <<>>) /\ V \in SUBSET Texts
        /\ \A t \in Texts : Covered("rev_comp", V, t)
                              <=> Covered("rev_comp", f.suffix, t) \/ contains("rev_comp", t, x)
    BY <1>1, <1>3, <1>7, InsertGood
  <2>3. g = [f EXCEPT !.suffix = V]
    BY <1>2, <1>7
  <2> HIDE DEF V
  <2>4. /\ g \in [prefix : SUBSET Texts, suffix : SUBSET Texts,
                  substrings : SUBSET Texts, exact : SUBSET Texts]
        /\ g.prefix = f.prefix /\ g.exact = f.exact /\ g.substrings = f.substrings
        /\ g.suffix = V
    BY <1>3, <2>2, <2>3
  <2>5. Good(g)
    BY <1>3, <2>2, <2>4 DEF Good
  <2>6. ASSUME NEW n, Bare(n) PROVE Covers(g, n) <=> Covers(f, n) \/ Says(c, n)
    <3>1. contains("rev_comp", <<Dot>> \o n, x) <=> Says(c, n)
      BY <1>1, <1>7, <2>1, <2>6, SuffixSays
    <3>2. Covered("rev_comp", V, <<Dot>> \o n)
            <=> Covered("rev_comp", f.suffix, <<Dot>> \o n) \/ Says(c, n)
      BY <1>4, <2>2, <2>6, <3>1
    <3> QED BY <2>4, <3>2 DEF Covers
  <2> QED BY <2>5, <2>6 DEF c
<1>8. CASE x # <<>> /\ c.kind = "prefix"
  <2>1. \A n : Says(c, n) <=> Append(n, Dot) = x \/ IsPrefix(x, n)
    BY <1>8 DEF Says, x
  <2> DEFINE V == words_insert("comp", f.prefix, x)
  <2>2. /\ Ordered("comp", V) /\ ~Covered("comp", V, <<>>) /\ V \in SUBSET Texts
        /\ \A t \in Texts : Covered("comp", V, t)
                              <=> Covered("comp", f.prefix, t) \/ contains("comp", t, x)
    BY <1>1, <1>3, <1>8, InsertGood
  <2>3. g = [f EXCEPT !.prefix = V]
    BY <1>2, <1>8
  <2> HIDE DEF V
  <2>4. /\ g \in [prefix : SUBSET Texts, suffix : SUBSET Texts,
                  substrings : SUBSET Texts, exact : SUBSET Texts]
        /\ g.suffix = f.suffix /\ g.exact = f.exact /\ g.substrings = f.substrings
        /\ g.prefix = V
    BY <1>3, <2>2, <2>3
  <2>5. Good(g)
    BY <1>3, <2>2, <2>4 DEF Good
  <2>6. ASSUME NEW n, Bare(n) PROVE Covers(g, n) <=> Covers(f, n) \/ Says(c, n)
    <3>1. contains("comp", Append(n, Dot), x) <=> Says(c, n)
      BY <1>1, <2>1, <2>6, PrefixSays
    <3>2. Covered("comp", V, Append(n, Dot))
            <=> Covered("comp", f.prefix, Append(n, Dot)) \/ Says(c, n)
      BY <1>4, <2>2, <2>6, <3>1
    <3> QED BY <2>4, <3>2 DEF Covers
  <2> QED BY <2>5, <2>6 DEF c
<1>9. CASE x # <<>> /\ c.kind = "substring"
  <2>1. \A n : Says(c, n) <=> Occurs(x, <<Dot>> \o n \o <<Dot>>)
    BY <1>9 DEF Says, x
  <2>2. PICK V \in substr_insert(f.substrings, x) : g = [f EXCEPT !.substrings = V]
    BY <1>2, <1>9
  <2>3. /\ Separate(V)
        /\ \A t \in Texts : substr_match(V, t) <=> substr_match(f.substrings, t) \/ Occurs(x, t)
    BY <1>1, <1>3, <2>2, SubsInsertCovers
  <2>4. /\ g \in [prefix : SUBSET Texts, suffix : SUBSET Texts,
                  substrings : SUBSET Texts, exact : SUBSET Texts]
        /\ g.suffix = f.suffix /\ g.exact = f.exact /\ g.prefix = f.prefix
        /\ g.substrings = V
    <3>1. V \in SUBSET Texts
      BY <2>3 DEF Separate
    <3> QED BY <1>3, <2>2, <3>1
  <2>5. Good(g)
    BY <1>3, <2>3, <2>4 DEF Good
  <2>6. ASSUME NEW n, Bare(n) PROVE Covers(g, n) <=> Covers(f, n) \/ Says(c, n)
    <3>1. substr_match(V, <<Dot>> \o n \o <<Dot>>)
            <=> substr_match(f.substrings, <<Dot>> \o n \o <<Dot>>) \/ Says(c, n)
      BY <1>4, <2>1, <2>3, <2>6
    <3> QED BY <2>4, <3>1 DEF Covers
  <2> QED BY <2>5, <2>6 DEF c
<1> QED BY <1>1, <1>5, <1>6, <1>7, <1>8, <1>9

\* The merged set of two ordered sets, as Good needs it.
LEMMA MergeGood ==
  ASSUME NEW cmp, NEW W, NEW O, Ordered(cmp, W), Ordered(cmp, O),
         ~Covered(cmp, W, <<>>), ~Covered(cmp, O, <<>>),
         NEW V, V = WordsMerged(cmp, W, O)
  PROVE  /\ Ordered(cmp, V) /\ ~Covered(cmp, V, <<>>) /\ V \in SUBSET Texts
         /\ \A t \in Texts : Covered(cmp, V, t) <=> Covered(cmp, W, t) \/ Covered(cmp, O, t)
<1>1. <<>> \in Texts
  BY DEF Texts
<1>2. /\ Ordered(cmp, V)
      /\ \A t \in Texts : Covered(cmp, V, t) <=> Covered(cmp, W, t) \/ Covered(cmp, O, t)
  BY MergeCovers
<1> QED BY <1>1, <1>2 DEF Ordered

\* A merged filter covers what either of the two covers.
LEMMA MergedCovers ==
  ASSUME NEW f, NEW h, Good(f), Good(h), NEW g \in merge(f, h)
  PROVE  Good(g) /\ \A n : Bare(n) => (Covers(g, n) <=> Covers(f, n) \/ Covers(h, n))
<1> DEFINE P == WordsMerged("comp", f.prefix, h.prefix)
           S == WordsMerged("rev_comp", f.suffix, h.suffix)
           E == f.exact \cup h.exact
<1>1. PICK B \in SubsMerged(f.substrings, h.substrings) :
        g = optimize([prefix |-> P, suffix |-> S, substrings |-> B, exact |-> E])
  BY DEF merge
<1>2. /\ Ordered("comp", P) /\ ~Covered("comp", P, <<>>) /\ P \in SUBSET Texts
      /\ \A t \in Texts : Covered("comp", P, t)
           <=> Covered("comp", f.prefix, t) \/ Covered("comp", h.prefix, t)
  BY MergeGood DEF Good
<1>3. /\ Ordered("rev_comp", S) /\ ~Covered("rev_comp", S, <<>>) /\ S \in SUBSET Texts
      /\ \A t \in Texts : Covered("rev_comp", S, t)
           <=> Covered("rev_comp", f.suffix, t) \/ Covered("rev_comp", h.suffix, t)
  BY MergeGood DEF Good
<1>4. /\ Separate(B) /\ B \in SUBSET Texts
      /\ \A t \in Texts : substr_match(B, t)
           <=> substr_match(f.substrings, t) \/ substr_match(h.substrings, t)
  BY SubsMergeCovers DEF Good, Separate
<1>5. E \in SUBSET Texts /\ \A n : n \in E <=> n \in f.exact \/ n \in h.exact
  BY DEF Good
<1> DEFINE m == [prefix |-> P, suffix |-> S, substrings |-> B, exact |-> E]
<1> HIDE DEF P, S, E
<1>6. /\ m \in [prefix : SUBSET Texts, suffix : SUBSET Texts,
                substrings : SUBSET Texts, exact : SUBSET Texts]
      /\ m.prefix = P /\ m.suffix = S /\ m.substrings = B /\ m.exact = E
  BY <1>2, <1>3, <1>4, <1>5
<1>7. g = optimize(m)
  BY <1>1
<1> HIDE DEF m
<1>8. Good(m)
  BY <1>2, <1>3, <1>4, <1>6 DEF Good
<1>9. ASSUME NEW n, Bare(n) PROVE Covers(m, n) <=> Covers(f, n) \/ Covers(h, n)
  <2>1. <<Dot>> \o n \in Texts /\ Append(n, Dot) \in Texts /\ <<Dot>> \o n \o <<Dot>> \in Texts
    BY <1>9, DottedTexts
  <2> QED BY <1>2, <1>3, <1>4, <1>5, <1>6, <2>1 DEF Covers
<1> QED BY <1>7, <1>8, <1>9, OptimizeCovers

-----------------------------------------------------------------------------
(***************************************************************************)
(* The invariant: a filter covers exactly the names that the words it was  *)
(* made from say.                                                          *)
(***************************************************************************)

SaidBy(words, n) == \E w \in words : Says(Classified(w), n)

\* f is the filter of the words.
FilterOf(f, words) ==
  /\ words \in SUBSET ListWords
  /\ Good(f)
  /\ \A n : Bare(n) => (Covers(f, n) <=> SaidBy(words, n))

Inv == FilterOf(file, reading) /\ FilterOf(list, read)

LEMMA EmptyFilter == FilterOf(Empty, {})
<1>1. /\ Empty \in [prefix : SUBSET Texts, suffix : SUBSET Texts,
                    substrings : SUBSET Texts, exact : SUBSET Texts]
      /\ Empty.prefix = {} /\ Empty.suffix = {} /\ Empty.substrings = {} /\ Empty.exact = {}
  BY DEF Empty
<1>2. \A cmp : Ordered(cmp, {}) /\ \A t : ~Covered(cmp, {}, t)
  BY FS_EmptySet DEF Ordered, Antichain, Covered
<1>3. Separate({}) /\ \A t : ~substr_match({}, t)
  BY FS_EmptySet DEF Separate, substr_match
<1> QED BY <1>1, <1>2, <1>3 DEF FilterOf, Good, Covers, SaidBy

LEMMA StepKeepsInv == Inv /\ [Next]_vars => Inv'
<1> SUFFICES ASSUME Inv, [Next]_vars PROVE Inv'
  OBVIOUS
<1> USE DEF Inv
<1>1. ASSUME NEW w \in FileWords, ReadWord(w) PROVE Inv'
  <2>1. file' \in Added(file, w) /\ reading' = reading \cup {w} /\ list' = list /\ read' = read
    BY <1>1 DEF ReadWord
  <2>2. Good(file) /\ reading \in SUBSET ListWords /\ w \in ListWords
    BY FilesHoldListWords DEF FilterOf
  <2>3. /\ Good(file')
        /\ \A n : Bare(n) => (Covers(file', n) <=> Covers(file, n) \/ Says(Classified(w), n))
    BY <2>1, <2>2, AddedCovers
  <2>4. \A n : SaidBy(reading', n) <=> SaidBy(reading, n) \/ Says(Classified(w), n)
    BY <2>1 DEF SaidBy
  <2>5. FilterOf(file', reading')
    BY <2>1, <2>2, <2>3, <2>4 DEF FilterOf
  <2> QED BY <2>1, <2>5
<1>2. ASSUME EndOfFile PROVE Inv'
  <2>1. /\ list' \in merge(list, optimize(file)) /\ read' = read \cup reading
        /\ file' = Empty /\ reading' = {}
    BY <1>2 DEF EndOfFile
  <2>2. /\ Good(file) /\ Good(list)
        /\ read \in SUBSET ListWords /\ reading \in SUBSET ListWords
    BY DEF FilterOf
  <2> DEFINE h == optimize(file)
  <2>3. Good(h) /\ \A n : Bare(n) => (Covers(h, n) <=> Covers(file, n))
    BY <2>2, OptimizeCovers
  <2> HIDE DEF h
  <2>4. list' \in merge(list, h)
    BY <2>1 DEF h
  <2>5. /\ Good(list')
        /\ \A n : Bare(n) => (Covers(list', n) <=> Covers(list, n) \/ Covers(h, n))
    BY <2>2, <2>3, <2>4, MergedCovers
  <2>6. \A n : SaidBy(read', n) <=> SaidBy(read, n) \/ SaidBy(reading, n)
    BY <2>1 DEF SaidBy
  <2>7. FilterOf(list', read')
    BY <2>1, <2>2, <2>3, <2>5, <2>6 DEF FilterOf
  <2> QED BY <2>1, <2>7, EmptyFilter
<1>3. CASE UNCHANGED vars
  BY <1>3 DEF vars
<1> QED BY <1>1, <1>2, <1>3 DEF Next

\* Whatever words the insertions, `optimize' and `merge' drop, the filter being
\* read and the list cover exactly what the words of their files say.
THEOREM Invariance == Spec => []Inv
<1>1. Init => Inv
  BY EmptyFilter DEF Init, Inv
<1> QED BY <1>1, StepKeepsInv, PTL DEF Spec

\* filter::match decides as the words of the files say, for every name, every set
\* of words, every way they are spread over files and every order in which the
\* unordered sets are walked.
THEOREM MatchesAsWrittenHolds == Spec => []MatchesAsWritten
<1>1. Inv => MatchesAsWritten
  <2> SUFFICES ASSUME Inv, NEW n \in Names
               PROVE  LET expected == \E c \in {Classified(w) : w \in read} :
                                        Says(c, ascii_tolower(n))
                      IN  match(list, n) = expected /\ match(list, Append(n, Dot)) = expected
    BY DEF MatchesAsWritten
  <2> DEFINE low == ascii_tolower(n)
             expected == \E c \in {Classified(w) : w \in read} : Says(c, low)
  <2>1. Bare(n) /\ Bare(low)
    BY NamesAreBare, LowerBare
  <2>2. expected <=> SaidBy(read, low)
    BY DEF SaidBy
  <2>3. Good(list) /\ (Covers(list, low) <=> SaidBy(read, low))
    BY <2>1 DEF Inv, FilterOf
  <2>4. (match(list, n) <=> Covers(list, low)) /\ (match(list, Append(n, Dot)) <=> Covers(list, low))
    BY <2>1, <2>3, MatchMeans
  <2>5. match(list, n) \in BOOLEAN /\ match(list, Append(n, Dot)) \in BOOLEAN
    BY DEF match
  <2>6. match(list, n) = expected /\ match(list, Append(n, Dot)) = expected
    BY <2>2, <2>3, <2>4, <2>5
  <2> QED BY <2>6
<1> QED BY <1>1, Invariance, PTL

-----------------------------------------------------------------------------
(***************************************************************************)
(* The least words.  R says of two texts that the first is a part of the   *)
(* second: its beginning, its end, or any part.                            *)
(***************************************************************************)

\* R is a partial order of texts in which what is below is shorter.
IsPartOrder(R) ==
  /\ \A a \in Texts : <<a, a>> \in R
  /\ \A a, b, c \in Texts : <<a, b>> \in R /\ <<b, c>> \in R => <<a, c>> \in R
  /\ \A a, b \in Texts : <<a, b>> \in R => Len(a) <= Len(b)
  /\ \A a, b \in Texts : <<a, b>> \in R /\ Len(a) = Len(b) => a = b

MinOf(R, A) == {s \in A : \A t \in A : <<t, s>> \in R => t = s}

\* Some text of A is below t.
Above(R, A, t) == \E a \in A : <<a, t>> \in R

Apart(R, V) == \A a, b \in V : <<a, b>> \in R => a = b

LEMMA Antisymmetric ==
  ASSUME NEW R, IsPartOrder(R), NEW a \in Texts, NEW b \in Texts, <<a, b>> \in R, <<b, a>> \in R
  PROVE  a = b
<1>1. Len(a) \in Nat /\ Len(b) \in Nat
  BY DEF Texts
<1>2. Len(a) <= Len(b) /\ Len(b) <= Len(a)
  BY DEF IsPartOrder
<1>3. Len(a) = Len(b)
  BY <1>1, <1>2
<1> QED BY <1>3 DEF IsPartOrder

\* A set whose words are apart is the set of the least words of every set that
\* has the same texts above it.
LEMMA UniqueMinima ==
  ASSUME NEW R, IsPartOrder(R), NEW V \in SUBSET Texts, NEW A \in SUBSET Texts, Apart(R, V),
         \A t \in Texts : Above(R, V, t) <=> Above(R, A, t)
  PROVE  V = MinOf(R, A)
<1>1. \A a, b, c \in Texts : <<a, a>> \in R /\ (<<a, b>> \in R /\ <<b, c>> \in R => <<a, c>> \in R)
  BY DEF IsPartOrder
<1>2. \A a \in A : \E v \in V : <<v, a>> \in R
  BY <1>1 DEF Above
<1>3. \A v \in V : \E a \in A : <<a, v>> \in R
  BY <1>1 DEF Above
<1>4. \A a, b \in Texts : <<a, b>> \in R /\ <<b, a>> \in R => a = b
  BY Antisymmetric
<1>5. \A a, b \in V : <<a, b>> \in R => a = b
  BY DEF Apart
<1>6. ASSUME NEW v \in V, NEW t \in A, <<t, v>> \in R PROVE t = v
  <2>1. PICK u \in V : <<u, t>> \in R
    BY <1>2
  <2>2. <<u, v>> \in R
    BY <1>1, <1>6, <2>1
  <2> QED BY <1>4, <1>5, <1>6, <2>1, <2>2
<1>7. ASSUME NEW v \in V PROVE v \in MinOf(R, A)
  <2>1. PICK a \in A : <<a, v>> \in R
    BY <1>3
  <2>2. v \in A
    BY <1>6, <2>1
  <2> QED BY <1>6, <2>2 DEF MinOf
<1>8. ASSUME NEW s \in MinOf(R, A) PROVE s \in V
  <2>1. s \in A /\ \A t \in A : <<t, s>> \in R => t = s
    BY DEF MinOf
  <2>2. PICK v \in V : <<v, s>> \in R
    BY <1>2, <2>1
  <2>3. PICK a \in A : <<a, v>> \in R
    BY <1>3
  <2>4. <<a, s>> \in R
    BY <1>1, <2>1, <2>2, <2>3
  <2>5. a = s
    BY <2>1, <2>4
  <2> QED BY <1>4, <2>1, <2>2, <2>3, <2>5
<1> QED BY <1>7, <1>8

\* Below a text that is above A there is a least one of A.
LEMMA MinimumBelow ==
  ASSUME NEW R, IsPartOrder(R), NEW A \in SUBSET Texts, NEW s \in Texts, Above(R, A, s)
  PROVE  Above(R, MinOf(R, A), s)
<1> DEFINE L == {n \in Nat : \E a \in A : <<a, s>> \in R /\ Len(a) = n}
<1>1. \A a \in A : Len(a) \in Nat
  BY DEF Texts
<1>2. PICK n \in L : \A m \in L : n <= m
  <2>1. L \subseteq Nat
    OBVIOUS
  <2>2. L # {}
    BY <1>1 DEF Above
  <2> HIDE DEF L
  <2> QED BY <2>1, <2>2, LeastNumber
<1>3. PICK a \in A : <<a, s>> \in R /\ Len(a) = n
  BY <1>2
<1>4. ASSUME NEW t \in A, <<t, a>> \in R PROVE t = a
  <2>1. <<t, s>> \in R /\ Len(t) <= Len(a)
    BY <1>3, <1>4 DEF IsPartOrder
  <2>2. Len(t) \in L
    BY <1>1, <2>1
  <2>3. n <= Len(t)
    BY <1>2, <2>2
  <2>4. Len(t) = Len(a)
    BY <1>1, <1>3, <2>1, <2>3
  <2> QED BY <1>4, <2>4 DEF IsPartOrder
<1> QED BY <1>3, <1>4 DEF MinOf, Above

LEMMA MinimaApart ==
  ASSUME NEW R, IsPartOrder(R), NEW A \in SUBSET Texts
  PROVE  /\ MinOf(R, A) \in SUBSET A /\ Apart(R, MinOf(R, A))
         /\ \A t \in Texts : Above(R, MinOf(R, A), t) <=> Above(R, A, t)
<1>1. MinOf(R, A) \in SUBSET A /\ Apart(R, MinOf(R, A))
  BY DEF MinOf, Apart
<1>2. \A t \in Texts : Above(R, MinOf(R, A), t) => Above(R, A, t)
  BY <1>1 DEF Above
<1>3. \A t \in Texts : Above(R, A, t) => Above(R, MinOf(R, A), t)
  BY MinimumBelow
<1> QED BY <1>1, <1>2, <1>3

Contained(cmp) == {p \in Texts \X Texts : contains(cmp, p[2], p[1])}

Occurring == {p \in Texts \X Texts : Occurs(p[1], p[2])}

LEMMA ContainedMeans == \A cmp : \A a, b \in Texts : <<a, b>> \in Contained(cmp) <=> contains(cmp, b, a)
BY DEF Contained

LEMMA OccurringMeans == \A a, b \in Texts : <<a, b>> \in Occurring <=> Occurs(a, b)
BY DEF Occurring

LEMMA KeyLength ==
  ASSUME NEW cmp, NEW s \in Texts
  PROVE  Key(cmp, s) \in Texts /\ Len(Key(cmp, s)) = Len(s)
<1>1. CASE cmp = "comp"
  BY <1>1 DEF Key
<1>2. CASE cmp # "comp"
  <2>1. Key(cmp, s) = Reverse(s)
    BY <1>2 DEF Key
  <2>2. Reverse(s) \in Texts /\ Len(Reverse(s)) = Len(s)
    BY DEF Reverse, Texts
  <2> QED BY <2>1, <2>2
<1> QED BY <1>1, <1>2

LEMMA ContainedIsOrder ==
  ASSUME NEW cmp
  PROVE  IsPartOrder(Contained(cmp))
<1>1. \A a, b, c \in Texts : /\ contains(cmp, a, a)
                             /\ contains(cmp, b, a) /\ contains(cmp, c, b) => contains(cmp, c, a)
  BY OrderFacts
<1>2. ASSUME NEW a \in Texts, NEW b \in Texts, contains(cmp, b, a)
      PROVE  Len(a) <= Len(b) /\ (Len(a) = Len(b) => a = b)
  <2> DEFINE x == Key(cmp, a)
             y == Key(cmp, b)
  <2>1. x \in Texts /\ Len(x) = Len(a) /\ y \in Texts /\ Len(y) = Len(b)
    BY KeyLength
  <2>2. x = y => a = b
    BY KeyFacts
  <2>3. IsPrefix(x, y)
    BY <1>2 DEF contains
  <2> HIDE DEF x, y
  <2>4. Len(x) <= Len(y) /\ SubSeq(x, 1, Len(x)) = SubSeq(y, 1, Len(x))
    BY <2>3 DEF IsPrefix
  <2>5. SubSeq(x, 1, Len(x)) = x /\ SubSeq(y, 1, Len(y)) = y
    BY <2>1, SubSeqFull DEF Texts
  <2>6. Len(x) = Len(y) => x = y
    BY <2>4, <2>5
  <2> QED BY <2>1, <2>2, <2>4, <2>6
<1>3. \A a, b \in Texts : <<a, b>> \in Contained(cmp) <=> contains(cmp, b, a)
  BY ContainedMeans
<1> HIDE DEF Contained
<1> QED BY <1>1, <1>2, <1>3 DEF IsPartOrder

LEMMA OccurringIsOrder == IsPartOrder(Occurring)
<1>1. \A a \in Texts : Occurs(a, a)
  <2> TAKE a \in Texts
  <2>1. Len(a) \in Nat
    BY DEF Texts
  <2>2. 0 \in 0..(Len(a) - Len(a)) /\ \A k \in 1..Len(a) : a[0 + k] = a[k]
    BY <2>1
  <2> QED BY <2>2, OccursMeans
<1>2. ASSUME NEW a \in Texts, NEW b \in Texts, Occurs(a, b)
      PROVE  Len(a) <= Len(b) /\ (Len(a) = Len(b) => a = b)
  <2>1. Len(a) \in Nat /\ Len(b) \in Nat
    BY DEF Texts
  <2>2. PICK i \in 0..(Len(b) - Len(a)) : \A k \in 1..Len(a) : b[i + k] = a[k]
    BY <1>2, OccursMeans
  <2>3. Len(a) <= Len(b)
    BY <2>1, <2>2
  <2>4. ASSUME Len(a) = Len(b) PROVE a = b
    <3>1. i = 0
      BY <2>1, <2>2, <2>4
    <3>2. \A k \in 1..Len(a) : a[k] = b[k]
      BY <2>1, <2>2, <3>1
    <3> QED BY <2>4, <3>2, SeqEqual DEF Texts
  <2> QED BY <2>3, <2>4
<1>3. \A a, b, c \in Texts : Occurs(a, b) /\ Occurs(b, c) => Occurs(a, c)
  BY OccursTransitive
<1>4. \A a, b \in Texts : <<a, b>> \in Occurring <=> Occurs(a, b)
  BY OccurringMeans
<1> HIDE DEF Occurring
<1> QED BY <1>1, <1>2, <1>3, <1>4 DEF IsPartOrder

LEMMA CoveredIsAbove ==
  ASSUME NEW cmp, NEW W \in SUBSET Texts
  PROVE  /\ \A t \in Texts : Covered(cmp, W, t) <=> Above(Contained(cmp), W, t)
         /\ Antichain(cmp, W) <=> Apart(Contained(cmp), W)
<1>1. \A a, b \in Texts : <<a, b>> \in Contained(cmp) <=> contains(cmp, b, a)
  BY ContainedMeans
<1>2. \A t \in Texts : Covered(cmp, W, t) <=> Above(Contained(cmp), W, t)
  BY <1>1 DEF Covered, Above
<1>3. Antichain(cmp, W) <=> Apart(Contained(cmp), W)
  BY <1>1 DEF Antichain, Apart
<1> QED BY <1>2, <1>3

LEMMA FoundIsAbove ==
  ASSUME NEW S \in SUBSET Texts, NEW t \in Texts
  PROVE  substr_match(S, t) <=> Above(Occurring, S, t)
BY OccurringMeans DEF substr_match, Above

\* words_insert and substr_insert keep the least words.
LEMMA InsertMinima ==
  ASSUME NEW cmp, NEW A \in SUBSET Texts, NEW W, Ordered(cmp, W),
         W = MinOf(Contained(cmp), A), NEW x \in Texts
  PROVE  words_insert(cmp, W, x) = MinOf(Contained(cmp), A \cup {x})
<1> DEFINE R == Contained(cmp)
           V == words_insert(cmp, W, x)
           B == A \cup {x}
<1>1. IsPartOrder(R)
  BY ContainedIsOrder
<1>2. /\ Ordered(cmp, V)
      /\ \A t \in Texts : Covered(cmp, V, t) <=> Covered(cmp, W, t) \/ contains(cmp, t, x)
  BY InsertCovers
<1>3. V \in SUBSET Texts /\ Antichain(cmp, V) /\ W \in SUBSET Texts /\ B \in SUBSET Texts
  BY <1>2 DEF Ordered
<1> HIDE DEF V
<1>4. Apart(R, V) /\ \A t \in Texts : Covered(cmp, V, t) <=> Above(R, V, t)
  BY <1>3, CoveredIsAbove
<1>5. \A t \in Texts : Covered(cmp, W, t) <=> Above(R, W, t)
  BY <1>3, CoveredIsAbove
<1>6. \A t \in Texts : Above(R, W, t) <=> Above(R, A, t)
  BY <1>1, MinimaApart
<1>7. \A t \in Texts : contains(cmp, t, x) <=> <<x, t>> \in R
  BY ContainedMeans
<1>8. \A t : Above(R, B, t) <=> Above(R, A, t) \/ <<x, t>> \in R
  BY DEF Above
<1> HIDE DEF R, B
<1>9. \A t \in Texts : Above(R, V, t) <=> Above(R, B, t)
  BY <1>2, <1>4, <1>5, <1>6, <1>7, <1>8
<1>10. V = MinOf(R, B)
  BY <1>1, <1>3, <1>4, <1>9, UniqueMinima
<1> QED BY <1>10 DEF R, V, B

LEMMA SeparateIsApart ==
  ASSUME NEW S, Separate(S)
  PROVE  S \in SUBSET Texts /\ Apart(Occurring, S)
BY OccurringMeans DEF Separate, Apart

LEMMA SubsMinima ==
  ASSUME NEW A \in SUBSET Texts, NEW r, Separate(r),
         \A t \in Texts : substr_match(r, t) <=> Above(Occurring, A, t)
  PROVE  r = MinOf(Occurring, A)
<1>1. r \in SUBSET Texts /\ Apart(Occurring, r)
  BY SeparateIsApart
<1>2. \A t \in Texts : Above(Occurring, r, t) <=> Above(Occurring, A, t)
  BY <1>1, FoundIsAbove
<1> QED BY <1>1, <1>2, OccurringIsOrder, UniqueMinima

LEMMA MinimaFind ==
  ASSUME NEW A \in SUBSET Texts, NEW S, S = MinOf(Occurring, A)
  PROVE  \A t \in Texts : substr_match(S, t) <=> Above(Occurring, A, t)
<1>1. S \in SUBSET Texts /\ \A t \in Texts : Above(Occurring, S, t) <=> Above(Occurring, A, t)
  BY OccurringIsOrder, MinimaApart
<1> QED BY <1>1, FoundIsAbove

LEMMA SubsInsertMinima ==
  ASSUME NEW A \in SUBSET Texts, NEW S, Separate(S), S = MinOf(Occurring, A), NEW x \in Texts,
         NEW r \in substr_insert(S, x)
  PROVE  r = MinOf(Occurring, A \cup {x})
<1>1. /\ Separate(r)
      /\ \A t \in Texts : substr_match(r, t) <=> substr_match(S, t) \/ Occurs(x, t)
  BY SubsInsertCovers
<1>2. \A t \in Texts : substr_match(S, t) <=> Above(Occurring, A, t)
  BY MinimaFind
<1> DEFINE B == A \cup {x}
<1>3. B \in SUBSET Texts
  OBVIOUS
<1>4. \A t : Above(Occurring, B, t) <=> Above(Occurring, A, t) \/ <<x, t>> \in Occurring
  BY DEF Above
<1> HIDE DEF B
<1>5. \A t \in Texts : substr_match(r, t) <=> Above(Occurring, B, t)
  BY <1>1, <1>2, <1>4, OccurringMeans
<1>6. r = MinOf(Occurring, B)
  BY <1>1, <1>3, <1>5, SubsMinima
<1> QED BY <1>6 DEF B

LEMMA SubsMergeMinima ==
  ASSUME NEW A \in SUBSET Texts, NEW B \in SUBSET Texts, NEW S, NEW T, Separate(S), Separate(T),
         S = MinOf(Occurring, A), T = MinOf(Occurring, B), NEW r \in SubsMerged(S, T)
  PROVE  r = MinOf(Occurring, A \cup B)
<1>1. /\ Separate(r)
      /\ \A t \in Texts : substr_match(r, t) <=> substr_match(S, t) \/ substr_match(T, t)
  BY SubsMergeCovers
<1>2. \A t \in Texts : substr_match(S, t) <=> Above(Occurring, A, t)
  BY MinimaFind
<1>3. \A t \in Texts : substr_match(T, t) <=> Above(Occurring, B, t)
  BY MinimaFind
<1> DEFINE D == A \cup B
<1>4. D \in SUBSET Texts
  OBVIOUS
<1>5. \A t : Above(Occurring, D, t) <=> Above(Occurring, A, t) \/ Above(Occurring, B, t)
  BY DEF Above
<1> HIDE DEF D
<1>6. r = MinOf(Occurring, D)
  BY <1>1, <1>2, <1>3, <1>4, <1>5, SubsMinima
<1> QED BY <1>6 DEF D

-----------------------------------------------------------------------------
(***************************************************************************)
(* The texts of the words read, by kind.                                   *)
(***************************************************************************)

TextsOf(words, k) ==
  {c.text : c \in {x \in {Classified(w) : w \in words} : x.kind = k /\ x.text # <<>>}}

LEMMA TextsOfMeans ==
  ASSUME NEW words, NEW k, NEW x
  PROVE  x \in TextsOf(words, k) <=>
           \E w \in words : Classified(w).kind = k /\ Classified(w).text # <<>> /\ x = Classified(w).text
BY DEF TextsOf

LEMMA TextsOfTypes ==
  ASSUME NEW words \in SUBSET ListWords, NEW k
  PROVE  /\ TextsOf(words, k) \in SUBSET Texts /\ <<>> \notin TextsOf(words, k)
         /\ \A x \in TextsOf(words, "exact") : x[1] # Dot
<1>1. ASSUME NEW j, NEW x \in TextsOf(words, j)
      PROVE  x \in Texts /\ x # <<>> /\ (j = "exact" => x[1] # Dot)
  <2>1. PICK w \in words :
          Classified(w).kind = j /\ Classified(w).text # <<>> /\ x = Classified(w).text
    BY <1>1, TextsOfMeans
  <2> QED BY <2>1, ClassifiedFacts
<1> QED BY <1>1

LEMMA TextsOfUnion ==
  ASSUME NEW u, NEW v, NEW k
  PROVE  TextsOf(u \cup v, k) = TextsOf(u, k) \cup TextsOf(v, k)
<1>1. \A x : x \in TextsOf(u \cup v, k) <=> x \in TextsOf(u, k) \/ x \in TextsOf(v, k)
  BY TextsOfMeans
<1> QED BY <1>1

LEMMA TextsOfOne ==
  ASSUME NEW w, NEW k
  PROVE  TextsOf({w}, k) = IF Classified(w).kind = k /\ Classified(w).text # <<>>
                           THEN {Classified(w).text} ELSE {}
<1>1. \A x : x \in TextsOf({w}, k) <=>
               Classified(w).kind = k /\ Classified(w).text # <<>> /\ x = Classified(w).text
  BY TextsOfMeans
<1>2. CASE Classified(w).kind = k /\ Classified(w).text # <<>>
  <2>1. TextsOf({w}, k) = {Classified(w).text}
    BY <1>1, <1>2
  <2> QED BY <1>2, <2>1
<1>3. CASE ~(Classified(w).kind = k /\ Classified(w).text # <<>>)
  <2>1. TextsOf({w}, k) = {}
    BY <1>1, <1>3
  <2> QED BY <1>3, <2>1
<1> QED BY <1>2, <1>3

-----------------------------------------------------------------------------
(***************************************************************************)
(* The filter while a file is read: the least words of every kind.         *)
(***************************************************************************)

LeastWords(f, words) ==
  /\ f.suffix = MinOf(Contained("rev_comp"), TextsOf(words, "suffix"))
  /\ f.prefix = MinOf(Contained("comp"), TextsOf(words, "prefix"))
  /\ f.substrings = MinOf(Occurring, TextsOf(words, "substring"))
  /\ f.exact = TextsOf(words, "exact")

LEMMA EmptyLeast == LeastWords(Empty, {})
<1>1. \A k : TextsOf({}, k) = {}
  BY TextsOfMeans
<1>2. \A R : MinOf(R, {}) = {}
  BY DEF MinOf
<1> QED BY <1>1, <1>2 DEF LeastWords, Empty

LEMMA AddedLeast ==
  ASSUME NEW f, Good(f), NEW words \in SUBSET ListWords, LeastWords(f, words),
         NEW w \in ListWords, NEW g \in Added(f, w)
  PROVE  LeastWords(g, words \cup {w})
<1> DEFINE c == Classified(w)
           x == c.text
           new == words \cup {w}
<1>1. x \in Texts /\ (x # <<>> => c.kind \in {"exact", "suffix", "prefix", "substring"})
  BY ClassifiedFacts
<1>2. \A k : TextsOf(new, k) = IF c.kind = k /\ x # <<>> THEN TextsOf(words, k) \cup {x}
                               ELSE TextsOf(words, k)
  <2> TAKE k
  <2>1. TextsOf(new, k) = TextsOf(words, k) \cup TextsOf({w}, k)
    BY TextsOfUnion
  <2>2. TextsOf({w}, k) = IF c.kind = k /\ x # <<>> THEN {x} ELSE {}
    BY TextsOfOne
  <2> HIDE DEF c, x, new
  <2>3. CASE c.kind = k /\ x # <<>>
    BY <2>1, <2>2, <2>3
  <2>4. CASE ~(c.kind = k /\ x # <<>>)
    BY <2>1, <2>2, <2>4
  <2> QED BY <2>3, <2>4
<1>3. \A k : TextsOf(words, k) \in SUBSET Texts
  BY TextsOfTypes
<1> HIDE DEF c
<1>4. /\ x = <<>> => g = f
      /\ x # <<>> /\ c.kind = "exact" => g = [f EXCEPT !.exact = @ \cup {x}]
      /\ x # <<>> /\ c.kind = "suffix"
           => g = [f EXCEPT !.suffix = words_insert("rev_comp", f.suffix, x)]
      /\ x # <<>> /\ c.kind = "prefix"
           => g = [f EXCEPT !.prefix = words_insert("comp", f.prefix, x)]
      /\ x # <<>> /\ c.kind = "substring"
           => \E s \in substr_insert(f.substrings, x) : g = [f EXCEPT !.substrings = s]
  BY DEF Added, c
<1>5. /\ f \in [prefix : SUBSET Texts, suffix : SUBSET Texts,
                substrings : SUBSET Texts, exact : SUBSET Texts]
      /\ Ordered("rev_comp", f.suffix) /\ Ordered("comp", f.prefix) /\ Separate(f.substrings)
  BY DEF Good
<1>6. /\ f.suffix = MinOf(Contained("rev_comp"), TextsOf(words, "suffix"))
      /\ f.prefix = MinOf(Contained("comp"), TextsOf(words, "prefix"))
      /\ f.substrings = MinOf(Occurring, TextsOf(words, "substring"))
      /\ f.exact = TextsOf(words, "exact")
  BY DEF LeastWords
<1> HIDE DEF x, new
<1> SUFFICES LeastWords(g, new)
  BY DEF new
<1>7. CASE x = <<>>
  <2>1. \A k : TextsOf(new, k) = TextsOf(words, k)
    BY <1>2, <1>7
  <2> QED BY <1>4, <1>6, <1>7, <2>1 DEF LeastWords
<1>8. CASE x # <<>> /\ c.kind = "exact"
  <2>1. /\ TextsOf(new, "exact") = TextsOf(words, "exact") \cup {x}
        /\ \A k \in {"suffix", "prefix", "substring"} : TextsOf(new, k) = TextsOf(words, k)
    BY <1>2, <1>8
  <2>2. /\ g.prefix = f.prefix /\ g.suffix = f.suffix /\ g.substrings = f.substrings
        /\ g.exact = f.exact \cup {x}
    BY <1>4, <1>5, <1>8
  <2> QED BY <1>6, <2>1, <2>2 DEF LeastWords
<1>9. CASE x # <<>> /\ c.kind = "suffix"
  <2>1. /\ TextsOf(new, "suffix") = TextsOf(words, "suffix") \cup {x}
        /\ \A k \in {"exact", "prefix", "substring"} : TextsOf(new, k) = TextsOf(words, k)
    BY <1>2, <1>9
  <2>2. /\ g.prefix = f.prefix /\ g.exact = f.exact /\ g.substrings = f.substrings
        /\ g.suffix = words_insert("rev_comp", f.suffix, x)
    BY <1>4, <1>5, <1>9
  <2>3. words_insert("rev_comp", f.suffix, x)
          = MinOf(Contained("rev_comp"), TextsOf(words, "suffix") \cup {x})
    BY <1>1, <1>3, <1>5, <1>6, InsertMinima
  <2> QED BY <1>6, <2>1, <2>2, <2>3 DEF LeastWords
<1>10. CASE x # <<>> /\ c.kind = "prefix"
  <2>1. /\ TextsOf(new, "prefix") = TextsOf(words, "prefix") \cup {x}
        /\ \A k \in {"exact", "suffix", "substring"} : TextsOf(new, k) = TextsOf(words, k)
    BY <1>2, <1>10
  <2>2. /\ g.suffix = f.suffix /\ g.exact = f.exact /\ g.substrings = f.substrings
        /\ g.prefix = words_insert("comp", f.prefix, x)
    BY <1>4, <1>5, <1>10
  <2>3. words_insert("comp", f.prefix, x)
          = MinOf(Contained("comp"), TextsOf(words, "prefix") \cup {x})
    BY <1>1, <1>3, <1>5, <1>6, InsertMinima
  <2> QED BY <1>6, <2>1, <2>2, <2>3 DEF LeastWords
<1>11. CASE x # <<>> /\ c.kind = "substring"
  <2>1. /\ TextsOf(new, "substring") = TextsOf(words, "substring") \cup {x}
        /\ \A k \in {"exact", "suffix", "prefix"} : TextsOf(new, k) = TextsOf(words, k)
    BY <1>2, <1>11
  <2>2. PICK s \in substr_insert(f.substrings, x) : g = [f EXCEPT !.substrings = s]
    BY <1>4, <1>11
  <2>3. /\ g.prefix = f.prefix /\ g.suffix = f.suffix /\ g.exact = f.exact
        /\ g.substrings = s
    BY <1>5, <2>2
  <2>4. s = MinOf(Occurring, TextsOf(words, "substring") \cup {x})
    BY <1>1, <1>3, <1>5, <1>6, SubsInsertMinima
  <2> QED BY <1>6, <2>1, <2>3, <2>4 DEF LeastWords
<1> QED BY <1>1, <1>7, <1>8, <1>9, <1>10, <1>11

-----------------------------------------------------------------------------
(***************************************************************************)
(* The dots that `optimize' puts at the words.                             *)
(***************************************************************************)

\* A prefix is looked up behind a dot, a suffix before one.
WithDot(cmp, s) == IF cmp = "comp" THEN FrontDot(s) ELSE BackDot(s)

LEMMA WithDotTexts ==
  ASSUME NEW cmp, NEW s \in Texts
  PROVE  FrontDot(s) \in Texts /\ BackDot(s) \in Texts /\ WithDot(cmp, s) \in Texts
<1>1. <<Dot>> \o s \in Texts /\ Append(s, Dot) \in Texts
  BY FrontPlaces, BackPlaces
<1> QED BY <1>1 DEF FrontDot, BackDot, WithDot

\* What a text is a part of keeps it when both get their dots.
LEMMA PartWithDot ==
  ASSUME NEW cmp \in {"comp", "rev_comp"}, NEW s \in Texts, NEW d \in Texts, d # <<>>,
         contains(cmp, s, d)
  PROVE  Occurs(WithDot(cmp, d), WithDot(cmp, s))
<1>1. Len(s) \in Nat /\ Len(d) \in Nat /\ Len(d) > 0
  BY DEF Texts
<1>2. CASE cmp = "comp"
  <2>1. Len(d) <= Len(s) /\ \A i \in 1..Len(d) : s[i] = d[i]
    BY <1>2, FrontMeans
  <2>2. s[1] = d[1] /\ WithDot(cmp, d) = FrontDot(d) /\ WithDot(cmp, s) = FrontDot(s)
    BY <1>1, <1>2, <2>1 DEF WithDot
  <2>3. CASE d[1] = Dot
    <3>1. FrontDot(d) = d /\ FrontDot(s) = s
      BY <2>2, <2>3 DEF FrontDot
    <3>2. 0 \in 0..(Len(s) - Len(d)) /\ \A k \in 1..Len(d) : s[0 + k] = d[k]
      BY <1>1, <2>1
    <3>3. Occurs(d, s)
      BY <3>2, OccursMeans
    <3> QED BY <2>2, <3>1, <3>3
  <2>4. CASE d[1] # Dot
    <3> DEFINE a == <<Dot>> \o d
               b == <<Dot>> \o s
    <3>1. FrontDot(d) = a /\ FrontDot(s) = b
      BY <2>2, <2>4 DEF FrontDot
    <3>2. /\ a \in Texts /\ Len(a) = Len(d) + 1 /\ a[1] = Dot /\ \A i \in 1..Len(d) : a[i + 1] = d[i]
      BY FrontPlaces
    <3>3. /\ b \in Texts /\ Len(b) = Len(s) + 1 /\ b[1] = Dot /\ \A i \in 1..Len(s) : b[i + 1] = s[i]
      BY FrontPlaces
    <3> HIDE DEF a, b
    <3>4. 0 \in 0..(Len(b) - Len(a))
      BY <1>1, <2>1, <3>2, <3>3
    <3>5. ASSUME NEW k \in 1..Len(a) PROVE b[0 + k] = a[k]
      <4>1. CASE k = 1
        BY <3>2, <3>3, <4>1
      <4>2. CASE k # 1
        <5>1. k - 1 \in 1..Len(d) /\ k - 1 \in 1..Len(s) /\ (k - 1) + 1 = k /\ 0 + k = k
          BY <1>1, <2>1, <3>2, <4>2
        <5> QED BY <2>1, <3>2, <3>3, <5>1
      <4> QED BY <4>1, <4>2
    <3>6. Occurs(a, b)
      BY <3>2, <3>3, <3>4, <3>5, OccursMeans
    <3> QED BY <2>2, <3>1, <3>6
  <2> QED BY <2>3, <2>4
<1>3. CASE cmp = "rev_comp"
  <2> DEFINE m == Len(s) - Len(d)
  <2>1. Len(d) <= Len(s) /\ \A i \in 1..Len(d) : s[m + i] = d[i]
    BY <1>3, BackMeans
  <2>2. m \in Nat /\ m + Len(d) = Len(s) /\ Len(d) \in 1..Len(d)
    BY <1>1, <2>1
  <2>3. s[Len(s)] = d[Len(d)]
    BY <2>1, <2>2
  <2>4. WithDot(cmp, d) = BackDot(d) /\ WithDot(cmp, s) = BackDot(s)
    BY <1>3 DEF WithDot
  <2>5. CASE d[Len(d)] = Dot
    <3>1. BackDot(d) = d /\ BackDot(s) = s
      BY <2>3, <2>5 DEF BackDot
    <3>2. m \in 0..(Len(s) - Len(d))
      BY <2>2
    <3>3. Occurs(d, s)
      BY <2>1, <3>2, OccursMeans
    <3> QED BY <2>4, <3>1, <3>3
  <2>6. CASE d[Len(d)] # Dot
    <3> DEFINE a == Append(d, Dot)
               b == Append(s, Dot)
    <3>1. BackDot(d) = a /\ BackDot(s) = b
      BY <2>3, <2>6 DEF BackDot
    <3>2. /\ a \in Texts /\ Len(a) = Len(d) + 1 /\ a[Len(d) + 1] = Dot
          /\ \A i \in 1..Len(d) : a[i] = d[i]
      BY BackPlaces
    <3>3. /\ b \in Texts /\ Len(b) = Len(s) + 1 /\ b[Len(s) + 1] = Dot
          /\ \A i \in 1..Len(s) : b[i] = s[i]
      BY BackPlaces
    <3> HIDE DEF a, b, m
    <3>4. m \in 0..(Len(b) - Len(a))
      BY <1>1, <2>2, <3>2, <3>3
    <3>5. ASSUME NEW k \in 1..Len(a) PROVE b[m + k] = a[k]
      <4>1. CASE k = Len(d) + 1
        <5>1. m + k = Len(s) + 1
          BY <1>1, <2>2, <4>1
        <5> QED BY <3>2, <3>3, <4>1, <5>1
      <4>2. CASE k # Len(d) + 1
        <5>1. k \in 1..Len(d) /\ m + k \in 1..Len(s)
          BY <1>1, <2>2, <3>2, <4>2
        <5> QED BY <2>1, <3>2, <3>3, <5>1
      <4> QED BY <4>1, <4>2
    <3>6. Occurs(a, b)
      BY <3>2, <3>3, <3>4, <3>5, OccursMeans
    <3> QED BY <2>4, <3>1, <3>6
  <2> QED BY <2>5, <2>6
<1> QED BY <1>2, <1>3

\* The texts that `optimize' makes of a whole name, which does not begin with a dot.
LEMMA ExactDots ==
  ASSUME NEW s \in Texts, s # <<>>, s[1] # Dot
  PROVE  /\ Tail(BackDot(FrontDot(s))) = BackDot(s)
         /\ WithDot("comp", BackDot(s)) = BackDot(FrontDot(s))
         /\ WithDot("rev_comp", FrontDot(s)) = BackDot(FrontDot(s))
<1> DEFINE d == <<Dot>> \o s
<1>1. Len(s) \in Nat /\ Len(s) > 0
  BY DEF Texts
<1>2. FrontDot(s) = d
  BY DEF FrontDot
<1>3. d \in Texts /\ Len(d) = Len(s) + 1 /\ d[1] = Dot /\ \A i \in 1..Len(s) : d[i + 1] = s[i]
  BY FrontPlaces
<1>4. ASSUME NEW t \in Texts, t # <<>>, t[1] # Dot
      PROVE  Tail(<<Dot>> \o t) = t /\ FrontDot(t) = <<Dot>> \o t
  <2> DEFINE e == <<Dot>> \o t
  <2>1. Len(t) \in Nat
    BY DEF Texts
  <2>2. e \in Texts /\ Len(e) = Len(t) + 1 /\ \A i \in 1..Len(t) : e[i + 1] = t[i]
    BY FrontPlaces
  <2> HIDE DEF e
  <2>3. e # <<>> /\ e \in Seq(Nat)
    BY <2>1, <2>2 DEF Texts
  <2>4. /\ Tail(e) \in Seq(Nat) /\ Len(Tail(e)) = Len(e) - 1
        /\ \A i \in 1..Len(Tail(e)) : Tail(e)[i] = e[i + 1]
    BY <2>3, HeadTailProperties
  <2> DEFINE u == Tail(e)
  <2>5. u \in Seq(Nat) /\ Len(u) = Len(t)
    <3>1. Len(Tail(e)) = Len(e) - 1 /\ Len(e) = Len(t) + 1
      BY <2>2, <2>4
    <3> HIDE DEF u
    <3>2. Len(u) = Len(t)
      BY <2>1, <3>1 DEF u
    <3> QED BY <2>4, <3>2 DEF u
  <2>6. \A i \in 1..Len(u) : u[i] = t[i]
    BY <2>2, <2>4, <2>5
  <2> HIDE DEF u
  <2>7. u = t
    BY <2>5, <2>6, SeqEqual DEF Texts
  <2> QED BY <1>4, <2>7 DEF FrontDot, e, u
<1> HIDE DEF d
<1>5. d[Len(d)] = s[Len(s)]
  BY <1>1, <1>3
<1>6. CASE s[Len(s)] = Dot
  <2>1. BackDot(d) = d /\ BackDot(s) = s
    BY <1>5, <1>6 DEF BackDot
  <2>2. Tail(d) = s /\ FrontDot(s) = d
    BY <1>2, <1>4 DEF d
  <2> QED BY <1>2, <2>1, <2>2 DEF WithDot
<1>7. CASE s[Len(s)] # Dot
  <2> DEFINE t == Append(s, Dot)
  <2>1. BackDot(d) = Append(d, Dot) /\ BackDot(s) = t
    BY <1>5, <1>7 DEF BackDot
  <2>2. /\ t \in Texts /\ Len(t) = Len(s) + 1 /\ t[Len(s) + 1] = Dot
        /\ \A i \in 1..Len(s) : t[i] = s[i]
    BY BackPlaces
  <2> HIDE DEF t
  <2>3. t # <<>> /\ t[1] # Dot
    BY <1>1, <2>2
  <2>4. Tail(<<Dot>> \o t) = t /\ FrontDot(t) = <<Dot>> \o t
    BY <1>4, <2>2, <2>3
  <2>5. <<Dot>> \o t = Append(d, Dot)
    <3> DEFINE a == <<Dot>> \o t
               b == Append(d, Dot)
    <3>1. a \in Texts /\ Len(a) = Len(t) + 1 /\ a[1] = Dot /\ \A i \in 1..Len(t) : a[i + 1] = t[i]
      BY <2>2, FrontPlaces
    <3>2. /\ b \in Texts /\ Len(b) = Len(d) + 1 /\ b[Len(d) + 1] = Dot
          /\ \A i \in 1..Len(d) : b[i] = d[i]
      BY <1>3, BackPlaces
    <3> HIDE DEF a, b
    <3>3. Len(a) = Len(b) /\ Len(a) = Len(s) + 2
      BY <1>1, <1>3, <2>2, <3>1, <3>2
    <3>4. ASSUME NEW i \in 1..Len(a) PROVE a[i] = b[i]
      <4>1. CASE i = 1
        <5>1. 1 \in 1..Len(d)
          BY <1>1, <1>3
        <5> QED BY <1>3, <3>1, <3>2, <4>1, <5>1
      <4>2. CASE i = Len(s) + 2
        <5>1. Len(s) + 1 \in 1..Len(t) /\ (Len(s) + 1) + 1 = i /\ Len(d) + 1 = i
          BY <1>1, <1>3, <2>2, <4>2
        <5> QED BY <2>2, <3>1, <3>2, <5>1
      <4>3. CASE i # 1 /\ i # Len(s) + 2
        <5>1. i - 1 \in 1..Len(s) /\ i - 1 \in 1..Len(t) /\ i \in 1..Len(d) /\ (i - 1) + 1 = i
          BY <1>1, <1>3, <2>2, <3>3, <4>3
        <5>2. a[i] = t[i - 1] /\ t[i - 1] = s[i - 1] /\ b[i] = d[i] /\ d[i] = s[i - 1]
          BY <1>3, <2>2, <3>1, <3>2, <5>1
        <5> QED BY <5>2
      <4> QED BY <4>1, <4>2, <4>3
    <3>5. a = b
      BY <3>1, <3>2, <3>3, <3>4, SeqEqual DEF Texts
    <3> QED BY <3>5 DEF a, b
  <2> QED BY <1>2, <2>1, <2>4, <2>5 DEF WithDot
<1> QED BY <1>6, <1>7

-----------------------------------------------------------------------------
(***************************************************************************)
(* The filter after `optimize' and `merge': the words that no other word   *)
(* makes superfluous.                                                      *)
(***************************************************************************)

\* The least words of A in which, with their dots, no substring of S occurs.
Needed(cmp, A, S) == {s \in MinOf(Contained(cmp), A) : ~substr_match(S, WithDot(cmp, s))}

\* The whole name s is covered by no word of another kind.
NeededName(words, S, s) ==
  /\ s \in TextsOf(words, "exact")
  /\ ~substr_match(S, BackDot(FrontDot(s)))
  /\ ~Covered("rev_comp", TextsOf(words, "suffix"), FrontDot(s))
  /\ ~Covered("comp", TextsOf(words, "prefix"), BackDot(s))

NeededWords(f, words) ==
  /\ f.substrings = MinOf(Occurring, TextsOf(words, "substring"))
  /\ f.suffix = Needed("rev_comp", TextsOf(words, "suffix"), f.substrings)
  /\ f.prefix = Needed("comp", TextsOf(words, "prefix"), f.substrings)
  /\ \A s : s \in f.exact <=> NeededName(words, f.substrings, s)

\* Where no substring occurs the needed words cover what all words cover.
LEMMA NeededCover ==
  ASSUME NEW cmp \in {"comp", "rev_comp"}, NEW A \in SUBSET Texts, <<>> \notin A,
         NEW S \in SUBSET Texts, NEW t \in Texts, ~substr_match(S, WithDot(cmp, t))
  PROVE  Covered(cmp, Needed(cmp, A, S), t) <=> Covered(cmp, A, t)
<1> DEFINE R == Contained(cmp)
           M == MinOf(R, A)
<1>1. IsPartOrder(R)
  BY ContainedIsOrder
<1>2. M \in SUBSET A
  BY DEF MinOf
<1>3. Covered(cmp, Needed(cmp, A, S), t) => Covered(cmp, A, t)
  BY <1>2 DEF Covered, Needed
<1>4. ASSUME Covered(cmp, A, t) PROVE Covered(cmp, Needed(cmp, A, S), t)
  <2>1. Above(R, A, t)
    BY <1>4, CoveredIsAbove
  <2>2. Above(R, M, t)
    BY <1>1, <2>1, MinimumBelow
  <2>3. PICK d \in M : <<d, t>> \in R
    BY <2>2 DEF Above
  <2>4. d \in Texts /\ d # <<>> /\ contains(cmp, t, d)
    BY <1>2, <2>3, ContainedMeans
  <2>5. Occurs(WithDot(cmp, d), WithDot(cmp, t))
    BY <2>4, PartWithDot
  <2>6. WithDot(cmp, d) \in Texts /\ WithDot(cmp, t) \in Texts
    BY <2>4, WithDotTexts
  <2>7. ~substr_match(S, WithDot(cmp, d))
    <3> SUFFICES ASSUME NEW s \in S, Occurs(s, WithDot(cmp, d)) PROVE FALSE
      BY DEF substr_match
    <3>1. Occurs(s, WithDot(cmp, t))
      BY <2>5, <2>6, OccursTransitive
    <3> QED BY <3>1 DEF substr_match
  <2>8. d \in Needed(cmp, A, S)
    BY <2>3, <2>7 DEF Needed
  <2> QED BY <2>4, <2>8 DEF Covered
<1> QED BY <1>3, <1>4

\* What `optimize' leaves of an ordered set that lacks no needed word.
LEMMA OptimizedSet ==
  ASSUME NEW cmp \in {"comp", "rev_comp"}, NEW A \in SUBSET Texts, <<>> \notin A,
         NEW S \in SUBSET Texts, NEW W \in SUBSET A, Ordered(cmp, W),
         Needed(cmp, A, S) \in SUBSET W,
         NEW V, \A d : d \in V <=> d \in W /\ ~substr_match(S, WithDot(cmp, d))
  PROVE  V = Needed(cmp, A, S)
<1> DEFINE R == Contained(cmp)
<1>1. IsPartOrder(R)
  BY ContainedIsOrder
<1>2. \A a, b \in W : contains(cmp, a, b) => a = b
  BY DEF Ordered, Antichain
<1>3. ASSUME NEW d \in V PROVE d \in Needed(cmp, A, S)
  <2>1. d \in W /\ d \in A /\ d \in Texts /\ ~substr_match(S, WithDot(cmp, d))
    BY <1>3
  <2>2. ASSUME NEW t \in A, <<t, d>> \in R PROVE t = d
    <3>1. t \in Texts /\ contains(cmp, d, t)
      BY <2>1, <2>2, ContainedMeans
    <3>2. Occurs(WithDot(cmp, t), WithDot(cmp, d))
      BY <2>1, <3>1, PartWithDot
    <3>3. WithDot(cmp, t) \in Texts /\ WithDot(cmp, d) \in Texts
      BY <2>1, <3>1, WithDotTexts
    <3>4. ~substr_match(S, WithDot(cmp, t))
      <4> SUFFICES ASSUME NEW s \in S, Occurs(s, WithDot(cmp, t)) PROVE FALSE
        BY DEF substr_match
      <4>1. Occurs(s, WithDot(cmp, d))
        BY <3>2, <3>3, OccursTransitive
      <4> QED BY <2>1, <4>1 DEF substr_match
    <3>5. Covered(cmp, A, t)
      BY <2>2, <3>1, OrderFacts DEF Covered
    <3>6. PICK u \in Needed(cmp, A, S) : contains(cmp, t, u)
      BY <3>1, <3>4, <3>5, NeededCover DEF Covered
    <3>7. u \in W /\ u \in Texts
      OBVIOUS
    <3>8. contains(cmp, d, u)
      BY <2>1, <3>1, <3>6, <3>7, OrderFacts
    <3>9. u = d
      BY <1>2, <2>1, <3>7, <3>8
    <3> QED BY <2>1, <3>1, <3>6, <3>9, OrderFacts
  <2> QED BY <2>1, <2>2 DEF Needed, MinOf
<1>4. ASSUME NEW d \in Needed(cmp, A, S) PROVE d \in V
  BY <1>4 DEF Needed
<1> QED BY <1>3, <1>4

\* `optimize' leaves the needed words of a filter that lacks none of them.
LEMMA OptimizeNeeded ==
  ASSUME NEW f, Good(f), NEW words \in SUBSET ListWords, NEW g, g = optimize(f),
         f.substrings = MinOf(Occurring, TextsOf(words, "substring")),
         f.suffix \in SUBSET TextsOf(words, "suffix"),
         Needed("rev_comp", TextsOf(words, "suffix"), f.substrings) \in SUBSET f.suffix,
         f.prefix \in SUBSET TextsOf(words, "prefix"),
         Needed("comp", TextsOf(words, "prefix"), f.substrings) \in SUBSET f.prefix,
         f.exact \in SUBSET TextsOf(words, "exact"),
         \A s : NeededName(words, f.substrings, s) => s \in f.exact
  PROVE  NeededWords(g, words)
<1> DEFINE S == f.substrings
           A == TextsOf(words, "suffix")
           B == TextsOf(words, "prefix")
<1>1. /\ A \in SUBSET Texts /\ <<>> \notin A /\ B \in SUBSET Texts /\ <<>> \notin B
      /\ TextsOf(words, "exact") \in SUBSET Texts /\ <<>> \notin TextsOf(words, "exact")
      /\ \A x \in TextsOf(words, "exact") : x[1] # Dot
  BY TextsOfTypes
<1>2. S \in SUBSET Texts /\ Ordered("rev_comp", f.suffix) /\ Ordered("comp", f.prefix)
  BY DEF Good
<1>3. g.substrings = S
  BY OptimizeFields
<1>4. \A d : d \in g.suffix <=> d \in f.suffix /\ ~substr_match(S, WithDot("rev_comp", d))
  BY OptimizeFields DEF WithDot
<1>5. \A d : d \in g.prefix <=> d \in f.prefix /\ ~substr_match(S, WithDot("comp", d))
  BY OptimizeFields DEF WithDot
<1>6. \A w : w \in g.exact <=>
              /\ w \in f.exact
              /\ ~words_match("rev_comp", g.suffix, FrontDot(w))
              /\ ~substr_match(S, BackDot(FrontDot(w)))
              /\ ~words_match("comp", g.prefix, Tail(BackDot(FrontDot(w))))
  BY OptimizeFields
<1> HIDE DEF S, A, B
<1>7. g.suffix = Needed("rev_comp", A, S)
  BY <1>1, <1>2, <1>4, OptimizedSet DEF S, A
<1>8. g.prefix = Needed("comp", B, S)
  BY <1>1, <1>2, <1>5, OptimizedSet DEF S, B
<1>9. Good(g)
  BY OptimizeCovers
<1>10. ASSUME NEW s PROVE s \in g.exact <=> NeededName(words, S, s)
  <2>1. s \in f.exact => s \in TextsOf(words, "exact")
    OBVIOUS
  <2>2. NeededName(words, S, s) => s \in f.exact
    BY DEF S
  <2>3. CASE s \in TextsOf(words, "exact") /\ ~substr_match(S, BackDot(FrontDot(s)))
    <3>1. s \in Texts /\ s # <<>> /\ s[1] # Dot
      BY <1>1, <2>3
    <3>2. /\ Tail(BackDot(FrontDot(s))) = BackDot(s)
          /\ WithDot("comp", BackDot(s)) = BackDot(FrontDot(s))
          /\ WithDot("rev_comp", FrontDot(s)) = BackDot(FrontDot(s))
      BY <3>1, ExactDots
    <3>3. FrontDot(s) \in Texts /\ BackDot(s) \in Texts
      BY <3>1, WithDotTexts
    <3>4. words_match("rev_comp", g.suffix, FrontDot(s)) <=> Covered("rev_comp", g.suffix, FrontDot(s))
      BY <1>9, <3>3, MatchLooksAtOne DEF Good
    <3>5. words_match("comp", g.prefix, BackDot(s)) <=> Covered("comp", g.prefix, BackDot(s))
      BY <1>9, <3>3, MatchLooksAtOne DEF Good
    <3>6. Covered("rev_comp", g.suffix, FrontDot(s)) <=> Covered("rev_comp", A, FrontDot(s))
      BY <1>1, <1>2, <1>7, <2>3, <3>2, <3>3, NeededCover
    <3>7. Covered("comp", g.prefix, BackDot(s)) <=> Covered("comp", B, BackDot(s))
      BY <1>1, <1>2, <1>8, <2>3, <3>2, <3>3, NeededCover
    <3>8. NeededName(words, S, s) <=>
            ~Covered("rev_comp", A, FrontDot(s)) /\ ~Covered("comp", B, BackDot(s))
      BY <2>3 DEF NeededName, A, B
    <3> QED BY <1>6, <2>2, <2>3, <3>2, <3>4, <3>5, <3>6, <3>7, <3>8
  <2>4. CASE ~(s \in TextsOf(words, "exact") /\ ~substr_match(S, BackDot(FrontDot(s))))
    BY <1>6, <2>1, <2>4 DEF NeededName
  <2> QED BY <2>3, <2>4
<1> QED BY <1>3, <1>7, <1>8, <1>10 DEF NeededWords, S, A, B

\* The constructor's last step.
LEMMA FileNeeded ==
  ASSUME NEW f, Good(f), NEW words \in SUBSET ListWords, LeastWords(f, words)
  PROVE  NeededWords(optimize(f), words)
<1>1. \A cmp, A, S : Needed(cmp, A, S) \in SUBSET MinOf(Contained(cmp), A)
  BY DEF Needed
<1>2. \A R, A : MinOf(R, A) \in SUBSET A
  BY DEF MinOf
<1>3. \A s : NeededName(words, f.substrings, s) => s \in TextsOf(words, "exact")
  BY DEF NeededName
<1>4. /\ f.suffix = MinOf(Contained("rev_comp"), TextsOf(words, "suffix"))
      /\ f.prefix = MinOf(Contained("comp"), TextsOf(words, "prefix"))
      /\ f.substrings = MinOf(Occurring, TextsOf(words, "substring"))
      /\ f.exact = TextsOf(words, "exact")
  BY DEF LeastWords
<1>5. /\ f.suffix \in SUBSET TextsOf(words, "suffix")
      /\ Needed("rev_comp", TextsOf(words, "suffix"), f.substrings) \in SUBSET f.suffix
      /\ f.prefix \in SUBSET TextsOf(words, "prefix")
      /\ Needed("comp", TextsOf(words, "prefix"), f.substrings) \in SUBSET f.prefix
  BY <1>1, <1>2, <1>4
<1>6. f.exact \in SUBSET TextsOf(words, "exact")
  BY <1>4
<1>7. \A s : NeededName(words, f.substrings, s) => s \in f.exact
  BY <1>3, <1>4
<1> HIDE DEF LeastWords
<1> QED BY <1>4, <1>5, <1>6, <1>7, OptimizeNeeded

\* The substrings U find a text exactly when those of S or those of T do.
FindsBoth(U, S, T) ==
  \A t \in Texts : substr_match(U, t) <=> substr_match(S, t) \/ substr_match(T, t)

\* An ordered set after a merge: nothing new, and no needed word is missing.
LEMMA MergedSet ==
  ASSUME NEW cmp \in {"comp", "rev_comp"}, NEW A \in SUBSET Texts, NEW B \in SUBSET Texts,
         NEW S \in SUBSET Texts, NEW T \in SUBSET Texts, NEW U \in SUBSET Texts,
         FindsBoth(U, S, T),
         NEW V, V = Needed(cmp, A, S), NEW W, W = Needed(cmp, B, T),
         Ordered(cmp, V), Ordered(cmp, W)
  PROVE  /\ WordsMerged(cmp, V, W) \in SUBSET (A \cup B)
         /\ Needed(cmp, A \cup B, U) \in SUBSET WordsMerged(cmp, V, W)
<1> DEFINE R == Contained(cmp)
           M == WordsMerged(cmp, V, W)
           E == V \cup W
           D == A \cup B
<1>1. IsPartOrder(R)
  BY ContainedIsOrder
<1>2. /\ Ordered(cmp, M)
      /\ \A t \in Texts : Covered(cmp, M, t) <=> Covered(cmp, V, t) \/ Covered(cmp, W, t)
  BY MergeCovers
<1> HIDE DEF M
<1>3. M \in SUBSET Texts /\ Antichain(cmp, M) /\ V \in SUBSET Texts /\ W \in SUBSET Texts
  BY <1>2 DEF Ordered
<1>4. V \in SUBSET A /\ W \in SUBSET B
  BY DEF Needed, MinOf
<1>5. Apart(R, M) /\ \A t \in Texts : Covered(cmp, M, t) <=> Above(R, M, t)
  BY <1>3, CoveredIsAbove
<1>6. /\ \A t \in Texts : Covered(cmp, V, t) <=> Above(R, V, t)
      /\ \A t \in Texts : Covered(cmp, W, t) <=> Above(R, W, t)
  BY <1>3, CoveredIsAbove
<1>7. \A t : Above(R, E, t) <=> Above(R, V, t) \/ Above(R, W, t)
  BY DEF Above
<1>8. E \in SUBSET Texts /\ E \in SUBSET D
  BY <1>3, <1>4
<1> HIDE DEF R, E
<1>9. \A t \in Texts : Above(R, M, t) <=> Above(R, E, t)
  BY <1>2, <1>5, <1>6, <1>7
<1>10. M = MinOf(R, E)
  BY <1>1, <1>3, <1>5, <1>8, <1>9, UniqueMinima
<1>11. M \in SUBSET D
  BY <1>8, <1>10 DEF MinOf
<1>12. ASSUME NEW s \in Needed(cmp, D, U) PROVE s \in M
  <2>1. s \in D /\ (\A t \in D : <<t, s>> \in R => t = s) /\ ~substr_match(U, WithDot(cmp, s))
    BY <1>12 DEF Needed, MinOf, R
  <2>2. s \in Texts
    BY <2>1
  <2>3. WithDot(cmp, s) \in Texts
    BY <2>2, WithDotTexts
  <2>4. ~substr_match(S, WithDot(cmp, s)) /\ ~substr_match(T, WithDot(cmp, s))
    BY <2>1, <2>3 DEF FindsBoth
  <2>5. s \in A => s \in V
    BY <2>1, <2>4 DEF Needed, MinOf, R
  <2>6. s \in B => s \in W
    BY <2>1, <2>4 DEF Needed, MinOf, R
  <2>7. s \in E
    BY <2>1, <2>5, <2>6 DEF E
  <2> QED BY <1>8, <1>10, <2>1, <2>7 DEF MinOf
<1> QED BY <1>11, <1>12 DEF M

\* The merge of two filters holds the needed words of both together.
LEMMA MergedNeeded ==
  ASSUME NEW f, NEW h, Good(f), Good(h),
         NEW v \in SUBSET ListWords, NEW w \in SUBSET ListWords,
         NeededWords(f, v), NeededWords(h, w), NEW g \in merge(f, h)
  PROVE  NeededWords(g, v \cup w)
<1> DEFINE u == v \cup w
           P == WordsMerged("comp", f.prefix, h.prefix)
           Q == WordsMerged("rev_comp", f.suffix, h.suffix)
           E == f.exact \cup h.exact
           S == f.substrings
           T == h.substrings
<1>1. PICK U \in SubsMerged(S, T) :
        g = optimize([prefix |-> P, suffix |-> Q, substrings |-> U, exact |-> E])
  BY DEF merge
<1>2. \A k : TextsOf(u, k) = TextsOf(v, k) \cup TextsOf(w, k)
  BY TextsOfUnion
<1>3. /\ \A k : TextsOf(v, k) \in SUBSET Texts /\ <<>> \notin TextsOf(v, k)
      /\ \A k : TextsOf(w, k) \in SUBSET Texts /\ <<>> \notin TextsOf(w, k)
  BY TextsOfTypes
<1>4. /\ Ordered("rev_comp", f.suffix) /\ Ordered("rev_comp", h.suffix)
      /\ Ordered("comp", f.prefix) /\ Ordered("comp", h.prefix)
      /\ ~Covered("rev_comp", f.suffix, <<>>) /\ ~Covered("rev_comp", h.suffix, <<>>)
      /\ ~Covered("comp", f.prefix, <<>>) /\ ~Covered("comp", h.prefix, <<>>)
      /\ Separate(S) /\ Separate(T) /\ S \in SUBSET Texts /\ T \in SUBSET Texts
      /\ E \in SUBSET Texts
  BY DEF Good
<1>5. /\ S = MinOf(Occurring, TextsOf(v, "substring"))
      /\ T = MinOf(Occurring, TextsOf(w, "substring"))
      /\ f.suffix = Needed("rev_comp", TextsOf(v, "suffix"), S)
      /\ h.suffix = Needed("rev_comp", TextsOf(w, "suffix"), T)
      /\ f.prefix = Needed("comp", TextsOf(v, "prefix"), S)
      /\ h.prefix = Needed("comp", TextsOf(w, "prefix"), T)
      /\ \A s : s \in f.exact <=> NeededName(v, S, s)
      /\ \A s : s \in h.exact <=> NeededName(w, T, s)
  BY DEF NeededWords
<1> HIDE DEF S, T
<1>6. /\ Separate(U) /\ U \in SUBSET Texts
      /\ \A t \in Texts : substr_match(U, t) <=> substr_match(S, t) \/ substr_match(T, t)
  BY <1>4, SubsMergeCovers DEF Separate
<1>7. U = MinOf(Occurring, TextsOf(u, "substring"))
  <2>1. U = MinOf(Occurring, TextsOf(v, "substring") \cup TextsOf(w, "substring"))
    BY <1>3, <1>4, <1>5, SubsMergeMinima
  <2> QED BY <1>2, <2>1
<1>8. Q \in SUBSET TextsOf(u, "suffix") /\ Needed("rev_comp", TextsOf(u, "suffix"), U) \in SUBSET Q
  <2>1. /\ Q \in SUBSET (TextsOf(v, "suffix") \cup TextsOf(w, "suffix"))
        /\ Needed("rev_comp", TextsOf(v, "suffix") \cup TextsOf(w, "suffix"), U) \in SUBSET Q
    <3>1. /\ TextsOf(v, "suffix") \in SUBSET Texts /\ TextsOf(w, "suffix") \in SUBSET Texts
          /\ S \in SUBSET Texts /\ T \in SUBSET Texts /\ U \in SUBSET Texts
      BY <1>3, <1>4, <1>6
    <3>2. /\ f.suffix = Needed("rev_comp", TextsOf(v, "suffix"), S)
          /\ h.suffix = Needed("rev_comp", TextsOf(w, "suffix"), T)
          /\ Ordered("rev_comp", f.suffix) /\ Ordered("rev_comp", h.suffix)
      BY <1>4, <1>5
    <3>3. FindsBoth(U, S, T)
      BY <1>6 DEF FindsBoth
    <3>4. "rev_comp" \in {"comp", "rev_comp"}
      OBVIOUS
    <3> QED BY ONLY <3>1, <3>2, <3>3, <3>4, MergedSet
  <2> QED BY <1>2, <2>1
<1>9. P \in SUBSET TextsOf(u, "prefix") /\ Needed("comp", TextsOf(u, "prefix"), U) \in SUBSET P
  <2>1. /\ P \in SUBSET (TextsOf(v, "prefix") \cup TextsOf(w, "prefix"))
        /\ Needed("comp", TextsOf(v, "prefix") \cup TextsOf(w, "prefix"), U) \in SUBSET P
    <3>1. /\ TextsOf(v, "prefix") \in SUBSET Texts /\ TextsOf(w, "prefix") \in SUBSET Texts
          /\ S \in SUBSET Texts /\ T \in SUBSET Texts /\ U \in SUBSET Texts
      BY <1>3, <1>4, <1>6
    <3>2. /\ f.prefix = Needed("comp", TextsOf(v, "prefix"), S)
          /\ h.prefix = Needed("comp", TextsOf(w, "prefix"), T)
          /\ Ordered("comp", f.prefix) /\ Ordered("comp", h.prefix)
      BY <1>4, <1>5
    <3>3. FindsBoth(U, S, T)
      BY <1>6 DEF FindsBoth
    <3>4. "comp" \in {"comp", "rev_comp"}
      OBVIOUS
    <3> QED BY ONLY <3>1, <3>2, <3>3, <3>4, MergedSet
  <2> QED BY <1>2, <2>1
<1>10. Ordered("rev_comp", Q) /\ ~Covered("rev_comp", Q, <<>>) /\ Q \in SUBSET Texts
  BY <1>4, MergeGood
<1>11. Ordered("comp", P) /\ ~Covered("comp", P, <<>>) /\ P \in SUBSET Texts
  BY <1>4, MergeGood
<1>12. E \in SUBSET TextsOf(u, "exact")
  BY <1>2, <1>5 DEF NeededName
<1>13. ASSUME NEW s, NeededName(u, U, s) PROVE s \in E
  <2>1. /\ s \in TextsOf(u, "exact") /\ ~substr_match(U, BackDot(FrontDot(s)))
        /\ ~Covered("rev_comp", TextsOf(u, "suffix"), FrontDot(s))
        /\ ~Covered("comp", TextsOf(u, "prefix"), BackDot(s))
    BY <1>13 DEF NeededName
  <2>2. s \in Texts
    BY <1>2, <1>3, <2>1
  <2>3. BackDot(FrontDot(s)) \in Texts
    BY <2>2, WithDotTexts
  <2>4. ~substr_match(S, BackDot(FrontDot(s))) /\ ~substr_match(T, BackDot(FrontDot(s)))
    BY <1>6, <2>1, <2>3
  <2>5. /\ ~Covered("rev_comp", TextsOf(v, "suffix"), FrontDot(s))
        /\ ~Covered("rev_comp", TextsOf(w, "suffix"), FrontDot(s))
        /\ ~Covered("comp", TextsOf(v, "prefix"), BackDot(s))
        /\ ~Covered("comp", TextsOf(w, "prefix"), BackDot(s))
    BY <1>2, <2>1 DEF Covered
  <2>6. s \in TextsOf(v, "exact") \/ s \in TextsOf(w, "exact")
    BY <1>2, <2>1
  <2> QED BY <1>5, <2>4, <2>5, <2>6 DEF NeededName
<1> DEFINE m == [prefix |-> P, suffix |-> Q, substrings |-> U, exact |-> E]
<1> HIDE DEF P, Q, E, u
<1>14. /\ m \in [prefix : SUBSET Texts, suffix : SUBSET Texts,
                 substrings : SUBSET Texts, exact : SUBSET Texts]
       /\ m.prefix = P /\ m.suffix = Q /\ m.substrings = U /\ m.exact = E
  BY <1>4, <1>6, <1>10, <1>11
<1>15. g = optimize(m)
  BY <1>1
<1> HIDE DEF m
<1>16. Good(m)
  BY <1>6, <1>10, <1>11, <1>14 DEF Good
<1>17. u \in SUBSET ListWords
  BY DEF u
<1>18. NeededWords(g, u)
  BY <1>7, <1>8, <1>9, <1>12, <1>13, <1>14, <1>15, <1>16, <1>17, OptimizeNeeded
<1> QED BY <1>18 DEF u

\* The file holds the least words read, the list the needed ones.
CanonInv == LeastWords(file, reading) /\ NeededWords(list, read)

LEMMA NoWordsNeeded == NeededWords(Empty, {})
<1>1. \A k : TextsOf({}, k) = {}
  BY TextsOfMeans
<1>2. \A R : MinOf(R, {}) = {}
  BY DEF MinOf
<1>3. \A cmp, S : Needed(cmp, {}, S) = {}
  BY <1>2 DEF Needed
<1>4. \A S, s : ~NeededName({}, S, s)
  BY <1>1 DEF NeededName
<1>5. Empty.prefix = {} /\ Empty.suffix = {} /\ Empty.substrings = {} /\ Empty.exact = {}
  BY DEF Empty
<1> QED BY <1>1, <1>2, <1>3, <1>4, <1>5 DEF NeededWords

\* A file holds the least of its words, and the list the needed words of all
\* files, after every word and every merge.
LEMMA CanonInvariance == Spec => []CanonInv
<1>1. Init => CanonInv
  BY EmptyLeast, NoWordsNeeded DEF Init, CanonInv
<1>2. Inv /\ CanonInv /\ [Next]_vars => CanonInv'
  <2> SUFFICES ASSUME Inv, CanonInv, [Next]_vars PROVE CanonInv'
    OBVIOUS
  <2>1. /\ Good(file) /\ Good(list)
        /\ read \in SUBSET ListWords /\ reading \in SUBSET ListWords
        /\ LeastWords(file, reading) /\ NeededWords(list, read)
    BY DEF Inv, FilterOf, CanonInv
  <2>2. ASSUME NEW w \in FileWords, ReadWord(w) PROVE CanonInv'
    <3>1. file' \in Added(file, w) /\ reading' = reading \cup {w} /\ list' = list /\ read' = read
      BY <2>2 DEF ReadWord
    <3>2. LeastWords(file', reading')
      BY <2>1, <3>1, FilesHoldListWords, AddedLeast
    <3> QED BY <2>1, <3>1, <3>2 DEF CanonInv
  <2>3. ASSUME EndOfFile PROVE CanonInv'
    <3>1. /\ list' \in merge(list, optimize(file)) /\ read' = read \cup reading
          /\ file' = Empty /\ reading' = {}
      BY <2>3 DEF EndOfFile
    <3> DEFINE h == optimize(file)
    <3>2. Good(h) /\ NeededWords(h, reading)
      BY <2>1, OptimizeCovers, FileNeeded
    <3>3. list' \in merge(list, h)
      BY <3>1
    <3> HIDE DEF h
    <3>4. NeededWords(list', read')
      BY <2>1, <3>1, <3>2, <3>3, MergedNeeded
    <3> QED BY <3>1, <3>4, EmptyLeast DEF CanonInv
  <2>4. CASE UNCHANGED vars
    BY <2>1, <2>4 DEF vars, CanonInv
  <2> QED BY <2>2, <2>3, <2>4 DEF Next
<1> QED BY <1>1, <1>2, Invariance, PTL DEF Spec

\* The list holds exactly the words that no other word makes superfluous, in
\* whatever order words and files came: it is a function of the set of words.
THEOREM CanonicalHolds == Spec => []Canonical
<1>1. Inv /\ CanonInv => Canonical
  <2> SUFFICES ASSUME Inv, CanonInv PROVE Canonical
    OBVIOUS
  <2> DEFINE texts(k) == TextsOf(read, k)
             S == {s \in texts("substring") : \A t \in texts("substring") : Occurs(t, s) => t = s}
             least(cmp, k) == {s \in texts(k) : \A t \in texts(k) : contains(cmp, s, t) => t = s}
             free(s) == \A t \in S : ~Occurs(t, s)
  <2>1. NeededWords(list, read) /\ read \in SUBSET ListWords
    BY DEF Inv, FilterOf, CanonInv
  <2>2. \A k : texts(k) \in SUBSET Texts
    BY <2>1, TextsOfTypes
  <2>3. \A cmp, k : MinOf(Contained(cmp), texts(k)) = least(cmp, k)
    BY <2>2, ContainedMeans DEF MinOf
  <2>4. MinOf(Occurring, texts("substring")) = S
    BY <2>2, OccurringMeans DEF MinOf
  <2>5. \A s : free(s) <=> ~substr_match(S, s)
    BY DEF substr_match
  <2>6. list.substrings = S
    BY <2>1, <2>4 DEF NeededWords
  <2>7. list.suffix = {s \in least("rev_comp", "suffix") : free(BackDot(s))}
    <3> HIDE DEF free, least, S
    <3>1. list.suffix = Needed("rev_comp", texts("suffix"), S)
      BY <2>1, <2>6 DEF NeededWords
    <3> QED BY <2>3, <2>5, <3>1 DEF Needed, WithDot
  <2>8. list.prefix = {s \in least("comp", "prefix") : free(FrontDot(s))}
    <3> HIDE DEF free, least, S
    <3>1. list.prefix = Needed("comp", texts("prefix"), S)
      BY <2>1, <2>6 DEF NeededWords
    <3> QED BY <2>3, <2>5, <3>1 DEF Needed, WithDot
  <2>9. list.exact = {s \in texts("exact") :
                        /\ free(BackDot(FrontDot(s)))
                        /\ \A t \in texts("suffix") : ~IsSuffix(t, FrontDot(s))
                        /\ \A t \in texts("prefix") : ~IsPrefix(t, BackDot(s))}
    <3>1. \A s \in Texts : Covered("rev_comp", texts("suffix"), FrontDot(s))
                             <=> \E t \in texts("suffix") : IsSuffix(t, FrontDot(s))
      BY <2>2, WithDotTexts, BackMeans DEF Covered
    <3>2. \A s \in Texts : Covered("comp", texts("prefix"), BackDot(s))
                             <=> \E t \in texts("prefix") : IsPrefix(t, BackDot(s))
      BY <2>2, WithDotTexts, FrontMeans DEF Covered
    <3>3. \A s : s \in list.exact <=> NeededName(read, S, s)
      BY <2>1, <2>6 DEF NeededWords
    <3> HIDE DEF free, S
    <3> QED BY <2>2, <2>5, <3>1, <3>2, <3>3 DEF NeededName
  <2> QED BY <2>6, <2>7, <2>8, <2>9 DEF Canonical, TextsOf
<1> QED BY <1>1, Invariance, CanonInvariance, PTL

-----------------------------------------------------------------------------
(***************************************************************************)
(* What `write' prints.  The constructor makes of a printed word the text  *)
(* it was printed from, so it reads the needed words, and those are the    *)
(* words that are needed among themselves.                                 *)
(***************************************************************************)

WordsTaken(outs, w) == UNION {Added(f, w) : f \in outs}

\* g holds the filters that the constructor may have after up to n words.
IsReadRun(g, n, words) ==
  g = [m \in 0..n |-> IF m = 0 THEN {Empty} ELSE WordsTaken(g[m - 1], words[m])]

\* What the recursive definition in Constructed defines exists.
LEMMA ReadRunExists ==
  ASSUME NEW words, NEW N \in Nat
  PROVE  \E g : IsReadRun(g, N, words)
<1> DEFINE S == {n \in Nat : ~ \E g : IsReadRun(g, n, words)}
<1> SUFFICES ASSUME S # {} PROVE FALSE
  OBVIOUS
<1>1. PICK n \in S : \A m \in S : n <= m
  <2> S \subseteq Nat
    OBVIOUS
  <2> HIDE DEF S
  <2> QED BY LeastNumber
<1>2. CASE n = 0
  <2> DEFINE g == [m \in 0..0 |-> {Empty}]
  <2>1. g = [m \in 0..0 |-> IF m = 0 THEN {Empty} ELSE WordsTaken(g[m - 1], words[m])]
    OBVIOUS
  <2> HIDE DEF g
  <2> QED BY <1>2, <2>1 DEF IsReadRun
<1>3. CASE n # 0
  <2>1. n - 1 \in Nat /\ n - 1 \notin S
    BY <1>1, <1>3
  <2>2. PICK f : IsReadRun(f, n - 1, words)
    BY <2>1
  <2> DEFINE g == [m \in 0..n |-> IF m = n THEN WordsTaken(f[n - 1], words[n]) ELSE f[m]]
  <2>3. ASSUME NEW m \in 0..n
        PROVE  g[m] = IF m = 0 THEN {Empty} ELSE WordsTaken(g[m - 1], words[m])
    <3>1. CASE m = n
      <4>1. g[m] = WordsTaken(f[n - 1], words[n]) /\ g[m - 1] = f[n - 1]
        BY <3>1, <2>1
      <4> HIDE DEF g
      <4> QED BY <4>1, <3>1, <1>3
    <3>2. CASE m # n
      <4>1. m \in 0..(n - 1)
        BY <3>2
      <4>2. f[m] = IF m = 0 THEN {Empty} ELSE WordsTaken(f[m - 1], words[m])
        BY <2>2, <4>1 DEF IsReadRun
      <4>3. g[m] = f[m] /\ (m # 0 => g[m - 1] = f[m - 1])
        BY <3>2, <4>1
      <4> HIDE DEF g
      <4> QED BY <4>2, <4>3
    <3> QED BY <3>1, <3>2
  <2>4. g = [m \in 0..n |-> g[m]]
    OBVIOUS
  <2>5. g = [m \in 0..n |-> IF m = 0 THEN {Empty} ELSE WordsTaken(g[m - 1], words[m])]
    <3> HIDE DEF g
    <3> QED BY <2>3, <2>4
  <2>6. IsReadRun(g, n, words)
    <3> HIDE DEF g
    <3> QED BY <2>5 DEF IsReadRun
  <2> HIDE DEF g
  <2> QED BY <2>6
<1> QED BY <1>2, <1>3

\* An unordered set can be walked in some order.
LEMMA SomeOrder ==
  ASSUME NEW S, IsFiniteSet(S)
  PROVE  SetToSeqs(S) # {}
<1> DEFINE n == Cardinality(S)
<1>1. n \in Nat /\ ExistsBijection(1..n, S)
  BY FS_CardinalityType
<1>2. PICK g \in [1..n -> S] : \A i, j \in 1..n : i # j => g[i] # g[j]
  BY <1>1 DEF ExistsBijection, Bijection, Injection, IsInjective
<1>3. g \in SetToSeqs(S)
  BY <1>2, Zenon DEF SetToSeqs
<1> QED BY <1>3

\* The constructor's loop goes on with every word.
LEMMA SomeAdded ==
  ASSUME NEW f, Good(f), NEW w \in ListWords
  PROVE  Added(f, w) # {}
<1> DEFINE c == Classified(w)
<1>1. c.text # <<>> => c.kind \in {"exact", "suffix", "prefix", "substring"}
  BY ClassifiedFacts
<1>2. substr_insert(f.substrings, c.text) # {}
  <2>1. SetToSeqs(f.substrings) # {}
    BY SomeOrder DEF Good, Separate
  <2> HIDE DEF c
  <2> QED BY <2>1 DEF substr_insert
<1> HIDE DEF c
<1>3. CASE c.text = <<>>
  BY <1>3 DEF Added, c
<1>4. CASE c.text # <<>> /\ c.kind = "exact"
  BY <1>4 DEF Added, c
<1>5. CASE c.text # <<>> /\ c.kind = "suffix"
  BY <1>5 DEF Added, c
<1>6. CASE c.text # <<>> /\ c.kind = "prefix"
  BY <1>6 DEF Added, c
<1>7. CASE c.text # <<>> /\ c.kind = "substring"
  <2>1. PICK s \in substr_insert(f.substrings, c.text) : TRUE
    BY <1>2
  <2>2. [f EXCEPT !.substrings = s] \in Added(f, w)
    BY <1>7, <2>1 DEF Added, c
  <2> QED BY <2>2
<1> QED BY <1>1, <1>3, <1>4, <1>5, <1>6, <1>7

\* The constructor's loop over a text, in whatever order the substrings are
\* walked: it holds the least of the words.
LEMMA ConstructedLeast ==
  ASSUME NEW words \in Seq(ListWords)
  PROVE  /\ Constructed(words) # {}
         /\ \A f \in Constructed(words) :
              Good(f) /\ LeastWords(f, {words[i] : i \in 1..Len(words)})
<1> DEFINE N == Len(words)
           Upto(n) == {words[i] : i \in 1..n}
<1>1. N \in Nat /\ \A i \in 1..N : words[i] \in ListWords
  OBVIOUS
<1>2. \E g : IsReadRun(g, N, words)
  BY <1>1, ReadRunExists
<1>3. \E g : Constructed(words) = g[N] /\ IsReadRun(g, N, words)
  BY <1>2, Zenon DEF Constructed, IsReadRun, WordsTaken
<1>4. PICK g : Constructed(words) = g[N] /\ IsReadRun(g, N, words)
  BY <1>3
<1>5. \A m \in 0..N : g[m] = IF m = 0 THEN {Empty} ELSE WordsTaken(g[m - 1], words[m])
  BY <1>4 DEF IsReadRun
<1> HIDE DEF N
<1> DEFINE P(n) == g[n] # {} /\ \A f \in g[n] : Good(f) /\ LeastWords(f, Upto(n))
<1>6. P(0)
  <2>1. g[0] = {Empty} /\ Upto(0) = {}
    BY <1>1, <1>5
  <2>2. Good(Empty)
    BY EmptyFilter DEF FilterOf
  <2> HIDE DEF Upto
  <2> QED BY <2>1, <2>2, EmptyLeast
<1>7. ASSUME NEW n \in 0..(N - 1), P(n) PROVE P(n + 1)
  <2>1. n + 1 \in 1..N /\ n + 1 \in 0..N /\ (n + 1) - 1 = n /\ n + 1 # 0
    BY <1>1
  <2>2. g[n + 1] = WordsTaken(g[n], words[n + 1])
    BY <1>5, <2>1
  <2> DEFINE w == words[n + 1]
  <2>3. w \in ListWords
    BY <1>1, <2>1
  <2>4. Upto(n) \in SUBSET ListWords
    BY <1>1
  <2>5. Upto(n + 1) = Upto(n) \cup {w}
    <3>1. \A i : i \in 1..(n + 1) <=> i \in 1..n \/ i = n + 1
      OBVIOUS
    <3> QED BY <3>1
  <2> HIDE DEF w, Upto
  <2>6. ASSUME NEW h \in g[n + 1] PROVE Good(h) /\ LeastWords(h, Upto(n + 1))
    <3>1. PICK f \in g[n] : h \in Added(f, w)
      BY <2>2, <2>6 DEF WordsTaken, w
    <3>2. Good(f) /\ LeastWords(f, Upto(n))
      BY <1>7
    <3>3. Good(h)
      BY <2>3, <3>1, <3>2, AddedCovers
    <3>4. LeastWords(h, Upto(n) \cup {w})
      BY <2>3, <2>4, <3>1, <3>2, AddedLeast
    <3> QED BY <2>5, <3>3, <3>4
  <2>7. g[n + 1] # {}
    <3>1. PICK f \in g[n] : Good(f)
      BY <1>7
    <3>2. Added(f, w) # {}
      BY <2>3, <3>1, SomeAdded
    <3> QED BY <2>2, <3>2 DEF WordsTaken, w
  <2> QED BY <2>6, <2>7
<1> DEFINE S == {n \in Nat : n <= N /\ ~P(n)}
<1>8. ASSUME S # {} PROVE FALSE
  <2>1. PICK n \in S : \A m \in S : n <= m
    <3> S \subseteq Nat
      OBVIOUS
    <3> HIDE DEF S
    <3> QED BY <1>8, LeastNumber
  <2>2. n \in Nat /\ n <= N /\ ~P(n)
    BY <2>1
  <2> HIDE DEF P
  <2>3. n # 0
    BY <1>6, <2>2
  <2>4. n - 1 \in Nat /\ n - 1 \notin S /\ n - 1 \in 0..(N - 1) /\ (n - 1) + 1 = n
    BY <1>1, <2>1, <2>2, <2>3
  <2>5. P(n - 1)
    BY <1>1, <2>2, <2>4
  <2>6. P((n - 1) + 1)
    BY <1>7, <2>4, <2>5
  <2> QED BY <2>2, <2>4, <2>6
<1>9. P(N)
  <2> HIDE DEF P
  <2> QED BY <1>1, <1>8
<1> QED BY <1>4, <1>9 DEF N

\* Stars, hashes and dots stay what they are in lower case, and nothing becomes one.
LEMMA LowerKeeps ==
  ASSUME NEW s \in Texts
  PROVE  LET low == ascii_tolower(s)
         IN  /\ low \in Texts /\ Len(low) = Len(s) /\ ascii_tolower(low) = low
             /\ \A i \in 1..Len(s) : /\ low[i] = Star <=> s[i] = Star
                                     /\ low[i] = Hash <=> s[i] = Hash
                                     /\ low[i] = Dot <=> s[i] = Dot
<1> DEFINE low == ascii_tolower(s)
<1>1. Len(s) \in Nat /\ \A i \in 1..Len(s) : s[i] \in Nat
  BY DEF Texts
<1>2. \A c \in Nat : /\ LowerChar(c) \in Nat /\ LowerChar(LowerChar(c)) = LowerChar(c)
                     /\ LowerChar(c) = Star <=> c = Star
                     /\ LowerChar(c) = Hash <=> c = Hash
                     /\ LowerChar(c) = Dot <=> c = Dot
  BY DEF LowerChar, Star, Hash, Dot
<1>3. /\ low \in Seq(Nat) /\ Len(low) = Len(s)
      /\ \A i \in 1..Len(s) : low[i] = LowerChar(s[i])
  BY <1>1, <1>2 DEF ascii_tolower
<1> HIDE DEF low
<1>4. ascii_tolower(low) = low
  <2>1. \A i \in 1..Len(low) : LowerChar(low[i]) = low[i]
    BY <1>1, <1>2, <1>3
  <2>2. ascii_tolower(low) = [i \in 1..Len(low) |-> low[i]]
    BY <2>1 DEF ascii_tolower
  <2>3. low = [i \in 1..Len(low) |-> low[i]]
    BY <1>3
  <2> QED BY <2>2, <2>3
<1>5. \A i \in 1..Len(s) : /\ low[i] = Star <=> s[i] = Star
                           /\ low[i] = Hash <=> s[i] = Hash
                           /\ low[i] = Dot <=> s[i] = Dot
  BY <1>1, <1>2, <1>3
<1> QED BY <1>3, <1>4, <1>5 DEF low, Texts

\* What the constructor may keep as a text of kind k.
Printable(k, x) ==
  /\ x \in Texts /\ x # <<>> /\ ascii_tolower(x) = x
  /\ k = "prefix" => x[1] # Star /\ x[1] # Hash
  /\ k = "suffix" => x[1] = Dot /\ x[Len(x)] # Star
  /\ k = "exact" => x[1] # Dot /\ x[1] # Star /\ x[1] # Hash /\ x[Len(x)] # Star

\* The kind and the text of a word, before it is turned into lower case.
LEMMA ClassifiedIs ==
  ASSUME NEW w \in ListWords
  PROVE  \E k, t :
           /\ Classified(w) = [kind |-> k, text |-> ascii_tolower(t)]
           /\ \/ w[1] = Hash /\ k = "comment" /\ t = <<>>
              \/ w[1] = Star /\ w[Len(w)] = Star /\ k = "substring" /\ t = SubSeq(w, 2, Len(w) - 1)
              \/ /\ w[1] # Hash /\ w[1] # Star /\ w[Len(w)] = Star
                 /\ k = "prefix" /\ t = SubSeq(w, 1, Len(w) - 1)
              \/ w[1] = Star /\ w[Len(w)] # Star /\ k = "suffix" /\ t = Tail(w) /\ t[1] = Dot
              \/ /\ w[1] # Hash /\ w[1] # Star /\ w[Len(w)] # Star /\ t = w
                 /\ k = IF w[1] = Dot THEN "suffix" ELSE "exact"
<1> DEFINE n     == Len(w)
           front == w[1] = Star
           back  == w[n] = Star
           bare  == IF front THEN Tail(w) ELSE w
           kind  == IF w[1] = Hash THEN "comment"
                    ELSE IF front /\ back THEN "substring"
                    ELSE IF back THEN "prefix"
                    ELSE IF bare[1] = Dot THEN "suffix"
                    ELSE "exact"
           text  == CASE kind = "comment"   -> <<>>
                      [] kind = "substring" -> SubSeq(w, 2, n - 1)
                      [] kind = "prefix"    -> SubSeq(w, 1, n - 1)
                      [] OTHER              -> bare
<1>1. Classified(w) = [kind |-> kind, text |-> ascii_tolower(text)]
  BY Zenon DEF Classified
<1>2. w \in Seq(Nat) /\ w # <<>> /\ n \in Nat /\ n > 0 /\ Star # Hash
  <2>1. w \in Seq(Nat) /\ w # <<>>
    BY DEF ListWords, Texts
  <2> QED BY <2>1 DEF Star, Hash
<1>3. front /\ ~back => bare = Tail(w) /\ bare[1] = Dot
  <2> SUFFICES ASSUME front, ~back PROVE Tail(w)[1] = Dot
    OBVIOUS
  <2>1. n > 1
    BY <1>2
  <2>2. w[2] = Dot
    BY <2>1 DEF ListWords
  <2>3. Tail(w)[1] = w[2]
    BY <1>2, <2>1
  <2> QED BY <2>2, <2>3
<1>4. ~front => bare = w
  OBVIOUS
<1>5. /\ w[1] = Hash => kind = "comment"
      /\ w[1] # Hash /\ front /\ back => kind = "substring"
      /\ w[1] # Hash /\ ~front /\ back => kind = "prefix"
      /\ w[1] # Hash /\ ~back => kind = IF bare[1] = Dot THEN "suffix" ELSE "exact"
  <2> HIDE DEF front, back, bare
  <2> QED OBVIOUS
<1> HIDE DEF kind, bare, back
<1>6. /\ kind = "comment" => text = <<>>
      /\ kind = "substring" => text = SubSeq(w, 2, n - 1)
      /\ kind = "prefix" => text = SubSeq(w, 1, n - 1)
      /\ kind \in {"suffix", "exact"} => text = bare
  OBVIOUS
<1> HIDE DEF text
<1>7. \/ w[1] = Hash /\ kind = "comment" /\ text = <<>>
      \/ w[1] = Star /\ w[n] = Star /\ kind = "substring" /\ text = SubSeq(w, 2, n - 1)
      \/ w[1] # Hash /\ w[1] # Star /\ w[n] = Star /\ kind = "prefix" /\ text = SubSeq(w, 1, n - 1)
      \/ w[1] = Star /\ w[n] # Star /\ kind = "suffix" /\ text = Tail(w) /\ text[1] = Dot
      \/ /\ w[1] # Hash /\ w[1] # Star /\ w[n] # Star /\ text = w
         /\ kind = IF w[1] = Dot THEN "suffix" ELSE "exact"
  <2> HIDE DEF n
  <2>1. CASE w[1] = Hash
    BY <1>5, <1>6, <2>1
  <2>2. CASE w[1] # Hash /\ front /\ back
    BY <1>5, <1>6, <2>2 DEF back
  <2>3. CASE w[1] # Hash /\ ~front /\ back
    BY <1>5, <1>6, <2>3 DEF back
  <2>4. CASE w[1] # Hash /\ front /\ ~back
    <3>1. kind = "suffix" /\ text = Tail(w) /\ text[1] = Dot
      BY <1>3, <1>5, <1>6, <2>4
    <3> QED BY <2>4, <3>1 DEF back
  <2>5. CASE w[1] # Hash /\ ~front /\ ~back
    <3>1. text = w /\ kind = IF w[1] = Dot THEN "suffix" ELSE "exact"
      BY <1>4, <1>5, <1>6, <2>5
    <3> QED BY <2>5, <3>1 DEF back
  <2> QED BY <2>1, <2>2, <2>3, <2>4, <2>5
<1> QED BY <1>1, <1>7 DEF n

\* The text of a word of a file is printable.
LEMMA ReadIsPrintable ==
  ASSUME NEW w \in ListWords, Classified(w).text # <<>>
  PROVE  /\ Classified(w).kind \in {"exact", "suffix", "prefix", "substring"}
         /\ Printable(Classified(w).kind, Classified(w).text)
<1>1. PICK k, t :
        /\ Classified(w) = [kind |-> k, text |-> ascii_tolower(t)]
        /\ \/ w[1] = Hash /\ k = "comment" /\ t = <<>>
           \/ w[1] = Star /\ w[Len(w)] = Star /\ k = "substring" /\ t = SubSeq(w, 2, Len(w) - 1)
           \/ /\ w[1] # Hash /\ w[1] # Star /\ w[Len(w)] = Star
              /\ k = "prefix" /\ t = SubSeq(w, 1, Len(w) - 1)
           \/ w[1] = Star /\ w[Len(w)] # Star /\ k = "suffix" /\ t = Tail(w) /\ t[1] = Dot
           \/ /\ w[1] # Hash /\ w[1] # Star /\ w[Len(w)] # Star /\ t = w
              /\ k = IF w[1] = Dot THEN "suffix" ELSE "exact"
  BY ClassifiedIs
<1> DEFINE x == ascii_tolower(t)
<1>2. Classified(w).kind = k /\ Classified(w).text = x
  <2> HIDE DEF x
  <2> QED BY <1>1 DEF x
<1>3. w \in Seq(Nat) /\ w # <<>> /\ Len(w) \in Nat /\ Len(w) > 0
  <2>1. w \in Seq(Nat) /\ w # <<>>
    BY DEF ListWords, Texts
  <2> QED BY <2>1
<1>4. /\ SubSeq(w, 2, Len(w) - 1) \in Seq(Nat) /\ SubSeq(w, 1, Len(w) - 1) \in Seq(Nat)
      /\ Len(SubSeq(w, 1, Len(w) - 1)) = Len(w) - 1
      /\ Len(w) > 1 => SubSeq(w, 1, Len(w) - 1)[1] = w[1]
  <2> DEFINE m == Len(w) - 1
  <2>1. m \in Int /\ m >= 0 /\ (\A i \in 2..m : w[i] \in Nat) /\ (\A i \in 1..m : w[i] \in Nat)
    BY <1>3
  <2>2. m = Len(w) - 1
    OBVIOUS
  <2> HIDE DEF m
  <2>3. SubSeq(w, 2, m) \in Seq(Nat) /\ SubSeq(w, 1, m) \in Seq(Nat)
    BY <2>1, SubSeqProperties
  <2>4. Len(SubSeq(w, 1, m)) = m /\ \A i \in 1..m : SubSeq(w, 1, m)[i] = w[i]
    BY <2>1
  <2>5. m >= 1 => SubSeq(w, 1, m)[1] = w[1]
    BY <2>1, <2>4
  <2>6. Len(w) > 1 => m >= 1
    BY <1>3, <2>2
  <2> QED BY <2>2, <2>3, <2>4, <2>5, <2>6
<1>5. t \in Texts
  <2>1. Tail(w) \in Seq(Nat) /\ <<>> \in Seq(Nat)
    BY <1>3
  <2> QED BY <1>1, <1>3, <1>4, <2>1, Zenon DEF Texts
<1>6. /\ x \in Texts /\ Len(x) = Len(t) /\ ascii_tolower(x) = x
      /\ \A i \in 1..Len(t) : /\ x[i] = Star <=> t[i] = Star
                              /\ x[i] = Hash <=> t[i] = Hash
                              /\ x[i] = Dot <=> t[i] = Dot
  BY <1>5, LowerKeeps
<1> HIDE DEF x
<1>7. x # <<>> /\ Len(t) \in Nat /\ Len(t) > 0 /\ t # <<>> /\ 1 \in 1..Len(t) /\ Len(t) \in 1..Len(t)
  BY <1>2, <1>5, <1>6 DEF Texts
<1>8. CASE k = "substring"
  BY <1>2, <1>6, <1>7, <1>8 DEF Printable
<1>9. CASE k = "prefix"
  <2>1. t = SubSeq(w, 1, Len(w) - 1) /\ w[1] # Hash /\ w[1] # Star
    BY <1>1, <1>9
  <2>2. t[1] = w[1]
    <3>1. Len(w) - 1 > 0
      BY <1>4, <1>7, <2>1
    <3>2. Len(w) > 1
      BY <1>3, <3>1
    <3> QED BY <1>4, <2>1, <3>2
  <2> QED BY <1>2, <1>6, <1>7, <1>9, <2>1, <2>2 DEF Printable
<1>10. CASE k = "suffix"
  <2>1. t[1] = Dot /\ t[Len(t)] # Star
    <3>1. CASE t = Tail(w) /\ t[1] = Dot /\ w[Len(w)] # Star
      <4>1. Len(t) = Len(w) - 1 /\ (Len(w) > 1 => t[Len(w) - 1] = w[Len(w)])
        BY <1>3, <3>1
      <4> QED BY <1>3, <1>7, <3>1, <4>1
    <3>2. CASE t = w /\ w[Len(w)] # Star /\ w[1] = Dot
      BY <3>2
    <3> QED BY <1>1, <1>10, <3>1, <3>2
  <2> QED BY <1>2, <1>6, <1>7, <1>10, <2>1 DEF Printable
<1>11. CASE k = "exact"
  <2>1. t = w /\ w[1] # Hash /\ w[1] # Star /\ w[Len(w)] # Star /\ w[1] # Dot
    BY <1>1, <1>11
  <2> QED BY <1>2, <1>6, <1>7, <1>11, <2>1 DEF Printable
<1>12. k # "comment"
  BY <1>1, <1>7
<1> QED BY <1>1, <1>2, <1>8, <1>9, <1>10, <1>11, <1>12

\* The word that is printed for a text of kind k.
WordFor(k, x) ==
  IF k = "substring" THEN <<Star>> \o x \o <<Star>>
  ELSE IF k = "prefix" THEN Append(x, Star)
  ELSE x

LEMMA StarredText ==
  ASSUME NEW x \in Texts, NEW w, w = <<Star>> \o x \o <<Star>>
  PROVE  /\ w \in Texts /\ Len(w) = Len(x) + 2 /\ w[1] = Star /\ w[Len(w)] = Star
         /\ SubSeq(w, 2, Len(w) - 1) = x
<1>1. x \in Seq(Nat) /\ Len(x) \in Nat /\ Star \in Nat
  BY DEF Texts, Star
<1> DEFINE n == Len(x)
           v == <<Star>> \o x
<1>2. v \in Seq(Nat) /\ Len(v) = n + 1 /\ v[1] = Star /\ \A i \in 1..n : v[i + 1] = x[i]
  BY <1>1
<1> HIDE DEF v
<1>3. w = Append(v, Star)
  BY <1>1, <1>2 DEF v
<1>4. w \in Seq(Nat) /\ Len(w) = n + 2 /\ w[n + 2] = Star /\ \A i \in 1..(n + 1) : w[i] = v[i]
  <2> DEFINE u == Append(v, Star)
  <2>1. /\ u \in Seq(Nat) /\ Len(u) = Len(v) + 1 /\ u[Len(v) + 1] = Star
        /\ \A i \in 1..Len(v) : u[i] = v[i]
    BY <1>1, <1>2, AppendProperties
  <2>2. n \in Nat /\ (n + 1) + 1 = n + 2
    BY <1>1
  <2> HIDE DEF n, u
  <2> QED BY <1>2, <1>3, <2>1, <2>2 DEF u
<1>5. w[1] = Star /\ \A i \in 1..n : w[i + 1] = x[i]
  BY <1>1, <1>2, <1>4
<1>6. SubSeq(w, 2, n + 1) = x
  <2>1. \A i \in 2..(n + 1) : w[i] \in Nat
    BY <1>1, <1>4
  <2>2. /\ SubSeq(w, 2, n + 1) \in Seq(Nat)
        /\ Len(SubSeq(w, 2, n + 1)) = IF 2 <= n + 1 THEN (n + 1) - 2 + 1 ELSE 0
        /\ \A i \in 1..((n + 1) - 2 + 1) : SubSeq(w, 2, n + 1)[i] = w[2 + i - 1]
    BY <1>1, <2>1, SubSeqProperties
  <2> DEFINE u == SubSeq(w, 2, n + 1)
  <2> HIDE DEF u
  <2>3. u \in Seq(Nat) /\ Len(u) = n /\ \A i \in 1..n : u[i] = w[i + 1]
    BY <1>1, <2>2 DEF u
  <2>4. \A i \in 1..n : u[i] = x[i]
    BY <1>5, <2>3
  <2>5. u = x
    BY <1>1, <2>3, <2>4, SeqEqual
  <2> QED BY <2>5 DEF u
<1>7. Len(w) - 1 = n + 1 /\ Len(w) = n + 2
  BY <1>1, <1>4
<1>8. w[Len(w)] = Star
  BY <1>4, <1>7
<1> QED BY <1>4, <1>5, <1>6, <1>7, <1>8 DEF Texts

\* The constructor makes of a printed word the text it was printed from.
LEMMA PrintedIsRead ==
  ASSUME NEW k \in {"exact", "suffix", "prefix", "substring"}, NEW x, Printable(k, x)
  PROVE  WordFor(k, x) \in ListWords /\ Classified(WordFor(k, x)) = [kind |-> k, text |-> x]
<1> DEFINE w == WordFor(k, x)
<1>1. x \in Texts /\ x # <<>> /\ ascii_tolower(x) = x /\ Len(x) \in Nat /\ Len(x) > 0
  <2>1. x \in Texts /\ x # <<>> /\ ascii_tolower(x) = x
    BY DEF Printable
  <2> QED BY <2>1 DEF Texts
<1>2. Dot # Star /\ Dot # Hash /\ Star # Hash /\ Star \in Nat
  BY DEF Dot, Star, Hash
<1>3. CASE k = "substring"
  <2>1. w = <<Star>> \o x \o <<Star>>
    BY <1>3 DEF WordFor
  <2> HIDE DEF w
  <2>2. /\ w \in Texts /\ Len(w) = Len(x) + 2 /\ w[1] = Star /\ w[Len(w)] = Star
        /\ SubSeq(w, 2, Len(w) - 1) = x
    BY <1>1, <2>1, StarredText
  <2>3. w # <<>>
    BY <1>1, <2>2 DEF Texts
  <2>4. w \in ListWords
    BY <2>2, <2>3 DEF ListWords
  <2>5. Classified(w) = [kind |-> "substring", text |-> ascii_tolower(x)]
    BY <1>2, <2>2, <2>4, ClassifiedIs, Zenon
  <2> QED BY <1>1, <1>3, <2>4, <2>5 DEF w
<1>4. CASE k = "prefix"
  <2>1. w = Append(x, Star) /\ x[1] # Star /\ x[1] # Hash
    BY <1>4 DEF WordFor, Printable
  <2> HIDE DEF w
  <2>2. /\ w \in Texts /\ Len(w) = Len(x) + 1 /\ w[1] = x[1] /\ w[Len(w)] = Star
        /\ SubSeq(w, 1, Len(w) - 1) = x
    <3>1. w \in Seq(Nat) /\ Len(w) = Len(x) + 1 /\ w[1] = x[1] /\ w[Len(x) + 1] = Star
      BY <1>1, <1>2, <2>1 DEF Texts
    <3>2. SubSeq(w, 1, Len(x)) = x
      BY <1>1, <1>2, <2>1 DEF Texts
    <3>3. Len(w) - 1 = Len(x)
      BY <1>1, <3>1
    <3> QED BY <3>1, <3>2, <3>3 DEF Texts
  <2>3. w # <<>> /\ w[1] # Star /\ w[1] # Hash
    BY <1>1, <2>1, <2>2 DEF Texts
  <2>4. w \in ListWords
    BY <2>2, <2>3 DEF ListWords
  <2>5. Classified(w) = [kind |-> "prefix", text |-> ascii_tolower(x)]
    BY <2>2, <2>3, <2>4, ClassifiedIs, Zenon
  <2> QED BY <1>1, <1>4, <2>4, <2>5 DEF w
<1>5. CASE k \in {"suffix", "exact"}
  <2>1. /\ w = x /\ x[Len(x)] # Star /\ x[1] # Star /\ x[1] # Hash
        /\ k = IF x[1] = Dot THEN "suffix" ELSE "exact"
    BY <1>2, <1>5 DEF WordFor, Printable
  <2> HIDE DEF w
  <2>2. w \in ListWords
    BY <1>1, <2>1 DEF ListWords
  <2>3. Classified(w) = [kind |-> k, text |-> ascii_tolower(x)]
    BY <2>1, <2>2, ClassifiedIs, Zenon
  <2> QED BY <1>1, <2>2, <2>3 DEF w
<1> QED BY <1>3, <1>4, <1>5

\* SetToSeq lists a finite set.
LEMMA SetListed ==
  ASSUME NEW S, IsFiniteSet(S)
  PROVE  SetToSeq(S) \in Seq(S) /\ \A x \in S : \E i \in 1..Len(SetToSeq(S)) : SetToSeq(S)[i] = x
<1> DEFINE n == Cardinality(S)
           f == SetToSeq(S)
<1>1. n \in Nat /\ ExistsBijection(1..n, S)
  BY FS_CardinalityType
<1>2. \E g \in [1..n -> S] : IsInjective(g)
  BY <1>1 DEF ExistsBijection, Bijection, Injection, IsInjective
<1>3. f \in [1..n -> S] /\ IsInjective(f)
  BY <1>2, Zenon DEF SetToSeq
<1> HIDE DEF f
<1>4. f \in Injection(1..n, S)
  BY <1>3 DEF Injection, IsInjective
<1>5. IsFiniteSet(1..n) /\ Cardinality(1..n) = n
  BY <1>1, FS_Interval
<1>6. f \in Surjection(1..n, S)
  BY <1>4, <1>5, FS_Injection
<1>7. f \in Seq(S) /\ Len(f) = n
  BY <1>1, <1>3
<1> QED BY <1>6, <1>7 DEF Surjection, f

\* The elements of a sequence.
Elements(s) == {s[i] : i \in 1..Len(s)}

LEMMA ListedElements ==
  ASSUME NEW S, IsFiniteSet(S)
  PROVE  SetToSeq(S) \in Seq(S) /\ Elements(SetToSeq(S)) = S
<1>1. SetToSeq(S) \in Seq(S) /\ \A x \in S : \E i \in 1..Len(SetToSeq(S)) : SetToSeq(S)[i] = x
  BY SetListed
<1> QED BY <1>1 DEF Elements

LEMMA JoinedElements ==
  ASSUME NEW S, NEW s \in Seq(S), NEW t \in Seq(S)
  PROVE  s \o t \in Seq(S) /\ Elements(s \o t) = Elements(s) \cup Elements(t)
<1> DEFINE m == Len(s)
           n == Len(t)
           j == s \o t
<1>1. /\ m \in Nat /\ n \in Nat /\ j \in Seq(S) /\ Len(j) = m + n
      /\ \A i \in 1..(m + n) : j[i] = IF i <= m THEN s[i] ELSE t[i - m]
  BY ConcatProperties
<1>2. \A i \in 1..m : i \in 1..(m + n) /\ j[i] = s[i]
  BY <1>1
<1>3. \A i \in 1..n : m + i \in 1..(m + n) /\ j[m + i] = t[i]
  BY <1>1
<1>4. \A i \in 1..(m + n) : (i \in 1..m /\ j[i] = s[i]) \/ (i - m \in 1..n /\ j[i] = t[i - m])
  BY <1>1
<1> HIDE DEF j
<1>5. ASSUME NEW x PROVE x \in Elements(j) <=> x \in Elements(s) \/ x \in Elements(t)
  <2>1. x \in Elements(j) => x \in Elements(s) \/ x \in Elements(t)
    BY <1>1, <1>4 DEF Elements
  <2>2. x \in Elements(s) => x \in Elements(j)
    BY <1>1, <1>2 DEF Elements
  <2>3. ASSUME x \in Elements(t) PROVE x \in Elements(j)
    <3>1. PICK i \in 1..n : x = t[i]
      BY <2>3 DEF Elements
    <3>2. m + i \in 1..(m + n) /\ j[m + i] = x
      BY <1>3, <3>1
    <3> QED BY <1>1, <3>2, Zenon DEF Elements
  <2> QED BY <2>1, <2>2, <2>3
<1> QED BY <1>1, <1>5 DEF j

\* All texts of a filter can be printed, and there are finitely many.
AllPrintable(f) ==
  /\ \A x \in f.substrings : Printable("substring", x)
  /\ \A x \in f.prefix : Printable("prefix", x)
  /\ \A x \in f.suffix : Printable("suffix", x)
  /\ \A x \in f.exact : Printable("exact", x)
  /\ IsFiniteSet(f.exact)

Printed(k, S) == {WordFor(k, x) : x \in S}

PrintedWords(f) ==
  Printed("substring", f.substrings) \cup Printed("prefix", f.prefix)
    \cup Printed("suffix", f.suffix) \cup Printed("exact", f.exact)

\* The words that `write' prints, in whatever order.
LEMMA WriteWords ==
  ASSUME NEW f, Good(f), AllPrintable(f)
  PROVE  write(f) \in Seq(ListWords) /\ Elements(write(f)) = PrintedWords(f)
<1> DEFINE A == Printed("substring", f.substrings)
           B == Printed("prefix", f.prefix)
           C == Printed("suffix", f.suffix)
           D == Printed("exact", f.exact)
<1>1. /\ A = {<<Star>> \o s \o <<Star>> : s \in f.substrings}
      /\ B = {Append(s, Star) : s \in f.prefix}
      /\ C = f.suffix /\ D = f.exact
  BY DEF Printed, WordFor
<1>2. write(f) = ((SetToSeq(A) \o SetToSeq(B)) \o SetToSeq(C)) \o SetToSeq(D)
  BY <1>1, Zenon DEF write
<1>3. A \in SUBSET ListWords /\ B \in SUBSET ListWords /\ C \in SUBSET ListWords /\ D \in SUBSET ListWords
  BY PrintedIsRead DEF AllPrintable, Printed
<1>4. IsFiniteSet(A) /\ IsFiniteSet(B) /\ IsFiniteSet(C) /\ IsFiniteSet(D)
  <2>1. /\ IsFiniteSet(f.substrings) /\ IsFiniteSet(f.prefix)
        /\ IsFiniteSet(f.suffix) /\ IsFiniteSet(f.exact)
    BY DEF Good, Ordered, Separate, AllPrintable
  <2>2. ASSUME NEW k, NEW S, IsFiniteSet(S) PROVE IsFiniteSet(Printed(k, S))
    <3> DEFINE g == [x \in S |-> WordFor(k, x)]
    <3>1. g \in Surjection(S, Printed(k, S))
      BY DEF Surjection, Printed
    <3> QED BY <2>2, <3>1, FS_Surjection
  <2> QED BY <2>1, <2>2
<1> HIDE DEF A, B, C, D
<1>5. ASSUME NEW S, S \in SUBSET ListWords, IsFiniteSet(S)
      PROVE  SetToSeq(S) \in Seq(ListWords) /\ Elements(SetToSeq(S)) = S
  <2>1. SetToSeq(S) \in Seq(S) /\ Elements(SetToSeq(S)) = S
    BY <1>5, ListedElements
  <2>2. SetToSeq(S) \in Seq(ListWords)
    BY <1>5, <2>1, SeqMonotonic
  <2> QED BY <2>1, <2>2
<1> DEFINE a == SetToSeq(A)
           b == SetToSeq(B)
           c == SetToSeq(C)
           d == SetToSeq(D)
<1>6. /\ a \in Seq(ListWords) /\ Elements(a) = A
      /\ b \in Seq(ListWords) /\ Elements(b) = B
      /\ c \in Seq(ListWords) /\ Elements(c) = C
      /\ d \in Seq(ListWords) /\ Elements(d) = D
  BY <1>3, <1>4, <1>5
<1>7. write(f) = ((a \o b) \o c) \o d
  BY <1>2
<1> HIDE DEF a, b, c, d
<1>8. a \o b \in Seq(ListWords) /\ Elements(a \o b) = A \cup B
  BY <1>6, JoinedElements
<1>9. (a \o b) \o c \in Seq(ListWords) /\ Elements((a \o b) \o c) = A \cup B \cup C
  <2> DEFINE e == a \o b
  <2>0. e \in Seq(ListWords) /\ Elements(e) = A \cup B
    BY <1>8
  <2> HIDE DEF e
  <2>1. e \o c \in Seq(ListWords) /\ Elements(e \o c) = A \cup B \cup C
    BY <1>6, <2>0, JoinedElements
  <2> QED BY <2>1 DEF e
<1>10. /\ ((a \o b) \o c) \o d \in Seq(ListWords)
       /\ Elements(((a \o b) \o c) \o d) = A \cup B \cup C \cup D
  <2> DEFINE e == (a \o b) \o c
  <2>0. e \in Seq(ListWords) /\ Elements(e) = A \cup B \cup C
    BY <1>9
  <2> HIDE DEF e
  <2>1. e \o d \in Seq(ListWords) /\ Elements(e \o d) = A \cup B \cup C \cup D
    BY <1>6, <2>0, JoinedElements
  <2> QED BY <2>1 DEF e
<1> QED BY <1>7, <1>10, Zenon DEF PrintedWords, A, B, C, D

\* Their texts are those of the filter.
LEMMA PrintedTexts ==
  ASSUME NEW f, AllPrintable(f)
  PROVE  /\ PrintedWords(f) \in SUBSET ListWords
         /\ TextsOf(PrintedWords(f), "substring") = f.substrings
         /\ TextsOf(PrintedWords(f), "prefix") = f.prefix
         /\ TextsOf(PrintedWords(f), "suffix") = f.suffix
         /\ TextsOf(PrintedWords(f), "exact") = f.exact
<1> DEFINE K == {"exact", "suffix", "prefix", "substring"}
<1>1. ASSUME NEW k \in K, NEW S, \A x \in S : Printable(k, x)
      PROVE  /\ Printed(k, S) \in SUBSET ListWords
             /\ \A j : TextsOf(Printed(k, S), j) = IF j = k THEN S ELSE {}
  <2>1. \A x \in S : /\ WordFor(k, x) \in ListWords
                     /\ Classified(WordFor(k, x)) = [kind |-> k, text |-> x] /\ x # <<>>
    BY <1>1, PrintedIsRead DEF Printable
  <2>2. \A x \in S : /\ Classified(WordFor(k, x)).kind = k /\ Classified(WordFor(k, x)).text = x
                     /\ x # <<>>
    BY <2>1
  <2>3. ASSUME NEW j, NEW y
        PROVE  y \in TextsOf(Printed(k, S), j) <=> j = k /\ y \in S
    <3>1. y \in TextsOf(Printed(k, S), j) <=>
            \E w \in Printed(k, S) : /\ Classified(w).kind = j /\ Classified(w).text # <<>>
                                     /\ y = Classified(w).text
      BY TextsOfMeans
    <3>2. y \in TextsOf(Printed(k, S), j) <=>
            \E x \in S : /\ Classified(WordFor(k, x)).kind = j /\ Classified(WordFor(k, x)).text # <<>>
                         /\ y = Classified(WordFor(k, x)).text
      BY <3>1, Zenon DEF Printed
    <3> QED BY <2>2, <3>2, Zenon
  <2>4. \A j : TextsOf(Printed(k, S), j) = IF j = k THEN S ELSE {}
    BY <2>3
  <2>5. Printed(k, S) \in SUBSET ListWords
    BY <2>1 DEF Printed
  <2> QED BY <2>4, <2>5
<1> DEFINE A == Printed("substring", f.substrings)
           B == Printed("prefix", f.prefix)
           C == Printed("suffix", f.suffix)
           D == Printed("exact", f.exact)
<1>2. /\ A \in SUBSET ListWords /\ \A j : TextsOf(A, j) = IF j = "substring" THEN f.substrings ELSE {}
      /\ B \in SUBSET ListWords /\ \A j : TextsOf(B, j) = IF j = "prefix" THEN f.prefix ELSE {}
      /\ C \in SUBSET ListWords /\ \A j : TextsOf(C, j) = IF j = "suffix" THEN f.suffix ELSE {}
      /\ D \in SUBSET ListWords /\ \A j : TextsOf(D, j) = IF j = "exact" THEN f.exact ELSE {}
  BY <1>1 DEF AllPrintable
<1> HIDE DEF A, B, C, D
<1>3. ASSUME NEW j
      PROVE  TextsOf(((A \cup B) \cup C) \cup D, j)
               = ((TextsOf(A, j) \cup TextsOf(B, j)) \cup TextsOf(C, j)) \cup TextsOf(D, j)
  <2>1. TextsOf(A \cup B, j) = TextsOf(A, j) \cup TextsOf(B, j)
    BY TextsOfUnion
  <2>2. TextsOf((A \cup B) \cup C, j) = TextsOf(A \cup B, j) \cup TextsOf(C, j)
    BY TextsOfUnion
  <2>3. TextsOf(((A \cup B) \cup C) \cup D, j) = TextsOf((A \cup B) \cup C, j) \cup TextsOf(D, j)
    BY TextsOfUnion
  <2> QED BY <2>1, <2>2, <2>3, Zenon
<1>4. PrintedWords(f) = ((A \cup B) \cup C) \cup D
  BY Zenon DEF PrintedWords, A, B, C, D
<1>5. /\ TextsOf(PrintedWords(f), "substring") = f.substrings
      /\ TextsOf(PrintedWords(f), "prefix") = f.prefix
      /\ TextsOf(PrintedWords(f), "suffix") = f.suffix
      /\ TextsOf(PrintedWords(f), "exact") = f.exact
  <2>1. TextsOf(PrintedWords(f), "substring") = f.substrings
    <3>1. /\ TextsOf(A, "substring") = f.substrings
          /\ TextsOf(B, "substring") = {}
          /\ TextsOf(C, "substring") = {}
          /\ TextsOf(D, "substring") = {}
      BY <1>2
    <3>2. TextsOf(PrintedWords(f), "substring") = ((TextsOf(A, "substring") \cup TextsOf(B, "substring"))
                                              \cup TextsOf(C, "substring")) \cup TextsOf(D, "substring")
      BY <1>3, <1>4, Zenon
    <3> QED BY <3>1, <3>2
  <2>2. TextsOf(PrintedWords(f), "prefix") = f.prefix
    <3>1. /\ TextsOf(A, "prefix") = {}
          /\ TextsOf(B, "prefix") = f.prefix
          /\ TextsOf(C, "prefix") = {}
          /\ TextsOf(D, "prefix") = {}
      BY <1>2
    <3>2. TextsOf(PrintedWords(f), "prefix") = ((TextsOf(A, "prefix") \cup TextsOf(B, "prefix"))
                                              \cup TextsOf(C, "prefix")) \cup TextsOf(D, "prefix")
      BY <1>3, <1>4, Zenon
    <3> QED BY <3>1, <3>2
  <2>3. TextsOf(PrintedWords(f), "suffix") = f.suffix
    <3>1. /\ TextsOf(A, "suffix") = {}
          /\ TextsOf(B, "suffix") = {}
          /\ TextsOf(C, "suffix") = f.suffix
          /\ TextsOf(D, "suffix") = {}
      BY <1>2
    <3>2. TextsOf(PrintedWords(f), "suffix") = ((TextsOf(A, "suffix") \cup TextsOf(B, "suffix"))
                                              \cup TextsOf(C, "suffix")) \cup TextsOf(D, "suffix")
      BY <1>3, <1>4, Zenon
    <3> QED BY <3>1, <3>2
  <2>4. TextsOf(PrintedWords(f), "exact") = f.exact
    <3>1. /\ TextsOf(A, "exact") = {}
          /\ TextsOf(B, "exact") = {}
          /\ TextsOf(C, "exact") = {}
          /\ TextsOf(D, "exact") = f.exact
      BY <1>2
    <3>2. TextsOf(PrintedWords(f), "exact") = ((TextsOf(A, "exact") \cup TextsOf(B, "exact"))
                                              \cup TextsOf(C, "exact")) \cup TextsOf(D, "exact")
      BY <1>3, <1>4, Zenon
    <3> QED BY <3>1, <3>2
  <2> QED BY <2>1, <2>2, <2>3, <2>4
<1> QED BY <1>2, <1>4, <1>5

\* The needed words are needed among themselves.
LEMMA NeededStay ==
  ASSUME NEW f, NEW words, NeededWords(f, words), NEW own,
         TextsOf(own, "substring") = f.substrings, TextsOf(own, "prefix") = f.prefix,
         TextsOf(own, "suffix") = f.suffix, TextsOf(own, "exact") = f.exact
  PROVE  NeededWords(f, own)
<1>1. \A R, A : MinOf(R, MinOf(R, A)) = MinOf(R, A)
  BY DEF MinOf
<1>2. \A cmp, A, S : Needed(cmp, Needed(cmp, A, S), S) = Needed(cmp, A, S)
  BY DEF Needed, MinOf
<1>3. \A cmp, A, S : Needed(cmp, A, S) \in SUBSET A
  BY DEF Needed, MinOf
<1>4. ASSUME NEW s PROVE s \in f.exact <=> NeededName(own, f.substrings, s)
  <2>1. s \in f.exact <=> NeededName(words, f.substrings, s)
    BY DEF NeededWords
  <2>2. /\ f.suffix \in SUBSET TextsOf(words, "suffix")
        /\ f.prefix \in SUBSET TextsOf(words, "prefix")
    BY <1>3 DEF NeededWords
  <2>3. s \in f.exact =>
          /\ ~Covered("rev_comp", f.suffix, FrontDot(s)) /\ ~Covered("comp", f.prefix, BackDot(s))
          /\ ~substr_match(f.substrings, BackDot(FrontDot(s)))
    BY <2>1, <2>2 DEF NeededName, Covered
  <2> QED BY <2>3 DEF NeededName
<1> QED BY <1>1, <1>2, <1>4 DEF NeededWords

\* The needed words make one filter.
LEMMA NeededDetermine ==
  ASSUME NEW words, NEW f, NEW g, Good(f), Good(g), NeededWords(f, words), NeededWords(g, words)
  PROVE  f = g
<1>1. /\ f.substrings = g.substrings /\ f.suffix = g.suffix /\ f.prefix = g.prefix
      /\ f.exact = g.exact
  BY DEF NeededWords
<1>2. /\ f = [prefix |-> f.prefix, suffix |-> f.suffix,
              substrings |-> f.substrings, exact |-> f.exact]
      /\ g = [prefix |-> g.prefix, suffix |-> g.suffix,
              substrings |-> g.substrings, exact |-> g.exact]
  BY DEF Good
<1> QED BY <1>1, <1>2

\* Finitely many words were read.
FewRead == IsFiniteSet(read) /\ IsFiniteSet(reading)

LEMMA FewAreRead == Spec => []FewRead
<1>1. Init => FewRead
  BY FS_EmptySet DEF Init, FewRead
<1>2. FewRead /\ [Next]_vars => FewRead'
  <2> SUFFICES ASSUME FewRead, [Next]_vars PROVE FewRead'
    OBVIOUS
  <2>1. ASSUME NEW w \in FileWords, ReadWord(w) PROVE FewRead'
    BY <2>1, FS_AddElement DEF ReadWord, FewRead
  <2>2. CASE EndOfFile
    BY <2>2, FS_EmptySet, FS_Union DEF EndOfFile, FewRead
  <2>3. CASE UNCHANGED vars
    BY <2>3 DEF vars, FewRead
  <2> QED BY <2>1, <2>2, <2>3 DEF Next
<1> QED BY <1>1, <1>2, PTL DEF Spec

\* The list can be printed.
LEMMA ListPrintable ==
  ASSUME NEW f, NEW words \in SUBSET ListWords, IsFiniteSet(words), NeededWords(f, words)
  PROVE  AllPrintable(f)
<1>1. ASSUME NEW k, NEW x \in TextsOf(words, k) PROVE Printable(k, x)
  <2>1. PICK w \in words :
          Classified(w).kind = k /\ Classified(w).text # <<>> /\ x = Classified(w).text
    BY <1>1, TextsOfMeans
  <2> QED BY <2>1, ReadIsPrintable
<1>2. /\ f.substrings \in SUBSET TextsOf(words, "substring")
      /\ f.suffix \in SUBSET TextsOf(words, "suffix")
      /\ f.prefix \in SUBSET TextsOf(words, "prefix")
      /\ f.exact \in SUBSET TextsOf(words, "exact")
  BY DEF NeededWords, Needed, NeededName, MinOf
<1>3. IsFiniteSet(f.exact)
  <2> DEFINE T == {Classified(w).text : w \in words}
             g == [w \in words |-> Classified(w).text]
  <2>1. g \in Surjection(words, T)
    BY DEF Surjection
  <2>2. IsFiniteSet(T)
    BY <2>1, FS_Surjection
  <2>3. \A x \in f.exact : x \in T
    BY <1>2, TextsOfMeans
  <2> HIDE DEF T
  <2> QED BY <2>2, <2>3, FS_Subset
<1> QED BY <1>1, <1>2, <1>3 DEF AllPrintable

\* filter::write and the constructor: what is printed of a list is read as the
\* same list, in whatever order the constructor walks its unordered set.
THEOREM WriteReadsBackHolds == Spec => []WriteReadsBack
<1>1. Inv /\ CanonInv /\ FewRead => WriteReadsBack
  <2> SUFFICES ASSUME Inv, CanonInv, FewRead PROVE WriteReadsBack
    OBVIOUS
  <2>1. Good(list) /\ read \in SUBSET ListWords /\ IsFiniteSet(read) /\ NeededWords(list, read)
    BY DEF Inv, FilterOf, CanonInv, FewRead
  <2>2. AllPrintable(list)
    BY <2>1, ListPrintable
  <2> DEFINE words == write(list)
             own == PrintedWords(list)
  <2>3. words \in Seq(ListWords) /\ Elements(words) = own
    BY <2>1, <2>2, WriteWords
  <2>4. own \in SUBSET ListWords /\ NeededWords(list, own)
    BY <2>1, <2>2, PrintedTexts, NeededStay
  <2> HIDE DEF words, own
  <2>5. Constructed(words) # {} /\ \A f \in Constructed(words) : Good(f) /\ LeastWords(f, own)
    BY <2>3, ConstructedLeast DEF Elements
  <2>6. \A f \in Constructed(words) : optimize(f) = list
    <3> SUFFICES ASSUME NEW f \in Constructed(words) PROVE optimize(f) = list
      OBVIOUS
    <3>1. Good(f) /\ LeastWords(f, own)
      BY <2>5
    <3>2. NeededWords(optimize(f), own)
      BY <2>4, <3>1, FileNeeded
    <3>3. Good(optimize(f))
      BY <3>1, OptimizeCovers
    <3> QED BY <2>1, <2>4, <3>2, <3>3, NeededDetermine
  <2>7. {optimize(f) : f \in Constructed(words)} = {list}
    BY <2>5, <2>6, Zenon
  <2> QED BY <2>7 DEF WriteReadsBack, words
<1> QED BY <1>1, Invariance, CanonInvariance, FewAreRead, PTL

=============================================================================
