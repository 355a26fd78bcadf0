----------------------------- MODULE CacheProofs -----------------------------
(***************************************************************************)
(* The cache's properties for any questions, ttls, bounds and clock.       *)
(***************************************************************************)
EXTENDS Cache, FiniteSetTheorems, TLAPS

\* The time an answer is kept is bounded by MaxTtl and by its own ttl.
LEMMA LifetimeBounds ==
  ASSUME NEW ttl \in Int
  PROVE  /\ Lifetime(ttl) \in Nat
         /\ Lifetime(ttl) <= MaxTtl
         /\ Lifetime(ttl) <= IF ttl > MinTtl THEN ttl ELSE MinTtl
BY CacheAssumption DEF Lifetime

\* A part of a sound table is sound.
LEMMA SoundKeep ==
  ASSUME NEW e, NEW R, Sound(e, R), NEW S
  PROVE  Sound(Keep(e, S), R) /\ DOMAIN Keep(e, S) = DOMAIN e \cap S
<1>1. DOMAIN Keep(e, S) = DOMAIN e \cap S
  BY DEF Keep
<1>2. IsFiniteSet(DOMAIN e \cap S)
  BY FS_Subset DEF Sound
<1>3. IsTable(Keep(e, S))
  BY DEF Sound, IsTable, Keep
<1>4. \A k \in DOMAIN Keep(e, S) :
        Keep(e, S)[k].deadline = Keep(e, S)[k].got + Lifetime(Keep(e, S)[k].ttl)
  BY DEF Sound, Keep
<1>5. DOMAIN Keep(e, S) \cap Nameless \subseteq R
  BY <1>1 DEF Sound
<1> QED BY <1>1, <1>2, <1>3, <1>4, <1>5 DEF Sound

\* So is the empty one.
LEMMA SoundEmpty == DOMAIN <<>> = {} /\ \A R : Sound(<<>>, R)
<1>1. DOMAIN <<>> = {}
  OBVIOUS
<1> QED BY <1>1, FS_EmptySet DEF Sound, IsTable

\* More roots may have strayed in.
LEMMA SoundMore ==
  ASSUME NEW e, NEW R, NEW T, Sound(e, R), R \subseteq T
  PROVE  Sound(e, T)
BY DEF Sound

\* replace_entry makes a sound table of one, and adds at most its question.
LEMMA SoundReplaced ==
  ASSUME NEW R, Sound(entries, R), now \in Nat, NEW a \in Questions, NEW ttl \in Int,
         {a} \cap Nameless \subseteq R
  PROVE  /\ Sound(Replaced(a, ttl), R)
         /\ DOMAIN Replaced(a, ttl) = DOMAIN entries \cup {a}
<1> DEFINE r == Replaced(a, ttl)
<1>1. DOMAIN r = DOMAIN entries \cup {a}
  BY DEF Replaced
<1>2. IsFiniteSet(DOMAIN entries \cup {a})
  BY FS_AddElement DEF Sound
<1>3. now + Lifetime(ttl) \in Nat
  BY LifetimeBounds
<1>4. /\ r[a] = [got |-> now, ttl |-> ttl, deadline |-> now + Lifetime(ttl)]
      /\ \A k \in DOMAIN entries \ {a} : r[k] = entries[k]
  BY DEF Replaced
<1>5. IsTable(r)
  <2>1. \A k \in DOMAIN r : r[k] \in Entry
    BY <1>1, <1>3, <1>4 DEF Sound, IsTable, Entry
  <2>2. r = [k \in DOMAIN r |-> r[k]]
    BY DEF Replaced
  <2> HIDE DEF r
  <2> QED BY <1>1, <2>1, <2>2 DEF IsTable, Sound
<1>6. \A k \in DOMAIN r : r[k].deadline = r[k].got + Lifetime(r[k].ttl)
  BY <1>1, <1>4 DEF Sound
<1>7. DOMAIN r \cap Nameless \subseteq R
  BY <1>1 DEF Sound
<1> QED BY <1>1, <1>2, <1>5, <1>6, <1>7 DEF Sound

\* A save that stops early leaves a sound table that cannot be taken for a whole one.
LEMMA PartIsNotWhole ==
  ASSUME NEW e, NEW R, Sound(e, R), NEW f \in PartFiles(e)
  PROVE  /\ Sound(f.ents, R)
         /\ f.size \in {-1} \cup Nat
         /\ f.whole \in BOOLEAN
         /\ Cardinality(DOMAIN f.ents) # f.size
<1>1. CASE f = NoFile
  BY <1>1, SoundEmpty, FS_EmptySet DEF NoFile
<1>2. CASE f # NoFile
  <2>1. PICK S \in (SUBSET DOMAIN e) \ {DOMAIN e} :
          f = [size |-> Cardinality(DOMAIN e), ents |-> Keep(e, S), whole |-> FALSE]
    BY <1>2 DEF PartFiles
  <2>2. Sound(Keep(e, S), R) /\ DOMAIN Keep(e, S) = S
    BY <2>1, SoundKeep
  <2>3. Cardinality(DOMAIN e) \in Nat /\ Cardinality(S) # Cardinality(DOMAIN e)
    BY <2>1, FS_CardinalityType, FS_Subset DEF Sound
  <2> QED BY <2>1, <2>2, <2>3
<1> QED BY <1>1, <1>2

-----------------------------------------------------------------------------
\* Counting on by one: the remainder grows by one or wraps around to 0.
LEMMA NextRemainder ==
  ASSUME NEW n \in Nat, NEW d \in Nat \ {0}
  PROVE  /\ n % d \in 0..(d - 1)
         /\ (n + 1) % d = 0 \/ (n + 1) % d = (n % d) + 1
<1>1. n % d \in 0..(d - 1) /\ n = d * (n \div d) + (n % d) /\ n \div d \in Int
  BY Z3
<1>2. (n + 1) % d \in 0..(d - 1) /\ n + 1 = d * ((n + 1) \div d) + ((n + 1) % d)
      /\ (n + 1) \div d \in Int
  BY Z3
<1>3. CASE (n + 1) \div d = n \div d
  BY <1>1, <1>2, <1>3, Z3
<1>4. CASE (n + 1) \div d # n \div d
  <2>1. d * ((n + 1) \div d) - d * (n \div d) <= d
    BY <1>1, <1>2, Z3
  <2>2. (n + 1) \div d >= (n \div d) + 1
    BY <1>1, <1>2, <1>4, Z3
  <2> QED BY <1>1, <1>2, <2>1, <2>2, Z3
<1> QED BY <1>1, <1>3, <1>4

\* Nothing at all is within the remainder.
LEMMA NoneUnsaved ==
  ASSUME NEW e, NEW R, Sound(e, R), NEW X, DOMAIN e \subseteq X
  PROVE  Cardinality(DOMAIN e \ X) <= Cardinality(DOMAIN e) % SaveEvery
<1>1. DOMAIN e \ X = {}
  OBVIOUS
<1>2. Cardinality(DOMAIN e) \in Nat
  BY FS_CardinalityType DEF Sound
<1>3. Cardinality(DOMAIN e) % SaveEvery \in 0..(SaveEvery - 1)
  BY <1>2, NextRemainder, CacheAssumption
<1>4. Cardinality(DOMAIN e \ X) = 0
  BY <1>1, FS_EmptySet
<1> QED BY <1>3, <1>4, CacheAssumption

\* The entries a store leaves are the old ones and at most one more; unless it is
\* time to save, the count of the unsaved ones stays within the remainder.
LEMMA UnsavedAfterStore ==
  ASSUME NEW D, IsFiniteSet(D), NEW X,
         Cardinality(D \ X) <= Cardinality(D) % SaveEvery,
         NEW q, NEW E, E = D \/ E = D \cup {q},
         Cardinality(E) % SaveEvery # 0
  PROVE  Cardinality(E \ X) <= Cardinality(E) % SaveEvery
<1> DEFINE n == Cardinality(D)
           m == Cardinality(D \ X)
<1>1. IsFiniteSet(D \ X) /\ n \in Nat /\ m \in Nat /\ m <= n % SaveEvery
  BY FS_Difference, FS_CardinalityType
<1>2. CASE E = D
  BY <1>1, <1>2
<1>3. CASE E = D \cup {q} /\ q \notin D
  <2>1. Cardinality(D \cup {q}) = n + 1
    BY <1>1, <1>3, FS_AddElement
  <2>2. Cardinality((D \ X) \cup {q}) = m + 1
    BY <1>1, <1>3, FS_AddElement
  <2>3. Cardinality((D \cup {q}) \ X) \in {m, m + 1}
    <3>1. CASE q \in X
      <4>1. (D \cup {q}) \ X = D \ X
        BY <3>1
      <4> QED BY <4>1
    <3>2. CASE q \notin X
      <4>1. (D \cup {q}) \ X = (D \ X) \cup {q}
        BY <3>2
      <4> QED BY <2>2, <4>1
    <3> QED BY <3>1, <3>2
  <2>4. (n + 1) % SaveEvery = (n % SaveEvery) + 1 /\ n % SaveEvery \in Nat
    <3>1. Cardinality(E) = n + 1
      BY <1>3, <2>1
    <3>2. (n + 1) % SaveEvery # 0
      BY <3>1
    <3> HIDE DEF n
    <3>3. n % SaveEvery \in 0..(SaveEvery - 1)
          /\ ((n + 1) % SaveEvery = 0 \/ (n + 1) % SaveEvery = (n % SaveEvery) + 1)
      BY <1>1, NextRemainder, CacheAssumption
    <3> QED BY <3>2, <3>3, CacheAssumption
  <2> HIDE DEF n, m
  <2>5. Cardinality((D \cup {q}) \ X) <= (n + 1) % SaveEvery
    BY <1>1, <2>3, <2>4
  <2> QED BY <1>3, <2>1, <2>5
<1>4. CASE E = D \cup {q} /\ q \in D
  <2>1. E = D
    BY <1>4
  <2> QED BY <1>1, <2>1
<1> QED BY <1>2, <1>3, <1>4

-----------------------------------------------------------------------------
(***************************************************************************)
(* The invariant regrouped: memory, disk, and what was served.             *)
(***************************************************************************)
MemInv == Sound(entries, strayed) /\ asked \subseteq Questions /\ asked \cap Nameless = {}

DiskInv ==
  /\ Sound(file.ents, strayed)
  /\ file.size \in {-1} \cup Nat /\ file.whole \in BOOLEAN
  /\ FileIsSave

FlagInv == up \in BOOLEAN /\ missed \in BOOLEAN /\ strayed \subseteq Questions

ServedInv ==
  /\ \A s \in served : s \in [got : Nat, ttl : Int, at : Nat, given : Nat]
  /\ NeverStale

\* What a save or the end of the process touches.
StoredInv == MemInv /\ DiskInv /\ FlagInv /\ UnsavedCounted

\* The parts make up the invariant.
LEMMA InvParts == Inv <=> now \in Nat /\ StoredInv /\ ServedInv
BY Zenon DEF Inv, TypeOK, Sound, MemInv, DiskInv, FlagInv, ServedInv, StoredInv

\* They do so in the next state too.
LEMMA InvPartsNext == Inv' <=> now' \in Nat /\ StoredInv' /\ ServedInv'
BY Zenon DEF Inv, TypeOK, Sound, MemInv, DiskInv, FlagInv, ServedInv, StoredInv

\* A complete save of a sound table: all of it is in the file, and read again
\* unless an answer about the root strayed into it.
LEMMA SaveDisk ==
  ASSUME NEW e, Sound(e, strayed'), Save(e)
  PROVE  DiskInv' /\ missed' = FALSE /\ (strayed' \cap Nameless = {} => Kept(file)' = e)
<1>1. file' = [size |-> Cardinality(DOMAIN e), ents |-> e, whole |-> TRUE] /\ missed' = FALSE
  BY DEF Save, WholeFile
<1>2. Cardinality(DOMAIN e) \in Nat
  BY FS_CardinalityType DEF Sound
<1>3. DiskInv'
  BY <1>1, <1>2 DEF DiskInv, FileIsSave
<1>4. ASSUME strayed' \cap Nameless = {} PROVE Kept(file)' = e
  <2>1. DOMAIN e \cap Nameless = {}
    BY <1>4 DEF Sound
  <2>2. Loadable(file)'
    BY <1>1, <1>2, <2>1 DEF Loadable
  <2> QED BY <1>1, <2>2 DEF Kept
<1> QED BY <1>1, <1>3, <1>4

\* A save that stops early.
LEMMA PartDisk ==
  ASSUME NEW e, Sound(e, strayed'), file' \in PartFiles(e)
  PROVE  DiskInv'
<1>1. /\ Sound(file'.ents, strayed')
      /\ file'.size \in {-1} \cup Nat
      /\ file'.whole \in BOOLEAN
      /\ Cardinality(DOMAIN file'.ents) # file'.size
  BY PartIsNotWhole
<1> QED BY <1>1 DEF DiskInv, FileIsSave

\* A file that is not written.
LEMMA SameDisk ==
  ASSUME DiskInv, file' = file, strayed \subseteq strayed'
  PROVE  DiskInv'
<1>1. Sound(file.ents, strayed')
  BY SoundMore DEF DiskInv
<1> QED BY <1>1 DEF DiskInv, FileIsSave

\* The end of the process.
LEMMA DownKeeps ==
  ASSUME Down, DiskInv', missed' \in BOOLEAN, strayed' \subseteq Questions
  PROVE  StoredInv'
<1>1. MemInv'
  BY SoundEmpty DEF Down, MemInv
<1>2. UnsavedCounted' /\ FlagInv'
  BY Zenon DEF Down, UnsavedCounted, FlagInv
<1> QED BY <1>1, <1>2, Zenon DEF StoredInv

\* A save that ends the process.
LEMMA SaveDiesKeeps ==
  ASSUME NEW e, Sound(e, strayed'), StoredInv, SaveDies(e),
         strayed \subseteq strayed', strayed' \subseteq Questions
  PROVE  StoredInv'
<1>1. (file' \in PartFiles(e) \/ file' = file) /\ missed' = missed /\ Down
  BY DEF SaveDies
<1>2. DiskInv /\ missed \in BOOLEAN
  BY Zenon DEF StoredInv, FlagInv
<1>3. DiskInv'
  BY <1>1, <1>2, PartDisk, SameDisk
<1>4. missed' \in BOOLEAN
  BY <1>1, <1>2, Zenon
<1> QED BY <1>1, <1>3, <1>4, DownKeeps

\* A save that returns leaves nothing unsaved, or nobody knows.
LEMMA SaveReturnsKeeps ==
  ASSUME NEW e, Sound(e, strayed'), SaveReturns(e)
  PROVE  /\ DiskInv' /\ missed' \in BOOLEAN
         /\ entries' = e => UnsavedCounted'
<1>1. CASE Save(e)
  <2>1. DiskInv' /\ missed' = FALSE /\ (strayed' \cap Nameless = {} => Kept(file)' = e)
    BY <1>1, SaveDisk
  <2>2. ASSUME entries' = e, strayed' \cap Nameless = {}
        PROVE  Cardinality(DOMAIN entries \ DOMAIN Kept(file))'
                 <= (Cardinality(DOMAIN entries) % SaveEvery)'
    <3>1. Cardinality(DOMAIN e \ DOMAIN e) <= Cardinality(DOMAIN e) % SaveEvery
      BY NoneUnsaved
    <3>2. Kept(file)' = e
      BY <2>1, <2>2
    <3> QED BY <2>2, <3>1, <3>2
  <2>3. missed' \in BOOLEAN
    BY <2>1, Zenon
  <2> QED BY <2>1, <2>2, <2>3, Zenon DEF UnsavedCounted
<1>2. CASE SaveMisses(e)
  <2>1. file' \in PartFiles(e) /\ missed' = TRUE
    BY <1>2 DEF SaveMisses
  <2>2. DiskInv'
    BY <2>1, PartDisk
  <2>3. missed' \in BOOLEAN /\ UnsavedCounted'
    BY <2>1, Zenon DEF UnsavedCounted
  <2> QED BY <2>2, <2>3
<1> QED BY <1>1, <1>2 DEF SaveReturns

\* responder::store of a sound table with at most one more question.
LEMMA StoreKeeps ==
  ASSUME StoredInv, up, NEW e, Sound(e, strayed'), NEW q,
         DOMAIN e = DOMAIN entries \/ DOMAIN e = DOMAIN entries \cup {q},
         NEW w, w \subseteq asked, Store(e, w),
         strayed \subseteq strayed', strayed' \subseteq Questions
  PROVE  StoredInv'
<1>0. MemInv /\ DiskInv /\ FlagInv /\ UnsavedCounted
  BY DEF StoredInv
<1>1. ASSUME entries' = e, asked' = w PROVE MemInv'
  BY <1>0, <1>1 DEF MemInv
<1>2. CASE SaveReturns(e) /\ entries' = e /\ asked' = w /\ up' = up
  <2>1. DiskInv' /\ missed' \in BOOLEAN /\ UnsavedCounted'
    BY <1>2, SaveReturnsKeeps
  <2>2. FlagInv'
    BY <1>0, <1>2, <2>1, Zenon DEF FlagInv
  <2> QED BY <1>1, <1>2, <2>1, <2>2, Zenon DEF StoredInv
<1>3. CASE SaveDies(e)
  BY <1>3, SaveDiesKeeps
<1>4. CASE /\ Cardinality(DOMAIN e) % SaveEvery # 0
           /\ entries' = e /\ asked' = w /\ UNCHANGED <<up, file, missed>>
  <2>1. DiskInv'
    BY <1>0, <1>4, SameDisk
  <2>2. ASSUME ~missed, strayed' \cap Nameless = {}
        PROVE  Cardinality(DOMAIN e \ DOMAIN Kept(file)) <= Cardinality(DOMAIN e) % SaveEvery
    <3>1. strayed \cap Nameless = {}
      BY <2>2
    <3>2. Cardinality(DOMAIN entries \ DOMAIN Kept(file))
            <= Cardinality(DOMAIN entries) % SaveEvery
      BY <1>0, <2>2, <3>1, Zenon DEF UnsavedCounted
    <3>3. IsFiniteSet(DOMAIN entries)
      BY <1>0 DEF MemInv, Sound
    <3> QED BY <1>4, <3>2, <3>3, UnsavedAfterStore
  <2>3. Kept(file)' = Kept(file)
    BY <1>4 DEF Kept, Loadable
  <2>4. UnsavedCounted'
    BY <1>4, <2>2, <2>3, Zenon DEF UnsavedCounted
  <2>5. FlagInv'
    BY <1>0, <1>4, Zenon DEF FlagInv
  <2> QED BY <1>1, <1>4, <2>1, <2>4, <2>5, Zenon DEF StoredInv
<1> QED BY <1>2, <1>3, <1>4, Zenon DEF Store

-----------------------------------------------------------------------------
\* An empty cache and no file establish the invariant.
LEMMA InitInv == Init => Inv
<1> SUFFICES ASSUME Init
             PROVE  now \in Nat /\ StoredInv /\ ServedInv
  BY InvParts
<1>1. now \in Nat /\ MemInv
  BY SoundEmpty DEF Init, MemInv
<1>2. FlagInv /\ UnsavedCounted
  BY Zenon DEF Init, UnsavedCounted, FlagInv
<1>3. DiskInv
  BY SoundEmpty, FS_EmptySet DEF Init, DiskInv, FileIsSave, NoFile
<1>4. ServedInv
  BY DEF Init, ServedInv, NeverStale
<1> QED BY <1>1, <1>2, <1>3, <1>4, Zenon DEF StoredInv

\* What cache::retrieve serves is not stale.
LEMMA HitServes ==
  ASSUME Inv, NEW q \in Questions, AskHit(q)
  PROVE  ServedInv'
<1> DEFINE d == entries[q]
<1>1. d \in Entry /\ d.deadline = d.got + Lifetime(d.ttl) /\ now < d.deadline /\ now \in Nat
  BY DEF Inv, TypeOK, Sound, IsTable, AskHit, Hit
<1>2. d.got \in Nat /\ d.ttl \in Int /\ d.deadline \in Nat
  BY <1>1 DEF Entry
<1>3. /\ Lifetime(d.ttl) \in Nat
      /\ Lifetime(d.ttl) <= MaxTtl
      /\ Lifetime(d.ttl) <= IF d.ttl > MinTtl THEN d.ttl ELSE MinTtl
  BY <1>2, LifetimeBounds
<1>4. served' = {[got |-> d.got, ttl |-> d.ttl, at |-> now, given |-> d.deadline - now]}
  BY DEF AskHit
<1> HIDE DEF d
<1> DEFINE g == d.deadline - now
           s == [got |-> d.got, ttl |-> d.ttl, at |-> now, given |-> g]
<1>5. g \in Nat /\ g > 0 /\ now + g = d.deadline
  BY <1>1, <1>2
<1> HIDE DEF g
<1>6. s \in [got : Nat, ttl : Int, at : Nat, given : Nat]
  BY <1>1, <1>2, <1>5
<1>7. /\ s.given > 0
      /\ s.at + s.given <= s.got + MaxTtl
      /\ s.at + s.given <= s.got + (IF s.ttl > MinTtl THEN s.ttl ELSE MinTtl)
  BY <1>1, <1>2, <1>3, <1>5, CacheAssumption
<1>8. served' = {s}
  BY <1>4 DEF g
<1> HIDE DEF s
<1> QED BY <1>6, <1>7, <1>8 DEF ServedInv, NeverStale

\* Every step keeps the invariant.
LEMMA NextInv == Inv /\ [Next]_vars => Inv'
<1> SUFFICES ASSUME Inv, [Next]_vars PROVE Inv'
  OBVIOUS
<1>0. /\ now \in Nat /\ StoredInv /\ ServedInv
      /\ MemInv /\ DiskInv /\ FlagInv /\ UnsavedCounted
  BY InvParts DEF StoredInv
<1>a. ASSUME now' = now, served' = served, StoredInv'
      PROVE  Inv'
  <2>1. ServedInv'
    BY <1>0, <1>a, Zenon DEF ServedInv, NeverStale
  <2> QED BY <1>0, <1>a, <2>1, InvPartsNext, Zenon
<1>b. ASSUME strayed' = strayed
      PROVE  /\ Sound(entries, strayed')
             /\ strayed \subseteq strayed' /\ strayed' \subseteq Questions
  BY <1>0, <1>b DEF MemInv, FlagInv
<1>1. ASSUME Start PROVE Inv'
  <2>1. DiskInv'
    BY <1>0, <1>1, SameDisk DEF Start
  <2>2. FlagInv' /\ strayed' = strayed
    BY <1>0, <1>1, Zenon DEF Start, FlagInv
  <2>3. entries' = Fresh(Kept(file)) /\ Sound(Fresh(Kept(file)), strayed)
        /\ DOMAIN Fresh(Kept(file)) \subseteq DOMAIN Kept(file)
    <3>1. CASE Loadable(file)
      <4>1. Kept(file) = file.ents /\ entries' = Fresh(file.ents)
        BY <1>1, <3>1 DEF Start, Kept
      <4> QED BY <1>0, <4>1, SoundKeep DEF Fresh, DiskInv
    <3>2. CASE ~Loadable(file)
      <4>1. Kept(file) = <<>> /\ entries' = <<>>
        BY <1>1, <3>2 DEF Start, Kept
      <4>2. Fresh(<<>>) = <<>>
        BY SoundEmpty DEF Fresh, Keep
      <4> QED BY <4>1, <4>2, SoundEmpty
    <3> QED BY <3>1, <3>2
  <2>4. MemInv'
    BY <1>0, <1>1, <2>2, <2>3 DEF Start, MemInv
  <2>5. Cardinality(DOMAIN Fresh(Kept(file)) \ DOMAIN Kept(file))
          <= Cardinality(DOMAIN Fresh(Kept(file))) % SaveEvery
    BY <2>3, NoneUnsaved
  <2>6. Kept(file)' = Kept(file)
    BY <1>1 DEF Start, Kept, Loadable
  <2>7. UnsavedCounted'
    BY <2>3, <2>5, <2>6, Zenon DEF UnsavedCounted
  <2>8. StoredInv'
    BY <2>1, <2>2, <2>4, <2>7, Zenon DEF StoredInv
  <2> QED BY <1>1, <1>a, <2>8 DEF Start
<1>2. ASSUME PeriodicSave PROVE Inv'
  <2>0. strayed' = strayed
    BY <1>2 DEF PeriodicSave
  <2>1. CASE SaveReturns(entries) /\ UNCHANGED <<up, entries, asked>>
    <3>1. DiskInv' /\ missed' \in BOOLEAN /\ UnsavedCounted'
      BY <1>b, <2>0, <2>1, SaveReturnsKeeps
    <3>2. MemInv' /\ FlagInv'
      BY <1>0, <2>0, <2>1, <3>1, Zenon DEF MemInv, FlagInv
    <3>3. StoredInv'
      BY <3>1, <3>2, Zenon DEF StoredInv
    <3> QED BY <1>2, <1>a, <3>3 DEF PeriodicSave
  <2>2. CASE SaveDies(entries)
    <3>1. StoredInv'
      BY <1>0, <1>b, <2>0, <2>2, SaveDiesKeeps
    <3> QED BY <1>2, <1>a, <3>1 DEF PeriodicSave
  <2> QED BY <1>2, <2>1, <2>2 DEF PeriodicSave
<1>3. ASSUME Exit PROVE Inv'
  <2>0. strayed' = strayed
    BY <1>3 DEF Exit
  <2>1. CASE SaveReturns(entries) /\ Down
    <3>1. DiskInv' /\ missed' \in BOOLEAN
      BY <1>b, <2>0, <2>1, SaveReturnsKeeps
    <3>2. StoredInv'
      BY <1>b, <2>0, <2>1, <3>1, DownKeeps
    <3> QED BY <1>3, <1>a, <3>2 DEF Exit
  <2>2. CASE SaveDies(entries)
    <3>1. StoredInv'
      BY <1>0, <1>b, <2>0, <2>2, SaveDiesKeeps
    <3> QED BY <1>3, <1>a, <3>1 DEF Exit
  <2> QED BY <1>3, <2>1, <2>2 DEF Exit
<1>4. ASSUME Down, UNCHANGED <<now, file, missed, strayed, served>> PROVE Inv'
  <2>1. DiskInv'
    BY <1>0, <1>4, SameDisk
  <2>2. missed' \in BOOLEAN /\ strayed' \subseteq Questions
    BY <1>0, <1>4, Zenon DEF FlagInv
  <2>3. StoredInv'
    BY <1>4, <2>1, <2>2, DownKeeps
  <2> QED BY <1>4, <1>a, <2>3
<1>5. ASSUME UNCHANGED <<up, entries, file, missed, strayed>>,
             asked' \subseteq Questions /\ asked' \cap Nameless = {},
             now' \in Nat, ServedInv'
      PROVE  Inv'
  <2>1. DiskInv'
    BY <1>0, <1>5, SameDisk
  <2>2. Kept(file)' = Kept(file)
    BY <1>5 DEF Kept, Loadable
  <2>3. UnsavedCounted' /\ FlagInv'
    BY <1>0, <1>5, <2>2, Zenon DEF UnsavedCounted, FlagInv
  <2>4. MemInv'
    BY <1>0, <1>5, Zenon DEF MemInv
  <2>5. StoredInv'
    BY <2>1, <2>3, <2>4, Zenon DEF StoredInv
  <2> QED BY <1>5, <2>5, InvPartsNext, Zenon
<1>6. ASSUME served' = served PROVE ServedInv'
  BY <1>0, <1>6, Zenon DEF ServedInv, NeverStale
<1>7. ASSUME Tick PROVE Inv'
  <2>1. now' \in Nat
    BY <1>0, <1>7 DEF Tick
  <2> QED BY <1>0, <1>5, <1>6, <1>7, <2>1, Zenon DEF Tick, MemInv
<1>8. ASSUME NEW q \in Questions, AskHit(q) PROVE Inv'
  <2>1. ServedInv'
    BY <1>8, HitServes
  <2> QED BY <1>0, <1>5, <1>8, <2>1, Zenon DEF AskHit, MemInv
<1>9. ASSUME NEW q \in Questions, AskMiss(q) PROVE Inv'
  <2>1. CASE q \in HostNames
    <3>1. /\ up /\ Store(Replaced(q, HostsTtl), asked)
          /\ UNCHANGED <<now, strayed, served>>
      BY <1>9, <2>1, Zenon DEF AskMiss
    <3>2. {q} \cap Nameless = {}
      BY <1>9 DEF AskMiss
    <3>3. /\ Sound(Replaced(q, HostsTtl), strayed')
          /\ DOMAIN Replaced(q, HostsTtl) = DOMAIN entries \cup {q}
      BY <1>0, <1>b, <3>1, <3>2, SoundReplaced, CacheAssumption
    <3>4. StoredInv'
      BY <1>0, <1>b, <3>1, <3>3, StoreKeeps
    <3> QED BY <1>a, <3>1, <3>4
  <2>2. CASE q \notin HostNames
    <3>1. /\ asked' = asked \cup {q}
          /\ UNCHANGED <<up, entries, file, missed, strayed, now, served>>
      BY <1>9, <2>2, Zenon DEF AskMiss
    <3>2. asked' \subseteq Questions /\ asked' \cap Nameless = {}
      BY <1>0, <1>9, <3>1 DEF MemInv, AskMiss
    <3> QED BY <1>0, <1>5, <1>6, <3>1, <3>2, Zenon
  <2> QED BY <2>1, <2>2
<1>10. ASSUME NEW q \in Questions, NEW a \in Questions, NEW ttl \in Ttls,
              AnswerStored(q, a, ttl)
       PROVE  Inv'
  <2>1. PICK w \in Waiting(q) : Store(Replaced(a, ttl), w)
    BY <1>10 DEF AnswerStored
  <2>2. /\ w \subseteq asked /\ up /\ UNCHANGED <<now, served>>
        /\ q \notin Nameless /\ strayed' = strayed \cup (({a} \cap Nameless) \ {q})
    BY <1>0, <1>10 DEF Waiting, AnswerStored, MemInv
  <2>3. /\ {a} \cap Nameless \subseteq strayed'
        /\ strayed \subseteq strayed' /\ strayed' \subseteq Questions
    BY <1>0, <2>2 DEF FlagInv
  <2>4. Sound(entries, strayed')
    BY <1>0, <2>3, SoundMore DEF MemInv
  <2>5. /\ Sound(Replaced(a, ttl), strayed')
        /\ DOMAIN Replaced(a, ttl) = DOMAIN entries \cup {a}
    BY <1>0, <2>3, <2>4, SoundReplaced, CacheAssumption
  <2>6. StoredInv'
    BY <1>0, <2>1, <2>2, <2>3, <2>5, StoreKeeps
  <2> QED BY <1>a, <2>2, <2>6
<1>11. ASSUME NEW q \in Questions, AnswerIgnored(q) PROVE Inv'
  <2>1. PICK w \in Waiting(q) : Store(entries, w)
    BY <1>11 DEF AnswerIgnored
  <2>2. w \subseteq asked /\ up /\ UNCHANGED <<now, strayed, served>>
    BY <1>0, <1>11 DEF Waiting, AnswerIgnored
  <2>3. StoredInv'
    BY <1>0, <1>b, <2>1, <2>2, StoreKeeps
  <2> QED BY <1>a, <2>2, <2>3
<1>12. ASSUME NEW q \in Questions, AskRoot(q) PROVE Inv'
  BY <1>4, <1>12 DEF AskRoot
<1>13. ASSUME Crash PROVE Inv'
  BY <1>4, <1>13 DEF Crash
<1>14. CASE UNCHANGED vars
  BY <1>0, <1>5, <1>6, <1>14, Zenon DEF vars, MemInv
<1> QED BY <1>1, <1>2, <1>3, <1>7, <1>8, <1>9, <1>10, <1>11, <1>12, <1>13, <1>14 DEF Next

-----------------------------------------------------------------------------
\* The invariant holds in every reachable state.
THEOREM Invariance == Spec => []Inv
<1>1. Init => Inv
  BY InitInv
<1>2. Inv /\ [Next]_vars => Inv'
  BY NextInv
<1> QED BY <1>1, <1>2, PTL DEF Spec

\* Every variable has its type, in particular the ttl handed out is a natural
\* number.
THEOREM TypeCorrect == Spec => []TypeOK
<1>1. Inv => TypeOK
  BY DEF Inv
<1> QED BY <1>1, Invariance, PTL

\* No answer is served beyond its ttl or MaxTtl, over any number of restarts.
THEOREM ServedInTime == Spec => []NeverStale
<1>1. Inv => NeverStale
  BY DEF Inv
<1> QED BY <1>1, Invariance, PTL

\* load accepts every file that save_as has completed, unless an answer about the
\* root to another question was stored.
THEOREM CompleteSaveLoads == Spec => []SavedIsLoadable
<1>1. Inv => SavedIsLoadable
  <2> SUFFICES ASSUME Inv, Cardinality(DOMAIN file.ents) = file.size,
                      strayed \cap Nameless = {}
               PROVE  Loadable(file)
    BY DEF SavedIsLoadable
  <2>1. Cardinality(DOMAIN file.ents) \in Nat
    BY FS_CardinalityType DEF Inv, Sound
  <2>2. DOMAIN file.ents \cap Nameless = {}
    BY DEF Inv, Sound
  <2> QED BY <2>1, <2>2 DEF Loadable
<1> QED BY <1>1, Invariance, PTL

\* A process that dies loses fewer than SaveEvery questions, unless the end of the
\* last save was lost unnoticed or an answer about the root was stored.
THEOREM CrashLosesLittle == Spec => []FewUnsaved
<1>1. Inv => FewUnsaved
  <2> SUFFICES ASSUME Inv, up, ~missed, strayed \cap Nameless = {}
               PROVE  Cardinality(DOMAIN entries \ DOMAIN Kept(file)) < SaveEvery
    BY DEF FewUnsaved
  <2>1. Cardinality(DOMAIN entries \ DOMAIN Kept(file))
          <= Cardinality(DOMAIN entries) % SaveEvery
    BY DEF Inv, UnsavedCounted
  <2>2. /\ Cardinality(DOMAIN entries) \in Nat
        /\ Cardinality(DOMAIN entries \ DOMAIN Kept(file)) \in Nat
    BY FS_Difference, FS_CardinalityType DEF Inv, Sound
  <2>3. Cardinality(DOMAIN entries) % SaveEvery \in 0..(SaveEvery - 1)
    BY <2>2, NextRemainder, CacheAssumption
  <2> QED BY <2>1, <2>2, <2>3, CacheAssumption
<1> QED BY <1>1, Invariance, PTL

\* A save that stopped early is never taken for a cache.
THEOREM StartsClean == Spec => StartsFromCompleteSave
<1> DEFINE Clean == entries' = <<>> \/ (file.whole /\ entries' = Fresh(file.ents))
<1>1. ASSUME Inv, [Next]_vars, ~up, up'
      PROVE  Clean
  <2>1. Start
    BY <1>1, Zenon
    DEF Next, vars, PeriodicSave, Exit, Crash, Tick, AskRoot, AskHit, AskMiss,
        AnswerStored, AnswerIgnored
  <2>2. Loadable(file) => file.whole
    BY <1>1, Zenon DEF Inv, FileIsSave, Loadable
  <2>3. entries' = IF Loadable(file) THEN Fresh(file.ents) ELSE <<>>
    BY <2>1, Zenon DEF Start
  <2> QED BY <2>2, <2>3, Zenon
<1>2. Inv /\ [Next]_vars => [~up /\ up' => Clean]_vars
  BY <1>1, Zenon
<1> QED BY <1>2, Invariance, PTL DEF Spec, StartsFromCompleteSave

=============================================================================
