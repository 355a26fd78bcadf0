-------------------------------- MODULE Cache --------------------------------
(***************************************************************************)
(* dns::cache, in memory and in the file dnscache.bin, over the life of    *)
(* several processes.                                                      *)
(*                                                                         *)
(* A question is asked (responder::pre_filter looks it up), answered from  *)
(* upstream or from the hosts list, and stored; the responder writes the   *)
(* whole cache when its size is a multiple of SaveEvery, every seven       *)
(* minutes and at the end of the program; there is a cache directory.  The *)
(* file is written in place, so a save that stops early leaves a part of it*)
(* behind, whether the process notices that, or dies of it, or not.        *)
(*                                                                         *)
(* A question stands for a (lower-case name, type) pair, the key of the    *)
(* cache.  An answer is stored under the question it repeats, which nobody *)
(* compares with the one that was asked.                                   *)
(***************************************************************************)
EXTENDS Integers, FiniteSets

CONSTANTS
  Questions,        \* keys of the cache
  Nameless,         \* questions about the root: their name is empty
  HostNames,        \* questions the hosts list answers
  Ttls,             \* time to live of answers: the least of their records, signed
  MinTtl, MaxTtl,   \* bounds the cache puts on it
  HostsTtl,         \* time to live of an answer from the hosts list
  SaveEvery,        \* 16 in the code
  MaxTime           \* bound on the clock

ASSUME CacheAssumption ==
  /\ Nameless \subseteq Questions /\ HostNames \subseteq Questions
  /\ Ttls \subseteq Int /\ HostsTtl \in Nat
  /\ MinTtl \in Nat /\ MaxTtl \in Nat /\ MinTtl <= MaxTtl
  /\ SaveEvery \in Nat \ {0}
  /\ MaxTime \in Nat

VARIABLES
  now,              \* std::time, in seconds
  up,               \* a process is running
  entries,          \* cache_entries_, a function on the questions it holds
  asked,            \* questions that wait for an answer from upstream
  file,             \* dnscache.bin
  missed,           \* history: the process's last save failed and nobody noticed
  strayed,          \* history: roots in stored answers to other questions
  served            \* history: the last answer from the cache

vars == <<now, up, entries, asked, file, missed, strayed, served>>

-----------------------------------------------------------------------------
\* An entry; got and ttl are history, the answer's arrival and its own ttl.
Entry == [got : Nat, ttl : Int, deadline : Nat]

\* A file is the count in its header and the entries that follow it; size -1 is
\* a file that is missing or has no complete header.  Whether save_as has written
\* all of it is history.
NoFile == [size |-> -1, ents |-> <<>>, whole |-> FALSE]

\* A function from some of the questions to entries.
IsTable(f) == DOMAIN f \subseteq Questions /\ f \in [DOMAIN f -> Entry]

Keep(f, S) == [k \in DOMAIN f \cap S |-> f[k]]

\* The file as save_as writes it, and what there is of it when it stops early.
\* The entries of an unordered set come in any order.
WholeFile(e) == [size |-> Cardinality(DOMAIN e), ents |-> e, whole |-> TRUE]

PartFiles(e) ==
  {NoFile} \cup
  {[size |-> Cardinality(DOMAIN e), ents |-> Keep(e, S), whole |-> FALSE] :
     S \in (SUBSET DOMAIN e) \ {DOMAIN e}}

\* Mutant of Loadable: the entries are not counted at the end.
LoadableUncounted(f) == f.size >= 0 /\ DOMAIN f.ents \cap Nameless = {}

\* cache::load accepts the file: it has a header, as many entries as that says,
\* and none with an empty name ("corrupt DNS name").
Loadable(f) ==
  /\ f.size >= 0
  /\ Cardinality(DOMAIN f.ents) = f.size
  /\ DOMAIN f.ents \cap Nameless = {}

\* What a process would load from the file.
Kept(f) == IF Loadable(f) THEN f.ents ELSE <<>>

\* cache::collect_garbage.
Fresh(e) == Keep(e, {k \in DOMAIN e : ~(e[k].deadline < now)})

\* Mutant of Lifetime: the upper bound is forgotten.
LifetimeUnbounded(ttl) == IF ttl > MinTtl THEN ttl ELSE MinTtl

\* The time an answer may be kept.
Lifetime(ttl) ==
  LET atLeast == IF ttl > MinTtl THEN ttl ELSE MinTtl
  IN  IF atLeast < MaxTtl THEN atLeast ELSE MaxTtl

\* cache::replace_entry: the entry is made or overwritten.
Replaced(q, ttl) ==
  [k \in DOMAIN entries \cup {q} |->
     IF k = q THEN [got |-> now, ttl |-> ttl, deadline |-> now + Lifetime(ttl)]
              ELSE entries[k]]

-----------------------------------------------------------------------------
\* The process ends and its memory is gone.
Down == up' = FALSE /\ entries' = <<>> /\ asked' = {}

\* save_as writes the whole file.
Save(e) == file' = WholeFile(e) /\ missed' = FALSE

\* save_as returns all the same: what the stream still held was written by its
\* destructor, after the test of its state, on a disk that is full.
SaveMisses(e) == file' \in PartFiles(e) /\ missed' = TRUE

SaveReturns(e) == Save(e) \/ SaveMisses(e)

\* save_as throws, which ends the event loop, or the process dies in it.  The old
\* file is left alone if it cannot be opened.
SaveDies(e) == file' \in PartFiles(e) \cup {file} /\ UNCHANGED missed /\ Down

\* Mutant of Store: off by one.
StoreSavesLate(e, waiting) ==
  IF Cardinality(DOMAIN e) % (SaveEvery + 1) = 0
    THEN \/ SaveReturns(e) /\ entries' = e /\ asked' = waiting /\ UNCHANGED up
         \/ SaveDies(e)
    ELSE entries' = e /\ asked' = waiting /\ UNCHANGED <<up, file, missed>>

\* responder::store leaves the entries e and saves them when it is time to.
Store(e, waiting) ==
  IF Cardinality(DOMAIN e) % SaveEvery = 0
    THEN \/ SaveReturns(e) /\ entries' = e /\ asked' = waiting /\ UNCHANGED up
         \/ SaveDies(e)
    ELSE entries' = e /\ asked' = waiting /\ UNCHANGED <<up, file, missed>>

-----------------------------------------------------------------------------
Init ==
  /\ now = 0
  /\ up = FALSE
  /\ entries = <<>>
  /\ asked = {}
  /\ file = NoFile
  /\ missed = FALSE
  /\ strayed = {}
  /\ served = {}

\* responder::responder: load the file, or begin with an empty cache.
Start ==
  /\ ~up
  /\ up' = TRUE
  /\ entries' = IF Loadable(file) THEN Fresh(file.ents) ELSE <<>>
  /\ missed' = FALSE
  /\ UNCHANGED <<now, asked, file, strayed, served>>

\* cache::retrieve finds q.
Hit(q) == q \in DOMAIN entries /\ now < entries[q].deadline

\* Mutant of AskRoot: the name is not looked at.
AskRootIsForwarded(q) ==
  /\ up /\ q \in Nameless
  /\ asked' = asked \cup {q}
  /\ UNCHANGED <<now, up, entries, file, missed, strayed, served>>

\* A question about the root: filter::match throws on an empty name, and the
\* exception ends the event loop without a save.
AskRoot(q) ==
  /\ up /\ q \in Nameless
  /\ Down
  /\ UNCHANGED <<now, file, missed, strayed, served>>

\* Found: the answer is sent with the time it has left as its ttl.
AskHit(q) ==
  /\ up /\ q \notin Nameless /\ Hit(q)
  /\ served' = {[got |-> entries[q].got, ttl |-> entries[q].ttl, at |-> now,
                 given |-> entries[q].deadline - now]}
  /\ UNCHANGED <<now, up, entries, asked, file, missed, strayed>>

\* Not found: the hosts list, or a resolver.
AskMiss(q) ==
  /\ up /\ q \notin Nameless /\ ~Hit(q)
  /\ IF q \in HostNames
       THEN Store(Replaced(q, HostsTtl), asked)
       ELSE asked' = asked \cup {q} /\ UNCHANGED <<up, entries, file, missed>>
  /\ UNCHANGED <<now, strayed, served>>

\* An answer from a resolver.  Others may still wait for the same question.
Waiting(q) == {asked, asked \ {q}}

\* NOERROR or NXDOMAIN, complete and of class IN: it answers q and repeats a.
AnswerStored(q, a, ttl) ==
  /\ up /\ q \in asked
  /\ \E w \in Waiting(q) : Store(Replaced(a, ttl), w)
  /\ strayed' = strayed \cup (({a} \cap Nameless) \ {q})
  /\ UNCHANGED <<now, served>>

\* NOERROR or NXDOMAIN, but truncated or of another class: cache::store returns,
\* and the responder saves all the same.
AnswerIgnored(q) ==
  /\ up /\ q \in asked
  /\ \E w \in Waiting(q) : Store(entries, w)
  /\ UNCHANGED <<now, strayed, served>>

\* random_callback, every seven minutes.
PeriodicSave ==
  /\ up
  /\ \/ SaveReturns(entries) /\ UNCHANGED <<up, entries, asked>>
     \/ SaveDies(entries)
  /\ UNCHANGED <<now, strayed, served>>

\* daemon::execute after SIGINT or SIGTERM.
Exit ==
  /\ up
  /\ (SaveReturns(entries) /\ Down) \/ SaveDies(entries)
  /\ UNCHANGED <<now, strayed, served>>

\* The process is killed, or an exception leaves a callback.
Crash ==
  /\ up
  /\ Down
  /\ UNCHANGED <<now, file, missed, strayed, served>>

Tick ==
  /\ now < MaxTime
  /\ now' = now + 1
  /\ UNCHANGED <<up, entries, asked, file, missed, strayed, served>>

Next ==
  \/ Start \/ PeriodicSave \/ Exit \/ Crash \/ Tick
  \/ \E q \in Questions :
       \/ AskRoot(q) \/ AskHit(q) \/ AskMiss(q)
       \/ \E a \in Questions, ttl \in Ttls : AnswerStored(q, a, ttl)
       \/ AnswerIgnored(q)

Spec == Init /\ [][Next]_vars

-----------------------------------------------------------------------------
TypeOK ==
  /\ now \in Nat
  /\ up \in BOOLEAN
  /\ IsTable(entries)
  /\ asked \subseteq Questions
  /\ file.size \in {-1} \cup Nat /\ IsTable(file.ents) /\ file.whole \in BOOLEAN
  /\ missed \in BOOLEAN
  /\ strayed \subseteq Questions
  /\ \A s \in served : s \in [got : Nat, ttl : Int, at : Nat, given : Nat]

\* No answer outlives its ttl, raised to MinTtl, nor MaxTtl: not in the cache,
\* nor at the client that keeps it for as long as the cache told it to.  Saving
\* it and loading it in a later process gains it no time.
NeverStale ==
  \A s \in served :
    /\ s.given > 0
    /\ s.at + s.given <= s.got + MaxTtl
    /\ s.at + s.given <= s.got + (IF s.ttl > MinTtl THEN s.ttl ELSE MinTtl)

\* A process starts from the last save that was completed, or from nothing: the
\* rest of one that was interrupted is never taken for a cache.
StartsFromCompleteSave ==
  [][~up /\ up' => entries' = <<>> \/ (file.whole /\ entries' = Fresh(file.ents))]_vars

\* What save_as completes, load accepts, as long as the resolvers repeat the
\* questions they are asked: clients' questions cannot bring the name that load
\* refuses into the cache, because the filter throws before.  Only an answer
\* about the root to another question can, and then the saved cache is lost.
SavedIsLoadable ==
  Cardinality(DOMAIN file.ents) = file.size /\ strayed \cap Nameless = {}
    => Loadable(file)

\* A crash loses little: of the questions in memory all but fewer than SaveEvery
\* are in the file and the next process reads them.  There are two exceptions: the
\* destructor of the stream could not write the end of the last save, or an
\* answer about the root was stored.
FewUnsaved ==
  up /\ ~missed /\ strayed \cap Nameless = {}
    => Cardinality(DOMAIN entries \ DOMAIN Kept(file)) < SaveEvery

-----------------------------------------------------------------------------
(***************************************************************************)
(* The inductive invariant behind them.                                    *)
(***************************************************************************)

\* A table in memory or on disk: finite, every deadline as its answer allows, and
\* no entry for a root but those of roots.
Sound(e, roots) ==
  /\ IsTable(e)
  /\ IsFiniteSet(DOMAIN e)
  /\ \A k \in DOMAIN e : e[k].deadline = e[k].got + Lifetime(e[k].ttl)
  /\ DOMAIN e \cap Nameless \subseteq roots

\* A file with all its entries is one that save_as has completed.
FileIsSave == Cardinality(DOMAIN file.ents) = file.size => file.whole

\* Each entry that is not saved was added since the size was a multiple of
\* SaveEvery.
UnsavedCounted ==
  up /\ ~missed /\ strayed \cap Nameless = {}
    => Cardinality(DOMAIN entries \ DOMAIN Kept(file))
         <= Cardinality(DOMAIN entries) % SaveEvery

Inv ==
  /\ TypeOK
  /\ Sound(entries, strayed) /\ Sound(file.ents, strayed)
  /\ asked \cap Nameless = {}
  /\ FileIsSave
  /\ UnsavedCounted
  /\ NeverStale

=============================================================================
