------------------------------- MODULE Filter -------------------------------
(***************************************************************************)
(* The black and white lists: dns/srcz/filter.cpp, dns/filter.hxx, and the *)
(* loop of responder::reload that merges one filter per list file.         *)
(*                                                                         *)
(* A list file is a text of words.  A word `*x*' blocks the names in which *)
(* x occurs, `x*' the names that begin with x, `*.x' and `.x' the name x   *)
(* and all below it, any other word one name.  The filter does not keep    *)
(* the words: it drops every word that a shorter one makes superfluous, and*)
(* `match' relies on that, since it looks at ONE stored word, the nearest  *)
(* one in the order of the set.                                            *)
(*                                                                         *)
(* A text is a sequence of character codes; the codes that the code treats *)
(* specially are named below.  Words and names of more than 1024 characters*)
(* and the empty name, for which the code throws, are left out.            *)
(***************************************************************************)
EXTENDS Integers, Sequences, FiniteSets, SequencesExt

CONSTANTS
    FileWords,   \* the words that list files hold
    Names,       \* the host names asked for, which neither begin nor end with a dot
    MaxWords     \* bound: words read in all

Dot  == 46
Star == 42
Hash == 35

ASSUME TextsAssumption ==
    /\ \A w \in FileWords : w \in Seq(Nat)
    /\ \A n \in Names : n \in Seq(Nat) /\ n # <<>> /\ n[1] # Dot /\ n[Len(n)] # Dot

ASSUME WordsAssumption ==
    \A w \in FileWords : w # <<>> /\ (w[1] = Star /\ Len(w) > 1 => w[Len(w)] = Star \/ w[2] = Dot)

ASSUME BoundAssumption == MaxWords \in Nat

VARIABLES
    list,     \* the filter the responder builds: whitelist_ptr_ or blacklist_ptr_
    file,     \* the filter being constructed from the file being read
    read,     \* history: the words of the files already merged
    reading   \* history: the words of the file being read

vars == <<list, file, read, reading>>

-----------------------------------------------------------------------------
(* Texts *)

\* s occurs in t (std::string::find).
Occurs(s, t) == \E i \in 0 .. Len(t) - Len(s) : SubSeq(t, i + 1, i + Len(s)) = s

LowerChar(c) == IF c \in 65 .. 90 THEN c + 32 ELSE c

ascii_tolower(s) == [i \in 1 .. Len(s) |-> LowerChar(s[i])]

FrontDot(s) == IF s[1] = Dot THEN s ELSE <<Dot>> \o s

BackDot(s) == IF s[Len(s)] = Dot THEN s ELSE Append(s, Dot)

-----------------------------------------------------------------------------
(* The two ordered sets.  `comp' compares texts from the front, `rev_comp'  *)
(* from the back, so that a word stands before the texts that extend it.    *)

Key(cmp, s) == IF cmp = "comp" THEN s ELSE Reverse(s)

lexicographical_compare(a, b) ==
    \/ IsStrictPrefix(a, b)
    \/ \E i \in 1 .. Len(a) :
        i <= Len(b) /\ SubSeq(a, 1, i - 1) = SubSeq(b, 1, i - 1) /\ a[i] < b[i]

Before(cmp, a, b) == lexicographical_compare(Key(cmp, a), Key(cmp, b))

contains(cmp, longer, shorter) == IsPrefix(Key(cmp, shorter), Key(cmp, longer))

Greatest(cmp, words) == CHOOSE w \in words : \A x \in words : ~Before(cmp, w, x)

\* std::prev (upper_bound (str)) is the greatest word not after str.
words_match(cmp, words, str) ==
    LET upTo == {w \in words : ~Before(cmp, str, w)}
    IN  upTo # {} /\ contains(cmp, str, Greatest(cmp, upTo))

\* Mutant of ExtendingRun: the words that w makes superfluous stay.
NothingErased(cmp, words, w) == {}

\* The run of words right after w that extend w, which words_insert erases.
ExtendingRun(cmp, words, w) ==
    LET after == {x \in words : Before(cmp, w, x)}
    IN  {x \in after : \A y \in after : ~Before(cmp, x, y) => contains(cmp, y, w)}

words_insert(cmp, words, w) ==
    LET before == {x \in words : Before(cmp, x, w)}
    IN  IF w \in words \/ (before # {} /\ contains(cmp, w, Greatest(cmp, before)))
        THEN words
        ELSE (words \ ExtendingRun(cmp, words, w)) \cup {w}

-----------------------------------------------------------------------------
(* The unordered set of substrings.  The order of its iteration is any.     *)

substr_match(subs, str) == \E s \in subs : Occurs(s, str)

\* The first element met that occurs in w, or in which w occurs, decides.
InsertAlong(order, w) ==
    LET met == {i \in DOMAIN order : Occurs(order[i], w) \/ Occurs(w, order[i])}
        i   == CHOOSE k \in met : \A m \in met : k <= m
    IN  IF met = {} THEN Range(order) \cup {w}
        ELSE IF Occurs(order[i], w) THEN Range(order)
        ELSE {order[j] : j \in {k \in DOMAIN order : k < i \/ ~Occurs(w, order[k])}} \cup {w}

\* All the sets that inserting w into subs may give.
substr_insert(subs, w) == {InsertAlong(order, w) : order \in SetToSeqs(subs)}

-----------------------------------------------------------------------------
(* The filter *)

Empty == [prefix |-> {}, suffix |-> {}, substrings |-> {}, exact |-> {}]

\* What the constructor makes of a word of the file; text <<>>: the word is
\* skipped.  A word that begins with # is a comment.
Classified(w) ==
    LET n      == Len(w)
        front  == w[1] = Star
        back   == w[n] = Star
        bare   == IF front THEN Tail(w) ELSE w
        kind   == IF w[1] = Hash THEN "comment"
                  ELSE IF front /\ back THEN "substring"
                  ELSE IF back THEN "prefix"
                  ELSE IF bare[1] = Dot THEN "suffix"
                  ELSE "exact"
        text   == CASE kind = "comment"   -> <<>>
                    [] kind = "substring" -> SubSeq(w, 2, n - 1)
                    [] kind = "prefix"    -> SubSeq(w, 1, n - 1)
                    [] OTHER              -> bare
    IN  [kind |-> kind, text |-> ascii_tolower(text)]

\* The filters that f may be after the constructor's loop has read w.
Added(f, w) ==
    LET c == Classified(w)
    IN  CASE c.text = <<>> -> {f}
          [] c.text # <<>> /\ c.kind = "exact" ->
                {[f EXCEPT !.exact = @ \cup {c.text}]}
          [] c.text # <<>> /\ c.kind = "suffix" ->
                {[f EXCEPT !.suffix = words_insert("rev_comp", @, c.text)]}
          [] c.text # <<>> /\ c.kind = "prefix" ->
                {[f EXCEPT !.prefix = words_insert("comp", @, c.text)]}
          [] c.text # <<>> /\ c.kind = "substring" ->
                {[f EXCEPT !.substrings = s] : s \in substr_insert(f.substrings, c.text)}

\* The filters that the constructor's loop may make of the words of a text.
Constructed(words) ==
    LET loop[n \in 0 .. Len(words)] ==
            IF n = 0 THEN {Empty} ELSE UNION {Added(f, words[n]) : f \in loop[n - 1]}
    IN  loop[Len(words)]

\* Drops the words that words of another set make superfluous.
optimize(f) ==
    LET sfx == {d \in f.suffix : ~substr_match(f.substrings, BackDot(d))}
        pfx == {d \in f.prefix : ~substr_match(f.substrings, FrontDot(d))}
        covered(w) ==
            LET dotted == BackDot(FrontDot(w))
            IN  \/ words_match("rev_comp", sfx, FrontDot(w))
                \/ substr_match(f.substrings, dotted)
                \/ words_match("comp", pfx, Tail(dotted))
    IN  [f EXCEPT !.suffix = sfx, !.prefix = pfx,
                  !.exact  = {w \in f.exact : ~covered(w)}]

\* The first of an ordered set of words.
Least(cmp, words) == CHOOSE w \in words : \A x \in words : ~Before(cmp, x, w)

\* One turn of a loop of merge: the next word of the other set is inserted.
WordTaken(cmp, s) ==
    LET w == Least(cmp, s.rest)
    IN  [words |-> words_insert(cmp, s.words, w), rest |-> s.rest \ {w}]

\* Inserts a set of words one after the other, in the order of the other set;
\* an empty set takes the other's content as it is.
WordsMerged(cmp, words, other) ==
    LET loop[n \in 0 .. Cardinality(other)] ==
            IF n = 0 THEN [words |-> words, rest |-> other] ELSE WordTaken(cmp, loop[n - 1])
    IN  IF words = {} THEN other ELSE loop[Cardinality(other)].words

\* The sets that subs may be after the insertion of one text after the other.
SubsInserted(subs, order) ==
    LET loop[n \in 0 .. Len(order)] ==
            IF n = 0 THEN {subs} ELSE UNION {substr_insert(s, order[n]) : s \in loop[n - 1]}
    IN  loop[Len(order)]

SubsMerged(subs, other) ==
    IF subs = {} THEN {other} ELSE UNION {SubsInserted(subs, order) : order \in SetToSeqs(other)}

\* Mutant of merge: the sets are not optimized against each other again.
MergedOnly(f, g) ==
    {[prefix     |-> WordsMerged("comp", f.prefix, g.prefix),
      suffix     |-> WordsMerged("rev_comp", f.suffix, g.suffix),
      substrings |-> s,
      exact      |-> f.exact \cup g.exact] : s \in SubsMerged(f.substrings, g.substrings)}

\* The filters that f may be after f.merge (g).
merge(f, g) ==
    {optimize([prefix     |-> WordsMerged("comp", f.prefix, g.prefix),
               suffix     |-> WordsMerged("rev_comp", f.suffix, g.suffix),
               substrings |-> s,
               exact      |-> f.exact \cup g.exact]) :
        s \in SubsMerged(f.substrings, g.substrings)}

match(f, hostname) ==
    LET n     == Len(hostname)
        end   == IF n > 1 /\ hostname[n] = Dot THEN n - 1 ELSE n
        low   == ascii_tolower(SubSeq(hostname, 1, end))
        front == FrontDot(low)
        both  == BackDot(front)
    IN  \/ low \in f.exact
        \/ words_match("rev_comp", f.suffix, front)
        \/ substr_match(f.substrings, both)
        \/ words_match("comp", f.prefix, Tail(both))

\* Mutant of write: the prefixes are printed like exact names.
WrittenBare(f) ==
    SetToSeq({<<Star>> \o s \o <<Star>> : s \in f.substrings})
    \o SetToSeq(f.prefix) \o SetToSeq(f.suffix) \o SetToSeq(f.exact)

\* The words that filter::write prints, in that order; their layout in lines
\* and the comment lines between the sets are left out.
write(f) ==
    SetToSeq({<<Star>> \o s \o <<Star>> : s \in f.substrings})
    \o SetToSeq({Append(s, Star) : s \in f.prefix})
    \o SetToSeq(f.suffix) \o SetToSeq(f.exact)

-----------------------------------------------------------------------------
(* Loading the list files *)

Init == list = Empty /\ file = Empty /\ read = {} /\ reading = {}

\* One turn of the constructor's loop.
ReadWord(w) ==
    /\ Cardinality(read) + Cardinality(reading) < MaxWords
    /\ file' \in Added(file, w)
    /\ reading' = reading \cup {w}
    /\ UNCHANGED <<list, read>>

\* The end of the file: the constructor optimizes the filter, and reload
\* merges it into the list.
EndOfFile ==
    /\ reading # {}
    /\ list' \in merge(list, optimize(file))
    /\ read' = read \cup reading
    /\ file' = Empty /\ reading' = {}

Next == (\E w \in FileWords : ReadWord(w)) \/ EndOfFile

Spec == Init /\ [][Next]_vars

-----------------------------------------------------------------------------
(* Properties *)

\* What a word of a list file says of a bare lower-case name.
Says(c, n) ==
    /\ c.text # <<>>
    /\ \/ c.kind = "exact" /\ n = c.text
       \/ c.kind = "suffix" /\ (n = Tail(c.text) \/ IsSuffix(c.text, n))
       \/ c.kind = "prefix" /\ (Append(n, Dot) = c.text \/ IsPrefix(c.text, n))
       \/ c.kind = "substring" /\ Occurs(c.text, <<Dot>> \o n \o <<Dot>>)

\* filter::match decides as the words of the files say: it finds a name, with
\* or without its final dot, exactly when one of the words read covers it,
\* however many words the insertions, `optimize' and `merge' have dropped.
MatchesAsWritten ==
    LET said == {Classified(w) : w \in read}
    IN  \A n \in Names :
            LET expected == \E c \in said : Says(c, ascii_tolower(n))
            IN  match(list, n) = expected /\ match(list, Append(n, Dot)) = expected

\* The filter is a function of the SET of words read: the order of the files,
\* of the words in them, of the iteration of the unordered sets, and the way
\* the words are spread over the files leave no trace in it.  It holds
\* the words no shorter word of the same kind covers, less those that a
\* word of another kind covers.
Canonical ==
    LET texts(k)  == {c.text : c \in {x \in {Classified(w) : w \in read} :
                                        x.kind = k /\ x.text # <<>>}}
        subs      == {s \in texts("substring") :
                        \A t \in texts("substring") : Occurs(t, s) => t = s}
        least(cmp, k) == {s \in texts(k) : \A t \in texts(k) : contains(cmp, s, t) => t = s}
        free(s)   == \A t \in subs : ~Occurs(t, s)
    IN  /\ list.substrings = subs
        /\ list.suffix = {s \in least("rev_comp", "suffix") : free(BackDot(s))}
        /\ list.prefix = {s \in least("comp", "prefix") : free(FrontDot(s))}
        /\ list.exact = {s \in texts("exact") :
                            /\ free(BackDot(FrontDot(s)))
                            /\ \A t \in texts("suffix") : ~IsSuffix(t, FrontDot(s))
                            /\ \A t \in texts("prefix") : ~IsPrefix(t, BackDot(s))}

\* What filter::write prints, the constructor reads back as the same filter, in
\* whatever order it walks the unordered set.
WriteReadsBack == {optimize(f) : f \in Constructed(write(list))} = {list}

=============================================================================
