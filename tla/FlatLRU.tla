------------------------------- MODULE FlatLRU ------------------------------
(***************************************************************************)
(* cache::flat_lru: a sorted vector of at most LenMax entries, each with   *)
(* its rank in the order of use (refs, 0 for the entry used last).  An     *)
(* entry whose refs is LenMax is invalid and its slot may be taken.        *)
(***************************************************************************)
EXTENDS Integers, Sequences, SequencesExt

CONSTANTS
    Keys,       \* the keys used
    Data,       \* what is stored: the buffers, told apart by name
    None,       \* no buffer
    LenMax      \* cache_len_max_

ASSUME KeysAssumption   == Keys \subseteq Nat /\ IsFiniteSet(Keys)
ASSUME DataAssumption   == None \notin Data
ASSUME LenMaxAssumption == LenMax \in Nat \ {0}

VARIABLES
    cache,      \* cache_, sorted by key
    evicted,    \* what the last operation, if it was update(), returned
    uses        \* history: <<x, y>> when x and y were used and not invalidated
                \* since, and the last use of x is not before that of y

vars == <<cache, evicted, uses>>

Entry(k, r, d) == [key |-> k, refs |-> r, data |-> d]
IsValid(e) == e.refs # LenMax
Invalid(e) == Entry(e.key, LenMax, None)

\* The first position whose key is not less than k; one past the end if none.
LowerBound(c, k) ==
    CHOOSE i \in 1..(Len(c) + 1) : /\ \A j \in 1..(i - 1) : c[j].key < k
                                   /\ i <= Len(c) => c[i].key >= k

\* Mutant: the key at the lower bound is not compared.
HitAnyKey(c, k) ==
    LET i == LowerBound(c, k) IN i \in DOMAIN c /\ IsValid(c[i])

\* lower_bound_find: is k at its lower bound, and valid?
Hit(c, k) ==
    LET i == LowerBound(c, k) IN
    i \in DOMAIN c /\ c[i].key = k /\ IsValid(c[i])

\* Mutant: the entry used last is the one to go.
EvictIndexLeast(c) ==
    CHOOSE i \in DOMAIN c : \A j \in DOMAIN c : c[i].refs <= c[j].refs

\* The first entry with the greatest refs: an invalid one before any valid one.
EvictIndex(c) ==
    CHOOSE i \in DOMAIN c :
       \A j \in DOMAIN c : c[j].refs <= c[i].refs
                           /\ (c[j].refs = c[i].refs => i <= j)

\* touch: entry i becomes the one used last, those used after it age by one.
Touch(c, i) ==
    [j \in DOMAIN c |->
        IF j = i THEN [c[j] EXCEPT !.refs = 0]
        ELSE IF c[j].refs < c[i].refs THEN [c[j] EXCEPT !.refs = @ + 1]
        ELSE c[j]]

InUse == {k \in Keys : <<k, k>> \in uses}
Unused(S) == {p \in uses : p[1] \notin S /\ p[2] \notin S}
Used(k) == Unused({k}) \cup {<<k, x>> : x \in InUse \cup {k}}

-----------------------------------------------------------------------------
Find(k) ==
    /\ IF Hit(cache, k)
       THEN cache' = Touch(cache, LowerBound(cache, k)) /\ uses' = Used(k)
       ELSE UNCHANGED <<cache, uses>>
    /\ evicted' = None

\* update() puts k and d into slot i of c, whose entry goes to the caller if it
\* still has a buffer.
Replace(c, i, k, d) ==
    /\ cache' = Touch([c EXCEPT ![i] = Entry(k, @.refs, d)], i)
    /\ evicted' = IF c[i].data = None THEN None ELSE <<c[i].key, c[i].data>>

\* The slot at the lower bound is the key's own, or an invalid one.
UpdateInPlace(k, d) ==
    LET i == LowerBound(cache, k) IN
    /\ i \in DOMAIN cache
    /\ Hit(cache, k) \/ ~IsValid(cache[i])
    /\ Replace(cache, i, k, d)

\* There is room for one more entry.
UpdateInsert(k, d) ==
    LET i == LowerBound(cache, k) IN
    /\ i \in DOMAIN cache => ~Hit(cache, k) /\ IsValid(cache[i])
    /\ Len(cache) < LenMax
    /\ cache' = Touch(InsertAt(cache, i, Entry(k, LenMax, d)), i)
    /\ evicted' = None

\* Mutant: the lower bound is not moved with the entries rotated past it.
UpdateEvictUnshifted(k, d) ==
    LET i == LowerBound(cache, k)
        e == EvictIndex(cache)
        n == IF i > LenMax THEN LenMax ELSE i
    IN
    /\ i \in DOMAIN cache => ~Hit(cache, k) /\ IsValid(cache[i])
    /\ Len(cache) = LenMax
    /\ Replace(InsertAt(RemoveAt(cache, e), n, cache[e]), n, k, d)

\* The entry to evict is rotated to the place of the new one.
UpdateEvict(k, d) ==
    LET i == LowerBound(cache, k)
        e == EvictIndex(cache)
        n == IF e < i THEN i - 1 ELSE i
    IN
    /\ i \in DOMAIN cache => ~Hit(cache, k) /\ IsValid(cache[i])
    /\ Len(cache) = LenMax
    /\ Replace(InsertAt(RemoveAt(cache, e), n, cache[e]), n, k, d)

Update(k, d) ==
    /\ UpdateInPlace(k, d) \/ UpdateInsert(k, d) \/ UpdateEvict(k, d)
    /\ uses' = Used(k)

Invalidate(k) ==
    /\ cache' = IF Hit(cache, k)
                THEN [cache EXCEPT ![LowerBound(cache, k)] = Invalid(@)]
                ELSE cache
    /\ uses' = Unused({k}) /\ evicted' = None

\* Mutant: the first key of the range is left out.
InvalidateRangeOpen(first, last) ==
    /\ cache' = [i \in DOMAIN cache |->
                    IF LowerBound(cache, first) < i /\ i < LowerBound(cache, last)
                    THEN Invalid(cache[i]) ELSE cache[i]]
    /\ uses' = Unused({k \in Keys : first <= k /\ k < last}) /\ evicted' = None

InvalidateRange(first, last) ==
    /\ cache' = [i \in DOMAIN cache |->
                    IF LowerBound(cache, first) <= i /\ i < LowerBound(cache, last)
                    THEN Invalid(cache[i]) ELSE cache[i]]
    /\ uses' = Unused({k \in Keys : first <= k /\ k < last}) /\ evicted' = None

Init == cache = <<>> /\ evicted = None /\ uses = {}

Next ==
    \/ \E k \in Keys : Find(k) \/ Invalidate(k)
    \/ \E k \in Keys, d \in Data : Update(k, d)
    \/ \E first, last \in Keys : first < last /\ InvalidateRange(first, last)

Spec == Init /\ [][Next]_vars

-----------------------------------------------------------------------------
(* Properties *)

Entries == [key : Keys, refs : 0..LenMax, data : Data \cup {None}]

\* Types; a conjunct of SortedUnique
Typed ==
    /\ cache \in Seq(Entries)
    /\ Len(cache) <= LenMax
    /\ evicted = None \/ evicted \in Keys \X Data
    /\ uses \subseteq Keys \X Keys

\* The entries stay sorted and no key has two entries, as update() asserts after
\* its rotations (the Ensures at its end): every search relies on it.
SortedUnique ==
    /\ Typed
    /\ \A i, j \in DOMAIN cache : i < j => cache[i].key < cache[j].key

Present == {k \in Keys : Hit(cache, k)}

\* What was invalidated, alone or in a range, is not found again until it is
\* stored again, wherever rotations and evictions have moved the entries.
InvalidatedStaysGone == Present \subseteq InUse

\* An entry lost without being invalidated (its key stays in uses), evicted or
\* aged out by touch(), was used before all those that stay.
EvictsLeastRecent ==
    [][\A k \in Present \ Present' :
          k \in InUse' => \A x \in Present \cap Present' : <<x, k>> \in uses]_vars

Contract == INSTANCE LossyMap WITH
    store <- [k \in Keys |-> IF Hit(cache, k)
                             THEN cache[LowerBound(cache, k)].data ELSE None]

\* A lookup gives what was stored last under the key, or nothing.
ImplementsContract == Contract!Spec

\* As the test EvictInsertInvalidatedEntry has it, update() into the slot of an
\* invalidated entry evicts nothing: no other key is lost unless it is returned.
NothingLostSilently ==
    [][\A k \in Present \ Present' :
          k \in InUse' => evicted' # None /\ evicted'[1] = k]_vars

-----------------------------------------------------------------------------
(* The inductive invariant behind them *)

\* Of two keys one was used last.
UsesInv == \A x, y \in Keys : <<x, y>> \in uses /\ <<y, x>> \in uses => x = y

\* The valid entries are ranked by their last use.
RankInv ==
    \A i, j \in DOMAIN cache :
       IsValid(cache[i]) /\ IsValid(cache[j]) =>
          (cache[i].refs <= cache[j].refs <=> <<cache[i].key, cache[j].key>> \in uses)

IInv == SortedUnique /\ UsesInv /\ RankInv
=============================================================================
