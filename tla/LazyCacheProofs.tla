--------------------------- MODULE LazyCacheProofs ---------------------------
(***************************************************************************)
(* Proofs about LazyCache for every set of states, every clock range and   *)
(* every compaction threshold: the heap indexes the entries through stale  *)
(* records, compaction and renumbering; hence eviction is exact, capacity  *)
(* is respected and the last requested state stays readable.               *)
(***************************************************************************)
EXTENDS LazyCacheRefinement, FiniteSetTheorems, FunctionTheorems, SequenceTheorems,
        WellFoundedInduction, TLAPS

----------------------------------------------------------------------------
(* Arithmetic and finiteness facts.                                        *)

(* A non-empty set of naturals has a least element.                        *)
LEMMA LeastNatural ==
    ASSUME NEW S, S \subseteq Nat, S # {}
    PROVE  \E x \in S : \A y \in S : x <= y
<1>1. \E x \in S : \A y \in S : ~ (<<y, x>> \in OpToRel(<, Nat))
  BY NatLessThanWellFounded, WFMin
<1>2. ASSUME NEW x \in Nat, NEW y \in Nat, ~ (<<y, x>> \in OpToRel(<, Nat))
      PROVE  x <= y
  <2>1. <<y, x>> \in Nat \X Nat => ~ (y < x)
    BY <1>2, Zenon DEF OpToRel
  <2>2. QED
    BY <2>1
<1>3. PICK x \in S : \A y \in S : ~ (<<y, x>> \in OpToRel(<, Nat))
  BY <1>1
<1>4. \A y \in S : x <= y
  BY <1>2, <1>3
<1>5. QED
  BY <1>4

(* A subset of the states is finite and smaller than the clock's range.    *)
LEMMA FewEntries ==
    ASSUME NEW S, S \subseteq States
    PROVE  /\ IsFiniteSet(S)
           /\ Cardinality(S) \in Nat
           /\ Cardinality(S) < MaxClock
<1>1. IsFiniteSet(S) /\ Cardinality(S) <= Cardinality(States)
  BY FS_Subset, StatesAssumption
<1>2. Cardinality(S) \in Nat /\ Cardinality(States) \in Nat
  BY <1>1, FS_CardinalityType, StatesAssumption
<1>3. QED
  BY <1>1, <1>2, ClockAssumption

----------------------------------------------------------------------------
(* The helpers preserve the type and the index.                            *)

(* Rebuilding the heap restores the index, whatever the heap held.         *)
LEMMA RebuildIndexes ==
    ASSUME NEW c \in CacheStates, TicksDistinct(c), TicksPast(c)
    PROVE  LET d == rebuild_lru_heap(c)
           IN  /\ d \in CacheStates
               /\ IndexOK(d)
               /\ d.entries = c.entries
               /\ d.last_access = c.last_access
               /\ d.clock = c.clock
<1> DEFINE d == rebuild_lru_heap(c)
<1>1. /\ d \in CacheStates
      /\ d.entries = c.entries
      /\ d.last_access = c.last_access
      /\ d.clock = c.clock
      /\ d.lru_heap = {RecordOf(c, s) : s \in Aged(c)}
  BY DEF CacheStates, rebuild_lru_heap, RecordOf, Aged
<1>2. TicksDistinct(d) /\ TicksPast(d)
  BY <1>1 DEF TicksDistinct, TicksPast
<1>3. RecordsPast(d)
  BY <1>1 DEF RecordsPast, TicksPast, Aged, RecordOf
<1>4. EveryEntryIndexed(d)
  <2> SUFFICES ASSUME NEW s \in c.entries
               PROVE  RecordOf(d, s) \in d.lru_heap
    BY <1>1 DEF EveryEntryIndexed
  <2>1. s \in Aged(c)
    BY ClockAssumption DEF TicksPast, Aged, CacheStates, Ticks
  <2>2. RecordOf(d, s) = RecordOf(c, s)
    BY <1>1 DEF RecordOf
  <2>3. QED
    BY <1>1, <2>1, <2>2
<1>5. QED
  BY <1>1, <1>2, <1>3, <1>4 DEF IndexOK

(* Compaction is invisible to the index.                                   *)
LEMMA CompactIndexes ==
    ASSUME NEW c \in CacheStates, IndexOK(c)
    PROVE  LET d == compact_lru_heap_if_needed(c)
           IN  /\ d \in CacheStates
               /\ IndexOK(d)
               /\ d.entries = c.entries
               /\ d.last_access = c.last_access
               /\ d.clock = c.clock
BY RebuildIndexes DEF compact_lru_heap_if_needed, IndexOK

(* The entries of c have the same age order in d.                          *)
SameAges(c, d) ==
    \A s, t \in c.entries :
        c.last_access[s] < c.last_access[t] => d.last_access[s] < d.last_access[t]

(* Renumbering keeps the age order, and leaves the clock room to advance.  *)
LEMMA RenumberIndexes ==
    ASSUME NEW c \in CacheStates, IndexOK(c)
    PROVE  LET d == renumber_lru_ticks(c)
           IN  /\ d \in CacheStates
               /\ IndexOK(d)
               /\ d.entries = c.entries
               /\ d.clock < MaxClock
               /\ SameAges(c, d)
<1> DEFINE lower(s) == {t \in Aged(c) : c.last_access[t] <= c.last_access[s]}
           ranks == [s \in States |-> IF s \in Aged(c) THEN AgeRank(c, s)
                                      ELSE c.last_access[s]]
           e == [entries |-> c.entries, last_access |-> ranks,
                 lru_heap |-> c.lru_heap, clock |-> Cardinality(Aged(c))]
<1>1. Aged(c) = c.entries /\ c.entries \subseteq States
  BY ClockAssumption DEF Aged, IndexOK, TicksPast, CacheStates, Ticks
<1>2. ASSUME NEW s \in c.entries
      PROVE  /\ AgeRank(c, s) = Cardinality(lower(s))
             /\ AgeRank(c, s) \in 1 .. Cardinality(Aged(c))
             /\ AgeRank(c, s) \in Ticks
  <2>1. AgeRank(c, s) = Cardinality(lower(s))
    BY DEF AgeRank
  <2>2. lower(s) \subseteq Aged(c) /\ Aged(c) \subseteq States /\ s \in lower(s)
    BY <1>1, <1>2 DEF CacheStates, Ticks
  <2>3. IsFiniteSet(Aged(c)) /\ Cardinality(Aged(c)) \in Nat /\ Cardinality(Aged(c)) < MaxClock
    BY <2>2, FewEntries
  <2>4. IsFiniteSet(lower(s)) /\ Cardinality(lower(s)) \in Nat
    BY <2>2, FewEntries
  <2>5. Cardinality(lower(s)) <= Cardinality(Aged(c))
    BY <2>2, <2>3, FS_Subset
  <2>6. Cardinality(lower(s)) # 0
    BY <2>2, <2>4, FS_EmptySet
  <2>7. QED
    BY <2>1, <2>3, <2>4, <2>5, <2>6, ClockAssumption DEF Ticks
<1>3. ASSUME NEW s \in c.entries, NEW t \in c.entries,
             c.last_access[s] < c.last_access[t]
      PROVE  AgeRank(c, s) < AgeRank(c, t)
  <2>1. lower(s) \subseteq lower(t) /\ t \in lower(t) /\ t \notin lower(s)
    BY <1>1, <1>3 DEF CacheStates, Ticks
  <2>2. IsFiniteSet(lower(t)) /\ lower(t) \subseteq States
    BY <1>1, FewEntries
  <2>3. Cardinality(lower(s)) <= Cardinality(lower(t))
        /\ Cardinality(lower(s)) # Cardinality(lower(t))
    BY <2>1, <2>2, FS_Subset
  <2>4. QED
    BY <2>3, <1>2 DEF Ticks
<1>4. Cardinality(Aged(c)) \in Nat /\ Cardinality(Aged(c)) < MaxClock
  BY <1>1, FewEntries
<1>5. /\ e.entries = c.entries
      /\ e.clock = Cardinality(Aged(c))
      /\ \A s \in c.entries : e.last_access[s] = AgeRank(c, s)
      /\ e \in CacheStates
  <2>1. c.last_access \in [States -> Ticks]
    BY DEF CacheStates
  <2>2. ranks \in [States -> Ticks]
    BY <1>1, <1>2, <2>1
  <2>3. \A s \in c.entries : ranks[s] = AgeRank(c, s)
    BY <1>1
  <2>4. Cardinality(Aged(c)) \in Ticks
    BY <1>4, ClockAssumption DEF Ticks
  <2> HIDE DEF ranks
  <2>5. QED
    BY <2>2, <2>3, <2>4 DEF CacheStates
<1> HIDE DEF e, ranks, lower
<1>6. TicksDistinct(e)
  <2> SUFFICES ASSUME NEW s \in c.entries, NEW t \in c.entries,
                      AgeRank(c, s) = AgeRank(c, t)
               PROVE  s = t
    BY <1>5 DEF TicksDistinct
  <2> AgeRank(c, s) \in Int /\ AgeRank(c, t) \in Int
    BY <1>2, ClockAssumption DEF Ticks
  <2>1. ~ (c.last_access[s] < c.last_access[t]) /\ ~ (c.last_access[t] < c.last_access[s])
    BY <1>3
  <2>2. c.last_access[s] = c.last_access[t]
    BY <1>1, <2>1 DEF CacheStates, Ticks
  <2>3. QED
    BY <2>2 DEF IndexOK, TicksDistinct
<1>7. TicksPast(e)
  BY <1>2, <1>5 DEF TicksPast
<1>8. renumber_lru_ticks(c) = rebuild_lru_heap(e)
  BY DEF renumber_lru_ticks, e, ranks
<1>9. SameAges(c, renumber_lru_ticks(c))
  <2>1. renumber_lru_ticks(c).last_access = e.last_access
    BY <1>5, <1>6, <1>7, <1>8, RebuildIndexes
  <2>2. QED
    BY <1>3, <1>5, <2>1 DEF SameAges
<1>10. QED
  BY <1>4, <1>5, <1>6, <1>7, <1>8, <1>9, RebuildIndexes

(* After next_tick the new tick is later than every tick in use.           *)
LEMMA NextTickFresh ==
    ASSUME NEW c \in CacheStates, IndexOK(c)
    PROVE  LET d == next_tick(c)
           IN  /\ d \in CacheStates
               /\ IndexOK(d)
               /\ d.entries = c.entries
               /\ d.clock \in 1 .. MaxClock
               /\ \A s \in d.entries : d.last_access[s] < d.clock
               /\ \A r \in d.lru_heap : r[1] < d.clock
               /\ SameAges(c, d)
<1> DEFINE b == IF c.clock = MaxClock THEN renumber_lru_ticks(c) ELSE c
           d == next_tick(c)
<1>1. /\ b \in CacheStates /\ IndexOK(b)
      /\ b.entries = c.entries /\ b.clock < MaxClock
      /\ SameAges(c, b)
  <2>1. CASE c.clock = MaxClock
    BY <2>1, RenumberIndexes
  <2>2. CASE c.clock # MaxClock
    BY <2>2, ClockAssumption DEF CacheStates, Ticks, SameAges
  <2>3. QED
    BY <2>1, <2>2
<1>2. d = [b EXCEPT !.clock = IF @ = MaxClock THEN MaxClock ELSE @ + 1]
  BY DEF next_tick
<1> HIDE DEF b, d
<1>3. b.clock \in Nat /\ b.clock + 1 \in Ticks /\ b.clock # MaxClock
  BY <1>1, ClockAssumption DEF CacheStates, Ticks
<1>4. /\ d \in CacheStates
      /\ d.entries = b.entries
      /\ d.last_access = b.last_access
      /\ d.lru_heap = b.lru_heap
      /\ d.clock = b.clock + 1
  BY <1>1, <1>2, <1>3 DEF CacheStates
<1>5. \A s \in d.entries : d.last_access[s] \in 1 .. b.clock
  BY <1>1, <1>4 DEF IndexOK, TicksPast
<1>6. \A r \in d.lru_heap : r[1] \in Ticks /\ r[1] <= b.clock
  BY <1>1, <1>4 DEF IndexOK, RecordsPast, CacheStates
<1>7. IndexOK(d)
  <2>1. TicksDistinct(d) /\ EveryEntryIndexed(d)
    BY <1>1, <1>4 DEF IndexOK, TicksDistinct, EveryEntryIndexed, RecordOf
  <2>2. TicksPast(d)
    BY <1>3, <1>4, <1>5 DEF TicksPast
  <2>3. RecordsPast(d)
    BY <1>3, <1>4, <1>6 DEF RecordsPast, Ticks
  <2>4. QED
    BY <2>1, <2>2, <2>3 DEF IndexOK
<1>8. SameAges(c, d)
  BY <1>1, <1>4 DEF SameAges
<1>9. QED
  BY <1>1, <1>3, <1>4, <1>5, <1>6, <1>7, <1>8, ClockAssumption DEF d, Ticks

(* A stamped state is cached, indexed, and newer than every other entry.   *)
LEMMA StampIndexes ==
    ASSUME NEW c \in CacheStates, IndexOK(c), NEW s \in States
    PROVE  LET e == Stamp(c, s)
           IN  /\ e \in CacheStates
               /\ IndexOK(e)
               /\ e.entries = c.entries \cup {s}
               /\ \A t \in e.entries : e.last_access[t] <= e.last_access[s]
               /\ \A t \in c.entries \ {s} : e.last_access[t] < e.last_access[s]
               /\ \A t, u \in c.entries \ {s} :
                      c.last_access[t] < c.last_access[u]
                          => e.last_access[t] < e.last_access[u]
<1> DEFINE d == next_tick(c)
           b == [entries     |-> d.entries \cup {s},
                 last_access |-> [d.last_access EXCEPT ![s] = d.clock],
                 lru_heap    |-> d.lru_heap \cup {<<d.clock, s>>},
                 clock       |-> d.clock]
<1>1. /\ d \in CacheStates
      /\ IndexOK(d)
      /\ d.entries = c.entries
      /\ d.clock \in 1 .. MaxClock
      /\ \A t \in d.entries : d.last_access[t] < d.clock
      /\ \A r \in d.lru_heap : r[1] < d.clock
      /\ SameAges(c, d)
  BY NextTickFresh
<1>2. Stamp(c, s) = compact_lru_heap_if_needed(b)
  BY DEF Stamp
<1> HIDE DEF d
<1>3. b \in CacheStates
  BY <1>1 DEF CacheStates, Ticks
<1>4. /\ b.entries = d.entries \cup {s}
      /\ b.clock = d.clock
      /\ b.last_access[s] = d.clock
      /\ \A t \in d.entries : t # s => b.last_access[t] = d.last_access[t]
      /\ b.lru_heap = d.lru_heap \cup {<<d.clock, s>>}
  BY <1>1 DEF CacheStates
<1> HIDE DEF b
<1>5. \A t \in d.entries : d.last_access[t] \in 1 .. d.clock /\ d.clock \in Nat
  BY <1>1 DEF IndexOK, TicksPast
<1>6. IndexOK(b)
  <2>1. TicksDistinct(b)
    BY <1>1, <1>4, <1>5 DEF IndexOK, TicksDistinct
  <2>2. TicksPast(b)
    BY <1>1, <1>4, <1>5 DEF TicksPast
  <2>3. RecordsPast(b)
    BY <1>1, <1>4 DEF RecordsPast, IndexOK
  <2>4. EveryEntryIndexed(b)
    BY <1>1, <1>4 DEF EveryEntryIndexed, RecordOf, IndexOK
  <2>5. QED
    BY <2>1, <2>2, <2>3, <2>4 DEF IndexOK
<1>7. \A t \in b.entries : b.last_access[t] <= b.last_access[s]
  BY <1>1, <1>4, <1>5
<1>8. /\ \A t \in c.entries \ {s} : b.last_access[t] < b.last_access[s]
      /\ \A t, u \in c.entries \ {s} :
             c.last_access[t] < c.last_access[u] => b.last_access[t] < b.last_access[u]
  BY <1>1, <1>4 DEF SameAges
<1>9. QED
  BY <1>1, <1>2, <1>3, <1>4, <1>6, <1>7, <1>8, CompactIndexes

(* s was used no earlier than any other entry.                             *)
IsNewest(c, s) == \A t \in c.entries : c.last_access[t] <= c.last_access[s]

(* The entries used no earlier than s.                                     *)
NoOlder(c, s) == {t \in c.entries : c.last_access[t] >= c.last_access[s]}

(* Popping keeps at most `limit` entries, the newest ones, all indexed.    *)
LEMMA PopIndexes ==
    ASSUME NEW c \in CacheStates, IndexOK(c), NEW limit \in Nat
    PROVE  LET d == pop_lru_victims(c, limit)
           IN  /\ d \in CacheStates
               /\ IndexOK(d)
               /\ d.entries \subseteq c.entries
               /\ Cardinality(d.entries) <= limit
               /\ \A s \in d.entries : d.last_access[s] = c.last_access[s]
               /\ \A v \in c.entries \ d.entries, k \in d.entries :
                      c.last_access[v] < c.last_access[k]
               /\ \A s \in c.entries :
                      limit >= 1 /\ IsNewest(c, s) => s \in d.entries
               /\ \A s \in c.entries :
                      s \in d.entries <=> Cardinality(NoOlder(c, s)) <= limit
<1> DEFINE kept == {s \in c.entries : Outlives(c, s, limit)}
           newer(s) == {t \in c.entries : c.last_access[t] >= c.last_access[s]}
           d == pop_lru_victims(c, limit)
<1>1. \A s \in c.entries : IsLive(c, s)
  BY DEF IndexOK, EveryEntryIndexed, IsLive
<1>2. c.entries \subseteq States /\ \A s \in c.entries : c.last_access[s] \in Nat
  BY DEF CacheStates, Ticks
<1>3. \A s \in c.entries : s \in kept <=> Cardinality(newer(s)) <= limit
  <2> SUFFICES ASSUME NEW s \in c.entries
               PROVE  Outlives(c, s, limit) <=> Cardinality(newer(s)) <= limit
    OBVIOUS
  <2>1. {t \in c.entries : ~ IsLive(c, t) \/ c.last_access[t] >= c.last_access[s]} = newer(s)
    BY <1>1
  <2>2. QED
    BY <1>1, <2>1 DEF Outlives
<1> HIDE DEF kept
<1>4. kept \subseteq c.entries
  BY DEF kept
<1>5. ASSUME NEW v \in c.entries \ kept, NEW k \in kept
      PROVE  c.last_access[v] < c.last_access[k]
  <2> SUFFICES ASSUME c.last_access[k] <= c.last_access[v]
               PROVE  FALSE
    BY <1>2, <1>4
  <2>1. newer(v) \subseteq newer(k)
    BY <1>2, <1>4
  <2>2. IsFiniteSet(newer(k)) /\ newer(k) \subseteq States /\ newer(v) \subseteq States
    BY <1>2, FewEntries
  <2>3. Cardinality(newer(v)) <= Cardinality(newer(k))
    BY <2>1, <2>2, FS_Subset
  <2>4. Cardinality(newer(v)) \in Nat /\ Cardinality(newer(k)) \in Nat
    BY <2>2, FewEntries
  <2>5. QED
    BY <1>3, <1>4, <2>3, <2>4
<1>6. Cardinality(kept) <= limit
  <2>1. CASE kept = {}
    BY <2>1, FS_EmptySet
  <2>2. CASE kept # {}
    <3> DEFINE T == {c.last_access[s] : s \in kept}
    <3>1. T \subseteq Nat /\ T # {}
      BY <1>2, <1>4, <2>2
    <3>2. PICK x \in T : \A y \in T : x <= y
      BY <3>1, LeastNatural
    <3>3. PICK k \in kept : x = c.last_access[k]
      BY <3>2
    <3>4. kept \subseteq newer(k)
      BY <1>2, <1>4, <3>2, <3>3
    <3>5. newer(k) \subseteq States /\ kept \subseteq States
      BY <1>2, <1>4
    <3>6. IsFiniteSet(newer(k)) /\ Cardinality(newer(k)) \in Nat /\ Cardinality(kept) \in Nat
      BY <3>5, FewEntries
    <3>7. Cardinality(kept) <= Cardinality(newer(k))
      BY <3>4, <3>6, FS_Subset
    <3>8. QED
      BY <1>3, <1>4, <3>3, <3>6, <3>7
  <2>3. QED
    BY <2>1, <2>2
<1>7. /\ d.entries = kept
      /\ d.clock = c.clock
      /\ d.last_access = [s \in States |-> IF s \in kept THEN c.last_access[s] ELSE 0]
      /\ d.lru_heap = {r \in c.lru_heap : \A v \in c.entries \ kept : r[1] > c.last_access[v]}
      /\ d = [entries |-> d.entries, last_access |-> d.last_access,
               lru_heap |-> d.lru_heap, clock |-> d.clock]
  BY DEF pop_lru_victims, kept
<1> HIDE DEF d
<1>8. \A s \in kept : d.last_access[s] = c.last_access[s]
  BY <1>2, <1>4, <1>7
<1>9. d \in CacheStates
  <2>1. d.last_access \in [States -> Ticks]
    BY <1>2, <1>7, ClockAssumption DEF CacheStates, Ticks
  <2>2. QED
    BY <1>2, <1>4, <1>7, <2>1 DEF CacheStates
<1>10. IndexOK(d)
  <2>1. TicksDistinct(d)
    BY <1>4, <1>7, <1>8 DEF IndexOK, TicksDistinct
  <2>2. TicksPast(d)
    BY <1>4, <1>7, <1>8 DEF IndexOK, TicksPast
  <2>3. RecordsPast(d)
    BY <1>7 DEF IndexOK, RecordsPast
  <2>4. EveryEntryIndexed(d)
    <3> SUFFICES ASSUME NEW s \in kept
                 PROVE  <<c.last_access[s], s>> \in d.lru_heap
      BY <1>7, <1>8 DEF EveryEntryIndexed, RecordOf
    <3>1. <<c.last_access[s], s>> \in c.lru_heap
      BY <1>4 DEF IndexOK, EveryEntryIndexed, RecordOf
    <3>2. \A v \in c.entries \ kept : c.last_access[s] > c.last_access[v]
      BY <1>2, <1>4, <1>5
    <3>3. QED
      BY <1>7, <3>1, <3>2
  <2>5. QED
    BY <2>1, <2>2, <2>3, <2>4 DEF IndexOK
<1>11. ASSUME NEW s \in c.entries, limit >= 1, IsNewest(c, s)
       PROVE  s \in kept
  <2>1. newer(s) = {s}
    BY <1>2, <1>11 DEF IsNewest, IndexOK, TicksDistinct
  <2>2. Cardinality(newer(s)) = 1
    BY <2>1, FS_Singleton
  <2>3. QED
    BY <1>3, <1>11, <2>2
<1>12. \A s \in c.entries : s \in kept <=> Cardinality(NoOlder(c, s)) <= limit
  BY <1>3 DEF NoOlder
<1>13. QED
  BY <1>4, <1>5, <1>6, <1>7, <1>8, <1>9, <1>10, <1>11, <1>12 DEF d

(* The eviction loops never need to rebuild an index that holds.           *)
LEMMA EvictIndexes ==
    ASSUME NEW c \in CacheStates, IndexOK(c), NEW limit \in Nat
    PROVE  LET d == EvictDownTo(c, limit)
           IN  /\ d \in CacheStates
               /\ IndexOK(d)
               /\ d.entries \subseteq c.entries
               /\ Cardinality(d.entries) <= limit
               /\ \A s \in d.entries : d.last_access[s] = c.last_access[s]
               /\ \A v \in c.entries \ d.entries, k \in d.entries :
                      c.last_access[v] < c.last_access[k]
               /\ \A s \in c.entries :
                      limit >= 1 /\ IsNewest(c, s) => s \in d.entries
               /\ \A s \in c.entries :
                      s \in d.entries <=> Cardinality(NoOlder(c, s)) <= limit
<1>1. Cardinality(pop_lru_victims(c, limit).entries) <= limit
  BY PopIndexes
<1>2. EvictDownTo(c, limit) = pop_lru_victims(c, limit)
  BY <1>1 DEF EvictDownTo
<1>3. QED
  BY <1>2, PopIndexes

----------------------------------------------------------------------------
(* The inductive invariant.                                                *)

(* Under Lru the last ensured state, when it is an entry, is the newest    *)
(* one: this is why no later eviction can take it.                         *)
EnsuredNewest ==
    IsLru /\ ensured \in cache.entries =>
        IsNewest(cache, ensured)

IInv ==
    /\ TypeOK
    /\ HeapIndexesEntries
    /\ WithinCapacity
    /\ EnsuredReadable
    /\ EnsuredNewest

(* The empty cache satisfies every part of the invariant.                  *)
LEMMA EmptyOK ==
    /\ EmptyCache \in CacheStates
    /\ EmptyCache.entries = {}
    /\ IndexOK(EmptyCache)
    /\ Cardinality(EmptyCache.entries) = 0
<1>1. EmptyCache \in CacheStates /\ EmptyCache.entries = {} /\ EmptyCache.lru_heap = {}
  BY ClockAssumption DEF EmptyCache, CacheStates, Ticks
<1>2. IndexOK(EmptyCache)
  BY <1>1 DEF IndexOK, TicksDistinct, TicksPast, RecordsPast, EveryEntryIndexed
<1>3. QED
  BY <1>1, <1>2, FS_EmptySet

(* Every policy has a natural size.                                        *)
LEMMA PolicySize ==
    ASSUME NEW p \in Policies
    PROVE  p.max_states \in Nat
<1>1. CASE p \in [kind : {"CacheAll", "NoCache"}, max_states : {0}]
  BY <1>1
<1>2. CASE p \in [kind : {"Lru"}, max_states : Sizes]
  BY <1>2, SizesAssumption
<1>3. QED
  BY <1>1, <1>2 DEF Policies

(* The limit in force is a positive natural.                               *)
LEMMA LimitPositive ==
    ASSUME NEW n \in Nat, max_lru_states \in Nat \ {0}
    PROVE  lru_limit(n) \in Nat /\ lru_limit(n) >= 1
BY DEF lru_limit, Larger

(* The invariant holds initially.                                          *)
LEMMA InitIInv == Init => IInv
<1> SUFFICES ASSUME Init PROVE IInv
  OBVIOUS
<1>1. TypeOK
  <2>1. max_lru_states \in Nat \ {0}
    BY SizesAssumption DEF Init, Larger
  <2>2. policy \in Policies
    BY DEF Init, Policies
  <2>3. QED
    BY <2>1, <2>2, EmptyOK DEF TypeOK, Init
<1>2. HeapIndexesEntries /\ WithinCapacity /\ EnsuredReadable /\ EnsuredNewest
  BY StatesAssumption DEF Init, HeapIndexesEntries, WithinCapacity, IsLru,
     EnsuredReadable, EnsuredNewest
<1>3. QED
  BY <1>1, <1>2 DEF IInv

(* Refreshing a cached entry keeps the invariant.                          *)
LEMMA ExpandHitIInv ==
    ASSUME IInv, NEW s \in States, ExpandHit(s)
    PROVE  IInv'
<1> USE DEF IInv, ExpandHit
<1>1. CASE s \in cache.entries /\ IsLru
  <2>1. cache' = Stamp(cache, s)
    BY <1>1 DEF touch
  <2>2. cache \in CacheStates /\ IndexOK(cache)
    BY <1>1 DEF TypeOK, HeapIndexesEntries
  <2>3. /\ cache' \in CacheStates
        /\ IndexOK(cache')
        /\ cache'.entries = cache.entries
        /\ \A t \in cache'.entries : cache'.last_access[t] <= cache'.last_access[s]
    <3>1. cache.entries \cup {s} = cache.entries
      BY <1>1
    <3>2. QED
      BY <2>1, <2>2, <3>1, StampIndexes
  <2>4. TypeOK'
    BY <2>3 DEF TypeOK
  <2>5. HeapIndexesEntries' /\ WithinCapacity'
    BY <2>3 DEF HeapIndexesEntries, WithinCapacity, IsLru, lru_limit
  <2>6. EnsuredReadable' /\ EnsuredNewest'
    BY <1>1, <2>3 DEF EnsuredReadable, EnsuredNewest, Readable, IsNewest
  <2>7. QED
    BY <2>4, <2>5, <2>6
<1>2. CASE ~ (s \in cache.entries /\ IsLru)
  <2>1. UNCHANGED <<cache, scratch, policy, max_lru_states>>
    BY <1>2 DEF touch
  <2>2. TypeOK' /\ HeapIndexesEntries' /\ WithinCapacity'
    BY <2>1 DEF TypeOK, HeapIndexesEntries, WithinCapacity, IsLru, lru_limit
  <2>3. EnsuredReadable' /\ EnsuredNewest'
    BY <1>2, <2>1 DEF EnsuredReadable, EnsuredNewest, Readable, IsLru, IsNewest
  <2>4. QED
    BY <2>2, <2>3
<1>3. QED
  BY <1>1, <1>2

(* Inserting a computed state keeps the invariant under every policy.      *)
LEMMA ExpandMissIInv ==
    ASSUME IInv, NEW s \in States, ExpandMiss(s)
    PROVE  IInv'
<1> USE DEF IInv, ExpandMiss
<1>1. CASE InsertLru(s)
  <2> DEFINE limit == lru_limit(policy.max_states)
             d == EvictDownTo(cache, limit - 1)
  <2>1. IsLru /\ s \notin cache.entries
    BY <1>1 DEF InsertLru, Readable
  <2>2. cache \in CacheStates /\ IndexOK(cache)
    BY <2>1 DEF TypeOK, HeapIndexesEntries
  <2>3. limit \in Nat /\ limit >= 1 /\ limit - 1 \in Nat
    <3>1. policy.max_states \in Nat
      BY PolicySize DEF TypeOK
    <3>2. QED
      BY <3>1, LimitPositive DEF TypeOK
  <2> HIDE DEF limit
  <2>4. /\ d \in CacheStates
        /\ IndexOK(d)
        /\ Cardinality(d.entries) <= limit - 1
    BY <2>2, <2>3, EvictIndexes
  <2>5. cache' = Stamp(d, s) /\ scratch' = NoState
    BY <1>1, <2>1 DEF InsertLru, limit
  <2> HIDE DEF d
  <2>6. /\ cache' \in CacheStates
        /\ IndexOK(cache')
        /\ cache'.entries = d.entries \cup {s}
        /\ \A t \in cache'.entries : cache'.last_access[t] <= cache'.last_access[s]
    BY <2>4, <2>5, StampIndexes
  <2>7. Cardinality(cache'.entries) <= limit
    <3>1. d.entries \subseteq States
      BY <2>4 DEF CacheStates
    <3>2. IsFiniteSet(d.entries) /\ Cardinality(d.entries) \in Nat
      BY <3>1, FewEntries
    <3>3. Cardinality(d.entries \cup {s}) <= Cardinality(d.entries) + 1
      BY <3>2, FS_AddElement
    <3>4. Cardinality(d.entries \cup {s}) \in Nat
      BY <3>1, FewEntries
    <3>5. QED
      BY <2>3, <2>4, <2>6, <3>2, <3>3, <3>4
  <2>8. TypeOK'
    BY <2>5, <2>6 DEF TypeOK
  <2>9. HeapIndexesEntries' /\ WithinCapacity'
    BY <2>6, <2>7 DEF HeapIndexesEntries, WithinCapacity, lru_limit, limit
  <2>10. EnsuredReadable' /\ EnsuredNewest'
    BY <2>6 DEF EnsuredReadable, EnsuredNewest, Readable, IsNewest
  <2>11. QED
    BY <2>8, <2>9, <2>10
<1>2. CASE InsertCacheAll(s)
  <2>1. /\ ~ IsLru /\ ~ IsLru'
        /\ cache' = [cache EXCEPT !.entries = @ \cup {s}]
        /\ scratch' = NoState
    BY <1>2 DEF InsertCacheAll, IsLru
  <2>2. cache' \in CacheStates /\ s \in cache'.entries
    BY <2>1 DEF TypeOK, CacheStates
  <2>3. QED
    BY <2>1, <2>2 DEF TypeOK, HeapIndexesEntries, WithinCapacity, EnsuredReadable,
       EnsuredNewest, Readable
<1>3. CASE InsertNoCache(s)
  <2>1. ~ IsLru /\ ~ IsLru' /\ UNCHANGED cache /\ scratch' = s
    BY <1>3 DEF InsertNoCache, IsLru
  <2>2. QED
    BY <2>1 DEF TypeOK, HeapIndexesEntries, WithinCapacity, EnsuredReadable,
       EnsuredNewest, Readable
<1>4. QED
  BY <1>1, <1>2, <1>3 DEF insert

(* Emptying the cache keeps the invariant, under any policy.               *)
LEMMA ResetIInv ==
    ASSUME IInv, policy' \in Policies, cache' = EmptyCache, scratch' = NoState,
           ensured' = NoState, UNCHANGED max_lru_states
    PROVE  IInv'
<1>1. TypeOK'
  BY EmptyOK DEF IInv, TypeOK
<1>2. HeapIndexesEntries' /\ EnsuredReadable' /\ EnsuredNewest'
  BY EmptyOK, StatesAssumption DEF HeapIndexesEntries, EnsuredReadable, EnsuredNewest
<1>3. WithinCapacity'
  <2>1. policy'.max_states \in Nat /\ max_lru_states' \in Nat
    BY PolicySize DEF IInv, TypeOK
  <2>2. QED
    BY <2>1, EmptyOK DEF WithinCapacity, lru_limit, Larger
<1>4. QED
  BY <1>1, <1>2, <1>3 DEF IInv

(* Changing the fallback size evicts what no longer fits, never the state  *)
(* that was just ensured.                                                  *)
LEMMA ResizeIInv ==
    ASSUME IInv, NEW n \in Sizes, set_max_lru_states(n)
    PROVE  IInv'
<1> USE DEF IInv, set_max_lru_states
<1>1. max_lru_states' = Larger(n, 1) /\ Larger(n, 1) \in Nat \ {0}
  BY SizesAssumption DEF Larger
<1>2. CASE IsLru /\ policy.max_states = 0
  <2> DEFINE m == Larger(n, 1)
  <2>1. m \in Nat /\ m >= 1
    BY <1>1
  <2>2. cache \in CacheStates /\ IndexOK(cache) /\ cache' = EvictDownTo(cache, m)
    BY <1>2 DEF TypeOK, HeapIndexesEntries
  <2>3. max_lru_states' = m
    BY <1>1
  <2> HIDE DEF m
  <2>4. /\ cache' \in CacheStates
        /\ IndexOK(cache')
        /\ cache'.entries \subseteq cache.entries
        /\ Cardinality(cache'.entries) <= m
        /\ \A s \in cache'.entries : cache'.last_access[s] = cache.last_access[s]
        /\ \A v \in cache.entries \ cache'.entries, k \in cache'.entries :
              cache.last_access[v] < cache.last_access[k]
    BY <2>1, <2>2, EvictIndexes
  <2>5. TypeOK' /\ HeapIndexesEntries'
    BY <1>1, <2>4 DEF TypeOK, HeapIndexesEntries, IsLru
  <2>6. WithinCapacity'
    BY <1>2, <2>1, <2>3, <2>4 DEF WithinCapacity, lru_limit, Larger
  <2>7. EnsuredReadable' /\ EnsuredNewest'
    <3>1. CASE ensured \notin cache.entries
      BY <2>4, <3>1 DEF EnsuredReadable, EnsuredNewest, Readable, IsNewest
    <3>2. CASE ensured \in cache.entries
      <4>1. IsNewest(cache, ensured)
        BY <1>2, <3>2 DEF EnsuredNewest
      <4>2. ensured \in cache'.entries
        BY <2>1, <2>2, <3>2, <4>1, EvictIndexes
      <4>3. QED
        BY <2>4, <4>1, <4>2 DEF EnsuredReadable, EnsuredNewest, Readable, IsNewest
    <3>3. QED
      BY <3>1, <3>2
  <2>8. QED
    BY <2>5, <2>6, <2>7
<1>3. CASE ~ (IsLru /\ policy.max_states = 0)
  <2>1. UNCHANGED <<cache, scratch, policy, ensured>>
    BY <1>3
  <2>2. TypeOK' /\ HeapIndexesEntries' /\ EnsuredReadable' /\ EnsuredNewest'
    BY <1>1, <2>1 DEF TypeOK, HeapIndexesEntries, EnsuredReadable, EnsuredNewest,
       Readable, IsLru
  <2>3. WithinCapacity'
    <3>1. policy.max_states \in Nat
      BY PolicySize DEF TypeOK
    <3>2. IsLru => policy.max_states > 0
      BY <1>3, <3>1
    <3>3. QED
      BY <2>1, <3>1, <3>2 DEF WithinCapacity, IsLru, lru_limit
  <2>4. QED
    BY <2>2, <2>3
<1>4. QED
  BY <1>2, <1>3

(* Every step preserves the invariant.                                     *)
LEMMA NextIInv == IInv /\ [Next]_vars => IInv'
<1> SUFFICES ASSUME IInv, [Next]_vars PROVE IInv'
  OBVIOUS
<1>1. ASSUME NEW s \in States, ExpandHit(s) PROVE IInv'
  BY <1>1, ExpandHitIInv
<1>2. ASSUME NEW s \in States, ExpandMiss(s) PROVE IInv'
  BY <1>2, ExpandMissIInv
<1>3. ASSUME NEW p \in Policies, set_policy(p) PROVE IInv'
  BY <1>3, ResetIInv DEF set_policy
<1>4. ASSUME NEW n \in Sizes, set_max_lru_states(n) PROVE IInv'
  BY <1>4, ResizeIInv
<1>5. CASE clear
  BY <1>5, ResetIInv DEF clear, IInv, TypeOK
<1>6. CASE UNCHANGED vars
  BY <1>6 DEF vars, IInv, TypeOK, HeapIndexesEntries, WithinCapacity, EnsuredReadable,
     EnsuredNewest, IsNewest, Readable, IsLru, lru_limit
<1>7. QED
  BY <1>1, <1>2, <1>3, <1>4, <1>5, <1>6 DEF Next, ExpandError

(* The invariant holds throughout.                                         *)
LEMMA InvariantHolds == Spec => []IInv
<1>1. QED
  BY InitIInv, NextIInv, PTL DEF Spec

----------------------------------------------------------------------------
(* The results.                                                            *)

(* LazyStateCache's fields keep their types, ticks within the clock.       *)
THEOREM TypeCorrect == Spec => []TypeOK
<1>1. IInv => TypeOK
  BY DEF IInv
<1>2. QED
  BY <1>1, InvariantHolds, PTL

(* pop_lru_victim always finds a live record, for every clock range and    *)
(* compaction threshold: the lazily cleaned heap indexes all entries.      *)
THEOREM HeapIndexCorrect == Spec => []HeapIndexesEntries
<1>1. IInv => HeapIndexesEntries
  BY DEF IInv
<1>2. QED
  BY <1>1, InvariantHolds, PTL

(* insert and set_max_lru_states never leave more states than the limit.   *)
THEOREM CapacityRespected == Spec => []WithinCapacity
<1>1. IInv => WithinCapacity
  BY DEF IInv
<1>2. QED
  BY <1>1, InvariantHolds, PTL

(* What expand reported computed can be read by transitions.               *)
THEOREM LastExpandReadable == Spec => []EnsuredReadable
<1>1. IInv => EnsuredReadable
  BY DEF IInv
<1>2. QED
  BY <1>1, InvariantHolds, PTL

(* The states a step evicts are older than the ones it keeps.              *)
THEOREM EvictionExact == Spec => EvictsOldestFirst
<1> DEFINE OldestFirst ==
        cache'.entries # {} /\ IsLru =>
            \A v \in cache.entries \ cache'.entries :
               \A k \in cache.entries \cap cache'.entries :
                  cache.last_access[v] < cache.last_access[k]
<1>1. ASSUME IInv, [Next]_vars PROVE [OldestFirst]_vars
  <2> SUFFICES ASSUME Next, IsLru, cache'.entries # {} PROVE OldestFirst
    BY <1>1
  <2>0. cache \in CacheStates /\ IndexOK(cache)
    BY <1>1 DEF IInv, TypeOK, HeapIndexesEntries
  <2>1. ASSUME NEW s \in States, ExpandHit(s) PROVE OldestFirst
    <3>1. CASE s \in cache.entries
      <4>1. cache' = Stamp(cache, s)
        BY <2>1, <3>1 DEF ExpandHit, touch
      <4>2. cache'.entries = cache.entries \cup {s}
        BY <2>0, <4>1, StampIndexes
      <4>3. QED
        BY <3>1, <4>2
    <3>2. CASE s \notin cache.entries
      BY <2>1, <3>2 DEF ExpandHit
    <3>3. QED
      BY <3>1, <3>2
  <2>2. ASSUME NEW s \in States, ExpandMiss(s) PROVE OldestFirst
    <3> DEFINE limit == lru_limit(policy.max_states)
               d == EvictDownTo(cache, limit - 1)
    <3>1. s \notin cache.entries /\ InsertLru(s)
      BY <2>2 DEF ExpandMiss, Readable, insert, InsertCacheAll, InsertNoCache, IsLru
    <3>2. cache' = Stamp(d, s)
      BY <3>1 DEF InsertLru
    <3>3. limit \in Nat /\ limit - 1 \in Nat
      BY <1>1, PolicySize, LimitPositive DEF IInv, TypeOK
    <3> HIDE DEF limit
    <3>4. /\ d \in CacheStates /\ IndexOK(d)
          /\ d.entries \subseteq cache.entries
          /\ \A v \in cache.entries \ d.entries, k \in d.entries :
                cache.last_access[v] < cache.last_access[k]
      BY <2>0, <3>3, EvictIndexes
    <3> HIDE DEF d
    <3>5. cache'.entries = d.entries \cup {s}
      BY <3>2, <3>4, StampIndexes
    <3>6. QED
      BY <3>1, <3>4, <3>5
  <2>3. ASSUME NEW p \in Policies, set_policy(p) PROVE OldestFirst
    BY <2>3, EmptyOK DEF set_policy
  <2>4. ASSUME NEW n \in Sizes, set_max_lru_states(n) PROVE OldestFirst
    <3>1. CASE policy.max_states = 0
      <4>1. Larger(n, 1) \in Nat
        BY SizesAssumption DEF Larger
      <4>2. cache' = EvictDownTo(cache, Larger(n, 1))
        BY <2>4, <3>1 DEF set_max_lru_states
      <4>3. QED
        BY <2>0, <4>1, <4>2, EvictIndexes
    <3>2. CASE policy.max_states # 0
      BY <2>4, <3>2 DEF set_max_lru_states
    <3>3. QED
      BY <3>1, <3>2
  <2>5. CASE clear
    BY <2>5, EmptyOK DEF clear
  <2>6. CASE \E s \in States : ExpandError(s)
    BY <2>6 DEF ExpandError, vars
  <2>7. QED
    BY <2>1, <2>2, <2>3, <2>4, <2>5, <2>6 DEF Next
<1>2. QED
  BY <1>1, InvariantHolds, PTL DEF Spec, EvictsOldestFirst

----------------------------------------------------------------------------
(* The refinement: the queue of RecencyCache is the entries in tick order. *)

(* q lists the entries of c, each tick later than the one before.          *)
IsOrder(q, c) ==
    /\ q \in Seq(c.entries)
    /\ \A s \in c.entries : \E i \in 1 .. Len(q) : q[i] = s
    /\ \A i, j \in 1 .. Len(q) : i < j => c.last_access[q[i]] < c.last_access[q[j]]

(* What q lists from position a to position b.                             *)
Segment(q, a, b) == {q[i] : i \in a .. b}

(* A segment of a sequence without repetitions has as many elements as     *)
(* positions.                                                              *)
LEMMA SegmentSize ==
    ASSUME NEW S, NEW len \in Nat, NEW q \in Injection(1 .. len, S),
           NEW a \in 1 .. len + 1, NEW b \in 0 .. len, a <= b + 1
    PROVE  /\ IsFiniteSet(Segment(q, a, b))
           /\ Cardinality(Segment(q, a, b)) = b - a + 1
<1> DEFINE n == b - a + 1
           T == {q[i] : i \in a .. b}
           f == [k \in 1 .. n |-> q[a + k - 1]]
<1>0. /\ n \in Nat
      /\ q \in [1 .. len -> S]
      /\ \A i, j \in 1 .. len : q[i] = q[j] => i = j
  BY Fun_InjectionProperties
<1>1. \A k \in 1 .. n : a + k - 1 \in a .. b /\ a + k - 1 \in 1 .. len
  BY <1>0
<1>2. f \in [1 .. n -> T]
  BY <1>0, <1>1
<1>3. \A k, l \in 1 .. n : f[k] = f[l] => k = l
  <2> SUFFICES ASSUME NEW k \in 1 .. n, NEW l \in 1 .. n, q[a + k - 1] = q[a + l - 1]
               PROVE  k = l
    OBVIOUS
  <2>1. a + k - 1 = a + l - 1
    BY <1>0, <1>1
  <2>2. QED
    BY <2>1, <1>0
<1>4. \A t \in T : \E k \in 1 .. n : f[k] = t
  <2> TAKE t \in T
  <2>0. PICK i \in a .. b : t = q[i]
    OBVIOUS
  <2>1. i - a + 1 \in 1 .. n /\ a + (i - a + 1) - 1 = i
    BY <1>0
  <2>2. f[i - a + 1] = t
    BY <2>0, <2>1
  <2>3. QED
    BY <2>1, <2>2
<1> HIDE DEF f, T, n
<1>5. f \in Bijection(1 .. n, T)
  BY <1>2, <1>3, <1>4, Fun_IsBij
<1>6. ExistsBijection(1 .. n, T)
  BY <1>5, Fun_ExistsBij
<1>7. Cardinality(T) = n /\ IsFiniteSet(T)
  BY <1>0, <1>6, FS_CountingElements, FS_NatBijection
<1>8. QED
  BY <1>7 DEF T, n, Segment

(* No state is listed twice.                                               *)
LEMMA OrderInjective ==
    ASSUME NEW c \in CacheStates, NEW q, IsOrder(q, c)
    PROVE  /\ Len(q) \in Nat
           /\ \A i \in 1 .. Len(q) : q[i] \in c.entries /\ c.last_access[q[i]] \in Nat
           /\ \A i, j \in 1 .. Len(q) : q[i] = q[j] => i = j
           /\ \A i, j \in 1 .. Len(q) :
                  c.last_access[q[i]] <= c.last_access[q[j]] <=> i <= j
<1>1. Len(q) \in Nat /\ \A i \in 1 .. Len(q) : q[i] \in c.entries
  BY LenProperties DEF IsOrder
<1>2. \A s \in c.entries : c.last_access[s] \in Nat
  BY DEF CacheStates, Ticks
<1>3. \A i, j \in 1 .. Len(q) : i < j => c.last_access[q[i]] < c.last_access[q[j]]
  BY DEF IsOrder
<1>4. QED
  BY <1>1, <1>2, <1>3, SMTT(30)

(* The k-th state listed has k - 1 older ones and Len(q) - k newer ones.   *)
LEMMA OrderRanks ==
    ASSUME NEW c \in CacheStates, NEW q, IsOrder(q, c), NEW k \in 1 .. Len(q)
    PROVE  /\ Rank(c, q[k]) = k
           /\ Cardinality(NoOlder(c, q[k])) = Len(q) - k + 1
<1> DEFINE n == Len(q)
<1>1. /\ n \in Nat
      /\ \A i \in 1 .. n : q[i] \in c.entries /\ c.last_access[q[i]] \in Nat
      /\ \A i, j \in 1 .. n : q[i] = q[j] => i = j
      /\ \A i, j \in 1 .. n : c.last_access[q[i]] <= c.last_access[q[j]] <=> i <= j
  BY OrderInjective
<1>2. q \in [1 .. n -> c.entries] /\ \A s \in c.entries : \E i \in 1 .. n : q[i] = s
  BY LenProperties DEF IsOrder
<1> q \in Injection(1 .. n, c.entries)
  BY <1>1, <1>2, Fun_IsInj
<1> HIDE DEF n
<1>3. {t \in c.entries : c.last_access[t] <= c.last_access[q[k]]} = Segment(q, 1, k)
  BY <1>1, <1>2 DEF Segment, n
<1>4. NoOlder(c, q[k]) = Segment(q, k, n)
  BY <1>1, <1>2 DEF NoOlder, Segment, n
<1>5. Cardinality(Segment(q, 1, k)) = k
  <2>1. 1 \in 1 .. n + 1 /\ k \in 0 .. n /\ 1 <= k + 1 /\ k - 1 + 1 = k
    BY <1>1 DEF n
  <2>2. Cardinality(Segment(q, 1, k)) = k - 1 + 1
    BY <1>1, <2>1, SegmentSize
  <2>3. QED
    BY <2>1, <2>2
<1>6. Cardinality(Segment(q, k, n)) = n - k + 1
  <2>1. k \in 1 .. n + 1 /\ n \in 0 .. n /\ k <= n + 1
    BY <1>1 DEF n
  <2>2. QED
    BY <1>1, <2>1, SegmentSize
<1>7. Rank(c, q[k]) = k
  BY <1>3, <1>5, Zenon DEF Rank
<1>8. QED
  BY <1>4, <1>6, <1>7, Zenon DEF n

(* A cache has one such list, the one the refinement mapping computes.     *)
LEMMA OrderUnique ==
    ASSUME NEW c \in CacheStates, NEW q, IsOrder(q, c)
    PROVE  Order(c) = q /\ Cardinality(c.entries) = Len(q)
<1> DEFINE n == Len(q)
<1>1. /\ n \in Nat
      /\ \A i \in 1 .. n : q[i] \in c.entries
      /\ \A i, j \in 1 .. n : q[i] = q[j] => i = j
  BY OrderInjective
<1>2. q \in [1 .. n -> c.entries] /\ \A s \in c.entries : \E i \in 1 .. n : q[i] = s
  BY LenProperties DEF IsOrder
<1> q \in Injection(1 .. n, c.entries)
  BY <1>1, <1>2, Fun_IsInj
<1> HIDE DEF n
<1>3. c.entries = Segment(q, 1, n)
  BY <1>1, <1>2 DEF Segment
<1>4. Cardinality(c.entries) = n
  <2>1. 1 \in 1 .. n + 1 /\ n \in 0 .. n /\ 1 <= n + 1 /\ n - 1 + 1 = n
    BY <1>1
  <2>2. Cardinality(c.entries) = n - 1 + 1
    BY <1>1, <1>3, <2>1, SegmentSize
  <2>3. QED
    BY <2>1, <2>2
<1>5. \A k \in 1 .. n : Rank(c, q[k]) = k
  BY OrderRanks DEF n
<1>6. ASSUME NEW k \in 1 .. n
      PROVE  (CHOOSE s \in c.entries : Rank(c, s) = k) = q[k]
  <2>1. \A s \in c.entries : Rank(c, s) = k => s = q[k]
    BY <1>2, <1>5
  <2>2. q[k] \in c.entries /\ Rank(c, q[k]) = k
    BY <1>1, <1>5
  <2> DEFINE s == CHOOSE s \in c.entries : Rank(c, s) = k
  <2>3. s \in c.entries /\ Rank(c, s) = k
    BY <2>2
  <2>4. QED
    BY <2>1, <2>3
<1>7. q = [k \in 1 .. n |-> q[k]]
  BY <1>2
<1>8. Order(c) = q
  BY <1>4, <1>6, <1>7 DEF Order
<1>9. QED
  BY <1>4, <1>8 DEF n


(* Evicting down to a limit leaves that many states at the queue's end.    *)
LEMMA EvictOrder ==
    ASSUME NEW c \in CacheStates, IndexOK(c), NEW q, IsOrder(q, c), NEW limit \in Nat
    PROVE  IsOrder(Promise!Newest(q, limit), EvictDownTo(c, limit))
<1> DEFINE n == Len(q)
           d == EvictDownTo(c, limit)
           r == Promise!Newest(q, limit)
<1>1. /\ n \in Nat
      /\ q \in [1 .. n -> c.entries]
      /\ q \in Seq(c.entries)
      /\ \A s \in c.entries : \E i \in 1 .. n : q[i] = s
      /\ \A i, j \in 1 .. n : i < j => c.last_access[q[i]] < c.last_access[q[j]]
  BY LenProperties DEF IsOrder
<1>2. /\ d.entries \subseteq c.entries
      /\ \A s \in d.entries : d.last_access[s] = c.last_access[s]
      /\ \A s \in c.entries : s \in d.entries <=> Cardinality(NoOlder(c, s)) <= limit
  BY EvictIndexes
<1>3. \A k \in 1 .. n : Cardinality(NoOlder(c, q[k])) = n - k + 1
  BY OrderRanks
<1>4. r = IF n <= limit THEN q ELSE SubSeq(q, n - limit + 1, n)
  BY DEF Promise!Newest
<1> HIDE DEF d, r, n
<1>5. \A k \in 1 .. n : q[k] \in d.entries <=> n - k + 1 <= limit
  BY <1>1, <1>2, <1>3
<1>6. CASE n <= limit
  <2>1. d.entries = c.entries
    <3>1. \A k \in 1 .. n : q[k] \in d.entries
      BY <1>1, <1>5, <1>6, SMTT(30)
    <3>2. QED
      BY <1>1, <1>2, <3>1
  <2>2. r = q
    BY <1>4, <1>6
  <2>3. QED
    BY <1>1, <1>2, <2>1, <2>2 DEF IsOrder, d, r, n
<1>7. CASE limit < n
  <2> DEFINE m == n - limit
             a == n - limit + 1
  <2>0. m \in Nat /\ a \in Int /\ n \in Int /\ a = m + 1 /\ ~ (n <= limit)
    BY <1>1, <1>7
  <2>1. \A i \in a .. n : q[i] \in d.entries
    BY <1>1, <1>5, <2>0
  <2>2. /\ r \in Seq(d.entries)
        /\ Len(r) = IF a <= n THEN n - a + 1 ELSE 0
        /\ \A i \in 1 .. n - a + 1 : r[i] = q[a + i - 1]
    <3>1. r = SubSeq(q, a, n)
      BY <1>4, <2>0
    <3> HIDE DEF a, m
    <3>2. a \in Int /\ n \in Int
      BY <2>0
    <3> DEFINE E == d.entries
               p == SubSeq(q, a, n)
    <3>3. \A i \in a .. n : q[i] \in E
      BY <2>1
    <3> HIDE DEF E
    <3>4. /\ p \in Seq(E)
          /\ Len(p) = IF a <= n THEN n - a + 1 ELSE 0
          /\ \A i \in 1 .. n - a + 1 : p[i] = q[a + i - 1]
      BY <3>2, <3>3, SubSeqProperties
    <3>5. QED
      BY <3>1, <3>4 DEF E
  <2>3. Len(r) = limit /\ \A i \in 1 .. limit : r[i] = q[m + i]
    BY <1>1, <1>7, <2>0, <2>2
  <2> HIDE DEF m, a
  <2>4. \A i \in 1 .. limit : m + i \in 1 .. n
    BY <1>1, <1>7 DEF m
  <2>5. ASSUME NEW s \in d.entries PROVE \E i \in 1 .. limit : r[i] = s
    <3>1. PICK k \in 1 .. n : q[k] = s
      BY <1>1, <1>2
    <3>2. k - m \in 1 .. limit /\ m + (k - m) = k
      BY <1>1, <1>5, <1>7, <3>1 DEF m
    <3>3. QED
      BY <2>3, <3>1, <3>2
  <2>6. ASSUME NEW i \in 1 .. limit, NEW j \in 1 .. limit, i < j
        PROVE  d.last_access[r[i]] < d.last_access[r[j]]
    <3>1. m + i \in 1 .. n /\ m + j \in 1 .. n /\ m + i < m + j
      BY <1>1, <2>0, <2>4, <2>6
    <3>2. c.last_access[q[m + i]] < c.last_access[q[m + j]]
      BY <1>1, <3>1
    <3>3. /\ r[i] = q[m + i] /\ r[j] = q[m + j]
          /\ r[i] \in d.entries /\ r[j] \in d.entries
      BY <2>2, <2>3, ElementOfSeq
    <3>4. QED
      BY <1>2, <3>2, <3>3
  <2>7. QED
    BY <2>2, <2>3, <2>5, <2>6 DEF IsOrder, d, r
<1>8. QED
  BY <1>1, <1>6, <1>7

(* Using a cached state moves it to the queue's end.                       *)
LEMMA TouchOrder ==
    ASSUME NEW c \in CacheStates, IndexOK(c), NEW q, IsOrder(q, c), NEW i \in 1 .. Len(q)
    PROVE  IsOrder(Promise!MoveToEnd(q, i), Stamp(c, q[i]))
<1> DEFINE n == Len(q)
           d == Stamp(c, q[i])
           r == Promise!MoveToEnd(q, i)
<1>1. /\ n \in Nat
      /\ q \in [1 .. n -> c.entries]
      /\ \A s \in c.entries : \E j \in 1 .. n : q[j] = s
      /\ \A j, k \in 1 .. n : j < k => c.last_access[q[j]] < c.last_access[q[k]]
      /\ \A j, k \in 1 .. n : q[j] = q[k] => j = k
  BY LenProperties, OrderInjective DEF IsOrder
<1>2. q[i] \in States /\ q[i] \in c.entries /\ i \in 1 .. n
  BY <1>1 DEF CacheStates
<1>3. /\ d.entries = c.entries
      /\ \A t \in c.entries \ {q[i]} : d.last_access[t] < d.last_access[q[i]]
      /\ \A t, u \in c.entries \ {q[i]} :
             c.last_access[t] < c.last_access[u] => d.last_access[t] < d.last_access[u]
  <2>1. c.entries \cup {q[i]} = c.entries
    BY <1>2
  <2>2. QED
    BY <1>2, <2>1, StampIndexes
<1>4. r = [j \in 1 .. n |-> IF j < i THEN q[j] ELSE IF j < n THEN q[j + 1] ELSE q[i]]
  BY DEF Promise!MoveToEnd
<1> HIDE DEF n, d, r
<1> DEFINE from(j) == IF j < i THEN j ELSE IF j < n THEN j + 1 ELSE i
<1>5. \A j \in 1 .. n : from(j) \in 1 .. n /\ r[j] = q[from(j)] /\ r[j] \in c.entries
  BY <1>1, <1>2, <1>4
<1>6. r \in Seq(c.entries) /\ Len(r) = n
  <2>1. r \in [1 .. n -> c.entries]
    BY <1>4, <1>5
  <2>2. QED
    BY <1>1, <2>1
<1>7. ASSUME NEW s \in c.entries PROVE \E j \in 1 .. n : r[j] = s
  <2>1. PICK k \in 1 .. n : q[k] = s
    BY <1>1
  <2> DEFINE j == IF k < i THEN k ELSE IF k = i THEN n ELSE k - 1
  <2>2. j \in 1 .. n /\ from(j) = k
    BY <1>1, <1>2
  <2> HIDE DEF j
  <2>3. r[j] = s
    BY <1>5, <2>1, <2>2
  <2>4. QED
    BY <2>2, <2>3
<1>8. ASSUME NEW j \in 1 .. n, NEW k \in 1 .. n, j < k
      PROVE  d.last_access[r[j]] < d.last_access[r[k]]
  <2>1. from(j) # i
    BY <1>1, <1>2, <1>8
  <2>2. q[from(j)] # q[i]
    BY <1>1, <1>2, <1>5, <2>1
  <2>3. CASE k = n
    <3>1. r[k] = q[i]
      BY <1>1, <1>2, <1>5, <2>3, SMTT(30)
    <3>2. QED
      BY <1>3, <1>5, <2>2, <3>1
  <2>4. CASE k < n
    <3>1. from(j) < from(k) /\ from(k) # i
      BY <1>1, <1>2, <1>8, <2>4
    <3>2. q[from(k)] # q[i]
      BY <1>1, <1>2, <1>5, <3>1
    <3>3. c.last_access[q[from(j)]] < c.last_access[q[from(k)]]
      BY <1>1, <1>5, <3>1
    <3>4. QED
      BY <1>3, <1>5, <2>2, <3>2, <3>3
  <2>5. QED
    BY <1>1, <2>3, <2>4
<1>9. QED
  BY <1>3, <1>6, <1>7, <1>8 DEF IsOrder, d, r

(* A newly cached state joins the queue at its end.                        *)
LEMMA InsertOrder ==
    ASSUME NEW c \in CacheStates, IndexOK(c), NEW q, IsOrder(q, c),
           NEW s \in States, s \notin c.entries
    PROVE  IsOrder(Append(q, s), Stamp(c, s))
<1> DEFINE n == Len(q)
           d == Stamp(c, s)
           r == Append(q, s)
<1>1. /\ n \in Nat
      /\ q \in [1 .. n -> c.entries]
      /\ q \in Seq(c.entries)
      /\ \A t \in c.entries : \E j \in 1 .. n : q[j] = t
      /\ \A j, k \in 1 .. n : j < k => c.last_access[q[j]] < c.last_access[q[k]]
  BY LenProperties DEF IsOrder
<1>2. /\ d.entries = c.entries \cup {s}
      /\ \A t \in c.entries : d.last_access[t] < d.last_access[s]
      /\ \A t, u \in c.entries :
             c.last_access[t] < c.last_access[u] => d.last_access[t] < d.last_access[u]
  <2>1. c.entries \ {s} = c.entries
    OBVIOUS
  <2>2. QED
    BY <2>1, StampIndexes
<1>3. q \in Seq(d.entries)
  BY <1>1, <1>2, SeqMonotonic
<1> HIDE DEF d
<1>4. /\ r \in Seq(d.entries)
      /\ Len(r) = n + 1
      /\ \A i \in 1 .. n : r[i] = q[i]
      /\ r[n + 1] = s
  BY <1>2, <1>3, AppendProperties
<1> HIDE DEF n, r
<1>5. \A t \in d.entries : \E i \in 1 .. n + 1 : r[i] = t
  BY <1>1, <1>2, <1>4
<1>6. ASSUME NEW i \in 1 .. n + 1, NEW j \in 1 .. n + 1, i < j
      PROVE  d.last_access[r[i]] < d.last_access[r[j]]
  <2>1. i \in 1 .. n /\ q[i] \in c.entries /\ r[i] = q[i]
    BY <1>1, <1>4, <1>6
  <2>2. CASE j = n + 1
    BY <1>2, <1>4, <2>1, <2>2
  <2>3. CASE j \in 1 .. n
    BY <1>1, <1>2, <1>4, <1>6, <2>1, <2>3
  <2>4. QED
    BY <1>1, <2>2, <2>3
<1>7. QED
  BY <1>4, <1>5, <1>6 DEF IsOrder, d, r

(* The empty cache maps to the empty queue.                                *)
LEMMA EmptyOrder == IsOrder(<<>>, EmptyCache)
BY EmptyOK, EmptySeq DEF IsOrder

(* The queue lists the entries under Lru; only NoCache uses the scratch    *)
(* slot.  Together with the invariant above this makes the mapping work.   *)
QueueListsEntries == IsLru => IsOrder(Order(cache), cache)

ScratchUnused == policy.kind # "NoCache" => scratch = NoState

RInv == IInv /\ QueueListsEntries /\ ScratchUnused

(* A hit under Lru moves the state to the end of the queue.                *)
LEMMA HitRefines ==
    ASSUME RInv, NEW s \in States, ExpandHit(s), IsLru, s \in cache.entries
    PROVE  /\ IsOrder(Order(cache'), cache')
           /\ \E i \in 1 .. Len(Order(cache)) :
                  Order(cache') = Promise!MoveToEnd(Order(cache), i)
<1> DEFINE q == Order(cache)
<1>1. cache \in CacheStates /\ IndexOK(cache) /\ IsOrder(q, cache)
  BY DEF RInv, IInv, TypeOK, HeapIndexesEntries, QueueListsEntries
<1>2. cache' = Stamp(cache, s)
  BY DEF ExpandHit, touch
<1> HIDE DEF q
<1>3. PICK i \in 1 .. Len(q) : q[i] = s
  BY <1>1 DEF IsOrder
<1>4. IsOrder(Promise!MoveToEnd(q, i), cache')
  BY <1>1, <1>2, <1>3, TouchOrder
<1>5. cache' \in CacheStates
  BY <1>1, <1>2, StampIndexes
<1>6. Order(cache') = Promise!MoveToEnd(q, i)
  BY <1>4, <1>5, OrderUnique
<1>7. QED
  BY <1>4, <1>6 DEF q

(* A miss under Lru makes room at the front and joins at the end.          *)
LEMMA MissRefines ==
    ASSUME RInv, NEW s \in States, s \notin cache.entries, InsertLru(s)
    PROVE  /\ IsOrder(Order(cache'), cache')
           /\ Order(cache')
                = Append(Promise!Newest(Order(cache), lru_limit(policy.max_states) - 1), s)
<1> DEFINE q == Order(cache)
           limit == lru_limit(policy.max_states)
           d == EvictDownTo(cache, limit - 1)
           r == Promise!Newest(q, limit - 1)
<1>1. cache \in CacheStates /\ IndexOK(cache) /\ IsOrder(q, cache)
  BY DEF InsertLru, RInv, IInv, TypeOK, HeapIndexesEntries, QueueListsEntries
<1>2. limit - 1 \in Nat
  BY PolicySize, LimitPositive DEF RInv, IInv, TypeOK
<1>3. cache' = Stamp(d, s)
  BY DEF InsertLru
<1> HIDE DEF q, limit
<1>4. d \in CacheStates /\ IndexOK(d) /\ s \notin d.entries
  BY <1>1, <1>2, EvictIndexes
<1>5. IsOrder(r, d)
  BY <1>1, <1>2, EvictOrder
<1> HIDE DEF r, d
<1>6. IsOrder(Append(r, s), cache') /\ cache' \in CacheStates
  BY <1>3, <1>4, <1>5, InsertOrder, StampIndexes
<1>7. Order(cache') = Append(r, s)
  BY <1>6, OrderUnique
<1>8. QED
  BY <1>6, <1>7 DEF r, q, limit

(* A smaller limit takes states from the front.                            *)
LEMMA ResizeRefines ==
    ASSUME RInv, NEW n \in Sizes, set_max_lru_states(n), IsLru, policy.max_states = 0
    PROVE  /\ IsOrder(Order(cache'), cache')
           /\ Order(cache') = Promise!Newest(Order(cache), Larger(n, 1))
<1> DEFINE q == Order(cache)
           m == Larger(n, 1)
<1>1. cache \in CacheStates /\ IndexOK(cache) /\ IsOrder(q, cache)
  BY DEF RInv, IInv, TypeOK, HeapIndexesEntries, QueueListsEntries
<1>2. m \in Nat
  BY SizesAssumption DEF Larger
<1>3. cache' = EvictDownTo(cache, m)
  BY DEF set_max_lru_states
<1> HIDE DEF q, m
<1>4. IsOrder(Promise!Newest(q, m), cache') /\ cache' \in CacheStates
  BY <1>1, <1>2, <1>3, EvictOrder, EvictIndexes
<1>5. Order(cache') = Promise!Newest(q, m)
  BY <1>4, OrderUnique
<1>6. QED
  BY <1>4, <1>5 DEF q, m

(* The empty cache is the empty queue under every policy.                  *)
LEMMA ResetRefines ==
    ASSUME cache' = EmptyCache
    PROVE  Recency' = <<>> /\ Kept' = {} /\ QueueListsEntries'
<1>1. Order(EmptyCache) = <<>>
  BY EmptyOK, EmptyOrder, OrderUnique
<1>2. QED
  BY <1>1, EmptyOK, EmptyOrder DEF Recency, Kept, QueueListsEntries

(* Every step is a step of the queue or leaves it alone, and keeps the     *)
(* strengthened invariant.                                                 *)
LEMMA StepRefines ==
    ASSUME RInv, [Next]_vars
    PROVE  RInv' /\ [Promise!Next]_(Promise!vars)
<1> DEFINE Result == QueueListsEntries' /\ ScratchUnused' /\ [Promise!Next]_(Promise!vars)
<1>0. IInv'
  BY NextIInv DEF RInv
<1>1. ASSUME UNCHANGED <<cache, scratch, policy, max_lru_states>> PROVE Result
  BY <1>1 DEF RInv, QueueListsEntries, ScratchUnused, Recency, Kept, IsLru, Promise!vars
<1>2. ASSUME NEW s \in States, ExpandHit(s) PROVE Result
  <2>1. CASE IsLru /\ s \in cache.entries
    <3>1. PICK i \in 1 .. Len(Order(cache)) :
             Order(cache') = Promise!MoveToEnd(Order(cache), i)
      BY <1>2, <2>1, HitRefines
    <3>2. IsOrder(Order(cache'), cache')
      BY <1>2, <2>1, HitRefines
    <3>3. UNCHANGED <<scratch, policy, max_lru_states>> /\ IsLru'
      BY <1>2, <2>1 DEF ExpandHit, IsLru
    <3>4. /\ Recency = Order(cache) /\ Recency' = Order(cache')
          /\ Kept = {} /\ Kept' = {}
      BY <2>1, <3>3 DEF Recency, Kept
    <3>5. Promise!Next
      BY <3>1, <3>3, <3>4 DEF Promise!Next, Promise!UseCached
    <3>6. QED
      BY <3>2, <3>3, <3>5 DEF RInv, QueueListsEntries, ScratchUnused
  <2>2. CASE ~ (IsLru /\ s \in cache.entries)
    BY <1>1, <1>2, <2>2 DEF ExpandHit, touch
  <2>3. QED
    BY <2>1, <2>2
<1>3. ASSUME NEW s \in States, ExpandMiss(s) PROVE Result
  <2>1. /\ s \notin cache.entries /\ scratch # s
        /\ UNCHANGED <<policy, max_lru_states>> /\ IsLru' = IsLru
    BY <1>3 DEF ExpandMiss, Readable, IsLru
  <2>2. ~ Promise!IsCached(s)
    <3>1. CASE IsLru
      <4>1. Order(cache) \in Seq(cache.entries)
        BY <3>1 DEF RInv, QueueListsEntries, IsOrder
      <4>2. \A i \in 1 .. Len(Order(cache)) : Order(cache)[i] # s
        BY <2>1, <4>1, ElementOfSeq
      <4>3. QED
        BY <2>1, <3>1, <4>2 DEF Promise!IsCached, Recency, Kept
    <3>2. CASE ~ IsLru
      BY <2>1, <3>2, EmptySeq DEF Promise!IsCached, Recency, Kept
    <3>3. QED
      BY <3>1, <3>2
  <2>3. CASE InsertLru(s)
    <3>1. IsLru /\ scratch' = NoState /\ scratch = NoState
      BY <2>3 DEF InsertLru, IsLru, RInv, ScratchUnused
    <3>2. /\ IsOrder(Order(cache'), cache')
          /\ Order(cache')
               = Append(Promise!Newest(Order(cache), lru_limit(policy.max_states) - 1), s)
      BY <2>1, <2>3, MissRefines
    <3>3. lru_limit(policy.max_states) = Promise!Limit
      <4>1. policy.max_states \in Nat /\ max_lru_states \in Nat \ {0}
        BY PolicySize DEF RInv, IInv, TypeOK
      <4>2. QED
        BY <4>1 DEF lru_limit, Larger, Promise!Limit
    <3>4. /\ Recency = Order(cache) /\ Recency' = Order(cache')
          /\ Kept = {} /\ Kept' = {}
      BY <2>1, <3>1 DEF Recency, Kept
    <3>5. Recency' = Append(Promise!Newest(Recency, Promise!Limit - 1), s)
      BY <3>2, <3>3, <3>4
    <3>6. Promise!Compute(s)
      BY <2>1, <2>2, <3>1, <3>4, <3>5 DEF Promise!Compute, IsLru
    <3>7. QED
      BY <2>1, <3>1, <3>2, <3>6 DEF Promise!Next, QueueListsEntries, ScratchUnused
  <2>4. CASE InsertCacheAll(s)
    <3>1. /\ ~ IsLru /\ policy.kind = "CacheAll"
          /\ scratch' = NoState /\ scratch = NoState
          /\ cache' = [cache EXCEPT !.entries = @ \cup {s}]
      BY <2>4 DEF InsertCacheAll, IsLru, RInv, ScratchUnused
    <3>2. cache'.entries = cache.entries \cup {s}
      BY <3>1 DEF RInv, IInv, TypeOK, CacheStates
    <3>3. Recency = <<>> /\ Recency' = <<>> /\ Kept = cache.entries /\ Kept' = cache'.entries
      BY <2>1, <3>1 DEF Recency, Kept
    <3>4. Promise!Compute(s)
      BY <2>1, <2>2, <3>1, <3>2, <3>3 DEF Promise!Compute
    <3>5. QED
      BY <2>1, <3>1, <3>4 DEF Promise!Next, QueueListsEntries, ScratchUnused
  <2>5. CASE InsertNoCache(s)
    <3>1. ~ IsLru /\ policy.kind = "NoCache" /\ scratch' = s /\ UNCHANGED cache
      BY <2>5 DEF InsertNoCache, IsLru
    <3>2. Recency = <<>> /\ Recency' = <<>> /\ Kept = cache.entries /\ Kept' = cache.entries
      BY <2>1, <3>1 DEF Recency, Kept
    <3>3. Promise!Compute(s)
      BY <2>1, <2>2, <3>1, <3>2 DEF Promise!Compute
    <3>4. QED
      BY <2>1, <3>1, <3>3 DEF Promise!Next, QueueListsEntries, ScratchUnused
  <2>6. QED
    BY <1>3, <2>3, <2>4, <2>5 DEF ExpandMiss, insert
<1>4. ASSUME NEW p \in Policies, set_policy(p) PROVE Result
  <2>1. Promise!Reset /\ QueueListsEntries' /\ ScratchUnused'
    BY <1>4, ResetRefines DEF set_policy, Promise!Reset, ScratchUnused
  <2>2. policy' = p /\ UNCHANGED max_lru_states
    BY <1>4 DEF set_policy
  <2>3. CASE p \in [kind : {"CacheAll", "NoCache"}, max_states : {0}]
    <3>1. PICK kind \in {"CacheAll", "NoCache"} : p = [kind |-> kind, max_states |-> 0]
      BY <2>3
    <3>2. Promise!ChangePolicy(kind, 0)
      BY <2>1, <2>2, <3>1 DEF Promise!ChangePolicy
    <3>3. QED
      BY <2>1, <3>1, <3>2 DEF Promise!Next
  <2>4. CASE p \in [kind : {"Lru"}, max_states : Sizes]
    <3>1. PICK n \in Sizes : p = [kind |-> "Lru", max_states |-> n]
      BY <2>4
    <3>2. Promise!ChangePolicy("Lru", n)
      BY <2>1, <2>2, <3>1 DEF Promise!ChangePolicy
    <3>3. QED
      BY <2>1, <3>2 DEF Promise!Next
  <2>5. QED
    BY <2>3, <2>4 DEF Policies
<1>5. ASSUME NEW n \in Sizes, set_max_lru_states(n) PROVE Result
  <2>1. /\ UNCHANGED <<scratch, policy>> /\ IsLru' = IsLru
        /\ max_lru_states' = Promise!AtLeastOne(n)
        /\ Larger(n, 1) = Promise!AtLeastOne(n)
    BY <1>5 DEF set_max_lru_states, IsLru, Larger, Promise!AtLeastOne
  <2>2. ScratchUnused'
    BY <2>1 DEF RInv, ScratchUnused
  <2>3. CASE IsLru /\ policy.max_states = 0
    <3>1. /\ IsOrder(Order(cache'), cache')
          /\ Order(cache') = Promise!Newest(Order(cache), Larger(n, 1))
      BY <1>5, <2>3, ResizeRefines
    <3>2. /\ Recency = Order(cache) /\ Recency' = Order(cache')
          /\ Kept = {} /\ Kept' = {}
      BY <2>1, <2>3 DEF Recency, Kept
    <3>3. Promise!ChangeSize(n)
      BY <2>1, <2>3, <3>1, <3>2 DEF Promise!ChangeSize, IsLru
    <3>4. QED
      BY <2>1, <2>2, <3>1, <3>3 DEF Promise!Next, QueueListsEntries
  <2>4. CASE ~ (IsLru /\ policy.max_states = 0)
    <3>1. UNCHANGED cache
      BY <1>5, <2>4 DEF set_max_lru_states
    <3>2. UNCHANGED <<Recency, Kept>>
      BY <2>1, <3>1 DEF Recency, Kept
    <3>3. Promise!ChangeSize(n)
      BY <2>1, <2>4, <3>2 DEF Promise!ChangeSize, IsLru
    <3>4. QED
      BY <2>1, <2>2, <3>1, <3>3 DEF Promise!Next, RInv, QueueListsEntries
  <2>5. QED
    BY <2>3, <2>4
<1>6. ASSUME clear PROVE Result
  <2>1. Promise!Reset /\ QueueListsEntries' /\ ScratchUnused'
    BY <1>6, ResetRefines DEF clear, Promise!Reset, ScratchUnused
  <2>2. QED
    BY <1>6, <2>1 DEF clear, Promise!Clear, Promise!Next
<1> HIDE DEF Result
<1>7. UNCHANGED vars => Result
  BY <1>1 DEF vars
<1>8. Result
  BY <1>2, <1>3, <1>4, <1>5, <1>6, <1>7 DEF Next, ExpandError
<1>9. QED
  BY <1>0, <1>8 DEF RInv, Result

(* LazyStateCache behaves as a recency queue for every clock range and     *)
(* heap threshold: ticks, stale records, compaction and renumbering are    *)
(* invisible to its user.                                                  *)
THEOREM CacheRefinesQueue == Spec => ImplementsRecencyCache
<1>1. Init => RInv /\ Promise!Init
  <2> SUFFICES ASSUME Init PROVE RInv /\ Promise!Init
    OBVIOUS
  <2>1. ~ IsLru /\ cache.entries = {}
    BY EmptyOK DEF Init, IsLru
  <2>2. RInv
    BY <2>1, InitIInv DEF RInv, QueueListsEntries, ScratchUnused, Init
  <2>3. max_lru_states \in {Promise!AtLeastOne(n) : n \in Sizes}
    BY DEF Init, Larger, Promise!AtLeastOne
  <2>4. QED
    BY <2>1, <2>2, <2>3 DEF Promise!Init, Init, Recency, Kept
<1>2. RInv /\ [Next]_vars => RInv' /\ [Promise!Next]_(Promise!vars)
  BY StepRefines
<1>3. QED
  BY <1>1, <1>2, PTL DEF Spec, ImplementsRecencyCache, Promise!Spec

=============================================================================
