------------------------------ MODULE LazyCache ------------------------------
(***************************************************************************)
(* The private state cache every lazy WFST of the crate owns               *)
(* (LazyStateCache in lazy_cache.rs), together with the expansion entry    *)
(* point of the wrappers that fills it (LazyWfst::expand and               *)
(* transitions_lazy, through ensure_cached_char_state).                    *)
(*                                                                         *)
(* The LRU policy is implemented with a clock, a last-access tick per      *)
(* entry and a lazily cleaned min-heap of (tick, state) records: a touch   *)
(* pushes a new record and leaves the old one behind as a stale one, the   *)
(* heap is rebuilt when it grows too large, and the ticks are renumbered   *)
(* when the clock is exhausted.  What the cache promises (capacity, exact  *)
(* least-recently-used eviction, the requested state stays readable) must  *)
(* survive all three mechanisms.                                           *)
(*                                                                         *)
(* The cached payload (finality, weight, arcs) is abstracted away: an      *)
(* entry is written once per insertion and never edited, so which states   *)
(* are resident is all the properties tell apart.                          *)
(***************************************************************************)
EXTENDS Integers, FiniteSets

CONSTANTS
    States,      \* state ids the wrapper may be asked for
    NoState,     \* stands for Option::None in scratch and in `ensured`
    Sizes,       \* the sizes a caller may pass (max_states, max_lru_states)
    MaxClock,    \* u64::MAX, the value at which the clock is renumbered
    HeapFactor,  \* 4: the heap may hold this many records per entry ...
    HeapFloor    \* 64: ... or this many, before it is compacted

ASSUME StatesAssumption ==
    /\ IsFiniteSet(States)
    /\ NoState \notin States

ASSUME SizesAssumption == Sizes \subseteq Nat

(* State ids are u32 and the clock is a u64, so the clock can always count *)
(* the entries with room to spare.                                         *)
ASSUME ClockAssumption ==
    /\ MaxClock \in Nat
    /\ Cardinality(States) < MaxClock

ASSUME HeapAssumption == HeapFactor \in Nat /\ HeapFloor \in Nat

VARIABLES
    cache,           \* [entries, last_access, lru_heap, clock]
    scratch,         \* the one state NoCache keeps, or NoState
    policy,          \* [kind, max_states]
    max_lru_states,  \* the size Lru{max_states: 0} falls back to
    ensured          \* history: the state of the last successful expand

vars == <<cache, scratch, policy, max_lru_states, ensured>>

Ticks == 0 .. MaxClock

Policies == [kind : {"CacheAll", "NoCache"}, max_states : {0}]
               \cup [kind : {"Lru"}, max_states : Sizes]

CacheStates ==
    [entries     : SUBSET States,
     last_access : [States -> Ticks],
     lru_heap    : SUBSET (Ticks \X States),
     clock       : Ticks]

Larger(m, n) == IF m >= n THEN m ELSE n

----------------------------------------------------------------------------
(* The private helpers of LazyStateCache, as functions of the cache.       *)

EmptyCache ==
    [entries     |-> {},
     last_access |-> [s \in States |-> 0],
     lru_heap    |-> {},
     clock       |-> 0]

RecordOf(c, s) == <<c.last_access[s], s>>

(* A heap record is live when it carries its state's current tick.         *)
IsLive(c, s) == s \in c.entries /\ RecordOf(c, s) \in c.lru_heap

Aged(c) == {s \in c.entries : c.last_access[s] > 0}

rebuild_lru_heap(c) ==
    [c EXCEPT !.lru_heap = {RecordOf(c, s) : s \in Aged(c)}]

compact_lru_heap_if_needed(c) ==
    IF Cardinality(c.lru_heap)
         > Larger(HeapFactor * Cardinality(c.entries), HeapFloor)
    THEN rebuild_lru_heap(c)
    ELSE c

(* Mutant: the renumbering sort runs newest first.                         *)
YouthRank(c, s) ==
    Cardinality({t \in Aged(c) : c.last_access[t] >= c.last_access[s]})

(* Renumber the ticks 1, 2, 3, ... in age order.  Sorting by (tick, state) *)
(* and counting is the rank of the tick, as ticks are distinct.            *)
AgeRank(c, s) ==
    Cardinality({t \in Aged(c) : c.last_access[t] <= c.last_access[s]})

(* Mutant: the heap is not rebuilt after the ticks change.                 *)
RenumberKeepingHeap(c) ==
    [entries     |-> c.entries,
     last_access |-> [s \in States |-> IF s \in Aged(c) THEN AgeRank(c, s)
                                       ELSE c.last_access[s]],
     lru_heap    |-> c.lru_heap,
     clock       |-> Cardinality(Aged(c))]

renumber_lru_ticks(c) ==
    rebuild_lru_heap(
        [entries     |-> c.entries,
         last_access |-> [s \in States |-> IF s \in Aged(c) THEN AgeRank(c, s)
                                           ELSE c.last_access[s]],
         lru_heap    |-> c.lru_heap,
         clock       |-> Cardinality(Aged(c))])

(* Mutant: no renumbering when the clock is exhausted.                     *)
TickUnbounded(c) == [c EXCEPT !.clock = @ + 1]

next_tick(c) ==
    LET d == IF c.clock = MaxClock THEN renumber_lru_ticks(c) ELSE c
    IN  [d EXCEPT !.clock = IF @ = MaxClock THEN MaxClock ELSE @ + 1]

(* What insert and touch share: take a tick, stamp the entry, push its     *)
(* record, compact.                                                        *)
Stamp(c, s) ==
    LET d == next_tick(c)
    IN  compact_lru_heap_if_needed(
            [entries     |-> d.entries \cup {s},
             last_access |-> [d.last_access EXCEPT ![s] = d.clock],
             lru_heap    |-> d.lru_heap \cup {<<d.clock, s>>},
             clock       |-> d.clock])

(* pop_lru_victim repeated: records leave the heap in tick order, stale    *)
(* ones are discarded, live ones take their entry with them, until at most *)
(* `limit` entries remain or the heap is empty.  An entry without a live   *)
(* record cannot be chosen but still counts.                               *)
Outlives(c, s, limit) ==
    \/ ~ IsLive(c, s)
    \/ Cardinality({t \in c.entries :
           ~ IsLive(c, t) \/ c.last_access[t] >= c.last_access[s]}) <= limit

pop_lru_victims(c, limit) ==
    LET kept   == {s \in c.entries : Outlives(c, s, limit)}
        gone   == c.entries \ kept
    IN  [entries     |-> kept,
         last_access |-> [s \in States |-> IF s \in kept THEN c.last_access[s] ELSE 0],
         lru_heap    |-> {r \in c.lru_heap : \A v \in gone : r[1] > c.last_access[v]},
         clock       |-> c.clock]

(* The eviction loops: when the heap runs out of live records, rebuild it  *)
(* from the entries and go on.                                             *)
(* Mutant: the loop stops one entry early (> for >=).                      *)
EvictOneShort(c, limit) == pop_lru_victims(c, limit + 1)

EvictDownTo(c, limit) ==
    LET d == pop_lru_victims(c, limit)
    IN  IF Cardinality(d.entries) <= limit THEN d
        ELSE pop_lru_victims(rebuild_lru_heap(d), limit)

lru_limit(max_states) ==
    Larger(IF max_states > 0 THEN max_states ELSE max_lru_states, 1)

IsLru == policy.kind = "Lru"

----------------------------------------------------------------------------
(* The public operations.                                                  *)

(* get: what transitions, is_final and final_weight can read.              *)
Readable(s) == s \in cache.entries \/ scratch = s

Init ==
    /\ cache = EmptyCache
    /\ scratch = NoState
    /\ policy = [kind |-> "CacheAll", max_states |-> 0]
    /\ max_lru_states \in {Larger(n, 1) : n \in Sizes}
    /\ ensured = NoState

InsertNoCache(s) ==
    /\ policy.kind = "NoCache"
    /\ scratch' = s
    /\ UNCHANGED cache

InsertCacheAll(s) ==
    /\ policy.kind = "CacheAll"
    /\ cache' = [cache EXCEPT !.entries = @ \cup {s}]
    /\ scratch' = NoState

(* Mutant: insert makes room by dropping the newest entries.               *)
InsertLruOverNewest(s) ==
    /\ IsLru
    /\ cache' = Stamp(LET limit == lru_limit(policy.max_states) - 1
                          young == {t \in cache.entries :
                                      Cardinality({u \in cache.entries :
                                        cache.last_access[u] <= cache.last_access[t]}) > limit}
                      IN  IF s \in cache.entries THEN cache
                          ELSE [cache EXCEPT !.entries = @ \ young], s)
    /\ scratch' = NoState

InsertLru(s) ==
    /\ IsLru
    /\ cache' = Stamp(IF s \in cache.entries THEN cache
                      ELSE EvictDownTo(cache, lru_limit(policy.max_states) - 1), s)
    /\ scratch' = NoState

insert(s) == InsertNoCache(s) \/ InsertCacheAll(s) \/ InsertLru(s)

touch(s) == cache' = IF IsLru THEN Stamp(cache, s) ELSE cache

(* expand of a state that touch_if_cached finds.                           *)
ExpandHit(s) ==
    /\ Readable(s)
    /\ IF s \in cache.entries THEN touch(s) ELSE UNCHANGED cache
    /\ ensured' = s
    /\ UNCHANGED <<scratch, policy, max_lru_states>>

(* expand of a state that is not cached and that the source computes.      *)
ExpandMiss(s) ==
    /\ ~ Readable(s)
    /\ insert(s)
    /\ ensured' = s
    /\ UNCHANGED <<policy, max_lru_states>>

(* expand of an invalid state, or one whose computation fails or is        *)
(* cancelled: the error is returned before insert, nothing is cached.      *)
ExpandError(s) ==
    /\ ~ Readable(s)
    /\ UNCHANGED vars

set_policy(p) ==
    /\ policy' = p
    /\ cache' = EmptyCache
    /\ scratch' = NoState
    /\ ensured' = NoState
    /\ UNCHANGED max_lru_states

(* Mutant: the eviction uses the size as passed, before max(1).            *)
SetMaxUnclamped(n) ==
    /\ max_lru_states' = Larger(n, 1)
    /\ cache' = IF IsLru /\ policy.max_states = 0
                THEN EvictDownTo(cache, n) ELSE cache
    /\ UNCHANGED <<scratch, policy, ensured>>

set_max_lru_states(n) ==
    /\ max_lru_states' = Larger(n, 1)
    /\ cache' = IF IsLru /\ policy.max_states = 0
                THEN EvictDownTo(cache, Larger(n, 1)) ELSE cache
    /\ UNCHANGED <<scratch, policy, ensured>>

clear ==
    /\ cache' = EmptyCache
    /\ scratch' = NoState
    /\ ensured' = NoState
    /\ UNCHANGED <<policy, max_lru_states>>

Next ==
    \/ \E s \in States : ExpandHit(s) \/ ExpandMiss(s) \/ ExpandError(s)
    \/ \E p \in Policies : set_policy(p)
    \/ \E n \in Sizes : set_max_lru_states(n)
    \/ clear

Spec == Init /\ [][Next]_vars

----------------------------------------------------------------------------
(* Properties.                                                             *)

(* The fields of LazyStateCache have their types, and no tick exceeds the  *)
(* clock's range.                                                          *)
TypeOK ==
    /\ cache \in CacheStates
    /\ scratch \in States \cup {NoState}
    /\ policy \in Policies
    /\ max_lru_states \in Nat \ {0}
    /\ ensured \in States \cup {NoState}

(* The heap is a faithful index of the entries: ticks identify entries,    *)
(* none lies in the future, and every entry has its live record, across    *)
(* stale records, compaction and tick renumbering.  So evict_one_lru       *)
(* always finds a victim, and it is the oldest entry.                      *)
TicksDistinct(c) ==
    \A s, t \in c.entries : c.last_access[s] = c.last_access[t] => s = t

TicksPast(c) == \A s \in c.entries : c.last_access[s] \in 1 .. c.clock

RecordsPast(c) == \A r \in c.lru_heap : r[1] <= c.clock

EveryEntryIndexed(c) == \A s \in c.entries : RecordOf(c, s) \in c.lru_heap

IndexOK(c) ==
    /\ TicksDistinct(c)
    /\ TicksPast(c)
    /\ RecordsPast(c)
    /\ EveryEntryIndexed(c)

HeapIndexesEntries == IsLru => IndexOK(cache)

(* Under the LRU policy the cache never holds more states than its limit,  *)
(* whatever order of inserts, touches and limit changes led here.          *)
WithinCapacity ==
    IsLru => Cardinality(cache.entries) <= lru_limit(policy.max_states)

(* The state an expand last succeeded for can still be read (its arcs are  *)
(* what transitions(state) returns) until the cache is explicitly reset:   *)
(* neither its own insertion nor a smaller limit evicts it.                *)
EnsuredReadable == ensured # NoState => Readable(ensured)

(* A step that evicts keeps the more recently used states: whatever leaves *)
(* the cache while others stay is older than all that were there and stay. *)
EvictsOldestFirst ==
    [][ cache'.entries # {} /\ IsLru =>
          \A v \in cache.entries \ cache'.entries :
             \A k \in cache.entries \cap cache'.entries :
                cache.last_access[v] < cache.last_access[k] ]_vars

=============================================================================
