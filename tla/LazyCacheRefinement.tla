------------------------ MODULE LazyCacheRefinement ------------------------
(* What LazyCache keeps with ticks is the recency queue of RecencyCache:   *)
(* the refinement mapping sorts the entries by their ticks.                *)
EXTENDS LazyCache, Sequences

(* How many entries were used no later than s: its place in the queue.     *)
Rank(c, s) == Cardinality({t \in c.entries : c.last_access[t] <= c.last_access[s]})

(* The entries, least recently used first.                                 *)
Order(c) ==
    [k \in 1 .. Cardinality(c.entries) |->
        CHOOSE s \in c.entries : Rank(c, s) = k]

Recency == IF IsLru THEN Order(cache) ELSE <<>>

Kept == IF IsLru THEN {} ELSE cache.entries

Promise == INSTANCE RecencyCache WITH recency <- Recency, kept <- Kept

(* The tick-and-heap cache behaves as the recency sequence of              *)
(* RecencyCache: every eviction of insert and set_max_lru_states removes   *)
(* the least recently used states and no others.                           *)
ImplementsRecencyCache == Promise!Spec

=============================================================================
