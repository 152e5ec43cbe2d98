---------------------------- MODULE RecencyCache ----------------------------
(***************************************************************************)
(* What the lazy state cache promises, without clocks, ticks or heaps: the *)
(* LRU policy keeps its states in a sequence, oldest first; using a state  *)
(* moves it to the end and room is made at the front.  LazyCache           *)
(* implements this specification.                                          *)
(***************************************************************************)
EXTENDS Integers, Sequences

CONSTANTS States, NoState, Sizes

VARIABLES
    recency,         \* Lru: the cached states, least recently used first
    kept,            \* CacheAll: the cached states
    scratch,         \* NoCache: the last computed state
    policy,
    max_lru_states

vars == <<recency, kept, scratch, policy, max_lru_states>>

AtLeastOne(n) == IF n >= 1 THEN n ELSE 1

Limit == IF policy.max_states > 0 THEN policy.max_states ELSE max_lru_states

(* q with its i-th state moved behind all the others.                      *)
MoveToEnd(q, i) ==
    [j \in 1 .. Len(q) |-> IF j < i THEN q[j]
                           ELSE IF j < Len(q) THEN q[j + 1] ELSE q[i]]

(* The n most recently used states of q.                                   *)
Newest(q, n) == IF Len(q) <= n THEN q ELSE SubSeq(q, Len(q) - n + 1, Len(q))

IsCached(s) ==
    s \in kept \/ scratch = s \/ \E i \in 1 .. Len(recency) : recency[i] = s

Reset ==
    /\ recency' = <<>>
    /\ kept' = {}
    /\ scratch' = NoState

Init ==
    /\ recency = <<>>
    /\ kept = {}
    /\ scratch = NoState
    /\ policy = [kind |-> "CacheAll", max_states |-> 0]
    /\ max_lru_states \in {AtLeastOne(n) : n \in Sizes}

(* Using a cached state refreshes it under Lru and changes nothing else.   *)
UseCached(i) ==
    /\ recency' = MoveToEnd(recency, i)
    /\ UNCHANGED <<kept, scratch, policy, max_lru_states>>

Compute(s) ==
    /\ ~ IsCached(s)
    /\ \/ /\ policy.kind = "Lru"
          /\ recency' = Append(Newest(recency, Limit - 1), s)
          /\ UNCHANGED <<kept, scratch>>
       \/ /\ policy.kind = "CacheAll"
          /\ kept' = kept \cup {s}
          /\ UNCHANGED <<recency, scratch>>
       \/ /\ policy.kind = "NoCache"
          /\ scratch' = s
          /\ UNCHANGED <<recency, kept>>
    /\ UNCHANGED <<policy, max_lru_states>>

ChangePolicy(kind, n) ==
    /\ policy' = [kind |-> kind, max_states |-> n]
    /\ Reset
    /\ UNCHANGED max_lru_states

ChangeSize(n) ==
    /\ max_lru_states' = AtLeastOne(n)
    /\ recency' = IF policy.kind = "Lru" /\ policy.max_states = 0
                  THEN Newest(recency, AtLeastOne(n)) ELSE recency
    /\ UNCHANGED <<kept, scratch, policy>>

Clear == Reset /\ UNCHANGED <<policy, max_lru_states>>

Next ==
    \/ \E i \in 1 .. Len(recency) : UseCached(i)
    \/ \E s \in States : Compute(s)
    \/ \E kind \in {"CacheAll", "NoCache"} : ChangePolicy(kind, 0)
    \/ \E n \in Sizes : ChangePolicy("Lru", n) \/ ChangeSize(n)
    \/ Clear

Spec == Init /\ [][Next]_vars

=============================================================================
