-------------------------- MODULE WallBreakerForest --------------------------
(***************************************************************************)
(* WallBreakerWfst: the results of a WallBreaker query as a forest.  All   *)
(* terms lie in one arena of letters, and state `start + p` is the one     *)
(* behind p letters of the term that begins at `start`; state 0 is where   *)
(* every term begins, and stands for the empty term.  Everything is laid   *)
(* out at construction; only the cache changes afterwards.                 *)
(***************************************************************************)
EXTENDS Integers, Sequences, SequencesExt, FiniteSetsExt

CONSTANTS
    Queries,      \* [results, max_distance]; a result is [term, distance]
    MaxStateId,   \* u32::MAX
    MaxExact,     \* the largest distance an f64 represents exactly
    Nothing       \* nothing cached

VARIABLES
    query,         \* the query under examination
    results,       \* after normalisation
    id_to_state,   \* entry i + 1 is state id i
    cached         \* one cache entry, chosen freely

vars == <<query, results, id_to_state, cached>>

SUPER_START_RESULT_INDEX == MaxStateId

Start == [result_index |-> SUPER_START_RESULT_INDEX, char_position |-> 0]

----------------------------------------------------------------------------
(* One result per term, at its least distance, in the place of the first.  *)
normalize_wallbreaker_results(list, max_distance) ==
    FoldLeft(LAMBDA kept, r :
               LET same == {i \in DOMAIN kept : kept[i].term = r.term}
               IN  IF r.distance > max_distance \/ r.distance > MaxExact THEN kept
                   ELSE IF same = {} THEN Append(kept, r)
                   ELSE [i \in DOMAIN kept |->
                           IF i \in same /\ r.distance < kept[i].distance THEN r ELSE kept[i]],
             <<>>, list)

(* Results are numbered from 0, as in the code.                            *)
ResultIds == 0 .. Len(results) - 1

term(r) == results[r + 1].term

(* ResultCharArena: where a term begins, and the letter at a position.     *)
span_start(r) == FoldLeft(LAMBDA n, x : n + Len(x.term), 0, SubSeq(results, 1, r))

char_at(r, pos) == IF r \in ResultIds /\ pos < Len(term(r)) THEN {term(r)[pos + 1]} ELSE {}

state_id_for_position(r, pos) ==
    {id \in {span_start(r) + pos} :
       /\ r \in ResultIds /\ r < SUPER_START_RESULT_INDEX
       /\ pos \in 1 .. Len(term(r))
       /\ id <= MaxStateId}

(* Keys in the order of the arena, as many as there are ids.               *)
build_wallbreaker_state_index(list) ==
    LET keys(r) == [p \in 1 .. Len(list[r].term) |->
                      [result_index |-> r - 1, char_position |-> p]]
        all == <<Start>> \o FlattenSeq([r \in 1 .. Min({Len(list), MaxStateId}) |-> keys(r)])
    IN  SubSeq(all, 1, Min({Len(all), MaxStateId + 1}))

is_valid_state(id) == id \in 0 .. Len(id_to_state) - 1

lookup_state(key) ==
    {id \in (IF key = Start THEN {0}
             ELSE state_id_for_position(key.result_index, key.char_position)) :
       is_valid_state(id) /\ id_to_state[id + 1] = key}

----------------------------------------------------------------------------
empty_result_final_weight ==
    LET found == {results[i].distance : i \in {j \in DOMAIN results :
                    results[j].term = <<>> /\ results[j].distance <= query.max_distance}}
    IN  IF found = {} THEN {} ELSE {Min(found)}

(* The final weight of a state that is not cached.                         *)
final_weight_for_state(id) ==
    LET key == id_to_state[id + 1]
    IN  IF key = Start THEN empty_result_final_weight
        ELSE {results[key.result_index + 1].distance : p \in
                {q \in {key.char_position} : q >= Len(term(key.result_index))}}

ArcsTo(r, pos) ==
    {[letter |-> c, to |-> id] :
       c \in char_at(r, pos),
       id \in lookup_state([result_index |-> r, char_position |-> pos + 1])}

compute_super_start_transitions ==
    [final |-> empty_result_final_weight, arcs |-> UNION {ArcsTo(r, 0) : r \in ResultIds}]

compute_result_state(key) ==
    [final |-> {results[key.result_index + 1].distance : p \in
                  {q \in {key.char_position} : q >= Len(term(key.result_index))}},
     arcs  |-> ArcsTo(key.result_index, key.char_position)]

expand_state(id) ==
    IF id_to_state[id + 1] = Start THEN compute_super_start_transitions
    ELSE compute_result_state(id_to_state[id + 1])

----------------------------------------------------------------------------

Init ==
    /\ query \in Queries
    /\ results = normalize_wallbreaker_results(query.results, query.max_distance)
    /\ id_to_state = build_wallbreaker_state_index(results)
    /\ cached = Nothing

ensure_state(id) ==
    /\ is_valid_state(id)
    /\ cached = Nothing
    /\ cached' = [state |-> id, answer |-> expand_state(id)]
    /\ UNCHANGED <<query, results, id_to_state>>

reject_state(id) == ~ is_valid_state(id) /\ UNCHANGED vars

clear_cache ==
    /\ cached # Nothing
    /\ cached' = Nothing
    /\ UNCHANGED <<query, results, id_to_state>>

Next ==
    \/ clear_cache
    \/ \E id \in 0 .. Len(id_to_state) : ensure_state(id) \/ reject_state(id)

Spec == Init /\ [][Next]_vars

----------------------------------------------------------------------------
(* Properties                                                              *)

TypeOK ==
    /\ Len(id_to_state) \in 1 .. MaxStateId + 1
    /\ \A r, s \in ResultIds : term(r) = term(s) => r = s

(* The two ways to an id agree: every key of the index is found at its own *)
(* place by the arithmetic of the arena, and a state that is not cached    *)
(* is as final as its expansion says.                                      *)
IndexMatchesArena ==
    \A id \in 0 .. Len(id_to_state) - 1 :
       /\ lookup_state(id_to_state[id + 1]) = {id}
       /\ final_weight_for_state(id) = expand_state(id).final

(* A cached answer is what would be computed now.                          *)
CacheCurrent == cached # Nothing => cached.answer = expand_state(cached.state)

(* An arc leads to a state that can be expanded.                           *)
TargetsKnown ==
    cached # Nothing => \A a \in cached.answer.arcs : is_valid_state(a.to)

(* Words and weights accepted from the start.                              *)
Accepted ==
    LET Step(S) == UNION {{[word |-> Append(c.word, a.letter), at |-> a.to] :
                             a \in expand_state(c.at).arcs} : c \in S}
        after[n \in 0 .. Len(id_to_state)] ==
          IF n = 0 THEN {[word |-> <<>>, at |-> 0]}
          ELSE LET S == after[n - 1] IN S \cup Step(S)
    IN  UNION {{[term |-> c.word, distance |-> d] : d \in expand_state(c.at).final} :
                 c \in after[Len(id_to_state)]}

(* What WallBreaker found within the distance, each term at its best.      *)
Best ==
    LET found == {r \in Range(query.results) :
                    r.distance <= query.max_distance /\ r.distance <= MaxExact}
    IN  {r \in found : \A s \in found : s.term = r.term => r.distance <= s.distance}

(* The forest accepts only what was found, and all of it when there are    *)
(* ids for all letters: each term once, at its least distance, the empty   *)
(* term included, although terms share no states and may be repeated.      *)
ForestExact ==
    /\ Accepted \subseteq Best
    /\ FoldLeft(LAMBDA n, r : n + Len(r.term), 0, results) <= MaxStateId
          /\ Len(results) <= MaxStateId
       => Accepted = Best

=============================================================================
