----------------------------- MODULE StateCodec -----------------------------
(***************************************************************************)
(* How the Levenshtein state source packs a product state into one u32     *)
(* StateId: an automaton state (mode, query position, edit cost) becomes   *)
(* an automaton id (LevenshteinStateCodec in state_source_support.rs), and *)
(* a dictionary node id with an automaton id becomes a state id (module    *)
(* state_encoding in lib.rs).  Every step may fail to fit: an Option is a  *)
(* set with at most one member.                                            *)
(***************************************************************************)
EXTENDS Integers

CONSTANT MaxU32   \* u32::MAX

ASSUME MaxU32Assumption == MaxU32 \in Nat \ {0}

Saturate(n) == IF n <= MaxU32 THEN n ELSE MaxU32

(* An algorithm is what the codec asks of it.                              *)
Algorithms == [transposition : BOOLEAN, merge_split : BOOLEAN]

----------------------------------------------------------------------------
(* state_encoding                                                          *)

try_encode(dict_node, automaton_state, width) ==
    {id \in {dict_node * width + automaton_state} :
        width > 0 /\ automaton_state < width /\ id <= MaxU32}

NodeOf(id, width) == id \div width

AutomatonOf(id, width) == id % width

bounded_levenshtein_states(query_len, max_distance) ==
    Saturate((query_len + 1) * (max_distance + 1))

----------------------------------------------------------------------------
(* LevenshteinStateCodec.  Slot 0 holds the normal states; each kind of    *)
(* continuation the algorithm has owns a further slot of the same size.    *)

continuation_state_kinds(algorithm) ==
    (IF algorithm.transposition THEN 1 ELSE 0)
      + (IF algorithm.merge_split THEN 2 ELSE 0)

Codec(query_len, max_distance, algorithm) ==
    LET normal == bounded_levenshtein_states(query_len, max_distance)
    IN  [query_len    |-> query_len,
         max_distance |-> max_distance,
         algorithm    |-> algorithm,
         normal       |-> normal,
         width        |-> Saturate(normal * (1 + continuation_state_kinds(algorithm)))]

automaton_stride(c) == Saturate(Saturate(c.max_distance) + 1)

transpose_second_slot(c) == {s \in {1} : c.algorithm.transposition}

merge_second_slot(c) ==
    {s \in {IF c.algorithm.transposition THEN 2 ELSE 1} : c.algorithm.merge_split}

split_second_slot(c) == {s + 1 : s \in merge_second_slot(c)}

SlotOf(c, mode) ==
    CASE mode = "normal"    -> {0}
      [] mode = "transpose" -> transpose_second_slot(c)
      [] mode = "merge"     -> merge_second_slot(c)
      [] mode = "split"     -> split_second_slot(c)

Modes == {"normal", "transpose", "merge", "split"}

encode_automaton_state(c, query_pos, edit_cost) ==
    {s \in {query_pos * automaton_stride(c) + edit_cost} : s < c.normal}

(* encode_transpose_second_state, encode_merge_second_state and            *)
(* encode_split_second_state.                                              *)
continuation_state(c, mode, query_pos, edit_cost) ==
    {s \in {slot * c.normal + base :
              slot \in SlotOf(c, mode),
              base \in encode_automaton_state(c, query_pos, edit_cost)} :
        s < c.width}

decode_automaton_state(c, a) ==
    LET base == a % c.normal
        pos  == base \div automaton_stride(c)
        cost == base % automaton_stride(c)
    IN  {[mode |-> mode, pos |-> pos, cost |-> cost] :
           mode \in {m \in Modes :
               /\ a < c.width
               /\ pos <= c.query_len
               /\ cost <= c.max_distance
               /\ a \div c.normal \in SlotOf(c, m)}}

=============================================================================
