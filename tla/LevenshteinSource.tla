-------------------------- MODULE LevenshteinSource --------------------------
(***************************************************************************)
(* LevenshteinStateSource: the product of the query's edit automaton with  *)
(* a dictionary, computed one state at a time.  All clones of a source     *)
(* share one registry of dictionary nodes (Arc<RwLock<..>>).  An expansion *)
(* decodes the state id, clones the node, and then holds the write lock    *)
(* while it walks the node's edges, registering each child it emits an arc *)
(* to.  A registered node never changes, so an expansion is one step; the  *)
(* order in which clones expand states is arbitrary, and decides the ids.  *)
(***************************************************************************)
EXTENDS NodeRegistry

CONSTANTS
    Instances,   \* sources to build: [query, max_distance, algorithm, words]
    Nothing      \* no expansion remembered

VARIABLES
    source,      \* the instance under examination, with its codec
    registry,    \* DictionaryNodeRegistry: entry i + 1 is node id i
    remembered   \* an answer the wrapper cached, [state, arcs, final]

vars == <<source, registry, remembered>>

codec == source.codec

query_len == Len(source.query)

(* query_chars[i], indexed from 0; no character past the end.              *)
query_char(i) == IF i < query_len THEN source.query[i + 1] ELSE Epsilon

----------------------------------------------------------------------------
is_final(node) == node \in source.words

(* A child is registered only if some arc to it can be encoded.            *)
register_dictionary_node_for_targets(reg, parent, label, node, targets) ==
    LET key == NodeKey(parent, label)
    IN  IF \E id \in candidate_id(reg, key), t \in targets :
               try_encode(id, t.automaton, codec.width) # {}
        THEN register_node(reg, node, key)
        ELSE reg

----------------------------------------------------------------------------
(* The arcs of a state, before they are encoded: input label, weight and   *)
(* target automaton id of each.                                            *)

Steps(input, weight, automata) ==
    {[input |-> input, weight |-> weight, automaton |-> a] : a \in automata}

When(condition, steps) == {s \in steps : condition}

can_edit(s) == s.cost < codec.max_distance

can_read_query(s) == s.pos < query_len

has_next(s) == s.pos + 1 < query_len

(* Mutant: any two letters count as a match.                               *)
FreeSubstitution(s, label) ==
    When(can_read_query(s),
         Steps(query_char(s.pos), 0, encode_automaton_state(codec, s.pos + 1, s.cost)))

MatchOrSubstitute(s, label) ==
    LET cost == IF can_read_query(s) /\ query_char(s.pos) = label THEN 0 ELSE 1
    IN  When(can_read_query(s) /\ s.cost + cost <= codec.max_distance,
             Steps(query_char(s.pos), cost,
                   encode_automaton_state(codec, s.pos + 1, s.cost + cost)))

Insert(s) ==
    When(can_edit(s), Steps(Epsilon, 1, encode_automaton_state(codec, s.pos, s.cost + 1)))

(* The first halves pay for the whole edit and lead to a continuation.     *)
TransposeFirst(s, label, child) ==
    When(/\ codec.algorithm.transposition
         /\ can_edit(s)
         /\ has_next(s)
         /\ label = query_char(s.pos + 1)
         /\ query_char(s.pos) # query_char(s.pos + 1)
         /\ query_char(s.pos) \in EdgeLabels(source.words, child),
         Steps(query_char(s.pos), 1,
               continuation_state(codec, "transpose", s.pos, s.cost + 1)))

MergeFirst(s) ==
    When(codec.algorithm.merge_split /\ can_edit(s) /\ has_next(s),
         Steps(query_char(s.pos), 1,
               continuation_state(codec, "merge", s.pos, s.cost + 1)))

(* Mutant: no look ahead to whether the child has an edge.                 *)
SplitBlindly(s, child) ==
    When(codec.algorithm.merge_split /\ can_edit(s) /\ can_read_query(s),
         Steps(query_char(s.pos), 1,
               continuation_state(codec, "split", s.pos, s.cost + 1)))

SplitFirst(s, child) ==
    When(/\ codec.algorithm.merge_split
         /\ can_edit(s)
         /\ can_read_query(s)
         /\ EdgeLabels(source.words, child) # {},
         Steps(query_char(s.pos), 1,
               continuation_state(codec, "split", s.pos, s.cost + 1)))

Delete(s) ==
    When(can_read_query(s) /\ can_edit(s),
         Steps(query_char(s.pos), 1,
               encode_automaton_state(codec, s.pos + 1, s.cost + 1)))

(* The second halves finish the edit at no cost.                           *)
TransposeSecond(s, label) ==
    When(has_next(s) /\ label = query_char(s.pos),
         Steps(query_char(s.pos + 1), 0, encode_automaton_state(codec, s.pos + 2, s.cost)))

MergeSecond(s) ==
    When(has_next(s),
         Steps(query_char(s.pos + 1), 0, encode_automaton_state(codec, s.pos + 2, s.cost)))

SplitSecond(s) ==
    When(can_read_query(s),
         Steps(Epsilon, 0, encode_automaton_state(codec, s.pos + 1, s.cost)))

(* Along the dictionary edge `label` to `child`.                           *)
AlongEdge(s, label, child) ==
    CASE s.mode = "normal"    -> MatchOrSubstitute(s, label) \cup Insert(s)
                                   \cup TransposeFirst(s, label, child)
                                   \cup MergeFirst(s) \cup SplitFirst(s, child)
      [] s.mode = "transpose" -> TransposeSecond(s, label)
      [] s.mode = "merge"     -> {}
      [] s.mode = "split"     -> SplitSecond(s)

(* Without moving in the dictionary.                                       *)
InPlace(s) ==
    CASE s.mode = "normal" -> Delete(s)
      [] s.mode = "merge"  -> MergeSecond(s)
      [] OTHER             -> {}

----------------------------------------------------------------------------
(* Expanding a state                                                       *)

DecodedState(id) == decode_automaton_state(codec, AutomatonOf(id, codec.width))

is_valid_product_state(reg, id) ==
    DecodedState(id) # {} /\ NodeOf(id, codec.width) \in NodeIds(reg)

(* Arcs to node `to`, those whose target id fits.                          *)
Arcs(output, to, steps) ==
    UNION {{[input |-> t.input, output |-> output, to |-> id, weight |-> t.weight] :
              id \in try_encode(to, t.automaton, codec.width)} : t \in steps}

(* compute_transitions of a valid state: the registry it leaves, and the   *)
(* arcs.  The loop registers children in edge order; whether an edge got a *)
(* node id is then the same for all its arcs.                              *)
Expansion(reg, id) ==
    LET n       == NodeOf(id, codec.width)
        node    == get_node(reg, n)
        s       == CHOOSE d \in DecodedState(id) : TRUE
        labels  == edges(source.words, node)
        Step(l) == AlongEdge(s, l, Append(node, l))
        after   == FoldLeft(LAMBDA r, l : register_dictionary_node_for_targets(
                                r, n, l, Append(node, l), Step(l)), reg, labels)
    IN  [registry |-> after,
         arcs     |-> Arcs(Epsilon, n, InPlace(s)) \cup
                      UNION {UNION {Arcs(l, c, Step(l)) : c \in get_id(after, NodeKey(n, l))} :
                               l \in EdgeLabels(source.words, node)}]

(* normal_final_weight: the rest of the query is deleted.                  *)
final_weight_for_state(reg, id) ==
    {query_len - s.pos : s \in {d \in DecodedState(id) :
        /\ d.mode = "normal"
        /\ is_final(get_node(reg, NodeOf(id, codec.width)))
        /\ d.cost + (query_len - d.pos) <= codec.max_distance}}

start == 0

registered_state_id_span == Len(registry) * codec.width

with_algorithm(i) ==
    [query |-> i.query, words |-> i.words,
     codec |-> Codec(Len(i.query), i.max_distance, i.algorithm)]

Init ==
    /\ source \in {with_algorithm(i) : i \in Instances}
    /\ registry = <<RootEntry>>
    /\ remembered = Nothing

(* expand_state of a valid state by any clone.  The first expansion worth  *)
(* remembering is chosen freely, so that it stands for every one.          *)
expand_state(id) ==
    /\ is_valid_product_state(registry, id)
    /\ LET e == Expansion(registry, id)
       IN  /\ registry' = e.registry
           /\ \/ UNCHANGED remembered
              \/ /\ remembered = Nothing
                 /\ remembered' = [state |-> id, arcs |-> e.arcs,
                                   final |-> final_weight_for_state(registry, id)]
    /\ UNCHANGED source

(* A state id nobody handed out: InvalidState, nothing is registered.      *)
RejectState(id) ==
    /\ ~ is_valid_product_state(registry, id)
    /\ UNCHANGED vars

Next == \E id \in 0 .. registered_state_id_span : expand_state(id) \/ RejectState(id)

Spec == Init /\ [][Next]_vars

----------------------------------------------------------------------------
(* Properties                                                              *)

ValidStates ==
    {id \in 0 .. registered_state_id_span - 1 : is_valid_product_state(registry, id)}

ModeOf(id) == CHOOSE s \in DecodedState(id) : TRUE

(* The registry is a sequence of nodes of the dictionary, root first, and  *)
(* what is remembered is an expansion.                                     *)
TypeOK ==
    /\ Len(registry) > 0 /\ registry[1] = RootEntry
    /\ \A n \in NodeIds(registry) \ {0} :
          /\ registry[n + 1].key.parent \in 0 .. n - 1
          /\ \E w \in source.words : IsPrefix(get_node(registry, n), w)
    /\ remembered = Nothing \/
          \A a \in remembered.arcs :
             a.to \in 0 .. MaxU32 /\ a.weight \in {0, 1}

(* One id per dictionary node whatever the order of expansions, and no id  *)
(* is spent on a node none of whose states fits a StateId                  *)
(* (register_dictionary_node_for_targets asks before it registers).        *)
RegistrySound ==
    /\ \A m, n \in NodeIds(registry) :
          get_node(registry, m) = get_node(registry, n) => m = n
    /\ \A n \in NodeIds(registry) : n * codec.width <= MaxU32

(* How much of the query a state has read.                                 *)
Consumed(s) == IF s.mode = "normal" THEN s.pos ELSE s.pos + 1

(* Packing loses nothing: along any arc the target's node is the source's  *)
(* extended by the output label, its query position is the source's        *)
(* extended by the input label, and its cost grows by the weight.  So the  *)
(* labels of a path spell the query read and the dictionary word, and its  *)
(* weight is the edit cost, also through the two arcs of a transposition,  *)
(* merge or split.                                                         *)
LabelsSpellBothWords ==
    \A id \in ValidStates :
       LET e == Expansion(registry, id)
           s == ModeOf(id)
           path(reg, i) == get_node(reg, NodeOf(i, codec.width))
       IN  \A a \in e.arcs : LET t == ModeOf(a.to) IN
              /\ path(e.registry, a.to) = path(registry, id)
                    \o (IF a.output = Epsilon THEN <<>> ELSE <<a.output>>)
              /\ SubSeq(source.query, 1, Consumed(t)) =
                    SubSeq(source.query, 1, Consumed(s))
                    \o (IF a.input = Epsilon THEN <<>> ELSE <<a.input>>)
              /\ t.cost = s.cost + a.weight

(* Computing a state again (after an eviction, or in another clone) gives  *)
(* the same arcs with the same ids and registers nothing, no matter which  *)
(* expansions happened in between and also once the ids have run out.      *)
AnswersStable ==
    remembered # Nothing =>
       /\ Expansion(registry, remembered.state)
             = [registry |-> registry, arcs |-> remembered.arcs]
       /\ final_weight_for_state(registry, remembered.state) = remembered.final

=============================================================================
