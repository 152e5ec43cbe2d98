--------------------------- MODULE PhoneticSource ---------------------------
(***************************************************************************)
(* PhoneticStateSource: the product of a dictionary with a phonetic NFA    *)
(* and an edit distance.  As in UniversalSource both halves of a state id  *)
(* are dense ids from registries that all clones share: dictionary nodes,  *)
(* and frontiers of the product automaton.  All edges of an expansion are  *)
(* registered in one critical section under both write locks; what it      *)
(* reads before never changes, so an expansion is one step.                *)
(***************************************************************************)
EXTENDS NodeRegistry, PhoneticAnchors, FiniteSetsExt

CONSTANTS
    Instances,   \* sources to build: [nfa, max_distance, words]
    WidthFloor,  \* the least id width, 10,000 in the code
    PerDistance, \* what each distance adds to it, 1,000 in the code
    Nothing      \* no expansion remembered

VARIABLES
    source,      \* the instance under examination, with its id width
    nodes,       \* DictionaryNodeRegistry
    states,      \* ProductStateRegistry: entry i + 1 is frontier id i
    remembered   \* an answer the wrapper cached, [state, arcs, final]

vars == <<source, nodes, states, remembered>>

width == source.width

estimated_phonetic_product_states(k) ==
    Max({WidthFloor, Saturate(Saturate(k + 1) * PerDistance)})

----------------------------------------------------------------------------
(* ProductAutomatonChar of liblevenshtein.  A product state is a closed    *)
(* set of NFA states with the edits made; a frontier is a sequence, in the *)
(* order the automaton works them out, with duplicates.                    *)

At(nfa_states, cost) == [nfa_states |-> nfa_states, accumulated_cost |-> cost]

Consuming(nfa_states) ==
    {t \in transitions_from(source.nfa, nfa_states) : consumes_input(t.label)}

StepNfa(followed) == epsilon_closure(source.nfa, {t.to : t \in followed})

(* The product state, then with one pattern letter skipped, two, and so on. *)
Skipping(p) ==
    LET budget == source.max_distance - p.accumulated_cost
        skipped == FoldLeft(LAMBDA seq, d : Append(seq, StepNfa(Consuming(Last(seq)))),
                            <<p.nfa_states>>, [d \in 1 .. budget |-> d])
    IN  SelectSeq([d \in 1 .. budget + 1 |-> At(skipped[d], p.accumulated_cost + d - 1)],
                  LAMBDA q : q.nfa_states # {})

DeletionClosed(frontier) == FlattenSeq([i \in DOMAIN frontier |-> Skipping(frontier[i])])

initial_frontier ==
    DeletionClosed(<<At(epsilon_closure(source.nfa, {source.nfa.start}), 0)>>)

(* A match, a substitution, a dictionary letter the pattern does not have. *)
ReadLetter(p, letter) ==
    SelectSeq(<<At(StepNfa({t \in Consuming(p.nfa_states) : label_matches(t.label, letter)}),
                   p.accumulated_cost),
                At(StepNfa(Consuming(p.nfa_states)), p.accumulated_cost + 1),
                At(p.nfa_states, p.accumulated_cost + 1)>>,
              LAMBDA q : q.nfa_states # {} /\ q.accumulated_cost <= source.max_distance)

transition_frontier(frontier, letter) ==
    DeletionClosed(FlattenSeq([i \in DOMAIN frontier |-> ReadLetter(frontier[i], letter)]))

min_accepting_distance(frontier) ==
    LET costs == {p.accumulated_cost : p \in {q \in ToSet(frontier) :
                                                q.nfa_states \cap source.nfa.finals # {}}}
    IN  {c \in costs : \A d \in costs : c <= d}

----------------------------------------------------------------------------
(* ProductStateRegistry                                                    *)

(* Costs are whole numbers of edits here, so the rounding to millionths    *)
(* keeps them apart.                                                       *)
product_cost_key(cost) == cost * 1000000

NfaOrder(nfa_states) == SumSet({2 ^ s : s \in nfa_states})

Precedes(p, q) ==
    \/ product_cost_key(p.accumulated_cost) < product_cost_key(q.accumulated_cost)
    \/ /\ p.accumulated_cost = q.accumulated_cost
       /\ NfaOrder(p.nfa_states) < NfaOrder(q.nfa_states)

(* Mutant: the frontier is kept as the automaton worked it out.            *)
KeepFrontier(frontier) == frontier

canonicalize_product_frontier(frontier) ==
    SortSeq(FoldLeft(LAMBDA kept, p : IF p \in ToSet(kept) THEN kept ELSE Append(kept, p),
                     <<>>, frontier), Precedes)

FrontierIds(reg) == 0 .. Len(reg) - 1

get_state(reg, id) == reg[id + 1]

(* The key is the bytes of the canonical frontier.                         *)
state_id_for_key(reg, frontier) == {id \in FrontierIds(reg) : get_state(reg, id) = frontier}

candidate_state_id_for_key(reg, frontier) ==
    IF state_id_for_key(reg, frontier) # {} THEN state_id_for_key(reg, frontier)
    ELSE {id \in {Len(reg)} : id <= MaxU32}

register_prepared_state_with_key(reg, frontier) ==
    IF state_id_for_key(reg, frontier) # {} THEN reg ELSE Append(reg, frontier)

----------------------------------------------------------------------------
(* Expanding a state                                                       *)

Registries == [nodes |-> nodes, states |-> states, arcs |-> {}]

is_valid_product_state(id) ==
    NodeOf(id, width) \in NodeIds(nodes) /\ AutomatonOf(id, width) \in FrontierIds(states)

Successor(frontier, letter) ==
    canonicalize_product_frontier(transition_frontier(frontier, letter))

Target(r, key, next) ==
    UNION {try_encode(c, a, width) : c \in candidate_id(r.nodes, key),
                                     a \in candidate_state_id_for_key(r.states, next)}

(* One edge: both halves get an id, and the arc is emitted, only if the    *)
(* pair of candidate ids fits a StateId.                                   *)
CommitEdge(r, n, frontier, letter) ==
    LET next == Successor(frontier, letter)
        key  == NodeKey(n, letter)
    IN  IF next = <<>> \/ Target(r, key, next) = {} THEN r
        ELSE [nodes  |-> register_node(r.nodes, Append(get_node(r.nodes, n), letter), key),
              states |-> register_prepared_state_with_key(r.states, next),
              arcs   |-> r.arcs \cup {[letter |-> letter, to |-> id] : id \in Target(r, key, next)}]

(* compute_transitions                                                     *)
Expansion(id) ==
    LET n        == NodeOf(id, width)
        frontier == get_state(states, AutomatonOf(id, width))
    IN  FoldLeft(LAMBDA r, letter : CommitEdge(r, n, frontier, letter),
                 Registries, edges(source.words, get_node(nodes, n)))

(* product_final_weight, before it is multiplied by edit_weight            *)
final_weight_for_state(id) ==
    {d \in min_accepting_distance(get_state(states, AutomatonOf(id, width))) :
       get_node(nodes, NodeOf(id, width)) \in source.words}

start == 0

registered_state_id_span == (Len(nodes) - 1) * width + Len(states)

----------------------------------------------------------------------------

from_validated_weights(i) ==
    [nfa |-> normalize_full_string_anchors(i.nfa), pattern |-> i.nfa, words |-> i.words,
     max_distance |-> i.max_distance,
     width |-> estimated_phonetic_product_states(i.max_distance)]

Init ==
    /\ source \in {from_validated_weights(i) : i \in Instances}
    /\ nodes = <<RootEntry>>
    /\ states = <<canonicalize_product_frontier(initial_frontier)>>
    /\ remembered = Nothing

expand_state(id) ==
    /\ is_valid_product_state(id)
    /\ LET e == Expansion(id)
       IN  /\ nodes' = e.nodes
           /\ states' = e.states
           /\ \/ UNCHANGED remembered
              \/ /\ remembered = Nothing
                 /\ remembered' = [state |-> id, arcs |-> e.arcs,
                                   final |-> final_weight_for_state(id)]
    /\ UNCHANGED source

RejectState(id) == ~ is_valid_product_state(id) /\ UNCHANGED vars

Next == \E id \in 0 .. registered_state_id_span : expand_state(id) \/ RejectState(id)

Spec == Init /\ [][Next]_vars

----------------------------------------------------------------------------
(* Properties                                                              *)

ValidStates == {id \in 0 .. registered_state_id_span - 1 : is_valid_product_state(id)}

(* One id per dictionary node and one per frontier, in whatever order the  *)
(* automaton or the clones deliver them, and none for what fits no id.     *)
RegistrySound ==
    /\ \A m, n \in NodeIds(nodes) : get_node(nodes, m) = get_node(nodes, n) => m = n
    /\ \A a, b \in FrontierIds(states) :
          ToSet(get_state(states, a)) = ToSet(get_state(states, b)) => a = b
    /\ \A n \in NodeIds(nodes) : n * width <= MaxU32

(* An arc leads to the child and to the frontier its letter leads to, the  *)
(* frontier as a set: neither its order nor its duplicates matter.         *)
TargetsDenote ==
    \A id \in ValidStates :
       LET e == Expansion(id)
       IN  \A a \in e.arcs :
             /\ get_node(e.nodes, NodeOf(a.to, width)) =
                   Append(get_node(nodes, NodeOf(id, width)), a.letter)
             /\ ToSet(get_state(e.states, AutomatonOf(a.to, width))) =
                   ToSet(transition_frontier(get_state(states, AutomatonOf(id, width)), a.letter))

(* A cached answer is still what expanding the state would give.           *)
AnswersStable ==
    remembered # Nothing =>
       /\ Expansion(remembered.state) = [Registries EXCEPT !.arcs = remembered.arcs]
       /\ final_weight_for_state(remembered.state) = remembered.final

=============================================================================
