--------------------------- MODULE UniversalSource ---------------------------
(***************************************************************************)
(* UniversalLevenshteinStateSource: the product of a dictionary with the   *)
(* universal Levenshtein automaton of one distance, computed one state at  *)
(* a time.  Both halves of a state id are dense ids, given out by two      *)
(* registries that all clones share: dictionary nodes, and pairs of an     *)
(* automaton state with the number of query letters read (the cursor).     *)
(*                                                                         *)
(* An expansion reads its node and its automaton state, works out the      *)
(* successors without a lock, and then registers in two critical sections: *)
(* all dictionary edges under both write locks, then the step that reads a *)
(* query letter alone under the automaton lock.  Entries are never changed *)
(* or removed, so the reads and the work between them and the first        *)
(* section commute with every other activation and are part of its step.   *)
(***************************************************************************)
EXTENDS NodeRegistry, FiniteSetsExt

CONSTANTS
    Instances,   \* sources to build: [query, max_distance, words]
    Threads,     \* activations of expand_state, by any clones
    Nothing      \* no expansion in progress, or remembered

VARIABLES
    source,      \* the instance under examination, with its id width
    nodes,       \* DepthDictionaryNodeRegistry.nodes
    depths,      \* DepthDictionaryNodeRegistry.id_to_depth
    states,      \* UniversalStateRegistry: entry i + 1 is automaton id i
    tasks,       \* the activations between their two critical sections
    issued,      \* history: the state ids handed to callers
    remembered   \* an answer the wrapper cached, [state, arcs, final]

vars == <<source, nodes, depths, states, tasks, issued, remembered>>

query_len == Len(source.query)

max_distance == source.max_distance

width == source.width

(* query_chars.get(pos): no letter at the end of the query.                *)
query_label(pos) == IF pos < query_len THEN source.query[pos + 1] ELSE Epsilon

----------------------------------------------------------------------------
(* The id width: room for (n + 1)(2k + 1) automaton states at each of the  *)
(* n + 1 cursors.                                                          *)

estimate_automaton_states(n, k) == Saturate((n + 1) * (2 * k + 1))

universal_query_state_factor(n) == Saturate(n + 1)

max_automaton_states(n, k) ==
    Saturate(estimate_automaton_states(n, k) * universal_query_state_factor(n))

----------------------------------------------------------------------------
(* The slice of the query a position around `position` can still touch.    *)

(* Mutant: the window ends one letter early.                               *)
ShortWindow(word, k, position) ==
    [false_prefix |-> Max({0, k + 1 - position}),
     units        |-> SubSeq(word, Max({1, position - k}),
                             Min({position + k - 1, Len(word)}))]

relevant_window_at(word, k, position) ==
    [false_prefix |-> Max({0, k + 1 - position}),
     units        |-> SubSeq(word, Max({1, position - k}),
                             Min({position + k + 1, Len(word)}))]

(* Precomputed for the depths an alignment can reach, empty below them.    *)
relevant_subword_for_depth(depth) ==
    IF depth < query_len + max_distance
    THEN relevant_window_at(source.query, max_distance, depth + 1)
    ELSE [false_prefix |-> 0, units |-> <<>>]

(* CharacteristicVector of liblevenshtein: the set bits.                   *)
CharacteristicVector(letter, window) ==
    {window.false_prefix + i : i \in {j \in DOMAIN window.units : window.units[j] = letter}}

----------------------------------------------------------------------------
(* The universal automaton of liblevenshtein, variant Standard.  A state   *)
(* is a set of positions: `offset` is how far the query is ahead of the    *)
(* dictionary path.  Bit offset + k + 1 is the query's next letter.        *)

InitialState == {[offset |-> 0, errors |-> 0]}

Subsumes(p, q) ==
    /\ p.errors < q.errors
    /\ Max({p.offset - q.offset, q.offset - p.offset}) <= q.errors - p.errors

(* Skipped query letters followed by a match, or one edit.                 *)
Successors(p, bits) ==
    {[offset |-> p.offset + j, errors |-> p.errors + j] :
       j \in {i \in 0 .. max_distance - p.errors : p.offset + i + max_distance + 1 \in bits}}
    \cup
    {[offset |-> o, errors |-> p.errors + 1] :
       o \in {o \in {p.offset - 1, p.offset} : p.errors < max_distance}}

(* No successor at all is the empty set.                                   *)
transition(state, bits) ==
    LET reached == UNION {Successors(p, bits) : p \in state}
    IN  {p \in reached : ~ \E better \in reached : Subsumes(better, p)}

(* The least number of edits, when the rest of the query is deleted.       *)
accepting_distance(state, depth) ==
    LET remaining(p) == query_len - (depth + p.offset)
        costs == {p.errors + remaining(p) : p \in {q \in state : remaining(q) >= 0}}
    IN  {c \in costs : c <= max_distance /\ \A d \in costs : c <= d}

----------------------------------------------------------------------------
(* UniversalStateRegistry                                                  *)

universal_state_key(state, query_pos) ==
    [positions |-> state, query_pos |-> query_pos]

StateIds(reg) == 0 .. Len(reg) - 1

registered_state(reg, id) == reg[id + 1]

get_state_id(reg, key) ==
    {id \in StateIds(reg) : universal_state_key(reg[id + 1].state, reg[id + 1].query_pos) = key}

candidate_state_id_for_key(reg, key) ==
    IF get_state_id(reg, key) # {} THEN get_state_id(reg, key)
    ELSE {id \in {Len(reg)} : id <= MaxU32}

register_state_with_key(reg, state, query_pos, key) ==
    IF get_state_id(reg, key) # {} THEN reg
    ELSE Append(reg, [state |-> state, query_pos |-> query_pos])

----------------------------------------------------------------------------
(* Expanding a state.  The registries and the arcs so far are passed along *)
(* as one record.                                                          *)

Registries == [nodes |-> nodes, depths |-> depths, states |-> states, arcs |-> {}]

is_valid_product_state(id) ==
    NodeOf(id, width) \in NodeIds(nodes) /\ AutomatonOf(id, width) \in StateIds(states)

RegisterNodeAtDepth(r, child, key, depth) ==
    IF get_id(r.nodes, key) # {} THEN r
    ELSE [r EXCEPT !.nodes = register_node(r.nodes, child, key), !.depths = Append(@, depth)]

Arcs(input, output, to) == {[input |-> input, output |-> output, to |-> id] : id \in to}

(* What an edge leads to, worked out before any lock is taken.             *)
PendingEdge(r, n, current, letter) ==
    LET depth == r.depths[n + 1]
        next  == transition(current.state,
                            CharacteristicVector(letter, relevant_subword_for_depth(depth)))
        pos   == Min({current.query_pos + 1, query_len})
    IN  [child |-> Append(get_node(r.nodes, n), letter), child_key |-> NodeKey(n, letter),
         depth |-> depth + 1, next |-> next, next_pos |-> pos,
         next_key |-> universal_state_key(next, pos)]

(* The state id the edge would lead to, if it fits.                        *)
CandidateTarget(r, e) ==
    UNION {try_encode(c, a, width) : c \in candidate_id(r.nodes, e.child_key),
                                     a \in candidate_state_id_for_key(r.states, e.next_key)}

(* One dictionary edge: both halves get an id, and the arc is emitted,     *)
(* only if the pair of candidate ids fits a StateId.                       *)
CommitEdge(r, n, current, letter) ==
    LET e     == PendingEdge(r, n, current, letter)
        withN == RegisterNodeAtDepth(r, e.child, e.child_key, e.depth)
    IN  IF e.next = {} \/ CandidateTarget(r, e) = {} THEN r
        ELSE [withN EXCEPT
                !.states = register_state_with_key(@, e.next, e.next_pos, e.next_key),
                !.arcs = @ \cup Arcs(query_label(current.query_pos), letter,
                                     CandidateTarget(r, e))]

(* The first critical section: every edge, in the node's order.            *)
EdgeSection(r, id) ==
    LET n       == NodeOf(id, width)
        current == registered_state(r.states, AutomatonOf(id, width))
    IN  FoldLeft(LAMBDA acc, letter : CommitEdge(acc, n, current, letter),
                 r, edges(source.words, get_node(r.nodes, n)))

CanAdvanceQuery(pos) == pos < query_len

(* The second: read a query letter and stay at the node.                   *)
AdvanceSection(r, id) ==
    LET current == registered_state(r.states, AutomatonOf(id, width))
        pos     == current.query_pos
        key     == universal_state_key(current.state, pos + 1)
        to      == UNION {try_encode(NodeOf(id, width), a, width) :
                            a \in candidate_state_id_for_key(r.states, key)}
    IN  IF ~ CanAdvanceQuery(pos) \/ to = {} THEN r
        ELSE [r EXCEPT !.states = register_state_with_key(@, current.state, pos + 1, key),
                       !.arcs = @ \cup Arcs(query_label(pos), Epsilon, to)]

(* An expansion nobody interferes with.                                    *)
Expansion(id) == AdvanceSection(EdgeSection(Registries, id), id)

(* registered_final_weight: the whole query is read and a word ends here.  *)
final_weight_for_state(id) ==
    LET current == registered_state(states, AutomatonOf(id, width))
        n       == NodeOf(id, width)
    IN  {c \in accepting_distance(current.state, depths[n + 1]) :
           current.query_pos = query_len /\ get_node(nodes, n) \in source.words}

start == 0

(* registered_product_state_id_span                                        *)
registered_state_id_span == (Len(nodes) - 1) * width + Len(states)

----------------------------------------------------------------------------

SourceOf(i) ==
    [query |-> i.query, words |-> i.words, max_distance |-> i.max_distance,
     width |-> max_automaton_states(Len(i.query), i.max_distance)]

Init ==
    /\ source \in {SourceOf(i) : i \in Instances}
    /\ nodes = <<RootEntry>>
    /\ depths = <<0>>
    /\ states = <<[state |-> InitialState, query_pos |-> 0]>>
    /\ tasks = [t \in Threads |-> Nothing]
    /\ issued = {start}
    /\ remembered = Nothing

CommitEdges(t, id) ==
    /\ tasks[t] = Nothing
    /\ is_valid_product_state(id)
    /\ LET e == EdgeSection(Registries, id)
       IN  /\ nodes' = e.nodes
           /\ depths' = e.depths
           /\ states' = e.states
           /\ tasks' = [tasks EXCEPT ![t] = [state |-> id, arcs |-> e.arcs]]
    /\ UNCHANGED <<source, issued, remembered>>

(* The expansion returns its arcs; the first one worth remembering is      *)
(* chosen freely, so that it stands for every one.                         *)
AdvanceQuery(t) ==
    /\ tasks[t] # Nothing
    /\ LET id   == tasks[t].state
           e    == AdvanceSection(Registries, id)
           arcs == tasks[t].arcs \cup e.arcs
       IN  /\ states' = e.states
           /\ issued' = issued \cup {a.to : a \in arcs}
           /\ \/ UNCHANGED remembered
              \/ /\ remembered = Nothing
                 /\ remembered' = [state |-> id, arcs |-> arcs,
                                   final |-> final_weight_for_state(id)]
    /\ tasks' = [tasks EXCEPT ![t] = Nothing]
    /\ UNCHANGED <<source, nodes, depths>>

(* ensure_state of an id that is not valid: nothing is registered.         *)
RejectState(id) == ~ is_valid_product_state(id) /\ UNCHANGED vars

Next ==
    \/ \E t \in Threads : AdvanceQuery(t)
    \/ \E id \in 0 .. registered_state_id_span :
          RejectState(id) \/ \E t \in Threads : CommitEdges(t, id)

Spec == Init /\ [][Next]_vars

----------------------------------------------------------------------------
(* Properties                                                              *)

(* Both registries hold entries of their kind and ids fit a StateId.       *)
TypeOK ==
    /\ Len(nodes) > 0 /\ nodes[1] = RootEntry
    /\ \A n \in NodeIds(nodes) \ {0} : nodes[n + 1].key.parent \in 0 .. n - 1
    /\ \A a \in StateIds(states) : states[a + 1].query_pos \in 0 .. query_len
    /\ issued \subseteq 0 .. MaxU32

(* Node, depth and key stay in step: entry n of id_to_depth is the length  *)
(* of the path to node n, and no dictionary node has two ids, however      *)
(* clones interleave.                                                      *)
DepthsAligned ==
    /\ Len(depths) = Len(nodes)
    /\ \A n \in NodeIds(nodes) : depths[n + 1] = Len(get_node(nodes, n))
    /\ \A m, n \in NodeIds(nodes) : get_node(nodes, m) = get_node(nodes, n) => m = n

(* Every id handed out can be expanded, and spends ids on nothing else:    *)
(* each registered node and automaton state belongs to an id some answer   *)
(* contains or is about to contain.  The pair of candidate ids is tested   *)
(* before either half is registered.                                       *)
NothingStranded ==
    LET given == issued \cup UNION {{a.to : a \in tasks[t].arcs} :
                                      t \in {u \in Threads : tasks[u] # Nothing}}
    IN  /\ \A id \in given : is_valid_product_state(id)
        /\ NodeIds(nodes) = {NodeOf(id, width) : id \in given}
        /\ StateIds(states) = {AutomatonOf(id, width) : id \in given}

ValidStates == {id \in 0 .. registered_state_id_span - 1 : is_valid_product_state(id)}

(* Interned ids keep their meaning: the target of an arc decodes to the    *)
(* node reached by its output letter and to the cursor reached by its      *)
(* input letter, although automaton states are shared between nodes and    *)
(* cursors and clones race for the ids.                                    *)
TargetsDenote ==
    \A id \in ValidStates :
       LET e       == Expansion(id)
           current == registered_state(states, AutomatonOf(id, width))
       IN  \A a \in e.arcs :
              LET target == registered_state(e.states, AutomatonOf(a.to, width))
              IN  /\ get_node(e.nodes, NodeOf(a.to, width)) =
                        get_node(nodes, NodeOf(id, width))
                        \o (IF a.output = Epsilon THEN <<>> ELSE <<a.output>>)
                  /\ SubSeq(source.query, 1, target.query_pos) =
                        SubSeq(source.query, 1, current.query_pos)
                        \o (IF a.input = Epsilon THEN <<>> ELSE <<a.input>>)
                  /\ a.output = Epsilon => target.state = current.state

(* Expanding a state again gives the same arcs with the same ids and       *)
(* registers nothing, whoever registered what between its two critical     *)
(* sections or since, and also once ids have run out.                      *)
AnswersStable ==
    remembered # Nothing =>
       /\ Expansion(remembered.state) = [Registries EXCEPT !.arcs = remembered.arcs]
       /\ final_weight_for_state(remembered.state) = remembered.final

=============================================================================
