------------------------------ MODULE FzfSource ------------------------------
(***************************************************************************)
(* FzfStateSource: dictionary prefixes with their fzf column, as the       *)
(* states of a WFST whose arcs carry score differences.  All clones share  *)
(* one registry (Arc<RwLock<..>>), found again by parent state and letter. *)
(* An expansion clones its entry, works out the columns of the children    *)
(* without a lock, and registers all of them in one critical section;      *)
(* entries never change, so it is one step.                                *)
(*                                                                         *)
(* A dictionary node is the set of its continuations: in a DAWG prefixes   *)
(* that can be continued alike share their node.                           *)
(***************************************************************************)
EXTENDS FzfCore

CONSTANTS
    MaxU32,      \* the largest StateId
    Instances,   \* sources to build: an FzfCore with [words]
    Nothing      \* no expansion remembered

VARIABLES
    source,      \* the instance under examination, its query folded
    states,      \* FzfStateRegistry: entry i + 1 is state i
    remembered   \* an answer the wrapper cached, [state, arcs, final]

vars == <<source, states, remembered>>

(* A node of the dictionary, its letters in order, and behind a letter.    *)
Letters(node) == {w[1] : w \in node \ {<<>>}}

edges(node) == SetToSortSeq(Letters(node), LAMBDA l, m : l < m)

ChildNode(node, letter) == {Tail(w) : w \in {v \in node \ {<<>>} : v[1] = letter}}

ScoreOrZero(column) == IF column.best_full_score = {} THEN 0 ELSE Max(column.best_full_score)

(* RegisteredFzfState, with the key it is found by.                        *)
Entry(key, node, column) ==
    [key |-> key, node |-> node, column |-> column, path_score |-> ScoreOrZero(column)]

StateIds(reg) == 0 .. Len(reg) - 1

(* Mutant: prefixes that share their node share their state.               *)
NodeKeyed(reg, key, node) == {id \in StateIds(reg) : reg[id + 1].node = node}

child_to_id(reg, key, node) == {id \in StateIds(reg) : reg[id + 1].key = key}

(* Registries as in [states, arcs]; no arc once the ids have run out.      *)
register_child(r, parent, letter, node, column) ==
    LET key   == [parent |-> parent, letter |-> letter]
        known == child_to_id(r.states, key, node)
        ids   == IF known # {} THEN known ELSE {id \in {Len(r.states)} : id <= MaxU32}
        delta == ScoreOrZero(column) - r.states[parent + 1].path_score
    IN  [states |-> IF known # {} \/ ids = {} THEN r.states
                    ELSE Append(r.states, Entry(key, node, column)),
         arcs   |-> r.arcs \cup {[letter |-> letter, to |-> id, delta |-> delta] : id \in ids}]

(* compute_registered_state                                                *)
Expansion(id) ==
    LET entry == states[id + 1]
    IN  FoldLeft(LAMBDA r, letter :
                   register_child(r, id, letter, ChildNode(entry.node, letter),
                                  advance(source, entry.column, letter)),
                 [states |-> states, arcs |-> {}], edges(entry.node))

is_valid_state(id) == id \in StateIds(states)

is_final(id) == <<>> \in states[id + 1].node /\ states[id + 1].column.best_full_score # {}

----------------------------------------------------------------------------

(* with_config refuses a query that is too long.                           *)
Init ==
    /\ source \in {Core(i) : i \in {j \in Instances : Len(j.query) <= j.max_query_chars}}
    /\ states = <<Entry(Nothing, source.words, initial_column(source))>>
    /\ remembered = Nothing

expand_state(id) ==
    /\ is_valid_state(id)
    /\ LET e == Expansion(id)
       IN  /\ states' = e.states
           /\ \/ UNCHANGED remembered
              \/ /\ remembered = Nothing
                 /\ remembered' = [state |-> id, arcs |-> e.arcs, final |-> is_final(id)]
    /\ UNCHANGED source

RejectState(id) == ~ is_valid_state(id) /\ UNCHANGED vars

Next == \E id \in 0 .. Len(states) : expand_state(id) \/ RejectState(id)

Spec == Init /\ [][Next]_vars

----------------------------------------------------------------------------
(* Properties                                                              *)

(* The letters from the start to a state.                                  *)
PathTo(id) ==
    LET path[i \in StateIds(states)] ==
          IF i = 0 THEN <<>>
          ELSE Append(path[states[i + 1].key.parent], states[i + 1].key.letter)
    IN  path[id]

(* Prefixes stay apart although they share nodes of a DAWG: a state's      *)
(* column is that of its letters, so that arc weights telescope to the     *)
(* exact score of FzfScorer, and it accepts just the words that match.     *)
PathsKeptApart ==
    \A id \in StateIds(states) :
       LET path == PathTo(id) IN
       /\ states[id + 1].column = ColumnOf(source, path)
       /\ is_final(id) <=> path \in source.words /\ score_chars(source, path) # {}
       /\ \A a \in Expansion(id).arcs :
             /\ a.delta >= 0
             /\ states[id + 1].path_score + a.delta =
                   ScoreOrZero(ColumnOf(source, Append(path, a.letter)))
             /\ is_valid_state(a.to) =>
                   PathTo(a.to) = Append(path, a.letter)

(* One state per prefix.                                                   *)
StatesDistinct ==
    \A a, b \in StateIds(states) : PathTo(a) = PathTo(b) => a = b

(* A cached answer is still what expanding the state would give.           *)
AnswersStable ==
    remembered # Nothing =>
       /\ Expansion(remembered.state) = [states |-> states, arcs |-> remembered.arcs]
       /\ is_final(remembered.state) = remembered.final

(* FzfConfig::max_candidate_chars, the "maximum accepted candidate length" *)
(* (fzf_support.rs:43): what is longer is not accepted.                    *)
LengthLimitRespected ==
    \A id \in StateIds(states) :
       is_final(id) => Len(PathTo(id)) <= source.max_candidate_chars

=============================================================================
