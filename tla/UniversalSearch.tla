--------------------------- MODULE UniversalSearch ---------------------------
(***************************************************************************)
(* A consumer of UniversalSource: it starts at the start state and expands *)
(* every state it is handed, smallest id first, until none is left.  All   *)
(* arcs are free; the distance of a word is the final weight of a state at *)
(* which the whole query has been read.                                    *)
(***************************************************************************)
EXTENDS UniversalSource, EditReference

VARIABLES
    visited,   \* states expanded
    last       \* the last state expanded, and its arcs

searchVars == <<vars, visited, last>>

SearchInit ==
    /\ Init
    /\ visited = {}
    /\ last = Nothing

pending == issued \ visited

Visit ==
    /\ pending # {}
    /\ LET id == Min(pending)
           e  == Expansion(id)
       IN  /\ nodes' = e.nodes
           /\ depths' = e.depths
           /\ states' = e.states
           /\ issued' = issued \cup {a.to : a \in e.arcs}
           /\ visited' = visited \cup {id}
           /\ last' = [state |-> id, arcs |-> e.arcs]
    /\ UNCHANGED <<source, tasks, remembered>>

SearchSpec == SearchInit /\ [][Visit]_searchVars

----------------------------------------------------------------------------

AcceptedWeights(w) ==
    UNION {final_weight_for_state(id) :
             id \in {v \in visited : get_node(nodes, NodeOf(v, width)) = w}}

StandardDistance(w) ==
    EditDistance(source.query, w, [transposition |-> FALSE, merge_split |-> FALSE])

(* The finished search accepts exactly the words within the distance, each *)
(* at its edit distance and at no other weight, whatever alignment of the  *)
(* two words the labels of the path spell: the windows of the query, cut   *)
(* at its ends and empty beyond n + k letters, lose nothing.               *)
ExactDistance ==
    pending = {} =>
       \A w \in source.words :
          AcceptedWeights(w) = {d \in {StandardDistance(w)} : d <= max_distance}

(* The edges an expansion would follow if ids did not run out.             *)
LiveEdges(id) ==
    LET n       == NodeOf(id, width)
        current == registered_state(states, AutomatonOf(id, width))
    IN  {l \in EdgeLabels(source.words, get_node(nodes, n)) :
           PendingEdge(Registries, n, current, l).next # {}}

(* The id width "over-counts the deduplicated states, so it is a bound"    *)
(* (docs/architecture/03-state-encoding-and-product-space.md:212): with    *)
(* state ids to spare, no arc is dropped for want of an automaton id.      *)
RadixSuffices ==
    last # Nothing =>
       {a.output : a \in last.arcs} \ {Epsilon} = LiveEdges(last.state)

=============================================================================
