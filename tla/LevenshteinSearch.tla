-------------------------- MODULE LevenshteinSearch --------------------------
(***************************************************************************)
(* A consumer of LevenshteinSource: it starts at the start state and       *)
(* expands every state it is handed, smallest id first, as a traversal of  *)
(* the lazy WFST does, until no state is left.  What it can then reach is  *)
(* compared with the edit distance defined by its recurrence.              *)
(***************************************************************************)
EXTENDS LevenshteinSource, EditReference, FiniteSetsExt

VARIABLES
    pending,   \* states handed out and not yet expanded
    visited,   \* states expanded
    last       \* the last state expanded, and its arcs

searchVars == <<source, registry, remembered, pending, visited, last>>

SearchInit ==
    /\ Init
    /\ pending = {start}
    /\ visited = {}
    /\ last = Nothing

Visit ==
    /\ pending # {}
    /\ LET id == Min(pending)
           e  == Expansion(registry, id)
       IN  /\ registry' = e.registry
           /\ visited' = visited \cup {id}
           /\ pending' = (pending \cup {a.to : a \in e.arcs}) \ visited'
           /\ last' = [state |-> id, arcs |-> e.arcs]
    /\ UNCHANGED <<source, remembered>>

SearchSpec == SearchInit /\ [][Visit]_searchVars

----------------------------------------------------------------------------
(* The weights with which the visited part accepts the word w.             *)
AcceptedWeights(w) ==
    UNION {{ModeOf(id).cost + f : f \in final_weight_for_state(registry, id)} :
             id \in {v \in visited : get_node(registry, NodeOf(v, codec.width)) = w}}

Distance(w) == EditDistance(source.query, w, codec.algorithm)

(* The finished search accepts exactly the dictionary words within the     *)
(* distance bound, each with its edit distance as the least weight.        *)
ExactDistance ==
    pending = {} =>
       \A w \in source.words :
          IF Distance(w) <= codec.max_distance
          THEN AcceptedWeights(w) # {} /\ Min(AcceptedWeights(w)) = Distance(w)
          ELSE AcceptedWeights(w) = {}

(* The look-ahead of the first half of a transposition or split suffices:  *)
(* a continuation state is never a dead end.                               *)
NoDeadContinuation ==
    last # Nothing /\ ModeOf(last.state).mode # "normal" => last.arcs # {}

(* The documented reservation of StateId::MAX as lling-llang's NO_STATE.   *)
NoStateNeverEmitted == MaxU32 \notin visited \cup pending

=============================================================================
