--------------------------- MODULE PhoneticSearch ---------------------------
(***************************************************************************)
(* A consumer of PhoneticSource that expands every state it is handed.     *)
(* What it accepts is compared with the distance of each word from the     *)
(* texts that match the pattern as it was given, anchors included.         *)
(***************************************************************************)
EXTENDS PhoneticSource, EditReference

CONSTANT Texts   \* the texts a pattern can match near a word

VARIABLES
    pending,   \* states handed out and not yet expanded
    visited    \* states expanded

searchVars == <<vars, pending, visited>>

SearchInit == Init /\ pending = {start} /\ visited = {}

Visit ==
    /\ pending # {}
    /\ LET id == Min(pending)
           e  == Expansion(id)
       IN  /\ nodes' = e.nodes
           /\ states' = e.states
           /\ visited' = visited \cup {id}
           /\ pending' = (pending \cup {a.to : a \in e.arcs}) \ visited'
    /\ UNCHANGED <<source, remembered>>

SearchSpec == SearchInit /\ [][Visit]_searchVars

AcceptedWeights(w) ==
    UNION {final_weight_for_state(id) :
             id \in {v \in visited : get_node(nodes, NodeOf(v, width)) = w}}

PatternDistances(w) ==
    {EditDistance(t, w, [transposition |-> FALSE, merge_split |-> FALSE]) :
       t \in {u \in Texts : Matches(source.pattern, u)}}

(* The finished search accepts exactly the words near a text the pattern   *)
(* matches, each at its least distance: folding the anchors into the NFA   *)
(* (normalize_full_string_anchors) changes no distance.                    *)
ExactDistance ==
    pending = {} =>
       \A w \in source.words :
          LET distances == PatternDistances(w)
          IN  AcceptedWeights(w) = {d \in distances :
                 d <= source.max_distance /\ \A c \in distances : d <= c}

=============================================================================
