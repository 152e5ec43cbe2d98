------------------------------ MODULE Searches ------------------------------
(***************************************************************************)
(* The searches of LevenshteinWfst, UniversalLevenshteinWfst and           *)
(* PhoneticWfst as one system: a search of some kind is started and its    *)
(* consumer visits every state it is handed.                               *)
(***************************************************************************)
EXTENDS NodeRegistry

CONSTANTS
    LevenshteinInstances,   \* the sources to search, of each kind
    UniversalInstances,
    PhoneticInstances,
    Texts,                  \* texts for the reference of PhoneticSearch
    WidthFloor, PerDistance, Nothing

VARIABLES
    kind,                   \* which search this is
    source, nodes, states, depths, tasks, issued, cached,   \* see CharWfst
    pending, visited, last  \* the consumer

universalOnly == <<depths, tasks, issued>>

vars == <<kind, source, nodes, states, universalOnly, cached, pending, visited, last>>

L == INSTANCE LevenshteinSearch
       WITH Instances <- LevenshteinInstances, registry <- nodes, remembered <- cached

U == INSTANCE UniversalSearch
       WITH Instances <- UniversalInstances, Threads <- {}, remembered <- cached

P == INSTANCE PhoneticSearch
       WITH Instances <- PhoneticInstances, remembered <- cached

NotUniversal == depths = Nothing /\ tasks = Nothing /\ issued = Nothing

Init ==
    \/ kind = "levenshtein" /\ L!SearchInit /\ states = Nothing /\ NotUniversal
    \/ kind = "universal" /\ U!SearchInit /\ pending = Nothing
    \/ kind = "phonetic" /\ P!SearchInit /\ last = Nothing /\ NotUniversal

VisitLevenshtein ==
    kind = "levenshtein" /\ L!Visit /\ UNCHANGED <<kind, states, universalOnly>>

VisitUniversal == kind = "universal" /\ U!Visit /\ UNCHANGED <<kind, pending>>

VisitPhonetic == kind = "phonetic" /\ P!Visit /\ UNCHANGED <<kind, last, universalOnly>>

Next == VisitLevenshtein \/ VisitUniversal \/ VisitPhonetic

Spec == Init /\ [][Next]_vars

----------------------------------------------------------------------------

(* A finished search accepts exactly the dictionary words within the       *)
(* distance of the query, or of a text its pattern matches, each with that *)
(* distance as its least weight.                                           *)
ExactDistance ==
    CASE kind = "levenshtein" -> L!ExactDistance
      [] kind = "universal"   -> U!ExactDistance
      [] kind = "phonetic"    -> P!ExactDistance

(* The look-ahead of the first half of a transposition or split suffices:  *)
(* a continuation state is never a dead end.                               *)
NoDeadContinuation == kind = "levenshtein" => L!NoDeadContinuation

=============================================================================
