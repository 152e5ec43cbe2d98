------------------------------ MODULE CharWfst ------------------------------
(***************************************************************************)
(* The lazy WFSTs an application holds: LevenshteinWfst, PhoneticWfst,     *)
(* UniversalLevenshteinWfst and FzfWfst.  Each puts a cache in front of a  *)
(* state source whose registries it shares with its clones.  The cache is  *)
(* seen here as the answer it holds for one state, chosen freely, which    *)
(* may be dropped at any time (LazyCache says when); the clones expand     *)
(* states meanwhile.                                                       *)
(***************************************************************************)
EXTENDS Naturals, FiniteSetsExt

CONSTANTS
    StateIdLimits,          \* the largest StateId, by kind of WFST
    LevenshteinInstances,   \* the sources to build, of each kind
    UniversalInstances,
    PhoneticInstances,
    FzfInstances,
    Threads,                \* activations of expand_state
    WidthFloor, PerDistance, CharKind, CharFold, Epsilon, Nothing

VARIABLES
    kind,      \* which WFST this is
    source,    \* its source's configuration
    nodes,     \* the registry of dictionary nodes, where it has one
    states,    \* the registry of automaton states or prefixes
    depths, tasks, issued,   \* see UniversalSource
    cached     \* the answer the cache holds, if any: [state, arcs, final]

universalOnly == <<depths, tasks, issued>>

vars == <<kind, source, nodes, states, universalOnly, cached>>

L == INSTANCE LevenshteinSource
       WITH Instances <- LevenshteinInstances, MaxU32 <- StateIdLimits["levenshtein"],
            registry <- nodes, remembered <- cached

U == INSTANCE UniversalSource
       WITH Instances <- UniversalInstances, MaxU32 <- StateIdLimits["universal"],
            remembered <- cached

P == INSTANCE PhoneticSource
       WITH Instances <- PhoneticInstances, MaxU32 <- StateIdLimits["phonetic"],
            remembered <- cached

F == INSTANCE FzfSource
       WITH Instances <- FzfInstances, MaxU32 <- StateIdLimits["fzf"],
            remembered <- cached

NotUniversal == depths = Nothing /\ tasks = Nothing /\ issued = Nothing

NewLevenshteinWfst ==
    kind = "levenshtein" /\ L!Init /\ states = Nothing /\ NotUniversal

NewUniversalWfst == kind = "universal" /\ U!Init

NewPhoneticWfst == kind = "phonetic" /\ P!Init /\ NotUniversal

NewFzfWfst == kind = "fzf" /\ F!Init /\ nodes = Nothing /\ NotUniversal

Init == NewLevenshteinWfst \/ NewUniversalWfst \/ NewPhoneticWfst \/ NewFzfWfst

----------------------------------------------------------------------------
(* expand, transitions_lazy and the clones' expand_state                   *)

ExpandLevenshtein ==
    kind = "levenshtein" /\ L!Next /\ UNCHANGED <<kind, states, universalOnly>>

ExpandUniversal == kind = "universal" /\ U!Next /\ UNCHANGED kind

ExpandPhonetic ==
    kind = "phonetic" /\ P!Next /\ UNCHANGED <<kind, universalOnly>>

ExpandFzf ==
    kind = "fzf" /\ F!Next /\ UNCHANGED <<kind, nodes, universalOnly>>

(* clear_cache, an eviction, or set_cache_policy to NoCache.               *)
clear_cache ==
    /\ cached # Nothing
    /\ cached' = Nothing
    /\ UNCHANGED <<kind, source, nodes, states, universalOnly>>

Next ==
    \/ ExpandLevenshtein
    \/ ExpandUniversal
    \/ ExpandPhonetic
    \/ ExpandFzf
    \/ clear_cache

Spec == Init /\ [][Next]_vars

----------------------------------------------------------------------------
(* What a WFST answers without expanding anything                          *)

is_valid_state(id) ==
    CASE kind = "levenshtein" -> L!is_valid_product_state(nodes, id)
      [] kind = "universal"   -> U!is_valid_product_state(id)
      [] kind = "phonetic"    -> P!is_valid_product_state(id)
      [] kind = "fzf"         -> F!is_valid_state(id)

(* Mutant: automaton ids are counted as if every node had all of them.     *)
NodesTimesStates == Cardinality(U!NodeIds(nodes)) * Cardinality(U!StateIds(states))

UniversalSpan == U!registered_state_id_span

(* num_states, without the hint of a dictionary that knows its size.       *)
num_states ==
    CASE kind = "levenshtein" -> L!registered_state_id_span
      [] kind = "universal"   -> UniversalSpan
      [] kind = "phonetic"    -> P!registered_state_id_span
      [] kind = "fzf"         -> Cardinality(F!StateIds(states))

----------------------------------------------------------------------------
(* Properties                                                              *)

(* What the cache answers is what the source would: expanding the state    *)
(* again, after an eviction or in a clone, gives the same arcs with the    *)
(* same ids and the same final weight and registers nothing, whatever was  *)
(* expanded in between, and also once ids have run out.                    *)
AnswersStable ==
    CASE kind = "levenshtein" -> L!AnswersStable
      [] kind = "universal"   -> U!AnswersStable
      [] kind = "phonetic"    -> P!AnswersStable
      [] kind = "fzf"         -> F!AnswersStable

(* Every id an answer contains can be expanded in turn and is counted by   *)
(* num_states, also when ids run out in the middle of an edge loop; and no *)
(* id is spent on half a state.                                            *)
EmittedStatesValid ==
    /\ cached # Nothing =>
          \A a \in cached.arcs : is_valid_state(a.to) /\ a.to < num_states
    /\ kind = "universal" => U!NothingStranded

(* The labels of an arc say where it leads: to the child and the query     *)
(* cursor they name, at the cost they charge, although ids are shared      *)
(* between nodes, between cursors, and between racing clones.              *)
ArcsDenote ==
    CASE kind = "levenshtein" -> L!LabelsSpellBothWords
      [] kind = "universal"   -> U!TargetsDenote
      [] kind = "phonetic"    -> P!TargetsDenote
      [] kind = "fzf"         -> F!PathsKeptApart

(* The registries hold what they should, each thing once: one id for a     *)
(* dictionary node, an automaton state or a frontier, whoever registered   *)
(* it first and in whatever form, and none for what fits no state id.      *)
RegistriesCanonical ==
    CASE kind = "levenshtein" -> L!TypeOK /\ L!RegistrySound
      [] kind = "universal"   -> U!TypeOK /\ U!DepthsAligned
      [] kind = "phonetic"    -> P!RegistrySound
      [] kind = "fzf"         -> F!StatesDistinct

=============================================================================
