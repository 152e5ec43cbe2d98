----------------------------- MODULE Standalone -----------------------------
(***************************************************************************)
(* What does not walk a dictionary: PhoneticNfaWfst, RewriteWfst and       *)
(* WallBreakerWfst, the graphs that stand in front of or behind a          *)
(* dictionary product, and the DictionaryBackend of a lattice.  All number *)
(* what they hold densely in one table and answer from it, three of them   *)
(* through a cache; each is used as one system of a kind.                  *)
(***************************************************************************)
EXTENDS Integers, Sequences, FiniteSets

CONSTANTS
    Patterns, Threads, MaxExactRange, Texts,   \* see PhoneticNfa
    Rules, MaxRules, Printable, NoLabel,       \* see RewriteRules
    Queries, MaxExact,                         \* see WallBreakerForest
    Words, Vocabularies,                       \* see DictionaryBackend
    IdLimits,                                  \* the largest id, by kind
    Nothing

(* NFA states are numbered from 0.  What a WallBreaker search returns, and *)
(* the sides of a rule, are texts.                                         *)
ASSUME StandaloneAssumption ==
    /\ IdLimits \in [{"nfa", "rewrite", "wallbreaker", "backend"} -> Nat]
    /\ \A p \in Patterns : /\ p.nfa.size \in Nat
                           /\ p.nfa.start \in 0 .. p.nfa.size - 1
                           /\ \A t \in p.nfa.trans : t.to \in 0 .. p.nfa.size - 1
    /\ MaxRules \in Nat
    /\ Rules \subseteq [input : Seq(Nat), output : Seq(Nat), cost : Int, priority : Int]
    /\ Printable \subseteq Nat /\ IsFiniteSet(Printable)
    /\ MaxExact \in Nat
    /\ Queries \subseteq [results : Seq([term : Seq(Nat), distance : Nat]), max_distance : Nat]
    /\ Vocabularies \subseteq Seq(Words)

VARIABLES
    kind,      \* which of them this is
    given,     \* the pattern, the rules or the WallBreaker query
    table,     \* what the ids stand for, in order
    cached,    \* a cache entry, chosen freely
    tasks,                                                   \* nfa only
    continuation_end_offsets, priority_order, allow_identity,  \* rewrite only
    results,                                                 \* wallbreaker only
    word_to_id                                               \* backend only

rewriteOnly == <<continuation_end_offsets, priority_order, allow_identity>>

vars == <<kind, given, table, cached, tasks, rewriteOnly, results, word_to_id>>

N == INSTANCE PhoneticNfa
       WITH MaxStateId <- IdLimits["nfa"], pattern <- given, registry <- table

R == INSTANCE RewriteRules
       WITH MaxStateId <- IdLimits["rewrite"], rules <- given, continuation_lookup <- table

W == INSTANCE WallBreakerForest
       WITH MaxStateId <- IdLimits["wallbreaker"], query <- given, id_to_state <- table

B == INSTANCE DictionaryBackend
       WITH MaxVocabId <- IdLimits["backend"], id_to_word <- table

NotRewrite ==
    continuation_end_offsets = Nothing /\ priority_order = Nothing /\ allow_identity = Nothing

Init ==
    \/ /\ kind = "nfa" /\ N!Init
       /\ NotRewrite /\ results = Nothing /\ word_to_id = Nothing
    \/ /\ kind = "rewrite" /\ R!Init
       /\ tasks = Nothing /\ results = Nothing /\ word_to_id = Nothing
    \/ /\ kind = "wallbreaker" /\ W!Init
       /\ NotRewrite /\ tasks = Nothing /\ word_to_id = Nothing
    \/ /\ kind = "backend" /\ B!Init
       /\ NotRewrite /\ given = Nothing /\ cached = Nothing /\ tasks = Nothing /\ results = Nothing

UseNfa == kind = "nfa" /\ N!Next /\ UNCHANGED <<kind, rewriteOnly, results, word_to_id>>

UseRewrite == kind = "rewrite" /\ R!Next /\ UNCHANGED <<kind, tasks, results, word_to_id>>

UseWallBreaker ==
    kind = "wallbreaker" /\ W!Next /\ UNCHANGED <<kind, tasks, rewriteOnly, word_to_id>>

UseBackend ==
    kind = "backend" /\ B!Next /\ UNCHANGED <<kind, given, cached, tasks, rewriteOnly, results>>

Next == UseNfa \/ UseRewrite \/ UseWallBreaker \/ UseBackend

Spec == Init /\ [][Next]_vars

----------------------------------------------------------------------------
(* Properties                                                              *)

(* The table and whatever leads to its places agree, each thing in one     *)
(* place: sets that two expansions may miss at the same time, continuation *)
(* states of rules added one by one, letters of an arena found by          *)
(* arithmetic, words found by a map.                                       *)
TablesConsistent ==
    CASE kind = "nfa"         -> N!TypeOK /\ N!SetsInterned
      [] kind = "rewrite"     -> R!TypeOK /\ R!LayoutIncremental
      [] kind = "wallbreaker" -> W!TypeOK /\ W!IndexMatchesArena
      [] kind = "backend"     -> B!VocabularyBijective

(* A cached answer is what would be computed now, whatever was registered  *)
(* while it was worked out or added since.                                 *)
CacheCurrent ==
    CASE kind = "nfa"         -> N!CacheCurrent
      [] kind = "rewrite"     -> R!CacheCurrent
      [] kind = "wallbreaker" -> W!CacheCurrent
      [] kind = "backend"     -> TRUE

(* Each accepts what it was built from and nothing else: the texts that    *)
(* match the pattern, the rewrites of the rules at their costs, the terms  *)
(* found at their least distances.                                         *)
LanguageExact ==
    CASE kind = "nfa"         -> N!RecognisesPattern
      [] kind = "rewrite"     -> R!RewritesExact
      [] kind = "wallbreaker" -> W!ForestExact
      [] kind = "backend"     -> TRUE

(* An arc leads to a state that can be expanded, also when the ids do not  *)
(* suffice for everything.                                                 *)
TargetsKnown ==
    CASE kind = "nfa"         -> N!TargetsKnown
      [] kind = "rewrite"     -> R!TargetsKnown
      [] kind = "wallbreaker" -> W!TargetsKnown
      [] kind = "backend"     -> TRUE

(* An id keeps its meaning for whoever holds it, while sets, rules or      *)
(* words are added.                                                        *)
IdsKeepMeaning ==
    [][\A i \in DOMAIN table : i \in DOMAIN table' /\ table'[i] = table[i]]_vars

=============================================================================
