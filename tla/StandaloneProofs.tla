--------------------------- MODULE StandaloneProofs ---------------------------
(***************************************************************************)
(* The tables of the graphs that stand alone, for every pattern, rule set, *)
(* list of results and vocabulary, and every limit on ids.                 *)
(*                                                                         *)
(* NfaInv: between the read and the write section of an expansion, the     *)
(* targets it knows and those it has still to register are together the    *)
(* successors of its state (TaskOK), whatever another activation registers *)
(* meanwhile; so its answer does not depend on who registered what.        *)
(* RewriteInv: tables laid out rule by rule are those of all rules laid    *)
(* out at once; the order of emission is the one listing of the rules by   *)
(* priority and age.  WallBreakerInv: the arithmetic of the arena and its  *)
(* index agree up to the cut.  BackendInv: the two maps are inverse.       *)
(*                                                                         *)
(* Expansion is restated with its variables as arguments where an answer   *)
(* given in one state is compared with that of a later one.                *)
(***************************************************************************)
EXTENDS Standalone, OrderLemmas, SequencesExt, FiniteSetTheorems, FunctionTheorems,
        SequenceTheorems, TLAPS

----------------------------------------------------------------------------
(* The vocabulary of a lattice                                             *)

(* The two directions, entry by entry.                                     *)
VocabularyOK(v) ==
    /\ v.words \in Seq(Words)
    /\ Len(v.words) <= IdLimits["backend"]
    /\ DOMAIN v.ids = Range(v.words)
    /\ \A i \in DOMAIN v.words : v.ids[v.words[i]] = i - 1

BackendInv == VocabularyOK([ids |-> word_to_id, words |-> table])

TryIntern(v, word) == B!try_intern(v, word)

BF == INSTANCE OrderLemmas WITH Combine <- TryIntern

(* Interning keeps the directions, and adds at the end if it adds.         *)
LEMMA InternOK ==
    ASSUME NEW v, VocabularyOK(v), NEW word \in Words
    PROVE  /\ VocabularyOK(TryIntern(v, word))
           /\ \A i \in DOMAIN v.words : /\ i \in DOMAIN TryIntern(v, word).words
                                        /\ TryIntern(v, word).words[i] = v.words[i]
<1> DEFINE w == TryIntern(v, word)
           n == Len(v.words)
<1>1. n \in Nat /\ DOMAIN v.words = 1 .. n /\ v.words \in Seq(Words)
  BY DEF VocabularyOK
<1>2. CASE w = v
  BY <1>2
<1>3. CASE w # v
  <2>1. /\ word \notin DOMAIN v.ids
        /\ n < IdLimits["backend"]
        /\ w = [ids   |-> [x \in DOMAIN v.ids \cup {word} |->
                             IF x = word THEN n ELSE v.ids[x]],
                words |-> Append(v.words, word)]
    BY <1>3 DEF TryIntern, B!try_intern, B!next_vocab_id, B!VOCAB_ID_EXHAUSTED
  <2>2. /\ w.words \in Seq(Words) /\ Len(w.words) = n + 1 /\ DOMAIN w.words = 1 .. n + 1
        /\ w.words[n + 1] = word
        /\ \A i \in 1 .. n : w.words[i] = v.words[i]
    BY <1>1, <2>1, AppendShape
  <2>3. IdLimits["backend"] \in Nat
    BY StandaloneAssumption
  <2>4. DOMAIN w.ids = DOMAIN v.ids \cup {word}
    BY <2>1
  <2>5. Range(w.words) = Range(v.words) \cup {word}
    <3>1. ASSUME NEW x \in Range(w.words) PROVE x \in Range(v.words) \cup {word}
      <4>1. PICK i \in 1 .. n + 1 : w.words[i] = x
        BY <2>2, <3>1 DEF Range
      <4>2. i = n + 1 \/ i \in 1 .. n
        BY <1>1
      <4> QED BY <1>1, <2>2, <4>1, <4>2 DEF Range
    <3>2. ASSUME NEW x \in Range(v.words) \cup {word} PROVE x \in Range(w.words)
      <4>1. x = word \/ \E i \in 1 .. n : v.words[i] = x
        BY <1>1 DEF Range
      <4>2. n + 1 \in 1 .. n + 1 /\ \A i \in 1 .. n : i \in 1 .. n + 1
        BY <1>1
      <4> QED BY <2>2, <4>1, <4>2 DEF Range
    <3> QED BY <3>1, <3>2
  <2>6. ASSUME NEW i \in 1 .. n + 1 PROVE w.ids[w.words[i]] = i - 1
    <3>1. CASE i = n + 1
      BY <1>1, <2>1, <2>2, <3>1
    <3>2. CASE i \in 1 .. n
      <4>1. v.words[i] \in DOMAIN v.ids /\ v.ids[v.words[i]] = i - 1
        BY <1>1, <3>2 DEF VocabularyOK, Range
      <4> QED BY <2>1, <2>2, <3>2, <4>1
    <3> QED BY <1>1, <3>1, <3>2
  <2>7. DOMAIN w.ids = Range(w.words)
    BY <2>4, <2>5 DEF VocabularyOK
  <2>8. n + 1 <= IdLimits["backend"]
    BY <1>1, <2>1, <2>3
  <2>9. VocabularyOK(w)
    BY <2>2, <2>6, <2>7, <2>8 DEF VocabularyOK
  <2> QED BY <1>1, <2>2, <2>9
<1> QED BY <1>2, <1>3

(* A list of terms is interned one by one.                                 *)
LEMMA VocabularyBuilt ==
    ASSUME NEW terms \in Seq(Words)
    PROVE  VocabularyOK(BF!Fold([ids |-> <<>>, words |-> <<>>], terms))
<1> DEFINE none == [ids |-> <<>>, words |-> <<>>]
           n == Len(terms)
<1>1. PICK g : /\ DOMAIN g = 0 .. n
               /\ g[0] = none
               /\ \A i \in 1 .. n : g[i] = TryIntern(g[i - 1], terms[i])
               /\ g[n] = BF!Fold(none, terms)
  BY BF!FoldSteps
<1> DEFINE Missing == {k \in Nat : k <= n /\ ~ VocabularyOK(g[k])}
<1>0. n \in Nat
  OBVIOUS
<1> SUFFICES ASSUME n \in Missing PROVE FALSE
  BY <1>0, <1>1
<1>2. PICK k \in Missing : \A j \in Missing : k <= j
  <2>1. Missing \in SUBSET Nat
    OBVIOUS
  <2> HIDE DEF Missing
  <2> QED BY <2>1, LeastElement
<1>3. VocabularyOK(none)
  <2>1. Range(<<>>) = {} /\ DOMAIN <<>> = {} /\ <<>> \in Seq(Words) /\ Len(<<>>) = 0
    BY DEF Range
  <2>2. 0 <= IdLimits["backend"]
    BY StandaloneAssumption
  <2> QED BY <2>1, <2>2 DEF VocabularyOK
<1>4. k # 0
  BY <1>1, <1>2, <1>3
<1>5. k - 1 \notin Missing /\ k - 1 \in Nat /\ k \in 1 .. n
  BY <1>0, <1>2, <1>4
<1>6. VocabularyOK(g[k - 1])
  BY <1>5, <1>0
<1>7. terms[k] \in Words /\ g[k] = TryIntern(g[k - 1], terms[k])
  BY <1>1, <1>5
<1> QED BY <1>2, <1>6, <1>7, InternOK

(* Words and ids are numbered one to one, below the sentinel.              *)
LEMMA BackendBijective ==
    ASSUME BackendInv PROVE B!VocabularyBijective
<1> DEFINE v == [ids |-> word_to_id, words |-> table]
           n == Len(table)
<1>1. /\ n \in Nat /\ DOMAIN table = 1 .. n /\ n <= IdLimits["backend"]
      /\ DOMAIN word_to_id = Range(table)
      /\ \A i \in 1 .. n : word_to_id[table[i]] = i - 1
  BY DEF BackendInv, VocabularyOK
<1>2. Cardinality(DOMAIN word_to_id) = n
  <2>1. [i \in 1 .. n |-> table[i]] \in Bijection(1 .. n, Range(table))
    BY <1>1 DEF Bijection, Injection, Surjection, Range, IsInjective
  <2>2. ExistsBijection(1 .. n, Range(table))
    BY <2>1 DEF ExistsBijection
  <2> QED BY <1>1, <2>2, FS_CountingElements
<1>3. ASSUME NEW word \in DOMAIN word_to_id PROVE B!lookup(word_to_id[word]) = {word}
  <2>1. PICK i \in 1 .. n : table[i] = word
    BY <1>1 DEF Range
  <2>2. word_to_id[word] = i - 1 /\ i - 1 + 1 = i /\ DOMAIN table \cap {i} = {i}
    BY <1>1, <2>1
  <2> QED BY <2>1, <2>2 DEF B!lookup
<1>4. B!lookup(IdLimits["backend"]) = {}
  <2>1. IdLimits["backend"] \in Nat
    BY StandaloneAssumption
  <2>2. DOMAIN table \cap {IdLimits["backend"] + 1} = {}
    BY <1>1, <2>1
  <2> QED BY <2>2 DEF B!lookup
<1>5. B!Cardinality(DOMAIN word_to_id) = Cardinality(DOMAIN word_to_id)
  BY DEF B!Cardinality, Cardinality
<1> QED BY <1>1, <1>2, <1>3, <1>4, <1>5 DEF B!VocabularyBijective, B!VOCAB_ID_EXHAUSTED

(* An initial vocabulary has been interned word by word.                   *)
LEMMA BackendInit == ASSUME B!Init PROVE BackendInv
<1> DEFINE none == [ids |-> <<>>, words |-> <<>>]
<1>1. PICK terms \in Vocabularies :
         LET v == B!FoldLeft(B!try_intern, none, terms)
         IN  word_to_id = v.ids /\ table = v.words
  BY DEF B!Init
<1>2. B!FoldLeft(B!try_intern, none, terms) = BF!Fold(none, terms)
  BY DEF BF!Fold, BF!FoldLeft, B!FoldLeft, BF!MapThenFoldSet, B!MapThenFoldSet, BF!Max, B!Max,
         TryIntern
<1>3. terms \in Seq(Words)
  BY StandaloneAssumption
<1>4. VocabularyOK(BF!Fold(none, terms))
  BY <1>3, VocabularyBuilt
<1> QED BY <1>1, <1>2, <1>4 DEF BackendInv, VocabularyOK

(* A step of a lattice keeps the vocabulary and only adds to it.           *)
LEMMA BackendStep ==
    ASSUME BackendInv, B!Next
    PROVE  /\ BackendInv'
           /\ \A i \in DOMAIN table : i \in DOMAIN table' /\ table'[i] = table[i]
<1> DEFINE v == [ids |-> word_to_id, words |-> table]
<1>1. PICK word \in Words : B!intern(word)
  BY DEF B!Next
<1>2. word_to_id' = TryIntern(v, word).ids /\ table' = TryIntern(v, word).words
  BY <1>1 DEF B!intern, TryIntern
<1>3. /\ VocabularyOK(TryIntern(v, word))
      /\ \A i \in DOMAIN v.words : /\ i \in DOMAIN TryIntern(v, word).words
                                   /\ TryIntern(v, word).words[i] = v.words[i]
  BY InternOK DEF BackendInv
<1> QED BY <1>2, <1>3 DEF BackendInv, VocabularyOK

----------------------------------------------------------------------------
(* The sets of states of a pattern                                         *)

NfaStates == 0 .. given.nfa.size - 1

StateSets == (SUBSET NfaStates) \ {{}}

NfaEntries == [state_set : StateSets, is_final : BOOLEAN]

SilentStep(i, S) ==
    S \cup {t.to : t \in {u \in N!SilentTransitions(given.nfa) : u.from \in S}}

AnchoredStep(i, S) ==
    S \cup {t.to : t \in {u \in N!SilentTransitions(given.nfa)
                                \cup {v \in given.nfa.trans : N!is_start_anchor(v.label)} :
                            u.from \in S}}

SF == INSTANCE OrderLemmas WITH Combine <- SilentStep

AF == INSTANCE OrderLemmas WITH Combine <- AnchoredStep

(* A closure contains what it starts from, and states only.                *)
LEMMA SilentClosure ==
    ASSUME given \in Patterns, NEW S \in StateSets
    PROVE  N!epsilon_closure(given.nfa, S) \in StateSets
<1> DEFINE T == {X \in SUBSET NfaStates : X # {}}
           rounds == 1 .. given.nfa.size
<1>1. given.nfa.size \in Nat /\ \A t \in given.nfa.trans : t.to \in NfaStates
  BY StandaloneAssumption DEF NfaStates
<1>2. IsFiniteSet(rounds)
  <2>1. PICK n \in Int : n = given.nfa.size
    BY <1>1
  <2>2. IsFiniteSet(1 .. n)
    BY FS_Interval
  <2> QED BY <2>1, <2>2
<1>3. S \in T
  BY DEF StateSets
<1>4. ASSUME NEW i \in rounds, NEW X \in T PROVE SilentStep(i, X) \in T
  BY <1>1 DEF SilentStep, N!SilentTransitions
<1> HIDE DEF T
<1>5. SF!SetFold(S, rounds) \in T
  <2>1. SF!IsFiniteSet(rounds)
    BY <1>2 DEF SF!IsFiniteSet, IsFiniteSet
  <2> QED BY <1>3, <1>4, <2>1, SF!SetFoldIn
<1>6. N!epsilon_closure(given.nfa, S) = SF!SetFold(S, rounds)
  BY DEF N!epsilon_closure, N!Reach, N!FoldSet, N!MapThenFoldSet, SF!SetFold, SF!FoldSet,
         SF!MapThenFoldSet, SilentStep
<1> QED BY <1>5, <1>6 DEF T, StateSets

(* So does the closure of the start.                                       *)
LEMMA StartClosure ==
    ASSUME given \in Patterns
    PROVE  N!start_anchor_closure(given.nfa) \in StateSets
<1> DEFINE T == {X \in SUBSET NfaStates : X # {}}
           rounds == 1 .. given.nfa.size
           S == N!epsilon_closure(given.nfa, {given.nfa.start})
<1>1. /\ given.nfa.size \in Nat /\ \A t \in given.nfa.trans : t.to \in NfaStates
      /\ given.nfa.start \in NfaStates
  BY StandaloneAssumption DEF NfaStates
<1>2. IsFiniteSet(rounds)
  <2>1. PICK n \in Int : n = given.nfa.size
    BY <1>1
  <2>2. IsFiniteSet(1 .. n)
    BY FS_Interval
  <2> QED BY <2>1, <2>2
<1>3. S \in T
  <2>1. {given.nfa.start} \in StateSets
    BY <1>1 DEF StateSets
  <2> QED BY <2>1, SilentClosure DEF StateSets
<1>4. ASSUME NEW i \in rounds, NEW X \in T PROVE AnchoredStep(i, X) \in T
  BY <1>1 DEF AnchoredStep, N!SilentTransitions
<1> HIDE DEF T
<1>5. AF!SetFold(S, rounds) \in T
  <2>1. AF!IsFiniteSet(rounds)
    BY <1>2 DEF AF!IsFiniteSet, IsFiniteSet
  <2> HIDE DEF S
  <2> QED BY <1>3, <1>4, <2>1, AF!SetFoldIn
<1>6. N!start_anchor_closure(given.nfa) = AF!SetFold(S, rounds)
  BY DEF N!start_anchor_closure, N!position_anchor_closure, N!Reach, N!FoldSet,
         N!MapThenFoldSet, AF!SetFold, AF!FoldSet, AF!MapThenFoldSet, AnchoredStep
<1> QED BY <1>5, <1>6 DEF T, StateSets

(* The successors of a set are sets of states, and none is empty.          *)
LEMMA PendingTyped ==
    ASSUME given \in Patterns, NEW s, NEW c \in DOMAIN N!pending_targets(s)
    PROVE  N!pending_targets(s)[c] \in StateSets
<1>1. \A t \in given.nfa.trans : t.to \in NfaStates
  BY StandaloneAssumption DEF NfaStates
<1>2. N!collect_label_successors(s, c) # {}
  BY DEF N!pending_targets
<1>3. N!collect_label_successors(s, c) \in SUBSET NfaStates
  BY <1>1 DEF N!collect_label_successors, N!transitions_from, N!nfa
<1>4. N!collect_label_successors(s, c) \in StateSets
  BY <1>2, <1>3 DEF StateSets
<1>5. N!pending_targets(s)[c] = N!epsilon_closure(given.nfa, N!collect_label_successors(s, c))
  BY DEF N!pending_targets, N!Successor, N!nfa
<1> QED BY <1>4, <1>5, SilentClosure

(* What a set leads to depends on the pattern only.                        *)
LEMMA PendingStable ==
    ASSUME given' = given, NEW CONSTANT s
    PROVE  N!pending_targets(s)' = N!pending_targets(s)
BY DEF N!pending_targets, N!CandidateChars, N!collect_label_successors, N!Successor, N!nfa,
       N!collect_label_candidates, N!collect_char_class_candidates, N!normalize_alphabet

----------------------------------------------------------------------------
(* Their registry                                                          *)

Known(reg, s) == \E i \in DOMAIN reg : reg[i].state_set = s

Full(reg) == Len(reg) = IdLimits["nfa"] + 1

Extends(old, new) == \A i \in DOMAIN old : i \in DOMAIN new /\ new[i] = old[i]

RegistryOK(reg) ==
    /\ reg \in Seq(NfaEntries)
    /\ Len(reg) \in 1 .. IdLimits["nfa"] + 1
    /\ \A i, j \in DOMAIN reg : reg[i].state_set = reg[j].state_set => i = j

RegisterOne(reg, states) == N!get_or_create_with_key(reg, states)

NF == INSTANCE OrderLemmas WITH Combine <- RegisterOne

(* A set has an id exactly if it is in the registry.                       *)
LEMMA KnownHasId ==
    ASSUME NEW reg, RegistryOK(reg), NEW s
    PROVE  /\ N!id_for_key(reg, s) # {} <=> Known(reg, s)
           /\ \A i \in N!id_for_key(reg, s) : i \in 0 .. Len(reg) - 1 /\ reg[i + 1].state_set = s
<1>1. Len(reg) \in Nat /\ DOMAIN reg = 1 .. Len(reg)
  BY DEF RegistryOK
<1>2. ASSUME NEW i \in DOMAIN reg, reg[i].state_set = s PROVE N!id_for_key(reg, s) # {}
  <2>1. i - 1 \in 0 .. Len(reg) - 1 /\ i - 1 + 1 = i
    BY <1>1
  <2> QED BY <1>2, <2>1 DEF N!id_for_key
<1>3. ASSUME NEW i \in 0 .. Len(reg) - 1, reg[i + 1].state_set = s PROVE Known(reg, s)
  <2>1. i + 1 \in DOMAIN reg
    BY <1>1
  <2> QED BY <1>3, <2>1 DEF Known
<1> QED BY <1>2, <1>3 DEF Known, N!id_for_key

(* and keeps it when the registry grows.                                   *)
LEMMA IdsStay ==
    ASSUME NEW old, NEW new, RegistryOK(old), RegistryOK(new), Extends(old, new),
           NEW s, Known(old, s)
    PROVE  Known(new, s) /\ N!id_for_key(new, s) = N!id_for_key(old, s)
<1>1. /\ Len(old) \in Nat /\ DOMAIN old = 1 .. Len(old)
      /\ Len(new) \in Nat /\ DOMAIN new = 1 .. Len(new)
  BY DEF RegistryOK
<1>2. PICK k \in DOMAIN old : old[k].state_set = s
  BY DEF Known
<1>3. k \in DOMAIN new /\ new[k].state_set = s
  BY <1>2 DEF Extends
<1>4. ASSUME NEW reg, RegistryOK(reg), k \in DOMAIN reg, reg[k].state_set = s
      PROVE  N!id_for_key(reg, s) = {k - 1}
  <2>1. Len(reg) \in Nat /\ DOMAIN reg = 1 .. Len(reg)
    BY <1>4 DEF RegistryOK
  <2>2. k - 1 \in 0 .. Len(reg) - 1 /\ k - 1 + 1 = k
    BY <1>4, <2>1
  <2>3. ASSUME NEW i \in 0 .. Len(reg) - 1, reg[i + 1].state_set = s PROVE i = k - 1
    <3>1. i + 1 \in DOMAIN reg
      BY <2>1
    <3>2. i + 1 = k
      BY <1>4, <2>3, <3>1 DEF RegistryOK
    <3> QED BY <3>2, <2>1, <1>4
  <2> QED BY <1>4, <2>2, <2>3 DEF N!id_for_key
<1> QED BY <1>2, <1>3, <1>4 DEF Known

(* Registering a set puts it in if it is not there and there is room.      *)
LEMMA RegisterOneOK ==
    ASSUME NEW reg, RegistryOK(reg), NEW s \in StateSets
    PROVE  LET new == RegisterOne(reg, s)
           IN  /\ RegistryOK(new) /\ Extends(reg, new)
               /\ Known(new, s) \/ Full(new)
               /\ Known(reg, s) \/ Full(reg) => new = reg
<1> DEFINE new == RegisterOne(reg, s)
           final == N!state_set_can_reach_final_through_end_anchors(given.nfa, s)
           entry == [state_set |-> s, is_final |-> final]
           n == Len(reg)
<1>1. n \in Nat /\ DOMAIN reg = 1 .. n /\ n <= IdLimits["nfa"] + 1 /\ IdLimits["nfa"] \in Nat
      /\ n >= 1
  BY StandaloneAssumption DEF RegistryOK
<1>2. new = IF Known(reg, s) \/ Full(reg) THEN reg ELSE Append(reg, entry)
  <2>1. n > IdLimits["nfa"] <=> Full(reg)
    BY <1>1 DEF Full
  <2>2. new = IF N!id_for_key(reg, s) # {} \/ n > IdLimits["nfa"] THEN reg ELSE Append(reg, entry)
    BY DEF RegisterOne, N!get_or_create_with_key, N!nfa
  <2> QED BY <2>1, <2>2, KnownHasId
<1>3. CASE Known(reg, s) \/ Full(reg)
  BY <1>2, <1>3 DEF Extends
<1>4. CASE ~ (Known(reg, s) \/ Full(reg))
  <2>1. entry \in NfaEntries
    BY DEF NfaEntries, N!state_set_can_reach_final_through_end_anchors
  <2> HIDE DEF entry
  <2>2. new = Append(reg, entry) /\ reg \in Seq(NfaEntries)
    BY <1>2, <1>4 DEF RegistryOK
  <2>3. /\ new \in Seq(NfaEntries) /\ Len(new) = n + 1 /\ DOMAIN new = 1 .. n + 1
        /\ new[n + 1] = entry
        /\ \A i \in DOMAIN reg : i \in DOMAIN new /\ new[i] = reg[i]
        /\ \A i \in DOMAIN new : i \in DOMAIN reg \/ i = n + 1
    BY <2>1, <2>2, AppendShape
  <2>4. n + 1 <= IdLimits["nfa"] + 1
    BY <1>1, <1>4 DEF Full
  <2>5. entry.state_set = s
    BY DEF entry
  <2>6. ASSUME NEW i \in DOMAIN new, NEW j \in DOMAIN new, new[i].state_set = new[j].state_set
        PROVE  i = j
    <3>1. \A k \in DOMAIN reg : new[k].state_set # s
      BY <1>4, <2>3 DEF Known
    <3>2. CASE i \in DOMAIN reg /\ j \in DOMAIN reg
      BY <2>3, <2>6, <3>2 DEF RegistryOK
    <3>3. CASE i = n + 1 \/ j = n + 1
      BY <2>3, <2>5, <2>6, <3>1, <3>3
    <3> QED BY <2>3, <3>2, <3>3
  <2>7. Known(new, s)
    <3>1. n + 1 \in DOMAIN new
      BY <1>1, <2>3
    <3> QED BY <2>3, <2>5, <3>1 DEF Known
  <2>8. RegistryOK(new)
    BY <1>1, <2>3, <2>4, <2>6 DEF RegistryOK
  <2>9. Extends(reg, new)
    BY <2>3 DEF Extends
  <2> QED BY <1>4, <2>7, <2>8, <2>9
<1> QED BY <1>3, <1>4

(* Registering a list of sets puts all of them in, or fills the registry;  *)
(* with all of them in already, or no room, it changes nothing.            *)
LEMMA RegisterListOK ==
    ASSUME NEW reg, RegistryOK(reg), NEW list \in Seq(StateSets)
    PROVE  LET new == N!RegisterMissing(reg, list)
           IN  /\ RegistryOK(new) /\ Extends(reg, new)
               /\ \A i \in DOMAIN list : Known(new, list[i]) \/ Full(new)
               /\ (\A i \in DOMAIN list : Known(reg, list[i]) \/ Full(reg)) => new = reg
<1> DEFINE n == Len(list)
<1>0. n \in Nat /\ DOMAIN list = 1 .. n
  OBVIOUS
<1>1. PICK g : /\ DOMAIN g = 0 .. n
               /\ g[0] = reg
               /\ \A i \in 1 .. n : g[i] = RegisterOne(g[i - 1], list[i])
               /\ g[n] = NF!Fold(reg, list)
  BY NF!FoldSteps
<1>2. N!RegisterMissing(reg, list) = g[n]
  BY <1>1 DEF N!RegisterMissing, N!FoldLeft, N!MapThenFoldSet, N!Max, NF!Fold, NF!FoldLeft,
              NF!MapThenFoldSet, NF!Max, RegisterOne
<1> DEFINE P(k) == /\ RegistryOK(g[k]) /\ Extends(reg, g[k])
                   /\ \A i \in 1 .. k : Known(g[k], list[i]) \/ Full(g[k])
                   /\ (\A i \in DOMAIN list : Known(reg, list[i]) \/ Full(reg)) => g[k] = reg
           Missing == {k \in Nat : k <= n /\ ~ P(k)}
<1> SUFFICES ASSUME ~ P(n) PROVE FALSE
  BY <1>0, <1>2
<1>3. n \in Missing
  BY <1>0
<1>4. PICK k \in Missing : \A j \in Missing : k <= j
  <2>1. Missing \in SUBSET Nat
    OBVIOUS
  <2> HIDE DEF Missing
  <2> QED BY <1>3, <2>1, LeastElement
<1>5. P(0)
  BY <1>1 DEF Extends
<1>6. k # 0 /\ k \in Nat /\ k <= n /\ ~ P(k)
  BY <1>4, <1>5
<1>7. P(k - 1) /\ k - 1 \in Nat /\ k \in 1 .. n
  <2>1. k - 1 \in Nat /\ k - 1 <= n /\ k - 1 \notin Missing /\ k \in 1 .. n
    BY <1>0, <1>4, <1>6
  <2> QED BY <2>1
<1> DEFINE old == g[k - 1]
           s == list[k]
           new == g[k]
<1>8. new = RegisterOne(old, s) /\ s \in StateSets
  BY <1>0, <1>1, <1>7
<1>9. /\ RegistryOK(new) /\ Extends(old, new)
      /\ Known(new, s) \/ Full(new)
      /\ Known(old, s) \/ Full(old) => new = old
  <2> HIDE DEF old, new, s
  <2>1. RegistryOK(old)
    BY <1>7 DEF old
  <2> QED BY <1>8, <2>1, RegisterOneOK
<1>10. RegistryOK(old) /\ Extends(reg, old)
  BY <1>7
<1>11. Extends(reg, new)
  BY <1>9, <1>10 DEF Extends
<1>12. ASSUME NEW i \in 1 .. k PROVE Known(new, list[i]) \/ Full(new)
  <2>1. CASE i = k
    BY <1>9, <2>1
  <2>2. CASE i # k
    <3>1. i \in 1 .. k - 1
      BY <1>6, <2>2
    <3>2. Known(old, list[i]) \/ Full(old)
      BY <1>7, <3>1
    <3> HIDE DEF old, new
    <3> QED BY <1>9, <1>10, <3>2, IdsStay
  <2> QED BY <2>1, <2>2
<1>13. ASSUME \A i \in DOMAIN list : Known(reg, list[i]) \/ Full(reg) PROVE new = reg
  <2>1. old = reg
    BY <1>7, <1>13
  <2>2. Known(reg, s) \/ Full(reg)
    BY <1>0, <1>7, <1>13
  <2> QED BY <1>9, <2>1, <2>2
<1>14. P(k)
  BY <1>9, <1>11, <1>12, <1>13
<1> QED BY <1>6, <1>14

(* A finite set of sets can be listed, and a listing has them all.         *)
LEMMA ListedSets ==
    ASSUME given \in Patterns, NEW S \in SUBSET StateSets
    PROVE  /\ \A list \in N!SetToSeqs(S) : list \in Seq(StateSets) /\ Range(list) = S
           /\ N!SetToSeq(S) \in Seq(StateSets) /\ Range(N!SetToSeq(S)) = S
<1>1. IsFiniteSet(S) /\ Cardinality(S) \in Nat
  <2>1. IsFiniteSet(NfaStates)
    <3>1. given.nfa.size - 1 \in Int
      BY StandaloneAssumption
    <3> QED BY <3>1, FS_Interval DEF NfaStates
  <2>2. IsFiniteSet(SUBSET NfaStates)
    BY <2>1, FS_SUBSET
  <2>3. S \in SUBSET (SUBSET NfaStates)
    BY DEF StateSets
  <2> QED BY <2>2, <2>3, FS_Subset, FS_CardinalityType
<1> DEFINE m == Cardinality(S)
<1>2. N!Cardinality(S) = m
  BY DEF N!Cardinality, Cardinality
<1>3. ASSUME NEW f \in [1 .. m -> S], \A i, j \in 1 .. m : f[i] = f[j] => i = j
      PROVE  f \in Seq(StateSets) /\ Range(f) = S
  <2>1. f \in Injection(1 .. m, S)
    BY <1>3 DEF Injection, IsInjective
  <2>2. IsFiniteSet(1 .. m) /\ Cardinality(1 .. m) = m
    BY <1>1, FS_Interval
  <2>3. f \in Surjection(1 .. m, S)
    <3> HIDE DEF m
    <3> QED BY <1>1, <2>1, <2>2, FS_Injection DEF m
  <2>4. Range(f) = S
    BY <2>3 DEF Surjection, Range
  <2>5. f \in Seq(S)
    BY <1>1
  <2> QED BY <2>4, <2>5
<1>4. ASSUME NEW list \in N!SetToSeqs(S) PROVE list \in Seq(StateSets) /\ Range(list) = S
  BY <1>2, <1>3 DEF N!SetToSeqs
<1>5. \E f \in [1 .. m -> S] : N!IsInjective(f)
  <2>1. PICK g : g \in Bijection(1 .. m, S)
    BY <1>1, FS_CardinalityType DEF ExistsBijection
  <2> QED BY <2>1 DEF Bijection, Injection, IsInjective, N!IsInjective
<1>6. N!SetToSeq(S) \in [1 .. m -> S] /\ N!IsInjective(N!SetToSeq(S))
  BY <1>2, <1>5 DEF N!SetToSeq
<1>7. \A i, j \in 1 .. m : N!SetToSeq(S)[i] = N!SetToSeq(S)[j] => i = j
  BY <1>6 DEF N!IsInjective
<1> QED BY <1>3, <1>4, <1>6, <1>7

----------------------------------------------------------------------------
(* Expansions of a pattern's states                                        *)

Pending(reg, id) == N!pending_targets(reg[id + 1].state_set)

(* What an expansion read under the read lock holds under the write lock:  *)
(* it looks for the successors that it missed, and the others' ids stay.   *)
TaskOK(task, reg) ==
    /\ task.state \in 0 .. Len(reg) - 1
    /\ task.missing \in Seq(StateSets)
    /\ \E missing \in SUBSET DOMAIN Pending(reg, task.state) :
         LET targets == Pending(reg, task.state)
             rest    == DOMAIN targets \ missing
         IN  /\ task.targets = N!Restrict(targets, missing)
             /\ \A c \in missing : \E i \in DOMAIN task.missing : task.missing[i] = targets[c]
             /\ \A c \in rest : Known(reg, targets[c])
             /\ task.found = N!Arcs(reg, N!Restrict(targets, rest))

(* An answer has an arc for each successor, or all that there were ids for.*)
AnswerOK(entry, reg) ==
    /\ entry.state \in 0 .. Len(reg) - 1
    /\ entry.answer = N!Answer(reg, entry.state, N!Arcs(reg, Pending(reg, entry.state)))
    /\ \A c \in DOMAIN Pending(reg, entry.state) :
          Known(reg, Pending(reg, entry.state)[c]) \/ Full(reg)

NfaInv ==
    /\ given \in Patterns
    /\ RegistryOK(table)
    /\ DOMAIN tasks = Threads
    /\ \A t \in Threads : tasks[t] # Nothing => TaskOK(tasks[t], table)
    /\ cached # Nothing => AnswerOK(cached, table)

(* The arcs to known sets are those of before when the registry grows.     *)
LEMMA ArcsStay ==
    ASSUME NEW old, NEW new, RegistryOK(old), RegistryOK(new), Extends(old, new), NEW targets,
           \A c \in DOMAIN targets : Known(old, targets[c])
    PROVE  N!Arcs(new, targets) = N!Arcs(old, targets)
<1>1. \A c \in DOMAIN targets : N!id_for_key(new, targets[c]) = N!id_for_key(old, targets[c])
  BY IdsStay
<1> DEFINE arcs(reg, c) == {[letter |-> c, to |-> i, weight |-> given.weight] :
                              i \in N!id_for_key(reg, targets[c])}
<1>2. \A c \in DOMAIN targets : arcs(new, c) = arcs(old, c)
  BY <1>1
<1>3. /\ N!Arcs(new, targets) = UNION {arcs(new, c) : c \in DOMAIN targets}
      /\ N!Arcs(old, targets) = UNION {arcs(old, c) : c \in DOMAIN targets}
  BY DEF N!Arcs
<1> HIDE DEF arcs
<1> QED BY <1>2, <1>3

(* Arcs are those of the letters of a part and of the rest.                *)
LEMMA ArcsSplit ==
    ASSUME NEW reg, NEW targets, NEW part \in SUBSET DOMAIN targets
    PROVE  N!Arcs(reg, targets) =
             N!Arcs(reg, N!Restrict(targets, DOMAIN targets \ part))
               \cup N!Arcs(reg, N!Restrict(targets, part))
<1> DEFINE arcs(c) == {[letter |-> c, to |-> i, weight |-> given.weight] :
                         i \in N!id_for_key(reg, targets[c])}
<1>1. ASSUME NEW S \in SUBSET DOMAIN targets
      PROVE  N!Arcs(reg, N!Restrict(targets, S)) = UNION {arcs(c) : c \in S}
  <2> DEFINE some == N!Restrict(targets, S)
             of(c) == {[letter |-> c, to |-> i, weight |-> given.weight] :
                         i \in N!id_for_key(reg, some[c])}
  <2>1. DOMAIN some = S /\ \A c \in S : some[c] = targets[c]
    BY DEF N!Restrict
  <2> HIDE DEF some
  <2>2. \A c \in S : of(c) = arcs(c)
    BY <2>1
  <2>3. N!Arcs(reg, some) = UNION {of(c) : c \in S}
    BY <2>1 DEF N!Arcs
  <2> HIDE DEF of, arcs
  <2> QED BY <2>2, <2>3 DEF some
<1>2. N!Arcs(reg, targets) = UNION {arcs(c) : c \in DOMAIN targets}
  BY DEF N!Arcs
<1> HIDE DEF arcs
<1> QED BY <1>1, <1>2

(* Growth of the registry keeps answers and tasks as they should be.       *)
LEMMA GrowthKeepsAnswer ==
    ASSUME NEW old, NEW new, RegistryOK(old), RegistryOK(new), Extends(old, new),
           Full(old) => new = old, NEW entry, AnswerOK(entry, old)
    PROVE  AnswerOK(entry, new)
<1>1. CASE Full(old)
  BY <1>1
<1>2. CASE ~ Full(old)
  <2> DEFINE targets == Pending(old, entry.state)
  <2>1. /\ Len(old) \in Nat /\ DOMAIN old = 1 .. Len(old)
        /\ Len(new) \in Nat /\ DOMAIN new = 1 .. Len(new)
    BY DEF RegistryOK
  <2>2. entry.state \in 0 .. Len(old) - 1 /\ entry.state + 1 \in DOMAIN old
    BY <2>1 DEF AnswerOK
  <2>3. entry.state + 1 \in DOMAIN new /\ new[entry.state + 1] = old[entry.state + 1]
    BY <2>2 DEF Extends
  <2>4. Pending(new, entry.state) = targets /\ entry.state \in 0 .. Len(new) - 1
    BY <2>1, <2>2, <2>3 DEF Pending
  <2>5. \A c \in DOMAIN targets : Known(old, targets[c])
    BY <1>2 DEF AnswerOK
  <2> HIDE DEF targets
  <2>6. N!Arcs(new, targets) = N!Arcs(old, targets)
    BY <2>5, ArcsStay
  <2>7. \A c \in DOMAIN targets : Known(new, targets[c])
    BY <2>5, IdsStay
  <2>8. entry.answer = N!Answer(new, entry.state, N!Arcs(new, targets))
    <3>1. entry.answer = N!Answer(old, entry.state, N!Arcs(old, targets))
      BY DEF AnswerOK, targets
    <3> QED BY <2>3, <2>6, <3>1 DEF N!Answer
  <2> QED BY <2>4, <2>7, <2>8 DEF AnswerOK
<1> QED BY <1>1, <1>2

(* A task stays right when another activation registers sets: what it      *)
(* found stays where it was, and what it lists may be there by now.        *)
LEMMA GrowthKeepsTask ==
    ASSUME NEW old, NEW new, RegistryOK(old), RegistryOK(new), Extends(old, new),
           NEW task, TaskOK(task, old)
    PROVE  TaskOK(task, new)
<1> DEFINE targets == Pending(old, task.state)
<1>1. /\ Len(old) \in Nat /\ DOMAIN old = 1 .. Len(old)
      /\ Len(new) \in Nat /\ DOMAIN new = 1 .. Len(new)
  BY DEF RegistryOK
<1>2. task.state \in 0 .. Len(old) - 1 /\ task.state + 1 \in DOMAIN old
  BY <1>1 DEF TaskOK
<1>3. task.state + 1 \in DOMAIN new /\ new[task.state + 1] = old[task.state + 1]
  BY <1>2 DEF Extends
<1>4. Pending(new, task.state) = targets /\ task.state \in 0 .. Len(new) - 1
  BY <1>1, <1>2, <1>3 DEF Pending
<1>5. PICK missing \in SUBSET DOMAIN targets :
         /\ task.targets = N!Restrict(targets, missing)
         /\ \A c \in missing : \E i \in DOMAIN task.missing : task.missing[i] = targets[c]
         /\ \A c \in DOMAIN targets \ missing : Known(old, targets[c])
         /\ task.found = N!Arcs(old, N!Restrict(targets, DOMAIN targets \ missing))
  BY DEF TaskOK
<1> HIDE DEF targets
<1> DEFINE rest == N!Restrict(targets, DOMAIN targets \ missing)
<1>6. DOMAIN rest = DOMAIN targets \ missing /\ \A c \in DOMAIN rest : rest[c] = targets[c]
  BY DEF N!Restrict
<1> HIDE DEF rest
<1>7. N!Arcs(new, rest) = N!Arcs(old, rest)
  BY <1>5, <1>6, ArcsStay
<1>8. \A c \in DOMAIN targets \ missing : Known(new, targets[c])
  BY <1>5, IdsStay
<1>9. task.found = N!Arcs(new, N!Restrict(targets, DOMAIN targets \ missing))
  BY <1>5, <1>7 DEF rest
<1>10. task.missing \in Seq(StateSets)
  BY DEF TaskOK
<1> HIDE <1>7
<1> QED BY <1>4, <1>5, <1>8, <1>9, <1>10 DEF TaskOK

(* What a registry, a task and an answer should be depends on the pattern. *)
LEMMA NfaStable ==
    ASSUME given' = given, NEW CONSTANT x, NEW CONSTANT reg
    PROVE  /\ RegistryOK(reg)' <=> RegistryOK(reg)
           /\ TaskOK(x, reg)' <=> TaskOK(x, reg)
           /\ AnswerOK(x, reg)' <=> AnswerOK(x, reg)
<1> USE DEF StateSets, NfaStates, NfaEntries, Pending, Known, Full,
            N!Arcs, N!id_for_key, N!Restrict, N!nfa, N!Answer,
            N!pending_targets, N!CandidateChars, N!collect_label_successors, N!Successor,
            N!collect_label_candidates, N!collect_char_class_candidates, N!normalize_alphabet
<1>1. RegistryOK(reg)' <=> RegistryOK(reg)
  BY DEF RegistryOK
<1>2. TaskOK(x, reg)' <=> TaskOK(x, reg)
  BY DEF TaskOK
<1>3. AnswerOK(x, reg)' <=> AnswerOK(x, reg)
  BY DEF AnswerOK
<1> QED BY <1>1, <1>2, <1>3

(* The registry begins with the start state, and nothing is under way.     *)
LEMMA NfaInit ==
    ASSUME N!Init PROVE NfaInv
<1> DEFINE initial == N!start_anchor_closure(given.nfa)
           final == N!state_set_can_reach_final_through_end_anchors(given.nfa, initial)
           entry == [state_set |-> initial, is_final |-> final]
<1>1. /\ given \in Patterns /\ table = <<entry>>
      /\ tasks = [t \in Threads |-> Nothing] /\ cached = Nothing
  BY DEF N!Init
<1>2. entry \in NfaEntries
  <2>1. initial \in StateSets
    BY <1>1, StartClosure
  <2>2. final \in BOOLEAN
    BY DEF N!state_set_can_reach_final_through_end_anchors
  <2> HIDE DEF initial, final
  <2> QED BY <2>1, <2>2 DEF NfaEntries
<1> HIDE DEF entry
<1>3. RegistryOK(table)
  <2>1. IdLimits["nfa"] \in Nat
    BY StandaloneAssumption
  <2> QED BY <1>1, <1>2, <2>1 DEF RegistryOK
<1> QED BY <1>1, <1>3 DEF NfaInv

(* An expansion that misses nothing answers; one that misses some sets     *)
(* remembers them in some order.                                           *)
LEMMA LookUpStep ==
    ASSUME NfaInv, NEW t \in Threads, NEW id, N!LookUpTargets(t, id)
    PROVE  NfaInv' /\ table' = table
<1> DEFINE targets == Pending(table, id)
           missing == {c \in DOMAIN targets : N!id_for_key(table, targets[c]) = {}}
<1>1. /\ given' = given /\ table' = table
      /\ tasks[t] = Nothing
      /\ id \in 0 .. Len(table) - 1
  BY DEF N!LookUpTargets, N!is_registered_state, N!StateIds
<1>2. given \in Patterns /\ RegistryOK(table) /\ DOMAIN tasks = Threads
  BY DEF NfaInv
<1>3. \A c \in DOMAIN targets : c \notin missing <=> Known(table, targets[c])
  BY <1>2, KnownHasId
<1>4. N!Finish(id, N!Answer(table, id, N!Arcs(table, targets))) /\ missing = {} => AnswerOK(cached', table) \/ cached' = cached
  <2> SUFFICES ASSUME missing = {},
                      cached' = [state |-> id, answer |-> N!Answer(table, id, N!Arcs(table, targets))]
               PROVE  AnswerOK(cached', table)
    BY DEF N!Finish
  <2> HIDE DEF missing
  <2> QED BY <1>1, <1>3 DEF AnswerOK
<1>5. CASE missing = {}
  <2>1. /\ N!Finish(id, N!Answer(table, id, N!Arcs(table, targets)))
        /\ tasks' = tasks
    BY <1>5 DEF N!LookUpTargets, Pending
  <2>2. cached' # Nothing => AnswerOK(cached', table)
    BY <1>4, <1>5, <2>1 DEF NfaInv
  <2> HIDE DEF targets, missing
  <2> QED BY <1>1, <1>2, <2>1, <2>2, NfaStable DEF NfaInv
<1>6. CASE missing # {}
  <2> DEFINE sets == {targets[c] : c \in missing}
  <2>1. PICK order \in N!SetToSeqs(sets) :
          /\ tasks' = [tasks EXCEPT ![t] = [state   |-> id,
                                            found   |-> N!Arcs(table, targets),
                                            targets |-> N!Restrict(targets, missing),
                                            missing |-> order]]
          /\ cached' = cached
    BY <1>6 DEF N!LookUpTargets, Pending
  <2>2. sets \in SUBSET StateSets
    BY <1>2, PendingTyped DEF Pending
  <2>3. order \in Seq(StateSets) /\ Range(order) = sets
    BY <1>2, <2>2, ListedSets
  <2>4. \A c \in missing : \E i \in DOMAIN order : order[i] = targets[c]
    BY <2>3 DEF Range
  <2>5. N!Arcs(table, targets) = N!Arcs(table, N!Restrict(targets, DOMAIN targets \ missing))
    <3> DEFINE part == N!Restrict(targets, missing)
    <3>1. DOMAIN part = missing /\ \A c \in missing : part[c] = targets[c]
      BY DEF N!Restrict
    <3>2. \A c \in missing : N!id_for_key(table, targets[c]) = {}
      OBVIOUS
    <3>3. missing \in SUBSET DOMAIN targets
      OBVIOUS
    <3> HIDE DEF part, missing, targets
    <3>4. \A c \in DOMAIN part : N!id_for_key(table, part[c]) = {}
      BY <3>1, <3>2
    <3>5. N!Arcs(table, part) = {}
      BY <3>4 DEF N!Arcs
    <3> QED BY <3>3, <3>5, ArcsSplit DEF part
  <2>6. TaskOK([state   |-> id,
                found   |-> N!Arcs(table, targets),
                targets |-> N!Restrict(targets, missing),
                missing |-> order], table)
    <3>1. missing \in SUBSET DOMAIN targets /\ \A c \in DOMAIN targets \ missing : Known(table, targets[c])
      BY <1>3
    <3> HIDE DEF missing
    <3> QED BY <1>1, <2>3, <2>4, <2>5, <3>1 DEF TaskOK
  <2>7. /\ DOMAIN tasks' = Threads
        /\ \A u \in Threads : tasks'[u] # Nothing => TaskOK(tasks'[u], table)
    <3> HIDE DEF targets, missing
    <3> QED BY <1>2, <2>1, <2>6 DEF NfaInv
  <2>8. cached' # Nothing => AnswerOK(cached', table)
    BY <2>1 DEF NfaInv
  <2> HIDE DEF targets, missing
  <2> QED BY <1>1, <1>2, <2>7, <2>8, NfaStable DEF NfaInv
<1> QED BY <1>1, <1>5, <1>6

(* The missing sets get their ids, unless others gave them or none is left.*)
LEMMA RegisterStep ==
    ASSUME NfaInv, NEW t \in Threads, N!RegisterTargets(t)
    PROVE  NfaInv' /\ Extends(table, table')
<1> DEFINE task == tasks[t]
           new == N!RegisterMissing(table, task.missing)
           targets == Pending(table, task.state)
           answer == N!Answer(new, task.state, task.found \cup N!Arcs(new, task.targets))
<1>1. /\ given' = given /\ table' = new /\ task # Nothing
      /\ tasks' = [tasks EXCEPT ![t] = Nothing]
      /\ N!Finish(task.state, answer)
  BY DEF N!RegisterTargets
<1>2. given \in Patterns /\ RegistryOK(table) /\ DOMAIN tasks = Threads /\ TaskOK(task, table)
  BY <1>1 DEF NfaInv
<1>3. /\ RegistryOK(new) /\ Extends(table, new)
      /\ \A i \in DOMAIN task.missing : Known(new, task.missing[i]) \/ Full(new)
  BY <1>2, RegisterListOK DEF TaskOK
<1>4. Full(table) => new = table
  BY <1>2, RegisterListOK DEF TaskOK
<1> HIDE DEF new, task
<1>5. TaskOK(task, new)
  BY <1>2, <1>3, GrowthKeepsTask
<1>6. AnswerOK([state |-> task.state, answer |-> answer], new)
  <2> DEFINE now == Pending(new, task.state)
  <2>1. PICK missing \in SUBSET DOMAIN now :
           /\ task.targets = N!Restrict(now, missing)
           /\ \A c \in missing : \E i \in DOMAIN task.missing : task.missing[i] = now[c]
           /\ \A c \in DOMAIN now \ missing : Known(new, now[c])
           /\ task.found = N!Arcs(new, N!Restrict(now, DOMAIN now \ missing))
    BY <1>5 DEF TaskOK
  <2> HIDE DEF now
  <2>2. task.found \cup N!Arcs(new, task.targets) = N!Arcs(new, now)
    BY <2>1, ArcsSplit
  <2>3. \A c \in DOMAIN now : Known(new, now[c]) \/ Full(new)
    BY <1>3, <2>1
  <2>4. task.state \in 0 .. Len(new) - 1
    BY <1>5 DEF TaskOK
  <2> QED BY <2>2, <2>3, <2>4 DEF AnswerOK, now
<1> HIDE DEF answer
<1>7. cached' # Nothing => AnswerOK(cached', new)
  <2>1. CASE cached' = cached
    <3>1. cached # Nothing => AnswerOK(cached, table)
      BY DEF NfaInv
    <3> QED BY <1>2, <1>3, <1>4, <2>1, <3>1, GrowthKeepsAnswer
  <2>2. CASE cached' = [state |-> task.state, answer |-> answer]
    BY <1>6, <2>2
  <2> QED BY <1>1, <2>1, <2>2 DEF N!Finish
<1>8. ASSUME NEW u \in Threads, tasks'[u] # Nothing PROVE TaskOK(tasks'[u], new)
  <2>1. tasks'[u] = tasks[u]
    BY <1>1, <1>2, <1>8
  <2>2. TaskOK(tasks[u], table)
    BY <1>8, <2>1 DEF NfaInv
  <2> QED BY <1>2, <1>3, <2>1, <2>2, GrowthKeepsTask
<1>9. DOMAIN tasks' = Threads
  BY <1>1, <1>2
<1> QED BY <1>1, <1>2, <1>3, <1>7, <1>8, <1>9, NfaStable DEF NfaInv

(* Look-ups, registrations and evictions keep the invariant, and the       *)
(* registry only grows.                                                    *)
LEMMA NfaStep ==
    ASSUME NfaInv, N!Next PROVE NfaInv' /\ Extends(table, table')
<1>0. Extends(table, table)
  BY DEF Extends
<1>1. CASE N!clear_cache
  <2>1. /\ cached' = Nothing /\ given' = given /\ table' = table /\ tasks' = tasks
    BY <1>1 DEF N!clear_cache
  <2> QED BY <1>0, <2>1, NfaStable DEF NfaInv
<1>2. ASSUME NEW t \in Threads, N!RegisterTargets(t) PROVE NfaInv' /\ Extends(table, table')
  BY <1>2, RegisterStep
<1>3. ASSUME NEW id, N!RejectState(id) PROVE NfaInv' /\ Extends(table, table')
  <2>1. /\ cached' = cached /\ given' = given /\ table' = table /\ tasks' = tasks
    BY <1>3 DEF N!RejectState, N!vars
  <2> QED BY <1>0, <2>1, NfaStable DEF NfaInv
<1>4. ASSUME NEW t \in Threads, NEW id, N!LookUpTargets(t, id)
      PROVE  NfaInv' /\ Extends(table, table')
  BY <1>0, <1>4, LookUpStep
<1> QED BY <1>1, <1>2, <1>3, <1>4 DEF N!Next

(* What this says of the tables and of the cache.                          *)
LEMMA NfaConsequences ==
    ASSUME NfaInv
    PROVE  N!TypeOK /\ N!SetsInterned /\ N!CacheCurrent /\ N!TargetsKnown
<1>1. given \in Patterns /\ RegistryOK(table)
  BY DEF NfaInv
<1>2. table \in Seq(NfaEntries) /\ Len(table) <= IdLimits["nfa"] + 1
  BY <1>1, StandaloneAssumption DEF RegistryOK
<1>0. \A i \in DOMAIN table : table[i].state_set \subseteq NfaStates /\ table[i].state_set # {}
  <2>1. \A i \in DOMAIN table : table[i] \in NfaEntries
    BY <1>2
  <2>2. \A e \in NfaEntries : e.state_set \in StateSets
    BY DEF NfaEntries
  <2> QED BY <2>1, <2>2 DEF StateSets
<1>3. N!TypeOK
  BY <1>0, <1>2 DEF N!TypeOK, NfaStates, N!nfa
<1>4. N!SetsInterned
  <2>1. \A i \in DOMAIN table : table[i].state_set # {}
    BY <1>0
  <2> QED BY <1>1, <2>1 DEF RegistryOK, N!SetsInterned
<1>5. ASSUME cached # Nothing
      PROVE  N!AnswerNow(cached.state) = cached.answer /\ N!TargetsKnown
  <2> DEFINE targets == Pending(table, cached.state)
             sets == N!Range(targets)
             list == N!SetToSeq(sets)
  <2>1. AnswerOK(cached, table)
    BY <1>5 DEF NfaInv
  <2>2. sets = {targets[c] : c \in DOMAIN targets}
    BY DEF N!Range
  <2>3. sets \in SUBSET StateSets
    BY <1>1, <2>2, PendingTyped DEF Pending
  <2> HIDE DEF sets
  <2>4. list \in Seq(StateSets) /\ Range(list) = sets
    BY <1>1, <2>3, ListedSets
  <2> HIDE DEF list
  <2>5. \A s \in sets : Known(table, s) \/ Full(table)
    BY <2>1, <2>2 DEF AnswerOK
  <2>6. \A i \in DOMAIN list : Known(table, list[i]) \/ Full(table)
    BY <2>4, <2>5 DEF Range
  <2>7. N!RegisterMissing(table, list) = table
    BY <1>1, <2>4, <2>6, RegisterListOK
  <2>8. N!AnswerNow(cached.state) = N!Answer(table, cached.state, N!Arcs(table, targets))
    BY <2>7 DEF N!AnswerNow, Pending, list, sets
  <2>9. ASSUME NEW a \in cached.answer.arcs PROVE N!is_registered_state(a.to)
    <3>1. a \in N!Arcs(table, targets)
      BY <2>1 DEF AnswerOK, N!Answer
    <3>2. PICK c \in DOMAIN targets : a.to \in N!id_for_key(table, targets[c])
      BY <3>1 DEF N!Arcs
    <3> QED BY <1>1, <3>2, KnownHasId DEF N!is_registered_state, N!StateIds
  <2> QED BY <2>1, <2>8, <2>9 DEF AnswerOK, N!TargetsKnown
<1> QED BY <1>3, <1>4, <1>5 DEF N!CacheCurrent, N!TargetsKnown

----------------------------------------------------------------------------
(* Listings of a set in an order                                           *)

StrictOrder(Less, S) ==
    /\ \A x \in S : <<x, x>> \notin Less
    /\ \A x, y, z \in S : <<x, y>> \in Less /\ <<y, z>> \in Less => <<x, z>> \in Less
    /\ \A x, y \in S : x = y \/ <<x, y>> \in Less \/ <<y, x>> \in Less

Listed(s, S, Less) ==
    /\ s \in Seq(S)
    /\ \A x \in S : \E i \in DOMAIN s : s[i] = x
    /\ \A i, j \in DOMAIN s : i < j => <<s[i], s[j]>> \in Less

(* A set of positions without gaps from the first on.                      *)
LEMMA Downset ==
    ASSUME NEW n \in Nat, NEW D \in SUBSET (1 .. n),
           \A k \in D : \A j \in 1 .. k : j \in D
    PROVE  /\ Cardinality(D) \in 0 .. n
           /\ D = 1 .. Cardinality(D)
<1>1. CASE D = {}
  <2>1. Cardinality(D) = 0 /\ 1 .. 0 = {}
    BY <1>1, FS_EmptySet
  <2> QED BY <1>1, <2>1
<1>2. CASE D # {}
  <2>1. PICK m \in D : \A x \in D : x <= m
    <3>1. D \in SUBSET (0 .. n)
      OBVIOUS
    <3> QED BY <1>2, <3>1, GreatestElement
  <2>2. D = 1 .. m /\ m \in 1 .. n
    <3>1. m \in 1 .. n /\ \A x \in D : x \in 1 .. n /\ x <= m
      BY <2>1
    <3>2. \A x \in D : x \in 1 .. m
      BY <3>1
    <3>3. \A j \in 1 .. m : j \in D
      OBVIOUS
    <3> QED BY <3>1, <3>2, <3>3
  <2>3. Cardinality(1 .. m) = m
    <3>1. m \in Int /\ 1 <= m /\ m - 1 + 1 = m
      BY <2>2
    <3> QED BY <3>1, FS_Interval
  <2> QED BY <2>2, <2>3
<1> QED BY <1>1, <1>2

(* Insertion by parts: the members before, the new one, the others.        *)
LEMMA InsertIs ==
    ASSUME NEW s, NEW q, NEW x
    PROVE  InsertAt(s, q, x) = SubSeq(s, 1, q - 1) \o <<x>> \o SubSeq(s, q, Len(s))
BY DEF InsertAt

(* A sequence with an element put in behind the first p.                   *)
InsertedIn(new, T, s, p, x) ==
    /\ new \in Seq(T) /\ Len(new) = Len(s) + 1 /\ DOMAIN new = 1 .. Len(s) + 1
    /\ \A i \in 1 .. p : new[i] = s[i]
    /\ new[p + 1] = x
    /\ \A i \in p + 1 .. Len(s) : new[i + 1] = s[i]

(* The length and the members of a listing after an insertion.             *)
LEMMA InsertShape ==
    ASSUME NEW T, NEW s \in Seq(T), NEW x \in T, NEW p \in 0 .. Len(s), NEW q, q = p + 1
    PROVE  InsertedIn(InsertAt(s, q, x), T, s, p, x)
<1> DEFINE n == Len(s)
           a == SubSeq(s, 1, p)
           b == SubSeq(s, p + 1, n)
<1>0. PICK new : new = InsertAt(s, q, x)
  OBVIOUS
<1>1. n \in Nat /\ p \in Nat /\ p <= n /\ DOMAIN s = 1 .. n
  OBVIOUS
<1>2. a \in Seq(T) /\ Len(a) = p /\ \A i \in 1 .. p : a[i] = s[i]
  BY <1>1
<1>3. b \in Seq(T) /\ Len(b) = n - p /\ \A i \in 1 .. n - p : b[i] = s[p + i]
  <2>1. /\ b \in Seq(T)
        /\ Len(b) = IF p + 1 <= n THEN n - (p + 1) + 1 ELSE 0
        /\ \A i \in 1 .. n - (p + 1) + 1 : b[i] = s[p + 1 + i - 1]
    <3>1. p + 1 \in 1 .. n + 1 /\ n \in (p + 1) - 1 .. n
      BY <1>1
    <3> HIDE DEF n
    <3> QED BY <1>1, <3>1, SubSeqProperties DEF n
  <2>2. n - (p + 1) + 1 = n - p /\ \A i \in 1 .. n - p : p + 1 + i - 1 = p + i
    BY <1>1
  <2> HIDE DEF b, n
  <2>3. Len(b) = n - p
    BY <1>1, <2>1, <2>2
  <2>4. \A i \in 1 .. n - p : b[i] = s[p + i]
    BY <2>1, <2>2
  <2> QED BY <2>1, <2>3, <2>4
<1> HIDE DEF a, b
<1> DEFINE c == a \o <<x>>
<1>4. <<x>> \in Seq(T) /\ Len(<<x>>) = 1 /\ <<x>>[1] = x
  OBVIOUS
<1>5. c \in Seq(T) /\ Len(c) = p + 1 /\ (\A i \in 1 .. p : c[i] = s[i]) /\ c[p + 1] = x
  <2>1. /\ c \in Seq(T) /\ Len(c) = Len(a) + Len(<<x>>)
        /\ \A i \in 1 .. Len(a) : c[i] = a[i]
        /\ \A i \in 1 .. Len(<<x>>) : c[Len(a) + i] = <<x>>[i]
    <3>1. a \in Seq(T) /\ <<x>> \in Seq(T)
      BY <1>2, <1>4
    <3> QED BY <3>1, ConcatShape
  <2> HIDE DEF c
  <2>2. c \in Seq(T) /\ Len(c) = p + 1 /\ \A i \in 1 .. p : c[i] = s[i]
    BY <1>2, <1>4, <2>1
  <2>3. c[p + 1] = x
    <3>1. 1 \in 1 .. Len(<<x>>)
      BY <1>4
    <3> QED BY <1>2, <1>4, <2>1, <3>1
  <2> QED BY <2>2, <2>3
<1> HIDE DEF c
<1>6. c \o b \in Seq(T) /\ Len(c \o b) = n + 1
  <2>1. c \o b \in Seq(T) /\ Len(c \o b) = Len(c) + Len(b)
    BY <1>3, <1>5, ConcatShape
  <2>2. Len(c) + Len(b) = n + 1
    BY <1>1, <1>3, <1>5
  <2> QED BY <2>1, <2>2
<1>7. \A i \in 1 .. p + 1 : (c \o b)[i] = c[i]
  BY <1>3, <1>5, ConcatShape
<1>8. \A i \in p + 1 .. n : (c \o b)[i + 1] = s[i]
  <2> TAKE i \in p + 1 .. n
  <2>1. i - p \in 1 .. n - p /\ p + 1 + (i - p) = i + 1 /\ p + (i - p) = i
    BY <1>1
  <2>2. (c \o b)[p + 1 + (i - p)] = b[i - p]
    BY <1>3, <1>5, <2>1, ConcatShape
  <2> QED BY <1>3, <2>1, <2>2
<1>9. new = c \o b
  <2>1. q - 1 = p
    BY <1>1
  <2>2. new = SubSeq(s, 1, q - 1) \o <<x>> \o SubSeq(s, q, Len(s))
    BY <1>0, InsertIs
  <2> QED BY <2>1, <2>2 DEF a, b, c
<1>10. \A i \in 1 .. p : i \in 1 .. p + 1
  BY <1>1
<1>11. p + 1 \in 1 .. p + 1
  BY <1>1
<1>12. new \in Seq(T) /\ Len(new) = n + 1 /\ DOMAIN new = 1 .. n + 1
  <2>1. new \in Seq(T)
    BY <1>6, <1>9, Zenon
  <2>2. Len(new) = n + 1
    BY <1>6, <1>9, Zenon
  <2> HIDE DEF n
  <2>3. DOMAIN new = 1 .. Len(new)
    BY <2>1, SMTT(20)
  <2> QED BY <2>1, <2>2, <2>3
<1>13. \A i \in 1 .. p : new[i] = s[i]
  BY <1>5, <1>7, <1>9, <1>10
<1>14. new[p + 1] = x
  BY <1>5, <1>7, <1>9, <1>11
<1>15. \A i \in p + 1 .. n : new[i + 1] = s[i]
  BY <1>8, <1>9
<1>16. InsertedIn(new, T, s, p, x)
  BY <1>12, <1>13, <1>14, <1>15 DEF InsertedIn
<1> QED BY <1>0, <1>16

(* A new member goes behind those that come before it.                     *)
LEMMA InsertListed ==
    ASSUME NEW Less, NEW S, NEW x, x \notin S, StrictOrder(Less, S \cup {x}),
           NEW s, Listed(s, S, Less),
           NEW q, q = Cardinality({k \in DOMAIN s : <<s[k], x>> \in Less}) + 1
    PROVE  Listed(InsertAt(s, q, x), S \cup {x}, Less)
<1> DEFINE before == {k \in DOMAIN s : <<s[k], x>> \in Less}
           p == Cardinality(before)
           n == Len(s)
           T == S \cup {x}
<1>1. s \in Seq(S) /\ n \in Nat /\ DOMAIN s = 1 .. n /\ \A i \in 1 .. n : s[i] \in S
  BY DEF Listed
<1>2. p \in 0 .. n /\ before = 1 .. p
  <2>1. before \in SUBSET (1 .. n)
    BY <1>1
  <2>2. ASSUME NEW k \in before, NEW j \in 1 .. k PROVE j \in before
    <3>1. k \in 1 .. n /\ j \in 1 .. n /\ <<s[k], x>> \in Less
      BY <1>1, <2>2
    <3>2. CASE j = k
      BY <2>2, <3>2
    <3>3. CASE j < k
      <4>1. <<s[j], s[k]>> \in Less
        BY <1>1, <3>1, <3>3 DEF Listed
      <4>2. s[j] \in T /\ s[k] \in T /\ x \in T
        BY <1>1, <3>1
      <4>3. <<s[j], x>> \in Less
        BY <3>1, <4>1, <4>2 DEF StrictOrder
      <4> QED BY <1>1, <3>1, <4>3
    <3> QED BY <3>1, <3>2, <3>3
  <2> HIDE DEF before
  <2> QED BY <1>1, <2>1, <2>2, Downset
<1>3. \A k \in 1 .. n : <<s[k], x>> \in Less <=> k <= p
  <2>1. \A k \in 1 .. n : <<s[k], x>> \in Less <=> k \in 1 .. p
    BY <1>1, <1>2
  <2> HIDE DEF before
  <2> QED BY <1>1, <1>2, <2>1
<1>p. q = p + 1
  OBVIOUS
<1> HIDE DEF p
<1>4. PICK new : new = InsertAt(s, q, x) /\ InsertedIn(new, T, s, p, x)
  <2>1. s \in Seq(T) /\ x \in T
    BY <1>1
  <2>2. p \in 0 .. Len(s)
    BY <1>2
  <2> HIDE DEF T
  <2> QED BY <1>p, <2>1, <2>2, InsertShape
<1>41. /\ new \in Seq(T) /\ Len(new) = n + 1 /\ DOMAIN new = 1 .. n + 1
       /\ \A i \in 1 .. p : new[i] = s[i]
       /\ new[p + 1] = x
       /\ \A i \in p + 1 .. n : new[i + 1] = s[i]
  BY <1>4 DEF InsertedIn
<1>5. ASSUME NEW y \in T PROVE \E i \in DOMAIN new : new[i] = y
  <2>0. p + 1 \in DOMAIN new /\ \A i \in 1 .. n : i \in DOMAIN new
    BY <1>1, <1>2, <1>41
  <2>1. CASE y = x
    BY <1>41, <2>0, <2>1, Zenon
  <2>2. CASE y \in S
    <3>1. PICK i \in 1 .. n : s[i] = y
      BY <1>1, <2>2 DEF Listed
    <3>2. CASE i <= p
      <4>1. i \in 1 .. p
        BY <1>2, <3>2
      <4>2. new[i] = y /\ i \in DOMAIN new
        BY <1>41, <2>0, <3>1, <4>1
      <4> QED BY <4>2, Zenon
    <3>3. CASE i > p
      <4>1. i \in p + 1 .. n /\ i + 1 \in 1 .. n + 1
        BY <1>1, <1>2, <3>3
      <4>2. new[i + 1] = y /\ i + 1 \in DOMAIN new
        BY <1>41, <3>1, <4>1
      <4> QED BY <4>2, Zenon
    <3>4. i <= p \/ i > p
      BY <1>1, <1>2
    <3> QED BY <3>2, <3>3, <3>4, Zenon
  <2> QED BY <2>1, <2>2
(* Where the elements come from.                                           *)
<1>6. ASSUME NEW i \in 1 .. n + 1
      PROVE  \/ i <= p /\ i \in 1 .. n /\ new[i] = s[i]
             \/ i = p + 1 /\ new[i] = x
             \/ i > p + 1 /\ i - 1 \in 1 .. n /\ i - 1 > p /\ new[i] = s[i - 1]
  <2>1. CASE i <= p
    BY <1>1, <1>2, <1>41, <2>1
  <2>2. CASE i = p + 1
    BY <1>41, <2>2
  <2>3. CASE i > p + 1
    <3>1. i - 1 \in p + 1 .. n /\ i - 1 + 1 = i /\ i - 1 \in 1 .. n
      BY <1>1, <1>2, <2>3
    <3> QED BY <1>2, <1>41, <2>3, <3>1
  <2> QED BY <1>1, <1>2, <2>1, <2>2, <2>3
<1>7. ASSUME NEW k \in 1 .. n, k > p PROVE <<x, s[k]>> \in Less
  <2>1. <<s[k], x>> \notin Less /\ s[k] \in S
    BY <1>1, <1>2, <1>3, <1>7
  <2> QED BY <2>1 DEF StrictOrder
<1>8. ASSUME NEW i \in 1 .. n + 1, NEW j \in 1 .. n + 1, i < j
      PROVE  <<new[i], new[j]>> \in Less
  <2>0. \A k, l \in 1 .. n : k < l => <<s[k], s[l]>> \in Less
    BY <1>1 DEF Listed
  <2>1. CASE i <= p /\ new[i] = s[i] /\ i \in 1 .. n
    <3>1. CASE j <= p /\ new[j] = s[j] /\ j \in 1 .. n
      BY <1>8, <2>0, <2>1, <3>1
    <3>2. CASE j = p + 1 /\ new[j] = x
      BY <1>3, <2>1, <3>2
    <3>3. CASE j > p + 1 /\ new[j] = s[j - 1] /\ j - 1 \in 1 .. n
      <4>1. i < j - 1
        BY <1>2, <2>1, <3>3
      <4> QED BY <2>0, <2>1, <3>3, <4>1
    <3> QED BY <1>6, <3>1, <3>2, <3>3
  <2>2. CASE i = p + 1 /\ new[i] = x
    <3>1. j > p + 1
      BY <1>2, <1>8, <2>2
    <3>2. j - 1 \in 1 .. n /\ j - 1 > p /\ new[j] = s[j - 1]
      BY <1>2, <1>6, <3>1
    <3> QED BY <1>7, <2>2, <3>2
  <2>3. CASE i > p + 1 /\ new[i] = s[i - 1] /\ i - 1 \in 1 .. n
    <3>1. j > p + 1
      BY <1>2, <1>8, <2>3
    <3>2. j - 1 \in 1 .. n /\ new[j] = s[j - 1]
      BY <1>2, <1>6, <3>1
    <3>3. i - 1 < j - 1
      BY <1>8
    <3> QED BY <2>0, <2>3, <3>2, <3>3
  <2> QED BY <1>6, <2>1, <2>2, <2>3
<1>9. Listed(new, T, Less)
  BY <1>41, <1>5, <1>8 DEF Listed
<1> QED BY <1>4, <1>9, Zenon

(* A listing has each member once.                                         *)
LEMMA ListedOnce ==
    ASSUME NEW Less, NEW S, StrictOrder(Less, S), NEW s, Listed(s, S, Less)
    PROVE  /\ Len(s) \in Nat /\ DOMAIN s = 1 .. Len(s) /\ s \in [1 .. Len(s) -> S]
           /\ \A i, j \in DOMAIN s : s[i] = s[j] => i = j
           /\ Cardinality(S) = Len(s)
<1> DEFINE n == Len(s)
<1>1. s \in Seq(S) /\ n \in Nat /\ DOMAIN s = 1 .. n /\ s \in [1 .. n -> S]
  BY DEF Listed
<1>2. ASSUME NEW i \in 1 .. n, NEW j \in 1 .. n, s[i] = s[j] PROVE i = j
  <2>1. s[i] \in S /\ s[j] \in S /\ <<s[i], s[j]>> \notin Less /\ <<s[j], s[i]>> \notin Less
    BY <1>1, <1>2 DEF StrictOrder
  <2>2. ~ i < j /\ ~ j < i
    BY <1>1, <2>1 DEF Listed
  <2> QED BY <1>1, <2>2
<1>3. s \in Bijection(1 .. n, S)
  <2>1. \A x \in S : \E i \in 1 .. n : s[i] = x
    BY <1>1 DEF Listed
  <2> QED BY <1>1, <1>2, <2>1 DEF Bijection, Injection, Surjection, IsInjective
<1>4. ExistsBijection(1 .. n, S)
  BY <1>3 DEF ExistsBijection
<1> HIDE DEF n
<1>5. Cardinality(S) = n
  BY <1>1, <1>4, FS_CountingElements
<1> QED BY <1>1, <1>2, <1>5 DEF n

(* Where two listings part, each is ahead of the other.                    *)
LEMMA ListingAhead ==
    ASSUME NEW Less, NEW S, StrictOrder(Less, S),
           NEW s, Listed(s, S, Less), NEW t, Listed(t, S, Less),
           NEW k \in DOMAIN s, k \in DOMAIN t, s[k] # t[k],
           \A i \in DOMAIN s : i < k => s[i] = t[i]
    PROVE  <<s[k], t[k]>> \in Less
<1>1. /\ Len(s) \in Nat /\ DOMAIN s = 1 .. Len(s) /\ s \in [1 .. Len(s) -> S]
      /\ Len(t) \in Nat /\ DOMAIN t = 1 .. Len(t) /\ t \in [1 .. Len(t) -> S]
      /\ \A i, j \in DOMAIN t : t[i] = t[j] => i = j
      /\ Len(s) = Len(t)
  BY ListedOnce
<1>2. t[k] \in S
  BY <1>1
<1>3. PICK j \in DOMAIN s : s[j] = t[k]
  BY <1>2 DEF Listed
<1>4. ~ j < k
  BY <1>1, <1>3
<1>5. k < j
  BY <1>1, <1>3, <1>4
<1> QED BY <1>3, <1>5 DEF Listed

(* A set has one listing in an order.                                      *)
LEMMA ListingUnique ==
    ASSUME NEW Less, NEW S, StrictOrder(Less, S),
           NEW s, Listed(s, S, Less), NEW t, Listed(t, S, Less)
    PROVE  s = t
<1> DEFINE n == Len(s)
           D == {i \in 1 .. n : s[i] # t[i]}
<1>1. /\ n \in Nat /\ DOMAIN s = 1 .. n /\ s \in [1 .. n -> S]
      /\ DOMAIN t = 1 .. n /\ t \in [1 .. n -> S]
  BY ListedOnce
<1>2. SUFFICES ASSUME D # {} PROVE FALSE
  BY <1>1
<1>3. PICK k \in D : \A i \in D : k <= i
  <2>1. D \in SUBSET Nat
    BY <1>1
  <2> HIDE DEF D
  <2> QED BY <1>2, <2>1, LeastElement
<1>4. k \in 1 .. n /\ s[k] # t[k] /\ \A i \in 1 .. n : i < k => s[i] = t[i]
  BY <1>1, <1>3
<1>5. <<s[k], t[k]>> \in Less /\ <<t[k], s[k]>> \in Less
  BY <1>1, <1>4, ListingAhead
<1>6. s[k] \in S /\ t[k] \in S
  BY <1>1, <1>4
<1> QED BY <1>5, <1>6 DEF StrictOrder

(* and it has one if it is finite.                                         *)
LEMMA ListingExists ==
    ASSUME NEW Less, NEW S, IsFiniteSet(S), StrictOrder(Less, S)
    PROVE  \E s : Listed(s, S, Less)
<1> DEFINE Missing == {k \in Nat : \E X \in SUBSET S : /\ Cardinality(X) = k
                                                      /\ ~ \E s : Listed(s, X, Less)}
<1> SUFFICES ASSUME ~ \E s : Listed(s, S, Less) PROVE FALSE
  OBVIOUS
<1>1. Missing # {}
  <2>1. Cardinality(S) \in Missing
    BY FS_CardinalityType
  <2> QED BY <2>1
<1>2. PICK k \in Missing : \A j \in Missing : k <= j
  <2>1. Missing \in SUBSET Nat
    OBVIOUS
  <2> HIDE DEF Missing
  <2> QED BY <1>1, <2>1, LeastElement
<1>3. PICK X \in SUBSET S : Cardinality(X) = k /\ ~ \E s : Listed(s, X, Less)
  BY <1>2
<1>4. X # {}
  <2>1. <<>> \in Seq({}) /\ DOMAIN <<>> = {}
    OBVIOUS
  <2>2. Listed(<<>>, {}, Less)
    BY <2>1 DEF Listed
  <2> QED BY <1>3, <2>2
<1>5. PICK x : x \in X
  BY <1>4
<1> DEFINE Y == X \ {x}
<1>6. /\ IsFiniteSet(X) /\ Cardinality(X) \in Nat
      /\ Cardinality(Y) \in Nat /\ Cardinality(Y) = Cardinality(X) - 1
  <2>1. IsFiniteSet(X)
    BY FS_Subset
  <2>2. IsFiniteSet(Y) /\ Cardinality(Y) = Cardinality(X) - 1
    BY <1>5, <2>1, FS_RemoveElement
  <2> QED BY <2>1, <2>2, FS_CardinalityType
<1>7. Cardinality(Y) \notin Missing
  <2> HIDE DEF Missing, Y
  <2> QED BY <1>2, <1>3, <1>6
<1>8. PICK s : Listed(s, Y, Less)
  BY <1>6, <1>7
<1>9. Y \cup {x} = X /\ x \notin Y
  BY <1>5
<1>10. StrictOrder(Less, X)
  BY DEF StrictOrder
<1> HIDE DEF Y, Missing
<1>11. StrictOrder(Less, Y \cup {x})
  BY <1>9, <1>10
<1>12. \E new : Listed(new, Y \cup {x}, Less)
  BY <1>8, <1>9, <1>11, InsertListed
<1> QED BY <1>3, <1>9, <1>12

(* The sequences of a set's members that have each once.                   *)
LEMMA PermutationOnto ==
    ASSUME NEW S, IsFiniteSet(S), NEW f \in [1 .. Cardinality(S) -> S],
           \A i, j \in 1 .. Cardinality(S) : i # j => f[i] # f[j]
    PROVE  f \in Seq(S) /\ DOMAIN f = 1 .. Cardinality(S) /\ \A x \in S : \E i \in DOMAIN f : f[i] = x
<1> DEFINE m == Cardinality(S)
<1>1. m \in Nat
  BY FS_CardinalityType
<1>2. f \in Injection(1 .. m, S)
  BY DEF Injection, IsInjective
<1>3. IsFiniteSet(1 .. m) /\ Cardinality(1 .. m) = m
  <2> HIDE DEF m
  <2>1. m \in Int /\ 1 - 1 <= m /\ IF m >= 1 THEN m - 1 + 1 = m ELSE m = 0
    BY <1>1
  <2> QED BY <1>1, <2>1, FS_Interval
<1>4. f \in Surjection(1 .. m, S)
  <2> HIDE DEF m
  <2> QED BY <1>1, <1>2, <1>3, FS_Injection DEF m
<1> QED BY <1>1, <1>4 DEF Surjection

Permuted(S) == {f \in [1 .. Cardinality(S) -> S] :
                  \A i, j \in 1 .. Cardinality(S) : i # j => f[i] # f[j]}

Ordered(s, Less) == \A i, j \in DOMAIN s : i < j => <<s[i], s[j]>> \in Less

(* The sorted list of a finite set is its listing.                         *)
LEMMA SortedListed ==
    ASSUME NEW Less, NEW S, IsFiniteSet(S), StrictOrder(Less, S),
           NEW lists, lists = Permuted(S)
    PROVE  /\ \E s \in lists : Ordered(s, Less)
           /\ \A s \in lists : Ordered(s, Less) => Listed(s, S, Less)
<1>1. PICK s : Listed(s, S, Less)
  BY ListingExists
<1>2. /\ s \in [1 .. Cardinality(S) -> S] /\ DOMAIN s = 1 .. Cardinality(S)
      /\ \A i, j \in DOMAIN s : s[i] = s[j] => i = j
  BY <1>1, ListedOnce
<1>3. s \in lists
  BY <1>2 DEF Permuted
<1>4. Ordered(s, Less)
  BY <1>1 DEF Listed, Ordered
<1>5. ASSUME NEW f \in lists, Ordered(f, Less)
      PROVE  Listed(f, S, Less)
  <2>1. f \in Seq(S) /\ \A x \in S : \E i \in DOMAIN f : f[i] = x
    <3>1. f \in [1 .. Cardinality(S) -> S]
      BY DEF Permuted
    <3>2. \A i, j \in 1 .. Cardinality(S) : i # j => f[i] # f[j]
      BY DEF Permuted
    <3> QED BY <3>1, <3>2, PermutationOnto
  <2> QED BY <1>5, <2>1 DEF Listed, Ordered
<1> QED BY <1>3, <1>4, <1>5, Zenon

----------------------------------------------------------------------------
(* Lists of lists, put behind each other                                   *)

Concat(a, b) == a \o b

CF == INSTANCE OrderLemmas WITH Combine <- Concat

(* FlattenSeq is the fold of concatenation.                                *)
LEMMA FlattenIsFold ==
    ASSUME NEW S, NEW seqs \in Seq(Seq(S))
    PROVE  FlattenSeq(seqs) = CF!Fold(<<>>, seqs)
<1> DEFINE n == Len(seqs)
           next(f, i) == IF i = 1 THEN seqs[i] ELSE f[i - 1] \o seqs[i]
<1>1. n \in Nat /\ \A i \in 1 .. n : seqs[i] \in Seq(S)
  OBVIOUS
<1>2. CASE n = 0
  <2>1. seqs = <<>>
    BY <1>2
  <2> QED BY <1>2, <2>1, CF!FoldNone DEF FlattenSeq
<1>3. CASE n # 0
  <2>1. PICK g : /\ g[0] = <<>>
                 /\ \A i \in 1 .. n : g[i] = Concat(g[i - 1], seqs[i])
                 /\ g[n] = CF!Fold(<<>>, seqs)
    BY CF!FoldSteps
  <2> HIDE DEF n
  <2>2. 1 \in 1 .. n /\ n \in 1 .. n
    BY <1>1, <1>3
  <2>3. <<>> \o seqs[1] = seqs[1]
    BY <1>1, <2>2
  <2>4. g[1] = seqs[1]
    <3>1. 1 - 1 = 0 /\ Concat(<<>>, seqs[1]) = seqs[1]
      BY <2>3 DEF Concat
    <3>2. g[1] = Concat(g[1 - 1], seqs[1]) /\ g[0] = <<>>
      BY <2>1, <2>2
    <3> QED BY <3>1, <3>2, Zenon
  <2> DEFINE f == [i \in 1 .. n |-> g[i]]
             c == CHOOSE h : h = [i \in 1 .. n |-> next(h, i)]
  <2>5. ASSUME NEW i \in 1 .. n PROVE g[i] = next(f, i)
    <3>1. CASE i = 1
      BY <2>4, <3>1
    <3>2. CASE i # 1
      <4>1. i - 1 \in 1 .. n
        BY <1>1, <3>2
      <4>2. f[i - 1] = g[i - 1]
        BY <4>1
      <4> HIDE DEF f
      <4> QED BY <2>1, <3>2, <4>2 DEF Concat
    <3> QED BY <3>1, <3>2
  <2>6. f = [i \in 1 .. n |-> next(f, i)]
    <3> HIDE DEF next
    <3>1. \A i \in 1 .. n : g[i] = next(f, i)
      BY <2>5
    <3> QED BY <3>1, Zenon
  <2> HIDE DEF f
  <2>7. c = [i \in 1 .. n |-> next(c, i)]
    <3> HIDE DEF next
    <3>1. \E h : h = [i \in 1 .. n |-> next(h, i)]
      BY <2>6
    <3> QED BY <3>1
  <2>8. FlattenSeq(seqs) = c[n]
    BY <1>3 DEF FlattenSeq, n
  <2> HIDE DEF c
  <2>9. \A i \in 1 .. n : c[i] = next(c, i)
    <3> HIDE DEF next
    <3> QED BY <2>7
  <2> DEFINE h == [i \in 0 .. n |-> IF i = 0 THEN <<>> ELSE c[i]]
  <2>10. h[0] = <<>> /\ h[n] = c[n]
    BY <1>1, <1>3
  <2>11. ASSUME NEW i \in 1 .. n PROVE h[i] = Concat(h[i - 1], seqs[i])
    <3>1. h[i] = c[i]
      BY <1>1
    <3>2. CASE i = 1
      <4>1. h[i - 1] = <<>>
        BY <1>1, <3>2
      <4> HIDE DEF h
      <4> QED BY <2>3, <2>9, <3>1, <3>2, <4>1 DEF Concat
    <3>3. CASE i # 1
      <4>1. h[i - 1] = c[i - 1]
        BY <1>1, <3>3
      <4> HIDE DEF h
      <4> QED BY <2>9, <3>1, <3>3, <4>1 DEF Concat
    <3> QED BY <3>2, <3>3
  <2> HIDE DEF h, next
  <2>12. h[n] = g[n]
    <3>1. g[0] = h[0] /\ n \in 0 .. n /\ n \in Nat
      BY <1>1, <2>1, <2>10
    <3>2. CF!Folds(g, seqs, n) /\ CF!Folds(h, seqs, n)
      BY <2>1, <2>11 DEF CF!Folds
    <3>3. \A k \in 0 .. n : g[k] = h[k]
      BY <3>1, <3>2, CF!StepsUnique
    <3> QED BY <3>1, <3>3
  <2> QED BY <2>1, <2>8, <2>10, <2>12
<1> QED BY <1>2, <1>3

(* A list of lists over S is flattened to a list over S.                   *)
LEMMA FlattenTyped ==
    ASSUME NEW S, NEW seqs \in Seq(Seq(S))
    PROVE  FlattenSeq(seqs) \in Seq(S)
<1>1. CF!Keeps(Seq(S), Seq(S))
  <2>1. \A y \in Seq(S) : \A x \in Seq(S) : Concat(y, x) \in Seq(S)
    BY ConcatShape DEF Concat
  <2> QED BY <2>1 DEF CF!Keeps
<1>2. <<>> \in Seq(S)
  OBVIOUS
<1>3. CF!Fold(<<>>, seqs) \in Seq(S)
  BY <1>1, <1>2, CF!FoldIn
<1>4. FlattenSeq(seqs) = CF!Fold(<<>>, seqs)
  BY FlattenIsFold
<1> QED BY <1>3, <1>4

(* One more list goes behind the others.                                   *)
LEMMA FlattenAppend ==
    ASSUME NEW S, NEW seqs \in Seq(Seq(S)), NEW x \in Seq(S)
    PROVE  FlattenSeq(Append(seqs, x)) = FlattenSeq(seqs) \o x
<1>1. Append(seqs, x) \in Seq(Seq(S))
  OBVIOUS
<1>2. CF!Fold(<<>>, Append(seqs, x)) = Concat(CF!Fold(<<>>, seqs), x)
  BY CF!FoldAppend
<1> QED BY <1>1, <1>2, FlattenIsFold DEF Concat

----------------------------------------------------------------------------
(* The layout of rewrite rules                                             *)

AnyRule == [input : Seq(Nat), output : Seq(Nat), cost : Int, priority : Int]

Cells(S) == [rule : S, step : Nat]

Run(rule, index) == R!Continuations(rule, index)

Runs(list) == [i \in DOMAIN list |-> Run(list[i], i)]

Lookup(list) == FlattenSeq(Runs(list))

(* A rule goes before those of a lower priority and before later ones.     *)
Ahead(list) ==
    {p \in (DOMAIN list) \X (DOMAIN list) :
       \/ list[p[1]].priority > list[p[2]].priority
       \/ list[p[1]].priority = list[p[2]].priority /\ p[1] < p[2]}

(* The greater of two numbers.                                             *)
LEMMA MaxOfTwo ==
    ASSUME NEW a \in Int, NEW b \in Int
    PROVE  R!Max({a, b}) = IF a >= b THEN a ELSE b
<1>1. \E x \in {a, b} : \A y \in {a, b} : x >= y
  OBVIOUS
<1> DEFINE m == CHOOSE x \in {a, b} : \A y \in {a, b} : x >= y
<1>2. m \in {a, b} /\ m >= a /\ m >= b
  BY <1>1
<1>3. R!Max({a, b}) = m
  BY DEF R!Max
<1> HIDE DEF m
<1> QED BY <1>2, <1>3

(* The lesser of two numbers.                                              *)
LEMMA MinOfTwo ==
    ASSUME NEW a \in Int, NEW b \in Int
    PROVE  R!Min({a, b}) = IF a <= b THEN a ELSE b
<1>1. \E x \in {a, b} : \A y \in {a, b} : x <= y
  OBVIOUS
<1> DEFINE m == CHOOSE x \in {a, b} : \A y \in {a, b} : x <= y
<1>2. m \in {a, b} /\ m <= a /\ m <= b
  BY <1>1
<1>3. R!Min({a, b}) = m
  BY DEF R!Min
<1> HIDE DEF m
<1> QED BY <1>2, <1>3

(* The continuation states of a rule are one fewer than its steps.         *)
LEMMA RunShape ==
    ASSUME NEW rule \in AnyRule, NEW index, NEW S, index \in S
    PROVE  /\ R!steps(rule) \in Nat
           /\ Run(rule, index) \in Seq(Cells(S))
           /\ Len(Run(rule, index)) \in Nat
           /\ R!steps(rule) - 1 <= Len(Run(rule, index))
           /\ \A k \in 1 .. Len(Run(rule, index)) : Run(rule, index)[k].rule = index
<1> DEFINE n == R!steps(rule)
           m == R!Max({n, 1}) - 1
           run == Run(rule, index)
<1>1. n \in Nat
  <2>1. Len(rule.input) \in Nat /\ Len(rule.output) \in Nat
    BY DEF AnyRule
  <2> QED BY <2>1, MaxOfTwo DEF R!steps
<1> HIDE DEF n
<1>2. m \in Nat /\ n - 1 <= m
  <2>1. R!Max({n, 1}) = IF n >= 1 THEN n ELSE 1
    BY <1>1, MaxOfTwo
  <2> QED BY <1>1, <2>1
<1>3. run = [s \in 1 .. m |-> [rule |-> index, step |-> s]]
  BY DEF Run, R!Continuations, n
<1> HIDE DEF m, run
<1>4. run \in Seq(Cells(S)) /\ Len(run) = m /\ \A k \in 1 .. m : run[k].rule = index
  <2>1. \A s \in 1 .. m : [rule |-> index, step |-> s] \in Cells(S)
    BY <1>2 DEF Cells
  <2>2. run \in [1 .. m -> Cells(S)]
    BY <1>3, <2>1
  <2>3. run \in Seq(Cells(S)) /\ Len(run) = m
    BY <1>2, <2>2
  <2>4. \A k \in 1 .. m : run[k] = [rule |-> index, step |-> k]
    BY <1>3
  <2> QED BY <2>3, <2>4
<1> QED BY <1>1, <1>2, <1>4 DEF n, run

(* There is one run of continuation states per rule.                       *)
LEMMA RunsShape ==
    ASSUME NEW list \in Seq(AnyRule), NEW S, DOMAIN list \subseteq S
    PROVE  Runs(list) \in Seq(Seq(Cells(S))) /\ Len(Runs(list)) = Len(list)
<1>1. Len(list) \in Nat /\ DOMAIN list = 1 .. Len(list) /\ \A i \in DOMAIN list : list[i] \in AnyRule
  OBVIOUS
<1>2. \A i \in 1 .. Len(list) : Run(list[i], i) \in Seq(Cells(S))
  BY <1>1, RunShape
<1>3. Runs(list) \in [1 .. Len(list) -> Seq(Cells(S))]
  BY <1>1, <1>2 DEF Runs
<1> QED BY <1>1, <1>3

(* The states of one more rule go behind all others.                       *)
LEMMA LookupAppend ==
    ASSUME NEW list \in Seq(AnyRule), NEW rule \in AnyRule
    PROVE  Lookup(Append(list, rule)) = Lookup(list) \o Run(rule, Len(list) + 1)
<1> DEFINE n == Len(list)
           more == Append(list, rule)
           all == 1 .. n + 1
<1>1. /\ n \in Nat /\ DOMAIN list = 1 .. n
      /\ DOMAIN more = all /\ more[n + 1] = rule /\ \A i \in 1 .. n : more[i] = list[i]
  BY AppendShape
<1> HIDE DEF more
<1>2. Runs(list) \in Seq(Seq(Cells(all))) /\ Len(Runs(list)) = n
  <2>1. DOMAIN list \subseteq all
    BY <1>1
  <2> QED BY <2>1, RunsShape
<1>3. Run(rule, n + 1) \in Seq(Cells(all))
  <2>1. n + 1 \in all
    BY <1>1
  <2> QED BY <2>1, RunShape
<1> DEFINE runs == Append(Runs(list), Run(rule, n + 1))
<1>4. Runs(more) = runs
  <2>1. \A i \in all : Runs(more)[i] = runs[i]
    <3> TAKE i \in all
    <3>1. Runs(more)[i] = Run(more[i], i)
      BY <1>1 DEF Runs
    <3>2. CASE i = n + 1
      BY <1>1, <1>2, <1>3, <3>1, <3>2, AppendShape
    <3>3. CASE i \in 1 .. n
      <4>1. Runs(list)[i] = Run(list[i], i)
        BY <1>1, <3>3 DEF Runs
      <4>2. runs[i] = Runs(list)[i]
        <5>1. i \in DOMAIN Runs(list)
          BY <1>2, <3>3
        <5> QED BY <1>2, <1>3, <5>1, AppendShape
      <4> QED BY <1>1, <3>1, <3>3, <4>1, <4>2
    <3>4. i = n + 1 \/ i \in 1 .. n
      BY <1>1
    <3> HIDE DEF runs
    <3> QED BY <3>2, <3>3, <3>4
  <2>2. DOMAIN runs = all
    BY <1>2, <1>3, AppendShape
  <2>3. DOMAIN Runs(more) = all /\ Runs(more) = [i \in all |-> Runs(more)[i]]
    BY <1>1 DEF Runs
  <2>4. runs = [i \in all |-> runs[i]]
    <3>1. runs \in Seq(Seq(Cells(all)))
      BY <1>2, <1>3, AppendShape
    <3> HIDE DEF runs
    <3> QED BY <2>2, <3>1
  <2> HIDE DEF runs
  <2> QED BY <2>1, <2>3, <2>4
<1>5. FlattenSeq(runs) = FlattenSeq(Runs(list)) \o Run(rule, n + 1)
  BY <1>2, <1>3, FlattenAppend
<1> QED BY <1>4, <1>5 DEF Lookup, more

(* The table of continuation states names rules and steps that exist.      *)
LEMMA LookupTyped ==
    ASSUME NEW list \in Seq(AnyRule)
    PROVE  /\ Lookup(list) \in Seq(Cells(1 .. Len(list)))
           /\ Len(Lookup(list)) \in Nat /\ DOMAIN Lookup(list) = 1 .. Len(Lookup(list))
           /\ \A k \in DOMAIN Lookup(list) : /\ Lookup(list)[k].rule \in 1 .. Len(list)
                                             /\ Lookup(list)[k].step \in Nat
<1> DEFINE all == 1 .. Len(list)
           cells == Lookup(list)
<1>1. DOMAIN list \subseteq all
  OBVIOUS
<1>2. cells \in Seq(Cells(all))
  BY <1>1, RunsShape, FlattenTyped DEF Lookup
<1> HIDE DEF cells, all
<1>3. \A k \in DOMAIN cells : cells[k] \in Cells(all)
  BY <1>2
<1>4. Len(cells) \in Nat /\ DOMAIN cells = 1 .. Len(cells)
  BY <1>2
<1>5. \A k \in DOMAIN cells : cells[k].rule \in all /\ cells[k].step \in Nat
  BY <1>3 DEF Cells
<1> QED BY <1>2, <1>4, <1>5 DEF cells, all

(* The continuation states up to a rule.                                   *)
Upward(list, i) == {k \in DOMAIN Lookup(list) : Lookup(list)[k].rule <= i}

Offsets(list) == [i \in DOMAIN list |-> Cardinality(Upward(list, i))]

Begin(list, i) == IF i = 1 THEN 0 ELSE Offsets(list)[i - 1]

(* A rule added last leaves the offsets of the others as they are.         *)
LEMMA OffsetsAppend ==
    ASSUME NEW list \in Seq(AnyRule), NEW rule \in AnyRule
    PROVE  /\ \A i \in 1 .. Len(list) : Offsets(Append(list, rule))[i] = Offsets(list)[i]
           /\ Offsets(Append(list, rule))[Len(list) + 1] = Len(Lookup(Append(list, rule)))
<1> DEFINE n == Len(list)
           more == Append(list, rule)
           old == Lookup(list)
           run == Run(rule, n + 1)
           new == Lookup(more)
           all == 1 .. n + 1
<1>1. /\ n \in Nat /\ DOMAIN list = 1 .. n
      /\ more \in Seq(AnyRule) /\ Len(more) = n + 1 /\ DOMAIN more = all
  BY AppendShape
<1>2. /\ old \in Seq(Cells(all)) /\ Len(old) \in Nat /\ DOMAIN old = 1 .. Len(old)
  <2>1. DOMAIN list \subseteq all
    BY <1>1
  <2>2. old \in Seq(Cells(all))
    BY <2>1, RunsShape, FlattenTyped DEF Lookup
  <2> QED BY <2>2, LookupTyped
<1>3. run \in Seq(Cells(all)) /\ Len(run) \in Nat /\ \A k \in 1 .. Len(run) : run[k].rule = n + 1
  <2>1. n + 1 \in all
    BY <1>1
  <2> QED BY <2>1, RunShape
<1>4. /\ Len(new) \in Nat /\ DOMAIN new = 1 .. Len(new)
      /\ \A k \in DOMAIN new : new[k].rule \in all
  BY <1>1, LookupTyped
<1>5. new = old \o run
  BY LookupAppend
<1> HIDE DEF more, old, new, run, n
<1>6. /\ Len(new) = Len(old) + Len(run)
      /\ \A k \in 1 .. Len(old) : new[k] = old[k]
      /\ \A k \in 1 .. Len(run) : new[Len(old) + k] = run[k]
      /\ \A k \in 1 .. Len(old) + Len(run) :
            k \in 1 .. Len(old) \/ \E j \in 1 .. Len(run) : k = Len(old) + j
  BY <1>2, <1>3, <1>5, ConcatShape
<1>7. ASSUME NEW i \in 1 .. n PROVE Upward(more, i) = Upward(list, i)
  <2>1. \A k \in 1 .. Len(old) : k \in DOMAIN new
    BY <1>2, <1>3, <1>4, <1>6
  <2>2. ASSUME NEW k \in DOMAIN new, new[k].rule <= i PROVE k \in 1 .. Len(old)
    <3>1. ASSUME NEW j \in 1 .. Len(run), k = Len(old) + j PROVE FALSE
      <4>1. new[k].rule = n + 1
        BY <1>3, <1>6, <3>1
      <4> QED BY <1>1, <2>2, <4>1
    <3> QED BY <1>4, <1>6, <3>1
  <2> QED BY <1>2, <1>6, <2>1, <2>2 DEF Upward, old, new
<1>8. Upward(more, n + 1) = 1 .. Len(new)
  <2>1. \A k \in DOMAIN new : new[k].rule <= n + 1
    BY <1>1, <1>4
  <2> QED BY <1>4, <2>1 DEF Upward, new
<1>9. Cardinality(1 .. Len(new)) = Len(new)
  <2>1. PICK m : m = Len(new)
    OBVIOUS
  <2>2. m \in Int /\ 1 \in Int /\ m \in Nat
    BY <1>4, <2>1
  <2>3. Cardinality(1 .. m) = IF 1 > m THEN 0 ELSE m - 1 + 1
    BY <2>2, FS_Interval
  <2>4. Cardinality(1 .. m) = m
    BY <2>2, <2>3
  <2> QED BY <2>1, <2>4
<1>10. \A i \in 1 .. n : Offsets(more)[i] = Offsets(list)[i]
  <2> TAKE i \in 1 .. n
  <2>1. i \in all
    BY <1>1
  <2> QED BY <1>1, <1>7, <2>1 DEF Offsets
<1>11. Offsets(more)[n + 1] = Len(new)
  BY <1>1, <1>8, <1>9 DEF Offsets
<1> QED BY <1>10, <1>11 DEF n, more, new

(* Each rule's run begins where that of the one before it ends.            *)
RunsAbut(list) ==
    /\ \A i \in 1 .. Len(list) : /\ Offsets(list)[i] \in Nat
                                 /\ Offsets(list)[i] <= Len(Lookup(list))
                                 /\ Offsets(list)[i] = Begin(list, i) + Len(Run(list[i], i))
    /\ Begin(list, Len(list) + 1) = Len(Lookup(list))

(* The runs still abut with one more rule.                                 *)
LEMMA RunsAbutAppend ==
    ASSUME NEW list \in Seq(AnyRule), NEW rule \in AnyRule, RunsAbut(list)
    PROVE  RunsAbut(Append(list, rule))
<1> DEFINE n == Len(list)
           more == Append(list, rule)
           old == Lookup(list)
           run == Run(rule, n + 1)
           new == Lookup(more)
<1>1. /\ n \in Nat /\ more \in Seq(AnyRule) /\ Len(more) = n + 1
      /\ more[n + 1] = rule /\ \A i \in 1 .. n : more[i] = list[i]
  BY AppendShape
<1>2. /\ \A i \in 1 .. n : Offsets(more)[i] = Offsets(list)[i]
      /\ Offsets(more)[n + 1] = Len(new)
  BY OffsetsAppend
<1>3. Len(old) \in Nat /\ Len(run) \in Nat /\ Len(new) = Len(old) + Len(run)
  <2> DEFINE all == 1 .. n + 1
  <2>1. DOMAIN list \subseteq all /\ n + 1 \in all
    BY <1>1
  <2>2. old \in Seq(Cells(all))
    BY <2>1, RunsShape, FlattenTyped DEF Lookup
  <2>3. run \in Seq(Cells(all)) /\ Len(run) \in Nat
    BY <2>1, RunShape
  <2> QED BY <2>2, <2>3, LookupTyped, LookupAppend, ConcatShape
<1>4. /\ \A i \in 1 .. n : /\ Offsets(list)[i] \in Nat /\ Offsets(list)[i] <= Len(old)
                           /\ Offsets(list)[i] = Begin(list, i) + Len(Run(list[i], i))
      /\ Begin(list, n + 1) = Len(old)
  BY DEF RunsAbut
<1> HIDE DEF more, old, new, run, n
<1>5. \A i \in 1 .. n + 1 : Begin(more, i) = Begin(list, i)
  <2> TAKE i \in 1 .. n + 1
  <2>1. CASE i = 1
    BY <2>1 DEF Begin
  <2>2. CASE i # 1
    <3>1. i - 1 \in 1 .. n
      BY <1>1, <2>2
    <3> QED BY <1>2, <2>2, <3>1 DEF Begin
  <2> QED BY <2>1, <2>2
<1>6. ASSUME NEW i \in 1 .. n + 1
      PROVE  /\ Offsets(more)[i] \in Nat /\ Offsets(more)[i] <= Len(new)
             /\ Offsets(more)[i] = Begin(more, i) + Len(Run(more[i], i))
  <2>1. CASE i \in 1 .. n
    BY <1>1, <1>2, <1>3, <1>4, <1>5, <2>1
  <2>2. CASE i = n + 1
    <3>1. Run(more[i], i) = run
      BY <1>1, <2>2 DEF run
    <3>2. Begin(more, i) = Len(old) /\ Offsets(more)[i] = Len(new)
      BY <1>2, <1>4, <1>5, <2>2
    <3> QED BY <1>3, <3>1, <3>2
  <2>3. i \in 1 .. n \/ i = n + 1
    BY <1>1
  <2> QED BY <2>1, <2>2, <2>3
<1>7. Begin(more, Len(more) + 1) = Len(new)
  BY <1>1, <1>2 DEF Begin
<1>8. RunsAbut(more)
  BY <1>1, <1>6, <1>7 DEF RunsAbut, new
<1> QED BY <1>8 DEF more

(* The run of each rule begins in the table where its offsets say.         *)
LEMMA RunsAbutAll ==
    ASSUME NEW list \in Seq(AnyRule) PROVE RunsAbut(list)
<1> DEFINE n == Len(list)
           Apart == {k \in 0 .. n : ~ RunsAbut(SubSeq(list, 1, k))}
<1>1. n \in Nat /\ SubSeq(list, 1, n) = list
  OBVIOUS
<1> HIDE DEF n
<1> SUFFICES ASSUME Apart # {} PROVE FALSE
  <2>1. n \in 0 .. n /\ n \notin Apart
    BY <1>1
  <2>2. RunsAbut(SubSeq(list, 1, n))
    BY <2>1
  <2> QED BY <1>1, <2>2
<1>2. PICK k \in Apart : \A j \in Apart : k <= j
  <2>1. Apart \in SUBSET Nat
    BY <1>1
  <2> HIDE DEF Apart
  <2> QED BY <2>1, LeastElement
<1>3. k # 0
  <2>1. SubSeq(list, 1, 0) = <<>> /\ Len(<<>>) = 0 /\ <<>> \in Seq(AnyRule)
    OBVIOUS
  <2>2. Len(Lookup(<<>>)) = 0
    <3>1. Runs(<<>>) = <<>>
      BY DEF Runs
    <3> QED BY <3>1 DEF Lookup, FlattenSeq
  <2>3. RunsAbut(<<>>)
    BY <2>1, <2>2 DEF RunsAbut, Begin
  <2> QED BY <1>2, <2>1, <2>3
<1>4. k - 1 \in 0 .. n /\ k \in 1 .. n
  BY <1>1, <1>2, <1>3
<1>5. RunsAbut(SubSeq(list, 1, k - 1))
  BY <1>1, <1>2, <1>4
<1>6. /\ SubSeq(list, 1, k - 1) \in Seq(AnyRule) /\ list[k] \in AnyRule
      /\ SubSeq(list, 1, k) = Append(SubSeq(list, 1, k - 1), list[k])
  BY <1>4 DEF n
<1> QED BY <1>2, <1>5, <1>6, RunsAbutAppend


(* The order of emission, for two rules by their priorities and places.    *)
LEMMA AheadIs ==
    ASSUME NEW list, NEW i \in DOMAIN list, NEW j \in DOMAIN list
    PROVE  <<i, j>> \in Ahead(list) <=> \/ list[i].priority > list[j].priority
                                        \/ list[i].priority = list[j].priority /\ i < j
<1> DEFINE p == <<i, j>>
           test(u) == \/ list[u[1]].priority > list[u[2]].priority
                      \/ list[u[1]].priority = list[u[2]].priority /\ u[1] < u[2]
<1>1. p \in (DOMAIN list) \X (DOMAIN list)
  OBVIOUS
<1>2. p[1] = i /\ p[2] = j
  OBVIOUS
<1>3. test(p) <=> \/ list[i].priority > list[j].priority
                  \/ list[i].priority = list[j].priority /\ i < j
  BY <1>2
<1> HIDE DEF test
<1>4. p \in Ahead(list) <=> test(p)
  <2> HIDE DEF p
  <2>1. Ahead(list) = {u \in (DOMAIN list) \X (DOMAIN list) : test(u)}
    BY DEF Ahead, test
  <2> QED BY <1>1, <2>1
<1> QED BY <1>3, <1>4

(* The order of emission is a strict order on the rules.                   *)
LEMMA AheadStrict ==
    ASSUME NEW list \in Seq(AnyRule)
    PROVE  /\ StrictOrder(Ahead(list), DOMAIN list)
           /\ IsFiniteSet(DOMAIN list)
<1>1. Len(list) \in Nat /\ DOMAIN list = 1 .. Len(list) /\ \A i \in DOMAIN list : list[i].priority \in Int
  <2>1. \A i \in DOMAIN list : list[i] \in AnyRule
    OBVIOUS
  <2>2. \A rule \in AnyRule : rule.priority \in Int
    BY DEF AnyRule
  <2> QED BY <2>1, <2>2
<1>2. \A i, j \in DOMAIN list :
         <<i, j>> \in Ahead(list) <=> \/ list[i].priority > list[j].priority
                                      \/ list[i].priority = list[j].priority /\ i < j
  BY AheadIs
<1>3. IsFiniteSet(DOMAIN list)
  BY <1>1, FS_Interval
<1>4. \A i \in DOMAIN list : <<i, i>> \notin Ahead(list)
  BY <1>1, <1>2
<1>5. ASSUME NEW i \in DOMAIN list, NEW j \in DOMAIN list, NEW k \in DOMAIN list,
             <<i, j>> \in Ahead(list), <<j, k>> \in Ahead(list)
      PROVE  <<i, k>> \in Ahead(list)
  <2>1. i \in Int /\ j \in Int /\ k \in Int
    BY <1>1
  <2> QED BY <1>1, <1>2, <1>5, <2>1
<1>6. ASSUME NEW i \in DOMAIN list, NEW j \in DOMAIN list, i # j
      PROVE  <<i, j>> \in Ahead(list) \/ <<j, i>> \in Ahead(list)
  <2>1. i \in Int /\ j \in Int
    BY <1>1
  <2> QED BY <1>1, <1>2, <1>6, <2>1
<1> QED BY <1>3, <1>4, <1>5, <1>6 DEF StrictOrder

(* What from_rules computes.                                               *)
LEMMA MetadataIs ==
    ASSUME NEW list \in Seq(AnyRule)
    PROVE  \E order : /\ R!from_rules(list) = <<Offsets(list), Lookup(list), order>>
                      /\ Listed(order, DOMAIN list, Ahead(list))
<1> DEFINE S == DOMAIN list
           lists == R!SetToSeqs(S)
           before(i, j) == \/ list[i].priority > list[j].priority
                           \/ list[i].priority = list[j].priority /\ i < j
           sorted(s) == \A i, j \in DOMAIN s : i < j => before(s[i], s[j])
           order == CHOOSE s \in lists : sorted(s)
<1>1. lists = Permuted(S)
  BY DEF R!SetToSeqs, R!Cardinality, Cardinality, Permuted
<1>2. StrictOrder(Ahead(list), S) /\ IsFiniteSet(S)
  BY AheadStrict
<1>3. /\ \E s \in lists : Ordered(s, Ahead(list))
      /\ \A s \in lists : Ordered(s, Ahead(list)) => Listed(s, S, Ahead(list))
  <2> HIDE DEF lists, S
  <2> QED BY <1>1, <1>2, SortedListed
<1>4. ASSUME NEW s \in lists
      PROVE  sorted(s) <=> Ordered(s, Ahead(list))
  <2>1. \A i \in DOMAIN s : s[i] \in S
    <3> HIDE DEF lists, S
    <3> QED BY <1>1 DEF Permuted
  <2>2. \A x, y \in S : <<x, y>> \in Ahead(list) <=> before(x, y)
    BY AheadIs
  <2> HIDE DEF before, S, lists
  <2> QED BY <2>1, <2>2 DEF Ordered
<1> HIDE DEF sorted, lists
<1>5. order \in lists /\ sorted(order)
  <2>1. \E s \in lists : sorted(s)
    BY <1>3, <1>4
  <2> QED BY <2>1
<1>6. R!from_rules(list) = <<Offsets(list), Lookup(list), order>>
  <2>1. R!FlattenSeq([i \in DOMAIN list |-> R!Continuations(list[i], i)]) = Lookup(list)
    BY DEF R!FlattenSeq, FlattenSeq, Lookup, Runs, Run
  <2>2. \A X : R!Cardinality(X) = Cardinality(X)
    BY DEF R!Cardinality, Cardinality
  <2>3. R!Sorted(DOMAIN list, before) = order
    BY DEF R!Sorted, sorted, lists
  <2> QED BY <2>1, <2>2, <2>3 DEF R!from_rules, Offsets, Upward
<1> HIDE DEF order
<1> QED BY <1>3, <1>4, <1>5, <1>6

(* The rules of at least the same priority are those before a new rule.    *)
Place(list, order, rule) ==
    Cardinality({k \in DOMAIN order : list[order[k]].priority >= rule.priority}) + 1

(* A rule inserted into the order of emission yields the order of all.     *)
LEMMA PrioritiesAppend ==
    ASSUME NEW list \in Seq(AnyRule), NEW rule \in AnyRule,
           NEW order, Listed(order, DOMAIN list, Ahead(list))
    PROVE  Listed(InsertAt(order, Place(list, order, rule), Len(list) + 1),
                  DOMAIN Append(list, rule), Ahead(Append(list, rule)))
<1> DEFINE n == Len(list)
           more == Append(list, rule)
           S == DOMAIN list
           before == {k \in DOMAIN order : <<order[k], n + 1>> \in Ahead(more)}
<1>1. /\ n \in Nat /\ S = 1 .. n
      /\ more \in Seq(AnyRule) /\ DOMAIN more = 1 .. n + 1
      /\ more[n + 1] = rule /\ \A i \in 1 .. n : more[i] = list[i]
  BY AppendShape
<1>2. \A i \in S : list[i].priority \in Int
  <2>1. \A i \in S : list[i] \in AnyRule
    OBVIOUS
  <2>2. \A r \in AnyRule : r.priority \in Int
    BY DEF AnyRule
  <2> QED BY <2>1, <2>2
<1>3. rule.priority \in Int
  BY DEF AnyRule
<1>4. order \in Seq(S) /\ \A k \in DOMAIN order : order[k] \in S
  BY DEF Listed
<1> HIDE DEF more, n, S
<1>5. DOMAIN more = S \cup {n + 1} /\ n + 1 \notin S
  BY <1>1
<1>6. ASSUME NEW i \in S, NEW j \in S PROVE <<i, j>> \in Ahead(more) <=> <<i, j>> \in Ahead(list)
  <2>1. i \in DOMAIN more /\ j \in DOMAIN more /\ more[i] = list[i] /\ more[j] = list[j]
    BY <1>1, <1>5
  <2>2. /\ <<i, j>> \in Ahead(more) <=> \/ more[i].priority > more[j].priority
                                        \/ more[i].priority = more[j].priority /\ i < j
    BY <2>1, AheadIs
  <2>3. /\ <<i, j>> \in Ahead(list) <=> \/ list[i].priority > list[j].priority
                                        \/ list[i].priority = list[j].priority /\ i < j
    BY AheadIs DEF S
  <2> QED BY <2>1, <2>2, <2>3
<1>7. Listed(order, S, Ahead(more))
  <2>1. /\ \A x \in S : \E i \in DOMAIN order : order[i] = x
        /\ \A i, j \in DOMAIN order : i < j => <<order[i], order[j]>> \in Ahead(list)
    BY DEF Listed, S
  <2> QED BY <1>4, <1>6, <2>1 DEF Listed
<1>8. StrictOrder(Ahead(more), S \cup {n + 1})
  BY <1>1, <1>5, AheadStrict
<1>9. before = {k \in DOMAIN order : list[order[k]].priority >= rule.priority}
  <2> SUFFICES ASSUME NEW k \in DOMAIN order
               PROVE  <<order[k], n + 1>> \in Ahead(more)
                         <=> list[order[k]].priority >= rule.priority
    OBVIOUS
  <2>1. PICK i : i = order[k]
    OBVIOUS
  <2>2. i \in S /\ i \in DOMAIN more /\ n + 1 \in DOMAIN more /\ more[i] = list[i]
    BY <1>1, <1>4, <1>5, <2>1
  <2>3. <<i, n + 1>> \in Ahead(more) <=> \/ more[i].priority > more[n + 1].priority
                                         \/ more[i].priority = more[n + 1].priority /\ i < n + 1
    BY <2>2, AheadIs
  <2>4. i < n + 1
    BY <1>1, <2>2
  <2>5. <<i, n + 1>> \in Ahead(more) <=> list[i].priority >= rule.priority
    BY <1>1, <1>2, <1>3, <2>2, <2>3, <2>4
  <2> QED BY <2>1, <2>5, Zenon
<1>10. Place(list, order, rule) = Cardinality(before) + 1
  BY <1>9, Zenon DEF Place
<1>11. PICK q : q = Place(list, order, rule)
  OBVIOUS
<1>12. PICK x : x = n + 1
  OBVIOUS
<1>13. x \notin S /\ StrictOrder(Ahead(more), S \cup {x})
       /\ q = Cardinality({k \in DOMAIN order : <<order[k], x>> \in Ahead(more)}) + 1
  BY <1>5, <1>8, <1>10, <1>11, <1>12, Zenon
<1>14. Listed(InsertAt(order, q, x), S \cup {x}, Ahead(more))
  <2> HIDE DEF before
  <2> QED BY <1>7, <1>13, InsertListed
<1> QED BY <1>5, <1>11, <1>12, <1>14, Zenon DEF n, more

(* Adding a rule to a layout gives the layout of all.                      *)
LEMMA LayoutAppend ==
    ASSUME NEW list \in Seq(AnyRule), NEW rule \in AnyRule,
           NEW order, Listed(order, DOMAIN list, Ahead(list)),
           R!from_rules(list) = <<Offsets(list), Lookup(list), order>>
    PROVE  LET lookup == Lookup(list) \o Run(rule, Len(list) + 1)
           IN  R!from_rules(Append(list, rule))
                 = <<Append(Offsets(list), Len(lookup)), lookup,
                     InsertAt(order, Place(list, order, rule), Len(list) + 1)>>
<1> DEFINE n == Len(list)
           more == Append(list, rule)
           lookup == Lookup(list) \o Run(rule, n + 1)
           new == InsertAt(order, Place(list, order, rule), n + 1)
<1>1. n \in Nat /\ DOMAIN list = 1 .. n /\ more \in Seq(AnyRule) /\ DOMAIN more = 1 .. n + 1
  BY AppendShape
<1>2. Lookup(more) = lookup
  BY LookupAppend
<1>3. PICK sorted : /\ R!from_rules(more) = <<Offsets(more), Lookup(more), sorted>>
                    /\ Listed(sorted, DOMAIN more, Ahead(more))
  BY <1>1, MetadataIs
<1>4. Listed(new, DOMAIN more, Ahead(more))
  BY PrioritiesAppend
<1>5. StrictOrder(Ahead(more), DOMAIN more)
  BY <1>1, AheadStrict
<1> HIDE DEF more, new, lookup, n
<1>6. sorted = new
  BY <1>3, <1>4, <1>5, ListingUnique
<1>7. Offsets(more) = Append(Offsets(list), Len(lookup))
  <2>1. /\ \A i \in 1 .. n : Offsets(more)[i] = Offsets(list)[i]
        /\ Offsets(more)[n + 1] = Len(lookup)
    BY <1>2, OffsetsAppend DEF n, more
  <2>2. RunsAbut(list)
    BY RunsAbutAll
  <2>3. DOMAIN Offsets(list) = 1 .. n /\ \A i \in 1 .. n : Offsets(list)[i] \in Nat
    BY <1>1, <2>2 DEF RunsAbut, n, Offsets
  <2>4. Offsets(list) = [i \in 1 .. n |-> Offsets(list)[i]]
    BY <1>1 DEF Offsets
  <2>5. Offsets(list) \in Seq(Nat) /\ Len(Offsets(list)) = n
    BY <1>1, <2>3, <2>4
  <2>6. Len(lookup) \in Nat
    BY <1>1, <1>2, LookupTyped
  <2>7. DOMAIN Offsets(more) = 1 .. n + 1 /\ Offsets(more) = [i \in 1 .. n + 1 |-> Offsets(more)[i]]
    BY <1>1 DEF Offsets
  <2> DEFINE app == Append(Offsets(list), Len(lookup))
  <2>8. /\ app \in Seq(Nat) /\ DOMAIN app = 1 .. n + 1 /\ app[n + 1] = Len(lookup)
        /\ \A i \in 1 .. n : app[i] = Offsets(list)[i]
    BY <2>3, <2>5, <2>6, AppendShape
  <2> HIDE DEF app
  <2>9. app = [i \in 1 .. n + 1 |-> app[i]]
    BY <2>8
  <2>10. \A i \in 1 .. n + 1 : app[i] = Offsets(more)[i]
    <3> TAKE i \in 1 .. n + 1
    <3>1. i \in 1 .. n \/ i = n + 1
      BY <1>1
    <3> QED BY <2>1, <2>8, <3>1
  <2>11. app = Offsets(more)
    BY <2>7, <2>9, <2>10, Zenon
  <2> QED BY <2>11 DEF app
<1>8. R!from_rules(more) = <<Append(Offsets(list), Len(lookup)), lookup, new>>
  BY <1>2, <1>3, <1>6, <1>7, Zenon
<1> QED BY <1>8, Zenon DEF more, new, lookup, n

----------------------------------------------------------------------------
(* The arcs of rewrite rules                                               *)

KeepCheapest(kept, a) ==
    LET same == {i \in DOMAIN kept : R!SameArc(kept[i], a)}
    IN  IF same = {} THEN Append(kept, a)
        ELSE [i \in DOMAIN kept |->
                IF i \in same /\ a.weight < kept[i].weight THEN a ELSE kept[i]]

PF == INSTANCE OrderLemmas WITH Combine <- KeepCheapest

(* Pruning adds no arc.                                                    *)
LEMMA PruneTyped ==
    ASSUME NEW T, NEW arcs \in Seq(T)
    PROVE  R!prune_dominated_transitions(arcs) \in Seq(T)
<1>1. ASSUME NEW kept \in Seq(T), NEW a \in T PROVE KeepCheapest(kept, a) \in Seq(T)
  <2> DEFINE same == {i \in DOMAIN kept : R!SameArc(kept[i], a)}
             new == [i \in DOMAIN kept |->
                       IF i \in same /\ a.weight < kept[i].weight THEN a ELSE kept[i]]
  <2>1. Append(kept, a) \in Seq(T)
    OBVIOUS
  <2>2. new \in Seq(T)
    <3> HIDE DEF same
    <3>1. DOMAIN kept = 1 .. Len(kept) /\ Len(kept) \in Nat /\ \A i \in DOMAIN kept : kept[i] \in T
      OBVIOUS
    <3>2. new \in [1 .. Len(kept) -> T]
      BY <3>1
    <3> QED BY <3>1, <3>2
  <2>3. KeepCheapest(kept, a) = IF same = {} THEN Append(kept, a) ELSE new
    BY DEF KeepCheapest
  <2> HIDE DEF same, new
  <2> QED BY <2>1, <2>2, <2>3
<1>2. PF!Keeps(Seq(T), T)
  BY <1>1 DEF PF!Keeps
<1>3. <<>> \in Seq(T)
  OBVIOUS
<1>4. PF!Fold(<<>>, arcs) \in Seq(T)
  BY <1>2, <1>3, PF!FoldIn
<1>5. R!prune_dominated_transitions(arcs) = PF!Fold(<<>>, arcs)
  BY DEF R!prune_dominated_transitions, R!FoldLeft, R!MapThenFoldSet, R!Max, PF!Fold,
         PF!FoldLeft, PF!MapThenFoldSet, PF!Max, KeepCheapest
<1> QED BY <1>4, <1>5

(* A state's arcs, of a layout given as arguments.                         *)
StateOf(offsets, index, step) ==
    {id \in {(IF index = 1 THEN 0 ELSE offsets[index - 1]) + step} : id <= IdLimits["rewrite"]}

StepArc(list, offsets, index, s) ==
    LET rule == list[index]
        to   == IF s + 1 = R!steps(rule) THEN {0} ELSE StateOf(offsets, index, s + 1)
    IN  IF s >= R!steps(rule) \/ to = {} \/ (s > 0 /\ StateOf(offsets, index, s) = {}) THEN <<>>
        ELSE << [input  |-> R!LetterAt(rule.input, s), output |-> R!LetterAt(rule.output, s),
                 to     |-> CHOOSE id \in to : TRUE, weight |-> IF s = 0 THEN rule.cost ELSE 0] >>

Identities(allow) ==
    IF ~ allow THEN <<>>
    ELSE [k \in DOMAIN R!Alphabet |->
            [input |-> R!Alphabet[k], output |-> R!Alphabet[k], to |-> 0, weight |-> 0]]

ArcsOf(list, offsets, lookup, order, allow, id) ==
    R!prune_dominated_transitions(
      IF id = 0
      THEN R!FlattenSeq([k \in DOMAIN order |-> StepArc(list, offsets, order[k], 0)])
             \o Identities(allow)
      ELSE StepArc(list, offsets, lookup[id].rule, lookup[id].step))

AnswerOf(list, offsets, lookup, order, allow, id) ==
    [is_final |-> id = 0, arcs |-> ArcsOf(list, offsets, lookup, order, allow, id)]

(* The answer that is computed, in terms of the arguments.                 *)
LEMMA AnswerIs ==
    \A id : R!Answer(id) = AnswerOf(given, continuation_end_offsets, table, priority_order,
                                    allow_identity, id)
<1> SUFFICES ASSUME NEW id
             PROVE  R!Answer(id) = AnswerOf(given, continuation_end_offsets, table,
                                            priority_order, allow_identity, id)
  OBVIOUS
<1> QED BY DEF R!Answer, R!is_final, R!compute_transitions, R!push_rule_step_transition,
               R!StepTarget, R!continuation_state, R!continuation_start, R!IdentityArcs,
               AnswerOf, ArcsOf, Identities, StepArc, StateOf

CachedOK == cached # Nothing =>
    cached.answer = AnswerOf(given, continuation_end_offsets, table, priority_order,
                             allow_identity, cached.state)

RewriteInv ==
    /\ given \in Seq({r \in Rules : R!valid(r)}) /\ Len(given) <= MaxRules
    /\ R!metadata = R!from_rules(given)
    /\ allow_identity \in BOOLEAN
    /\ CachedOK

(* What the invariant says of the variables.                               *)
LEMMA RewriteShape ==
    ASSUME RewriteInv
    PROVE  /\ given \in Seq(AnyRule)
           /\ continuation_end_offsets = Offsets(given) /\ table = Lookup(given)
           /\ Listed(priority_order, DOMAIN given, Ahead(given))
           /\ R!num_states = (IF Len(table) <= IdLimits["rewrite"] THEN Len(table)
                              ELSE IdLimits["rewrite"]) + 1
           /\ IdLimits["rewrite"] \in Nat /\ Len(table) \in Nat
<1>1. given \in Seq(AnyRule)
  <2>1. {r \in Rules : R!valid(r)} \subseteq AnyRule
    BY StandaloneAssumption DEF AnyRule
  <2> QED BY <2>1 DEF RewriteInv
<1>2. PICK order : /\ R!from_rules(given) = <<Offsets(given), Lookup(given), order>>
                   /\ Listed(order, DOMAIN given, Ahead(given))
  BY <1>1, MetadataIs
<1>3. <<continuation_end_offsets, table, priority_order>>
        = <<Offsets(given), Lookup(given), order>>
  BY <1>2, Zenon DEF RewriteInv, R!metadata
<1>4. continuation_end_offsets = Offsets(given) /\ table = Lookup(given) /\ priority_order = order
  BY <1>3
<1>5. Len(table) \in Nat
  BY <1>1, <1>4, LookupTyped
<1>6. IdLimits["rewrite"] \in Nat
  BY StandaloneAssumption
<1>7. R!num_states = (IF Len(table) <= IdLimits["rewrite"] THEN Len(table)
                      ELSE IdLimits["rewrite"]) + 1
  BY <1>5, <1>6, MinOfTwo DEF R!num_states
<1> QED BY <1>1, <1>2, <1>4, <1>5, <1>6, <1>7

Letters == Nat \cup {NoLabel}

RewriteArcs == [input : Letters, output : Letters, to : 0 .. R!num_states - 1, weight : Int]

(* A step of a rule leads home or to a continuation state that there is.   *)
LEMMA StepArcs ==
    ASSUME RewriteInv, NEW index \in DOMAIN given, NEW s \in Nat
    PROVE  R!push_rule_step_transition(index, s) \in Seq(RewriteArcs)
<1> DEFINE n == Len(given)
           rule == given[index]
           to == R!StepTarget(index, s)
           m == R!num_states - 1
<1>1. /\ given \in Seq(AnyRule) /\ continuation_end_offsets = Offsets(given)
      /\ table = Lookup(given) /\ Len(table) \in Nat /\ IdLimits["rewrite"] \in Nat
      /\ m = IF Len(table) <= IdLimits["rewrite"] THEN Len(table) ELSE IdLimits["rewrite"]
  BY RewriteShape
<1>2. rule \in AnyRule /\ index \in 1 .. n /\ n \in Nat
  BY <1>1
<1>3. /\ Offsets(given)[index] \in Nat /\ Offsets(given)[index] <= Len(table)
      /\ Offsets(given)[index] = Begin(given, index) + Len(Run(rule, index))
  BY <1>1, <1>2, RunsAbutAll DEF RunsAbut
<1>4. /\ R!steps(rule) \in Nat /\ Len(Run(rule, index)) \in Nat
      /\ R!steps(rule) - 1 <= Len(Run(rule, index))
  BY <1>2, RunShape
<1>5. R!continuation_start(index) = Begin(given, index)
  BY <1>1 DEF R!continuation_start, Begin
<1>6. Begin(given, index) \in Nat
  <2>1. CASE index = 1
    BY <2>1 DEF Begin
  <2>2. CASE index # 1
    <3>1. index - 1 \in 1 .. n
      BY <1>2, <2>2
    <3>2. Offsets(given)[index - 1] \in Nat
      BY <1>1, <3>1, RunsAbutAll DEF RunsAbut
    <3> QED BY <2>2, <3>2 DEF Begin
  <2> QED BY <2>1, <2>2
<1> HIDE DEF rule, m, n
<1>7. m \in Nat
  BY <1>1
<1>8. ASSUME s < R!steps(rule), NEW id \in to PROVE id \in 0 .. m
  <2>1. CASE s + 1 = R!steps(rule)
    BY <1>7, <1>8, <2>1 DEF R!StepTarget, rule
  <2>2. CASE s + 1 # R!steps(rule)
    <3>1. id \in {R!continuation_start(index) + (s + 1)} /\ id <= IdLimits["rewrite"]
      BY <1>8, <2>2 DEF R!StepTarget, R!continuation_state, rule
    <3>2. id = Begin(given, index) + (s + 1)
      BY <1>5, <3>1
    <3>3. s + 1 <= Len(Run(rule, index))
      BY <1>4, <1>8, <2>2
    <3>4. id \in Nat /\ id <= Len(table)
      BY <1>1, <1>3, <1>4, <1>6, <3>2, <3>3
    <3> QED BY <1>1, <3>1, <3>4
  <2> QED BY <2>1, <2>2
<1> DEFINE arc == [input  |-> R!LetterAt(rule.input, s), output |-> R!LetterAt(rule.output, s),
                   to     |-> CHOOSE id \in to : TRUE,
                   weight |-> IF s = 0 THEN rule.cost ELSE 0]
           arcs == R!push_rule_step_transition(index, s)
<1>9. arcs = <<>> \/ (s < R!steps(rule) /\ to # {} /\ arcs = <<arc>>)
  <2>1. arcs = IF \/ s >= R!steps(rule) \/ to = {}
                  \/ (s > 0 /\ R!continuation_state(index, s) = {})
               THEN <<>> ELSE <<arc>>
    BY DEF R!push_rule_step_transition, rule
  <2> HIDE DEF arcs, arc, to
  <2> QED BY <1>4, <2>1
<1>10. ASSUME s < R!steps(rule), to # {} PROVE arc \in RewriteArcs
  <2>1. (CHOOSE id \in to : TRUE) \in to
    BY <1>10
  <2>2. (CHOOSE id \in to : TRUE) \in 0 .. m
    BY <1>8, <1>10, <2>1
  <2>3. rule.input \in Seq(Nat) /\ rule.output \in Seq(Nat) /\ rule.cost \in Int
    BY <1>2 DEF AnyRule
  <2>4. \A w \in Seq(Nat) : R!LetterAt(w, s) \in Letters
    BY DEF R!LetterAt, Letters
  <2> DEFINE id == CHOOSE i \in to : TRUE
  <2>5. R!LetterAt(rule.input, s) \in Letters /\ R!LetterAt(rule.output, s) \in Letters
    BY <2>3, <2>4
  <2>6. (IF s = 0 THEN rule.cost ELSE 0) \in Int
    BY <2>3
  <2> HIDE DEF to
  <2> QED BY <2>2, <2>5, <2>6 DEF RewriteArcs, m
<1> HIDE DEF arcs, arc, to
<1>11. <<>> \in Seq(RewriteArcs)
  OBVIOUS
<1>12. \A a \in RewriteArcs : <<a>> \in Seq(RewriteArcs)
  OBVIOUS
<1> QED BY <1>9, <1>10, <1>11, <1>12 DEF arcs

(* The identities lead home.                                               *)
LEMMA IdentitiesTyped ==
    ASSUME RewriteInv
    PROVE  R!IdentityArcs \in Seq(RewriteArcs)
<1> DEFINE Less == {p \in Printable \X Printable : p[1] < p[2]}
           lists == R!SetToSeqs(Printable)
           sorted(s) == \A i, j \in DOMAIN s : i < j => s[i] < s[j]
           letters == CHOOSE s \in lists : sorted(s)
<1>1. Printable \subseteq Nat /\ IsFiniteSet(Printable)
  BY StandaloneAssumption
<1>2. \A x, y \in Printable : <<x, y>> \in Less <=> x < y
  OBVIOUS
<1> HIDE DEF Less
<1>3. StrictOrder(Less, Printable)
  BY <1>1, <1>2 DEF StrictOrder
<1>4. lists = Permuted(Printable)
  BY DEF R!SetToSeqs, R!Cardinality, Cardinality, Permuted
<1> HIDE DEF lists
<1>5. /\ \E s \in lists : Ordered(s, Less)
      /\ \A s \in lists : Ordered(s, Less) => Listed(s, Printable, Less)
  BY <1>1, <1>3, <1>4, SortedListed
<1>6. ASSUME NEW s \in lists PROVE sorted(s) <=> Ordered(s, Less)
  <2>1. \A i \in DOMAIN s : s[i] \in Printable
    BY <1>4 DEF Permuted
  <2> QED BY <1>2, <2>1 DEF Ordered
<1> HIDE DEF sorted
<1>7. letters \in lists /\ sorted(letters)
  <2>1. \E s \in lists : sorted(s)
    BY <1>5, <1>6
  <2> QED BY <2>1
<1>8. R!Alphabet = letters
  BY DEF R!Alphabet, R!Sorted, sorted, lists
<1> HIDE DEF letters
<1>9. letters \in Seq(Printable)
  BY <1>5, <1>6, <1>7 DEF Listed
<1> DEFINE arcs == [k \in DOMAIN letters |->
                      [input |-> letters[k], output |-> letters[k], to |-> 0, weight |-> 0]]
<1>10. R!IdentityArcs = IF ~ allow_identity THEN <<>> ELSE arcs
  BY <1>8, Zenon DEF R!IdentityArcs
<1>11. arcs \in Seq(RewriteArcs)
  <2>1. 0 \in 0 .. R!num_states - 1
    BY RewriteShape
  <2>2. Len(letters) \in Nat /\ DOMAIN letters = 1 .. Len(letters)
        /\ \A k \in DOMAIN letters : letters[k] \in Letters
    <3>1. Len(letters) \in Nat /\ DOMAIN letters = 1 .. Len(letters)
          /\ \A k \in DOMAIN letters : letters[k] \in Printable
      BY <1>9
    <3>2. \A x \in Printable : x \in Letters
      BY <1>1 DEF Letters
    <3> QED BY <3>1, <3>2
  <2>3. arcs \in [1 .. Len(letters) -> RewriteArcs]
    BY <2>1, <2>2 DEF RewriteArcs
  <2> HIDE DEF arcs
  <2> QED BY <2>2, <2>3
<1>12. <<>> \in Seq(RewriteArcs)
  OBVIOUS
<1> HIDE DEF arcs
<1> QED BY <1>10, <1>11, <1>12

(* Every arc leads to a state.                                             *)
LEMMA RewriteTargets ==
    ASSUME RewriteInv PROVE R!TargetsKnown
<1> DEFINE m == R!num_states - 1
           T == RewriteArcs
           S == DOMAIN given
<1>1. /\ given \in Seq(AnyRule) /\ table = Lookup(given) /\ Len(table) \in Nat
      /\ Listed(priority_order, S, Ahead(given))
      /\ m = IF Len(table) <= IdLimits["rewrite"] THEN Len(table) ELSE IdLimits["rewrite"]
      /\ IdLimits["rewrite"] \in Nat
  BY RewriteShape
<1>2. /\ Len(priority_order) \in Nat /\ DOMAIN priority_order = 1 .. Len(priority_order)
      /\ \A k \in DOMAIN priority_order : priority_order[k] \in S
  BY <1>1 DEF Listed
<1> DEFINE first == [k \in DOMAIN priority_order |->
                       R!push_rule_step_transition(priority_order[k], 0)]
           home == R!FlattenSeq(first) \o R!IdentityArcs
           later(id) == R!push_rule_step_transition(table[id].rule, table[id].step)
<1>3. home \in Seq(T)
  <2>1. \A k \in 1 .. Len(priority_order) : R!push_rule_step_transition(priority_order[k], 0) \in Seq(T)
    BY <1>2, StepArcs
  <2>2. first \in [1 .. Len(priority_order) -> Seq(T)]
    BY <1>2, <2>1
  <2>3. first \in Seq(Seq(T))
    BY <1>2, <2>2
  <2> HIDE DEF first
  <2>4. FlattenSeq(first) \in Seq(T)
    BY <2>3, FlattenTyped
  <2>5. R!FlattenSeq(first) = FlattenSeq(first)
    BY DEF R!FlattenSeq, FlattenSeq
  <2> QED BY <2>4, <2>5, IdentitiesTyped, ConcatShape
<1>4. ASSUME NEW id \in 1 .. m PROVE later(id) \in Seq(T)
  <2>1. id \in 1 .. Len(table)
    BY <1>1
  <2>2. table[id].rule \in S /\ table[id].step \in Nat
    BY <1>1, <2>1, LookupTyped
  <2> QED BY <2>2, StepArcs
<1>5. ASSUME NEW id \in 0 .. m PROVE R!compute_transitions(id) \in Seq(T)
  <2>1. R!compute_transitions(id) = R!prune_dominated_transitions(IF id = 0 THEN home ELSE later(id))
    BY DEF R!compute_transitions
  <2>2. (IF id = 0 THEN home ELSE later(id)) \in Seq(T)
    <3>1. id = 0 \/ id \in 1 .. m
      BY <1>1
    <3> HIDE DEF home, later
    <3> QED BY <1>3, <1>4, <3>1
  <2> HIDE DEF home, later
  <2> QED BY <2>1, <2>2, PruneTyped
<1>6. ASSUME NEW id \in 0 .. m, NEW a \in R!Range(R!compute_transitions(id))
      PROVE  R!is_known_state(a.to)
  <2>1. PICK k \in DOMAIN R!compute_transitions(id) : a = R!compute_transitions(id)[k]
    BY DEF R!Range
  <2>2. a \in T
    BY <1>5, <2>1
  <2> QED BY <2>2 DEF R!is_known_state, RewriteArcs
<1> QED BY <1>6 DEF R!TargetsKnown

(* The invariant gives what is claimed of tables, cache and targets.       *)
LEMMA RewriteConsequences ==
    ASSUME RewriteInv
    PROVE  R!TypeOK /\ R!LayoutIncremental /\ R!CacheCurrent /\ R!TargetsKnown
<1>1. Len(priority_order) = Len(given)
  <2>1. given \in Seq(AnyRule) /\ Listed(priority_order, DOMAIN given, Ahead(given))
    BY RewriteShape
  <2>2. Cardinality(DOMAIN given) = Len(priority_order)
    BY <2>1, AheadStrict, ListedOnce
  <2>3. PICK n \in Nat : n = Len(given) /\ DOMAIN given = 1 .. n
    BY <2>1
  <2>4. Cardinality(1 .. n) = n
    <3>1. Cardinality(1 .. n) = IF 1 > n THEN 0 ELSE n - 1 + 1
      BY FS_Interval
    <3> QED BY <3>1
  <2> QED BY <2>2, <2>3, <2>4
<1>2. R!CacheCurrent
  BY AnswerIs DEF RewriteInv, CachedOK, R!CacheCurrent
<1> QED BY <1>1, <1>2, RewriteTargets DEF RewriteInv, R!TypeOK, R!LayoutIncremental

(* A transducer built from a list of rules satisfies the invariant.        *)
LEMMA RewriteInit == ASSUME R!Init PROVE RewriteInv
<1>1. PICK n \in 0 .. MaxRules : \E list \in [1 .. n -> Rules] : R!with_rules(list)
  BY DEF R!Init
<1>2. PICK list \in [1 .. n -> Rules] : R!with_rules(list)
  BY <1>1
<1>3. /\ \A i \in DOMAIN list : R!valid(list[i])
      /\ given = list /\ allow_identity = TRUE /\ cached = Nothing
      /\ continuation_end_offsets = R!from_rules(list)[1]
      /\ table = R!from_rules(list)[2]
      /\ priority_order = R!from_rules(list)[3]
  BY <1>2 DEF R!with_rules
<1>4. list \in Seq({r \in Rules : R!valid(r)}) /\ Len(list) <= MaxRules
  <2>1. n \in Nat /\ n <= MaxRules /\ DOMAIN list = 1 .. n
    BY <1>1, <1>2, StandaloneAssumption
  <2>2. list \in [1 .. n -> {r \in Rules : R!valid(r)}]
    BY <1>2, <1>3, <2>1
  <2>3. list \in Seq({r \in Rules : R!valid(r)}) /\ Len(list) = n
    BY <2>1, <2>2
  <2> QED BY <2>1, <2>3
<1>5. list \in Seq(AnyRule)
  <2>1. {r \in Rules : R!valid(r)} \subseteq AnyRule
    BY StandaloneAssumption DEF AnyRule
  <2> QED BY <1>4, <2>1
<1>6. PICK order : R!from_rules(list) = <<Offsets(list), Lookup(list), order>>
  BY <1>5, MetadataIs
<1>7. R!metadata = R!from_rules(given)
  <2>1. <<Offsets(list), Lookup(list), order>>[1] = Offsets(list)
        /\ <<Offsets(list), Lookup(list), order>>[2] = Lookup(list)
        /\ <<Offsets(list), Lookup(list), order>>[3] = order
    OBVIOUS
  <2>2. /\ continuation_end_offsets = Offsets(list) /\ table = Lookup(list)
        /\ priority_order = order
    BY <1>3, <1>6, <2>1, Zenon
  <2> QED BY <1>3, <1>6, <2>2, Zenon DEF R!metadata
<1> QED BY <1>3, <1>4, <1>7 DEF RewriteInv, CachedOK

(* An answer depends on the rules, their layout and the switch.            *)
LEMMA RewriteAnswerStable ==
    ASSUME given' = given, R!metadata' = R!metadata, allow_identity' = allow_identity
    PROVE  /\ cached' = cached /\ CachedOK => CachedOK'
           /\ \A id : cached' = [state |-> id, answer |-> R!Answer(id)] => CachedOK'
<1>1. /\ continuation_end_offsets' = continuation_end_offsets /\ table' = table
      /\ priority_order' = priority_order
  BY DEF R!metadata
<1>2. ASSUME cached' = cached, CachedOK PROVE CachedOK'
  BY <1>1, <1>2 DEF CachedOK
<1>3. ASSUME NEW id, cached' = [state |-> id, answer |-> R!Answer(id)] PROVE CachedOK'
  <2>1. cached'.state = id /\ cached'.answer = R!Answer(id)
    BY <1>3
  <2>2. R!Answer(id) = AnswerOf(given, continuation_end_offsets, table, priority_order,
                                allow_identity, id)
    BY AnswerIs
  <2> QED BY <1>1, <2>1, <2>2 DEF CachedOK
<1> QED BY <1>2, <1>3

(* One more rule.                                                          *)
LEMMA RewriteAdd ==
    ASSUME RewriteInv, NEW rule \in Rules, R!add_rule(rule)
    PROVE  /\ RewriteInv'
           /\ \A i \in DOMAIN table : i \in DOMAIN table' /\ table'[i] = table[i]
<1> DEFINE index == Len(given) + 1
           more == Append(given, rule)
           lookup == Lookup(given) \o Run(rule, index)
<1>1. /\ given' = more /\ cached' = Nothing /\ allow_identity' = allow_identity
      /\ R!valid(rule) /\ Len(given) < MaxRules
      /\ table' = table \o Run(rule, index)
      /\ continuation_end_offsets' = Append(continuation_end_offsets, Len(table'))
      /\ priority_order' = R!InsertAt(priority_order, R!insertion_index(rule) + 1, index)
  BY DEF R!add_rule, R!append_validated_rule, Run
<1>2. /\ given \in Seq(AnyRule) /\ continuation_end_offsets = Offsets(given)
      /\ table = Lookup(given) /\ Listed(priority_order, DOMAIN given, Ahead(given))
  BY RewriteShape
<1>3. rule \in AnyRule
  BY StandaloneAssumption DEF AnyRule
<1>4. R!from_rules(given) = <<Offsets(given), Lookup(given), priority_order>>
  BY <1>2 DEF RewriteInv, R!metadata
<1>5. R!from_rules(more)
        = <<Append(Offsets(given), Len(lookup)), lookup,
            InsertAt(priority_order, Place(given, priority_order, rule), index)>>
  BY <1>2, <1>3, <1>4, LayoutAppend
<1>6. R!insertion_index(rule) + 1 = Place(given, priority_order, rule)
  BY DEF R!insertion_index, Place, R!Cardinality, Cardinality
<1>7. priority_order' = InsertAt(priority_order, Place(given, priority_order, rule), index)
  <2>1. \A s, q, x : R!InsertAt(s, q, x) = InsertAt(s, q, x)
    BY DEF R!InsertAt, InsertAt
  <2> QED BY <1>1, <1>6, <2>1, Zenon
<1>8. table' = lookup /\ continuation_end_offsets' = Append(Offsets(given), Len(lookup))
  BY <1>1, <1>2
<1>9. R!metadata' = R!from_rules(given)'
  <2>1. R!metadata' = <<continuation_end_offsets', table', priority_order'>>
    BY DEF R!metadata
  <2>2. R!from_rules(given)' = R!from_rules(more)
    BY <1>1
  <2> HIDE DEF lookup, more, index
  <2> QED BY <1>5, <1>7, <1>8, <2>1, <2>2, Zenon
<1>10. given' \in Seq({r \in Rules : R!valid(r)}) /\ Len(given') <= MaxRules
  <2>1. given \in Seq({r \in Rules : R!valid(r)}) /\ rule \in {r \in Rules : R!valid(r)}
    BY <1>1 DEF RewriteInv
  <2>2. more \in Seq({r \in Rules : R!valid(r)}) /\ Len(more) = Len(given) + 1
    BY <2>1, AppendShape
  <2>3. Len(given) \in Nat /\ MaxRules \in Nat
    BY <2>1, StandaloneAssumption
  <2> QED BY <1>1, <2>2, <2>3
<1>11. RewriteInv'
  BY <1>1, <1>9, <1>10 DEF RewriteInv, CachedOK
<1>12. \A i \in DOMAIN table : i \in DOMAIN table' /\ table'[i] = table[i]
  <2> DEFINE all == 1 .. index
  <2>1. DOMAIN given \subseteq all /\ index \in all
    BY <1>2
  <2>2. table \in Seq(Cells(all)) /\ Run(rule, index) \in Seq(Cells(all))
    BY <1>2, <1>3, <2>1, RunsShape, FlattenTyped, RunShape DEF Lookup
  <2> HIDE DEF all, index
  <2>3. /\ table' \in Seq(Cells(all)) /\ Len(table') = Len(table) + Len(Run(rule, index))
        /\ \A i \in 1 .. Len(table) : table'[i] = table[i]
    BY <1>1, <2>2, ConcatShape
  <2>4. /\ Len(table) \in Nat /\ DOMAIN table = 1 .. Len(table)
        /\ Len(Run(rule, index)) \in Nat
        /\ DOMAIN table' = 1 .. Len(table')
    BY <2>2, <2>3
  <2> QED BY <2>3, <2>4
<1> QED BY <1>11, <1>12

(* Rules added and states expanded keep the invariant, and the             *)
(* continuation states there were stay in place.                           *)
LEMMA RewriteStep ==
    ASSUME RewriteInv, R!Next \/ R!vars' = R!vars
    PROVE  /\ RewriteInv'
           /\ \A i \in DOMAIN table : i \in DOMAIN table' /\ table'[i] = table[i]
<1>1. ASSUME NEW rule \in Rules, R!add_rule(rule)
      PROVE  /\ RewriteInv'
             /\ \A i \in DOMAIN table : i \in DOMAIN table' /\ table'[i] = table[i]
  BY <1>1, RewriteAdd
<1> DEFINE Same == given' = given /\ R!metadata' = R!metadata
<1>2. ASSUME Same, allow_identity' \in BOOLEAN, CachedOK'
      PROVE  /\ RewriteInv'
             /\ \A i \in DOMAIN table : i \in DOMAIN table' /\ table'[i] = table[i]
  <2>1. table' = table
    BY <1>2 DEF R!metadata
  <2>2. R!from_rules(given)' = R!from_rules(given)
    BY <1>2
  <2>3. given' \in Seq({r \in Rules : R!valid(r)}) /\ Len(given') <= MaxRules
    BY <1>2 DEF RewriteInv
  <2>4. R!metadata' = R!from_rules(given)'
    BY <1>2, <2>2, Zenon DEF RewriteInv
  <2>5. RewriteInv'
    BY <1>2, <2>3, <2>4 DEF RewriteInv
  <2> QED BY <2>1, <2>5
<1>5. CASE R!vars' = R!vars
  <2>1. Same /\ allow_identity' = allow_identity /\ allow_identity' \in BOOLEAN /\ cached' = cached
    BY <1>5 DEF R!vars, R!metadata, RewriteInv
  <2>2. CachedOK'
    BY <2>1, RewriteAnswerStable DEF RewriteInv
  <2> QED BY <1>2, <2>1, <2>2
<1>6. ASSUME NEW allow \in BOOLEAN, R!set_allow_identity(allow)
      PROVE  /\ RewriteInv'
             /\ \A i \in DOMAIN table : i \in DOMAIN table' /\ table'[i] = table[i]
  BY <1>2, <1>6 DEF R!set_allow_identity, R!metadata, CachedOK
<1>7. ASSUME NEW id, R!ensure_state(id)
      PROVE  /\ RewriteInv'
             /\ \A i \in DOMAIN table : i \in DOMAIN table' /\ table'[i] = table[i]
  <2>1. /\ Same /\ allow_identity' = allow_identity
        /\ cached' = [state |-> id, answer |-> R!Answer(id)]
    BY <1>7 DEF R!ensure_state, R!metadata
  <2>2. CachedOK'
    BY <2>1, RewriteAnswerStable
  <2>3. allow_identity' \in BOOLEAN
    BY <2>1 DEF RewriteInv
  <2> QED BY <1>2, <2>1, <2>2, <2>3
<1>8. CASE R!clear_cache
  BY <1>2, <1>8 DEF R!clear_cache, R!metadata, RewriteInv, CachedOK
<1>9. \/ \E rule \in Rules : R!add_rule(rule)
      \/ R!vars' = R!vars
      \/ \E allow \in BOOLEAN : R!set_allow_identity(allow)
      \/ \E id \in 0 .. R!num_states : R!ensure_state(id)
      \/ R!clear_cache
  BY DEF R!Next, R!reject_rule, R!reject_state, R!vars
<1> QED BY <1>1, <1>5, <1>6, <1>7, <1>8, <1>9

----------------------------------------------------------------------------
(* The results of a WallBreaker search                                     *)

Found == [term : Seq(Nat), distance : Nat]

Distinct == {kept \in Seq(Found) :
               \A i, j \in DOMAIN kept : kept[i].term = kept[j].term => i = j}

KeepBest(kept, r) ==
    LET same == {i \in DOMAIN kept : kept[i].term = r.term}
    IN  IF r.distance > given.max_distance \/ r.distance > MaxExact THEN kept
        ELSE IF same = {} THEN Append(kept, r)
        ELSE [i \in DOMAIN kept |->
                IF i \in same /\ r.distance < kept[i].distance THEN r ELSE kept[i]]

KF == INSTANCE OrderLemmas WITH Combine <- KeepBest

(* Normalisation leaves one result of each term.                           *)
LEMMA NormalizedDistinct ==
    ASSUME NEW list \in Seq(Found)
    PROVE  W!normalize_wallbreaker_results(list, given.max_distance) \in Distinct
<1>1. ASSUME NEW kept \in Distinct, NEW r \in Found PROVE KeepBest(kept, r) \in Distinct
  <2> DEFINE same == {i \in DOMAIN kept : kept[i].term = r.term}
             n == Len(kept)
             more == Append(kept, r)
             new == [i \in DOMAIN kept |->
                       IF i \in same /\ r.distance < kept[i].distance THEN r ELSE kept[i]]
  <2>1. /\ kept \in Seq(Found) /\ n \in Nat /\ DOMAIN kept = 1 .. n
        /\ \A i \in 1 .. n : kept[i] \in Found
        /\ \A i, j \in 1 .. n : kept[i].term = kept[j].term => i = j
    BY DEF Distinct
  <2>2. ASSUME same = {} PROVE more \in Distinct
    <3>1. /\ more \in Seq(Found) /\ DOMAIN more = 1 .. n + 1 /\ more[n + 1] = r
          /\ \A i \in 1 .. n : more[i] = kept[i]
      BY <2>1, AppendShape
    <3>2. \A i \in 1 .. n : kept[i].term # r.term
      BY <2>1, <2>2
    <3> HIDE DEF more
    <3>3. ASSUME NEW i \in 1 .. n + 1, NEW j \in 1 .. n + 1, more[i].term = more[j].term
          PROVE  i = j
      <4>1. (i \in 1 .. n \/ i = n + 1) /\ (j \in 1 .. n \/ j = n + 1)
        BY <2>1
      <4> QED BY <2>1, <3>1, <3>2, <3>3, <4>1
    <3> QED BY <3>1, <3>3 DEF Distinct
  <2>3. new \in Distinct
    <3>1. \A i \in 1 .. n : new[i] \in Found /\ new[i].term = kept[i].term
      BY <2>1
    <3>2. DOMAIN new = 1 .. n
      BY <2>1
    <3> HIDE DEF new
    <3>3. new \in Seq(Found)
      <4>1. new = [i \in 1 .. n |-> new[i]]
        BY <2>1 DEF new
      <4>2. new \in [1 .. n -> Found]
        BY <3>1, <4>1
      <4> QED BY <2>1, <4>2
    <3>4. ASSUME NEW i \in 1 .. n, NEW j \in 1 .. n, new[i].term = new[j].term PROVE i = j
      BY <2>1, <3>1, <3>4
    <3> QED BY <3>2, <3>3, <3>4 DEF Distinct
  <2>4. KeepBest(kept, r) = IF r.distance > given.max_distance \/ r.distance > MaxExact THEN kept
                            ELSE IF same = {} THEN more ELSE new
    BY DEF KeepBest
  <2> HIDE DEF same, new, more
  <2> QED BY <2>2, <2>3, <2>4
<1>2. KF!Keeps(Distinct, Found)
  BY <1>1 DEF KF!Keeps
<1>3. <<>> \in Distinct
  BY DEF Distinct
<1>4. KF!Fold(<<>>, list) \in Distinct
  BY <1>2, <1>3, KF!FoldIn
<1>5. W!normalize_wallbreaker_results(list, given.max_distance) = KF!Fold(<<>>, list)
  BY DEF W!normalize_wallbreaker_results, W!FoldLeft, W!MapThenFoldSet, W!Max, KF!Fold,
         KF!FoldLeft, KF!MapThenFoldSet, KF!Max, KeepBest
<1> QED BY <1>4, <1>5

----------------------------------------------------------------------------
(* Their arena                                                             *)

AddLetters(n, r) == n + Len(r.term)

SP == INSTANCE OrderLemmas WITH Combine <- AddLetters

(* Where the term behind the first r begins.                               *)
Span(found, r) == SP!Fold(0, SubSeq(found, 1, r))

(* Where a term begins in the arena, as a fold.                            *)
LEMMA SpanIs ==
    \A r : W!span_start(r) = Span(results, r)
<1> SUFFICES ASSUME NEW r PROVE W!span_start(r) = Span(results, r)
  OBVIOUS
<1> QED BY DEF W!span_start, W!FoldLeft, W!MapThenFoldSet, W!Max, Span, SP!Fold,
               SP!FoldLeft, SP!MapThenFoldSet, SP!Max, AddLetters

(* A term begins where the one before it ends.                             *)
LEMMA SpanSteps ==
    ASSUME NEW found \in Seq(Found)
    PROVE  /\ Span(found, 0) = 0
           /\ \A r \in 1 .. Len(found) : Span(found, r) = Span(found, r - 1) + Len(found[r].term)
<1>1. SP!PrefixesFold(0, found)
  BY SP!FoldPrefixes, Zenon
<1> QED BY <1>1 DEF SP!PrefixesFold, Span, AddLetters

Places == [result_index : Nat, char_position : Nat]

TermPlaces(found, r) ==
    [p \in 1 .. Len(found[r].term) |-> [result_index |-> r - 1, char_position |-> p]]

Lists(found, m) == [r \in 1 .. m |-> TermPlaces(found, r)]

Arena(found, m) == FlattenSeq(Lists(found, m))

(* The place of each letter is where its term begins, and its position.    *)
ArenaOK(found, m) ==
    /\ Arena(found, m) \in Seq(Places)
    /\ Span(found, m) \in Nat
    /\ Len(Arena(found, m)) = Span(found, m)
    /\ \A k \in 1 .. Span(found, m) :
          \E r \in 1 .. m : \E p \in 1 .. Len(found[r].term) :
             /\ k = Span(found, r - 1) + p
             /\ Arena(found, m)[k] = [result_index |-> r - 1, char_position |-> p]

(* The places of one term are its positions, in order.                     *)
LEMMA TermPlacesShape ==
    ASSUME NEW found \in Seq(Found), NEW r \in 1 .. Len(found)
    PROVE  /\ Len(found[r].term) \in Nat
           /\ TermPlaces(found, r) \in Seq(Places)
           /\ Len(TermPlaces(found, r)) = Len(found[r].term)
           /\ \A p \in 1 .. Len(found[r].term) :
                 TermPlaces(found, r)[p] = [result_index |-> r - 1, char_position |-> p]
<1>1. found[r] \in Found
  OBVIOUS
<1>2. PICK n \in Nat : n = Len(found[r].term)
  BY <1>1 DEF Found
<1>3. r - 1 \in Nat
  OBVIOUS
<1> DEFINE places == TermPlaces(found, r)
<1>4. places = [p \in 1 .. n |-> [result_index |-> r - 1, char_position |-> p]]
  BY <1>2 DEF TermPlaces
<1> HIDE DEF places
<1>5. \A p \in 1 .. n : places[p] = [result_index |-> r - 1, char_position |-> p]
  BY <1>4
<1>6. \A p \in 1 .. n : [result_index |-> r - 1, char_position |-> p] \in Places
  BY <1>2, <1>3 DEF Places
<1>7. places \in [1 .. n -> Places]
  BY <1>4, <1>6
<1>8. places \in Seq(Places) /\ Len(places) = n
  BY <1>2, <1>7
<1> QED BY <1>2, <1>5, <1>8 DEF places

(* The places of the first m terms are m lists.                            *)
LEMMA ListsShape ==
    ASSUME NEW found \in Seq(Found), NEW m \in 0 .. Len(found)
    PROVE  Lists(found, m) \in Seq(Seq(Places)) /\ Len(Lists(found, m)) = m
<1>1. m \in Nat /\ \A r \in 1 .. m : r \in 1 .. Len(found)
  OBVIOUS
<1>2. \A r \in 1 .. m : TermPlaces(found, r) \in Seq(Places)
  BY <1>1, TermPlacesShape
<1>3. Lists(found, m) \in [1 .. m -> Seq(Places)]
  BY <1>2 DEF Lists
<1> QED BY <1>1, <1>3

(* One more term goes behind the others.                                   *)
LEMMA ArenaAppend ==
    ASSUME NEW found \in Seq(Found), NEW m \in 1 .. Len(found)
    PROVE  Arena(found, m) = Arena(found, m - 1) \o TermPlaces(found, m)
<1> DEFINE old == Lists(found, m - 1)
           new == Lists(found, m)
           app == Append(old, TermPlaces(found, m))
<1>1. m - 1 \in 0 .. Len(found) /\ m \in 0 .. Len(found) /\ m \in Nat /\ m - 1 \in Nat /\ m - 1 + 1 = m
  OBVIOUS
<1>2. /\ old \in Seq(Seq(Places)) /\ Len(old) = m - 1
      /\ new \in Seq(Seq(Places)) /\ Len(new) = m
  BY <1>1, ListsShape
<1>3. TermPlaces(found, m) \in Seq(Places)
  BY TermPlacesShape
<1>4. \A r \in 1 .. m : new[r] = TermPlaces(found, r)
  BY DEF Lists
<1>5. \A r \in 1 .. m - 1 : old[r] = TermPlaces(found, r)
  BY DEF Lists
<1> HIDE DEF old, new
<1>6. /\ app \in Seq(Seq(Places)) /\ Len(app) = m /\ app[m] = TermPlaces(found, m)
      /\ \A r \in 1 .. m - 1 : app[r] = old[r]
  <2>1. DOMAIN old = 1 .. m - 1
    BY <1>1, <1>2
  <2> QED BY <1>1, <1>2, <1>3, <2>1, AppendShape
<1> HIDE DEF app
<1>7. new = app
  <2>1. \A r \in 1 .. m : new[r] = app[r]
    <3> TAKE r \in 1 .. m
    <3>1. r \in 1 .. m - 1 \/ r = m
      BY <1>1
    <3> QED BY <1>4, <1>5, <1>6, <3>1
  <2>2. new = [r \in 1 .. m |-> new[r]] /\ app = [r \in 1 .. m |-> app[r]]
    BY <1>1, <1>2, <1>6
  <2> QED BY <2>1, <2>2, Zenon
<1>8. FlattenSeq(app) = FlattenSeq(old) \o TermPlaces(found, m)
  BY <1>2, <1>3, FlattenAppend DEF app
<1> QED BY <1>7, <1>8 DEF Arena, old, new

(* The arithmetic of the arena holds with one more term.                   *)
LEMMA ArenaStep ==
    ASSUME NEW found \in Seq(Found), NEW m \in 1 .. Len(found), ArenaOK(found, m - 1)
    PROVE  ArenaOK(found, m)
<1> DEFINE old == Arena(found, m - 1)
           new == Arena(found, m)
           last == TermPlaces(found, m)
           s == Span(found, m - 1)
           t == Span(found, m)
           n == Len(found[m].term)
<1>1. /\ n \in Nat /\ last \in Seq(Places) /\ Len(last) = n
      /\ \A p \in 1 .. n : last[p] = [result_index |-> m - 1, char_position |-> p]
  BY TermPlacesShape
<1>2. /\ old \in Seq(Places) /\ s \in Nat /\ Len(old) = s
      /\ \A k \in 1 .. s : \E r \in 1 .. m - 1 : \E p \in 1 .. Len(found[r].term) :
            /\ k = Span(found, r - 1) + p
            /\ old[k] = [result_index |-> r - 1, char_position |-> p]
  BY DEF ArenaOK
<1>3. t = s + n
  BY SpanSteps
<1>4. new = old \o last
  BY ArenaAppend
<1>5. m \in Nat
  OBVIOUS
<1> HIDE DEF old, new, last, s, t, n
<1>6. /\ new \in Seq(Places) /\ Len(new) = s + n
      /\ \A k \in 1 .. s : new[k] = old[k]
      /\ \A p \in 1 .. n : new[s + p] = last[p]
  <2>1. /\ old \o last \in Seq(Places) /\ Len(old \o last) = Len(old) + Len(last)
        /\ \A k \in 1 .. Len(old) : (old \o last)[k] = old[k]
        /\ \A p \in 1 .. Len(last) : (old \o last)[Len(old) + p] = last[p]
    <3>1. old \in Seq(Places) /\ last \in Seq(Places)
      BY <1>1, <1>2
    <3> QED BY <3>1, ConcatShape
  <2> QED BY <1>1, <1>2, <1>4, <2>1
<1>7. ASSUME NEW k \in 1 .. t
      PROVE  \E r \in 1 .. m : \E p \in 1 .. Len(found[r].term) :
                /\ k = Span(found, r - 1) + p
                /\ new[k] = [result_index |-> r - 1, char_position |-> p]
  <2>1. CASE k \in 1 .. s
    <3>1. PICK r \in 1 .. m - 1 : \E p \in 1 .. Len(found[r].term) :
             /\ k = Span(found, r - 1) + p
             /\ old[k] = [result_index |-> r - 1, char_position |-> p]
      BY <1>2, <2>1
    <3>2. r \in 1 .. m
      BY <1>5
    <3>3. new[k] = old[k]
      BY <1>6, <2>1
    <3> QED BY <3>1, <3>2, <3>3
  <2>2. CASE k \notin 1 .. s
    <3> DEFINE p == k - s
    <3>1. p \in 1 .. n /\ k = s + p
      BY <1>1, <1>2, <1>3, <2>2
    <3> HIDE DEF p
    <3>2. m \in 1 .. m
      BY <1>5
    <3>3. new[k] = [result_index |-> m - 1, char_position |-> p]
      BY <1>1, <1>6, <3>1
    <3>4. p \in 1 .. Len(found[m].term) /\ k = Span(found, m - 1) + p
      BY <3>1 DEF n, s
    <3> QED BY <3>2, <3>3, <3>4
  <2> QED BY <2>1, <2>2
<1>8. t \in Nat
  BY <1>1, <1>2, <1>3
<1> QED BY <1>3, <1>6, <1>7, <1>8 DEF ArenaOK, new, t

(* The arithmetic of the arena holds for any number of terms.              *)
LEMMA ArenaAll ==
    ASSUME NEW found \in Seq(Found), NEW m \in 0 .. Len(found)
    PROVE  ArenaOK(found, m)
<1> DEFINE n == Len(found)
           Apart == {k \in 0 .. n : ~ ArenaOK(found, k)}
<1>0. n \in Nat
  OBVIOUS
<1> HIDE DEF n
<1> SUFFICES ASSUME Apart # {} PROVE FALSE
  BY DEF n
<1>1. PICK k \in Apart : \A j \in Apart : k <= j
  <2>1. Apart \in SUBSET Nat
    BY <1>0
  <2> HIDE DEF Apart
  <2> QED BY <2>1, LeastElement
<1>2. k # 0
  <2>1. Lists(found, 0) = <<>>
    BY DEF Lists
  <2>2. Arena(found, 0) = <<>>
    BY <2>1 DEF Arena, FlattenSeq
  <2>3. Span(found, 0) = 0
    BY SpanSteps
  <2>4. <<>> \in Seq(Places) /\ Len(<<>>) = 0 /\ 0 \in Nat
    OBVIOUS
  <2>5. ArenaOK(found, 0)
    <3>1. 1 .. 0 = {}
      OBVIOUS
    <3> QED BY <2>2, <2>3, <2>4, <3>1 DEF ArenaOK
  <2> QED BY <1>1, <2>5
<1>3. k \in 1 .. n /\ k - 1 \in 0 .. n
  BY <1>0, <1>1, <1>2
<1>4. ArenaOK(found, k - 1)
  BY <1>0, <1>1, <1>3
<1>5. ArenaOK(found, k)
  BY <1>3, <1>4, ArenaStep DEF n
<1> QED BY <1>1, <1>5

----------------------------------------------------------------------------
(* Their index                                                             *)

Top == IdLimits["wallbreaker"]

StartKey == [result_index |-> Top, char_position |-> 0]

(* The ids follow the arena as far as they reach.                          *)
IndexOK(found, index) ==
    /\ Len(index) \in 1 .. Top + 1
    /\ index[1] = StartKey
    /\ \A k \in 1 .. Len(index) - 1 :
          \E r \in 1 .. Len(found) : \E p \in 1 .. Len(found[r].term) :
             /\ r - 1 < Top
             /\ k = Span(found, r - 1) + p
             /\ index[k + 1] = [result_index |-> r - 1, char_position |-> p]

(* The index lists the start and then the places of the arena in order, as *)
(* far as ids reach, for any results, empty terms included.                *)
LEMMA IndexShape ==
    ASSUME NEW found \in Seq(Found)
    PROVE  IndexOK(found, W!build_wallbreaker_state_index(found))
<1> DEFINE n == Len(found)
           m == IF n <= Top THEN n ELSE Top
           arena == Arena(found, m)
           all == <<StartKey>> \o arena
           cut == IF Len(all) <= Top + 1 THEN Len(all) ELSE Top + 1
           index == SubSeq(all, 1, cut)
<1>1. n \in Nat /\ Top \in Nat
  BY StandaloneAssumption DEF Top
<1>2. m \in 0 .. n /\ m <= Top
  BY <1>1
<1> HIDE DEF m
<1>3. ArenaOK(found, m)
  BY <1>2, ArenaAll
<1>4. StartKey \in Places
  BY <1>1 DEF StartKey, Places
<1>5. /\ all \in Seq(Places) /\ Len(all) = Span(found, m) + 1 /\ all[1] = StartKey
      /\ \A k \in 1 .. Span(found, m) : all[k + 1] = arena[k]
  <2>1. arena \in Seq(Places) /\ Len(arena) = Span(found, m)
    BY <1>3 DEF ArenaOK
  <2> HIDE DEF arena
  <2> QED BY <1>4, <2>1
<1>6. Span(found, m) \in Nat
  BY <1>3 DEF ArenaOK
<1>7. cut \in 1 .. Top + 1 /\ cut <= Len(all)
  <2> HIDE DEF all
  <2> QED BY <1>1, <1>5, <1>6
<1> HIDE DEF all
<1>8. Len(index) = cut /\ \A j \in 1 .. cut : index[j] = all[j]
  <2> HIDE DEF cut
  <2> QED BY <1>1, <1>5, <1>7
<1> HIDE DEF index
<1>9. ASSUME NEW k \in 1 .. cut - 1
      PROVE  \E r \in 1 .. n : \E p \in 1 .. Len(found[r].term) :
                /\ r - 1 < Top
                /\ k = Span(found, r - 1) + p
                /\ index[k + 1] = [result_index |-> r - 1, char_position |-> p]
  <2> HIDE DEF cut
  <2>1. k \in 1 .. Span(found, m) /\ k + 1 \in 1 .. cut
    BY <1>1, <1>5, <1>6, <1>7
  <2>2. index[k + 1] = arena[k]
    BY <1>5, <1>8, <2>1
  <2>3. PICK r \in 1 .. m : \E p \in 1 .. Len(found[r].term) :
           /\ k = Span(found, r - 1) + p
           /\ arena[k] = [result_index |-> r - 1, char_position |-> p]
    BY <1>3, <2>1 DEF ArenaOK
  <2>4. r \in 1 .. n /\ r - 1 < Top
    BY <1>1, <1>2
  <2> QED BY <2>2, <2>3, <2>4
<1>10. W!build_wallbreaker_state_index(found) = index
  <2>1. W!Min({n, Top}) = m
    BY <1>1, MinOfTwo DEF R!Min, W!Min, m
  <2>2. W!Min({Len(all), Top + 1}) = cut
    <3>1. Len(all) \in Int /\ Top + 1 \in Int
      BY <1>1, <1>5, <1>6
    <3> QED BY <3>1, MinOfTwo DEF R!Min, W!Min
  <2>3. all = <<W!Start>> \o W!FlattenSeq([r \in 1 .. W!Min({n, Top}) |->
                [p \in 1 .. Len(found[r].term) |-> [result_index |-> r - 1, char_position |-> p]]])
    <3> DEFINE lists == [r \in 1 .. m |->
                [p \in 1 .. Len(found[r].term) |-> [result_index |-> r - 1, char_position |-> p]]]
    <3>1. lists = Lists(found, m)
      BY DEF Lists, TermPlaces
    <3>2. W!FlattenSeq(lists) = FlattenSeq(lists)
      BY DEF W!FlattenSeq, FlattenSeq
    <3>3. arena = W!FlattenSeq(lists)
      BY <3>1, <3>2, Zenon DEF Arena
    <3>4. W!Start = StartKey
      BY DEF W!Start, W!SUPER_START_RESULT_INDEX, StartKey, Top
    <3> HIDE DEF arena
    <3> QED BY <2>1, <3>3, <3>4, Zenon DEF all
  <2> HIDE DEF cut
  <2> QED BY <2>2, <2>3, Zenon DEF W!build_wallbreaker_state_index, index, Top
<1> HIDE DEF cut
<1>11. 1 \in 1 .. cut /\ Len(index) - 1 = cut - 1
  BY <1>1, <1>7, <1>8
<1>12. IndexOK(found, index)
  <2>1. index[1] = StartKey
    BY <1>5, <1>8, <1>11
  <2> QED BY <1>7, <1>8, <1>9, <1>11, <2>1 DEF IndexOK
<1> QED BY <1>10, <1>12

----------------------------------------------------------------------------
(* A state of the forest, of results and an index given as arguments.      *)
LetterOf(found, r, pos) ==
    IF r \in 0 .. Len(found) - 1 /\ pos < Len(found[r + 1].term) THEN {found[r + 1].term[pos + 1]}
    ELSE {}

IdAt(found, r, pos) ==
    {id \in {Span(found, r) + pos} :
       /\ r \in 0 .. Len(found) - 1 /\ r < Top
       /\ pos \in 1 .. Len(found[r + 1].term)
       /\ id <= Top}

LookupKey(found, index, key) ==
    {id \in (IF key = StartKey THEN {0} ELSE IdAt(found, key.result_index, key.char_position)) :
       id \in 0 .. Len(index) - 1 /\ index[id + 1] = key}

EmptyFinal(q, found) ==
    LET empty == {found[i].distance : i \in {j \in DOMAIN found :
                    found[j].term = <<>> /\ found[j].distance <= q.max_distance}}
    IN  IF empty = {} THEN {} ELSE {W!Min(empty)}

FinalAt(found, key) ==
    {found[key.result_index + 1].distance : p \in
       {x \in {key.char_position} : x >= Len(found[key.result_index + 1].term)}}

ArcsAt(found, index, r, pos) ==
    {[letter |-> c, to |-> id] :
       c \in LetterOf(found, r, pos),
       id \in LookupKey(found, index, [result_index |-> r, char_position |-> pos + 1])}

ExpandOf(q, found, index, id) ==
    IF index[id + 1] = StartKey
    THEN [final |-> EmptyFinal(q, found),
          arcs  |-> UNION {ArcsAt(found, index, r, 0) : r \in 0 .. Len(found) - 1}]
    ELSE [final |-> FinalAt(found, index[id + 1]),
          arcs  |-> ArcsAt(found, index, index[id + 1].result_index,
                           index[id + 1].char_position)]

(* Finding the id of a place, in terms of the arguments.                   *)
LEMMA LookupIs ==
    \A key : W!lookup_state(key) = LookupKey(results, table, key)
<1> SUFFICES ASSUME NEW key PROVE W!lookup_state(key) = LookupKey(results, table, key)
  OBVIOUS
<1> QED BY DEF W!lookup_state, W!state_id_for_position, W!is_valid_state, W!span_start, W!term,
               W!ResultIds, W!Start, W!SUPER_START_RESULT_INDEX, W!FoldLeft, W!MapThenFoldSet,
               W!Max, LookupKey, IdAt, Span, StartKey, Top, SP!Fold, SP!FoldLeft,
               SP!MapThenFoldSet, SP!Max, AddLetters

(* The answer that is computed, in terms of the arguments.                 *)
LEMMA ExpandIs ==
    \A id : W!expand_state(id) = ExpandOf(given, results, table, id)
<1> SUFFICES ASSUME NEW id PROVE W!expand_state(id) = ExpandOf(given, results, table, id)
  OBVIOUS
<1>1. \A r, pos : W!ArcsTo(r, pos) = ArcsAt(results, table, r, pos)
  <2> TAKE r, pos
  <2> DEFINE key == [result_index |-> r, char_position |-> pos + 1]
  <2>1. W!char_at(r, pos) = LetterOf(results, r, pos)
    BY DEF W!char_at, W!ResultIds, W!term, LetterOf
  <2>2. W!lookup_state(key) = LookupKey(results, table, key)
    BY LookupIs
  <2> HIDE DEF key
  <2>3. /\ W!ArcsTo(r, pos) = {[letter |-> c, to |-> x] : c \in W!char_at(r, pos), x \in W!lookup_state(key)}
        /\ ArcsAt(results, table, r, pos)
             = {[letter |-> c, to |-> x] : c \in LetterOf(results, r, pos), x \in LookupKey(results, table, key)}
    BY DEF W!ArcsTo, ArcsAt, key
  <2> QED BY <2>1, <2>2, <2>3
<1>2. W!empty_result_final_weight = EmptyFinal(given, results)
  BY DEF W!empty_result_final_weight, EmptyFinal
<1>3. UNION {W!ArcsTo(r, 0) : r \in W!ResultIds}
        = UNION {ArcsAt(results, table, r, 0) : r \in 0 .. Len(results) - 1}
  BY <1>1 DEF W!ResultIds
<1>4. W!Start = StartKey
  BY DEF W!Start, W!SUPER_START_RESULT_INDEX, StartKey, Top
<1>5. CASE table[id + 1] = StartKey
  BY <1>2, <1>3, <1>4, <1>5 DEF W!expand_state, W!compute_super_start_transitions, ExpandOf
<1>6. CASE table[id + 1] # StartKey
  <2> DEFINE key == table[id + 1]
  <2>1. W!compute_result_state(key)
          = [final |-> FinalAt(results, key), arcs |-> W!ArcsTo(key.result_index, key.char_position)]
    BY DEF W!compute_result_state, W!term, FinalAt
  <2>2. W!ArcsTo(key.result_index, key.char_position)
          = ArcsAt(results, table, key.result_index, key.char_position)
    BY <1>1
  <2> QED BY <1>4, <1>6, <2>1, <2>2, Zenon DEF W!expand_state, ExpandOf
<1> QED BY <1>5, <1>6

WallBreakerInv ==
    /\ given \in Queries
    /\ results \in Distinct
    /\ table = W!build_wallbreaker_state_index(results)
    /\ cached # Nothing => cached.answer = ExpandOf(given, results, table, cached.state)

(* A forest is built of distinct terms.                                    *)
LEMMA WallBreakerInit == ASSUME W!Init PROVE WallBreakerInv
<1>1. /\ given \in Queries
      /\ results = W!normalize_wallbreaker_results(given.results, given.max_distance)
      /\ table = W!build_wallbreaker_state_index(results)
      /\ cached = Nothing
  BY DEF W!Init
<1>2. given.results \in Seq(Found)
  BY <1>1, StandaloneAssumption DEF Found
<1>3. results \in Distinct
  BY <1>1, <1>2, NormalizedDistinct
<1> QED BY <1>1, <1>3 DEF WallBreakerInv

(* Only the cache changes.                                                 *)
LEMMA WallBreakerStep ==
    ASSUME WallBreakerInv, W!Next PROVE WallBreakerInv' /\ table' = table
<1> DEFINE Same == given' = given /\ results' = results /\ table' = table
           Current == cached # Nothing =>
                        cached.answer = ExpandOf(given, results, table, cached.state)
<1>1. ASSUME Same, Current' PROVE WallBreakerInv' /\ table' = table
  BY <1>1 DEF WallBreakerInv
<1>2. ASSUME NEW id, W!ensure_state(id) PROVE Same /\ Current'
  <2>1. Same /\ cached' = [state |-> id, answer |-> W!expand_state(id)]
    BY <1>2 DEF W!ensure_state
  <2>2. cached'.state = id /\ cached'.answer = W!expand_state(id)
    BY <2>1
  <2>3. cached'.answer = ExpandOf(given, results, table, id)
    BY <2>2, ExpandIs
  <2> QED BY <2>1, <2>2, <2>3
<1>3. CASE W!vars' = W!vars
  BY <1>3 DEF W!vars, WallBreakerInv
<1>4. ASSUME W!clear_cache PROVE Same /\ Current'
  <2>1. Same /\ cached' = Nothing
    BY <1>4 DEF W!clear_cache
  <2>2. Current'
    BY <2>1
  <2> QED BY <2>1, <2>2
<1>5. \/ W!clear_cache
      \/ W!vars' = W!vars
      \/ \E id \in 0 .. Len(table) : W!ensure_state(id)
  BY DEF W!Next, W!reject_state, W!vars
<1> HIDE DEF Same, Current
<1> QED BY <1>1, <1>2, <1>3, <1>4, <1>5

(* Arithmetic and index find the same id for every place, and each arc     *)
(* leads to a state of the index.                                          *)
LEMMA WallBreakerConsequences ==
    ASSUME WallBreakerInv
    PROVE  W!TypeOK /\ W!IndexMatchesArena /\ W!CacheCurrent /\ W!TargetsKnown
<1> DEFINE n == Len(results)
<1>1. /\ results \in Seq(Found) /\ n \in Nat /\ DOMAIN results = 1 .. n
      /\ \A i, j \in 1 .. n : results[i].term = results[j].term => i = j
  BY DEF WallBreakerInv, Distinct
<1>2. IndexOK(results, table) /\ Top \in Nat
  BY <1>1, IndexShape, StandaloneAssumption DEF WallBreakerInv, Top
<1>3. W!TypeOK
  <2>1. ASSUME NEW r \in W!ResultIds, NEW s \in W!ResultIds, W!term(r) = W!term(s) PROVE r = s
    <3>1. r + 1 \in 1 .. n /\ s + 1 \in 1 .. n /\ r \in Int /\ s \in Int
      BY <1>1 DEF W!ResultIds
    <3>2. results[r + 1].term = results[s + 1].term
      BY <2>1 DEF W!term
    <3>3. r + 1 = s + 1
      BY <1>1, <3>1, <3>2
    <3> QED BY <3>1, <3>3
  <2> QED BY <1>2, <2>1 DEF IndexOK, W!TypeOK, Top
<1>4. ASSUME NEW id \in 0 .. Len(table) - 1 PROVE W!lookup_state(table[id + 1]) = {id}
  <2>0. Len(table) \in 1 .. Top + 1 /\ id \in Int /\ table[1] = StartKey
    BY <1>2 DEF IndexOK
  <2>1. W!lookup_state(table[id + 1]) = LookupKey(results, table, table[id + 1])
    BY LookupIs
  <2>2. CASE id = 0
    <3>1. table[id + 1] = StartKey
      BY <2>0, <2>2
    <3> QED BY <2>0, <2>1, <2>2, <3>1 DEF LookupKey
  <2>3. CASE id # 0
    <3>1. id \in 1 .. Len(table) - 1 /\ id <= Top
      BY <1>2, <2>0, <2>3
    <3>2. PICK r \in 1 .. n : \E p \in 1 .. Len(results[r].term) :
             /\ r - 1 < Top
             /\ id = Span(results, r - 1) + p
             /\ table[id + 1] = [result_index |-> r - 1, char_position |-> p]
      BY <1>2, <3>1 DEF IndexOK
    <3>3. PICK p \in 1 .. Len(results[r].term) :
             /\ r - 1 < Top
             /\ id = Span(results, r - 1) + p
             /\ table[id + 1] = [result_index |-> r - 1, char_position |-> p]
      BY <3>2
    <3> DEFINE key == table[id + 1]
    <3>4. key.result_index = r - 1 /\ key.char_position = p
      BY <3>3
    <3>5. key # StartKey
      <4>1. StartKey.result_index = Top
        BY DEF StartKey
      <4> QED BY <1>2, <3>3, <3>4, <4>1
    <3>6. r - 1 + 1 = r /\ r - 1 \in 0 .. n - 1
      BY <1>1
    <3> HIDE DEF key
    <3>7. IdAt(results, r - 1, p) = {id}
      BY <3>1, <3>3, <3>6 DEF IdAt
    <3>8. LookupKey(results, table, key) = {id}
      BY <3>4, <3>5, <3>7 DEF LookupKey, key
    <3> QED BY <2>1, <3>8 DEF key
  <2> QED BY <2>2, <2>3
<1>5. \A id : W!final_weight_for_state(id) = W!expand_state(id).final
  <2> TAKE id
  <2>1. CASE table[id + 1] = W!Start
    BY <2>1 DEF W!final_weight_for_state, W!expand_state, W!compute_super_start_transitions
  <2>2. CASE table[id + 1] # W!Start
    <3> DEFINE key == table[id + 1]
    <3>1. W!expand_state(id) = W!compute_result_state(key)
      BY <2>2 DEF W!expand_state
    <3>2. W!compute_result_state(key).final
            = {results[key.result_index + 1].distance : p \in
                {q \in {key.char_position} : q >= Len(W!term(key.result_index))}}
      BY DEF W!compute_result_state
    <3>3. W!final_weight_for_state(id)
            = {results[key.result_index + 1].distance : p \in
                {q \in {key.char_position} : q >= Len(W!term(key.result_index))}}
      BY <2>2 DEF W!final_weight_for_state
    <3> QED BY <3>1, <3>2, <3>3
  <2> QED BY <2>1, <2>2
<1>6. W!IndexMatchesArena
  BY <1>4, <1>5 DEF W!IndexMatchesArena
<1>7. W!CacheCurrent
  BY ExpandIs DEF WallBreakerInv, W!CacheCurrent
<1>8. W!TargetsKnown
  <2> SUFFICES ASSUME cached # Nothing, NEW a \in cached.answer.arcs PROVE a.to \in 0 .. Len(table) - 1
    BY DEF W!TargetsKnown, W!is_valid_state
  <2> DEFINE key == table[cached.state + 1]
  <2>1. a \in ExpandOf(given, results, table, cached.state).arcs
    BY DEF WallBreakerInv
  <2>2. \E r, pos : a \in ArcsAt(results, table, r, pos)
    <3>1. CASE key = StartKey
      <4>1. a \in UNION {ArcsAt(results, table, r, 0) : r \in 0 .. Len(results) - 1}
        BY <2>1, <3>1 DEF ExpandOf
      <4> QED BY <4>1
    <3>2. CASE key # StartKey
      <4>1. a \in ArcsAt(results, table, key.result_index, key.char_position)
        BY <2>1, <3>2 DEF ExpandOf
      <4> QED BY <4>1
    <3> QED BY <3>1, <3>2
  <2>3. PICK r, pos : a \in ArcsAt(results, table, r, pos)
    BY <2>2
  <2>4. PICK x : \E k : x \in LookupKey(results, table, k) /\ a.to = x
    BY <2>3 DEF ArcsAt
  <2> QED BY <2>4 DEF LookupKey
<1> QED BY <1>3, <1>6, <1>7, <1>8

----------------------------------------------------------------------------
(* All of them                                                             *)

StandaloneInv ==
    /\ kind \in {"nfa", "rewrite", "wallbreaker", "backend"}
    /\ kind = "nfa" => NfaInv
    /\ kind = "rewrite" => RewriteInv
    /\ kind = "wallbreaker" => WallBreakerInv
    /\ kind = "backend" => BackendInv

(* The invariant holds at first.                                           *)
LEMMA StandaloneStart == Init => StandaloneInv
<1> SUFFICES ASSUME Init PROVE StandaloneInv
  OBVIOUS
<1>1. CASE kind = "nfa" /\ N!Init
  BY <1>1, NfaInit DEF StandaloneInv
<1>2. CASE kind = "rewrite" /\ R!Init
  BY <1>2, RewriteInit DEF StandaloneInv
<1>3. CASE kind = "wallbreaker" /\ W!Init
  BY <1>3, WallBreakerInit DEF StandaloneInv
<1>4. CASE kind = "backend" /\ B!Init
  BY <1>4, BackendInit DEF StandaloneInv
<1> QED BY <1>1, <1>2, <1>3, <1>4 DEF Init

TableKept == \A i \in DOMAIN table : i \in DOMAIN table' /\ table'[i] = table[i]

(* Each kind keeps its invariant, and what its table holds stays in place. *)
LEMMA StandaloneStep ==
    ASSUME StandaloneInv, [Next]_vars
    PROVE  StandaloneInv' /\ TableKept
<1>1. CASE UseNfa
  <2>1. kind = "nfa" /\ kind' = kind /\ N!Next
    BY <1>1 DEF UseNfa
  <2>2. NfaInv' /\ Extends(table, table')
    BY <2>1, NfaStep DEF StandaloneInv
  <2>3. TableKept
    BY <2>2 DEF Extends, TableKept
  <2> QED BY <2>1, <2>2, <2>3 DEF StandaloneInv
<1>2. CASE UseRewrite
  <2>1. kind = "rewrite" /\ kind' = kind /\ R!Next
    BY <1>2 DEF UseRewrite
  <2>2. RewriteInv /\ (R!Next \/ R!vars' = R!vars)
    BY <2>1 DEF StandaloneInv
  <2>3. RewriteInv' /\ TableKept
    BY <2>2, RewriteStep DEF TableKept
  <2> QED BY <2>1, <2>3 DEF StandaloneInv
<1>3. CASE UseWallBreaker
  <2>1. kind = "wallbreaker" /\ kind' = kind /\ W!Next
    BY <1>3 DEF UseWallBreaker
  <2>2. WallBreakerInv' /\ table' = table
    BY <2>1, WallBreakerStep DEF StandaloneInv
  <2>3. TableKept
    BY <2>2 DEF TableKept
  <2> QED BY <2>1, <2>2, <2>3 DEF StandaloneInv
<1>4. CASE UseBackend
  <2>1. kind = "backend" /\ kind' = kind /\ B!Next
    BY <1>4 DEF UseBackend
  <2>2. BackendInv' /\ TableKept
    BY <2>1, BackendStep DEF StandaloneInv, TableKept
  <2> QED BY <2>1, <2>2 DEF StandaloneInv
<1>5. CASE UNCHANGED vars
  <2>1. TableKept
    BY <1>5 DEF vars, TableKept
  <2>2. N!vars' = N!vars /\ R!vars' = R!vars /\ W!vars' = W!vars /\ kind' = kind
        /\ word_to_id' = word_to_id /\ table' = table
    BY <1>5 DEF vars, rewriteOnly, N!vars, R!vars, R!metadata, W!vars
  <2>3. NfaInv => NfaInv'
    <3>1. given' = given /\ table' = table /\ tasks' = tasks /\ cached' = cached
      BY <2>2 DEF N!vars
    <3> QED BY <3>1, NfaStable DEF NfaInv
  <2>4. RewriteInv => RewriteInv'
    BY <2>2, RewriteStep
  <2>5. WallBreakerInv => WallBreakerInv'
    BY <2>2 DEF W!vars, WallBreakerInv
  <2>6. BackendInv => BackendInv'
    BY <2>2 DEF BackendInv
  <2> QED BY <2>1, <2>2, <2>3, <2>4, <2>5, <2>6 DEF StandaloneInv
<1> QED BY <1>1, <1>2, <1>3, <1>4, <1>5 DEF Next

(* Of whichever kind a system is, its table was built as its kind          *)
(* prescribes, and what is cached or under way is true of the table.       *)
THEOREM StandaloneInvariant == Spec => []StandaloneInv
<1>1. StandaloneInv /\ [Next]_vars => StandaloneInv'
  BY StandaloneStep
<1> QED BY <1>1, StandaloneStart, PTL DEF Spec

(* TablesConsistent: sets interned by two activations that both missed     *)
(* them, continuation states of rules added one by one, letters found by   *)
(* arithmetic and words found by a map are each in the table once, where   *)
(* the look-up says, for every content and id limit.                       *)
THEOREM StandaloneTables == Spec => []TablesConsistent
<1>1. StandaloneInv => TablesConsistent
  BY NfaConsequences, RewriteConsequences, WallBreakerConsequences, BackendBijective
     DEF StandaloneInv, TablesConsistent
<1> QED BY <1>1, StandaloneInvariant, PTL

(* CacheCurrent: an answer cached by ensure_state is what expanding the    *)
(* state now would give, however the table has grown since.                *)
THEOREM StandaloneCache == Spec => []CacheCurrent
<1>1. StandaloneInv => CacheCurrent
  BY NfaConsequences, RewriteConsequences, WallBreakerConsequences
     DEF StandaloneInv, CacheCurrent
<1> QED BY <1>1, StandaloneInvariant, PTL

(* TargetsKnown: an arc of a cached answer leads to a state that can be    *)
(* expanded, whatever did not get an id.                                   *)
THEOREM StandaloneTargets == Spec => []TargetsKnown
<1>1. StandaloneInv => TargetsKnown
  BY NfaConsequences, RewriteConsequences, WallBreakerConsequences
     DEF StandaloneInv, TargetsKnown
<1> QED BY <1>1, StandaloneInvariant, PTL

(* IdsKeepMeaning: interning, adding rules and expanding leave every entry *)
(* of the table as it is and add only at its end.                          *)
THEOREM StandaloneIds == Spec => IdsKeepMeaning
<1>1. StandaloneInv /\ [Next]_vars => [TableKept]_vars
  BY StandaloneStep
<1>2. Spec => [][TableKept]_vars
  BY <1>1, StandaloneInvariant, PTL DEF Spec
<1> QED BY <1>2 DEF IdsKeepMeaning, TableKept

=============================================================================
