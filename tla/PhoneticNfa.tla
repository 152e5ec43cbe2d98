----------------------------- MODULE PhoneticNfa -----------------------------
(***************************************************************************)
(* PhoneticNfaWfst: a phonetic pattern as a WFST, by the subset            *)
(* construction, one state at a time.  Clones share a registry that gives  *)
(* each set of NFA states a dense id.  An expansion works out its          *)
(* successor sets, looks them all up under the read lock, and registers    *)
(* the ones it missed under the write lock; other expansions may register  *)
(* the same sets in between.  Each clone has a cache of its own, of which  *)
(* one entry, chosen freely, stands for all.                               *)
(***************************************************************************)
EXTENDS PhoneticAnchors, SequencesExt, FiniteSetsExt

CONSTANTS
    Patterns,        \* [nfa, alphabet, weight], the alphabet a sequence
    Threads,         \* activations of expand, by any clones
    MaxStateId,      \* u32::MAX
    MaxExactRange,   \* MAX_EXACT_CLASS_RANGE_CHARS
    Texts,           \* the texts to compare the pattern and the WFST on
    Nothing          \* no expansion in progress, or cached

VARIABLES
    pattern,         \* the pattern under examination
    registry,        \* NfaStateRegistry: entry i + 1 is state id i
    tasks,           \* the expansions between look-up and registration
    cached           \* one cache entry of one clone, [state, answer]

vars == <<pattern, registry, tasks, cached>>

nfa == pattern.nfa

(* Duplicates after the first are dropped; only membership matters here.   *)
normalize_alphabet(alphabet) == Range(alphabet)

----------------------------------------------------------------------------
(* The letters a state set can read.                                       *)

(* Ranges wider than the bound add nothing beyond the alphabet.            *)
push_bounded_char_range(range) ==
    {c \in range[1] .. range[2] : range[2] - range[1] + 1 <= MaxExactRange}

collect_char_class_candidates(class) ==
    {c \in normalize_alphabet(pattern.alphabet) : class_matches(class, c)}
    \cup
    UNION {push_bounded_char_range(r) : r \in {s \in class.ranges : ~ class.negated}}

collect_label_candidates(label) ==
    CASE label.kind = "Char"      -> {label.letter}
      [] label.kind = "CharClass" -> collect_char_class_candidates(label)
      [] label.kind = "Any"       -> normalize_alphabet(pattern.alphabet)

CandidateChars(states) ==
    UNION {collect_label_candidates(t.label) :
             t \in {u \in transitions_from(nfa, states) : consumes_input(u.label)}}

(* Any and classes also take the letters other labels contributed.         *)
collect_label_successors(states, letter) ==
    {t.to : t \in {u \in transitions_from(nfa, states) : label_matches(u.label, letter)}}

Successor(states, letter) == epsilon_closure(nfa, collect_label_successors(states, letter))

(* The letters with a successor; every candidate has one.                  *)
pending_targets(states) ==
    [c \in {d \in CandidateChars(states) : collect_label_successors(states, d) # {}} |->
       Successor(states, c)]

----------------------------------------------------------------------------
(* NfaStateRegistry                                                        *)

StateIds == 0 .. Len(registry) - 1

id_for_key(reg, states) == {i \in 0 .. Len(reg) - 1 : reg[i + 1].state_set = states}

(* Mutant: the set is not looked up again under the write lock.            *)
CreateWithoutLookup(reg, states) ==
    Append(reg, [state_set |-> states,
                 is_final  |-> state_set_can_reach_final_through_end_anchors(nfa, states)])

get_or_create_with_key(reg, states) ==
    IF id_for_key(reg, states) # {} \/ Len(reg) > MaxStateId THEN reg
    ELSE Append(reg, [state_set |-> states,
                      is_final |-> state_set_can_reach_final_through_end_anchors(nfa, states)])

(* In the order of the slots, which is that of discovery and arbitrary.    *)
RegisterMissing(reg, missing) == FoldLeft(get_or_create_with_key, reg, missing)

(* Targets without an id are dropped.                                      *)
Arcs(reg, targets) ==
    UNION {{[letter |-> c, to |-> i, weight |-> pattern.weight] :
              i \in id_for_key(reg, targets[c])} : c \in DOMAIN targets}

(* An expansion's answer: cached, or returned by the state source.         *)
Answer(reg, id, arcs) == [is_final |-> reg[id + 1].is_final, arcs |-> arcs]

is_registered_state(id) == id \in StateIds

----------------------------------------------------------------------------

Init ==
    /\ pattern \in Patterns
    /\ registry = LET initial == start_anchor_closure(pattern.nfa)
                  IN  <<[state_set |-> initial,
                         is_final |-> state_set_can_reach_final_through_end_anchors(
                                        pattern.nfa, initial)]>>
    /\ tasks = [t \in Threads |-> Nothing]
    /\ cached = Nothing

(* The answer may be the cache entry under examination.                    *)
Finish(id, answer) ==
    \/ UNCHANGED cached
    \/ cached = Nothing /\ cached' = [state |-> id, answer |-> answer]

(* compute_nfa_transitions up to the end of the read section.  Entries are *)
(* never changed, so reading the state set commutes with other threads.    *)
LookUpTargets(t, id) ==
    /\ tasks[t] = Nothing
    /\ is_registered_state(id)
    /\ LET targets == pending_targets(registry[id + 1].state_set)
           missing == {c \in DOMAIN targets : id_for_key(registry, targets[c]) = {}}
       IN  IF missing = {}
           THEN /\ Finish(id, Answer(registry, id, Arcs(registry, targets)))
                /\ UNCHANGED tasks
           ELSE /\ \E order \in SetToSeqs({targets[c] : c \in missing}) :
                      tasks' = [tasks EXCEPT ![t] =
                                  [state   |-> id,
                                   found   |-> Arcs(registry, targets),
                                   targets |-> Restrict(targets, missing),
                                   missing |-> order]]
                /\ UNCHANGED cached
    /\ UNCHANGED <<pattern, registry>>

(* The write section and the answer.                                       *)
RegisterTargets(t) ==
    /\ tasks[t] # Nothing
    /\ LET task == tasks[t]
           reg  == RegisterMissing(registry, task.missing)
       IN  /\ registry' = reg
           /\ Finish(task.state,
                     Answer(reg, task.state, task.found \cup Arcs(reg, task.targets)))
    /\ tasks' = [tasks EXCEPT ![t] = Nothing]
    /\ UNCHANGED pattern

(* expand of an id nobody handed out fails.                                *)
RejectState(id) == ~ is_registered_state(id) /\ UNCHANGED vars

(* clear_cache, or the eviction of the entry.                              *)
clear_cache ==
    /\ cached # Nothing
    /\ cached' = Nothing
    /\ UNCHANGED <<pattern, registry, tasks>>

Next ==
    \/ clear_cache
    \/ \E t \in Threads : RegisterTargets(t)
    \/ \E id \in 0 .. Len(registry) :
          RejectState(id) \/ \E t \in Threads : LookUpTargets(t, id)

Spec == Init /\ [][Next]_vars

----------------------------------------------------------------------------
(* Properties                                                              *)

TypeOK ==
    /\ \A i \in DOMAIN registry : registry[i].state_set \subseteq 0 .. nfa.size - 1
    /\ Len(registry) <= MaxStateId + 1

(* A set of NFA states has one id although two expansions may miss it at   *)
(* the same time, and no id is spent on the empty set.                     *)
SetsInterned ==
    \A i, j \in DOMAIN registry :
       /\ registry[i].state_set = registry[j].state_set => i = j
       /\ registry[i].state_set # {}

(* The cached answer is what an expansion would compute now, whatever was  *)
(* registered between its two sections or since, and also when ids ran out *)
(* before it: an arc is there only if its target had an id.                *)
AnswerNow(id) ==
    LET targets == pending_targets(registry[id + 1].state_set)
        reg     == RegisterMissing(registry, SetToSeq(Range(targets)))
    IN  Answer(reg, id, Arcs(reg, targets))

CacheCurrent == cached # Nothing => AnswerNow(cached.state) = cached.answer

(* The targets of a cached answer are registered.                          *)
TargetsKnown ==
    cached # Nothing => \A a \in cached.answer.arcs : is_registered_state(a.to)

(* Every successor of every registered set has been registered.            *)
Closed ==
    \A i \in DOMAIN registry :
       \A s \in Range(pending_targets(registry[i].state_set)) : id_for_key(registry, s) # {}

Accepts(text) ==
    LET after[n \in 0 .. Len(text)] ==
          IF n = 0 THEN {0}
          ELSE {a.to : a \in {b \in UNION {AnswerNow(i).arcs : i \in after[n - 1]} :
                                b.letter = text[n]}}
    IN  \E i \in after[Len(text)] : registry[i + 1].is_final

(* Once explored, the WFST accepts exactly the texts over its alphabet     *)
(* that match the pattern, and beyond the alphabet only texts that match,  *)
(* whichever order gave the ids: anchors hold at the ends of the text and  *)
(* nowhere else.                                                           *)
RecognisesPattern ==
    Closed =>
       \A text \in Texts :
          /\ Accepts(text) => Matches(nfa, text)
          /\ Range(text) \subseteq normalize_alphabet(pattern.alphabet) =>
                (Matches(nfa, text) => Accepts(text))

=============================================================================
