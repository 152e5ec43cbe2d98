---------------------------- MODULE RewriteRules ----------------------------
(***************************************************************************)
(* RewriteWfst: rewrite rules as a WFST.  State 0 is home; each rule of    *)
(* more than one step owns a run of continuation states, laid out in the   *)
(* order in which the rules were added.  Rules may be added, and identity  *)
(* switched, while states are cached and while a caller holds state ids.   *)
(*                                                                         *)
(* A rule is [input, output, cost, priority]; a cost that is not finite    *)
(* and non-negative is -1.  Rules are numbered from 1, steps from 0.       *)
(***************************************************************************)
EXTENDS Integers, Sequences, SequencesExt, FiniteSetsExt

CONSTANTS
    Rules,        \* the rules a caller may add
    MaxRules,     \* bound: rules in one WFST
    Printable,    \* ' ' ..= '~', the letters with an identity arc
    MaxStateId,   \* u32::MAX
    NoLabel,      \* the absent label of an arc
    Nothing       \* nothing cached

VARIABLES
    rules,                      \* in the order they were added
    continuation_end_offsets,   \* continuation states up to each rule
    continuation_lookup,        \* entry i is state i: [rule, step]
    priority_order,             \* rule numbers as they are enumerated
    allow_identity,
    cached                      \* one cache entry, chosen freely

metadata == <<continuation_end_offsets, continuation_lookup, priority_order>>

vars == <<rules, continuation_end_offsets, continuation_lookup, priority_order,
          allow_identity, cached>>

valid(rule) == rule.cost >= 0

steps(rule) == Max({Len(rule.input), Len(rule.output)})

----------------------------------------------------------------------------
(* The layout, for a whole list of rules and for one more rule.            *)

Continuations(rule, index) ==
    [s \in 1 .. Max({steps(rule), 1}) - 1 |-> [rule |-> index, step |-> s]]

(* The members in order; `before` is total.                                *)
Sorted(S, before(_, _)) ==
    CHOOSE list \in SetToSeqs(S) :
       \A i, j \in DOMAIN list : i < j => before(list[i], list[j])

(* PreparedRuleMetadata::from_rules                                        *)
from_rules(list) ==
    LET lookup == FlattenSeq([i \in DOMAIN list |-> Continuations(list[i], i)])
        before(i, j) == \/ list[i].priority > list[j].priority
                        \/ list[i].priority = list[j].priority /\ i < j
    IN  << [i \in DOMAIN list |->
              Cardinality({k \in DOMAIN lookup : lookup[k].rule <= i})],
           lookup,
           Sorted(DOMAIN list, before) >>

(* partition_point: behind all rules of the same or a higher priority.     *)
insertion_index(rule) ==
    Cardinality({k \in DOMAIN priority_order : rules[priority_order[k]].priority >= rule.priority})

(* Mutant: the states of a rule go where its priority puts the rule.       *)
LayOutFirst(rule) ==
    LET index == Len(rules) + 1
    IN  /\ rules' = Append(rules, rule)
        /\ continuation_lookup' = Continuations(rule, index) \o continuation_lookup
        /\ continuation_end_offsets' =
              Append(continuation_end_offsets, Len(continuation_lookup'))
        /\ priority_order' = InsertAt(priority_order, insertion_index(rule) + 1, index)

append_validated_rule(rule) ==
    LET index == Len(rules) + 1
    IN  /\ rules' = Append(rules, rule)
        /\ continuation_lookup' = continuation_lookup \o Continuations(rule, index)
        /\ continuation_end_offsets' =
              Append(continuation_end_offsets, Len(continuation_lookup'))
        /\ priority_order' = InsertAt(priority_order, insertion_index(rule) + 1, index)

----------------------------------------------------------------------------
(* States and their arcs.                                                  *)

num_states == Min({Len(continuation_lookup), MaxStateId}) + 1

is_known_state(id) == id \in 0 .. num_states - 1

continuation_start(index) ==
    IF index = 1 THEN 0 ELSE continuation_end_offsets[index - 1]

(* Mutant: the id is not checked for overflow.                             *)
UncheckedState(index, step) == {continuation_start(index) + step}

continuation_state(index, step) ==
    {id \in {continuation_start(index) + step} : id <= MaxStateId}

(* Where step s of the rule ends.                                          *)
StepTarget(index, s) ==
    IF s + 1 = steps(rules[index]) THEN {0} ELSE continuation_state(index, s + 1)

LetterAt(word, s) == IF s < Len(word) THEN word[s + 1] ELSE NoLabel

(* One arc, or none; the first step pays for the rule.                     *)
push_rule_step_transition(index, s) ==
    LET rule == rules[index]
        to   == StepTarget(index, s)
    IN  IF s >= steps(rule) \/ to = {} \/ (s > 0 /\ continuation_state(index, s) = {}) THEN <<>>
        ELSE << [input  |-> LetterAt(rule.input, s), output |-> LetterAt(rule.output, s),
                 to     |-> CHOOSE id \in to : TRUE, weight |-> IF s = 0 THEN rule.cost ELSE 0] >>

SameArc(a, b) == a.input = b.input /\ a.output = b.output /\ a.to = b.to

(* Of equal arcs the cheapest stays, in the place of the first.            *)
prune_dominated_transitions(arcs) ==
    FoldLeft(LAMBDA kept, a :
               LET same == {i \in DOMAIN kept : SameArc(kept[i], a)}
               IN  IF same = {} THEN Append(kept, a)
                   ELSE [i \in DOMAIN kept |->
                           IF i \in same /\ a.weight < kept[i].weight THEN a ELSE kept[i]],
             <<>>, arcs)

Alphabet == Sorted(Printable, <)

IdentityArcs ==
    IF ~ allow_identity THEN <<>>
    ELSE [k \in DOMAIN Alphabet |->
            [input |-> Alphabet[k], output |-> Alphabet[k], to |-> 0, weight |-> 0]]

compute_transitions(id) ==
    prune_dominated_transitions(
      IF id = 0
      THEN FlattenSeq([k \in DOMAIN priority_order |->
                         push_rule_step_transition(priority_order[k], 0)]) \o IdentityArcs
      ELSE push_rule_step_transition(continuation_lookup[id].rule, continuation_lookup[id].step))

(* Only home is final, at no cost.                                         *)
is_final(id) == id = 0

Answer(id) == [is_final |-> is_final(id), arcs |-> compute_transitions(id)]

----------------------------------------------------------------------------

with_rules(list) ==
    /\ \A i \in DOMAIN list : valid(list[i])
    /\ rules = list
    /\ continuation_end_offsets = from_rules(list)[1]
    /\ continuation_lookup = from_rules(list)[2]
    /\ priority_order = from_rules(list)[3]
    /\ allow_identity = TRUE
    /\ cached = Nothing

(* RewriteWfst::new, or with_rules.                                        *)
Init == \E n \in 0 .. MaxRules : \E list \in [1 .. n -> Rules] : with_rules(list)

(* Mutant: the cache survives.                                             *)
AddWithoutClearing(rule) ==
    /\ Len(rules) < MaxRules
    /\ valid(rule)
    /\ append_validated_rule(rule)
    /\ UNCHANGED <<allow_identity, cached>>

(* add_rule and add_rewrite_rule                                           *)
add_rule(rule) ==
    /\ Len(rules) < MaxRules
    /\ valid(rule)
    /\ append_validated_rule(rule)
    /\ cached' = Nothing
    /\ UNCHANGED allow_identity

reject_rule(rule) == ~ valid(rule) /\ UNCHANGED vars

set_allow_identity(allow) ==
    /\ allow_identity' = allow
    /\ cached' = Nothing
    /\ UNCHANGED <<rules, metadata>>

(* A state that is cached is not computed again.                           *)
ensure_state(id) ==
    /\ is_known_state(id)
    /\ cached = Nothing
    /\ cached' = [state |-> id, answer |-> Answer(id)]
    /\ UNCHANGED <<rules, metadata, allow_identity>>

reject_state(id) == ~ is_known_state(id) /\ UNCHANGED vars

clear_cache ==
    /\ cached' = Nothing
    /\ UNCHANGED <<rules, metadata, allow_identity>>

Next ==
    \/ \E rule \in Rules : add_rule(rule) \/ reject_rule(rule)
    \/ \E allow \in BOOLEAN : set_allow_identity(allow)
    \/ \E id \in 0 .. num_states : ensure_state(id) \/ reject_state(id)
    \/ clear_cache

Spec == Init /\ [][Next]_vars

----------------------------------------------------------------------------
(* Properties                                                              *)

TypeOK ==
    /\ rules \in Seq({r \in Rules : valid(r)}) /\ Len(rules) <= MaxRules
    /\ Len(priority_order) = Len(rules)
    /\ allow_identity \in BOOLEAN

(* Rules added one at a time are laid out as if they had been given at     *)
(* once: the same states, and the same order of enumeration with ties in   *)
(* order of insertion.                                                     *)
LayoutIncremental == metadata = from_rules(rules)

(* What is cached is what would be computed now, after any change of the   *)
(* rules.                                                                  *)
CacheCurrent == cached # Nothing => cached.answer = Answer(cached.state)

(* From home along arc a and on until home is reached again.               *)
Excursion(a) ==
    LET cat(word, letter) == IF letter = NoLabel THEN word ELSE Append(word, letter)
        take(e, b) == [input |-> cat(e.input, b.input), output |-> cat(e.output, b.output),
                       cost |-> e.cost + b.weight, at |-> b.to]
        on(e, i) == IF e.at = 0 \/ compute_transitions(e.at) = <<>> THEN e
                    ELSE take(e, compute_transitions(e.at)[1])
    IN  FoldLeft(on, take([input |-> <<>>, output |-> <<>>, cost |-> 0, at |-> 0], a),
                 continuation_lookup)

Excursions == {Excursion(a) : a \in Range(compute_transitions(0))}

Rewrites ==
    {[input |-> r.input, output |-> r.output, cost |-> r.cost, at |-> 0] :
       r \in {q \in Range(rules) : steps(q) > 0}}
    \cup
    {[input |-> <<c>>, output |-> <<c>>, cost |-> 0, at |-> 0] :
       c \in {d \in Printable : allow_identity}}

(* The ways from home to home are exactly the rules and, if allowed, the   *)
(* identities: no rule runs into the states of another, and pruning drops  *)
(* a rewrite only for one that is as cheap.                                *)
RewritesExact ==
    Len(continuation_lookup) <= MaxStateId =>
       /\ Excursions \subseteq Rewrites
       /\ \A r \in Rewrites : \E e \in Excursions :
             e.input = r.input /\ e.output = r.output /\ e.cost <= r.cost

(* An arc leads to a state that can be expanded, also when the ids do not  *)
(* suffice for all rules.                                                  *)
TargetsKnown ==
    \A id \in 0 .. num_states - 1 :
       \A a \in Range(compute_transitions(id)) : is_known_state(a.to)

=============================================================================
