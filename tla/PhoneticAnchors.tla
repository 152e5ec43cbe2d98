--------------------------- MODULE PhoneticAnchors ---------------------------
(***************************************************************************)
(* Zero-width anchors of a phonetic pattern (phonetic_anchors.rs), over    *)
(* NFAChar of liblevenshtein.  An NFA is a record [size, start, finals,    *)
(* trans] with states 0 .. size - 1 and a set of transitions [from, label, *)
(* to]; a letter is a natural; a label is a record whose `kind` is one of  *)
(* Char, CharClass, Any, Epsilon, Start (of line or input) and End.        *)
(***************************************************************************)
EXTENDS Integers, Sequences, FiniteSetsExt

EpsilonLabel == [kind |-> "Epsilon"]

is_epsilon(label) == label.kind = "Epsilon"

is_start_anchor(label) == label.kind = "Start"

is_end_anchor(label) == label.kind = "End"

consumes_input(label) == label.kind \in {"Char", "CharClass", "Any"}

(* CharClassChar::matches: `ranges` is a set of pairs of letters.          *)
class_matches(class, letter) ==
    (\E r \in class.ranges : letter \in r[1] .. r[2]) # class.negated

label_matches(label, letter) ==
    \/ label.kind = "Char" /\ label.letter = letter
    \/ label.kind = "CharClass" /\ class_matches(label, letter)
    \/ label.kind = "Any"

transitions_from(nfa, states) == {t \in nfa.trans : t.from \in states}

(* The states reached from `states` along the given transitions.           *)
Reach(nfa, states, followed) ==
    FoldSet(LAMBDA i, S : S \cup {t.to : t \in {u \in followed : u.from \in S}},
            states, 1 .. nfa.size)

SilentTransitions(nfa) == {t \in nfa.trans : is_epsilon(t.label)}

epsilon_closure(nfa, states) == Reach(nfa, states, SilentTransitions(nfa))

position_anchor_closure(nfa, states, anchors) ==
    Reach(nfa, states, SilentTransitions(nfa) \cup anchors)

(* Mutant: start anchors are not looked through.                           *)
EpsilonOnlyStart(nfa) == epsilon_closure(nfa, {nfa.start})

start_anchor_closure(nfa) ==
    position_anchor_closure(nfa, epsilon_closure(nfa, {nfa.start}),
                            {t \in nfa.trans : is_start_anchor(t.label)})

state_set_can_reach_final_through_end_anchors(nfa, states) ==
    position_anchor_closure(nfa, states, {t \in nfa.trans : is_end_anchor(t.label)})
        \cap nfa.finals # {}

(* For the product automaton, which follows no anchor: the start gets an   *)
(* epsilon to whatever lies behind a start anchor, and states from which   *)
(* only end anchors are left become final.                                 *)
normalize_full_string_anchors(nfa) ==
    LET opened == [nfa EXCEPT !.trans = @ \cup
                     {[from |-> nfa.start, label |-> EpsilonLabel, to |-> s] :
                        s \in start_anchor_closure(nfa) \ {nfa.start}}]
    IN  [opened EXCEPT !.finals = @ \cup
           {s \in 0 .. nfa.size - 1 :
              state_set_can_reach_final_through_end_anchors(opened, {s})}]

----------------------------------------------------------------------------
(* The reference: what it means for a text to match, by positions.         *)

(* Pairs of an NFA state and the number of letters read.                   *)
Matches(nfa, text) ==
    LET n == Len(text)
        Step(c) ==
          {<<t.to, c[2]>> : t \in {u \in transitions_from(nfa, {c[1]}) :
             \/ is_epsilon(u.label)
             \/ is_start_anchor(u.label) /\ c[2] = 0
             \/ is_end_anchor(u.label) /\ c[2] = n}}
          \cup
          {<<t.to, c[2] + 1>> : t \in {u \in transitions_from(nfa, {c[1]}) :
             c[2] < n /\ label_matches(u.label, text[c[2] + 1])}}
        reached == FoldSet(LAMBDA i, C : C \cup UNION {Step(c) : c \in C},
                           {<<nfa.start, 0>>}, 1 .. nfa.size * (n + 1))
    IN  \E f \in nfa.finals : <<f, n>> \in reached

=============================================================================
