---------------------------- MODULE MCStandalone ----------------------------
(* Standalone for TLC, with so few ids that they run out in every kind.    *)
EXTENDS Standalone, TLC

Limits == [nfa |-> 3, rewrite |-> 4, wallbreaker |-> 5, backend |-> 2]

Silent == [kind |-> "Epsilon"]
Char(c) == [kind |-> "Char", letter |-> c]
Class(ranges, negated) == [kind |-> "CharClass", ranges |-> ranges, negated |-> negated]
AnyLabel == [kind |-> "Any"]
StartLabel == [kind |-> "Start"]
EndLabel == [kind |-> "End"]

T(from, label, to) == [from |-> from, label |-> label, to |-> to]

Pattern(size, finals, trans, alphabet) ==
    [nfa |-> [size |-> size, start |-> 0, finals |-> finals, trans |-> trans],
     alphabet |-> alphabet, weight |-> 1]

(* (12|1.)*2 with the loop through the start state.                        *)
Alternation ==
    Pattern(4, {3}, {T(0, Char(1), 1), T(1, Char(2), 0), T(0, Char(1), 2),
                     T(2, AnyLabel, 0), T(0, Char(2), 3)}, <<1, 2, 1>>)

(* (^1|2)*3?$ : a start anchor that a loop reaches again.                  *)
Anchored ==
    Pattern(6, {5}, {T(0, Silent, 1), T(1, StartLabel, 2), T(2, Char(1), 1),
                     T(1, Char(2), 1), T(1, Silent, 3), T(3, Char(3), 4),
                     T(3, Silent, 4), T(4, EndLabel, 5)},
            <<1, 2, 3>>)

(* [1-2][^1][2-9], the last class too wide to enumerate, 1$, and 3 beyond  *)
(* the alphabet: more sets than ids.                                       *)
Classes ==
    Pattern(6, {3, 5}, {T(0, Class({<<1, 2>>}, FALSE), 1), T(1, Class({<<1, 1>>}, TRUE), 2),
                        T(2, Class({<<2, 9>>}, FALSE), 3), T(0, Char(1), 4),
                        T(4, EndLabel, 1), T(2, Char(3), 5)}, <<1, 2>>)

(* The same without the anchored branch.                                   *)
FewClasses ==
    Pattern(4, {3}, {T(0, Class({<<1, 2>>}, FALSE), 1), T(1, Class({<<1, 1>>}, TRUE), 2),
                     T(2, Class({<<2, 9>>}, FALSE), 3), T(2, Char(3), 3)}, <<1, 2>>)

MCPatterns == {Alternation, Anchored, Classes, FewClasses}

MCTexts == UNION {[1 .. n -> 1 .. 3] : n \in 0 .. 3}

Symmetry == Permutations(Threads)

----------------------------------------------------------------------------
Rule(input, output, cost, priority) ==
    [input |-> input, output |-> output, cost |-> cost, priority |-> priority]

(* Letter 3 is not printable.                                              *)
MCRules ==
    {Rule(<<1, 2>>, <<3>>, 1, 0), Rule(<<1>>, <<2, 1, 1>>, 1, 1), Rule(<<2>>, <<2>>, 1, 0),
     Rule(<<>>, <<>>, 1, 0), Rule(<<1>>, <<2>>, 0, 2), Rule(<<1>>, <<2>>, 2, 0),
     Rule(<<1, 2>>, <<>>, -1, 0)}

----------------------------------------------------------------------------
Result(t, d) == [term |-> t, distance |-> d]

Found ==
    {Result(<<>>, 1), Result(<<>>, 2), Result(<<1, 2>>, 2), Result(<<1, 2>>, 0),
     Result(<<1>>, 1), Result(<<1, 1, 2>>, 4), Result(<<2, 1>>, 3)}

MCQueries ==
    [results : UNION {[1 .. n -> Found] : n \in 0 .. 3}, max_distance : {1, 4}]

----------------------------------------------------------------------------
MCVocabularies == {<<>>, <<1, 1>>, <<1, 2, 3, 1>>}

=============================================================================
