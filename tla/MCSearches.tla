----------------------------- MODULE MCSearches -----------------------------
(* Searches for TLC.                                                       *)
EXTENDS Searches

Words(n, letters) == UNION {[1 .. m -> letters] : m \in 0 .. n}

(* The long words lie on both sides of the universal automaton's last      *)
(* precomputed window.                                                     *)
Dictionary ==
    {<<>>, <<1, 2>>, <<2, 1>>, <<3, 1>>, <<1, 2, 1>>, <<2, 1, 1>>, <<1, 3, 2>>,
     <<2, 1, 3, 2>>, <<2, 1, 3, 1>>}

LongWords == {<<2, 1, 3, 1, 1>>, <<3, 1, 2, 1, 3, 2>>}

(* All queries of up to three letters and some longer ones, with every     *)
(* algorithm: every combination of a swap, a merge, a split and an overlap *)
(* of two of them.                                                         *)
LevenshteinQueries ==
    [query : Words(3, {1, 2, 3}), max_distance : {0, 1, 2}, algorithm : Algorithms,
     words : {Dictionary}]
    \cup
    [query : [1 .. 4 -> {1, 2}], max_distance : {1, 2}, algorithm : Algorithms,
     words : {Dictionary}]

UniversalQueries ==
    [query : Words(3, {1, 2, 3}) \cup [1 .. 4 -> {1, 2}], max_distance : 0 .. 3,
     words : {Dictionary \cup LongWords}]

Arrow(from, label, to) == [from |-> from, label |-> label, to |-> to]

Silent == [kind |-> "Epsilon"]

Letter(c) == [kind |-> "Char", letter |-> c]

(* (1|32)2*, and (^1|2)*3?$                                                *)
Patterns ==
    {[size |-> 5, start |-> 0, finals |-> {4},
      trans |-> {Arrow(0, Silent, 1), Arrow(1, Letter(1), 3), Arrow(1, Letter(3), 2),
                 Arrow(2, Letter(2), 3), Arrow(3, Silent, 4), Arrow(4, Letter(2), 4)}],
     [size |-> 6, start |-> 0, finals |-> {5},
      trans |-> {Arrow(0, Silent, 1), Arrow(1, [kind |-> "Start"], 2),
                 Arrow(2, Letter(1), 1), Arrow(1, Letter(2), 1), Arrow(1, Silent, 3),
                 Arrow(3, Letter(3), 4), Arrow(3, Silent, 4), Arrow(4, [kind |-> "End"], 5)}]}

PhoneticWords == {<<>>, <<1>>, <<1, 2>>, <<2, 1, 3>>, <<3, 2, 2>>}

PatternQueries == [nfa : Patterns, max_distance : 0 .. 2, words : {PhoneticWords}]

(* No text of more than the longest word's letters and the distance can be *)
(* within the distance of a word.                                          *)
ShortTexts == Words(5, {1, 2, 3})

=============================================================================
