----------------------------- MODULE MCCharWfst -----------------------------
(* CharWfst for TLC, with StateIds so narrow that ids run out.             *)
EXTENDS CharWfst, TLC

(* Levenshtein: widths 6, 12, 18 and 24 against 41 ids, so that a node's   *)
(* last states may fit only in part; the longest query saturates the width *)
(* itself (48).  Universal: widths 27 and 12 against 31 ids, and one that  *)
(* saturates.  Phonetic: widths 6 and 8 against 21 ids.  Fzf: 6 ids.       *)
Limits == [levenshtein |-> 40, universal |-> 30, phonetic |-> 20, fzf |-> 5]

NarrowLevenshtein ==
    [query : {<<1, 2>>}, max_distance : {1}, algorithm : [transposition : BOOLEAN, merge_split : BOOLEAN],
     words : {{<<2, 1>>, <<1, 2, 2>>, <<1>>}}]
    \cup
    [query : {<<1, 2, 1, 1, 2>>}, max_distance : {1},
     algorithm : {[transposition |-> TRUE, merge_split |-> TRUE]},
     words : {{<<2, 1>>, <<1>>}}]

NarrowUniversal ==
    [query : {<<1, 2>>, <<1>>, <<1, 2, 1>>}, max_distance : {1},
     words : {{<<1>>, <<2, 1>>, <<2, 2>>}}]

Symmetry == Permutations(Threads)

Arrow(from, label, to) == [from |-> from, label |-> label, to |-> to]

Silent == [kind |-> "Epsilon"]

Letter(c) == [kind |-> "Char", letter |-> c]

(* (1|32)2*, and (^1|2)*3?$                                                *)
Patterns ==
    {[size |-> 5, start |-> 0, finals |-> {4},
      trans |-> {Arrow(0, Silent, 1), Arrow(1, Letter(1), 3), Arrow(1, Letter(3), 2),
                 Arrow(2, Letter(2), 3), Arrow(3, Silent, 4), Arrow(4, Letter(2), 4)}],
     [size |-> 6, start |-> 0, finals |-> {5},
      trans |-> {Arrow(0, Silent, 1), Arrow(1, [kind |-> "Start"], 2),
                 Arrow(2, Letter(1), 1), Arrow(1, Letter(2), 1), Arrow(1, Silent, 3),
                 Arrow(3, Letter(3), 4), Arrow(3, Silent, 4), Arrow(4, [kind |-> "End"], 5)}]}

NarrowPhonetic ==
    [nfa : Patterns, max_distance : 0 .. 1, words : {{<<1, 2>>, <<2, 1>>, <<2, 2>>}}]

(* Letters a, b and B, a slash and a space; "bB" and "aB/" share nodes.    *)
KindOf == <<"lower", "lower", "upper", "slash", "white">>

FoldOf == <<1, 2, 2, 4, 5>>

NarrowFzf ==
    [query : {<<1, 2>>}, scheme : {"Default", "Path", "History"}, case_sensitive : {FALSE},
     top_k : {0}, max_query_chars : {2}, max_candidate_chars : {3},
     words : {{<<1, 2>>, <<2, 2>>, <<4, 1, 2>>, <<1, 2, 4>>, <<2, 2, 4>>}}]

=============================================================================
