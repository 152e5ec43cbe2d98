---------------------------- MODULE MCFzfRanking ----------------------------
(* Letters 1 to 5 stand for a, b, B, / and the blank, in an order in which *)
(* terms compare.  The requests reach every scheme, both ways to compare   *)
(* case, a tie at the end of the ranking, a term that is too long, an      *)
(* empty query and a dictionary that exceeds the work limit.               *)
EXTENDS FzfRanking

KindOf == <<"lower", "lower", "upper", "slash", "white">>

FoldOf == <<1, 2, 2, 4, 5>>

Dictionary ==
    {<<1>>, <<2, 1>>, <<1, 2>>, <<1, 3>>, <<2, 4, 1>>, <<4, 1, 2>>, <<1, 5, 2>>, <<2, 1, 2, 2>>}

Request(query, scheme, top_k) ==
    [query |-> query, case_sensitive |-> FALSE, scheme |-> scheme, top_k |-> top_k,
     max_query_chars |-> 2, max_candidate_chars |-> 3, max_work_units |-> 30,
     words |-> Dictionary]

SmallRequests ==
    {Request(<<1, 2>>, scheme, k) : scheme \in {"Default", "Path", "History"}, k \in {1, 2}}
    \cup {Request(<<1>>, "Default", 1), Request(<<3>>, "Path", 2)}
    \cup {[Request(<<1, 3>>, "Default", 1) EXCEPT !.case_sensitive = TRUE]}
    \cup {[Request(<<1, 2>>, "Default", 1) EXCEPT !.max_candidate_chars = 4, !.top_k = 3]}
    \cup {[Request(<<>>, "Path", 1) EXCEPT !.words = {<<>>, <<1>>}]}
    \cup {[Request(<<1>>, "Path", 1) EXCEPT !.max_work_units = n] : n \in {3, 9}}
    \cup {Request(<<1>>, "Path", 0), Request(<<1, 2, 1>>, "Path", 1)}

SmallExtensions == UNION {[1..n -> 1..5] : n \in 0..2}
=============================================================================
