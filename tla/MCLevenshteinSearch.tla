------------------------ MODULE MCLevenshteinSearch ------------------------
(* LevenshteinSearch for TLC, with a StateId so narrow that ids run out.   *)
EXTENDS LevenshteinSearch

Words(n, letters) == UNION {[1 .. m -> letters] : m \in 0 .. n}

NarrowInstances ==
    [query : Words(3, {1, 2}), max_distance : {1, 2}, algorithm : Algorithms,
     words : {{<<2, 1>>, <<1, 2, 2>>, <<1>>}}]

=============================================================================
