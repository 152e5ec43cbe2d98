------------------------------- MODULE MCCApi -------------------------------
(* CApi for TLC: requests that every check of parse_options tells apart.   *)
EXTENDS CApi, TLC

Request(kind, algorithm, distance, selector, capacity, limits, operations) ==
    [kind |-> kind, algorithm |-> algorithm, distance |-> distance, selector |-> selector,
     capacity |-> capacity, limits |-> limits, operations |-> operations]

Op(x, y, weight, applicability, restrictions) ==
    [consume_x |-> x, consume_y |-> y, weight |-> weight, applicability |-> applicability,
     restrictions |-> restrictions]

Pair(source, target) == [source |-> source, target |-> target]

SomeLimits(nodes) == {[nodes |-> nodes, states |-> 1]}

(* A match, and a listed digraph one of whose pairs is given twice.        *)
Custom ==
    <<Op(1, 1, 0, 1, <<>>),
      Op(2, 1, 1, 3, <<Pair(<<"p", "h">>, <<"f">>), Pair(<<"c", "k">>, <<"k">>),
                       Pair(<<"p", "h">>, <<"f">>)>>)>>

(* A listed pair of another arity than its operation.                      *)
Miscounted == <<Op(1, 1, 1, 3, <<Pair(<<"p", "h">>, <<"f">>)>>)>>

SomeRequests ==
    {Request("Levenshtein", 3, 300, 2, 0, {}, <<>>),
     Request("Universal", 0, 300, 1, 1, {}, <<>>),
     Request("Generalized", 0, 1, 2, 1, SomeLimits(1), Custom),
     Request("Generalized", 0, 1, 0, 0, {}, Miscounted),
     Request("Generalized", 0, 1, 0, 0, SomeLimits(0), <<>>),
     Request("Fzf", 2, 1, 0, 0, {}, <<>>),
     Request("Unknown", 0, 0, 0, 0, {}, <<>>)}

SomeFzf ==
    {[fzf |-> "custom", selector |-> 2, capacity |-> 0],
     [fzf |-> "custom", selector |-> 0, capacity |-> 1]}

Symmetry == Permutations(Statuses)

SomePolicies == {Lru(0), [selector |-> 1, capacity |-> 1]}

=============================================================================
