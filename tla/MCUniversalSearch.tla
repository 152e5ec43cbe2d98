------------------------- MODULE MCUniversalSearch -------------------------
(* UniversalSearch for TLC.                                                *)
EXTENDS UniversalSearch

(* 288 words of four letters, against a query of six.                      *)
RadixInstances ==
    [query : {<<1, 2, 3, 4, 5, 6>>}, max_distance : {3},
     words : {(1 .. 2) \X (1 .. 4) \X (1 .. 6) \X (1 .. 6)}]

=============================================================================
