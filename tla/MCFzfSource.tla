---------------------------- MODULE MCFzfSource -----------------------------
(* FzfSource for TLC: a limit of two characters, and a longer word.        *)
EXTENDS FzfSource

KindOf == <<"lower", "lower">>

FoldOf == <<1, 2>>

LimitedInstances ==
    [query : {<<1, 2>>}, scheme : {"Default"}, case_sensitive : {FALSE}, top_k : {0},
     max_query_chars : {2}, max_candidate_chars : {2}, words : {{<<1, 2>>, <<1, 1, 2>>}}]

=============================================================================
