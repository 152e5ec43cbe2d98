----------------------- MODULE MCGeneralizedExpansion -----------------------
(***************************************************************************)
(* Two instances of GeneralizedExpansion.                                  *)
(*                                                                         *)
(* Alias: one word, and operations chosen so that two products of one node *)
(* differ in the widths they may still walk.  While one activation walks   *)
(* widths 2 and 3, another registers the first child only, so the same     *)
(* grandchild is staged twice under different parents.                     *)
(*                                                                         *)
(* Limits: a branching dictionary, ordinary edit operations, and retained  *)
(* limits that are reached.                                                *)
(***************************************************************************)
EXTENDS GeneralizedExpansion

Prefixes(word) == {SubSeq(word, 1, n) : n \in 0 .. Len(word)}

Op(x, y, w, when) == [x |-> x, y |-> y, w |-> w, when |-> when]

AliasWord == <<"a", "b", "c", "d", "e", "f">>
AliasLabels == {AliasWord[i] : i \in DOMAIN AliasWord}
AliasNodes == Prefixes(AliasWord)
AliasEdges(p) == LabelAt(AliasWord, Len(p))
AliasFinal(p) == p = AliasWord
AliasQuery == <<"c", "d", "e">>
AliasOperations ==
    <<Op(3, 2, 0, "any"), Op(3, 2, 1, "any"), Op(1, 1, 0, "any"),
      Op(2, 1, 1, "any"), Op(3, 1, 1, "any")>>

LimitLabels == {"a", "b"}
LimitNodes == Prefixes(<<"a", "b", "a">>) \cup Prefixes(<<"a", "b", "b">>) \cup Prefixes(<<"b", "a">>)
LimitEdges(p) ==
    CASE p = <<>>   -> <<"a", "b">>
      [] p = <<"a">> -> <<"b">>
      [] p = <<"b">> -> <<"a">>
      [] p = <<"a", "b">> -> <<"a", "b">>
      [] OTHER -> <<>>
LimitFinal(p) == p \in {<<"a", "b", "a">>, <<"b", "a">>}
LimitQuery == <<"a", "b">>
LimitOperations ==
    <<Op(1, 1, 0, "equal"), Op(0, 1, 1, "any"), Op(2, 2, 1, "transpose"),
      [x |-> 2, y |-> 1, w |-> 1, when |-> "listed", pairs |-> {<<<<"a", "b">>, <<"a">>>>, <<<<"b", "a">>, <<"b">>>>}],
      Op(1, 1, 2, "any"), Op(1, 1, 0, "equal")>>

=============================================================================
