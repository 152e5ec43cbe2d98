---------------------------- MODULE NodeRegistry ----------------------------
(***************************************************************************)
(* DictionaryNodeRegistry (node_registry.rs), which the state sources of   *)
(* one WFST share: it gives each dictionary node they meet a dense id,     *)
(* found again by the parent's id and the edge label.                      *)
(*                                                                         *)
(* A dictionary is its set of words, a node the path that leads to it, and *)
(* a letter a natural.                                                     *)
(***************************************************************************)
EXTENDS StateCodec, Sequences, SequencesExt, FiniteSets

CONSTANT Epsilon   \* the absent label of an arc

(* Dictionary and DictionaryNode of libdictenstein.                        *)

EdgeLabels(words, node) ==
    {w[Len(node) + 1] : w \in {v \in words : IsStrictPrefix(node, v)}}

(* edges(): the labels in the order the node yields them.                  *)
edges(words, node) == SetToSortSeq(EdgeLabels(words, node), LAMBDA l, m : l < m)

----------------------------------------------------------------------------
(* Entry i + 1 of a registry is node id i.                                 *)

NodeKey(parent, label) == [parent |-> parent, label |-> label]

RootEntry == [key |-> [parent |-> 0, label |-> Epsilon], node |-> <<>>]

NodeIds(reg) == 0 .. Len(reg) - 1

get_node(reg, id) == reg[id + 1].node

get_id(reg, key) == {id \in NodeIds(reg) : reg[id + 1].key = key}

candidate_id(reg, key) ==
    IF get_id(reg, key) # {} THEN get_id(reg, key)
    ELSE {id \in {Len(reg)} : id <= MaxU32}

(* Mutant: the key is not looked up first.                                 *)
RegisterAgain(reg, node, key) == Append(reg, [key |-> key, node |-> node])

register_node(reg, node, key) ==
    IF get_id(reg, key) # {} THEN reg
    ELSE Append(reg, [key |-> key, node |-> node])

=============================================================================
