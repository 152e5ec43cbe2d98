-------------------------- MODULE DictionaryBackend --------------------------
(***************************************************************************)
(* DictionaryBackend: the vocabulary a lattice builds over a dictionary.   *)
(* Words get dense ids as they are interned; a map finds a word's id and a *)
(* sequence an id's word.  The last VocabId is reserved: intern returns it *)
(* when no id is left.                                                     *)
(***************************************************************************)
EXTENDS Integers, Sequences, FiniteSets, SequencesExt

CONSTANTS
    Words,          \* words a caller may intern
    Vocabularies,   \* sequences of terms to begin with
    MaxVocabId      \* VocabId::MAX

VARIABLES
    word_to_id,     \* a partial function
    id_to_word      \* entry i + 1 is id i

vars == <<word_to_id, id_to_word>>

VOCAB_ID_EXHAUSTED == MaxVocabId

next_vocab_id(len) == {id \in {len} : id < VOCAB_ID_EXHAUSTED}

(* The vocabulary with the word in it, if it is known or fits.             *)
try_intern(v, word) ==
    IF word \in DOMAIN v.ids \/ next_vocab_id(Len(v.words)) = {} THEN v
    ELSE [ids   |-> [w \in DOMAIN v.ids \cup {word} |->
                       IF w = word THEN Len(v.words) ELSE v.ids[w]],
          words |-> Append(v.words, word)]

lookup(id) == {id_to_word[i] : i \in DOMAIN id_to_word \cap {id + 1}}

(* with_vocabulary; once an id is missing, none of the later terms fits.   *)
Init ==
    \E terms \in Vocabularies :
       LET v == FoldLeft(try_intern, [ids |-> <<>>, words |-> <<>>], terms)
       IN  word_to_id = v.ids /\ id_to_word = v.words

intern(word) ==
    LET v == try_intern([ids |-> word_to_id, words |-> id_to_word], word)
    IN  word_to_id' = v.ids /\ id_to_word' = v.words

Next == \E word \in Words : intern(word)

Spec == Init /\ [][Next]_vars

----------------------------------------------------------------------------

(* The two directions agree, whatever was repeated or refused: a word with *)
(* an id is found by it, an id belongs to one word, and the id that means  *)
(* "exhausted" to a caller of intern never names a word.                   *)
VocabularyBijective ==
    /\ Cardinality(DOMAIN word_to_id) = Len(id_to_word)
    /\ \A word \in DOMAIN word_to_id : lookup(word_to_id[word]) = {word}
    /\ lookup(VOCAB_ID_EXHAUSTED) = {}

=============================================================================
