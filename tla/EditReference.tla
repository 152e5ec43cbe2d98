--------------------------- MODULE EditReference ---------------------------
(* The edit distance by its recurrence, as the reference for the searches. *)
EXTENDS Integers, Sequences, FiniteSetsExt

(* The reference: the least number of edits that turn q into w.            *)

EditDistance(q, w, algorithm) ==
    LET D[p \in (0 .. Len(q)) \X (0 .. Len(w))] ==
          LET i == p[1]
              j == p[2]
              one(g, di, dj) == IF g /\ i >= di /\ j >= dj
                                THEN {D[<<i - di, j - dj>>] + 1} ELSE {}
              same == i > 0 /\ j > 0 /\ q[i] = w[j]
              swap == i > 1 /\ j > 1 /\ q[i] = w[j - 1] /\ q[i - 1] = w[j]
          IN  IF i = 0 /\ j = 0 THEN 0
              ELSE Min( one(TRUE, 1, 0) \cup one(TRUE, 0, 1) \cup one(TRUE, 1, 1)
                        \cup (IF same THEN {D[<<i - 1, j - 1>>]} ELSE {})
                        \cup one(swap /\ algorithm.transposition, 2, 2)
                        \cup one(algorithm.merge_split, 2, 1)
                        \cup one(algorithm.merge_split, 1, 2) )
    IN  D[<<Len(q), Len(w)>>]

=============================================================================
