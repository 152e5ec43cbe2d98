------------------------------- MODULE FzfCore -------------------------------
(***************************************************************************)
(* The score of fzf's FuzzyMatchV2, one candidate letter at a time         *)
(* (fzf_support.rs).  A letter is a natural, so that terms can be ordered; *)
(* CharKind and CharFold give what Unicode says of it.  Scores stay far    *)
(* below the width of an i32: a query has at most 1,000 letters.           *)
(*                                                                         *)
(* A core is [query, case_sensitive, scheme, top_k, max_candidate_chars].  *)
(* An absent score is the empty set.                                       *)
(***************************************************************************)
EXTENDS Integers, Sequences, SequencesExt, FiniteSets, FiniteSetsExt

CONSTANTS
    CharKind,   \* letter -> lower, upper, number, letter, white, slash, comma, other
    CharFold    \* letter -> the letter in lower case

SCORE_MATCH == 16

BONUS_BOUNDARY == 8

BONUS_CAMEL_123 == 7

BONUS_CONSECUTIVE == 4

(* SCORE_GAP_START, then SCORE_GAP_EXTENSION                               *)
GapPenalty(cell) == IF cell.in_gap THEN 1 ELSE 3

comparable_char(letter, case_sensitive) ==
    IF case_sensitive THEN letter ELSE CharFold[letter]

(* FzfCore::new folds the query.                                           *)
Core(config) ==
    [config EXCEPT !.query =
       [i \in DOMAIN config.query |-> comparable_char(config.query[i], config.case_sensitive)]]

----------------------------------------------------------------------------
(* Character classes and the bonus of a position.                          *)

initial_class(core) == IF core.scheme = "Path" THEN "Delimiter" ELSE "White"

classify(core, letter) ==
    CASE CharKind[letter] = "lower"  -> "Lower"
      [] CharKind[letter] = "upper"  -> "Upper"
      [] CharKind[letter] = "number" -> "Number"
      [] CharKind[letter] = "letter" -> "Letter"
      [] CharKind[letter] = "white"  -> "White"
      [] CharKind[letter] = "slash"  -> "Delimiter"
      [] CharKind[letter] = "comma"  -> IF core.scheme = "Path" THEN "NonWord" ELSE "Delimiter"
      [] CharKind[letter] = "other"  -> "NonWord"

WhiteBonus(core) == IF core.scheme = "Default" THEN BONUS_BOUNDARY + 2 ELSE BONUS_BOUNDARY

DelimiterBonus(core) == IF core.scheme = "History" THEN BONUS_BOUNDARY ELSE BONUS_BOUNDARY + 1

(* Behind something that is no word.                                       *)
AfterBreak(core, previous) ==
    CASE previous = "White"     -> WhiteBonus(core)
      [] previous = "Delimiter" -> DelimiterBonus(core)
      [] previous = "NonWord"   -> BONUS_BOUNDARY

bonus_for(core, previous, current) ==
    IF current # "White" /\ previous \in {"White", "Delimiter", "NonWord"}
    THEN AfterBreak(core, previous)
    ELSE IF \/ previous = "Lower" /\ current = "Upper"
            \/ previous # "Number" /\ current = "Number" THEN BONUS_CAMEL_123
    ELSE CASE current \in {"NonWord", "Delimiter"} -> BONUS_BOUNDARY
           [] current = "White" -> WhiteBonus(core)
           [] OTHER -> 0

max_bonus(core) ==
    CASE core.scheme = "Default" -> BONUS_BOUNDARY + 2
      [] core.scheme = "Path"    -> BONUS_BOUNDARY + 1
      [] core.scheme = "History" -> BONUS_BOUNDARY

----------------------------------------------------------------------------
(* The DP column of a candidate prefix: one cell per query letter.         *)

NoCell ==
    [score |-> 0, consecutive |-> 0, first_bonus |-> 0, in_gap |-> FALSE, reachable |-> FALSE]

initial_column(core) ==
    [cells |-> [q \in DOMAIN core.query |-> NoCell], previous_class |-> initial_class(core),
     depth |-> 0, best_full_score |-> {s \in {0} : core.query = <<>>}]

InGap(score) ==
    [score |-> Max({score, 0}), consecutive |-> 0, first_bonus |-> 0, in_gap |-> TRUE,
     reachable |-> TRUE]

(* The first query letter starts afresh at every match.                    *)
FirstCell(left, matches, bonus) ==
    IF matches
    THEN [score |-> SCORE_MATCH + 2 * bonus, consecutive |-> 1, first_bonus |-> bonus,
          in_gap |-> FALSE, reachable |-> TRUE]
    ELSE IF left.reachable THEN InGap(left.score - GapPenalty(left))
    ELSE NoCell

(* A further letter continues the run of its diagonal neighbour, unless a  *)
(* better boundary starts a run of its own.                                *)
MatchCell(diagonal, bonus) ==
    LET restart == \/ diagonal.consecutive = 0
                   \/ bonus >= BONUS_BOUNDARY /\ bonus > diagonal.first_bonus
        applied == IF restart THEN bonus
                   ELSE Max({bonus, BONUS_CONSECUTIVE, diagonal.first_bonus})
    IN  [score       |-> diagonal.score + SCORE_MATCH + applied,
         consecutive |-> IF restart THEN 1 ELSE diagonal.consecutive + 1,
         first_bonus |-> IF restart THEN bonus ELSE diagonal.first_bonus,
         in_gap      |-> FALSE, reachable |-> TRUE]

FurtherCell(left, diagonal, matches, bonus) ==
    LET gap == left.score - GapPenalty(left)
        hit == MatchCell(diagonal, bonus)
    IN  IF matches /\ diagonal.reachable /\ (left.reachable => hit.score >= gap) THEN hit
        ELSE IF left.reachable THEN InGap(gap)
        ELSE NoCell

Best(scores) == IF scores = {} THEN {} ELSE {Max(scores)}

advance(core, column, letter) ==
    LET class     == classify(core, letter)
        bonus     == bonus_for(core, column.previous_class, class)
        matches(q) == comparable_char(letter, core.case_sensitive) = core.query[q]
        cells     == [q \in DOMAIN core.query |->
                        IF q = 1 THEN FirstCell(column.cells[1], matches(1), bonus)
                        ELSE FurtherCell(column.cells[q], column.cells[q - 1], matches(q), bonus)]
    IN  [cells |-> cells, previous_class |-> class, depth |-> column.depth + 1,
         best_full_score |->
            Best(column.best_full_score \cup
                 {cells[q].score : q \in {p \in DOMAIN cells :
                                            p = Len(cells) /\ cells[p].reachable}})]

ColumnOf(core, word) ==
    FoldLeft(LAMBDA column, letter : advance(core, column, letter), initial_column(core), word)

(* score_chars of a candidate within the length limit.                     *)
score_chars(core, word) == ColumnOf(core, word).best_full_score

----------------------------------------------------------------------------
(* What any extension of a prefix can still score.                         *)

maximum_score(core) ==
    IF core.query = <<>> THEN 0
    ELSE SCORE_MATCH + 2 * max_bonus(core)
           + (Len(core.query) - 1) * (SCORE_MATCH + max_bonus(core))

(* Mutant: an alignment that has not started is forgotten.                 *)
StartedOnly(core, column) ==
    LET available == core.max_candidate_chars - column.depth
        remaining(q) == Len(core.query) - q
    IN  Best(column.best_full_score
             \cup {column.cells[q].score + remaining(q) * (SCORE_MATCH + max_bonus(core)) :
                     q \in {p \in DOMAIN column.cells :
                              column.cells[p].reachable /\ remaining(p) <= available}})

upper_bound(core, column) ==
    LET available == Max({0, core.max_candidate_chars - column.depth})
        remaining(q) == Len(core.query) - q
    IN  Best(column.best_full_score
             \cup {column.cells[q].score + remaining(q) * (SCORE_MATCH + max_bonus(core)) :
                     q \in {p \in DOMAIN column.cells :
                              column.cells[p].reachable /\ remaining(p) <= available}}
             \cup {s \in {maximum_score(core)} : Len(core.query) <= available})

=============================================================================
