----------------------------- MODULE FzfRanking -----------------------------
(***************************************************************************)
(* duallity_fzf_rank_ref (ffi/fzf.rs): a depth-first walk over a captured  *)
(* dictionary that keeps the best top_k terms, with FzfScorer              *)
(* (fzf_scorer.rs) as its pruner.  The scorer keeps one DP column per      *)
(* letter of the prefix and the best top_k scores so far; the walk keeps   *)
(* the hits themselves.  A provider may yield edges in any order.          *)
(***************************************************************************)
EXTENDS FzfCore

CONSTANTS
    Requests,    \* [query, ..., top_k, max_query_chars, max_candidate_chars,
                 \*  max_work_units, words]
    Extensions   \* continuations of a prefix, for the upper bound

VARIABLES
    request,     \* the request under examination, its query folded
    stack,       \* WalkEvents, the next one last: [event, unit, depth]
    prefix,      \* letters entered and not left
    columns,     \* FzfScorer.columns
    top_scores,  \* FzfScorer.top_scores, least first
    heap,        \* the hits kept, [term, score]
    work,        \* edges enumerated
    stats,       \* FzfStats
    outcome      \* "new", "walking", or the result: "ranked", "limit", "rejected"

vars == <<request, stack, prefix, columns, top_scores, heap, work, stats, outcome>>

column == Last(columns)

ChildLabels(path) ==
    {w[Len(path) + 1] : w \in {v \in request.words : IsStrictPrefix(path, v)}}

----------------------------------------------------------------------------
(* FzfScorer                                                               *)

(* The kth best score, once there are k.                                   *)
cutoff == {top_scores[i] : i \in {j \in DOMAIN top_scores :
             j = 1 /\ request.top_k > 0 /\ Len(top_scores) = request.top_k}}

observe_score(score) ==
    LET scores == SortSeq(Append(top_scores, score), <)
    IN  IF request.top_k = 0 THEN top_scores
        ELSE IF Len(scores) > request.top_k THEN Tail(scores) ELSE scores

score_can_survive(bound) == \E upper \in bound : \A threshold \in cutoff : upper >= threshold

(* PrefixPruner::enter pushes the column whatever it answers.              *)
Entered(unit) == advance(request, column, unit)

TooLong(depth) == depth > request.max_candidate_chars

enter_allows(unit, depth) ==
    ~ TooLong(depth) /\ score_can_survive(upper_bound(request, Entered(unit)))

CountEntry(unit, depth) ==
    [stats EXCEPT
       !.columns_computed = @ + 1,
       !.length_pruned = @ + (IF TooLong(depth) THEN 1 ELSE 0),
       !.bounds_computed = @ + (IF TooLong(depth) THEN 0 ELSE 1),
       !.score_pruned = @ + (IF ~ TooLong(depth) /\ ~ enter_allows(unit, depth) THEN 1 ELSE 0)]

----------------------------------------------------------------------------
(* The walk                                                                *)

(* RankedHit::cmp: the higher score, then the smaller term.                *)
RECURSIVE TermBefore(_, _)

TermBefore(s, t) ==
    IF s = <<>> \/ t = <<>> THEN s = <<>> /\ t # <<>>
    ELSE IF s[1] # t[1] THEN s[1] < t[1] ELSE TermBefore(Tail(s), Tail(t))

Outranks(g, h) == g.score > h.score \/ (g.score = h.score /\ TermBefore(g.term, h.term))

Worst(hits) == CHOOSE h \in hits : \A g \in hits \ {h} : Outranks(g, h)

(* Mutant: of equal scores the first one found stays.                      *)
KeepFirstOfEqual(hit) ==
    IF Cardinality(heap) < request.top_k THEN heap \cup {hit}
    ELSE IF hit.score > Worst(heap).score THEN (heap \ {Worst(heap)}) \cup {hit}
    ELSE heap

Retain(hit) ==
    IF Cardinality(heap) < request.top_k THEN heap \cup {hit}
    ELSE IF Outranks(hit, Worst(heap)) THEN (heap \ {Worst(heap)}) \cup {hit}
    ELSE heap

(* A word is observed and retained if the scorer permits it.               *)
Accept(path, col, counted) ==
    LET score == {s \in col.best_full_score : path \in request.words}
    IN  /\ top_scores' = IF score = {} THEN top_scores ELSE observe_score(Max(score))
        /\ heap' = IF score = {} THEN heap ELSE Retain([term |-> path, score |-> Max(score)])
        /\ stats' = [counted EXCEPT !.candidates_scored = @ + Cardinality(score)]

(* Mutant: the children of a node are counted, not those walked so far.    *)
PushWithinFreshBudget(path, below) ==
    LET labels == ChildLabels(path)
    IN  IF Cardinality(labels) > request.max_work_units
        THEN outcome' = "limit" /\ stack' = below /\ UNCHANGED work
        ELSE /\ \E order \in SetToSeqs(labels) :
                   stack' = below \o [i \in DOMAIN order |->
                              [event |-> "Enter", unit |-> order[i], depth |-> Len(path) + 1]]
             /\ work' = work + Cardinality(labels)
             /\ outcome' = "walking"

(* Behind `path`: the children, in the order the provider yields them.  An *)
(* edge beyond the limit ends the call, and nothing is returned.           *)
push_children(path, below) ==
    LET labels == ChildLabels(path)
    IN  IF work + Cardinality(labels) > request.max_work_units
        THEN outcome' = "limit" /\ stack' = below /\ UNCHANGED work
        ELSE /\ \E order \in SetToSeqs(labels) :
                   stack' = below \o [i \in DOMAIN order |->
                              [event |-> "Enter", unit |-> order[i], depth |-> Len(path) + 1]]
             /\ work' = work + Cardinality(labels)
             /\ outcome' = "walking"

Init ==
    /\ request \in {Core(r) : r \in Requests}
    /\ stack = <<>> /\ prefix = <<>> /\ work = 0
    /\ columns = <<initial_column(request)>>
    /\ top_scores = <<>> /\ heap = {}
    /\ stats = [columns_computed |-> 0, candidates_scored |-> 0, length_pruned |-> 0,
                bounds_computed |-> 0, score_pruned |-> 0]
    /\ outcome = "new"

(* ranked wants at least one hit, FzfScorer a query that is short enough.  *)
Permitted == request.top_k > 0 /\ Len(request.query) <= request.max_query_chars

Reject ==
    /\ outcome = "new" /\ ~ Permitted
    /\ outcome' = "rejected"
    /\ UNCHANGED <<request, stack, prefix, columns, top_scores, heap, work, stats>>

VisitRoot ==
    /\ outcome = "new" /\ Permitted
    /\ Accept(<<>>, column, stats)
    /\ push_children(<<>>, <<>>)
    /\ UNCHANGED <<request, prefix, columns>>

NextEvent(kind) == outcome = "walking" /\ stack # <<>> /\ Last(stack).event = kind

(* Mutant: the column of a pruned prefix stays.                            *)
SkipWithoutLeaving ==
    /\ NextEvent("Enter")
    /\ ~ enter_allows(Last(stack).unit, Last(stack).depth)
    /\ stats' = CountEntry(Last(stack).unit, Last(stack).depth)
    /\ stack' = Front(stack)
    /\ columns' = Append(columns, Entered(Last(stack).unit))
    /\ UNCHANGED <<request, prefix, top_scores, heap, work, outcome>>

(* Entered and left at once.                                               *)
PrunePrefix ==
    /\ NextEvent("Enter")
    /\ ~ enter_allows(Last(stack).unit, Last(stack).depth)
    /\ stats' = CountEntry(Last(stack).unit, Last(stack).depth)
    /\ stack' = Front(stack)
    /\ UNCHANGED <<request, prefix, columns, top_scores, heap, work, outcome>>

EnterPrefix ==
    /\ NextEvent("Enter")
    /\ LET e    == Last(stack)
           path == Append(prefix, e.unit)
       IN  /\ enter_allows(e.unit, e.depth)
           /\ columns' = Append(columns, Entered(e.unit))
           /\ prefix' = path
           /\ Accept(path, Entered(e.unit), CountEntry(e.unit, e.depth))
           /\ push_children(path, Append(Front(stack), [e EXCEPT !.event = "Leave"]))
    /\ UNCHANGED request

LeavePrefix ==
    /\ NextEvent("Leave")
    /\ stack' = Front(stack)
    /\ columns' = Front(columns)
    /\ prefix' = Front(prefix)
    /\ UNCHANGED <<request, top_scores, heap, work, stats, outcome>>

Publish ==
    /\ outcome = "walking" /\ stack = <<>>
    /\ outcome' = "ranked"
    /\ UNCHANGED <<request, stack, prefix, columns, top_scores, heap, work, stats>>

Next == Reject \/ VisitRoot \/ PrunePrefix \/ EnterPrefix \/ LeavePrefix \/ Publish

Spec == Init /\ [][Next]_vars

----------------------------------------------------------------------------
(* What a ranking promises                                                 *)

TypeOK ==
    /\ outcome \in {"new", "walking", "ranked", "limit", "rejected"}
    /\ \A i \in DOMAIN stack : stack[i].event \in {"Enter", "Leave"} /\ stack[i].depth \in Nat
    /\ \A h \in heap : h.term \in request.words /\ h.score \in Nat
    /\ work \in Nat /\ Len(columns) > 0

(* The hits of a request: every word that matches and is short enough,     *)
(* without those that top_k others outrank.                                *)
Candidates ==
    {[term |-> w, score |-> Max(score_chars(request, w))] :
       w \in {v \in request.words : Len(v) <= request.max_candidate_chars
                                    /\ score_chars(request, v) # {}}}

(* A ranking is exact, the tie at its end included, whatever the order of  *)
(* the edges and whatever the score bound has pruned (ranked, enter).      *)
RankingExact ==
    outcome = "ranked" =>
      heap = {h \in Candidates :
                Cardinality({g \in Candidates : Outranks(g, h)}) < request.top_k}

(* The DP columns belong to the letters of the prefix, no matter which     *)
(* prefixes were pruned before (enter and leave are always paired).        *)
ColumnsMatchPrefix ==
    /\ Len(columns) = Len(prefix) + 1
    /\ \A i \in DOMAIN columns : columns[i] = ColumnOf(request, SubSeq(prefix, 1, i - 1))

(* No continuation of the prefix that fits the candidate budget scores     *)
(* more than current_upper_bound says, words of this dictionary or not.    *)
BoundSound ==
    Permitted =>
      \A more \in {e \in Extensions : Len(prefix \o e) <= request.max_candidate_chars} :
         LET reached == ColumnOf(request, prefix \o more).best_full_score
         IN  reached # {} => \E upper \in upper_bound(request, column) : Max(reached) <= upper

(* Every edge paid for is entered exactly once, pruned for one reason or   *)
(* scored, and the walk never pays for more than max_work_units; a call    *)
(* that gives up had more edges than that to walk.                         *)
Edges == UNION {{SubSeq(w, 1, i) : i \in DOMAIN w} : w \in request.words}

WorkAccounted ==
    /\ TypeOK
    /\ work <= request.max_work_units
    /\ work = stats.columns_computed
               + Cardinality({i \in DOMAIN stack : stack[i].event = "Enter"})
    /\ stats.columns_computed = stats.length_pruned + stats.bounds_computed
    /\ stats.score_pruned + stats.candidates_scored <= stats.bounds_computed + 1
    /\ outcome = "limit" => Cardinality(Edges) > request.max_work_units

=============================================================================
