---------------------------- MODULE ResourceEdges ----------------------------
(***************************************************************************)
(* The edge iterator over a foreign dictionary (bindings.rs).  A node's    *)
(* edges arrive in pages from a callback of another component, which may   *)
(* return an error, claim any count, or hand out labels that are not       *)
(* characters.  next() is infallible: what it cannot accept it records as  *)
(* a fault of the provider and ends the iteration.                         *)
(*                                                                         *)
(* Edges are told apart by position only: "delivered" counts those handed  *)
(* to the caller, and a well-formed page holds the positions from the      *)
(* requested offset on.                                                    *)
(***************************************************************************)
EXTENDS Integers

CONSTANTS
    PageLen,      \* VT_RECOMMENDED_EDGE_BATCH
    MaxEdges,     \* MAX_UNICODE_SCALAR_EDGES
    MaxReport     \* bound: the largest count a provider reports

ASSUME SizesAssumption ==
    /\ PageLen \in Nat \ {0}
    /\ MaxEdges \in Nat
    /\ MaxReport \in Nat

VARIABLES
    offset,     \* edges received in accepted pages
    total,      \* the count the provider committed to, NoTotal before
    index,      \* next entry of the current page
    written,    \* entries of the current page
    done,
    faulted,    \* history: a fault was recorded
    announced,  \* history: the count of the first accepted page
    delivered,  \* history: edges handed to the caller
    callbacks   \* history: node_edges calls made

vars == <<offset, total, index, written, done, faulted, announced, delivered, callbacks>>

NoTotal == -1

Reports == 0 .. MaxReport

Init ==
    /\ offset = 0
    /\ total = NoTotal
    /\ index = 0
    /\ written = 0
    /\ done = FALSE
    /\ faulted = FALSE
    /\ announced = NoTotal
    /\ delivered = 0
    /\ callbacks = 0

FailOpen == faulted' = TRUE /\ UNCHANGED <<done, delivered>>  \* mutant: goes on

(* self.done = true; return self.node.fail(..): a fault, and no edge.      *)
Fail == done' = TRUE /\ faulted' = TRUE /\ UNCHANGED delivered

(* The entry at i, whose label may turn out not to be a character.         *)
Deliver(i) ==
    /\ index' = i + 1
    /\ \/ delivered' = delivered + 1 /\ UNCHANGED <<done, faulted>>
       \/ Fail

(* next() on an iterator that has ended.                                   *)
NextEnded == done /\ UNCHANGED vars

(* next() within the current page.                                         *)
NextInPage ==
    /\ ~ done
    /\ index < written
    /\ Deliver(index)
    /\ UNCHANGED <<offset, total, written, announced, callbacks>>

PageConsumed == ~ done /\ index = written

(* next() after the last page.                                             *)
NextAtEnd ==
    /\ PageConsumed
    /\ total = offset
    /\ done' = TRUE
    /\ UNCHANGED <<offset, total, index, written, faulted, announced, delivered, callbacks>>

CallProvider ==
    /\ PageConsumed
    /\ total # offset
    /\ callbacks' = callbacks + 1

(* The callback returns an error status.                                   *)
NextRefused ==
    /\ CallProvider
    /\ Fail
    /\ UNCHANGED <<offset, total, index, written, announced>>

AcceptableUncapped(w, n) ==  \* mutant: the ceiling is not checked
    /\ w <= PageLen
    /\ offset + w <= n
    /\ w = 0 => offset = n
    /\ total \in {NoTotal, n}

AcceptableAnew(w, n) ==  \* mutant: the count may change between pages
    /\ n <= MaxEdges
    /\ w <= PageLen
    /\ offset + w <= n
    /\ w = 0 => offset = n

AcceptableOversized(w, n) ==  \* mutant: the page's capacity is not checked
    /\ n <= MaxEdges
    /\ offset + w <= n
    /\ w = 0 => offset = n
    /\ total \in {NoTotal, n}

(* What next() accepts of a page of w entries and a count of n.            *)
Acceptable(w, n) ==
    /\ n <= MaxEdges
    /\ w <= PageLen
    /\ offset + w <= n
    /\ w = 0 => offset = n
    /\ total \in {NoTotal, n}

(* The callback succeeds but its counts are too large or inconsistent.     *)
NextMalformed(w, n) ==
    /\ CallProvider
    /\ ~ Acceptable(w, n)
    /\ Fail
    /\ UNCHANGED <<offset, total, index, written, announced>>

(* Mutant: the position in the page is not reset.                          *)
NextPageOldIndex(w, n) ==
    /\ CallProvider
    /\ Acceptable(w, n)
    /\ total' = n
    /\ offset' = offset + w
    /\ written' = w
    /\ announced' = IF announced = NoTotal THEN n ELSE announced
    /\ IF w = 0 THEN index' = 0 /\ done' = TRUE /\ UNCHANGED <<faulted, delivered>>
       ELSE Deliver(index)

(* A page: an empty one ends the iteration, another yields its first edge. *)
NextPage(w, n) ==
    /\ CallProvider
    /\ Acceptable(w, n)
    /\ total' = n
    /\ offset' = offset + w
    /\ written' = w
    /\ announced' = IF announced = NoTotal THEN n ELSE announced
    /\ IF w = 0 THEN index' = 0 /\ done' = TRUE /\ UNCHANGED <<faulted, delivered>>
       ELSE Deliver(0)

next ==
    \/ NextInPage
    \/ NextAtEnd
    \/ NextRefused
    \/ \E w, n \in Reports : NextMalformed(w, n) \/ NextPage(w, n)

Next == next \/ NextEnded

Spec == Init /\ [][Next]_vars

----------------------------------------------------------------------------

(* Types, with the ceiling on edge counts (MAX_UNICODE_SCALAR_EDGES).      *)
TypeOK ==
    /\ offset \in 0 .. MaxEdges
    /\ total \in 0 .. MaxEdges \cup {NoTotal}
    /\ index \in Nat
    /\ written \in Nat
    /\ done \in BOOLEAN
    /\ faulted \in BOOLEAN
    /\ announced \in Nat \cup {NoTotal}
    /\ delivered \in Nat
    /\ callbacks \in Nat

(* The page buffer is never read past what the provider wrote into it, nor *)
(* past its capacity, whatever counts it reports (self.page[self.index]).  *)
PageInBounds == index <= written /\ written <= PageLen

(* Edges come out once each and in order: those delivered are the ones     *)
(* received, less the rest of the page.                                    *)
NoGapNoRepeat == ~ faulted => delivered = offset - (written - index)

(* A node is never silently truncated: the iteration ends with all the     *)
(* edges the provider first announced, or with a recorded fault that keeps *)
(* the expansion from being published.                                     *)
CompleteOrFault == done /\ ~ faulted => delivered = announced

(* Tiny pages cannot make the traversal unbounded: every accepted page but *)
(* an empty last one brings an edge, up to one per Unicode scalar (comment *)
(* at bindings.rs:453).                                                    *)
CallbacksBounded == callbacks <= offset + 1

=============================================================================
