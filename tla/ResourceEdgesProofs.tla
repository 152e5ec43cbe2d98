------------------------ MODULE ResourceEdgesProofs ------------------------
(***************************************************************************)
(* The edge iterator is sound for every page size, every ceiling and every *)
(* provider: proofs of the invariants of ResourceEdges.                    *)
(***************************************************************************)
EXTENDS ResourceEdges, TLAPS

(* An iteration that ended without a fault received all it was promised;   *)
(* one that goes on has spent at most one callback per edge.               *)
Progress ==
    /\ announced = total
    /\ done /\ ~ faulted => index = written /\ offset = total
    /\ ~ done => callbacks <= offset

IInv == TypeOK /\ PageInBounds /\ NoGapNoRepeat /\ CallbacksBounded /\ Progress

(* A fresh iterator satisfies the inductive invariant.                     *)
LEMMA InitIInv == Init => IInv
<1> SUFFICES ASSUME Init PROVE IInv
  OBVIOUS
<1> USE SizesAssumption DEF Init, NoTotal
<1>1. TypeOK
  <2>1. done \in BOOLEAN /\ faulted \in BOOLEAN
    BY Zenon
  <2> QED
    BY <2>1 DEF TypeOK
<1>2. PageInBounds /\ NoGapNoRepeat /\ CallbacksBounded
  BY DEF PageInBounds, NoGapNoRepeat, CallbacksBounded
<1>3. Progress
  BY DEF Progress
<1> QED
  BY <1>1, <1>2, <1>3 DEF IInv

(* Each kind of next() call keeps it.                                      *)
LEMMA StepIInv == IInv /\ [Next]_vars => IInv'
<1> SUFFICES ASSUME IInv, [Next]_vars PROVE IInv'
  OBVIOUS
<1> USE SizesAssumption
    DEF IInv, TypeOK, PageInBounds, NoGapNoRepeat, CallbacksBounded, Progress, NoTotal
<1>1. CASE NextInPage
  <2>1. CASE delivered' = delivered + 1 /\ UNCHANGED <<done, faulted>>
    BY <1>1, <2>1 DEF NextInPage, Deliver
  <2>2. CASE Fail
    BY <1>1, <2>2 DEF NextInPage, Deliver, Fail
  <2> QED
    BY <1>1, <2>1, <2>2 DEF NextInPage, Deliver
<1>2. CASE NextAtEnd
  BY <1>2 DEF NextAtEnd, PageConsumed
<1>3. CASE NextRefused
  BY <1>3 DEF NextRefused, CallProvider, PageConsumed, Fail
<1>4. ASSUME NEW w \in Reports, NEW n \in Reports, NextMalformed(w, n) PROVE IInv'
  BY <1>4 DEF NextMalformed, CallProvider, PageConsumed, Fail
<1>5. ASSUME NEW w \in Reports, NEW n \in Reports, NextPage(w, n) PROVE IInv'
  <2> w \in Nat /\ n \in Nat
    BY DEF Reports
  <2>1. CASE w = 0
    BY <1>5, <2>1 DEF NextPage, Acceptable, CallProvider, PageConsumed
  <2>2. CASE w # 0 /\ delivered' = delivered + 1 /\ UNCHANGED <<done, faulted>>
    BY <1>5, <2>2 DEF NextPage, Acceptable, CallProvider, PageConsumed, Deliver
  <2>3. CASE w # 0 /\ Fail
    BY <1>5, <2>3 DEF NextPage, Acceptable, CallProvider, PageConsumed, Deliver, Fail
  <2> QED
    BY <1>5, <2>1, <2>2, <2>3 DEF NextPage, Deliver
<1>6. CASE UNCHANGED vars
  BY <1>6 DEF vars
<1> QED
  BY <1>1, <1>2, <1>3, <1>4, <1>5, <1>6 DEF Next, next, NextEnded

(* The inductive invariant is an invariant of the iterator.                *)
LEMMA Invariance == Spec => []IInv
  BY InitIInv, StepIInv, PTL DEF Spec

(* Counts stay within the ceiling of one edge per Unicode scalar.          *)
THEOREM TypeCorrect == Spec => []TypeOK
  BY Invariance, PTL DEF IInv

(* next() never indexes the page beyond what the callback wrote.           *)
THEOREM PageAccessSafe == Spec => []PageInBounds
  BY Invariance, PTL DEF IInv

(* No edge of an accepted page is skipped or handed out twice.             *)
THEOREM EdgesInOrder == Spec => []NoGapNoRepeat
  BY Invariance, PTL DEF IInv

(* An iteration without a fault delivers every announced edge.             *)
THEOREM NoSilentTruncation == Spec => []CompleteOrFault
<1>1. IInv => CompleteOrFault
  BY DEF IInv, TypeOK, NoGapNoRepeat, Progress, CompleteOrFault
<1> QED
  BY Invariance, <1>1, PTL

(* A provider is called at most once per edge, and once more.              *)
THEOREM TraversalBounded == Spec => []CallbacksBounded
  BY Invariance, PTL DEF IInv

=============================================================================
