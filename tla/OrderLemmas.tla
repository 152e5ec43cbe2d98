----------------------------- MODULE OrderLemmas -----------------------------
(***************************************************************************)
(* Facts about finite sets of indexes that the proofs of the other modules *)
(* share: what a CHOOSE of a least or greatest index denotes, and what it  *)
(* is to list such a set in increasing order.  They follow from the        *)
(* well-foundedness of < on the naturals; a minimal counterexample stands  *)
(* in for an induction.  And the shapes of sequences that grow or have one *)
(* element replaced, and how a list is folded step by step.                *)
(***************************************************************************)
EXTENDS Integers, Sequences, FiniteSets, SequencesExt, FiniteSetTheorems, WellFoundedInduction, TLAPS

(* A set of numbers has a least member...                                  *)
LEMMA LeastElement ==
    ASSUME NEW T, T \subseteq Nat, T # {}
    PROVE  \E x \in T : \A y \in T : x <= y
<1> DEFINE R == {ss \in Nat \X Nat : ss[1] < ss[2]}
<1>1. IsWellFoundedOn(R, Nat)
  BY NatLessThanWellFounded DEF OpToRel
<1>2. PICK x \in T : \A y \in T : ~ (<<y, x>> \in R)
  BY <1>1, WFMin
<1>3. ASSUME NEW y \in T PROVE x <= y
  <2>1. ~ (<<y, x>> \in R)
    BY <1>2
  <2>2. <<y, x>> \in Nat \X Nat /\ <<y, x>>[1] = y /\ <<y, x>>[2] = x
    OBVIOUS
  <2>3. ~ (y < x)
    BY <2>1, <2>2
  <2> QED BY <2>3
<1> QED BY <1>3

(* ... and a bounded one a greatest.                                       *)
LEMMA GreatestElement ==
    ASSUME NEW n \in Nat, NEW T, T \subseteq 0 .. n, T # {}
    PROVE  \E x \in T : \A y \in T : y <= x
<1> DEFINE U == {n - x : x \in T}
<1>1. U \subseteq Nat /\ U # {}
  <2>1. \A x \in T : n - x \in Nat
    OBVIOUS
  <2> QED BY <2>1
<1> HIDE DEF U
<1>2. PICK u \in U : \A v \in U : u <= v
  BY <1>1, LeastElement
<1>3. PICK x \in T : u = n - x
  BY DEF U
<1>4. ASSUME NEW y \in T PROVE y <= x
  <2>1. u <= n - y
    BY <1>2 DEF U
  <2> QED BY <2>1, <1>3
<1> QED BY <1>4

(* The members of S up to i, and their number.                             *)
Upto(S, i) == {j \in S : j <= i}

(* The members up to a bound can be counted.                               *)
LEMMA UptoFinite ==
    ASSUME NEW n \in Nat, NEW S, S \subseteq 1 .. n
    PROVE  /\ IsFiniteSet(S)
           /\ Cardinality(S) \in Nat
           /\ \A i : /\ IsFiniteSet(Upto(S, i))
                    /\ Cardinality(Upto(S, i)) \in Nat
<1>1. IsFiniteSet(1 .. n)
  BY FS_Interval
<1>2. IsFiniteSet(S) /\ Cardinality(S) \in Nat
  BY <1>1, FS_Subset, FS_CardinalityType
<1>3. ASSUME NEW i PROVE IsFiniteSet(Upto(S, i)) /\ Cardinality(Upto(S, i)) \in Nat
  <2>1. Upto(S, i) \in SUBSET S
    BY DEF Upto
  <2> QED BY <1>2, <2>1, FS_Subset, FS_CardinalityType
<1> QED BY <1>2, <1>3

(* How the count grows with the bound.                                     *)
LEMMA UptoStep ==
    ASSUME NEW n \in Nat, NEW S, S \subseteq 1 .. n
    PROVE  /\ Upto(S, 0) = {}
           /\ Upto(S, n) = S
           /\ \A i \in Nat : /\ Upto(S, i) = Upto(S, i - 1) \cup (S \cap {i})
                            /\ i \notin Upto(S, i - 1)
<1>1. \A j \in S : j \in Int /\ 1 <= j /\ j <= n
  OBVIOUS
<1>2. Upto(S, 0) = {}
  <2> SUFFICES ASSUME NEW j \in S, j <= 0 PROVE FALSE
    BY DEF Upto
  <2> QED BY <1>1
<1>3. Upto(S, n) = S
  BY <1>1 DEF Upto
<1>4. ASSUME NEW i \in Nat
      PROVE  /\ Upto(S, i) = Upto(S, i - 1) \cup (S \cap {i})
             /\ i \notin Upto(S, i - 1)
  <2>1. \A j \in S : j <= i <=> j <= i - 1 \/ j = i
    <3> TAKE j \in S
    <3>1. j \in Int
      BY <1>1
    <3> QED BY <3>1
  <2>2. ~ (i <= i - 1)
    OBVIOUS
  <2> QED BY <2>1, <2>2, Zenon DEF Upto
<1> QED BY <1>2, <1>3, <1>4

(* Some member of S is its k-th.                                           *)
LEMMA KthMember ==
    ASSUME NEW n \in Nat, NEW S, S \subseteq 1 .. n, NEW k \in 1 .. Cardinality(S)
    PROVE  \E i \in S : Cardinality(Upto(S, i)) = k
<1> DEFINE count(i) == Cardinality(Upto(S, i))
           T == {i \in 0 .. n : k <= count(i)}
<1>1. \A i : IsFiniteSet(Upto(S, i)) /\ count(i) \in Nat
  BY UptoFinite, Zenon
<1>2. Cardinality(S) \in Nat /\ k \in Nat \ {0} /\ k <= Cardinality(S)
  <2>1. Cardinality(S) \in Nat
    BY UptoFinite, Zenon
  <2> QED BY <2>1
<1>3. count(n) = Cardinality(S)
  BY UptoStep
<1>4. T \subseteq Nat /\ n \in T
  BY <1>2, <1>3
<1>5. PICK i \in T : \A j \in T : i <= j
  <2> HIDE DEF T
  <2> QED BY <1>4, LeastElement
<1>6. i \in 0 .. n /\ k <= count(i)
  OBVIOUS
<1>7. i # 0
  <2>1. Upto(S, 0) = {}
    BY UptoStep
  <2>2. count(0) = 0
    BY <2>1, FS_EmptySet
  <2> QED BY <2>2, <1>6, <1>2
<1>8. i - 1 \in 0 .. n /\ count(i - 1) < k
  <2>1. i - 1 \in 0 .. n /\ ~ (i <= i - 1)
    BY <1>6, <1>7
  <2>2. ~ (k <= count(i - 1))
    BY <2>1, <1>5
  <2> HIDE DEF count
  <2> QED BY <2>1, <2>2, <1>1, <1>2
<1>9. i \in S
  <2>1. SUFFICES ASSUME i \notin S PROVE FALSE
    OBVIOUS
  <2>2. Upto(S, i) = Upto(S, i - 1)
    <3>1. i \in Nat
      BY <1>6
    <3>2. Upto(S, i) = Upto(S, i - 1) \cup (S \cap {i})
      BY <3>1, UptoStep, Zenon
    <3> QED BY <2>1, <3>1, <3>2
  <2>3. count(i) = count(i - 1)
    BY <2>2
  <2> HIDE DEF count, T
  <2> QED BY <2>3, <1>6, <1>8, <1>1, <1>2
<1>10. count(i) = count(i - 1) + 1
  <2>1. Upto(S, i) = Upto(S, i - 1) \cup {i} /\ i \notin Upto(S, i - 1)
    <3>1. i \in Nat
      BY <1>6
    <3>2. /\ Upto(S, i) = Upto(S, i - 1) \cup (S \cap {i})
          /\ i \notin Upto(S, i - 1)
      BY <3>1, UptoStep, Zenon
    <3> QED BY <1>9, <3>2
  <2>2. IsFiniteSet(Upto(S, i - 1))
    BY <1>1, <1>6
  <2> QED BY <2>1, <2>2, FS_AddElement
<1>11. count(i) = k
  <2> HIDE DEF count, T
  <2> QED BY <1>6, <1>8, <1>10, <1>1, <1>2
<1> QED BY <1>9, <1>11

(* A later member has more members up to it.                               *)
LEMMA UptoMonotone ==
    ASSUME NEW n \in Nat, NEW S, S \subseteq 1 .. n, NEW i \in S, NEW j \in S, i < j
    PROVE  Cardinality(Upto(S, i)) < Cardinality(Upto(S, j))
<1>1. i \in Int /\ j \in Int /\ \A x \in S : x \in Int
  OBVIOUS
<1>2. Upto(S, i) \in SUBSET Upto(S, j)
  <2> SUFFICES ASSUME NEW x \in S, x <= i PROVE x <= j
    BY DEF Upto
  <2> QED BY <1>1
<1>3. j \in Upto(S, j) /\ j \notin Upto(S, i)
  BY <1>1 DEF Upto
<1>4. /\ IsFiniteSet(Upto(S, j))
      /\ Cardinality(Upto(S, i)) \in Nat
      /\ Cardinality(Upto(S, j)) \in Nat
  BY UptoFinite, Zenon
<1>5. /\ Cardinality(Upto(S, i)) <= Cardinality(Upto(S, j))
      /\ Cardinality(Upto(S, j)) = Cardinality(Upto(S, i)) => Upto(S, j) = Upto(S, i)
  BY <1>2, <1>4, FS_Subset
<1>6. Cardinality(Upto(S, j)) # Cardinality(Upto(S, i))
  BY <1>3, <1>5
<1> QED BY <1>4, <1>5, <1>6

(* Concatenation by position.                                              *)
LEMMA ConcatShape ==
    ASSUME NEW S, NEW s \in Seq(S), NEW u \in Seq(S)
    PROVE  /\ s \o u \in Seq(S)
           /\ Len(s \o u) = Len(s) + Len(u)
           /\ \A i \in 1 .. Len(s) : (s \o u)[i] = s[i]
           /\ \A i \in 1 .. Len(u) : (s \o u)[Len(s) + i] = u[i]
           /\ \A i \in 1 .. Len(s) + Len(u) :
                 i \in 1 .. Len(s) \/ \E j \in 1 .. Len(u) : i = Len(s) + j
<1>1. /\ s \o u \in Seq(S)
      /\ Len(s \o u) = Len(s) + Len(u)
      /\ \A i \in 1 .. Len(s) : (s \o u)[i] = s[i]
      /\ \A i \in 1 .. Len(u) : (s \o u)[Len(s) + i] = u[i]
  OBVIOUS
<1>2. ASSUME NEW i \in 1 .. Len(s) + Len(u), i \notin 1 .. Len(s)
      PROVE  \E j \in 1 .. Len(u) : i = Len(s) + j
  <2>1. Len(s) \in Nat /\ Len(u) \in Nat
    OBVIOUS
  <2>2. i - Len(s) \in 1 .. Len(u) /\ i = Len(s) + (i - Len(s))
    BY <2>1, <1>2
  <2> QED BY <2>2
<1> QED BY <1>1, <1>2

(* Append by position.                                                     *)
LEMMA AppendShape ==
    ASSUME NEW S, NEW s \in Seq(S), NEW x \in S
    PROVE  /\ Append(s, x) \in Seq(S)
           /\ Len(Append(s, x)) = Len(s) + 1
           /\ DOMAIN Append(s, x) = 1 .. Len(s) + 1
           /\ \A i \in DOMAIN s : i \in DOMAIN Append(s, x) /\ Append(s, x)[i] = s[i]
           /\ Append(s, x)[Len(s) + 1] = x
           /\ \A i \in DOMAIN Append(s, x) : i \in DOMAIN s \/ i = Len(s) + 1
OBVIOUS

(* Replacement by position.                                                *)
LEMMA ReplaceShape ==
    ASSUME NEW S, NEW s \in Seq(S), NEW n \in DOMAIN s, NEW x \in S
    PROVE  /\ [s EXCEPT ![n] = x] \in Seq(S)
           /\ Len([s EXCEPT ![n] = x]) = Len(s)
           /\ DOMAIN [s EXCEPT ![n] = x] = DOMAIN s
           /\ \A i \in DOMAIN s : [s EXCEPT ![n] = x][i] = IF i = n THEN x ELSE s[i]
OBVIOUS

----------------------------------------------------------------------------
(* Folds: what FoldLeft, defined over sets of positions, does step by step *)
(* for an operation of two arguments.                                      *)

CONSTANT Combine(_, _)   \* open where no lemma on folds is cited

Fold(base, list) == FoldLeft(Combine, base, list)

(* The function that FoldLeft chooses, up to a length.                     *)
IsFold(base, list, n, f) ==
    f = [s \in SUBSET (1 .. n) |->
           IF s = {} THEN base ELSE Combine(f[s \ {Max(s)}], list[Max(s)])]

(* The Max of a set of positions is its greatest member.                   *)
LEMMA MaxIs ==
    ASSUME NEW n \in Nat, NEW s \in SUBSET (1 .. n), s # {}
    PROVE  Max(s) \in s /\ \A x \in s : x <= Max(s)
<1>1. PICK m \in s : \A x \in s : x <= m
  <2>1. s \in SUBSET (0 .. n)
    OBVIOUS
  <2> QED BY <2>1, GreatestElement
<1>2. \E y \in s : \A x \in s : y >= x
  <2>1. \A x \in s : x \in Int
    OBVIOUS
  <2> QED BY <1>1, <2>1
<1> DEFINE m2 == CHOOSE x \in s : \A y \in s : x >= y
<1>3. m2 \in s /\ \A x \in s : m2 >= x
  BY <1>2
<1>4. \A x \in s : x \in Int
  OBVIOUS
<1> QED BY <1>3, <1>4 DEF Max

(* The function by which a fold over positions is defined exists.          *)
LEMMA FoldExists ==
    ASSUME NEW base, NEW list, NEW n \in Nat
    PROVE  \E f : IsFold(base, list, n, f)
<1> DEFINE Missing == {k \in Nat : ~ \E f : IsFold(base, list, k, f)}
<1> SUFFICES ASSUME n \in Missing PROVE FALSE
  OBVIOUS
<1>1. PICK k \in Missing : \A j \in Missing : k <= j
  BY LeastElement
<1>2. CASE k = 0
  <2> DEFINE f == [s \in SUBSET (1 .. 0) |-> base]
  <2>1. \A s \in SUBSET (1 .. 0) : s = {}
    OBVIOUS
  <2>2. f = [s \in SUBSET (1 .. 0) |->
               IF s = {} THEN base ELSE Combine(f[s \ {Max(s)}], list[Max(s)])]
    BY <2>1
  <2>3. IsFold(base, list, 0, f)
    BY <2>2 DEF IsFold
  <2> QED BY <1>1, <1>2, <2>3
<1>3. CASE k # 0
  <2>1. k - 1 \in Nat /\ k - 1 \notin Missing /\ k \in Nat
    BY <1>1, <1>3
  <2>2. PICK f : IsFold(base, list, k - 1, f)
    BY <2>1
  <2> DEFINE more == [s \in SUBSET (1 .. k) |->
                        IF k \in s THEN Combine(f[s \ {k}], list[k]) ELSE f[s]]
             next(s) == IF s = {} THEN base ELSE Combine(more[s \ {Max(s)}], list[Max(s)])
  <2>3. ASSUME NEW s \in SUBSET (1 .. k) PROVE more[s] = next(s)
    <3>1. CASE k \in s
      <4>1. Max(s) = k
        <5>1. Max(s) \in s /\ k <= Max(s)
          BY <2>1, <3>1, MaxIs
        <5>2. Max(s) \in 1 .. k
          BY <5>1
        <5> HIDE DEF Missing
        <5> QED BY <2>1, <5>1, <5>2
      <4>2. s \ {k} \in SUBSET (1 .. k) /\ k \notin s \ {k}
        OBVIOUS
      <4>3. more[s \ {k}] = f[s \ {k}]
        BY <4>2
      <4> QED BY <3>1, <4>1, <4>3
    <3>2. CASE k \notin s
      <4>1. s \in SUBSET (1 .. k - 1)
        BY <2>1, <3>2
      <4>2. more[s] = f[s]
        BY <3>2
      <4>3. CASE s = {}
        BY <2>2, <4>1, <4>2, <4>3 DEF IsFold
      <4>4. CASE s # {}
        <5>1. s \ {Max(s)} \in SUBSET (1 .. k) /\ k \notin s \ {Max(s)}
          BY <3>2
        <5>2. more[s \ {Max(s)}] = f[s \ {Max(s)}]
          BY <5>1
        <5>3. f[s] = Combine(f[s \ {Max(s)}], list[Max(s)])
          BY <2>2, <4>1, <4>4 DEF IsFold
        <5> QED BY <4>2, <4>4, <5>2, <5>3
      <4> QED BY <4>3, <4>4
    <3> QED BY <3>1, <3>2
  <2>4. more = [s \in SUBSET (1 .. k) |-> next(s)]
    <3>1. more = [s \in SUBSET (1 .. k) |-> more[s]]
      OBVIOUS
    <3> HIDE DEF more, next
    <3> QED BY <2>3, <3>1
  <2>5. IsFold(base, list, k, more)
    <3> HIDE DEF more
    <3> QED BY <2>4 DEF IsFold
  <2> QED BY <1>1, <2>5
<1> QED BY <1>2, <1>3

(* A fold goes through the list from left to right.                        *)
LEMMA FoldSteps ==
    ASSUME NEW base, NEW S, NEW list \in Seq(S)
    PROVE  \E g : /\ DOMAIN g = 0 .. Len(list)
                  /\ g[0] = base
                  /\ \A i \in 1 .. Len(list) : g[i] = Combine(g[i - 1], list[i])
                  /\ g[Len(list)] = Fold(base, list)
<1> DEFINE n == Len(list)
           iter == CHOOSE f : IsFold(base, list, n, f)
           g == [i \in 0 .. n |-> iter[1 .. i]]
<1>0. n \in Nat /\ DOMAIN list = 1 .. n
  OBVIOUS
<1>1. IsFold(base, list, n, iter)
  BY <1>0, FoldExists
<1>2. Fold(base, list) = iter[1 .. n]
  BY <1>0 DEF Fold, FoldLeft, MapThenFoldSet, IsFold
<1>3. g[0] = base
  <2>1. {} \in SUBSET (1 .. n) /\ 1 .. 0 = {}
    OBVIOUS
  <2>2. iter[{}] = base
    BY <1>1, <2>1 DEF IsFold
  <2> QED BY <1>0, <2>1, <2>2
<1>4. ASSUME NEW i \in 1 .. n PROVE g[i] = Combine(g[i - 1], list[i])
  <2>0. i \in Nat /\ i <= n /\ i >= 1
    BY <1>0
  <2> HIDE DEF n
  <2>1. 1 .. i \in SUBSET (1 .. n) /\ 1 .. i # {} /\ i \in 1 .. i
    BY <2>0, <1>0
  <2>2. Max(1 .. i) = i
    <3>1. Max(1 .. i) \in 1 .. i /\ i <= Max(1 .. i)
      BY <1>0, <2>1, MaxIs
    <3> QED BY <2>0, <3>1
  <2>3. (1 .. i) \ {i} = 1 .. i - 1
    BY <2>0
  <2> HIDE DEF iter
  <2>4. iter[1 .. i] = Combine(iter[1 .. i - 1], list[i])
    BY <1>1, <2>1, <2>2, <2>3 DEF IsFold
  <2>5. i \in 0 .. n /\ i - 1 \in 0 .. n
    BY <1>0, <2>0
  <2> QED BY <2>4, <2>5
<1> HIDE DEF iter
<1>5. g[n] = iter[1 .. n]
  BY <1>0
<1> QED BY <1>2, <1>3, <1>4, <1>5

----------------------------------------------------------------------------
(* Folds of a finite set, in an order of their own                         *)

SetFold(base, S) == FoldSet(Combine, base, S)

Small(S, k) == {s \in SUBSET S : Cardinality(s) <= k}

IsSetFold(base, S, k, f) ==
    f = [s \in Small(S, k) |->
           IF s = {} THEN base
           ELSE Combine(CHOOSE x \in s : TRUE, f[s \ {CHOOSE x \in s : TRUE}])]

(* What is left of a set without the member that is chosen.                *)
LEMMA RemainderSmaller ==
    ASSUME NEW S, IsFiniteSet(S), NEW s \in SUBSET S, s # {}, NEW x \in s
    PROVE  /\ IsFiniteSet(s)
           /\ s \ {x} \in SUBSET S
           /\ Cardinality(s) \in Nat /\ Cardinality(s \ {x}) \in Nat
           /\ Cardinality(s \ {x}) = Cardinality(s) - 1
<1>1. IsFiniteSet(s)
  BY FS_Subset
<1>2. Cardinality(s) \in Nat /\ IsFiniteSet(s \ {x}) /\ Cardinality(s \ {x}) = Cardinality(s) - 1
  BY <1>1, FS_CardinalityType, FS_RemoveElement
<1> QED BY <1>1, <1>2, FS_CardinalityType

(* Such a fold exists.                                                     *)
LEMMA SetFoldExists ==
    ASSUME NEW base, NEW S, IsFiniteSet(S), NEW n \in Nat
    PROVE  \E f : IsSetFold(base, S, n, f)
<1> DEFINE Missing == {k \in Nat : ~ \E f : IsSetFold(base, S, k, f)}
           pick(s) == CHOOSE x \in s : TRUE
<1> SUFFICES ASSUME n \in Missing PROVE FALSE
  OBVIOUS
<1>1. PICK k \in Missing : \A j \in Missing : k <= j
  BY LeastElement
<1>2. k \in Nat /\ ~ \E f : IsSetFold(base, S, k, f)
  BY <1>1
<1>3. \A s \in SUBSET S : s # {} => pick(s) \in s
  OBVIOUS
<1> HIDE DEF pick
<1>4. \A s \in SUBSET S : Cardinality(s) \in Nat /\ (Cardinality(s) = 0 => s = {})
  BY FS_Subset, FS_CardinalityType, FS_EmptySet
<1>5. \A s \in SUBSET S : s # {} => Cardinality(s \ {pick(s)}) = Cardinality(s) - 1
  BY <1>3, RemainderSmaller
<1>6. CASE k = 0
  <2> DEFINE f == [s \in Small(S, 0) |-> base]
  <2>1. \A s \in Small(S, 0) : s = {}
    BY <1>4 DEF Small
  <2>2. f = [s \in Small(S, 0) |->
               IF s = {} THEN base ELSE Combine(pick(s), f[s \ {pick(s)}])]
    BY <2>1
  <2> HIDE DEF f
  <2>3. IsSetFold(base, S, 0, f)
    BY <2>2 DEF IsSetFold, pick
  <2> QED BY <1>2, <1>6, <2>3
<1>7. CASE k # 0
  <2>1. k - 1 \in Nat /\ k - 1 \notin Missing
    BY <1>1, <1>2, <1>7
  <2>2. PICK f : IsSetFold(base, S, k - 1, f)
    BY <2>1
  <2> DEFINE next(g, s) == IF s = {} THEN base ELSE Combine(pick(s), g[s \ {pick(s)}])
             more == [s \in Small(S, k) |->
                        IF Cardinality(s) = k THEN next(f, s) ELSE f[s]]
  <2>3. \A s \in Small(S, k - 1) : f[s] = next(f, s)
    BY <2>2 DEF IsSetFold, pick
  <2>4. ASSUME NEW s \in Small(S, k) PROVE more[s] = next(more, s)
    <3>1. s \in SUBSET S /\ Cardinality(s) \in Nat /\ Cardinality(s) <= k
      BY <1>4 DEF Small
    <3>2. more[s] = next(f, s)
      <4>1. CASE Cardinality(s) = k
        BY <4>1
      <4>2. CASE Cardinality(s) # k
        <5>1. s \in Small(S, k - 1)
          BY <1>2, <3>1, <4>2 DEF Small
        <5> QED BY <2>3, <4>2, <5>1
      <4> QED BY <4>1, <4>2
    <3>3. CASE s = {}
      BY <3>2, <3>3
    <3>4. CASE s # {}
      <4> DEFINE rest == s \ {pick(s)}
      <4>1. rest \in SUBSET S /\ Cardinality(rest) = Cardinality(s) - 1
        BY <1>5, <3>1, <3>4
      <4>2. rest \in Small(S, k) /\ Cardinality(rest) # k
        BY <1>2, <3>1, <4>1 DEF Small
      <4> HIDE DEF rest
      <4>3. more[rest] = f[rest]
        BY <4>2
      <4> QED BY <3>2, <3>4, <4>3 DEF rest
    <3> QED BY <3>3, <3>4
  <2>5. more = [s \in Small(S, k) |-> next(more, s)]
    <3>1. more = [s \in Small(S, k) |-> more[s]]
      OBVIOUS
    <3> HIDE DEF more, next
    <3> QED BY <2>4, <3>1
  <2>6. IsSetFold(base, S, k, more)
    <3> HIDE DEF more
    <3> QED BY <2>5 DEF IsSetFold, pick
  <2> QED BY <1>2, <2>6
<1> QED BY <1>6, <1>7

(* What every step of it keeps within T, it keeps within T.                *)
LEMMA SetFoldIn ==
    ASSUME NEW base, NEW S, IsFiniteSet(S), NEW T, base \in T,
           \A x \in S : \A y \in T : Combine(x, y) \in T
    PROVE  SetFold(base, S) \in T
<1> DEFINE n == Cardinality(S)
           iter == CHOOSE f : IsSetFold(base, S, n, f)
           pick(s) == CHOOSE x \in s : TRUE
<1>1. n \in Nat
  BY FS_CardinalityType
<1>2. IsSetFold(base, S, n, iter)
  BY <1>1, SetFoldExists
<1>3. Small(S, n) = SUBSET S
  <2>1. \A s \in SUBSET S : Cardinality(s) <= n
    BY FS_Subset
  <2> QED BY <2>1 DEF Small
<1>4. SetFold(base, S) = iter[S]
  BY <1>3 DEF SetFold, FoldSet, MapThenFoldSet, IsSetFold
<1> HIDE DEF iter
<1>5. \A s \in SUBSET S : iter[s] = IF s = {} THEN base ELSE Combine(pick(s), iter[s \ {pick(s)}])
  BY <1>2, <1>3 DEF IsSetFold
<1>6. \A s \in SUBSET S : s # {} => pick(s) \in s
  OBVIOUS
<1> HIDE DEF pick
<1> DEFINE Missing == {k \in Nat : \E s \in SUBSET S : Cardinality(s) = k /\ iter[s] \notin T}
<1> SUFFICES ASSUME iter[S] \notin T PROVE FALSE
  BY <1>4
<1>7. n \in Missing
  BY <1>1
<1>8. PICK k \in Missing : \A j \in Missing : k <= j
  <2>1. Missing \in SUBSET Nat
    OBVIOUS
  <2> HIDE DEF Missing
  <2> QED BY <1>7, <2>1, LeastElement
<1>9. PICK s \in SUBSET S : Cardinality(s) = k /\ iter[s] \notin T
  BY <1>8
<1>10. s # {}
  BY <1>5, <1>9
<1>11. /\ pick(s) \in s /\ pick(s) \in S /\ s \ {pick(s)} \in SUBSET S
       /\ Cardinality(s) \in Nat /\ Cardinality(s \ {pick(s)}) \in Nat
       /\ Cardinality(s \ {pick(s)}) = Cardinality(s) - 1
  <2>1. pick(s) \in s
    BY <1>6, <1>10
  <2> QED BY <1>10, <2>1, RemainderSmaller
<1>12. iter[s \ {pick(s)}] \in T
  <2>1. k - 1 \in Nat /\ k - 1 \notin Missing
    BY <1>8, <1>9, <1>11
  <2> QED BY <1>9, <1>11, <2>1
<1> QED BY <1>5, <1>9, <1>10, <1>11, <1>12

----------------------------------------------------------------------------
(* Folds of a list, taken step by step                                     *)

(* The steps of a fold are determined.                                     *)
Folds(g, list, n) == \A i \in 1 .. n : g[i] = Combine(g[i - 1], list[i])

(* Two sequences of partial results that begin alike go on alike.          *)
LEMMA StepsUnique ==
    ASSUME NEW list, NEW n \in Nat, NEW g, NEW h, g[0] = h[0],
           Folds(g, list, n), Folds(h, list, n)
    PROVE  \A k \in 0 .. n : g[k] = h[k]
<1> DEFINE Apart == {k \in 0 .. n : g[k] # h[k]}
<1> SUFFICES ASSUME Apart # {} PROVE FALSE
  OBVIOUS
<1>1. PICK k \in Apart : \A j \in Apart : k <= j
  <2>1. Apart \in SUBSET Nat
    OBVIOUS
  <2> HIDE DEF Apart
  <2> QED BY <2>1, LeastElement
<1>2. k \in 1 .. n /\ k - 1 \in 0 .. n
  BY <1>1
<1>3. g[k - 1] = h[k - 1]
  BY <1>1, <1>2
<1>4. g[k] = Combine(g[k - 1], list[k]) /\ h[k] = Combine(h[k - 1], list[k])
  BY <1>2 DEF Folds
<1> QED BY <1>1, <1>3, <1>4

(* Nothing is folded to the base.                                          *)
LEMMA FoldNone ==
    ASSUME NEW base PROVE Fold(base, <<>>) = base
<1>1. PICK S : S = {}
  OBVIOUS
<1>2. PICK list \in Seq(S) : list = <<>>
  <2>1. <<>> \in Seq(S)
    OBVIOUS
  <2> QED BY <2>1, Zenon
<1>3. PICK g : g[0] = base /\ g[Len(list)] = Fold(base, list)
  BY FoldSteps
<1>4. Len(list) = 0
  BY <1>2
<1> QED BY <1>2, <1>3, <1>4

(* One more member is folded in last.                                      *)
LEMMA FoldAppend ==
    ASSUME NEW base, NEW S, NEW list \in Seq(S), NEW x \in S
    PROVE  Fold(base, Append(list, x)) = Combine(Fold(base, list), x)
<1> DEFINE n == Len(list)
           more == Append(list, x)
<1>1. /\ n \in Nat /\ more \in Seq(S) /\ Len(more) = n + 1 /\ more[n + 1] = x
      /\ \A i \in 1 .. n : more[i] = list[i]
  BY AppendShape
<1> HIDE DEF more
<1>2. PICK g : /\ g[0] = base
               /\ \A i \in 1 .. n : g[i] = Combine(g[i - 1], list[i])
               /\ g[n] = Fold(base, list)
  BY FoldSteps
<1>3. PICK h : /\ h[0] = base
               /\ \A i \in 1 .. Len(more) : h[i] = Combine(h[i - 1], more[i])
               /\ h[Len(more)] = Fold(base, more)
  BY <1>1, FoldSteps
<1> HIDE DEF n
<1>4. \A i \in 1 .. n : h[i] = Combine(h[i - 1], list[i])
  <2> TAKE i \in 1 .. n
  <2>1. i \in 1 .. n + 1
    BY <1>1
  <2> QED BY <1>1, <1>3, <2>1
<1>5. g[n] = h[n]
  <2>1. g[0] = h[0] /\ n \in 0 .. n /\ n \in Nat
    BY <1>1, <1>2, <1>3
  <2>2. Folds(g, list, n) /\ Folds(h, list, n)
    BY <1>2, <1>4 DEF Folds
  <2>3. \A k \in 0 .. n : g[k] = h[k]
    BY <2>1, <2>2, StepsUnique
  <2> QED BY <2>1, <2>3
<1>6. n + 1 \in 1 .. n + 1 /\ n + 1 - 1 = n
  BY <1>1
<1>7. h[n + 1] = Combine(h[n], x)
  BY <1>1, <1>3, <1>6
<1> QED BY <1>1, <1>2, <1>3, <1>5, <1>7 DEF more

(* What every step of a fold keeps within T, the fold keeps within T.      *)
Keeps(T, S) == \A y \in T : \A x \in S : Combine(y, x) \in T

(* A fold stays in a set that each step keeps.                             *)
LEMMA FoldIn ==
    ASSUME NEW base, NEW S, NEW list \in Seq(S), NEW T, base \in T, Keeps(T, S)
    PROVE  Fold(base, list) \in T
<1> DEFINE n == Len(list)
<1>1. n \in Nat /\ \A i \in 1 .. n : list[i] \in S
  OBVIOUS
<1>2. PICK g : /\ g[0] = base
               /\ \A i \in 1 .. n : g[i] = Combine(g[i - 1], list[i])
               /\ g[n] = Fold(base, list)
  BY FoldSteps
<1> HIDE DEF n
<1> DEFINE Outside == {k \in 0 .. n : g[k] \notin T}
<1> SUFFICES ASSUME Outside # {} PROVE FALSE
  BY <1>1, <1>2
<1>3. PICK k \in Outside : \A j \in Outside : k <= j
  <2>1. Outside \in SUBSET Nat
    OBVIOUS
  <2> HIDE DEF Outside
  <2> QED BY <2>1, LeastElement
<1>4. k \in 1 .. n /\ k - 1 \in 0 .. n
  BY <1>1, <1>2, <1>3
<1>5. g[k - 1] \in T
  BY <1>3, <1>4
<1> QED BY <1>1, <1>2, <1>3, <1>4, <1>5 DEF Keeps

(* The steps are the folds of the prefixes.                                *)
PrefixesFold(base, list) ==
    /\ Fold(base, SubSeq(list, 1, 0)) = base
    /\ Fold(base, SubSeq(list, 1, Len(list))) = Fold(base, list)
    /\ \A k \in 1 .. Len(list) :
          Fold(base, SubSeq(list, 1, k)) = Combine(Fold(base, SubSeq(list, 1, k - 1)), list[k])

(* The fold of a prefix is one step from that of the one before it.        *)
LEMMA FoldPrefixes ==
    ASSUME NEW base, NEW S, NEW list \in Seq(S)
    PROVE  PrefixesFold(base, list)
<1>1. SubSeq(list, 1, 0) = <<>> /\ SubSeq(list, 1, Len(list)) = list
  OBVIOUS
<1>2. ASSUME NEW k \in 1 .. Len(list)
      PROVE  Fold(base, SubSeq(list, 1, k)) = Combine(Fold(base, SubSeq(list, 1, k - 1)), list[k])
  <2> DEFINE shorter == SubSeq(list, 1, k - 1)
  <2>1. shorter \in Seq(S) /\ list[k] \in S
    OBVIOUS
  <2>2. SubSeq(list, 1, k) = Append(shorter, list[k])
    OBVIOUS
  <2> HIDE DEF shorter
  <2>3. Fold(base, Append(shorter, list[k])) = Combine(Fold(base, shorter), list[k])
    BY <2>1, FoldAppend
  <2> QED BY <2>2, <2>3 DEF shorter
<1>3. Fold(base, SubSeq(list, 1, 0)) = base
  BY <1>1, FoldNone
<1> QED BY <1>1, <1>2, <1>3 DEF PrefixesFold

=============================================================================
