----------------------- MODULE ExpansionRegistryProofs -----------------------
(***************************************************************************)
(* The registries of a generalized product source, for any number of       *)
(* activations, any dictionary, operation set and limits.                  *)
(*                                                                         *)
(* RegistriesCanonical, NoDangling and LimitsRespected are not inductive:  *)
(* what an activation publishes was staged, resolved and prepared steps    *)
(* before, in part against registries that others have changed since.      *)
(* ExpansionInv says what each place of the code may rely on.  A reference *)
(* held during the walk needs no lock, for registries only grow (WalkOK).  *)
(* What the resolution established is true of the registry with the        *)
(* additions appended, as long as the node lock is held (ResolutionOK),    *)
(* and the prepared states are in order over both registries as they will  *)
(* be (PreparationOK), so that Publish merely makes it so.                 *)
(***************************************************************************)
EXTENDS GeneralizedExpansion, OrderLemmas, SequenceTheorems, TLAPS

----------------------------------------------------------------------------
(* The locks.  NoCallbackUnderLock is not inductive: that a thread at a    *)
(* callback site holds no lock follows from where the locks are taken and  *)
(* released, LockDiscipline.                                               *)

HoldsNodes == {"resolve", "batch"}

ControlOK ==
    /\ pc \in [Threads -> PCs]
    /\ node_lock \in Threads \cup {NoThread}
    /\ state_lock \in Threads \cup {NoThread}

(* The node lock is held exactly while resolving and preparing states, the *)
(* state lock exactly while preparing states.                              *)
LockDiscipline ==
    /\ ControlOK
    /\ \A t \in Threads : /\ node_lock = t <=> pc[t] \in HoldsNodes
                          /\ state_lock = t <=> pc[t] = "batch"

KeepLocks == UNCHANGED locks

(* Nobody holds a lock at first.                                           *)
LEMMA InitLocks == Init => LockDiscipline
BY ThreadsAssumption DEF Init, LockDiscipline, ControlOK, PCs, HoldsNodes

(* A step that keeps the locks may move between places with the same locks *)
(* held.                                                                   *)
LEMMA MoveKeepsLocks ==
    ASSUME NEW t \in Threads, LockDiscipline, KeepLocks,
           NEW to \in PCs, pc' = [pc EXCEPT ![t] = to],
           pc[t] \in HoldsNodes <=> to \in HoldsNodes,
           pc[t] = "batch" <=> to = "batch"
    PROVE  LockDiscipline'
BY DEF LockDiscipline, ControlOK, KeepLocks, locks, PCs, HoldsNodes

(* A step that stays where it is keeps its locks.                          *)
LEMMA StayKeepsLocks ==
    ASSUME LockDiscipline, KeepLocks, UNCHANGED pc
    PROVE  LockDiscipline'
BY DEF LockDiscipline, ControlOK, KeepLocks, locks

(* Steps of the walk and of the resolution that change neither.            *)
LEMMA QuietSteps ==
    ASSUME NEW t \in Threads, LockDiscipline,
           \/ StartPaths(t) \/ VisitEdge(t) \/ ApplyOperation(t)
           \/ AdoptCanonical(t) \/ AddNode(t) \/ PrepareArc(t)
           \/ Cancel(t) \/ ProviderFault(t)
    PROVE  LockDiscipline'
<1>1. CASE StartPaths(t)
  BY <1>1, StayKeepsLocks DEF StartPaths, Walking, KeepLocks
<1>2. CASE VisitEdge(t)
  BY <1>2, StayKeepsLocks DEF VisitEdge, Walking, KeepLocks
<1>3. CASE ApplyOperation(t)
  BY <1>3, StayKeepsLocks DEF ApplyOperation, Walking, KeepLocks
<1>4. CASE AdoptCanonical(t)
  BY <1>4, StayKeepsLocks DEF AdoptCanonical, Resolving, KeepLocks
<1>5. CASE AddNode(t)
  BY <1>5, StayKeepsLocks DEF AddNode, Resolving, KeepLocks
<1>6. CASE PrepareArc(t)
  BY <1>6, StayKeepsLocks DEF PrepareArc, KeepLocks
<1>7. CASE Cancel(t)
  BY <1>7, StayKeepsLocks DEF Cancel, KeepLocks
<1>8. CASE ProviderFault(t)
  BY <1>8, StayKeepsLocks DEF ProviderFault, KeepLocks
<1> QED BY <1>1, <1>2, <1>3, <1>4, <1>5, <1>6, <1>7, <1>8

(* Steps that move between places without taking or releasing a lock.      *)
LEMMA LocklessMoves ==
    ASSUME NEW t \in Threads, LockDiscipline,
           \/ \E id \in StateIds : Begin(t, id) \/ ExpandEmit(t, id)
           \/ ReadNode(t) \/ EndWalk(t) \/ Retry(t) \/ Unwound(t)
    PROVE  LockDiscipline'
<1>1. CASE \E id \in StateIds : Begin(t, id)
  BY <1>1, MoveKeepsLocks DEF Begin, Goto, KeepLocks, PCs, HoldsNodes
<1>2. CASE \E id \in StateIds : ExpandEmit(t, id)
  BY <1>2, StayKeepsLocks DEF ExpandEmit, KeepLocks
<1>3. CASE ReadNode(t)
  BY <1>3, MoveKeepsLocks DEF ReadNode, Goto, KeepLocks, PCs, HoldsNodes
<1>4. CASE EndWalk(t)
  BY <1>4, MoveKeepsLocks DEF EndWalk, Walking, Goto, KeepLocks, PCs, HoldsNodes
<1>5. CASE Retry(t)
  BY <1>5, MoveKeepsLocks DEF Retry, Goto, KeepLocks, PCs, HoldsNodes
<1>6. CASE Unwound(t)
  BY <1>6, MoveKeepsLocks DEF Unwound, Goto, KeepLocks, PCs, HoldsNodes
<1> QED BY <1>1, <1>2, <1>3, <1>4, <1>5, <1>6

(* Steps that take a lock.                                                 *)
LEMMA Acquisitions ==
    ASSUME NEW t \in Threads, LockDiscipline, LockNodes(t) \/ LockStates(t)
    PROVE  LockDiscipline'
<1>1. CASE LockNodes(t)
  <2>1. /\ pc[t] = "commit" /\ node_lock = NoThread
        /\ node_lock' = t /\ state_lock' = state_lock
        /\ pc' = [pc EXCEPT ![t] = "resolve"]
    BY <1>1 DEF LockNodes, Goto
  <2> QED BY <2>1, ThreadsAssumption DEF LockDiscipline, ControlOK, PCs, HoldsNodes
<1>2. CASE LockStates(t)
  <2>1. /\ pc[t] = "resolve" /\ state_lock = NoThread
        /\ state_lock' = t /\ node_lock' = node_lock
        /\ pc' = [pc EXCEPT ![t] = "batch"]
    BY <1>2 DEF LockStates, AllResolved, Goto
  <2> QED BY <2>1, ThreadsAssumption DEF LockDiscipline, ControlOK, PCs, HoldsNodes
<1> QED BY <1>1, <1>2

(* An early return drops whatever guards are held.                         *)
LEMMA UnwindReleases ==
    ASSUME NEW t \in Threads, LockDiscipline, Unwind(t)
    PROVE  LockDiscipline'
<1>1. /\ node_lock' = IF node_lock = t THEN NoThread ELSE node_lock
      /\ state_lock' = IF state_lock = t THEN NoThread ELSE state_lock
      /\ pc' = [pc EXCEPT ![t] = "unwind"]
  BY DEF Unwind, Goto
<1> QED BY <1>1, ThreadsAssumption DEF LockDiscipline, ControlOK, PCs, HoldsNodes

(* Steps that release a lock.                                              *)
LEMMA Releases ==
    ASSUME NEW t \in Threads, LockDiscipline,
           ReleaseToRetire(t) \/ Publish(t) \/ Abort(t) \/ Exhaust(t)
    PROVE  LockDiscipline'
<1>1. CASE ReleaseToRetire(t)
  <2>1. /\ pc[t] = "resolve"
        /\ node_lock' = NoThread /\ state_lock' = state_lock
        /\ pc' = [pc EXCEPT ![t] = "retire"]
    BY <1>1 DEF ReleaseToRetire, AllResolved, Goto
  <2> QED BY <2>1, ThreadsAssumption DEF LockDiscipline, ControlOK, PCs, HoldsNodes
<1>2. CASE Publish(t)
  <2>1. /\ pc[t] = "batch"
        /\ node_lock' = NoThread /\ state_lock' = NoThread
        /\ pc' = [pc EXCEPT ![t] = "idle"]
    BY <1>2 DEF Publish, Goto
  <2> QED BY <2>1, ThreadsAssumption DEF LockDiscipline, ControlOK, PCs, HoldsNodes
<1>3. CASE Abort(t)
  BY <1>3, UnwindReleases DEF Abort
<1>4. CASE Exhaust(t)
  BY <1>4, UnwindReleases DEF Exhaust
<1> QED BY <1>1, <1>2, <1>3, <1>4

(* Every step keeps the lock discipline.                                   *)
LEMMA NextLocks == LockDiscipline /\ [Next]_vars => LockDiscipline'
<1> SUFFICES ASSUME LockDiscipline, [Next]_vars PROVE LockDiscipline'
  OBVIOUS
<1>1. CASE \E t \in Threads : Step(t) \/ Request(t) \/ Exhaust(t) \/ Cancel(t) \/ ProviderFault(t)
  <2>1. PICK t \in Threads : Step(t) \/ Request(t) \/ Exhaust(t) \/ Cancel(t) \/ ProviderFault(t)
    BY <1>1
  <2>2. CASE Step(t)
    BY <2>2, QuietSteps, LocklessMoves, Acquisitions, Releases DEF Step
  <2>3. CASE Request(t)
    BY <2>3, LocklessMoves DEF Request
  <2>4. CASE Exhaust(t) \/ Cancel(t) \/ ProviderFault(t)
    BY <2>4, QuietSteps, Releases
  <2> QED BY <2>1, <2>2, <2>3, <2>4
<1>2. CASE Finished \/ UNCHANGED vars
  BY <1>2, StayKeepsLocks DEF Finished, vars, KeepLocks
<1> QED BY <1>1, <1>2 DEF Next

(* The write locks are held exactly where commit_expansion holds them: two *)
(* activations are never both resolving or preparing, and every early      *)
(* return has dropped its guards.                                          *)
THEOREM LocksAsWritten == Spec => []LockDiscipline
<1>1. Init => LockDiscipline
  BY InitLocks
<1>2. LockDiscipline /\ [Next]_vars => LockDiscipline'
  BY NextLocks
<1> QED BY <1>1, <1>2, PTL DEF Spec

(* No user callback or destructor runs while its activation holds a        *)
(* registry lock, for any number of activations.                           *)
THEOREM CallbacksUnlocked == Spec => []NoCallbackUnderLock
<1>1. LockDiscipline => NoCallbackUnderLock
  BY DEF LockDiscipline, NoCallbackUnderLock, CallbackSites, HoldsNodes
<1> QED BY <1>1, LocksAsWritten, PTL

----------------------------------------------------------------------------
(* Types                                                                   *)

Text == Seq(Labels)
Refs == [kind : {"registered", "staged"}, at : Nat]
Owners == {"own", "registry"} \X Nat
Nodes == [key : NodeKeys, node : DictNodes]
Frames ==
    {f \in [ref : Refs, node : DictNodes, out : Text, todo : Text] :
        \A i \in DOMAIN f.todo : Append(f.node, f.todo[i]) \in DictNodes}
FoundPaths == [width : Nat, done : BOOLEAN, ref : Refs, out : Text]
StagedNodes == [parent : Refs, label : Labels, node : DictNodes, owner : Owners]
Arcs == [ref : Refs, output : Text, input : Text, pos : Nat, cost : Nat, weight : Nat]
Additions == [key : Nat \X Labels, node : DictNodes, owner : Owners]
Chains == [input : Text, output : Text, target : Nat]
Products == [kind : {"product"}, node : Nat, pos : Nat, cost : Nat]
Emits == [kind : {"emit"}, chain : Chains, position : Nat, next : Nat]
States == Products \cup Emits
Transitions == [input : Text, output : Text, to : Nat, weight : Nat]
Transactions ==
    [state : Nat, op : Nat \ {0}, stack : Seq(Frames), paths : Seq(FoundPaths),
     staged : Seq(StagedNodes), arcs : Seq(Arcs), resolved : Seq(Nat),
     additions : Seq(Additions), retired : BOOLEAN, passes : Nat, batch : Seq(States),
     transitions : Seq(Transitions)]

RegistryTypes ==
    /\ id_to_node \in Seq(Nodes)
    /\ id_to_state \in Seq(States)

----------------------------------------------------------------------------
(* What a transaction refers to.  The operators take the registries as     *)
(* arguments, so that they can also be asked of what a transaction is      *)
(* about to publish.                                                       *)

NodeOf(nodes, staged, ref) ==
    IF ref.kind = "registered" THEN nodes[ref.at + 1].node ELSE staged[ref.at].node

(* The reference is to a node that exists, and that node is reached by     *)
(* the path.                                                               *)
Refers(nodes, staged, ref, path) ==
    /\ IF ref.kind = "registered" THEN ref.at < Len(nodes) ELSE ref.at \in DOMAIN staged
    /\ NodeOf(nodes, staged, ref) = path

(* A staged node is a child of a registered or an earlier staged one.      *)
StagingOK(nodes, staged) ==
    \A i \in DOMAIN staged :
        LET s == staged[i]
        IN  /\ Refers(nodes, staged, s.parent, NodeOf(nodes, staged, s.parent))
            /\ s.parent.kind = "staged" => s.parent.at < i
            /\ s.node = Append(NodeOf(nodes, staged, s.parent), s.label)

(* What the walk from the node base has found so far.                      *)
WalkOK(nodes, r, base) ==
    /\ StagingOK(nodes, r.staged)
    /\ \A d \in DOMAIN r.stack :
          /\ Refers(nodes, r.staged, r.stack[d].ref, r.stack[d].node)
          /\ r.stack[d].node = base \o r.stack[d].out
    /\ r.stack # <<>> => r.stack[Len(r.stack)].todo # <<>>
    /\ \A i \in DOMAIN r.paths :
          Refers(nodes, r.staged, r.paths[i].ref, base \o r.paths[i].out)
    /\ \A i \in DOMAIN r.arcs :
          /\ Refers(nodes, r.staged, r.arcs[i].ref, base \o r.arcs[i].output)
          /\ r.arcs[i].pos <= Len(Query)
          /\ r.arcs[i].cost <= MaxCost

----------------------------------------------------------------------------
(* The registries                                                          *)

CanonicalNodes(nodes) ==
    /\ nodes # <<>>
    /\ nodes[1] = [key |-> RootKey, node |-> <<>>]
    /\ \A i, j \in DOMAIN nodes :
          nodes[i].key = nodes[j].key \/ nodes[i].node = nodes[j].node => i = j
    /\ \A i \in DOMAIN nodes \ {1} :
          /\ nodes[i].key \in Nat \X Labels
          /\ nodes[i].key[1] < i - 1
          /\ nodes[i].node = Append(nodes[nodes[i].key[1] + 1].node, nodes[i].key[2])

LastOf(chain) == Longer(chain.input, chain.output) - 1

(* The continuations of the chain of the state at index i, in a row.       *)
ChainWhole(states, i) ==
    LET chain == states[i].chain
        p     == states[i].position
    IN  /\ p \in 1 .. LastOf(chain)
        /\ chain.target < Len(states)
        /\ states[chain.target + 1].kind = "product"
        /\ \A q \in 1 .. LastOf(chain) :
              /\ i - p + q \in DOMAIN states
              /\ states[i - p + q] =
                    Emit(chain, q, IF q = LastOf(chain) THEN chain.target ELSE i - p + q)

(* States over n registered nodes.                                         *)
StatesOK(states, n) ==
    /\ states # <<>>
    /\ states[1].kind = "product"
    /\ \A i \in DOMAIN states :
          IF states[i].kind = "product"
          THEN states[i].node < n /\ states[i].pos <= Len(Query) /\ states[i].cost <= MaxCost
          ELSE ChainWhole(states, i)
    /\ \A i, j \in DOMAIN states : Identity(states[i]) = Identity(states[j]) => i = j

Published(nodes, additions) ==
    nodes \o [i \in DOMAIN additions |->
                 [key |-> additions[i].key, node |-> additions[i].node]]

(* What the resolution has established, under the node lock.               *)
ResolutionOK(nodes, r) ==
    LET published == Published(nodes, r.additions)
    IN  /\ Len(r.resolved) <= Len(r.staged)
        /\ Len(published) <= MaxNodes
        /\ CanonicalNodes(published)
        /\ \A i \in DOMAIN r.resolved :
              /\ r.resolved[i] < Len(published)
              /\ published[r.resolved[i] + 1].node = r.staged[i].node

(* What the preparation of the states has established, under both.         *)
PreparationOK(nodes, states, r) ==
    /\ Len(r.resolved) = Len(r.staged)
    /\ Len(states \o r.batch) <= MaxStates
    /\ StatesOK(states \o r.batch, Len(Published(nodes, r.additions)))
    /\ \A i \in DOMAIN r.transitions : r.transitions[i].to < Len(states \o r.batch)

(* A transaction at the place p of the code.                               *)
TransactionOK(nodes, states, r, p) ==
    /\ r.state < Len(states)
    /\ states[r.state + 1].kind = "product"
    /\ p = "idle" => r = NoTx
    /\ p = "node" => r = [NoTx EXCEPT !.state = r.state]
    /\ p \in {"walk", "commit", "resolve", "retire", "batch"} =>
          WalkOK(nodes, r, nodes[states[r.state + 1].node + 1].node)
    /\ p = "walk" /\ r.op <= Len(Operations) => InBudget(Operations[r.op], states[r.state + 1])
    /\ p \in {"resolve", "batch"} => ResolutionOK(nodes, r)
    /\ p = "batch" => PreparationOK(nodes, states, r)

RegistriesOK ==
    /\ CanonicalNodes(id_to_node)
    /\ Len(id_to_node) <= MaxNodes
    /\ StatesOK(id_to_state, Len(id_to_node))
    /\ Len(id_to_state) <= MaxStates

ExpansionInv ==
    /\ LockDiscipline
    /\ RegistryTypes
    /\ tx \in [Threads -> Transactions]
    /\ RegistriesOK
    /\ \A t \in Threads : TransactionOK(id_to_node, id_to_state, tx[t], pc[t])

(* Only t's transaction changes.                                           *)
LEMMA LocalTyped ==
    ASSUME tx \in [Threads -> Transactions], NEW t \in Threads, NEW r \in Transactions, Local(t, r)
    PROVE  /\ tx' \in [Threads -> Transactions]
           /\ tx'[t] = r
           /\ \A u \in Threads \ {t} : tx'[u] = tx[u]
BY DEF Local

(* InOrder lists a set of positions, each at its rank.                     *)
LEMMA InOrderTyped ==
    ASSUME NEW n \in Nat, NEW S, S \subseteq 1 .. n
    PROVE  /\ InOrder(S) \in Seq(S)
           /\ Len(InOrder(S)) = Cardinality(S)
           /\ \A k \in DOMAIN InOrder(S) : Cardinality(Upto(S, InOrder(S)[k])) = k
<1>1. Cardinality(S) \in Nat
  BY UptoFinite, Zenon
<1>2. ASSUME NEW k \in 1 .. Cardinality(S)
      PROVE  InOrder(S)[k] \in S /\ Cardinality(Upto(S, InOrder(S)[k])) = k
  <2>1. InOrder(S)[k] = CHOOSE i \in S : Cardinality(Upto(S, i)) = k
    BY DEF InOrder, Upto
  <2>2. \E i \in S : Cardinality(Upto(S, i)) = k
    BY KthMember
  <2> QED BY <2>1, <2>2
<1>3. InOrder(S) \in [1 .. Cardinality(S) -> S]
  BY <1>2 DEF InOrder
<1> QED BY <1>1, <1>2, <1>3

(* The operations' spans and weights are numbers.                          *)
LEMMA OperationsTyped ==
    /\ Len(Operations) \in Nat
    /\ DOMAIN Operations = 1 .. Len(Operations)
    /\ \A k \in DOMAIN Operations :
          /\ Operations[k].x \in Nat
          /\ Operations[k].y \in Nat
          /\ Operations[k].w \in Nat
<1> DEFINE Kept == {i \in DOMAIN Configured :
                       /\ Configured[i].w <= MaxCost
                       /\ \A j \in 1 .. i - 1 : Configured[j] # Configured[i]}
           kept == InOrder(Kept)
<1>1. Kept \subseteq 1 .. Len(Configured) /\ Len(Configured) \in Nat
  BY OperationsAssumption
<1>2. kept \in Seq(Kept)
  <2> HIDE DEF Kept
  <2> QED BY <1>1, InOrderTyped
<1>3. Operations = [k \in DOMAIN kept |-> Configured[kept[k]]]
  BY DEF Operations, bounded_operation_set
<1>4. \A k \in DOMAIN kept : kept[k] \in DOMAIN Configured
  <2> HIDE DEF kept
  <2> QED BY <1>2
<1>5. DOMAIN kept = 1 .. Len(kept) /\ Len(kept) \in Nat
  <2> HIDE DEF kept, Kept
  <2> QED BY <1>2
<1> HIDE DEF kept
<1> QED BY <1>3, <1>4, <1>5, OperationsAssumption

(* The next affordable operation, if there is one.                         *)
LEMMA AffordableResult ==
    ASSUME NEW product \in Products, NEW from \in Nat \ {0}
    PROVE  /\ Affordable(product, from) \in Nat \ {0}
           /\ Affordable(product, from) <= Len(Operations) =>
                 /\ Affordable(product, from) \in DOMAIN Operations
                 /\ InBudget(Operations[Affordable(product, from)], product)
<1> DEFINE ops == {k \in from .. Len(Operations) : InBudget(Operations[k], product)}
<1>1. Len(Operations) \in Nat /\ DOMAIN Operations = 1 .. Len(Operations)
  BY OperationsTyped
<1>2. CASE ops = {}
  BY <1>1, <1>2 DEF Affordable
<1>3. CASE ops # {}
  <2>1. ops \subseteq Nat
    OBVIOUS
  <2>2. \E k \in ops : \A j \in ops : k <= j
    <3> HIDE DEF ops
    <3> QED BY <2>1, <1>3, LeastElement
  <2>3. Affordable(product, from) = CHOOSE k \in ops : \A j \in ops : k <= j
    BY <1>3 DEF Affordable
  <2>4. Affordable(product, from) \in ops
    <3> HIDE DEF ops
    <3> QED BY <2>2, <2>3
  <2> QED BY <2>4, <1>1
<1> QED BY <1>2, <1>3

(* The frames that are left when those on top are exhausted.               *)
LEMMA UnfinishedResult ==
    ASSUME NEW stack \in Seq(Frames)
    PROVE  \E d \in 0 .. Len(stack) :
              /\ Unfinished(stack) = SubSeq(stack, 1, d)
              /\ d > 0 => stack[d].todo # <<>>
              /\ \A e \in d + 1 .. Len(stack) : stack[e].todo = <<>>
<1> DEFINE open == {e \in DOMAIN stack : stack[e].todo # <<>>}
           d == CHOOSE e \in open \cup {0} : \A f \in open : f <= e
<1>1. open \cup {0} \subseteq 0 .. Len(stack) /\ Len(stack) \in Nat
  OBVIOUS
<1>2. \E e \in open \cup {0} : \A f \in open \cup {0} : f <= e
  <2> HIDE DEF open
  <2> QED BY <1>1, GreatestElement
<1>3. d \in open \cup {0} /\ \A f \in open : f <= d
  <2> HIDE DEF open
  <2> QED BY <1>2
<1>4. Unfinished(stack) = SubSeq(stack, 1, d)
  BY DEF Unfinished
<1>5. d \in 0 .. Len(stack)
  BY <1>1, <1>3
<1>6. d > 0 => stack[d].todo # <<>>
  <2> HIDE DEF d
  <2>1. d > 0 => d \in open
    BY <1>3
  <2> QED BY <2>1
<1>7. ASSUME NEW e \in d + 1 .. Len(stack) PROVE stack[e].todo = <<>>
  <2> HIDE DEF d
  <2>1. e \in DOMAIN stack /\ ~ (e <= d)
    BY <1>5
  <2> QED BY <1>3, <2>1
<1> HIDE DEF d
<1> QED BY <1>4, <1>5, <1>6, <1>7

----------------------------------------------------------------------------
(* What grows keeps its references                                         *)

(* longer has the nodes of shorter, and maybe more.                        *)
SameNodes(shorter, longer) ==
    /\ Len(shorter) <= Len(longer)
    /\ \A i \in DOMAIN shorter : longer[i].node = shorter[i].node

SameStaging(shorter, longer) ==
    /\ SameNodes(shorter, longer)
    /\ \A i \in DOMAIN shorter : /\ longer[i].parent = shorter[i].parent
                                 /\ longer[i].label = shorter[i].label

(* The types of a staged node's fields.                                    *)
LEMMA StagedFields ==
    ASSUME NEW staged \in Seq(StagedNodes), NEW i \in DOMAIN staged
    PROVE  /\ staged[i] \in StagedNodes
           /\ staged[i].parent \in Refs
           /\ staged[i].label \in Labels
           /\ staged[i].node \in DictNodes
           /\ staged[i].owner \in Owners
<1>1. staged[i] \in StagedNodes
  OBVIOUS
<1> QED BY <1>1 DEF StagedNodes

(* The types of a frame's fields.                                          *)
LEMMA FrameFields ==
    ASSUME NEW stack \in Seq(Frames), NEW d \in DOMAIN stack
    PROVE  /\ stack[d] \in Frames
           /\ stack[d].ref \in Refs
           /\ stack[d].node \in DictNodes
           /\ stack[d].out \in Text
           /\ stack[d].todo \in Text
           /\ \A i \in DOMAIN stack[d].todo : Append(stack[d].node, stack[d].todo[i]) \in DictNodes
<1>1. stack[d] \in Frames
  OBVIOUS
<1> QED BY <1>1 DEF Frames

(* The types of a path's fields.                                           *)
LEMMA PathFields ==
    ASSUME NEW paths \in Seq(FoundPaths), NEW i \in DOMAIN paths
    PROVE  /\ paths[i] \in FoundPaths
           /\ paths[i].ref \in Refs
           /\ paths[i].out \in Text
           /\ paths[i].width \in Nat
<1>1. paths[i] \in FoundPaths
  OBVIOUS
<1> QED BY <1>1 DEF FoundPaths

(* The types of an arc's fields.                                           *)
LEMMA ArcFields ==
    ASSUME NEW arcs \in Seq(Arcs), NEW i \in DOMAIN arcs
    PROVE  /\ arcs[i] \in Arcs
           /\ arcs[i].ref \in Refs
           /\ arcs[i].input \in Text
           /\ arcs[i].output \in Text
           /\ arcs[i].pos \in Nat
           /\ arcs[i].cost \in Nat
           /\ arcs[i].weight \in Nat
<1>1. arcs[i] \in Arcs
  OBVIOUS
<1> QED BY <1>1 DEF Arcs

(* The types of a transaction's fields.                                    *)
LEMMA TransactionFields ==
    ASSUME NEW r \in Transactions
    PROVE  /\ r.state \in Nat /\ r.op \in Nat \ {0}
           /\ r.stack \in Seq(Frames) /\ r.paths \in Seq(FoundPaths)
           /\ r.staged \in Seq(StagedNodes) /\ r.arcs \in Seq(Arcs)
           /\ r.resolved \in Seq(Nat) /\ r.additions \in Seq(Additions)
           /\ r.retired \in BOOLEAN /\ r.passes \in Nat
           /\ r.batch \in Seq(States) /\ r.transitions \in Seq(Transitions)
BY DEF Transactions

(* A reference means the same when more is published or staged.            *)
LEMMA RefersPersists ==
    ASSUME NEW nodes \in Seq(Nodes), NEW nodes2 \in Seq(Nodes), SameNodes(nodes, nodes2),
           NEW staged \in Seq(StagedNodes), NEW staged2 \in Seq(StagedNodes),
           SameNodes(staged, staged2),
           NEW ref \in Refs, NEW path, Refers(nodes, staged, ref, path)
    PROVE  /\ Refers(nodes2, staged2, ref, path)
           /\ NodeOf(nodes2, staged2, ref) = NodeOf(nodes, staged, ref)
<1>1. ref.at \in Nat /\ ref.kind \in {"registered", "staged"}
  BY DEF Refs
<1>2. CASE ref.kind = "registered"
  <2>1. ref.at + 1 \in DOMAIN nodes
    BY <1>1, <1>2 DEF Refers
  <2>2. ref.at < Len(nodes2) /\ nodes2[ref.at + 1].node = nodes[ref.at + 1].node
    BY <1>1, <2>1 DEF SameNodes
  <2> QED BY <1>2, <2>2 DEF Refers, NodeOf
<1>3. CASE ref.kind = "staged"
  <2>1. ref.at \in DOMAIN staged
    BY <1>3 DEF Refers
  <2>2. ref.at \in DOMAIN staged2 /\ staged2[ref.at].node = staged[ref.at].node
    BY <1>1, <2>1 DEF SameNodes
  <2> QED BY <1>3, <2>2 DEF Refers, NodeOf
<1> QED BY <1>1, <1>2, <1>3

(* Whether all staged nodes are there or the last ones are still missing.  *)
LEMMA StagedPersists ==
    ASSUME NEW nodes \in Seq(Nodes), NEW nodes2 \in Seq(Nodes), SameNodes(nodes, nodes2),
           NEW staged \in Seq(StagedNodes), NEW staged2 \in Seq(StagedNodes),
           SameStaging(staged, staged2), StagingOK(nodes, staged), NEW i \in DOMAIN staged
    PROVE  LET s == staged2[i]
           IN  /\ Refers(nodes2, staged2, s.parent, NodeOf(nodes2, staged2, s.parent))
               /\ s.parent.kind = "staged" => s.parent.at < i
               /\ s.node = Append(NodeOf(nodes2, staged2, s.parent), s.label)
<1> DEFINE p == staged[i].parent
<1>1. p \in Refs
  BY StagedFields
<1>2. /\ staged2[i].parent = p /\ staged2[i].label = staged[i].label
      /\ staged2[i].node = staged[i].node
  BY DEF SameStaging, SameNodes
<1>3. /\ Refers(nodes, staged, p, NodeOf(nodes, staged, p))
      /\ p.kind = "staged" => p.at < i
      /\ staged[i].node = Append(NodeOf(nodes, staged, p), staged[i].label)
  BY DEF StagingOK
<1>4. /\ Refers(nodes2, staged2, p, NodeOf(nodes, staged, p))
      /\ NodeOf(nodes2, staged2, p) = NodeOf(nodes, staged, p)
  BY <1>1, <1>3, RefersPersists DEF SameStaging
<1> QED BY <1>2, <1>3, <1>4

(* So does a walk that only has its staging adopted.                       *)
LEMMA WalkPersists ==
    ASSUME NEW nodes \in Seq(Nodes), NEW nodes2 \in Seq(Nodes), SameNodes(nodes, nodes2),
           NEW r \in Transactions, NEW r2 \in Transactions, NEW base,
           SameStaging(r.staged, r2.staged), Len(r2.staged) = Len(r.staged),
           r2.stack = r.stack, r2.paths = r.paths, r2.arcs = r.arcs,
           WalkOK(nodes, r, base)
    PROVE  WalkOK(nodes2, r2, base)
<1>1. /\ r.staged \in Seq(StagedNodes) /\ r2.staged \in Seq(StagedNodes)
      /\ r.stack \in Seq(Frames) /\ r.paths \in Seq(FoundPaths) /\ r.arcs \in Seq(Arcs)
  BY TransactionFields
<1>2. StagingOK(nodes2, r2.staged)
  <2>1. DOMAIN r2.staged = DOMAIN r.staged
    BY <1>1
  <2>2. StagingOK(nodes, r.staged)
    BY DEF WalkOK
  <2>3. ASSUME NEW i \in DOMAIN r.staged
        PROVE  LET s == r2.staged[i]
               IN  /\ Refers(nodes2, r2.staged, s.parent, NodeOf(nodes2, r2.staged, s.parent))
                   /\ s.parent.kind = "staged" => s.parent.at < i
                   /\ s.node = Append(NodeOf(nodes2, r2.staged, s.parent), s.label)
    BY <1>1, <2>2, StagedPersists
  <2> QED BY <2>1, <2>3 DEF StagingOK
<1>3. SameNodes(r.staged, r2.staged)
  BY DEF SameStaging
<1>4. ASSUME NEW ref \in Refs, NEW path, Refers(nodes, r.staged, ref, path)
      PROVE  Refers(nodes2, r2.staged, ref, path)
  BY <1>1, <1>3, <1>4, RefersPersists
<1>5. \A d \in DOMAIN r.stack : r.stack[d].ref \in Refs
  BY <1>1, FrameFields
<1>6. \A i \in DOMAIN r.paths : r.paths[i].ref \in Refs
  BY <1>1, PathFields
<1>7. \A i \in DOMAIN r.arcs : r.arcs[i].ref \in Refs
  BY <1>1, ArcFields
<1> QED BY <1>2, <1>4, <1>5, <1>6, <1>7 DEF WalkOK

----------------------------------------------------------------------------
(* The node registry                                                       *)

(* Publishing appends the additions.                                       *)
LEMMA PublishedShape ==
    ASSUME NEW nodes \in Seq(Nodes), NEW additions \in Seq(Additions)
    PROVE  /\ Published(nodes, additions) \in Seq(Nodes)
           /\ Len(Published(nodes, additions)) = Len(nodes) + Len(additions)
           /\ SameNodes(nodes, Published(nodes, additions))
           /\ \A i \in 1 .. Len(nodes) : Published(nodes, additions)[i] = nodes[i]
           /\ \A i \in 1 .. Len(additions) :
                 Published(nodes, additions)[Len(nodes) + i] =
                    [key |-> additions[i].key, node |-> additions[i].node]
           /\ additions = <<>> => Published(nodes, additions) = nodes
<1> DEFINE added == [i \in DOMAIN additions |->
                        [key |-> additions[i].key, node |-> additions[i].node]]
<1>1. \A i \in DOMAIN additions : additions[i].key \in Nat \X Labels /\ additions[i].node \in DictNodes
  <2>1. \A i \in DOMAIN additions : additions[i] \in Additions
    OBVIOUS
  <2> QED BY <2>1 DEF Additions
<1>2. \A i \in DOMAIN additions :
         [key |-> additions[i].key, node |-> additions[i].node] \in Nodes
  BY <1>1 DEF Nodes, NodeKeys
<1>3. added \in Seq(Nodes) /\ Len(added) = Len(additions)
  BY <1>2
<1>4. Published(nodes, additions) = nodes \o added
  BY DEF Published
<1>5. \A i \in 1 .. Len(additions) :
         added[i] = [key |-> additions[i].key, node |-> additions[i].node]
  OBVIOUS
<1>6. additions = <<>> => added = <<>>
  BY <1>3
<1> HIDE DEF added
<1>7. /\ nodes \o added \in Seq(Nodes)
      /\ Len(nodes \o added) = Len(nodes) + Len(added)
      /\ \A i \in 1 .. Len(nodes) : (nodes \o added)[i] = nodes[i]
      /\ \A i \in 1 .. Len(added) : (nodes \o added)[Len(nodes) + i] = added[i]
      /\ added = <<>> => nodes \o added = nodes
  BY <1>3
<1>8. SameNodes(nodes, nodes \o added)
  BY <1>3, <1>7 DEF SameNodes
<1> QED BY <1>3, <1>4, <1>5, <1>6, <1>7, <1>8

(* Publishing one addition more appends one node more.                     *)
LEMMA PublishedAppend ==
    ASSUME NEW nodes \in Seq(Nodes), NEW additions \in Seq(Additions), NEW a \in Additions
    PROVE  Published(nodes, Append(additions, a)) =
              Append(Published(nodes, additions), [key |-> a.key, node |-> a.node])
<1> DEFINE more == Append(additions, a)
           p == Published(nodes, additions)
           q == Published(nodes, more)
           new == [key |-> a.key, node |-> a.node]
<1>1. more \in Seq(Additions) /\ Len(more) = Len(additions) + 1
  OBVIOUS
<1>2. new \in Nodes
  BY DEF Additions, Nodes, NodeKeys
<1>3. /\ p \in Seq(Nodes) /\ Len(p) = Len(nodes) + Len(additions)
      /\ \A i \in 1 .. Len(nodes) : p[i] = nodes[i]
      /\ \A i \in 1 .. Len(additions) :
            p[Len(nodes) + i] = [key |-> additions[i].key, node |-> additions[i].node]
  BY PublishedShape
<1>4. /\ q \in Seq(Nodes) /\ Len(q) = Len(nodes) + Len(additions) + 1
      /\ \A i \in 1 .. Len(nodes) : q[i] = nodes[i]
      /\ \A i \in 1 .. Len(more) :
            q[Len(nodes) + i] = [key |-> more[i].key, node |-> more[i].node]
  <2> HIDE DEF more
  <2>1. /\ q \in Seq(Nodes) /\ Len(q) = Len(nodes) + Len(more)
        /\ \A i \in 1 .. Len(nodes) : q[i] = nodes[i]
        /\ \A i \in 1 .. Len(more) :
              q[Len(nodes) + i] = [key |-> more[i].key, node |-> more[i].node]
    BY <1>1, PublishedShape
  <2> QED BY <1>1, <2>1
<1>5. Append(p, new) \in Seq(Nodes) /\ Len(Append(p, new)) = Len(q)
  <2> HIDE DEF p, q, new
  <2> QED BY <1>2, <1>3, <1>4
<1>6. ASSUME NEW i \in 1 .. Len(q) PROVE q[i] = Append(p, new)[i]
  <2>1. CASE i \in 1 .. Len(nodes)
    <3> HIDE DEF p, q, new
    <3> QED BY <2>1, <1>3, <1>4
  <2>2. CASE i = Len(nodes) + Len(additions) + 1
    <3>1. more[Len(more)] = a
      OBVIOUS
    <3>2. q[i] = new
      <4> HIDE DEF q, more
      <4> QED BY <2>2, <3>1, <1>1, <1>4
    <3> HIDE DEF p, q, new
    <3> QED BY <2>2, <3>2, <1>2, <1>3
  <2>3. CASE i \in Len(nodes) + 1 .. Len(nodes) + Len(additions)
    <3>1. PICK j \in 1 .. Len(additions) : i = Len(nodes) + j
      <4>1. i - Len(nodes) \in 1 .. Len(additions) /\ i = Len(nodes) + (i - Len(nodes))
        BY <2>3
      <4> QED BY <4>1
    <3>2. more[j] = additions[j] /\ j \in 1 .. Len(more)
      OBVIOUS
    <3>3. q[i] = p[i]
      <4> HIDE DEF p, q, more
      <4> QED BY <3>1, <3>2, <1>3, <1>4
    <3> HIDE DEF p, q, new
    <3> QED BY <2>3, <3>3, <1>2, <1>3
  <2>4. \/ i \in 1 .. Len(nodes)
        \/ i = Len(nodes) + Len(additions) + 1
        \/ i \in Len(nodes) + 1 .. Len(nodes) + Len(additions)
    <3>1. Len(nodes) \in Nat /\ Len(additions) \in Nat
      OBVIOUS
    <3> HIDE DEF q
    <3> QED BY <1>4, <3>1
  <2> QED BY <2>1, <2>2, <2>3, <2>4
<1>7. q = Append(p, new)
  <2> HIDE DEF p, q, new
  <2> QED BY <1>4, <1>5, <1>6, SeqEqual
<1> QED BY <1>7

(* The types of a published node's fields.                                 *)
LEMMA NodeFields ==
    ASSUME NEW nodes \in Seq(Nodes), NEW i \in DOMAIN nodes
    PROVE  nodes[i] \in Nodes /\ nodes[i].node \in DictNodes /\ nodes[i].node \in Seq(Labels)
<1>1. nodes[i] \in Nodes
  OBVIOUS
<1> QED BY <1>1, DictionaryAssumption DEF Nodes

(* A child whose key is not in the registry is not there under another.    *)
LEMMA FreshNode ==
    ASSUME NEW nodes \in Seq(Nodes), CanonicalNodes(nodes),
           NEW p \in Nat, p < Len(nodes), NEW l \in Labels, NEW node \in DictNodes,
           node = Append(nodes[p + 1].node, l),
           \A i \in DOMAIN nodes : nodes[i].key # <<p, l>>
    PROVE  \A i \in DOMAIN nodes : nodes[i].node # node
<1>4. DOMAIN nodes = 1 .. Len(nodes) /\ Len(nodes) \in Nat
  OBVIOUS
<1>5. ASSUME NEW i \in DOMAIN nodes \ {1}
      PROVE  /\ nodes[i].key \in Nat \X Labels
             /\ nodes[i].key[1] < i - 1
             /\ nodes[i].node = Append(nodes[nodes[i].key[1] + 1].node, nodes[i].key[2])
  BY DEF CanonicalNodes
<1> SUFFICES ASSUME NEW i \in DOMAIN nodes, nodes[i].node = node PROVE FALSE
  OBVIOUS
<1>1. p + 1 \in DOMAIN nodes /\ nodes[p + 1].node \in Seq(Labels)
  BY <1>4, NodeFields
<1>2. CASE i = 1
  BY <1>1, <1>2 DEF CanonicalNodes
<1>3. CASE i # 1
  <2> DEFINE k == nodes[i].key
  <2>1. k \in Nat \X Labels /\ k[1] + 1 \in DOMAIN nodes
    BY <1>3, <1>4, <1>5, SMTT(30)
  <2>2. nodes[k[1] + 1].node \in Seq(Labels)
    BY <2>1, NodeFields
  <2>3. Append(nodes[k[1] + 1].node, k[2]) = Append(nodes[p + 1].node, l)
    BY <1>3, <1>5
  <2>4. nodes[k[1] + 1].node = nodes[p + 1].node /\ k[2] = l
    <3>1. k[2] \in Labels
      BY <2>1
    <3> DEFINE x == nodes[k[1] + 1].node
               y == nodes[p + 1].node
               m == k[2]
    <3>2. x \in Seq(Labels) /\ y \in Seq(Labels) /\ m \in Labels /\ Append(x, m) = Append(y, l)
      BY <1>1, <3>1, <2>2, <2>3
    <3>3. x = y /\ m = l
      <4> HIDE DEF x, y, m
      <4> QED BY <3>2, AppendInjective
    <3> QED BY <3>3
  <2>5. k[1] = p
    <3>1. k[1] + 1 = p + 1
      BY <1>1, <2>1, <2>4 DEF CanonicalNodes
    <3> QED BY <2>1, <3>1
  <2>6. k = <<p, l>>
    BY <2>1, <2>4, <2>5
  <2> QED BY <2>6
<1> QED BY <1>2, <1>3

(* A new key for a child of a registered node keeps the registry a trie.   *)
LEMMA AddCanonical ==
    ASSUME NEW nodes \in Seq(Nodes), CanonicalNodes(nodes),
           NEW p \in Nat, p < Len(nodes), NEW l \in Labels, NEW node \in DictNodes,
           node = Append(nodes[p + 1].node, l),
           \A i \in DOMAIN nodes : nodes[i].key # <<p, l>>
    PROVE  CanonicalNodes(Append(nodes, [key |-> <<p, l>>, node |-> node]))
<1> DEFINE n == Len(nodes)
           new == [key |-> <<p, l>>, node |-> node]
           more == Append(nodes, new)
<1>1. /\ n \in Nat \ {0} /\ DOMAIN nodes = 1 .. n
      /\ new \in Nodes
  BY DEF CanonicalNodes, Nodes, NodeKeys
<1>2. /\ DOMAIN more = 1 .. n + 1
      /\ \A i \in 1 .. n : more[i] = nodes[i]
      /\ more[n + 1] = new
      /\ more # <<>>
  <2> HIDE DEF new
  <2> QED BY <1>1
<1>9. more[n + 1].key = <<p, l>> /\ more[n + 1].node = node
  <2>1. more[n + 1] = new
    <3> HIDE DEF new
    <3> QED BY <1>1
  <2> QED BY <2>1
<1>3. ASSUME NEW i \in DOMAIN nodes \ {1}
      PROVE  /\ nodes[i].key \in Nat \X Labels
             /\ nodes[i].key[1] < i - 1
             /\ nodes[i].node = Append(nodes[nodes[i].key[1] + 1].node, nodes[i].key[2])
  BY DEF CanonicalNodes
<1>4. \A i \in DOMAIN nodes : nodes[i].node # node
  BY FreshNode
<1>5. \A i, j \in DOMAIN more :
         more[i].key = more[j].key \/ more[i].node = more[j].node => i = j
  <2> TAKE i, j \in DOMAIN more
  <2>1. CASE i \in 1 .. n /\ j \in 1 .. n
    BY <2>1, <1>1, <1>2, SMTT(30) DEF CanonicalNodes
  <2>2. CASE i = n + 1 /\ j \in 1 .. n
    <3> HIDE DEF more, n
    <3> QED BY <2>2, <1>1, <1>2, <1>4, <1>9
  <2>3. CASE i \in 1 .. n /\ j = n + 1
    <3> HIDE DEF more, n
    <3> QED BY <2>3, <1>1, <1>2, <1>4, <1>9
  <2> QED BY <2>1, <2>2, <2>3, <1>1, <1>2
<1>6. ASSUME NEW i \in DOMAIN more \ {1}
      PROVE  /\ more[i].key \in Nat \X Labels
             /\ more[i].key[1] < i - 1
             /\ more[i].node = Append(more[more[i].key[1] + 1].node, more[i].key[2])
  <2>1. CASE i \in 1 .. n
    <3>1. i \in DOMAIN nodes \ {1} /\ more[i] = nodes[i]
      BY <2>1, <1>1, <1>2
    <3>2. nodes[i].key[1] + 1 \in 1 .. n
      BY <3>1, <1>1, <1>3, SMTT(30)
    <3> HIDE DEF more
    <3> QED BY <3>1, <3>2, <1>2, <1>3
  <2>2. CASE i = n + 1
    <3>1. p + 1 \in 1 .. n /\ p < i - 1
      BY <2>2, <1>1
    <3>2. more[p + 1].node = nodes[p + 1].node
      <4> HIDE DEF more
      <4> QED BY <3>1, <1>2
    <3>3. <<p, l>> \in Nat \X Labels /\ <<p, l>>[1] = p /\ <<p, l>>[2] = l
      OBVIOUS
    <3>4. more[i].key = <<p, l>> /\ more[i].node = node
      BY <2>2, <1>9
    <3> HIDE DEF more, n
    <3> QED BY <3>1, <3>2, <3>3, <3>4
  <2>3. i \in 1 .. n \/ i = n + 1
    <3> HIDE DEF more
    <3> QED BY <1>1, <1>2
  <2> QED BY <2>1, <2>2, <2>3
<1>7. more[1] = nodes[1]
  BY <1>1, <1>2
<1> HIDE DEF more
<1>8. CanonicalNodes(more)
  BY <1>2, <1>5, <1>6, <1>7 DEF CanonicalNodes
<1> QED BY <1>8 DEF more

----------------------------------------------------------------------------
(* The state registry                                                      *)

Extends(shorter, longer) ==
    /\ Len(shorter) <= Len(longer)
    /\ \A i \in 1 .. Len(shorter) : longer[i] = shorter[i]

(* The types of a state's fields.                                          *)
LEMMA StateFields ==
    ASSUME NEW states \in Seq(States), NEW i \in DOMAIN states
    PROVE  /\ states[i] \in States
           /\ states[i].kind \in {"product", "emit"}
           /\ states[i].kind = "product" => states[i] \in Products
           /\ states[i].kind # "product" => /\ states[i] \in Emits
                                            /\ states[i].kind = "emit"
<1>1. states[i] \in States
  OBVIOUS
<1>2. CASE states[i] \in Products
  BY <1>1, <1>2 DEF Products
<1>3. CASE states[i] \in Emits
  BY <1>1, <1>3 DEF Emits
<1> QED BY <1>1, <1>2, <1>3 DEF States

(* The types of an emitting state's fields.                                *)
LEMMA EmitFields ==
    ASSUME NEW s \in Emits
    PROVE  /\ s.kind = "emit"
           /\ s.chain \in Chains /\ s.position \in Nat /\ s.next \in Nat
           /\ s.chain.input \in Text /\ s.chain.output \in Text /\ s.chain.target \in Nat
           /\ LastOf(s.chain) \in Int
<1>1. s.kind = "emit" /\ s.chain \in Chains /\ s.position \in Nat /\ s.next \in Nat
  BY DEF Emits
<1>2. s.chain.input \in Text /\ s.chain.output \in Text /\ s.chain.target \in Nat
  BY <1>1 DEF Chains
<1>3. Len(s.chain.input) \in Nat /\ Len(s.chain.output) \in Nat
  BY <1>2 DEF Text
<1> QED BY <1>1, <1>2, <1>3 DEF LastOf, Longer

(* An emission chain stays whole when states are added after it.           *)
LEMMA ChainPersists ==
    ASSUME NEW states \in Seq(States), NEW longer \in Seq(States), Extends(states, longer),
           NEW i \in DOMAIN states, states[i].kind # "product", ChainWhole(states, i)
    PROVE  ChainWhole(longer, i)
<1> DEFINE chain == states[i].chain
           p == states[i].position
<1>1. longer[i] = states[i]
  BY DEF Extends
<1>2. chain \in Chains /\ chain.target \in Nat /\ p \in Nat /\ LastOf(chain) \in Int
  BY StateFields, EmitFields
<1>3. /\ p \in 1 .. LastOf(chain)
      /\ chain.target < Len(states)
      /\ states[chain.target + 1].kind = "product"
      /\ \A q \in 1 .. LastOf(chain) :
            /\ i - p + q \in DOMAIN states
            /\ states[i - p + q] =
                  Emit(chain, q, IF q = LastOf(chain) THEN chain.target ELSE i - p + q)
  BY DEF ChainWhole
<1>4. chain.target < Len(longer) /\ longer[chain.target + 1].kind = "product"
  <2>1. chain.target + 1 \in 1 .. Len(states)
    BY <1>2, <1>3
  <2> HIDE DEF chain
  <2> QED BY <1>2, <1>3, <2>1 DEF Extends
<1>5. ASSUME NEW q \in 1 .. LastOf(chain)
      PROVE  /\ i - p + q \in DOMAIN longer
             /\ longer[i - p + q] =
                   Emit(chain, q, IF q = LastOf(chain) THEN chain.target ELSE i - p + q)
  <2>1. i - p + q \in 1 .. Len(states)
    BY <1>3
  <2>2. i - p + q \in DOMAIN longer /\ longer[i - p + q] = states[i - p + q]
    <3> HIDE DEF chain, p
    <3> QED BY <2>1 DEF Extends
  <2> QED BY <1>3, <2>2
<1>6. longer[i].chain = chain /\ longer[i].position = p
  BY <1>1
<1> HIDE DEF chain, p
<1> QED BY <1>3, <1>4, <1>5, <1>6 DEF ChainWhole

(* States stay valid when nodes are added.                                 *)
LEMMA StatesOKMonotone ==
    ASSUME NEW states \in Seq(States), NEW n \in Nat, NEW m \in Nat, n <= m, StatesOK(states, n)
    PROVE  StatesOK(states, m)
<1>1. \A i \in DOMAIN states : states[i].kind = "product" => states[i].node \in Nat
  BY StateFields DEF Products
<1> QED BY <1>1 DEF StatesOK

(* States of the same identity are of the same kind and agree on its key.  *)
LEMMA IdentityKind ==
    ASSUME NEW s \in States, NEW u \in States, Identity(s) = Identity(u)
    PROVE  /\ s.kind = u.kind
           /\ s.kind = "product" => s = u
           /\ s.kind # "product" => s.chain = u.chain /\ s.position = u.position
<1>1. Identity(s).kind = s.kind /\ Identity(u).kind = u.kind
  BY DEF Identity, States, Products, Emits
<1>2. CASE s.kind = "product"
  BY <1>1, <1>2 DEF Identity
<1>3. CASE s.kind # "product"
  <2>1. /\ Identity(s) = [kind |-> "emit", chain |-> s.chain, position |-> s.position]
        /\ Identity(u) = [kind |-> "emit", chain |-> u.chain, position |-> u.position]
    BY <1>1, <1>3 DEF Identity
  <2> DEFINE Part(c, p) == [kind |-> "emit", chain |-> c, position |-> p]
  <2>2. \A c, p : Part(c, p).chain = c /\ Part(c, p).position = p
    OBVIOUS
  <2>3. Part(s.chain, s.position) = Part(u.chain, u.position)
    BY <2>1
  <2>4. s.chain = u.chain /\ s.position = u.position
    <3> HIDE DEF Part
    <3>1. /\ Part(s.chain, s.position).chain = s.chain
          /\ Part(u.chain, u.position).chain = u.chain
          /\ Part(s.chain, s.position).position = s.position
          /\ Part(u.chain, u.position).position = u.position
      BY <2>2
    <3> QED BY <2>3, <3>1
  <2> QED BY <1>1, <1>3, <2>4
<1> QED BY <1>2, <1>3

(* Interning a product keeps the states valid and finds it.                *)
LEMMA WithProductOK ==
    ASSUME NEW states \in Seq(States), NEW n \in Nat, StatesOK(states, n),
           NEW product \in Products, product.node < n,
           product.pos <= Len(Query), product.cost <= MaxCost
    PROVE  /\ WithProduct(states, product) \in Seq(States)
           /\ Extends(states, WithProduct(states, product))
           /\ StatesOK(WithProduct(states, product), n)
           /\ IdsIn(WithProduct(states, product), product) # {}
           /\ \A i \in Len(states) + 1 .. Len(WithProduct(states, product)) :
                 WithProduct(states, product)[i] = product
<1> DEFINE more == Append(states, product)
<1>1. CASE IdsIn(states, product) # {}
  <2>1. WithProduct(states, product) = states /\ Len(states) \in Nat
    BY <1>1 DEF WithProduct
  <2> QED BY <2>1, <1>1 DEF Extends
<1>2. CASE IdsIn(states, product) = {}
  <2>1. WithProduct(states, product) = more
    BY <1>2 DEF WithProduct
  <2>2. product \in States /\ product.kind = "product"
    BY DEF States, Products
  <2>3. /\ more \in Seq(States) /\ Len(more) = Len(states) + 1
        /\ Extends(states, more)
        /\ more[Len(states) + 1] = product
        /\ more # <<>>
    <3>1. \A s \in States :
             LET m == Append(states, s)
             IN  /\ m \in Seq(States) /\ Len(m) = Len(states) + 1
                 /\ \A i \in 1 .. Len(states) : m[i] = states[i]
                 /\ m[Len(states) + 1] = s
                 /\ m # <<>>
      OBVIOUS
    <3>2. Len(states) \in Nat
      OBVIOUS
    <3> HIDE DEF more
    <3>3. /\ more \in Seq(States) /\ Len(more) = Len(states) + 1
          /\ \A i \in 1 .. Len(states) : more[i] = states[i]
          /\ more[Len(states) + 1] = product
          /\ more # <<>>
      BY <2>2, <3>1 DEF more
    <3> QED BY <3>2, <3>3 DEF Extends
  <2>4. \A j \in DOMAIN states : states[j] # product
    BY <1>2 DEF IdsIn
  <2>5. Len(states) \in Nat \ {0} /\ DOMAIN states = 1 .. Len(states)
    BY DEF StatesOK
  <2> HIDE DEF more
  <2>6. ASSUME NEW i \in DOMAIN more
        PROVE  IF more[i].kind = "product"
               THEN more[i].node < n /\ more[i].pos <= Len(Query) /\ more[i].cost <= MaxCost
               ELSE ChainWhole(more, i)
    <3>1. CASE i \in DOMAIN states
      <4>1. more[i] = states[i]
        BY <3>1, <2>3, <2>5 DEF Extends
      <4>2. CASE states[i].kind = "product"
        BY <3>1, <4>1, <4>2 DEF StatesOK
      <4>3. CASE states[i].kind # "product"
        <5>1. ChainWhole(states, i)
          BY <3>1, <4>3 DEF StatesOK
        <5> QED BY <3>1, <4>1, <4>3, <5>1, <2>3, ChainPersists
      <4> QED BY <4>2, <4>3
    <3>2. CASE i = Len(states) + 1
      BY <3>2, <2>2, <2>3
    <3> QED BY <3>1, <3>2, <2>3, <2>5
  <2>7. ASSUME NEW i \in DOMAIN more, NEW j \in DOMAIN more, Identity(more[i]) = Identity(more[j])
        PROVE  i = j
    <3>1. /\ more[i] \in States /\ more[j] \in States
          /\ more[i].kind = more[j].kind
          /\ more[i].kind = "product" => more[i] = more[j]
      BY <2>3, <2>7, IdentityKind, StateFields
    <3>2. CASE i \in DOMAIN states /\ j \in DOMAIN states
      BY <3>2, <2>3, <2>5, <2>7 DEF StatesOK, Extends
    <3>3. CASE i = Len(states) + 1 /\ j \in DOMAIN states
      BY <3>1, <3>3, <2>2, <2>3, <2>4, <2>5 DEF Extends
    <3>4. CASE j = Len(states) + 1 /\ i \in DOMAIN states
      BY <3>1, <3>4, <2>2, <2>3, <2>4, <2>5 DEF Extends
    <3> QED BY <3>2, <3>3, <3>4, <2>3, <2>5
  <2>8. more[1] = states[1]
    BY <2>3, <2>5 DEF Extends
  <2>9. StatesOK(more, n)
    BY <2>3, <2>6, <2>7, <2>8 DEF StatesOK
  <2>10. IdsIn(more, product) # {}
    BY <2>3, <2>5 DEF IdsIn
  <2>11. \A i \in Len(states) + 1 .. Len(more) : more[i] = product
    BY <2>3, <2>5
  <2> QED BY <2>1, <2>3, <2>9, <2>10, <2>11
<1> QED BY <1>1, <1>2

(* A chain that is missing is appended as a whole.                         *)
LEMMA WithChainOK ==
    ASSUME NEW states \in Seq(States), NEW n \in Nat, StatesOK(states, n),
           NEW chain \in Chains, chain.target < Len(states),
           states[chain.target + 1].kind = "product",
           NEW width, width = Longer(chain.input, chain.output), width > 1
    PROVE  /\ WithChain(states, chain, width) \in Seq(States)
           /\ Extends(states, WithChain(states, chain, width))
           /\ StatesOK(WithChain(states, chain, width), n)
           /\ ChainIds(WithChain(states, chain, width), chain) # {}
           /\ \A i \in Len(states) + 1 .. Len(WithChain(states, chain, width)) :
                 /\ WithChain(states, chain, width)[i].kind = "emit"
                 /\ WithChain(states, chain, width)[i].chain = chain
<1> DEFINE L == Len(states)
           next(q) == IF q + 1 = width THEN chain.target ELSE L + q
           new == [q \in 1 .. width - 1 |-> Emit(chain, q, next(q))]
           more == states \o new
<1>1. CASE ChainIds(states, chain) # {}
  <2>1. WithChain(states, chain, width) = states /\ Len(states) \in Nat
    BY <1>1 DEF WithChain
  <2> QED BY <2>1, <1>1 DEF Extends
<1>2. CASE ChainIds(states, chain) = {}
  <2>1. WithChain(states, chain, width) = more
    BY <1>2 DEF WithChain, Continuations
  <2>2. /\ L \in Nat \ {0} /\ DOMAIN states = 1 .. L
        /\ chain.target \in Nat
        /\ Len(chain.input) \in Nat /\ Len(chain.output) \in Nat
    BY DEF StatesOK, Chains, Text
  <2>3. width \in Nat /\ LastOf(chain) = width - 1
    BY <2>2 DEF LastOf, Longer
  <2>4. \A q \in 1 .. width - 1 : next(q) \in Nat
    BY <2>2, <2>3
  <2>5. \A q \in 1 .. width - 1 : Emit(chain, q, next(q)) \in States
    <3> TAKE q \in 1 .. width - 1
    <3>1. next(q) \in Nat /\ q \in Nat
      BY <2>3, <2>4
    <3> HIDE DEF next
    <3> QED BY <3>1 DEF Emit, Emits, States
  <2>6. /\ new \in Seq(States)
        /\ Len(new) = width - 1
        /\ \A q \in 1 .. width - 1 : new[q] = Emit(chain, q, next(q))
    <3> HIDE DEF next
    <3> QED BY <2>3, <2>5
  <2> HIDE DEF new
  <2>7. /\ more \in Seq(States)
        /\ Len(more) = L + (width - 1)
        /\ \A i \in 1 .. L : more[i] = states[i]
        /\ \A q \in 1 .. width - 1 : more[L + q] = Emit(chain, q, next(q))
        /\ \A i \in DOMAIN more : i \in 1 .. L \/ \E q \in 1 .. width - 1 : i = L + q
    <3>1. /\ more \in Seq(States)
          /\ Len(more) = L + Len(new)
          /\ \A i \in 1 .. L : more[i] = states[i]
          /\ \A q \in 1 .. Len(new) : more[L + q] = new[q]
          /\ \A i \in 1 .. L + Len(new) : i \in 1 .. L \/ \E q \in 1 .. Len(new) : i = L + q
      BY <2>6, ConcatShape, ZenonT(40)
    <3>2. DOMAIN more = 1 .. L + Len(new)
      <4> HIDE DEF more, L
      <4> QED BY <3>1
    <3> HIDE DEF more, L, next
    <3> QED BY <3>1, <3>2, <2>6
  <2> HIDE DEF more, next
  <2>8. Extends(states, more)
    BY <2>2, <2>3, <2>7 DEF Extends
  <2>9. \A q \in 1 .. width - 1 :
           /\ L + q \in DOMAIN more
           /\ more[L + q].kind = "emit" /\ more[L + q].chain = chain
           /\ more[L + q].position = q
    <3>1. DOMAIN more = 1 .. L + (width - 1)
      BY <2>7
    <3>2. \A q, m : /\ Emit(chain, q, m).kind = "emit" /\ Emit(chain, q, m).chain = chain
                    /\ Emit(chain, q, m).position = q
      BY DEF Emit
    <3> QED BY <2>2, <2>3, <2>7, <3>1, <3>2, SMTT(30)
  <2>10. ASSUME NEW p \in 1 .. width - 1 PROVE ChainWhole(more, L + p)
    <3>1. chain.target < Len(more) /\ more[chain.target + 1].kind = "product"
      <4>1. chain.target + 1 \in 1 .. L /\ L <= Len(more)
        BY <2>2, <2>3, <2>7
      <4> QED BY <4>1, <2>2, <2>7
    <3>2. ASSUME NEW q \in 1 .. LastOf(chain)
          PROVE  /\ (L + p) - p + q \in DOMAIN more
                 /\ more[(L + p) - p + q] =
                       Emit(chain, q, IF q = LastOf(chain) THEN chain.target
                                      ELSE (L + p) - p + q)
      <4>1. (L + p) - p + q = L + q /\ q \in 1 .. width - 1
        BY <2>2, <2>3
      <4>2. next(q) = IF q = LastOf(chain) THEN chain.target ELSE L + q
        BY <2>3, <4>1 DEF next
      <4> QED BY <4>1, <4>2, <2>7, <2>9
    <3>3. more[L + p].chain = chain /\ more[L + p].position = p
      BY <2>9
    <3>4. p \in 1 .. LastOf(chain)
      BY <2>3
    <3> QED BY <3>1, <3>2, <3>3, <3>4 DEF ChainWhole
  <2>11. ASSUME NEW i \in DOMAIN more
         PROVE  IF more[i].kind = "product"
                THEN more[i].node < n /\ more[i].pos <= Len(Query) /\ more[i].cost <= MaxCost
                ELSE ChainWhole(more, i)
    <3>1. CASE i \in 1 .. L
      <4>1. more[i] = states[i] /\ i \in DOMAIN states
        BY <3>1, <2>2, <2>7
      <4>2. CASE states[i].kind = "product"
        BY <4>1, <4>2 DEF StatesOK
      <4>3. CASE states[i].kind # "product"
        <5>1. ChainWhole(states, i)
          BY <4>1, <4>3 DEF StatesOK
        <5> QED BY <4>1, <4>3, <5>1, <2>7, <2>8, ChainPersists
      <4> QED BY <4>2, <4>3
    <3>2. CASE \E p \in 1 .. width - 1 : i = L + p
      <4>1. more[i].kind = "emit"
        BY <3>2, <2>9
      <4> QED BY <3>2, <4>1, <2>10
    <3> QED BY <3>1, <3>2, <2>7
  <2>12. ASSUME NEW i \in DOMAIN states, states[i].kind # "product" PROVE states[i].chain # chain
    <3> SUFFICES ASSUME states[i].chain = chain PROVE FALSE
      OBVIOUS
    <3> DEFINE p == states[i].position
               j == i - p + 1
               to == IF 1 = LastOf(chain) THEN chain.target ELSE j
    <3>1. ChainWhole(states, i)
      BY <2>12 DEF StatesOK
    <3>2. /\ 1 \in 1 .. LastOf(chain)
          /\ \A q \in 1 .. LastOf(chain) :
                /\ i - p + q \in DOMAIN states
                /\ states[i - p + q] =
                      Emit(chain, q, IF q = LastOf(chain) THEN chain.target ELSE i - p + q)
      <4>1. 1 \in 1 .. LastOf(chain)
        BY <2>3
      <4> QED BY <3>1, <4>1 DEF ChainWhole
    <3>3. j \in DOMAIN states /\ states[j] = Emit(chain, 1, to)
      BY <3>2
    <3>4. states[j].kind = "emit" /\ states[j].position = 1 /\ states[j].chain = chain
      <4> HIDE DEF j, to
      <4> QED BY <3>3 DEF Emit
    <3> HIDE DEF j
    <3> QED BY <3>3, <3>4, <1>2 DEF ChainIds
  <2>13. ASSUME NEW i \in DOMAIN more, NEW j \in DOMAIN more, Identity(more[i]) = Identity(more[j])
         PROVE  i = j
    <3>1. /\ more[i] \in States /\ more[j] \in States
          /\ more[i].kind = more[j].kind
          /\ more[i].kind # "product" => /\ more[i].chain = more[j].chain
                                         /\ more[i].position = more[j].position
      BY <2>7, <2>13, IdentityKind, StateFields
    <3>2. CASE i \in 1 .. L /\ j \in 1 .. L
      BY <3>2, <2>2, <2>7, <2>13 DEF StatesOK
    <3>3. CASE i \in 1 .. L /\ \E q \in 1 .. width - 1 : j = L + q
      <4>1. more[i] = states[i] /\ i \in DOMAIN states
        BY <3>3, <2>2, <2>7
      <4>2. more[j].kind = "emit" /\ more[j].chain = chain
        BY <3>3, <2>9
      <4> QED BY <3>1, <4>1, <4>2, <2>12
    <3>4. CASE j \in 1 .. L /\ \E q \in 1 .. width - 1 : i = L + q
      <4>1. more[j] = states[j] /\ j \in DOMAIN states
        BY <3>4, <2>2, <2>7
      <4>2. more[i].kind = "emit" /\ more[i].chain = chain
        BY <3>4, <2>9
      <4> QED BY <3>1, <4>1, <4>2, <2>12
    <3>5. CASE (\E q \in 1 .. width - 1 : i = L + q) /\ (\E q \in 1 .. width - 1 : j = L + q)
      <4>1. PICK p \in 1 .. width - 1, q \in 1 .. width - 1 : i = L + p /\ j = L + q
        BY <3>5
      <4>2. more[i].kind = "emit" /\ more[i].position = p /\ more[j].position = q
        BY <4>1, <2>9
      <4> QED BY <3>1, <4>1, <4>2
    <3> QED BY <3>2, <3>3, <3>4, <3>5, <2>7
  <2>14. more # <<>> /\ more[1] = states[1]
    <3>1. 1 \in 1 .. L
      BY <2>2
    <3>2. more[1] = states[1]
      BY <2>7, <3>1
    <3>3. Len(more) # 0
      <4>1. L + (width - 1) # 0
        BY <2>2, <2>3, <3>1
      <4> QED BY <2>7, <4>1
    <3>4. more # <<>>
      BY <3>3
    <3> QED BY <3>2, <3>4
  <2>15. StatesOK(more, n)
    BY <2>11, <2>13, <2>14 DEF StatesOK
  <2>16. ChainIds(more, chain) # {}
    <3>1. 1 \in 1 .. width - 1
      BY <2>3
    <3> QED BY <3>1, <2>9 DEF ChainIds
  <2>17. \A i \in L + 1 .. Len(more) : more[i].kind = "emit" /\ more[i].chain = chain
    <3> TAKE i \in L + 1 .. Len(more)
    <3>1. i \in DOMAIN more /\ i \notin 1 .. L
      BY <2>2, <2>3, <2>7
    <3>2. PICK q \in 1 .. width - 1 : i = L + q
      BY <3>1, <2>7
    <3> QED BY <3>2, <2>9
  <2> QED BY <2>1, <2>7, <2>8, <2>15, <2>16, <2>17
<1> QED BY <1>1, <1>2

(* What a lookup in the registered states returns.                         *)
LEMMA LookupResult ==
    ASSUME NEW states \in Seq(States)
    PROVE  /\ \A product : IdsIn(states, product) # {} =>
                 /\ First(IdsIn(states, product)) \in Nat
                 /\ First(IdsIn(states, product)) < Len(states)
                 /\ states[First(IdsIn(states, product)) + 1] = product
           /\ \A chain : ChainIds(states, chain) # {} =>
                 /\ First(ChainIds(states, chain)) \in Nat
                 /\ First(ChainIds(states, chain)) < Len(states)
                 /\ states[First(ChainIds(states, chain)) + 1].kind = "emit"
                 /\ states[First(ChainIds(states, chain)) + 1].position = 1
                 /\ states[First(ChainIds(states, chain)) + 1].chain = chain
<1>1. Len(states) \in Nat /\ DOMAIN states = 1 .. Len(states)
  OBVIOUS
<1>2. ASSUME NEW product, IdsIn(states, product) # {}
      PROVE  /\ First(IdsIn(states, product)) \in Nat
             /\ First(IdsIn(states, product)) < Len(states)
             /\ states[First(IdsIn(states, product)) + 1] = product
  <2>1. PICK id \in IdsIn(states, product) : id = First(IdsIn(states, product))
    BY <1>2 DEF First
  <2>2. PICK i \in DOMAIN states : states[i] = product /\ id = i - 1
    BY DEF IdsIn
  <2> QED BY <2>1, <2>2, <1>1
<1>3. ASSUME NEW chain, ChainIds(states, chain) # {}
      PROVE  /\ First(ChainIds(states, chain)) \in Nat
             /\ First(ChainIds(states, chain)) < Len(states)
             /\ states[First(ChainIds(states, chain)) + 1].kind = "emit"
             /\ states[First(ChainIds(states, chain)) + 1].position = 1
             /\ states[First(ChainIds(states, chain)) + 1].chain = chain
  <2>1. PICK id \in ChainIds(states, chain) : id = First(ChainIds(states, chain))
    BY <1>3 DEF First
  <2>2. PICK i \in DOMAIN states : /\ states[i].kind = "emit" /\ states[i].position = 1
                                   /\ states[i].chain = chain /\ id = i - 1
    BY DEF ChainIds
  <2> QED BY <2>1, <2>2, <1>1
<1> QED BY <1>2, <1>3

----------------------------------------------------------------------------
(* The steps.  Only Publish changes the registries; every other step is    *)
(* judged by the transaction it leaves behind.                             *)

(* The idle transaction is a transaction.                                  *)
LEMMA NoTxTyped ==
    /\ NoTx \in Transactions
    /\ NoTx.state = 0 /\ NoTx.stack = <<>> /\ NoTx.paths = <<>> /\ NoTx.staged = <<>>
    /\ NoTx.arcs = <<>> /\ NoTx.batch = <<>>
<1>1. \A S : <<>> \in Seq(S)
  OBVIOUS
<1> QED BY <1>1 DEF NoTx, Transactions

(* A product is a state.                                                   *)
LEMMA ProductTyped ==
    ASSUME NEW node \in Nat, NEW pos \in Nat, NEW cost \in Nat
    PROVE  /\ Product(node, pos, cost) \in Products
           /\ Product(node, pos, cost) \in States
           /\ Product(node, pos, cost).kind = "product"
           /\ Product(node, pos, cost).node = node
           /\ Product(node, pos, cost).pos = pos
           /\ Product(node, pos, cost).cost = cost
BY DEF Product, Products, States

(* The invariant holds at first: the root is published and nobody works.   *)
LEMMA InitInv == Init => ExpansionInv
<1> SUFFICES ASSUME Init PROVE ExpansionInv
  OBVIOUS
<1> DEFINE root == [key |-> RootKey, node |-> <<>>]
           start == Product(0, 0, 0)
<1>1. LockDiscipline
  BY InitLocks
<1>2. root \in Nodes
  BY DictionaryAssumption DEF Nodes, NodeKeys
<1>3. id_to_node = <<root>> /\ id_to_state = <<start>>
  BY DEF Init
<1>4. /\ start \in States /\ start.kind = "product" /\ start.node = 0
      /\ start.pos = 0 /\ start.cost = 0
  BY ProductTyped
<1>5. RegistryTypes
  <2> HIDE DEF root, start
  <2> QED BY <1>2, <1>3, <1>4 DEF RegistryTypes
<1>6. tx \in [Threads -> Transactions] /\ \A t \in Threads : tx[t] = NoTx /\ pc[t] = "idle"
  BY NoTxTyped DEF Init
<1>7. Len(Query) \in Nat /\ MaxCost \in Nat /\ MaxNodes \in Nat \ {0} /\ MaxStates \in Nat \ {0}
  BY QueryAssumption, BoundsAssumption
<1>8. CanonicalNodes(id_to_node) /\ Len(id_to_node) = 1
  BY <1>3 DEF CanonicalNodes
<1>9. StatesOK(id_to_state, Len(id_to_node)) /\ Len(id_to_state) = 1
  <2> HIDE DEF start
  <2>1. /\ id_to_state # <<>> /\ id_to_state[1] = start /\ DOMAIN id_to_state = {1}
        /\ Len(id_to_state) = 1
    BY <1>3
  <2> QED BY <2>1, <1>4, <1>7, <1>8 DEF StatesOK
<1>10. RegistriesOK
  BY <1>7, <1>8, <1>9 DEF RegistriesOK
<1>11. ASSUME NEW t \in Threads PROVE TransactionOK(id_to_node, id_to_state, tx[t], pc[t])
  <2> HIDE DEF start
  <2>1. id_to_state[1] = start
    BY <1>3
  <2> QED BY <2>1, <1>4, <1>6, <1>9, NoTxTyped DEF TransactionOK
<1> QED BY <1>1, <1>5, <1>6, <1>10, <1>11 DEF ExpansionInv

(* What the invariant says of one activation, in one place.                *)
LEMMA InvFacts ==
    ASSUME ExpansionInv, NEW t \in Threads
    PROVE  /\ id_to_node \in Seq(Nodes)
           /\ id_to_state \in Seq(States)
           /\ tx[t] \in Transactions
           /\ pc \in [Threads -> PCs] /\ pc[t] \in PCs
           /\ TransactionOK(id_to_node, id_to_state, tx[t], pc[t])
           /\ Len(id_to_node) \in Nat \ {0} /\ DOMAIN id_to_node = 1 .. Len(id_to_node)
           /\ Len(id_to_state) \in Nat \ {0} /\ DOMAIN id_to_state = 1 .. Len(id_to_state)
<1>1. id_to_node # <<>> /\ id_to_state # <<>>
  BY DEF ExpansionInv, RegistriesOK, CanonicalNodes, StatesOK
<1> QED BY <1>1 DEF ExpansionInv, RegistryTypes, LockDiscipline, ControlOK

(* The product an activation expands, and the node it starts from.         *)
BaseOf(r) == NodeAt(StateAt(r.state).node)

(* The product a thread expands is within the query, the budget and the    *)
(* registry.                                                               *)
LEMMA StartFacts ==
    ASSUME ExpansionInv, NEW t \in Threads
    PROVE  LET product == StateAt(tx[t].state)
           IN  /\ product \in Products
               /\ product.node \in Nat /\ product.pos \in Nat /\ product.cost \in Nat
               /\ product.node < Len(id_to_node)
               /\ product.pos <= Len(Query)
               /\ product.cost <= MaxCost
               /\ BaseOf(tx[t]) \in DictNodes
               /\ BaseOf(tx[t]) \in Seq(Labels)
<1> DEFINE i == tx[t].state + 1
           product == id_to_state[i]
<1>1. tx[t].state \in Nat /\ id_to_state \in Seq(States) /\ id_to_node \in Seq(Nodes)
  BY InvFacts, TransactionFields
<1>2. tx[t].state < Len(id_to_state) /\ product.kind = "product"
  BY InvFacts DEF TransactionOK
<1>3. i \in DOMAIN id_to_state
  BY <1>1, <1>2
<1>4. product \in Products
  BY <1>1, <1>2, <1>3, StateFields
<1>5. product.node < Len(id_to_node) /\ product.pos <= Len(Query) /\ product.cost <= MaxCost
  BY <1>2, <1>3 DEF ExpansionInv, RegistriesOK, StatesOK
<1>6. product.node \in Nat /\ product.pos \in Nat /\ product.cost \in Nat
  BY <1>4 DEF Products
<1>7. product.node + 1 \in DOMAIN id_to_node
  BY <1>1, <1>5, <1>6
<1>8. StateAt(tx[t].state) = product /\ BaseOf(tx[t]) = id_to_node[product.node + 1].node
  BY DEF StateAt, BaseOf, NodeAt
<1> HIDE DEF product
<1>9. BaseOf(tx[t]) \in DictNodes /\ BaseOf(tx[t]) \in Seq(Labels)
  BY <1>1, <1>7, <1>8, NodeFields
<1> QED BY <1>4, <1>5, <1>6, <1>8, <1>9

(* A step of one thread that publishes nothing has to keep its own part    *)
(* only.                                                                   *)
LEMMA StepKeepsInv ==
    ASSUME ExpansionInv, NEW t \in Threads, UNCHANGED registries, LockDiscipline',
           tx' \in [Threads -> Transactions],
           \A u \in Threads \ {t} : tx'[u] = tx[u] /\ pc'[u] = pc[u],
           TransactionOK(id_to_node, id_to_state, tx'[t], pc'[t])
    PROVE  ExpansionInv'
<1>1. id_to_node' = id_to_node /\ id_to_state' = id_to_state
  BY DEF registries
<1>2. ASSUME NEW u \in Threads
      PROVE  TransactionOK(id_to_node, id_to_state, tx'[u], pc'[u])
  <2>1. CASE u = t
    BY <2>1
  <2>2. CASE u # t
    BY <2>2 DEF ExpansionInv
  <2> QED BY <2>1, <2>2
<1>3. RegistryTypes' /\ RegistriesOK'
  BY <1>1 DEF ExpansionInv, RegistryTypes, RegistriesOK
<1>4. \A u \in Threads : TransactionOK(id_to_node', id_to_state', tx'[u], pc'[u])
  BY <1>1, <1>2
<1> QED BY <1>3, <1>4 DEF ExpansionInv

(* A step that replaces t's transaction by r and moves it to p.            *)
LEMMA LocalMove ==
    ASSUME ExpansionInv, NEW t \in Threads, UNCHANGED registries, LockDiscipline',
           NEW r \in Transactions, Local(t, r), NEW p, Goto(t, p),
           TransactionOK(id_to_node, id_to_state, r, p)
    PROVE  ExpansionInv'
<1>1. pc'[t] = p /\ \A u \in Threads \ {t} : pc'[u] = pc[u]
  BY InvFacts DEF Goto
<1>2. tx' \in [Threads -> Transactions] /\ tx'[t] = r /\ \A u \in Threads \ {t} : tx'[u] = tx[u]
  BY LocalTyped DEF ExpansionInv
<1> QED BY <1>1, <1>2, StepKeepsInv

(* A step that changes its transaction only.                               *)
LEMMA LocalStay ==
    ASSUME ExpansionInv, NEW t \in Threads, UNCHANGED registries, LockDiscipline',
           NEW r \in Transactions, Local(t, r), UNCHANGED pc,
           TransactionOK(id_to_node, id_to_state, r, pc[t])
    PROVE  ExpansionInv'
<1>1. tx' \in [Threads -> Transactions] /\ tx'[t] = r /\ \A u \in Threads \ {t} : tx'[u] = tx[u]
  BY LocalTyped DEF ExpansionInv
<1> QED BY <1>1, StepKeepsInv

(* A step that changes its position only.                                  *)
LEMMA Move ==
    ASSUME ExpansionInv, NEW t \in Threads, UNCHANGED <<registries, tx>>, LockDiscipline',
           NEW p, Goto(t, p), TransactionOK(id_to_node, id_to_state, tx[t], p)
    PROVE  ExpansionInv'
<1>1. pc'[t] = p /\ \A u \in Threads \ {t} : pc'[u] = pc[u]
  BY InvFacts DEF Goto
<1>2. tx' \in [Threads -> Transactions]
  BY DEF ExpansionInv
<1> QED BY <1>1, <1>2, StepKeepsInv

(* A step that changes neither.                                            *)
LEMMA Stay ==
    ASSUME ExpansionInv, UNCHANGED <<registries, tx, pc>>, LockDiscipline'
    PROVE  ExpansionInv'
BY DEF ExpansionInv, registries, RegistryTypes, RegistriesOK

(* Moves within a transaction that keep what it walks.                     *)

(* An expansion begins at a product that was published.                    *)
LEMMA BeginStep ==
    ASSUME ExpansionInv, NEW t \in Threads, NEW id \in StateIds, Begin(t, id), LockDiscipline'
    PROVE  ExpansionInv'
<1> DEFINE r == [tx[t] EXCEPT !.state = id]
<1>1. tx[t] = NoTx
  BY InvFacts DEF Begin, TransactionOK
<1>2. id \in Nat /\ id < Len(id_to_state)
  BY InvFacts DEF StateIds
<1>3. r \in Transactions /\ r.state = id /\ r = [NoTx EXCEPT !.state = id]
  BY <1>1, <1>2, NoTxTyped DEF Transactions
<1>4. UNCHANGED registries /\ Local(t, r) /\ Goto(t, "node") /\ StateAt(id).kind = "product"
  BY DEF Begin
<1> HIDE DEF r
<1>5. TransactionOK(id_to_node, id_to_state, r, "node")
  BY <1>2, <1>3, <1>4 DEF TransactionOK, StateAt
<1> QED BY <1>3, <1>4, <1>5, LocalMove

(* Reading the base node.                                                  *)
LEMMA ReadNodeStep ==
    ASSUME ExpansionInv, NEW t \in Threads, ReadNode(t), LockDiscipline'
    PROVE  ExpansionInv'
<1> DEFINE product == StateAt(tx[t].state)
           r == [tx[t] EXCEPT !.op = Affordable(product, 1)]
<1>1. UNCHANGED registries /\ Local(t, r) /\ Goto(t, "walk") /\ pc[t] = "node"
  BY DEF ReadNode
<1>2. TransactionOK(id_to_node, id_to_state, tx[t], "node") /\ tx[t] \in Transactions
  BY <1>1, InvFacts
<1>3. /\ tx[t].staged = <<>> /\ tx[t].stack = <<>> /\ tx[t].paths = <<>> /\ tx[t].arcs = <<>>
      /\ tx[t].state < Len(id_to_state) /\ id_to_state[tx[t].state + 1].kind = "product"
  BY <1>2, NoTxTyped DEF TransactionOK, NoTx
<1>4. product \in Products
  BY StartFacts
<1> HIDE DEF product
<1>5. /\ Affordable(product, 1) \in Nat \ {0}
      /\ Affordable(product, 1) <= Len(Operations) =>
            InBudget(Operations[Affordable(product, 1)], product)
  BY <1>4, AffordableResult
<1>6. /\ r \in Transactions /\ r.op = Affordable(product, 1)
      /\ r.state = tx[t].state /\ r.staged = tx[t].staged /\ r.stack = tx[t].stack
      /\ r.paths = tx[t].paths /\ r.arcs = tx[t].arcs
  BY <1>2, <1>5 DEF Transactions
<1> HIDE DEF r
<1>7. \A base : WalkOK(id_to_node, r, base)
  BY <1>3, <1>6 DEF WalkOK, StagingOK
<1>8. TransactionOK(id_to_node, id_to_state, r, "walk")
  BY <1>3, <1>5, <1>6, <1>7 DEF TransactionOK, StateAt, product
<1> QED BY <1>1, <1>6, <1>8, LocalMove

(* What holds during the walk.                                             *)
LEMMA WalkingFacts ==
    ASSUME ExpansionInv, NEW t \in Threads, pc[t] = "walk"
    PROVE  /\ WalkOK(id_to_node, tx[t], BaseOf(tx[t]))
           /\ tx[t].op <= Len(Operations) =>
                 /\ CurrentOp(t).x \in Nat /\ CurrentOp(t).y \in Nat /\ CurrentOp(t).w \in Nat
                 /\ InBudget(CurrentOp(t), StateAt(tx[t].state))
           /\ tx[t].state < Len(id_to_state)
           /\ id_to_state[tx[t].state + 1].kind = "product"
<1>1. TransactionOK(id_to_node, id_to_state, tx[t], "walk") /\ tx[t].op \in Nat \ {0}
  BY InvFacts, TransactionFields
<1>2. tx[t].op <= Len(Operations) => tx[t].op \in DOMAIN Operations
  BY <1>1, OperationsTyped
<1> QED BY <1>1, <1>2, OperationsTyped DEF TransactionOK, BaseOf, StateAt, NodeAt, CurrentOp

(* A walk that goes on, if what it now holds is in order.                  *)
LEMMA WalkGoesOn ==
    ASSUME ExpansionInv, NEW t \in Threads, Walking(t), LockDiscipline',
           NEW r \in Transactions, Local(t, r), UNCHANGED pc,
           r.state = tx[t].state,
           WalkOK(id_to_node, r, BaseOf(tx[t])),
           r.op <= Len(Operations) => InBudget(Operations[r.op], StateAt(tx[t].state))
    PROVE  ExpansionInv'
<1>1. pc[t] = "walk" /\ UNCHANGED registries
  BY DEF Walking
<1>2. TransactionOK(id_to_node, id_to_state, r, "walk")
  BY <1>1, WalkingFacts DEF TransactionOK, BaseOf, StateAt, NodeAt
<1> QED BY <1>1, <1>2, LocalStay

(* The walk of an operation ends.                                          *)
LEMMA EndWalkStep ==
    ASSUME ExpansionInv, NEW t \in Threads, EndWalk(t), LockDiscipline'
    PROVE  ExpansionInv'
<1>1. pc[t] = "walk" /\ UNCHANGED <<registries, tx>> /\ Goto(t, "commit")
  BY DEF EndWalk, Walking
<1>2. TransactionOK(id_to_node, id_to_state, tx[t], "commit")
  BY <1>1, WalkingFacts DEF TransactionOK, BaseOf, StateAt, NodeAt
<1> QED BY <1>1, <1>2, Move

(* A frame, from its parts.                                                *)
LEMMA FrameTyped ==
    ASSUME NEW ref \in Refs, NEW node \in DictNodes, NEW out \in Text
    PROVE  /\ Frame(ref, node, out) \in Frames
           /\ Frame(ref, node, out).ref = ref
           /\ Frame(ref, node, out).node = node
           /\ Frame(ref, node, out).out = out
<1> DEFINE todo == Edges(node)
<1>1. todo \in Seq(Labels)
  BY DictionaryAssumption
<1>2. \A i \in DOMAIN todo : todo[i] \in Labels
  <2> HIDE DEF todo
  <2> QED BY <1>1
<1>3. \A i \in DOMAIN todo : Append(node, todo[i]) \in DictNodes
  BY <1>2, DictionaryAssumption
<1> QED BY <1>1, <1>3 DEF Frame, Frames, Text

(* What is left of a stack of frames is a stack of frames.                 *)
LEMMA UnfinishedTyped ==
    ASSUME NEW stack \in Seq(Frames)
    PROVE  /\ Unfinished(stack) \in Seq(Frames)
           /\ Len(Unfinished(stack)) \in Nat
           /\ Len(Unfinished(stack)) <= Len(stack)
           /\ DOMAIN Unfinished(stack) = 1 .. Len(Unfinished(stack))
           /\ \A d \in DOMAIN Unfinished(stack) :
                 d \in DOMAIN stack /\ Unfinished(stack)[d] = stack[d]
           /\ Unfinished(stack) # <<>> =>
                 Unfinished(stack)[Len(Unfinished(stack))].todo # <<>>
<1>1. PICK n \in 0 .. Len(stack) :
              /\ Unfinished(stack) = SubSeq(stack, 1, n)
              /\ n > 0 => stack[n].todo # <<>>
  BY UnfinishedResult
<1> DEFINE u == SubSeq(stack, 1, n)
<1>2. /\ u \in Seq(Frames) /\ Len(u) = n /\ n \in Nat /\ n <= Len(stack)
      /\ DOMAIN u = 1 .. n /\ DOMAIN stack = 1 .. Len(stack)
      /\ \A d \in 1 .. n : u[d] = stack[d]
  OBVIOUS
<1>3. u # <<>> => n > 0
  BY <1>2
<1> HIDE DEF u
<1>4. \A d \in DOMAIN u : d \in DOMAIN stack /\ u[d] = stack[d]
  BY <1>2
<1>5. u # <<>> => u[Len(u)].todo # <<>>
  BY <1>1, <1>2, <1>3
<1>6. Unfinished(stack) = u
  BY <1>1 DEF u
<1> QED BY <1>2, <1>4, <1>5, <1>6

(* The walk of an operation starts at the base.                            *)
LEMMA StartPathsStep ==
    ASSUME ExpansionInv, NEW t \in Threads, StartPaths(t), LockDiscipline'
    PROVE  ExpansionInv'
<1> DEFINE product == StateAt(tx[t].state)
           width == CurrentOp(t).x
           start == Registered(product.node)
           mark == [width |-> width, done |-> width = 0, ref |-> start, out |-> <<>>]
           frame == Frame(start, NodeAt(product.node), <<>>)
           stack == IF width = 0 THEN <<>> ELSE Unfinished(<<frame>>)
           r == [tx[t] EXCEPT !.paths = Append(@, mark), !.stack = stack]
           base == BaseOf(tx[t])
<1>1. /\ Walking(t) /\ pc[t] = "walk" /\ tx[t].stack = <<>> /\ tx[t].op <= Len(Operations)
      /\ Local(t, r) /\ UNCHANGED pc
  BY DEF StartPaths, Walking
<1>2. /\ width \in Nat /\ WalkOK(id_to_node, tx[t], base)
      /\ InBudget(CurrentOp(t), product)
  BY <1>1, WalkingFacts
<1>3. /\ product.node \in Nat /\ product.node < Len(id_to_node)
      /\ base \in DictNodes /\ base \in Seq(Labels)
      /\ base = NodeAt(product.node)
  BY StartFacts DEF BaseOf
<1>4. start \in Refs /\ start.kind = "registered" /\ start.at = product.node /\ <<>> \in Text
  BY <1>3 DEF Registered, Refs, Text
<1>5. Refers(id_to_node, tx[t].staged, start, base) /\ base \o <<>> = base
  BY <1>3, <1>4 DEF Refers, NodeOf, NodeAt
<1>6. /\ frame \in Frames /\ frame.ref = start /\ frame.node = base /\ frame.out = <<>>
  <2> HIDE DEF start, base
  <2> QED BY <1>3, <1>4, FrameTyped
<1>7. mark \in FoundPaths /\ mark.ref = start /\ mark.out = <<>>
  <2> HIDE DEF start, width
  <2> QED BY <1>2, <1>4 DEF FoundPaths
<1> HIDE DEF start, frame, mark, product, base
<1>8. <<frame>> \in Seq(Frames) /\ DOMAIN <<frame>> = {1} /\ <<frame>>[1] = frame
  BY <1>6
<1>9. /\ stack \in Seq(Frames)
      /\ \A d \in DOMAIN stack : stack[d] = frame
      /\ stack # <<>> => stack[Len(stack)].todo # <<>>
  <2>1. CASE width = 0
    BY <2>1
  <2>2. CASE width # 0
    <3> DEFINE f == <<frame>>
    <3>1. f \in Seq(Frames) /\ \A d \in DOMAIN f : f[d] = frame
      BY <1>8
    <3> HIDE DEF f, width
    <3>2. /\ Unfinished(f) \in Seq(Frames)
          /\ \A d \in DOMAIN Unfinished(f) : d \in DOMAIN f /\ Unfinished(f)[d] = f[d]
          /\ Unfinished(f) # <<>> => Unfinished(f)[Len(Unfinished(f))].todo # <<>>
      BY <3>1, UnfinishedTyped
    <3>3. stack = Unfinished(f)
      BY <2>2 DEF f
    <3> QED BY <3>1, <3>2, <3>3
  <2> QED BY <2>1, <2>2
<1> HIDE DEF stack, width
<1>10. tx[t] \in Transactions /\ tx[t].paths \in Seq(FoundPaths)
  BY InvFacts, TransactionFields
<1> DEFINE paths == Append(tx[t].paths, mark)
<1>11. /\ paths \in Seq(FoundPaths)
       /\ \A i \in DOMAIN paths : i \in DOMAIN tx[t].paths \/ i = Len(tx[t].paths) + 1
       /\ \A i \in DOMAIN tx[t].paths : paths[i] = tx[t].paths[i]
       /\ paths[Len(tx[t].paths) + 1] = mark
  BY <1>7, <1>10
<1> HIDE DEF paths
<1>12. /\ r \in Transactions /\ r.state = tx[t].state /\ r.op = tx[t].op
       /\ r.staged = tx[t].staged /\ r.arcs = tx[t].arcs /\ r.paths = paths /\ r.stack = stack
  BY <1>9, <1>10, <1>11 DEF Transactions, paths
<1> HIDE DEF r
<1>13. WalkOK(id_to_node, r, base)
  <2>1. ASSUME NEW d \in DOMAIN stack
        PROVE  /\ Refers(id_to_node, r.staged, stack[d].ref, stack[d].node)
               /\ stack[d].node = base \o stack[d].out
    BY <1>5, <1>6, <1>9, <1>12
  <2>2. ASSUME NEW i \in DOMAIN paths
        PROVE  Refers(id_to_node, r.staged, paths[i].ref, base \o paths[i].out)
    BY <1>2, <1>5, <1>7, <1>11, <1>12 DEF WalkOK
  <2> QED BY <2>1, <2>2, <1>2, <1>9, <1>12 DEF WalkOK
<1> QED BY <1>1, <1>2, <1>12, <1>13, WalkGoesOn DEF CurrentOp, base, product

(* Appending to the second of two lists.                                   *)
LEMMA ConcatAppend ==
    ASSUME NEW S, NEW a \in Seq(S), NEW b \in Seq(S), NEW x \in S
    PROVE  a \o Append(b, x) = Append(a \o b, x)
OBVIOUS

(* The registered node a key names is the child the key spells.            *)
LEMMA KeyNode ==
    ASSUME NEW nodes \in Seq(Nodes), CanonicalNodes(nodes), NEW i \in DOMAIN nodes,
           NEW p \in Nat, NEW l \in Labels, nodes[i].key = <<p, l>>
    PROVE  p < i - 1 /\ nodes[i].node = Append(nodes[p + 1].node, l)
<1>1. <<p, l>> # RootKey
  BY DEF RootKey
<1>2. i # 1
  <2>1. nodes[1].key = RootKey
    <3>1. nodes[1] = [key |-> RootKey, node |-> <<>>]
      BY DEF CanonicalNodes
    <3> QED BY <3>1
  <2> QED BY <1>1, <2>1
<1>3. <<p, l>>[1] = p /\ <<p, l>>[2] = l
  OBVIOUS
<1> DEFINE k == nodes[i].key
<1>4. /\ k[1] < i - 1
      /\ nodes[i].node = Append(nodes[k[1] + 1].node, k[2])
  BY <1>2 DEF CanonicalNodes
<1>5. k[1] = p /\ k[2] = l
  BY <1>3
<1> QED BY <1>4, <1>5

(* A key that is registered is found under its id.                         *)
LEMMA KeyLookup ==
    ASSUME NEW key, HasKey(key)
    PROVE  /\ IdOfKey(key) \in NodeIds
           /\ id_to_node[IdOfKey(key) + 1].key = key
BY DEF HasKey, IdOfKey

(* stage_child denotes the child, once the step has staged it if need be.  *)
LEMMA ChildRefResult ==
    ASSUME ExpansionInv, NEW t \in Threads, pc[t] = "walk",
           NEW ref \in Refs, NEW path \in DictNodes, NEW label \in Labels,
           Refers(id_to_node, tx[t].staged, ref, path)
    PROVE  LET child  == ChildRef(t, ref, label)
               length == Len(tx[t].staged)
           IN  /\ child \in Refs
               /\ \/ child = Staged(length + 1)
                  \/ /\ child # Staged(length + 1)
                     /\ Refers(id_to_node, tx[t].staged, child, Append(path, label))
<1> DEFINE key == ChildKey(ref.at, label)
           child == ChildRef(t, ref, label)
           length == Len(tx[t].staged)
           steps == StagedSteps(t, ref, label)
<1>1. /\ id_to_node \in Seq(Nodes) /\ DOMAIN id_to_node = 1 .. Len(id_to_node)
      /\ Len(id_to_node) \in Nat
      /\ tx[t].staged \in Seq(StagedNodes) /\ length \in Nat
  <2>1. tx[t].staged \in Seq(StagedNodes)
    BY InvFacts, TransactionFields
  <2> QED BY <2>1, InvFacts
<1>2. ref.at \in Nat /\ ref.kind \in {"registered", "staged"}
  BY DEF Refs
<1>3. CanonicalNodes(id_to_node) /\ StagingOK(id_to_node, tx[t].staged)
  BY WalkingFacts DEF ExpansionInv, RegistriesOK, WalkOK
<1>4. CASE ref.kind = "registered" /\ HasKey(key)
  <2> DEFINE id == IdOfKey(key)
  <2>1. id \in NodeIds /\ id_to_node[id + 1].key = key
    BY <1>4, KeyLookup
  <2>2. id \in Nat /\ id < Len(id_to_node) /\ id + 1 \in DOMAIN id_to_node
    BY <1>1, <2>1 DEF NodeIds
  <2>3. child = Registered(id)
    BY <1>4 DEF ChildRef
  <2> HIDE DEF id
  <2>4. id_to_node[id + 1].node = Append(id_to_node[ref.at + 1].node, label)
    BY <1>1, <1>2, <1>3, <2>1, <2>2, KeyNode DEF ChildKey
  <2>5. id_to_node[ref.at + 1].node = path
    BY <1>4 DEF Refers, NodeOf
  <2>6. Registered(id) \in Refs /\ Registered(id) # Staged(length + 1)
    BY <2>2 DEF Registered, Staged, Refs
  <2>7. Refers(id_to_node, tx[t].staged, Registered(id), Append(path, label))
    BY <2>2, <2>4, <2>5 DEF Refers, NodeOf, Registered
  <2> QED BY <2>3, <2>6, <2>7
<1>5. CASE ~ (ref.kind = "registered" /\ HasKey(key)) /\ steps # {}
  <2>1. PICK i \in steps : child = Staged(i)
    <3>1. child = Staged(CHOOSE i \in steps : TRUE)
      BY <1>5 DEF ChildRef
    <3> HIDE DEF child, steps
    <3> QED BY <1>5, <3>1
  <2>2. /\ i \in DOMAIN tx[t].staged /\ tx[t].staged[i].parent = ref
        /\ tx[t].staged[i].label = label
    BY DEF StagedSteps
  <2>3. i \in Nat /\ i <= length
    BY <1>1, <2>2
  <2>4. tx[t].staged[i].node = Append(NodeOf(id_to_node, tx[t].staged, ref), label)
    BY <1>3, <2>2 DEF StagingOK
  <2>5. NodeOf(id_to_node, tx[t].staged, ref) = path
    BY DEF Refers
  <2>6. Staged(i) \in Refs /\ Staged(i) # Staged(length + 1)
    <3>1. i # length + 1
      BY <1>1, <2>3
    <3> QED BY <2>3, <3>1 DEF Staged, Refs
  <2>7. Refers(id_to_node, tx[t].staged, Staged(i), Append(path, label))
    BY <2>2, <2>4, <2>5 DEF Refers, NodeOf, Staged
  <2> QED BY <2>1, <2>6, <2>7
<1>6. CASE ~ (ref.kind = "registered" /\ HasKey(key)) /\ steps = {}
  <2>1. child = Staged(length + 1)
    BY <1>6 DEF ChildRef
  <2>2. Staged(length + 1) \in Refs
    BY <1>1 DEF Staged, Refs
  <2> QED BY <2>1, <2>2
<1> QED BY <1>4, <1>5, <1>6

(* Staging one more child of a known node.                                 *)
LEMMA StageOne ==
    ASSUME NEW nodes \in Seq(Nodes), NEW staged \in Seq(StagedNodes), StagingOK(nodes, staged),
           NEW s \in StagedNodes, Refers(nodes, staged, s.parent, NodeOf(nodes, staged, s.parent)),
           s.node = Append(NodeOf(nodes, staged, s.parent), s.label)
    PROVE  /\ Append(staged, s) \in Seq(StagedNodes)
           /\ SameStaging(staged, Append(staged, s))
           /\ StagingOK(nodes, Append(staged, s))
           /\ Refers(nodes, Append(staged, s), Staged(Len(staged) + 1), s.node)
<1> DEFINE more == Append(staged, s)
           n == Len(staged)
<1>1. /\ more \in Seq(StagedNodes) /\ n \in Nat
      /\ DOMAIN staged = 1 .. n /\ DOMAIN more = 1 .. n + 1 /\ Len(more) = n + 1
      /\ \A i \in 1 .. n : more[i] = staged[i]
      /\ more[n + 1] = s
  OBVIOUS
<1> HIDE DEF more
<1>2. SameStaging(staged, more) /\ SameNodes(staged, more)
  BY <1>1 DEF SameStaging, SameNodes
<1>3. SameNodes(nodes, nodes)
  BY DEF SameNodes
<1>4. s.parent \in Refs
  BY DEF StagedNodes
<1>5. /\ Refers(nodes, more, s.parent, NodeOf(nodes, staged, s.parent))
      /\ NodeOf(nodes, more, s.parent) = NodeOf(nodes, staged, s.parent)
  BY <1>1, <1>2, <1>3, <1>4, RefersPersists
<1>6. s.parent.kind = "staged" => s.parent.at < n + 1
  BY <1>1, <1>4 DEF Refers, Refs
<1>7. StagingOK(nodes, more)
  <2> SUFFICES ASSUME NEW i \in DOMAIN more
               PROVE  LET u == more[i]
                      IN  /\ Refers(nodes, more, u.parent, NodeOf(nodes, more, u.parent))
                          /\ u.parent.kind = "staged" => u.parent.at < i
                          /\ u.node = Append(NodeOf(nodes, more, u.parent), u.label)
    BY DEF StagingOK
  <2>1. CASE i \in DOMAIN staged
    BY <2>1, <1>1, <1>2, <1>3, StagedPersists
  <2>2. CASE i = n + 1
    BY <2>2, <1>1, <1>5, <1>6
  <2> QED BY <2>1, <2>2, <1>1
<1>8. Refers(nodes, more, Staged(n + 1), s.node)
  <2>1. Staged(n + 1).kind = "staged" /\ Staged(n + 1).at = n + 1
    BY DEF Staged
  <2> DEFINE ref == Staged(n + 1)
  <2>2. ref.kind # "registered" /\ ref.at \in DOMAIN more /\ more[ref.at].node = s.node
    BY <1>1, <2>1
  <2> HIDE DEF ref
  <2>3. Refers(nodes, more, ref, s.node)
    BY <2>2 DEF Refers, NodeOf
  <2> QED BY <2>3 DEF ref
<1> QED BY <1>1, <1>2, <1>7, <1>8 DEF more

(* An edge is visited: its child is found or staged.                       *)
LEMMA VisitEdgeStep ==
    ASSUME ExpansionInv, NEW t \in Threads, VisitEdge(t), LockDiscipline'
    PROVE  ExpansionInv'
<1> DEFINE old == tx[t]
           base == BaseOf(tx[t])
           depth == Len(tx[t].stack)
           top == tx[t].stack[depth]
           label == Head(top.todo)
           out == Append(top.out, label)
           node == Append(top.node, label)
           ref == ChildRef(t, top.ref, label)
           width == CurrentOp(t).x
           rest == [tx[t].stack EXCEPT ![depth].todo = Tail(@)]
           length == Len(tx[t].staged)
           new == [parent |-> top.ref, label |-> label, node |-> node, owner |-> Own(length + 1)]
           found == [width |-> width, done |-> TRUE, ref |-> ref, out |-> out]
           frame == Frame(ref, node, out)
           staged == IF ref = Staged(length + 1) THEN Append(tx[t].staged, new) ELSE tx[t].staged
           paths == IF depth = width THEN Append(tx[t].paths, found) ELSE tx[t].paths
           frames == IF depth = width THEN rest ELSE Append(rest, frame)
           r == [tx[t] EXCEPT !.staged = staged, !.paths = paths, !.stack = Unfinished(frames)]
<1>1. Walking(t) /\ pc[t] = "walk" /\ depth > 0 /\ Local(t, r) /\ UNCHANGED pc
  BY DEF VisitEdge, Walking
<1>2. /\ tx[t] \in Transactions
      /\ tx[t].stack \in Seq(Frames) /\ tx[t].paths \in Seq(FoundPaths)
      /\ tx[t].staged \in Seq(StagedNodes) /\ tx[t].arcs \in Seq(Arcs)
      /\ id_to_node \in Seq(Nodes)
      /\ base \in Seq(Labels)
  BY InvFacts, TransactionFields, StartFacts
<1>3. WalkOK(id_to_node, tx[t], base)
  BY <1>1, WalkingFacts
<1>4. depth \in DOMAIN tx[t].stack /\ depth \in Nat /\ length \in Nat /\ tx[t].stack # <<>>
  BY <1>1, <1>2
<1>5. /\ top \in Frames /\ top.ref \in Refs /\ top.node \in DictNodes
      /\ top.out \in Seq(Labels) /\ top.todo \in Seq(Labels) /\ top.todo # <<>>
      /\ \A i \in DOMAIN top.todo : Append(top.node, top.todo[i]) \in DictNodes
      /\ Refers(id_to_node, tx[t].staged, top.ref, top.node)
      /\ top.node = base \o top.out
  <2>1. /\ top \in Frames /\ top.ref \in Refs /\ top.node \in DictNodes
        /\ top.out \in Text /\ top.todo \in Text
        /\ \A i \in DOMAIN top.todo : Append(top.node, top.todo[i]) \in DictNodes
    BY <1>2, <1>4, FrameFields
  <2> QED BY <1>3, <1>4, <2>1 DEF WalkOK, Text
<1> HIDE DEF top
<1>6. label \in Labels /\ node \in DictNodes /\ Tail(top.todo) \in Seq(Labels)
      /\ \A i \in DOMAIN Tail(top.todo) : Append(top.node, Tail(top.todo)[i]) \in DictNodes
  <2>1. /\ label = top.todo[1] /\ 1 \in DOMAIN top.todo /\ label \in Labels
        /\ Tail(top.todo) \in Seq(Labels)
        /\ \A i \in DOMAIN Tail(top.todo) : i + 1 \in DOMAIN top.todo /\ Tail(top.todo)[i] = top.todo[i + 1]
    BY <1>5
  <2> HIDE DEF label
  <2> QED BY <1>5, <2>1
<1> HIDE DEF label
<1>7. out \in Seq(Labels) /\ node = base \o out
  <2>1. out \in Seq(Labels)
    BY <1>5, <1>6
  <2>2. base \o Append(top.out, label) = Append(base \o top.out, label)
    <3> HIDE DEF base
    <3> QED BY <1>2, <1>5, <1>6, ConcatAppend, SMTT(30)
  <2>3. Append(top.node, label) = Append(base \o top.out, label)
    BY <1>5
  <2> HIDE DEF base
  <2> QED BY <2>1, <2>2, <2>3
<1> HIDE DEF out, base
<1>8. /\ ref \in Refs
      /\ \/ ref = Staged(length + 1)
         \/ /\ ref # Staged(length + 1)
            /\ Refers(id_to_node, tx[t].staged, ref, node)
  BY <1>1, <1>5, <1>6, ChildRefResult
<1> HIDE DEF ref
<1>9. Own(length + 1) \in Owners
  BY <1>4 DEF Own, Owners
<1>10. /\ new \in StagedNodes /\ new.parent = top.ref /\ new.label = label /\ new.node = node
  <2> HIDE DEF node, length
  <2> QED BY <1>5, <1>6, <1>9 DEF StagedNodes
<1> HIDE DEF new
<1>11. /\ staged \in Seq(StagedNodes)
       /\ SameNodes(tx[t].staged, staged)
       /\ StagingOK(id_to_node, staged)
       /\ Refers(id_to_node, staged, ref, node)
  <2>1. StagingOK(id_to_node, tx[t].staged)
    BY <1>3 DEF WalkOK
  <2>2. CASE ref = Staged(length + 1)
    <3>1. staged = Append(tx[t].staged, new)
      BY <2>2
    <3>2. NodeOf(id_to_node, tx[t].staged, top.ref) = top.node
      BY <1>5 DEF Refers
    <3>3. /\ Refers(id_to_node, tx[t].staged, new.parent, NodeOf(id_to_node, tx[t].staged, new.parent))
          /\ new.node = Append(NodeOf(id_to_node, tx[t].staged, new.parent), new.label)
      BY <1>5, <1>10, <3>2
    <3>4. /\ Append(tx[t].staged, new) \in Seq(StagedNodes)
          /\ SameStaging(tx[t].staged, Append(tx[t].staged, new))
          /\ StagingOK(id_to_node, Append(tx[t].staged, new))
          /\ Refers(id_to_node, Append(tx[t].staged, new), Staged(length + 1), new.node)
      BY <1>2, <1>10, <2>1, <3>3, StageOne
    <3> HIDE DEF staged
    <3> QED BY <2>2, <3>1, <3>4, <1>10 DEF SameStaging
  <2>3. CASE ref # Staged(length + 1)
    <3>1. staged = tx[t].staged
      BY <2>3
    <3> HIDE DEF staged
    <3> QED BY <1>2, <1>8, <2>1, <2>3, <3>1 DEF SameNodes
  <2> QED BY <2>2, <2>3
<1> HIDE DEF staged
<1>12. ASSUME NEW x \in Refs, NEW path, Refers(id_to_node, tx[t].staged, x, path)
       PROVE  Refers(id_to_node, staged, x, path)
  <2>1. SameNodes(id_to_node, id_to_node)
    BY DEF SameNodes
  <2> QED BY <1>2, <1>11, <1>12, <2>1, RefersPersists
<1>13. /\ paths \in Seq(FoundPaths)
       /\ \A i \in DOMAIN paths : Refers(id_to_node, staged, paths[i].ref, base \o paths[i].out)
  <2>1. \A i \in DOMAIN tx[t].paths :
           Refers(id_to_node, staged, tx[t].paths[i].ref, base \o tx[t].paths[i].out)
    BY <1>2, <1>3, <1>12, PathFields DEF WalkOK
  <2>2. CASE depth = width
    <3>1. found \in FoundPaths /\ found.ref = ref /\ found.out = out
      <4>1. width \in Nat
        BY <2>2, <1>4
      <4> HIDE DEF width, depth
      <4> QED BY <4>1, <1>7, <1>8 DEF FoundPaths, Text
    <3> HIDE DEF found
    <3>2. /\ paths = Append(tx[t].paths, found)
      BY <2>2
    <3>3. /\ Append(tx[t].paths, found) \in Seq(FoundPaths)
          /\ \A i \in DOMAIN Append(tx[t].paths, found) :
                \/ i \in DOMAIN tx[t].paths /\ Append(tx[t].paths, found)[i] = tx[t].paths[i]
                \/ Append(tx[t].paths, found)[i] = found
      BY <1>2, <3>1, AppendShape
    <3> HIDE DEF paths
    <3> QED BY <2>1, <3>1, <3>2, <3>3, <1>7, <1>11
  <2>3. CASE depth # width
    <3>1. paths = tx[t].paths
      BY <2>3
    <3> HIDE DEF paths
    <3> QED BY <2>1, <3>1, <1>2
  <2> QED BY <2>2, <2>3
<1> HIDE DEF paths
<1> DEFINE top2 == [top EXCEPT !.todo = Tail(@)]
<1>14. /\ top2 \in Frames /\ top2.ref = top.ref /\ top2.node = top.node /\ top2.out = top.out
  BY <1>5, <1>6 DEF Frames, Text
<1>15. /\ rest \in Seq(Frames) /\ Len(rest) = depth
       /\ \A d \in DOMAIN rest : /\ d \in DOMAIN tx[t].stack
                                 /\ rest[d].ref = tx[t].stack[d].ref
                                 /\ rest[d].node = tx[t].stack[d].node
                                 /\ rest[d].out = tx[t].stack[d].out
  <2>1. rest = [tx[t].stack EXCEPT ![depth] = top2]
    BY <1>4 DEF top
  <2> HIDE DEF top2
  <2>2. /\ rest \in Seq(Frames) /\ Len(rest) = depth
        /\ \A d \in DOMAIN rest : /\ d \in DOMAIN tx[t].stack
                                  /\ rest[d] = IF d = depth THEN top2 ELSE tx[t].stack[d]
    <3> DEFINE next == [tx[t].stack EXCEPT ![depth] = top2]
    <3>1. /\ next \in Seq(Frames) /\ Len(next) = depth
          /\ DOMAIN next = DOMAIN tx[t].stack
          /\ \A d \in DOMAIN tx[t].stack : next[d] = IF d = depth THEN top2 ELSE tx[t].stack[d]
      BY <1>2, <1>4, <1>14, ReplaceShape
    <3> HIDE DEF next, rest
    <3>2. rest = next
      BY <2>1 DEF next
    <3> QED BY <3>1, <3>2
  <2> HIDE DEF rest
  <2> QED BY <2>2, <1>14 DEF top
<1> HIDE DEF rest, top2
<1>16. /\ frame \in Frames /\ frame.ref = ref /\ frame.node = node /\ frame.out = out
  <2>1. ref \in Refs /\ node \in DictNodes /\ out \in Text
    BY <1>6, <1>7, <1>8 DEF Text
  <2> HIDE DEF node
  <2> QED BY <2>1, FrameTyped
<1> HIDE DEF frame
<1>17. /\ frames \in Seq(Frames)
       /\ \A d \in DOMAIN frames :
             \/ d \in DOMAIN rest /\ frames[d] = rest[d]
             \/ frames[d] = frame
  BY <1>15, <1>16
<1> HIDE DEF frames
<1>18. ASSUME NEW d \in DOMAIN frames
       PROVE  /\ Refers(id_to_node, staged, frames[d].ref, frames[d].node)
              /\ frames[d].node = base \o frames[d].out
  <2>1. CASE frames[d] = frame
    BY <2>1, <1>7, <1>11, <1>16
  <2>2. CASE d \in DOMAIN rest /\ frames[d] = rest[d]
    <3>1. d \in DOMAIN tx[t].stack
      BY <2>2, <1>15
    <3>2. /\ Refers(id_to_node, tx[t].staged, tx[t].stack[d].ref, tx[t].stack[d].node)
          /\ tx[t].stack[d].node = base \o tx[t].stack[d].out
      BY <3>1, <1>3 DEF WalkOK
    <3>3. tx[t].stack[d].ref \in Refs
      BY <3>1, <1>2, FrameFields
    <3> QED BY <2>2, <3>2, <3>3, <1>12, <1>15
  <2> QED BY <2>1, <2>2, <1>17
<1> DEFINE left == Unfinished(frames)
<1>19. /\ left \in Seq(Frames)
       /\ \A d \in DOMAIN left : d \in DOMAIN frames /\ left[d] = frames[d]
       /\ left # <<>> => left[Len(left)].todo # <<>>
  BY <1>17, UnfinishedTyped
<1> HIDE DEF left
<1>20. /\ r \in Transactions /\ r.state = tx[t].state /\ r.op = tx[t].op
       /\ r.staged = staged /\ r.arcs = tx[t].arcs /\ r.paths = paths /\ r.stack = left
  BY <1>2, <1>11, <1>13, <1>19 DEF Transactions, left
<1> HIDE DEF r
<1>21. WalkOK(id_to_node, r, base)
  <2>1. ASSUME NEW d \in DOMAIN left
        PROVE  /\ Refers(id_to_node, staged, left[d].ref, left[d].node)
               /\ left[d].node = base \o left[d].out
    BY <1>18, <1>19
  <2>2. ASSUME NEW i \in DOMAIN tx[t].arcs
        PROVE  /\ Refers(id_to_node, staged, tx[t].arcs[i].ref, base \o tx[t].arcs[i].output)
               /\ tx[t].arcs[i].pos <= Len(Query)
               /\ tx[t].arcs[i].cost <= MaxCost
    <3>1. tx[t].arcs[i].ref \in Refs
      BY <1>2, ArcFields
    <3>2. /\ Refers(id_to_node, tx[t].staged, tx[t].arcs[i].ref, base \o tx[t].arcs[i].output)
          /\ tx[t].arcs[i].pos <= Len(Query)
          /\ tx[t].arcs[i].cost <= MaxCost
      BY <1>3 DEF WalkOK
    <3> QED BY <3>1, <3>2, <1>12
  <2> QED BY <2>1, <2>2, <1>11, <1>13, <1>19, <1>20 DEF WalkOK
<1>22. r.op <= Len(Operations) => InBudget(Operations[r.op], StateAt(tx[t].state))
  BY <1>1, <1>20, WalkingFacts DEF CurrentOp
<1> QED BY <1>1, <1>20, <1>21, <1>22, WalkGoesOn DEF base

(* An operation is applied to a path.                                      *)
LEMMA ApplyOperationStep ==
    ASSUME ExpansionInv, NEW t \in Threads, ApplyOperation(t), LockDiscipline'
    PROVE  ExpansionInv'
<1> DEFINE product == StateAt(tx[t].state)
           op == CurrentOp(t)
           segment == Segment(product.pos, op.y)
           hits == {i \in PathsOf(t, op.x) : operation_applies(op, tx[t].paths[i].out, segment)}
           chosen == InOrder(hits)
           Arc(i) == [ref |-> tx[t].paths[i].ref, output |-> tx[t].paths[i].out,
                      input |-> segment, pos |-> product.pos + op.y,
                      cost |-> product.cost + op.w, weight |-> op.w]
           new == [k \in DOMAIN chosen |-> Arc(chosen[k])]
           arcs == tx[t].arcs \o new
           next == Affordable(product, tx[t].op + 1)
           r == [tx[t] EXCEPT !.arcs = arcs, !.op = next]
           base == BaseOf(tx[t])
<1>1. Walking(t) /\ pc[t] = "walk" /\ tx[t].op <= Len(Operations) /\ Local(t, r) /\ UNCHANGED pc
  BY DEF ApplyOperation, Walking
<1>2. /\ tx[t] \in Transactions /\ tx[t].paths \in Seq(FoundPaths) /\ tx[t].arcs \in Seq(Arcs)
      /\ tx[t].op \in Nat \ {0}
  BY InvFacts, TransactionFields
<1>3. WalkOK(id_to_node, tx[t], base)
  BY <1>1, WalkingFacts
<1>4. op.x \in Nat /\ op.y \in Nat /\ op.w \in Nat /\ InBudget(op, product)
  BY <1>1, WalkingFacts
<1>5. product \in Products /\ product.pos \in Nat /\ product.cost \in Nat
  BY StartFacts
<1>6. /\ product.pos + op.y \in Nat /\ product.pos + op.y <= Len(Query)
      /\ product.cost + op.w \in Nat /\ product.cost + op.w <= MaxCost
  BY <1>4, <1>5, QueryAssumption, BoundsAssumption, SMTT(30) DEF InBudget
<1>7. segment \in Text
  <2>1. \A m \in 1 .. Len(Query) + 1, n \in 0 .. Len(Query) : SubSeq(Query, m, n) \in Seq(Labels)
    BY QueryAssumption
  <2>2. product.pos + 1 \in 1 .. Len(Query) + 1 /\ product.pos + op.y \in 0 .. Len(Query)
    BY <1>4, <1>5, <1>6, QueryAssumption
  <2> QED BY <2>1, <2>2 DEF Segment, Text
<1>8. hits \subseteq 1 .. Len(tx[t].paths) /\ Len(tx[t].paths) \in Nat
  BY <1>2 DEF PathsOf
<1>9. chosen \in Seq(hits)
  <2> HIDE DEF hits
  <2> QED BY <1>8, InOrderTyped
<1> HIDE DEF hits, product, op, segment
<1>10. /\ DOMAIN chosen = 1 .. Len(chosen) /\ Len(chosen) \in Nat
       /\ \A k \in DOMAIN chosen : chosen[k] \in DOMAIN tx[t].paths
  <2>1. DOMAIN tx[t].paths = 1 .. Len(tx[t].paths)
    BY <1>2
  <2> HIDE DEF chosen
  <2>2. /\ DOMAIN chosen = 1 .. Len(chosen) /\ Len(chosen) \in Nat
        /\ \A k \in DOMAIN chosen : chosen[k] \in hits
    BY <1>9
  <2> QED BY <1>8, <2>1, <2>2
<1> HIDE DEF chosen
<1>11. ASSUME NEW i \in DOMAIN tx[t].paths
       PROVE  /\ Arc(i) \in Arcs
              /\ Refers(id_to_node, tx[t].staged, Arc(i).ref, base \o Arc(i).output)
              /\ Arc(i).pos <= Len(Query) /\ Arc(i).cost <= MaxCost
  <2>1. tx[t].paths[i].ref \in Refs /\ tx[t].paths[i].out \in Text
    BY <1>2, PathFields
  <2>2. Refers(id_to_node, tx[t].staged, tx[t].paths[i].ref, base \o tx[t].paths[i].out)
    BY <1>3 DEF WalkOK
  <2>3. Arc(i) \in Arcs
    BY <2>1, <1>4, <1>6, <1>7 DEF Arcs
  <2> QED BY <2>2, <2>3, <1>6
<1> HIDE DEF Arc, base
<1>12. /\ new \in Seq(Arcs) /\ Len(new) = Len(chosen)
       /\ \A k \in 1 .. Len(new) : \E i \in DOMAIN tx[t].paths : new[k] = Arc(i)
  BY <1>10, <1>11
<1> HIDE DEF new
<1>13. /\ arcs \in Seq(Arcs)
       /\ \A i \in DOMAIN arcs :
             \/ i \in DOMAIN tx[t].arcs /\ arcs[i] = tx[t].arcs[i]
             \/ \E k \in 1 .. Len(new) : arcs[i] = new[k]
  <2>1. /\ arcs \in Seq(Arcs)
        /\ Len(arcs) = Len(tx[t].arcs) + Len(new)
        /\ \A i \in 1 .. Len(tx[t].arcs) : arcs[i] = tx[t].arcs[i]
        /\ \A k \in 1 .. Len(new) : arcs[Len(tx[t].arcs) + k] = new[k]
        /\ \A i \in 1 .. Len(tx[t].arcs) + Len(new) :
              i \in 1 .. Len(tx[t].arcs) \/ \E k \in 1 .. Len(new) : i = Len(tx[t].arcs) + k
    <3> DEFINE a == tx[t].arcs
    <3>1. a \in Seq(Arcs) /\ new \in Seq(Arcs)
      BY <1>2, <1>12
    <3> HIDE DEF a
    <3>2. /\ a \o new \in Seq(Arcs)
          /\ Len(a \o new) = Len(a) + Len(new)
          /\ \A i \in 1 .. Len(a) : (a \o new)[i] = a[i]
          /\ \A k \in 1 .. Len(new) : (a \o new)[Len(a) + k] = new[k]
          /\ \A i \in 1 .. Len(a) + Len(new) :
                i \in 1 .. Len(a) \/ \E k \in 1 .. Len(new) : i = Len(a) + k
      BY <3>1, ConcatShape
    <3> QED BY <3>2 DEF a
  <2>2. DOMAIN arcs = 1 .. Len(arcs) /\ DOMAIN tx[t].arcs = 1 .. Len(tx[t].arcs)
    <3> HIDE DEF arcs
    <3> QED BY <2>1, <1>2
  <2> HIDE DEF arcs
  <2> QED BY <2>1, <2>2
<1>14. /\ next \in Nat \ {0}
       /\ next <= Len(Operations) => InBudget(Operations[next], product)
  BY <1>2, <1>5, AffordableResult
<1> HIDE DEF arcs, next
<1>15. /\ r \in Transactions /\ r.state = tx[t].state /\ r.op = next /\ r.staged = tx[t].staged
       /\ r.arcs = arcs /\ r.paths = tx[t].paths /\ r.stack = tx[t].stack
  BY <1>2, <1>13, <1>14 DEF Transactions
<1> HIDE DEF r
<1>16. WalkOK(id_to_node, r, base)
  <2>1. ASSUME NEW i \in DOMAIN arcs
        PROVE  /\ Refers(id_to_node, tx[t].staged, arcs[i].ref, base \o arcs[i].output)
               /\ arcs[i].pos <= Len(Query) /\ arcs[i].cost <= MaxCost
    BY <1>3, <1>11, <1>12, <1>13 DEF WalkOK
  <2> QED BY <2>1, <1>3, <1>15 DEF WalkOK
<1> QED BY <1>1, <1>14, <1>15, <1>16, WalkGoesOn DEF base, product

----------------------------------------------------------------------------
(* The commit protocol                                                     *)

(* What holds from the end of the walk to the publication.                 *)
LEMMA CommitFacts ==
    ASSUME ExpansionInv, NEW t \in Threads, pc[t] \in {"commit", "resolve", "retire", "batch"}
    PROVE  /\ WalkOK(id_to_node, tx[t], BaseOf(tx[t]))
           /\ tx[t].state < Len(id_to_state)
           /\ id_to_state[tx[t].state + 1].kind = "product"
           /\ pc[t] \in {"resolve", "batch"} => ResolutionOK(id_to_node, tx[t])
           /\ pc[t] = "batch" => PreparationOK(id_to_node, id_to_state, tx[t])
BY InvFacts DEF TransactionOK, BaseOf, StateAt, NodeAt

(* Nothing changed.                                                        *)
LEMMA SameRefl ==
    ASSUME NEW s
    PROVE  SameNodes(s, s) /\ SameStaging(s, s)
<1>1. SameNodes(s, s)
  BY DEF SameNodes
<1> QED BY <1>1 DEF SameStaging

(* The transaction r that follows tx[t] and walked what it walked.         *)
LEMMA CommitGoesOn ==
    ASSUME ExpansionInv, NEW t \in Threads, pc[t] \in {"commit", "resolve", "retire", "batch"},
           NEW r \in Transactions, NEW p \in {"commit", "resolve", "retire", "batch"},
           r.state = tx[t].state,
           r.stack = tx[t].stack, r.paths = tx[t].paths, r.arcs = tx[t].arcs,
           SameStaging(tx[t].staged, r.staged), Len(r.staged) = Len(tx[t].staged),
           p \in {"resolve", "batch"} => ResolutionOK(id_to_node, r),
           p = "batch" => PreparationOK(id_to_node, id_to_state, r)
    PROVE  TransactionOK(id_to_node, id_to_state, r, p)
<1>1. /\ id_to_node \in Seq(Nodes) /\ tx[t] \in Transactions
      /\ SameNodes(id_to_node, id_to_node)
  BY InvFacts, SameRefl
<1>2. WalkOK(id_to_node, tx[t], BaseOf(tx[t]))
  BY CommitFacts
<1>3. WalkOK(id_to_node, r, BaseOf(tx[t]))
  BY <1>1, <1>2, WalkPersists
<1>4. tx[t].state < Len(id_to_state) /\ id_to_state[tx[t].state + 1].kind = "product"
  BY CommitFacts
<1> QED BY <1>3, <1>4 DEF TransactionOK, BaseOf, StateAt, NodeAt

(* The registry of nodes is locked.                                        *)
LEMMA LockNodesStep ==
    ASSUME ExpansionInv, NEW t \in Threads, LockNodes(t), LockDiscipline'
    PROVE  ExpansionInv'
<1> DEFINE passes == IF tx[t].passes > MaxPasses(t) THEN tx[t].passes ELSE tx[t].passes + 1
           r == [tx[t] EXCEPT !.resolved = <<>>, !.additions = <<>>, !.passes = passes]
<1>1. pc[t] = "commit" /\ Local(t, r) /\ Goto(t, "resolve") /\ UNCHANGED registries
  BY DEF LockNodes
<1>2. tx[t] \in Transactions /\ id_to_node \in Seq(Nodes) /\ tx[t].passes \in Nat
      /\ tx[t].staged \in Seq(StagedNodes)
  BY InvFacts, TransactionFields
<1>3. <<>> \in Seq(Nat) /\ <<>> \in Seq(Additions) /\ passes \in Nat
  BY <1>2
<1> HIDE DEF passes
<1>4. /\ r \in Transactions /\ r.state = tx[t].state /\ r.stack = tx[t].stack
      /\ r.paths = tx[t].paths /\ r.arcs = tx[t].arcs /\ r.staged = tx[t].staged
      /\ r.resolved = <<>> /\ r.additions = <<>>
  BY <1>2, <1>3 DEF Transactions
<1> HIDE DEF r
<1>5. ResolutionOK(id_to_node, r)
  <2>1. Published(id_to_node, r.additions) = id_to_node
    BY <1>2, <1>3, <1>4, PublishedShape
  <2> QED BY <2>1, <1>2, <1>4 DEF ResolutionOK, ExpansionInv, RegistriesOK
<1>6. TransactionOK(id_to_node, id_to_state, r, "resolve")
  BY <1>1, <1>4, <1>5, CommitGoesOn, SameRefl
<1> QED BY <1>1, <1>4, <1>6, LocalMove

(* It is unlocked to drop what was replaced.                               *)
LEMMA ReleaseToRetireStep ==
    ASSUME ExpansionInv, NEW t \in Threads, ReleaseToRetire(t), LockDiscipline'
    PROVE  ExpansionInv'
<1> DEFINE r == [tx[t] EXCEPT !.additions = <<>>]
<1>1. pc[t] = "resolve" /\ Local(t, r) /\ Goto(t, "retire") /\ UNCHANGED registries
  BY DEF ReleaseToRetire, AllResolved
<1>2. tx[t] \in Transactions /\ <<>> \in Seq(Additions)
  BY InvFacts
<1>3. /\ r \in Transactions /\ r.state = tx[t].state /\ r.stack = tx[t].stack
      /\ r.paths = tx[t].paths /\ r.arcs = tx[t].arcs /\ r.staged = tx[t].staged
  BY <1>2 DEF Transactions
<1> HIDE DEF r
<1>4. TransactionOK(id_to_node, id_to_state, r, "retire")
  BY <1>1, <1>3, CommitGoesOn, SameRefl
<1> QED BY <1>1, <1>3, <1>4, LocalMove

(* The commit starts again.                                                *)
LEMMA RetryStep ==
    ASSUME ExpansionInv, NEW t \in Threads, Retry(t), LockDiscipline'
    PROVE  ExpansionInv'
<1> DEFINE r == [tx[t] EXCEPT !.retired = FALSE]
<1>1. pc[t] = "retire" /\ Local(t, r) /\ Goto(t, "commit") /\ UNCHANGED registries
  BY DEF Retry
<1>2. tx[t] \in Transactions
  BY InvFacts
<1>3. /\ r \in Transactions /\ r.state = tx[t].state /\ r.stack = tx[t].stack
      /\ r.paths = tx[t].paths /\ r.arcs = tx[t].arcs /\ r.staged = tx[t].staged
  BY <1>2 DEF Transactions
<1> HIDE DEF r
<1>4. TransactionOK(id_to_node, id_to_state, r, "commit")
  BY <1>1, <1>3, CommitGoesOn, SameRefl
<1> QED BY <1>1, <1>3, <1>4, LocalMove

(* The registry of states is locked as well.                               *)
LEMMA LockStatesStep ==
    ASSUME ExpansionInv, NEW t \in Threads, LockStates(t), LockDiscipline'
    PROVE  ExpansionInv'
<1> DEFINE r == [tx[t] EXCEPT !.batch = <<>>, !.transitions = <<>>]
<1>1. /\ pc[t] = "resolve" /\ Local(t, r) /\ Goto(t, "batch") /\ UNCHANGED registries
      /\ Len(tx[t].resolved) = Len(tx[t].staged)
  BY DEF LockStates, AllResolved
<1>2. /\ tx[t] \in Transactions /\ <<>> \in Seq(States) /\ <<>> \in Seq(Transitions)
      /\ id_to_node \in Seq(Nodes) /\ id_to_state \in Seq(States)
      /\ tx[t].additions \in Seq(Additions)
  BY InvFacts, TransactionFields
<1>3. /\ r \in Transactions /\ r.state = tx[t].state /\ r.stack = tx[t].stack
      /\ r.paths = tx[t].paths /\ r.arcs = tx[t].arcs /\ r.staged = tx[t].staged
      /\ r.resolved = tx[t].resolved /\ r.additions = tx[t].additions
      /\ r.batch = <<>> /\ r.transitions = <<>>
  BY <1>2 DEF Transactions
<1> HIDE DEF r
<1>4. ResolutionOK(id_to_node, r)
  BY <1>1, <1>3, CommitFacts DEF ResolutionOK
<1>5. id_to_state \o r.batch = id_to_state
  BY <1>2, <1>3
<1>6. StatesOK(id_to_state, Len(Published(id_to_node, r.additions)))
  <2> DEFINE m == Len(Published(id_to_node, r.additions))
  <2>1. Len(id_to_node) \in Nat /\ m \in Nat /\ Len(id_to_node) <= m
    <3>1. Len(Published(id_to_node, tx[t].additions)) = Len(id_to_node) + Len(tx[t].additions)
      BY <1>2, PublishedShape
    <3>2. m = Len(id_to_node) + Len(tx[t].additions)
      BY <3>1, <1>3
    <3> HIDE DEF m
    <3> QED BY <1>2, <3>2
  <2>2. StatesOK(id_to_state, Len(id_to_node))
    BY DEF ExpansionInv, RegistriesOK
  <2> HIDE DEF m
  <2>3. StatesOK(id_to_state, m)
    BY <1>2, <2>1, <2>2, StatesOKMonotone
  <2> QED BY <2>3 DEF m
<1>7. PreparationOK(id_to_node, id_to_state, r)
  BY <1>1, <1>3, <1>5, <1>6 DEF PreparationOK, ExpansionInv, RegistriesOK
<1>8. TransactionOK(id_to_node, id_to_state, r, "batch")
  BY <1>1, <1>3, <1>4, <1>7, CommitGoesOn, SameRefl
<1> QED BY <1>1, <1>3, <1>8, LocalMove

(* A panic unwinds the transaction.                                        *)
LEMMA UnwindStep ==
    ASSUME ExpansionInv, NEW t \in Threads, Unwind(t), LockDiscipline'
    PROVE  ExpansionInv'
<1>1. UNCHANGED <<registries, tx>> /\ Goto(t, "unwind")
  BY DEF Unwind
<1>2. TransactionOK(id_to_node, id_to_state, tx[t], "unwind")
  BY InvFacts DEF TransactionOK
<1> QED BY <1>1, <1>2, Move

(* An unwound transaction is over.                                         *)
LEMMA UnwoundStep ==
    ASSUME ExpansionInv, NEW t \in Threads, Unwound(t), LockDiscipline'
    PROVE  ExpansionInv'
<1>1. UNCHANGED registries /\ Local(t, NoTx) /\ Goto(t, "idle")
  BY DEF Unwound
<1>2. TransactionOK(id_to_node, id_to_state, NoTx, "idle")
  <2>1. 0 < Len(id_to_state) /\ id_to_state[1].kind = "product"
    BY InvFacts DEF ExpansionInv, RegistriesOK, StatesOK
  <2> QED BY <2>1, NoTxTyped DEF TransactionOK
<1> QED BY <1>1, <1>2, NoTxTyped, LocalMove

(* A resolved reference is the id of the node that it refers to.           *)
LEMMA ResolvedNode ==
    ASSUME NEW nodes \in Seq(Nodes), NEW r \in Transactions, ResolutionOK(nodes, r),
           NEW ref \in Refs, NEW path, Refers(nodes, r.staged, ref, path),
           ref.kind = "staged" => ref.at <= Len(r.resolved)
    PROVE  LET id == resolved_node(ref, r.resolved)
               published == Published(nodes, r.additions)
           IN  /\ id \in Nat
               /\ id < Len(published)
               /\ published[id + 1].node = path
<1> DEFINE published == Published(nodes, r.additions)
           id == resolved_node(ref, r.resolved)
<1>1. /\ r.staged \in Seq(StagedNodes) /\ r.resolved \in Seq(Nat) /\ r.additions \in Seq(Additions)
      /\ ref.at \in Nat /\ ref.kind \in {"registered", "staged"}
      /\ Len(nodes) \in Nat /\ Len(r.resolved) \in Nat /\ Len(r.staged) \in Nat
      /\ Len(r.additions) \in Nat
  BY TransactionFields DEF Refs
<1>2. /\ published \in Seq(Nodes) /\ Len(published) = Len(nodes) + Len(r.additions)
      /\ \A i \in 1 .. Len(nodes) : published[i] = nodes[i]
  BY <1>1, PublishedShape
<1> HIDE DEF published
<1>3. CASE ref.kind = "registered"
  <2>1. id = ref.at /\ ref.at < Len(nodes) /\ nodes[ref.at + 1].node = path
    BY <1>3 DEF resolved_node, Refers, NodeOf
  <2>2. ref.at + 1 \in 1 .. Len(nodes)
    BY <1>1, <2>1
  <2> HIDE DEF id
  <2> QED BY <1>1, <1>2, <2>1, <2>2 DEF published, id
<1>4. CASE ref.kind = "staged"
  <2>1. ref.at \in DOMAIN r.staged /\ r.staged[ref.at].node = path /\ id = r.resolved[ref.at]
    BY <1>4 DEF resolved_node, Refers, NodeOf
  <2>2. ref.at \in DOMAIN r.resolved
    BY <1>1, <1>4, <2>1
  <2>3. r.resolved[ref.at] \in Nat
    BY <1>1, <2>2
  <2>4. /\ r.resolved[ref.at] < Len(published)
        /\ published[r.resolved[ref.at] + 1].node = r.staged[ref.at].node
    BY <2>2 DEF ResolutionOK, published
  <2> HIDE DEF id
  <2> QED BY <2>1, <2>3, <2>4 DEF published, id
<1> QED BY <1>1, <1>3, <1>4

(* The staged node in line and the key it resolves to.                     *)
LEMMA ResolvingFacts ==
    ASSUME ExpansionInv, NEW t \in Threads, pc[t] = "resolve",
           Len(tx[t].resolved) < Len(tx[t].staged)
    PROVE  LET s == tx[t].staged[NextStaged(t)]
               p == resolved_node(s.parent, tx[t].resolved)
               published == Published(id_to_node, tx[t].additions)
           IN  /\ NextStaged(t) \in DOMAIN tx[t].staged
               /\ s \in StagedNodes /\ s.label \in Labels /\ s.node \in DictNodes
               /\ s.owner \in Owners
               /\ p \in Nat /\ p < Len(published)
               /\ StagedKey(t) = <<p, s.label>>
               /\ s.node = Append(published[p + 1].node, s.label)
<1> DEFINE k == NextStaged(t)
           s == tx[t].staged[k]
           p == resolved_node(s.parent, tx[t].resolved)
           published == Published(id_to_node, tx[t].additions)
           path == NodeOf(id_to_node, tx[t].staged, s.parent)
<1>1. /\ tx[t] \in Transactions /\ id_to_node \in Seq(Nodes)
      /\ tx[t].staged \in Seq(StagedNodes) /\ tx[t].resolved \in Seq(Nat)
  BY InvFacts, TransactionFields
<1>2. k \in DOMAIN tx[t].staged /\ k = Len(tx[t].resolved) + 1 /\ Len(tx[t].resolved) \in Nat
  BY <1>1 DEF NextStaged
<1>3. /\ s \in StagedNodes /\ s.parent \in Refs /\ s.label \in Labels /\ s.node \in DictNodes
      /\ s.owner \in Owners
  BY <1>1, <1>2, StagedFields
<1>4. WalkOK(id_to_node, tx[t], BaseOf(tx[t])) /\ ResolutionOK(id_to_node, tx[t])
  BY CommitFacts
<1>5. /\ Refers(id_to_node, tx[t].staged, s.parent, path)
      /\ s.parent.kind = "staged" => s.parent.at < k
      /\ s.node = Append(path, s.label)
  BY <1>2, <1>4 DEF WalkOK, StagingOK
<1>6. s.parent.kind = "staged" => s.parent.at <= Len(tx[t].resolved)
  <2>1. s.parent.at \in Nat
    BY <1>3 DEF Refs
  <2> HIDE DEF s, k
  <2> QED BY <1>2, <1>5, <2>1
<1>7. p \in Nat /\ p < Len(published) /\ published[p + 1].node = path
  <2> DEFINE ref == s.parent
             r == tx[t]
  <2>1. /\ r \in Transactions /\ ResolutionOK(id_to_node, r) /\ ref \in Refs
        /\ Refers(id_to_node, r.staged, ref, path)
        /\ ref.kind = "staged" => ref.at <= Len(r.resolved)
    BY <1>1, <1>3, <1>4, <1>5, <1>6
  <2>2. p = resolved_node(ref, r.resolved) /\ published = Published(id_to_node, r.additions)
    OBVIOUS
  <2> HIDE DEF s, path, ref, r, p, published
  <2> QED BY <2>1, <2>2, <1>1, ResolvedNode
<1>8. StagedKey(t) = <<p, s.label>>
  BY DEF StagedKey, ChildKey
<1> HIDE DEF s, p, published, path
<1>9. s.node = Append(published[p + 1].node, s.label)
  BY <1>5, <1>7
<1> QED BY <1>2, <1>3, <1>7, <1>8, <1>9 DEF s, p, published

(* What AdoptCanonical adopts: a registered node, or one of its additions. *)
LEMMA AdoptFacts ==
    ASSUME ExpansionInv, NEW t \in Threads, AdoptCanonical(t)
    PROVE  LET k     == NextStaged(t)
               old   == tx[t].staged
               id    == CanonicalId(t, StagedKey(t))
               owner == CanonicalOwner(t, StagedKey(t))
               nodes == Published(id_to_node, tx[t].additions)
           IN  /\ pc[t] = "resolve" /\ UNCHANGED <<registries, pc>>
               /\ Len(tx[t].resolved) < Len(old)
               /\ k \in DOMAIN old /\ k = Len(tx[t].resolved) + 1
               /\ id \in Nat /\ id < Len(nodes) /\ nodes[id + 1].node = old[k].node
               /\ owner \in Owners
               /\ \/ id < Len(id_to_node) /\ owner = RegistryOwner(id)
                  \/ \E a \in DOMAIN tx[t].additions :
                        /\ id = Len(id_to_node) + a - 1
                        /\ owner = tx[t].additions[a].owner
               /\ \E r \in Transactions :
                     /\ Local(t, r)
                     /\ r.state = tx[t].state /\ r.stack = tx[t].stack
                     /\ r.paths = tx[t].paths /\ r.arcs = tx[t].arcs
                     /\ r.additions = tx[t].additions /\ r.passes = tx[t].passes
                     /\ r.retired = (tx[t].retired \/ old[k].owner # owner)
                     /\ SameStaging(old, r.staged) /\ Len(r.staged) = Len(old)
                     /\ \A i \in DOMAIN old :
                           r.staged[i].owner = IF i = k THEN owner ELSE old[i].owner
                     /\ r.resolved = Append(tx[t].resolved, id)
                     /\ Len(r.resolved) = k
                     /\ \A i \in DOMAIN r.resolved : i \in DOMAIN tx[t].resolved \/ i = k
                     /\ \A i \in DOMAIN tx[t].resolved : r.resolved[i] = tx[t].resolved[i]
                     /\ r.resolved[k] = id
<1> DEFINE key == StagedKey(t)
           owner == CanonicalOwner(t, key)
           k == NextStaged(t)
           s == tx[t].staged[k]
           p == resolved_node(s.parent, tx[t].resolved)
           id == CanonicalId(t, key)
           nodes == Published(id_to_node, tx[t].additions)
           n == Len(id_to_node)
           retired == tx[t].retired \/ Replaces(t, owner)
           s2 == [s EXCEPT !.owner = owner]
           staged == [tx[t].staged EXCEPT ![k] = s2]
           resolved == Append(tx[t].resolved, id)
           r == [tx[t] EXCEPT !.retired = retired, !.staged = staged, !.resolved = resolved]
<1>1. /\ pc[t] = "resolve" /\ Len(tx[t].resolved) < Len(tx[t].staged) /\ IsCanonical(t, key)
      /\ UNCHANGED <<registries, pc>>
  BY DEF AdoptCanonical, Resolving
<1>2. /\ tx[t] \in Transactions /\ id_to_node \in Seq(Nodes)
      /\ tx[t].staged \in Seq(StagedNodes) /\ tx[t].resolved \in Seq(Nat)
      /\ tx[t].additions \in Seq(Additions) /\ tx[t].retired \in BOOLEAN
      /\ n \in Nat /\ DOMAIN id_to_node = 1 .. n
  BY InvFacts, TransactionFields
<1>3. /\ k \in DOMAIN tx[t].staged /\ s \in StagedNodes /\ s.label \in Labels
      /\ p \in Nat /\ p < Len(nodes) /\ key = <<p, s.label>>
      /\ s.node = Append(nodes[p + 1].node, s.label)
  BY <1>1, ResolvingFacts
<1>4. /\ nodes \in Seq(Nodes) /\ Len(nodes) = n + Len(tx[t].additions)
      /\ \A i \in 1 .. n : nodes[i] = id_to_node[i]
      /\ \A i \in 1 .. Len(tx[t].additions) :
            nodes[n + i] = [key |-> tx[t].additions[i].key, node |-> tx[t].additions[i].node]
      /\ DOMAIN nodes = 1 .. Len(nodes)
  <2>1. /\ nodes \in Seq(Nodes) /\ Len(nodes) = n + Len(tx[t].additions)
        /\ \A i \in 1 .. n : nodes[i] = id_to_node[i]
        /\ \A i \in 1 .. Len(tx[t].additions) :
              nodes[n + i] = [key |-> tx[t].additions[i].key, node |-> tx[t].additions[i].node]
    BY <1>2, PublishedShape
  <2> HIDE DEF nodes
  <2> QED BY <2>1
<1>5. ResolutionOK(id_to_node, tx[t])
  BY <1>1, CommitFacts
<1>6. CanonicalNodes(nodes) /\ Len(nodes) <= MaxNodes
  BY <1>5 DEF ResolutionOK
<1>7. /\ id \in Nat /\ id < Len(nodes) /\ nodes[id + 1].key = key
      /\ owner \in Owners
      /\ \/ id < n /\ owner = RegistryOwner(id)
         \/ \E a \in DOMAIN tx[t].additions : id = n + a - 1 /\ owner = tx[t].additions[a].owner
  <2>1. CASE HasKey(key)
    <3>1. IdOfKey(key) \in NodeIds /\ id_to_node[IdOfKey(key) + 1].key = key
      BY <2>1, KeyLookup
    <3>2. id = IdOfKey(key) /\ owner = RegistryOwner(IdOfKey(key))
      BY <2>1 DEF CanonicalId, CanonicalOwner
    <3> HIDE DEF id, owner, nodes, key
    <3>3. id \in Nat /\ id + 1 \in 1 .. n /\ id_to_node[id + 1].key = key
      BY <3>1, <3>2, <1>2 DEF NodeIds
    <3>4. Len(tx[t].additions) \in Nat
      BY <1>2
    <3>5. owner \in Owners
      BY <3>2, <3>3 DEF RegistryOwner, Owners
    <3> QED BY <3>2, <3>3, <3>4, <3>5, <1>2, <1>4
  <2>2. CASE ~ HasKey(key)
    <3> DEFINE a == Addition(t, key)
    <3>1. AddedWith(t, key) # {}
      BY <1>1, <2>2 DEF IsCanonical
    <3>2. a \in AddedWith(t, key)
      <4> HIDE DEF key
      <4> QED BY <3>1 DEF Addition
    <3>3. a \in 1 .. Len(tx[t].additions) /\ tx[t].additions[a].key = key
      BY <3>2, <1>2 DEF AddedWith
    <3>4. id = n + a - 1 /\ owner = tx[t].additions[a].owner
      BY <2>2 DEF CanonicalId, CanonicalOwner
    <3> HIDE DEF id, owner, nodes, key, a
    <3>5. tx[t].additions[a] \in Additions
      BY <3>3, <1>2
    <3>6. owner \in Owners
      BY <3>4, <3>5 DEF Additions
    <3>7. id \in Nat /\ id < Len(nodes) /\ id + 1 = n + a
      BY <3>3, <3>4, <1>2, <1>4
    <3>8. nodes[n + a] = [key |-> tx[t].additions[a].key, node |-> tx[t].additions[a].node]
      BY <3>3, <1>4
    <3>9. nodes[n + a].key = key
      BY <3>3, <3>8
    <3>10. \E b \in DOMAIN tx[t].additions : id = n + b - 1 /\ owner = tx[t].additions[b].owner
      BY <3>3, <3>4, <1>2
    <3> QED BY <3>6, <3>7, <3>9, <3>10
  <2> QED BY <2>1, <2>2
<1> HIDE DEF id, owner, nodes, n, p
<1>8. nodes[id + 1].node = s.node
  <2>1. id + 1 \in DOMAIN nodes
    BY <1>4, <1>7
  <2>2. nodes[id + 1].node = Append(nodes[p + 1].node, s.label)
    <3> DEFINE l == s.label
               j == id + 1
    <3>1. j \in DOMAIN nodes /\ nodes[j].key = <<p, l>> /\ l \in Labels
      BY <2>1, <1>3, <1>7
    <3> HIDE DEF l, j
    <3>2. nodes[j].node = Append(nodes[p + 1].node, l)
      BY <3>1, <1>3, <1>4, <1>6, KeyNode
    <3> QED BY <3>2 DEF l, j
  <2> QED BY <2>2, <1>3
<1>9. Local(t, r)
  <2>1. Local(t, [tx[t] EXCEPT !.retired = @ \/ Replaces(t, owner),
                               !.staged[k].owner = owner,
                               !.resolved = Append(@, id)])
    BY DEF AdoptCanonical, owner, id
  <2>2. [tx[t] EXCEPT !.retired = @ \/ Replaces(t, owner),
                      !.staged[k].owner = owner,
                      !.resolved = Append(@, id)] = r
    <3> HIDE DEF key
    <3> QED BY <1>2, <1>3 DEF Transactions
  <2> QED BY <2>1, <2>2
<1> HIDE DEF key
<1>10. /\ s2 \in StagedNodes /\ s2.parent = s.parent /\ s2.label = s.label /\ s2.node = s.node
      /\ s2.owner = owner
  BY <1>3, <1>7 DEF StagedNodes
<1> HIDE DEF s2
<1>11. /\ staged \in Seq(StagedNodes) /\ Len(staged) = Len(tx[t].staged)
       /\ \A i \in DOMAIN tx[t].staged : staged[i] = IF i = k THEN s2 ELSE tx[t].staged[i]
  BY <1>2, <1>3, <1>10, ReplaceShape
<1> HIDE DEF staged
<1>12. SameNodes(tx[t].staged, staged) /\ SameStaging(tx[t].staged, staged)
  <2>1. SameNodes(tx[t].staged, staged)
    BY <1>10, <1>11 DEF SameNodes
  <2> QED BY <2>1, <1>10, <1>11 DEF SameStaging
<1>13. /\ resolved \in Seq(Nat) /\ Len(resolved) = k
       /\ \A i \in DOMAIN resolved : i \in DOMAIN tx[t].resolved \/ i = k
       /\ \A i \in DOMAIN tx[t].resolved : resolved[i] = tx[t].resolved[i]
       /\ resolved[k] = id
  <2> DEFINE old == tx[t].resolved
  <2>1. old \in Seq(Nat) /\ k = Len(old) + 1
    BY <1>2 DEF NextStaged
  <2> HIDE DEF old, k
  <2>2. /\ Append(old, id) \in Seq(Nat)
        /\ Len(Append(old, id)) = Len(old) + 1
        /\ \A i \in DOMAIN old : i \in DOMAIN Append(old, id) /\ Append(old, id)[i] = old[i]
        /\ Append(old, id)[Len(old) + 1] = id
        /\ \A i \in DOMAIN Append(old, id) : i \in DOMAIN old \/ i = Len(old) + 1
    BY <2>1, <1>7, AppendShape
  <2>3. resolved = Append(old, id)
    BY DEF old
  <2> HIDE DEF resolved
  <2> QED BY <2>1, <2>2, <2>3 DEF old
<1>14. retired \in BOOLEAN
  BY <1>2
<1> HIDE DEF resolved, retired
<1>15. /\ r \in Transactions /\ r.state = tx[t].state /\ r.stack = tx[t].stack
       /\ r.paths = tx[t].paths /\ r.arcs = tx[t].arcs /\ r.staged = staged
       /\ r.resolved = resolved /\ r.additions = tx[t].additions
       /\ r.retired = retired /\ r.passes = tx[t].passes
  BY <1>2, <1>11, <1>13, <1>14 DEF Transactions
<1> HIDE DEF r
<1>16. \A i \in DOMAIN tx[t].staged :
          staged[i].owner = IF i = k THEN owner ELSE tx[t].staged[i].owner
  BY <1>10, <1>11
<1>17. k = Len(tx[t].resolved) + 1
  BY DEF NextStaged
<1>18. retired = (tx[t].retired \/ s.owner # owner)
  BY DEF retired, Replaces
<1>19. resolved = Append(tx[t].resolved, id)
  BY DEF resolved
<1> HIDE DEF s, k
<1> DEFINE old == tx[t].staged
<1>20. \E x \in Transactions :
          /\ Local(t, x)
          /\ x.state = tx[t].state /\ x.stack = tx[t].stack
          /\ x.paths = tx[t].paths /\ x.arcs = tx[t].arcs
          /\ x.additions = tx[t].additions /\ x.passes = tx[t].passes
          /\ x.retired = (tx[t].retired \/ old[k].owner # owner)
          /\ SameStaging(old, x.staged) /\ Len(x.staged) = Len(old)
          /\ \A i \in DOMAIN old :
                x.staged[i].owner = IF i = k THEN owner ELSE old[i].owner
          /\ x.resolved = Append(tx[t].resolved, id)
          /\ Len(x.resolved) = k
          /\ \A i \in DOMAIN x.resolved : i \in DOMAIN tx[t].resolved \/ i = k
          /\ \A i \in DOMAIN tx[t].resolved : x.resolved[i] = tx[t].resolved[i]
          /\ x.resolved[k] = id
  <2>1. s = old[k]
    BY DEF s
  <2>2. r \in Transactions
    BY <1>15
  <2> HIDE DEF old
  <2> USE <2>2
  <2> WITNESS r \in Transactions
  <2> QED BY <2>1, <1>9, <1>11, <1>12, <1>13, <1>15, <1>16, <1>18, <1>19 DEF old
<1> QED BY <1>1, <1>3, <1>7, <1>8, <1>17, <1>20 DEF id, owner, nodes, n, s, k, key

(* A node another thread published first is adopted.                       *)
LEMMA AdoptCanonicalStep ==
    ASSUME ExpansionInv, NEW t \in Threads, AdoptCanonical(t), LockDiscipline'
    PROVE  ExpansionInv'
<1> DEFINE k == NextStaged(t)
           old == tx[t].staged
           id == CanonicalId(t, StagedKey(t))
           nodes == Published(id_to_node, tx[t].additions)
<1>1. /\ pc[t] = "resolve" /\ UNCHANGED <<registries, pc>>
      /\ Len(tx[t].resolved) < Len(old) /\ k \in DOMAIN old
      /\ id < Len(nodes) /\ nodes[id + 1].node = old[k].node
  BY AdoptFacts
<1>2. PICK r \in Transactions :
         /\ Local(t, r)
         /\ r.state = tx[t].state /\ r.stack = tx[t].stack
         /\ r.paths = tx[t].paths /\ r.arcs = tx[t].arcs
         /\ r.additions = tx[t].additions
         /\ SameStaging(old, r.staged) /\ Len(r.staged) = Len(old)
         /\ Len(r.resolved) = k
         /\ \A i \in DOMAIN r.resolved : i \in DOMAIN tx[t].resolved \/ i = k
         /\ \A i \in DOMAIN tx[t].resolved : r.resolved[i] = tx[t].resolved[i]
         /\ r.resolved[k] = id
  BY AdoptFacts
<1>3. old \in Seq(StagedNodes) /\ tx[t].resolved \in Seq(Nat)
  BY InvFacts, TransactionFields
<1>4. ResolutionOK(id_to_node, tx[t])
  BY <1>1, CommitFacts
<1> HIDE DEF id, nodes, k
<1>5. ResolutionOK(id_to_node, r)
  <2>1. Len(r.resolved) <= Len(r.staged)
    BY <1>1, <1>2, <1>3
  <2>2. ASSUME NEW i \in DOMAIN r.resolved
        PROVE  /\ r.resolved[i] < Len(nodes)
               /\ nodes[r.resolved[i] + 1].node = r.staged[i].node
    <3>1. i \in DOMAIN old
      BY <1>1, <1>2, <1>3
    <3>2. r.staged[i].node = old[i].node
      BY <3>1, <1>2 DEF SameStaging, SameNodes
    <3>3. CASE i = k
      BY <3>2, <3>3, <1>1, <1>2
    <3>4. CASE i \in DOMAIN tx[t].resolved
      BY <3>2, <3>4, <1>2, <1>4 DEF ResolutionOK, nodes
    <3> QED BY <3>3, <3>4, <1>2
  <2> QED BY <2>1, <2>2, <1>2, <1>4 DEF ResolutionOK, nodes
<1>6. TransactionOK(id_to_node, id_to_state, r, "resolve")
  BY <1>1, <1>2, <1>5, CommitGoesOn
<1> QED BY <1>1, <1>2, <1>6, LocalStay

(* What AddNode adds: a node that is not in the registry under any key.    *)
LEMMA AddFacts ==
    ASSUME ExpansionInv, NEW t \in Threads, AddNode(t)
    PROVE  LET k     == NextStaged(t)
               old   == tx[t].staged
               nodes == Published(id_to_node, tx[t].additions)
               n     == Len(tx[t].additions)
           IN  /\ pc[t] = "resolve" /\ UNCHANGED <<registries, pc>>
               /\ Len(tx[t].resolved) < Len(old)
               /\ k \in DOMAIN old /\ k = Len(tx[t].resolved) + 1
               /\ \A i \in DOMAIN nodes : nodes[i].node # old[k].node
               /\ \E r \in Transactions :
                     LET more == Published(id_to_node, r.additions)
                     IN  /\ Local(t, r)
                         /\ r.state = tx[t].state /\ r.stack = tx[t].stack
                         /\ r.paths = tx[t].paths /\ r.arcs = tx[t].arcs
                         /\ r.staged = old /\ r.passes = tx[t].passes
                         /\ r.retired = tx[t].retired
                         /\ Len(r.additions) = n + 1
                         /\ \A a \in 1 .. n : r.additions[a] = tx[t].additions[a]
                         /\ r.additions[n + 1].node = old[k].node
                         /\ r.additions[n + 1].owner = old[k].owner
                         /\ CanonicalNodes(more) /\ Len(more) <= MaxNodes
                         /\ Len(more) = Len(nodes) + 1
                         /\ \A i \in DOMAIN nodes : more[i] = nodes[i]
                         /\ more[Len(nodes) + 1].node = old[k].node
                         /\ Len(r.resolved) = k
                         /\ \A i \in DOMAIN r.resolved : i \in DOMAIN tx[t].resolved \/ i = k
                         /\ \A i \in DOMAIN tx[t].resolved : r.resolved[i] = tx[t].resolved[i]
                         /\ r.resolved[k] = Len(nodes)
<1> DEFINE key == StagedKey(t)
           k == NextStaged(t)
           s == tx[t].staged[k]
           p == resolved_node(s.parent, tx[t].resolved)
           nodes == Published(id_to_node, tx[t].additions)
           n == Len(id_to_node)
           id == n + Len(tx[t].additions)
           new == [key |-> key, node |-> s.node, owner |-> s.owner]
           entry == [key |-> key, node |-> s.node]
           additions == Append(tx[t].additions, new)
           resolved == Append(tx[t].resolved, id)
           more == Published(id_to_node, additions)
           r == [tx[t] EXCEPT !.additions = additions, !.resolved = resolved]
<1>1. /\ pc[t] = "resolve" /\ Len(tx[t].resolved) < Len(tx[t].staged) /\ ~ IsCanonical(t, key)
      /\ NodeRoom(t) /\ UNCHANGED <<registries, pc>> /\ Local(t, r)
  BY DEF AddNode, Resolving
<1>2. /\ tx[t] \in Transactions /\ id_to_node \in Seq(Nodes)
      /\ tx[t].staged \in Seq(StagedNodes) /\ tx[t].resolved \in Seq(Nat)
      /\ tx[t].additions \in Seq(Additions) /\ Len(tx[t].additions) \in Nat
      /\ n \in Nat /\ DOMAIN id_to_node = 1 .. n
  <2>1. tx[t].additions \in Seq(Additions)
    BY InvFacts, TransactionFields
  <2> QED BY <2>1, InvFacts, TransactionFields
<1>3. /\ k \in DOMAIN tx[t].staged /\ s \in StagedNodes /\ s.label \in Labels
      /\ s.node \in DictNodes /\ s.owner \in Owners
      /\ p \in Nat /\ p < Len(nodes) /\ key = <<p, s.label>>
      /\ s.node = Append(nodes[p + 1].node, s.label)
  BY <1>1, ResolvingFacts
<1>4. /\ nodes \in Seq(Nodes) /\ Len(nodes) = id
      /\ \A i \in 1 .. n : nodes[i] = id_to_node[i]
      /\ \A i \in 1 .. Len(tx[t].additions) :
            nodes[n + i] = [key |-> tx[t].additions[i].key, node |-> tx[t].additions[i].node]
  BY <1>2, PublishedShape
<1>5. ResolutionOK(id_to_node, tx[t])
  BY <1>1, CommitFacts
<1>6. CanonicalNodes(nodes)
  BY <1>5 DEF ResolutionOK
<1>7. \A i \in DOMAIN nodes : nodes[i].key # key
  <2> SUFFICES ASSUME NEW i \in DOMAIN nodes, nodes[i].key = key PROVE FALSE
    OBVIOUS
  <2>1. ~ HasKey(key) /\ AddedWith(t, key) = {}
    BY <1>1 DEF IsCanonical
  <2> HIDE DEF key, nodes, n
  <2>2. DOMAIN nodes = 1 .. n + Len(tx[t].additions)
    BY <1>4
  <2>3. CASE i \in 1 .. n
    <3>1. i - 1 \in NodeIds /\ id_to_node[(i - 1) + 1].key = key
      BY <2>3, <1>2, <1>4 DEF NodeIds, n
    <3> QED BY <3>1, <2>1 DEF HasKey
  <2>4. CASE i \notin 1 .. n
    <3>1. PICK j \in 1 .. Len(tx[t].additions) : i = n + j
      <4>1. i - n \in 1 .. Len(tx[t].additions) /\ i = n + (i - n)
        BY <2>2, <2>4, <1>2
      <4> QED BY <4>1
    <3>2. nodes[i] = [key |-> tx[t].additions[j].key, node |-> tx[t].additions[j].node]
      BY <3>1, <1>4
    <3>3. tx[t].additions[j].key = key /\ j \in DOMAIN tx[t].additions
      BY <3>2, <1>2
    <3> QED BY <3>3, <2>1 DEF AddedWith
  <2> QED BY <2>3, <2>4
<1>20. key \in Nat \X Labels
  <2> DEFINE l == s.label
  <2>1. p \in Nat /\ l \in Labels /\ key = <<p, l>>
    BY <1>3
  <2> HIDE DEF p, l, key
  <2> QED BY <2>1
<1>21. \A i \in DOMAIN nodes : nodes[i].node # s.node
  <2> DEFINE l == s.label
             node == s.node
  <2>1. /\ l \in Labels /\ node \in DictNodes /\ node = Append(nodes[p + 1].node, l)
        /\ key = <<p, l>>
    BY <1>3
  <2> HIDE DEF l, node, p, nodes, key
  <2>2. \A i \in DOMAIN nodes : nodes[i].key # <<p, l>>
    BY <2>1, <1>7
  <2>3. \A i \in DOMAIN nodes : nodes[i].node # node
    BY <2>1, <2>2, <1>3, <1>4, <1>6, FreshNode
  <2> QED BY <2>3 DEF node
<1>8. /\ new \in Additions /\ new.key = key /\ new.node = s.node /\ new.owner = s.owner
  <2>1. key \in Nat \X Labels
    BY <1>20
  <2> HIDE DEF key, s
  <2> QED BY <2>1, <1>3 DEF Additions
<1> HIDE DEF new
<1>9. additions \in Seq(Additions) /\ more = Append(nodes, entry)
  <2>1. additions \in Seq(Additions)
    BY <1>2, <1>8
  <2>2. more = Append(nodes, [key |-> new.key, node |-> new.node])
    BY <1>2, <1>8, PublishedAppend
  <2> QED BY <2>1, <2>2, <1>8
<1>10. CanonicalNodes(Append(nodes, entry))
  <2> DEFINE l == s.label
             node == s.node
  <2>1. /\ l \in Labels /\ node \in DictNodes /\ node = Append(nodes[p + 1].node, l)
        /\ key = <<p, l>> /\ entry = [key |-> <<p, l>>, node |-> node]
    BY <1>3
  <2> HIDE DEF l, node, p, nodes, key, entry
  <2>2. \A i \in DOMAIN nodes : nodes[i].key # <<p, l>>
    BY <2>1, <1>7
  <2>3. CanonicalNodes(Append(nodes, [key |-> <<p, l>>, node |-> node]))
    BY <2>1, <2>2, <1>3, <1>4, <1>6, AddCanonical
  <2> QED BY <2>1, <2>3
<1>11. entry \in Nodes
  <2>1. key \in Nat \X Labels
    BY <1>20
  <2> HIDE DEF key, s
  <2> QED BY <2>1, <1>3 DEF Nodes, NodeKeys
<1>12. entry.node = s.node
  OBVIOUS
<1> HIDE DEF entry, nodes, n, p
<1>13. /\ Len(more) = id + 1
       /\ \A i \in DOMAIN nodes : i \in DOMAIN more /\ more[i] = nodes[i]
       /\ more[id + 1] = entry
  <2> HIDE DEF more, id
  <2> QED BY <1>4, <1>9, <1>11, AppendShape
<1>14. id \in Nat /\ Len(more) <= MaxNodes
  <2> HIDE DEF more
  <2> QED BY <1>1, <1>2, <1>13 DEF NodeRoom, n
<1>15. /\ resolved \in Seq(Nat) /\ Len(resolved) = k
       /\ \A i \in DOMAIN resolved : i \in DOMAIN tx[t].resolved \/ i = k
       /\ \A i \in DOMAIN tx[t].resolved : resolved[i] = tx[t].resolved[i]
       /\ resolved[k] = id
  <2> DEFINE old == tx[t].resolved
  <2>1. old \in Seq(Nat) /\ k = Len(old) + 1
    BY <1>2 DEF NextStaged
  <2> HIDE DEF old, k, id
  <2>2. /\ Append(old, id) \in Seq(Nat)
        /\ Len(Append(old, id)) = Len(old) + 1
        /\ \A i \in DOMAIN old : i \in DOMAIN Append(old, id) /\ Append(old, id)[i] = old[i]
        /\ Append(old, id)[Len(old) + 1] = id
        /\ \A i \in DOMAIN Append(old, id) : i \in DOMAIN old \/ i = Len(old) + 1
    BY <2>1, <1>14, AppendShape
  <2>3. resolved = Append(old, id)
    BY DEF old
  <2> HIDE DEF resolved
  <2> QED BY <2>1, <2>2, <2>3 DEF old
<1> HIDE DEF resolved, additions
<1>16. /\ r \in Transactions /\ r.state = tx[t].state /\ r.stack = tx[t].stack
       /\ r.paths = tx[t].paths /\ r.arcs = tx[t].arcs /\ r.staged = tx[t].staged
       /\ r.resolved = resolved /\ r.additions = additions
       /\ r.retired = tx[t].retired /\ r.passes = tx[t].passes
  BY <1>2, <1>9, <1>15 DEF Transactions
<1> HIDE DEF r
<1>17. /\ Len(additions) = Len(tx[t].additions) + 1
       /\ \A a \in 1 .. Len(tx[t].additions) : additions[a] = tx[t].additions[a]
       /\ additions[Len(tx[t].additions) + 1] = new
  BY <1>2, <1>8 DEF additions
<1>18. k = Len(tx[t].resolved) + 1
  BY DEF NextStaged
<1>19. /\ more = Published(id_to_node, r.additions) /\ CanonicalNodes(more)
       /\ Len(more) = Len(nodes) + 1 /\ more[Len(nodes) + 1].node = s.node
       /\ resolved[k] = Len(nodes)
  <2>1. more = Published(id_to_node, r.additions)
    BY <1>16 DEF more
  <2> HIDE DEF more
  <2> QED BY <2>1, <1>4, <1>9, <1>10, <1>12, <1>13, <1>15
<1> HIDE DEF s, k, more, id
<1> QED BY <1>1, <1>3, <1>8, <1>13, <1>14, <1>15, <1>16, <1>17, <1>18, <1>19, <1>21
        DEF nodes, s, k

(* A node nobody published is added.                                       *)
LEMMA AddNodeStep ==
    ASSUME ExpansionInv, NEW t \in Threads, AddNode(t), LockDiscipline'
    PROVE  ExpansionInv'
<1> DEFINE k == NextStaged(t)
           old == tx[t].staged
           nodes == Published(id_to_node, tx[t].additions)
<1>1. /\ pc[t] = "resolve" /\ UNCHANGED <<registries, pc>>
      /\ Len(tx[t].resolved) < Len(old) /\ k \in DOMAIN old
  BY AddFacts
<1>2. PICK r \in Transactions :
         LET more == Published(id_to_node, r.additions)
         IN  /\ Local(t, r)
             /\ r.state = tx[t].state /\ r.stack = tx[t].stack
             /\ r.paths = tx[t].paths /\ r.arcs = tx[t].arcs
             /\ r.staged = old
             /\ CanonicalNodes(more) /\ Len(more) <= MaxNodes
             /\ Len(more) = Len(nodes) + 1
             /\ \A i \in DOMAIN nodes : more[i] = nodes[i]
             /\ more[Len(nodes) + 1].node = old[k].node
             /\ Len(r.resolved) = k
             /\ \A i \in DOMAIN r.resolved : i \in DOMAIN tx[t].resolved \/ i = k
             /\ \A i \in DOMAIN tx[t].resolved : r.resolved[i] = tx[t].resolved[i]
             /\ r.resolved[k] = Len(nodes)
  BY AddFacts
<1> DEFINE more == Published(id_to_node, r.additions)
<1>3. /\ old \in Seq(StagedNodes) /\ tx[t].resolved \in Seq(Nat)
      /\ nodes \in Seq(Nodes)
  BY InvFacts, TransactionFields, PublishedShape
<1>4. ResolutionOK(id_to_node, tx[t])
  BY <1>1, CommitFacts
<1> HIDE DEF nodes, k
<1>5. ASSUME NEW i \in DOMAIN r.resolved
      PROVE  r.resolved[i] < Len(more) /\ more[r.resolved[i] + 1].node = old[i].node
  <2> HIDE DEF more
  <2>1. CASE i = k
    <3>1. Len(nodes) \in Nat
      BY <1>3
    <3> QED BY <2>1, <3>1, <1>2 DEF more
  <2>2. CASE i \in DOMAIN tx[t].resolved
    <3> DEFINE j == tx[t].resolved[i]
    <3>1. j < Len(nodes) /\ nodes[j + 1].node = old[i].node /\ j \in Nat
      BY <2>2, <1>3, <1>4 DEF ResolutionOK, nodes
    <3>2. r.resolved[i] = j
      BY <2>2, <1>2
    <3> HIDE DEF j
    <3>3. j + 1 \in DOMAIN nodes
      BY <3>1, <1>3
    <3>4. Len(more) = Len(nodes) + 1 /\ more[j + 1] = nodes[j + 1]
      BY <3>3, <1>2 DEF more
    <3> QED BY <3>1, <3>2, <3>4, <1>3
  <2> QED BY <2>1, <2>2, <1>2
<1>6. ResolutionOK(id_to_node, r)
  <2>1. Len(r.resolved) <= Len(r.staged)
    BY <1>1, <1>2, <1>3
  <2> QED BY <2>1, <1>2, <1>5 DEF ResolutionOK
<1>7. TransactionOK(id_to_node, id_to_state, r, "resolve")
  BY <1>1, <1>2, <1>6, SameRefl, CommitGoesOn
<1> QED BY <1>1, <1>2, <1>7, LocalStay

(* What an extension adds is its suffix.                                   *)
LEMMA SuffixOf ==
    ASSUME NEW S, NEW s \in Seq(S), NEW u \in Seq(S), Extends(s, u)
    PROVE  /\ SubSeq(u, Len(s) + 1, Len(u)) \in Seq(S)
           /\ s \o SubSeq(u, Len(s) + 1, Len(u)) = u
<1> DEFINE m == Len(s)
           n == Len(u)
           v == SubSeq(u, m + 1, n)
<1>1. m \in Nat /\ n \in Nat /\ m <= n /\ \A i \in 1 .. m : u[i] = s[i]
  BY DEF Extends
<1>2. /\ v \in Seq(S) /\ Len(v) = n - m
      /\ \A i \in 1 .. n - m : v[i] = u[m + i]
  <2>1. m + 1 \in 1 .. n + 1 /\ (m + 1) - 1 = m
    BY <1>1
  <2> HIDE DEF m
  <2> QED BY <1>1, <2>1
<1> HIDE DEF v
<1>3. /\ s \o v \in Seq(S) /\ Len(s \o v) = m + (n - m)
      /\ \A i \in 1 .. m : (s \o v)[i] = s[i]
      /\ \A i \in 1 .. n - m : (s \o v)[m + i] = v[i]
      /\ \A i \in 1 .. m + (n - m) :
            i \in 1 .. m \/ \E j \in 1 .. n - m : i = m + j
  <2>1. /\ s \o v \in Seq(S) /\ Len(s \o v) = Len(s) + Len(v)
        /\ \A i \in 1 .. Len(s) : (s \o v)[i] = s[i]
        /\ \A i \in 1 .. Len(v) : (s \o v)[Len(s) + i] = v[i]
        /\ \A i \in 1 .. Len(s) + Len(v) :
              i \in 1 .. Len(s) \/ \E j \in 1 .. Len(v) : i = Len(s) + j
    <3> HIDE DEF m, n
    <3>1. v \in Seq(S)
      BY <1>2
    <3> QED BY <3>1, ConcatShape
  <2>2. Len(v) = n - m
    BY <1>2
  <2> QED BY <2>1, <2>2
<1>4. Len(s \o v) = n
  BY <1>1, <1>3
<1>5. \A i \in 1 .. n : (s \o v)[i] = u[i]
  <2> TAKE i \in 1 .. n
  <2> HIDE DEF m, n
  <2>1. i \in 1 .. m \/ \E j \in 1 .. n - m : i = m + j
    <3>1. i \in 1 .. m + (n - m)
      BY <1>1
    <3> QED BY <3>1, <1>3
  <2> QED BY <2>1, <1>1, <1>2, <1>3
<1>6. s \o v = u
  <2> DEFINE w == s \o v
  <2>1. w \in Seq(S) /\ Len(w) = Len(u) /\ \A i \in 1 .. Len(w) : w[i] = u[i]
    BY <1>3, <1>4, <1>5
  <2> HIDE DEF w
  <2>2. w = u
    BY <2>1, SeqEqual
  <2> QED BY <2>2 DEF w
<1> QED BY <1>2, <1>6 DEF v

(* A label of a text is a text.                                            *)
LEMMA LabelAtTyped ==
    ASSUME NEW labels \in Text, NEW position \in Nat
    PROVE  LabelAt(labels, position) \in Text
BY DEF LabelAt, Text

(* Extensions compose.                                                     *)
LEMMA ExtendsTransitive ==
    ASSUME NEW a \in Seq(States), NEW b \in Seq(States), NEW c \in Seq(States),
           Extends(a, b), Extends(b, c)
    PROVE  Extends(a, c)
<1>1. Len(a) \in Nat /\ Len(b) \in Nat /\ Len(c) \in Nat
  OBVIOUS
<1> QED BY <1>1 DEF Extends

(* The states with the next arc's target.                                  *)
WithTarget(t) == WithProduct(WithBatch(t), ArcProduct(t))

(* The next arc leads to the product it was made for, which is interned.   *)
LEMMA ArcTargetOK ==
    ASSUME ExpansionInv, NEW t \in Threads, pc[t] = "batch",
           Len(tx[t].transitions) < Len(tx[t].arcs)
    PROVE  /\ NextArc(t) \in Arcs
           /\ Len(tx[t].transitions) + 1 \in DOMAIN tx[t].arcs
           /\ Len(Published(id_to_node, tx[t].additions)) \in Nat
           /\ ArcProduct(t) \in Products
           /\ ArcProduct(t).kind = "product"
           /\ ArcProduct(t).pos = NextArc(t).pos /\ ArcProduct(t).cost = NextArc(t).cost
           /\ Published(id_to_node, tx[t].additions)[ArcProduct(t).node + 1].node =
                 BaseOf(tx[t]) \o NextArc(t).output
           /\ WithBatch(t) \in Seq(States) /\ WithTarget(t) \in Seq(States)
           /\ Extends(WithBatch(t), WithTarget(t))
           /\ \A i \in Len(WithBatch(t)) + 1 .. Len(WithTarget(t)) :
                 WithTarget(t)[i] = ArcProduct(t)
           /\ StatesOK(WithTarget(t), Len(Published(id_to_node, tx[t].additions)))
           /\ ArcChain(t) \in Chains
           /\ ArcChain(t).input = NextArc(t).input /\ ArcChain(t).output = NextArc(t).output
           /\ ArcChain(t).target \in Nat /\ ArcChain(t).target < Len(WithTarget(t))
           /\ WithTarget(t)[ArcChain(t).target + 1] = ArcProduct(t)
           /\ ArcWidth(NextArc(t)) \in Nat
           /\ ArcWidth(NextArc(t)) = Longer(ArcChain(t).input, ArcChain(t).output)
<1> DEFINE k == Len(tx[t].transitions) + 1
           arc == NextArc(t)
           nodes == Published(id_to_node, tx[t].additions)
           n == Len(nodes)
           node == resolved_node(arc.ref, tx[t].resolved)
           product == ArcProduct(t)
           before == WithBatch(t)
           states == WithProduct(before, product)
           target == First(IdsIn(states, product))
           chain == ArcChain(t)
<1>1. /\ tx[t] \in Transactions /\ id_to_node \in Seq(Nodes) /\ id_to_state \in Seq(States)
      /\ tx[t].arcs \in Seq(Arcs) /\ tx[t].transitions \in Seq(Transitions)
      /\ tx[t].additions \in Seq(Additions) /\ tx[t].batch \in Seq(States)
      /\ tx[t].staged \in Seq(StagedNodes) /\ tx[t].resolved \in Seq(Nat)
  BY InvFacts, TransactionFields
<1>2. k \in DOMAIN tx[t].arcs /\ arc = tx[t].arcs[k]
  BY <1>1 DEF NextArc
<1>3. /\ arc \in Arcs /\ arc.ref \in Refs /\ arc.input \in Text /\ arc.output \in Text
      /\ arc.pos \in Nat /\ arc.cost \in Nat
  BY <1>1, <1>2, ArcFields
<1>4. /\ WalkOK(id_to_node, tx[t], BaseOf(tx[t])) /\ ResolutionOK(id_to_node, tx[t])
      /\ PreparationOK(id_to_node, id_to_state, tx[t])
  BY CommitFacts
<1> DEFINE path == BaseOf(tx[t]) \o arc.output
<1>5. /\ Refers(id_to_node, tx[t].staged, arc.ref, path)
      /\ arc.pos <= Len(Query) /\ arc.cost <= MaxCost
  BY <1>2, <1>4 DEF WalkOK
<1>6. arc.ref.kind = "staged" => arc.ref.at <= Len(tx[t].resolved)
  <2> DEFINE ref == arc.ref
  <2>1. ref.kind = "staged" => ref.at \in DOMAIN tx[t].staged
    <3>1. ref.kind = "staged" => ref.kind # "registered"
      OBVIOUS
    <3> QED BY <3>1, <1>5 DEF Refers
  <2>2. Len(tx[t].resolved) = Len(tx[t].staged)
    BY <1>4 DEF PreparationOK
  <2> HIDE DEF ref
  <2>3. ref.kind = "staged" => ref.at <= Len(tx[t].resolved)
    BY <2>1, <2>2, <1>1
  <2> QED BY <2>3 DEF ref
<1>7. node \in Nat /\ node < n /\ nodes[node + 1].node = path
  <2> DEFINE ref == arc.ref
             r == tx[t]
  <2>1. /\ r \in Transactions /\ ResolutionOK(id_to_node, r) /\ ref \in Refs
        /\ Refers(id_to_node, r.staged, ref, path)
        /\ ref.kind = "staged" => ref.at <= Len(r.resolved)
    BY <1>1, <1>3, <1>4, <1>5, <1>6
  <2>2. node = resolved_node(ref, r.resolved) /\ nodes = Published(id_to_node, r.additions)
    OBVIOUS
  <2> HIDE DEF ref, r, node, nodes, path
  <2> QED BY <2>1, <2>2, <1>1, ResolvedNode
<1>8. n \in Nat
  <2>1. nodes \in Seq(Nodes)
    BY <1>1, PublishedShape
  <2> HIDE DEF nodes
  <2> QED BY <2>1
<1>9. /\ product \in Products /\ product.kind = "product" /\ product.node = node
      /\ product.pos = arc.pos /\ product.cost = arc.cost
  <2> HIDE DEF node
  <2>1. product = Product(node, arc.pos, arc.cost)
    BY DEF ArcProduct, node
  <2> DEFINE x == arc.pos
             y == arc.cost
  <2>2. product = Product(node, x, y) /\ x \in Nat /\ y \in Nat /\ node \in Nat
    BY <2>1, <1>3, <1>7
  <2> HIDE DEF product, x, y
  <2>3. /\ Product(node, x, y) \in Products /\ Product(node, x, y).kind = "product"
        /\ Product(node, x, y).node = node
        /\ Product(node, x, y).pos = x /\ Product(node, x, y).cost = y
    BY <2>2, ProductTyped
  <2> QED BY <2>2, <2>3 DEF x, y
<1>10. before \in Seq(States) /\ StatesOK(before, n)
  BY <1>1, <1>4 DEF PreparationOK, WithBatch
<1>11. chain = [input |-> arc.input, output |-> arc.output, target |-> target]
  BY DEF ArcChain
<1>12. states = WithTarget(t)
  BY DEF WithTarget
<1> HIDE DEF arc, node, product, before, n, nodes, chain, path
<1>13. /\ states \in Seq(States) /\ Extends(before, states) /\ StatesOK(states, n)
       /\ IdsIn(states, product) # {}
       /\ \A i \in Len(before) + 1 .. Len(states) : states[i] = product
  BY <1>5, <1>7, <1>8, <1>9, <1>10, WithProductOK
<1> HIDE DEF states
<1>14. target \in Nat /\ target < Len(states) /\ states[target + 1] = product
  BY <1>13, LookupResult
<1> HIDE DEF target
<1>15. chain \in Chains /\ chain.target = target /\ chain.input = arc.input /\ chain.output = arc.output
  BY <1>3, <1>11, <1>14 DEF Chains
<1>16. ArcWidth(arc) \in Nat /\ ArcWidth(arc) = Longer(chain.input, chain.output)
  <2>1. Len(arc.input) \in Nat /\ Len(arc.output) \in Nat
    BY <1>3 DEF Text
  <2> QED BY <2>1, <1>15 DEF ArcWidth, Longer
<1>17. /\ states[chain.target + 1] = product /\ chain.target < Len(states) /\ chain.target \in Nat
       /\ nodes[product.node + 1].node = path
  BY <1>7, <1>9, <1>14, <1>15
<1>18. /\ arc = NextArc(t) /\ product = ArcProduct(t) /\ before = WithBatch(t) /\ chain = ArcChain(t)
       /\ n = Len(nodes) /\ nodes = Published(id_to_node, tx[t].additions)
       /\ path = BaseOf(tx[t]) \o arc.output
  BY DEF arc, product, before, chain, n, nodes, path
<1> QED BY <1>2, <1>3, <1>8, <1>9, <1>10, <1>12, <1>13, <1>15, <1>16, <1>17, <1>18

(* Where the next arc's transition leads.                                  *)
ArcTo(t) ==
    IF ArcWidth(NextArc(t)) <= 1 THEN ArcChain(t).target
    ELSE First(ChainIds(ArcStates(t), ArcChain(t)))

(* What the next arc needs of the state registry: its target, and its      *)
(* chain if it is wide.                                                    *)
LEMMA ArcStatesOK ==
    ASSUME ExpansionInv, NEW t \in Threads, pc[t] = "batch",
           Len(tx[t].transitions) < Len(tx[t].arcs)
    PROVE  /\ NextArc(t) \in Arcs
           /\ ArcStates(t) \in Seq(States)
           /\ Extends(WithTarget(t), ArcStates(t))
           /\ Extends(WithBatch(t), ArcStates(t))
           /\ StatesOK(ArcStates(t), Len(Published(id_to_node, tx[t].additions)))
           /\ ArcTo(t) \in Nat /\ ArcTo(t) < Len(ArcStates(t))
           /\ IF ArcWidth(NextArc(t)) <= 1
              THEN ArcTo(t) = ArcChain(t).target /\ ArcStates(t) = WithTarget(t)
              ELSE /\ ArcStates(t)[ArcTo(t) + 1].kind = "emit"
                   /\ ArcStates(t)[ArcTo(t) + 1].chain = ArcChain(t)
                   /\ ArcStates(t)[ArcTo(t) + 1].position = 1
                   /\ \A i \in Len(WithTarget(t)) + 1 .. Len(ArcStates(t)) :
                         /\ ArcStates(t)[i].kind = "emit"
                         /\ ArcStates(t)[i].chain = ArcChain(t)
<1> DEFINE states == WithTarget(t)
           chain == ArcChain(t)
           width == ArcWidth(NextArc(t))
           n == Len(Published(id_to_node, tx[t].additions))
<1>1. /\ NextArc(t) \in Arcs /\ n \in Nat
      /\ ArcProduct(t).kind = "product"
      /\ WithBatch(t) \in Seq(States) /\ states \in Seq(States)
      /\ Extends(WithBatch(t), states) /\ StatesOK(states, n)
      /\ chain \in Chains /\ chain.target \in Nat /\ chain.target < Len(states)
      /\ states[chain.target + 1] = ArcProduct(t)
      /\ width \in Nat /\ width = Longer(chain.input, chain.output)
  BY ArcTargetOK
<1>2. ArcStates(t) = IF width <= 1 THEN states ELSE WithChain(states, chain, width)
  BY DEF ArcStates, WithTarget
<1>3. ArcTo(t) = IF width <= 1 THEN chain.target ELSE First(ChainIds(ArcStates(t), chain))
  BY DEF ArcTo
<1> HIDE DEF states, chain, width, n
<1>4. CASE width <= 1
  <2>1. ArcStates(t) = states /\ ArcTo(t) = chain.target
    BY <1>2, <1>3, <1>4
  <2>2. Extends(states, states)
    BY <1>1 DEF Extends
  <2> QED BY <2>1, <2>2, <1>1, <1>4 DEF states, chain, width, n
<1>5. CASE ~ (width <= 1)
  <2> DEFINE more == WithChain(states, chain, width)
             to == First(ChainIds(more, chain))
  <2>1. width > 1 /\ states[chain.target + 1].kind = "product"
    BY <1>1, <1>5
  <2>2. /\ more \in Seq(States) /\ Extends(states, more) /\ StatesOK(more, n)
        /\ ChainIds(more, chain) # {}
        /\ \A i \in Len(states) + 1 .. Len(more) : more[i].kind = "emit" /\ more[i].chain = chain
    BY <2>1, <1>1, WithChainOK
  <2>3. ArcStates(t) = more /\ ArcTo(t) = to
    BY <1>2, <1>3, <1>5
  <2> HIDE DEF more
  <2>4. /\ to \in Nat /\ to < Len(more)
        /\ more[to + 1].kind = "emit" /\ more[to + 1].chain = chain
        /\ more[to + 1].position = 1
    BY <2>2, LookupResult
  <2> HIDE DEF to
  <2>5. Extends(WithBatch(t), more)
    BY <2>2, <1>1, ExtendsTransitive
  <2> QED BY <2>2, <2>3, <2>4, <2>5, <1>1, <1>5 DEF states, chain, width, n
<1> QED BY <1>4, <1>5

(* An arc's target, and the chain that emits its text, are interned.       *)
LEMMA PrepareArcStep ==
    ASSUME ExpansionInv, NEW t \in Threads, PrepareArc(t), LockDiscipline'
    PROVE  ExpansionInv'
<1> DEFINE arc == NextArc(t)
           states == ArcStates(t)
           n == Len(Published(id_to_node, tx[t].additions))
           to == ArcTo(t)
           new == [input |-> LabelAt(arc.input, 0), output |-> LabelAt(arc.output, 0),
                   to |-> to, weight |-> arc.weight]
           batch == SubSeq(states, Len(id_to_state) + 1, Len(states))
           transitions == Append(tx[t].transitions, new)
           r == [tx[t] EXCEPT !.batch = batch, !.transitions = transitions]
<1>1. /\ pc[t] = "batch" /\ Len(tx[t].transitions) < Len(tx[t].arcs)
      /\ Len(states) <= MaxStates /\ Local(t, r) /\ UNCHANGED <<registries, pc>>
  BY DEF PrepareArc, ArcTo
<1>2. /\ arc \in Arcs /\ states \in Seq(States) /\ Extends(WithBatch(t), states)
      /\ StatesOK(states, n) /\ to \in Nat /\ to < Len(states)
  BY <1>1, ArcStatesOK
<1>3. /\ tx[t] \in Transactions /\ id_to_state \in Seq(States) /\ tx[t].batch \in Seq(States)
      /\ tx[t].transitions \in Seq(Transitions)
  BY InvFacts, TransactionFields
<1> HIDE DEF arc, states, to, n
<1>4. arc.input \in Text /\ arc.output \in Text /\ arc.weight \in Nat
  BY <1>2 DEF Arcs
<1>5. LabelAt(arc.input, 0) \in Text /\ LabelAt(arc.output, 0) \in Text
  BY <1>4, LabelAtTyped
<1>6. new \in Transitions /\ new.to = to
  BY <1>2, <1>4, <1>5 DEF Transitions
<1> HIDE DEF new
<1>7. Extends(id_to_state, states)
  <2> DEFINE b == tx[t].batch
  <2>1. b \in Seq(States) /\ WithBatch(t) = id_to_state \o b
    BY <1>3 DEF WithBatch
  <2> HIDE DEF b
  <2>2. /\ id_to_state \o b \in Seq(States) /\ Len(id_to_state \o b) = Len(id_to_state) + Len(b)
        /\ \A i \in 1 .. Len(id_to_state) : (id_to_state \o b)[i] = id_to_state[i]
    BY <2>1, <1>3, ConcatShape
  <2>3. Len(b) \in Nat /\ Len(id_to_state) \in Nat
    BY <2>1, <1>3
  <2>4. Extends(id_to_state, id_to_state \o b)
    BY <2>2, <2>3 DEF Extends
  <2> QED BY <2>1, <2>2, <2>4, <1>2, <1>3, ExtendsTransitive
<1>8. batch \in Seq(States) /\ id_to_state \o batch = states
  BY <1>2, <1>3, <1>7, SuffixOf
<1> HIDE DEF batch
<1>9. /\ transitions \in Seq(Transitions)
      /\ \A i \in DOMAIN transitions :
            \/ i \in DOMAIN tx[t].transitions /\ transitions[i] = tx[t].transitions[i]
            \/ transitions[i] = new
  BY <1>3, <1>6, AppendShape
<1> HIDE DEF transitions
<1>10. /\ r \in Transactions /\ r.state = tx[t].state /\ r.stack = tx[t].stack
       /\ r.paths = tx[t].paths /\ r.arcs = tx[t].arcs /\ r.staged = tx[t].staged
       /\ r.resolved = tx[t].resolved /\ r.additions = tx[t].additions
       /\ r.batch = batch /\ r.transitions = transitions
  BY <1>3, <1>8, <1>9 DEF Transactions
<1> HIDE DEF r
<1>11. ResolutionOK(id_to_node, tx[t]) /\ PreparationOK(id_to_node, id_to_state, tx[t])
  BY <1>1, CommitFacts
<1>12. ResolutionOK(id_to_node, r)
  BY <1>10, <1>11 DEF ResolutionOK
<1>13. PreparationOK(id_to_node, id_to_state, r)
  <2>1. ASSUME NEW i \in DOMAIN transitions PROVE transitions[i].to < Len(states)
    <3>1. CASE transitions[i] = new
      BY <3>1, <1>2, <1>6
    <3>2. CASE i \in DOMAIN tx[t].transitions /\ transitions[i] = tx[t].transitions[i]
      <4> DEFINE tr == tx[t].transitions[i]
      <4>1. tr \in Transitions
        BY <3>2, <1>3
      <4>2. tr.to \in Nat /\ tr.to < Len(WithBatch(t))
        BY <3>2, <4>1, <1>11 DEF PreparationOK, WithBatch, Transitions
      <4>3. Len(WithBatch(t)) <= Len(states) /\ Len(states) \in Nat /\ Len(WithBatch(t)) \in Nat
        <5>1. WithBatch(t) \in Seq(States)
          BY <1>3 DEF WithBatch
        <5> QED BY <5>1, <1>2 DEF Extends
      <4> HIDE DEF tr
      <4>4. tr.to < Len(states)
        BY <4>2, <4>3
      <4> QED BY <3>2, <4>4 DEF tr
    <3> QED BY <3>1, <3>2, <1>9
  <2>2. Len(r.resolved) = Len(r.staged)
    BY <1>10, <1>11 DEF PreparationOK
  <2> QED BY <2>1, <2>2, <1>1, <1>2, <1>8, <1>10 DEF PreparationOK, n
<1>14. TransactionOK(id_to_node, id_to_state, r, "batch")
  BY <1>1, <1>10, <1>12, <1>13, SameRefl, CommitGoesOn
<1> QED BY <1>1, <1>10, <1>14, LocalStay

(* What others publish disturbs no transaction that is not committing.     *)
LEMMA TransactionPersists ==
    ASSUME NEW nodes \in Seq(Nodes), NEW nodes2 \in Seq(Nodes), SameNodes(nodes, nodes2),
           NEW states \in Seq(States), NEW states2 \in Seq(States), Extends(states, states2),
           StatesOK(states, Len(nodes)),
           NEW r \in Transactions, NEW p, p \notin {"resolve", "batch"},
           TransactionOK(nodes, states, r, p)
    PROVE  TransactionOK(nodes2, states2, r, p)
<1> DEFINE i == r.state + 1
           product == states[i]
           j == product.node + 1
           base == nodes[j].node
<1>1. r.state \in Nat /\ r.state < Len(states) /\ product.kind = "product"
      /\ Len(states) \in Nat /\ Len(states2) \in Nat /\ Len(nodes) \in Nat
  BY TransactionFields DEF TransactionOK
<1>2. i \in 1 .. Len(states) /\ i \in DOMAIN states
  BY <1>1
<1>3. states2[i] = product /\ r.state < Len(states2)
  <2> HIDE DEF i, product
  <2>1. states2[i] = states[i] /\ Len(states) <= Len(states2)
    BY <1>2 DEF Extends
  <2> QED BY <2>1, <1>1 DEF product
<1>4. product \in Products
  BY <1>1, <1>2, StateFields
<1>5. product.node \in Nat /\ product.node < Len(nodes)
  BY <1>1, <1>2, <1>4 DEF StatesOK, Products
<1>6. nodes2[j].node = base
  <2>1. j \in DOMAIN nodes
    BY <1>1, <1>5
  <2> HIDE DEF j
  <2> QED BY <2>1 DEF SameNodes
<1>7. p \in {"walk", "commit", "retire"} => WalkOK(nodes, r, base)
  BY DEF TransactionOK
<1> HIDE DEF i, product, j, base
<1>8. p \in {"walk", "commit", "retire"} => WalkOK(nodes2, r, base)
  BY <1>7, SameRefl, WalkPersists
<1>9. p = "walk" /\ r.op <= Len(Operations) => InBudget(Operations[r.op], product)
  BY DEF TransactionOK, product, i
<1>10. p \in {"walk", "commit", "resolve", "retire", "batch"} =>
          WalkOK(nodes2, r, nodes2[states2[r.state + 1].node + 1].node)
  <2>1. nodes2[states2[r.state + 1].node + 1].node = base
    BY <1>3, <1>6 DEF i, j
  <2> QED BY <2>1, <1>8
<1>11. states2[r.state + 1] = product
  BY <1>3 DEF i
<1> QED BY <1>1, <1>3, <1>9, <1>10, <1>11 DEF TransactionOK

(* What is published: both batches, whole, under both locks.               *)
LEMMA PublishFacts ==
    ASSUME ExpansionInv, NEW t \in Threads, Publish(t)
    PROVE  /\ id_to_node' = Published(id_to_node, tx[t].additions)
           /\ id_to_state' = id_to_state \o tx[t].batch
           /\ id_to_node' \in Seq(Nodes) /\ id_to_state' \in Seq(States)
           /\ Len(id_to_node') \in Nat /\ Len(id_to_state') \in Nat
           /\ Extends(id_to_node, id_to_node') /\ SameNodes(id_to_node, id_to_node')
           /\ Extends(id_to_state, id_to_state')
           /\ CanonicalNodes(id_to_node') /\ Len(id_to_node') <= MaxNodes
           /\ StatesOK(id_to_state', Len(id_to_node')) /\ Len(id_to_state') <= MaxStates
           /\ \A i \in DOMAIN tx[t].transitions :
                 tx[t].transitions[i].to \in Nat /\ tx[t].transitions[i].to < Len(id_to_state')
<1> DEFINE nodes == Published(id_to_node, tx[t].additions)
           batch == tx[t].batch
           states == id_to_state \o batch
<1>1. pc[t] = "batch" /\ id_to_node' = nodes /\ id_to_state' = states
  BY DEF Publish, PublishedNodes, Published
<1>2. /\ id_to_node \in Seq(Nodes) /\ id_to_state \in Seq(States)
      /\ tx[t].additions \in Seq(Additions) /\ batch \in Seq(States)
      /\ tx[t].transitions \in Seq(Transitions)
  BY InvFacts, TransactionFields
<1>3. ResolutionOK(id_to_node, tx[t]) /\ PreparationOK(id_to_node, id_to_state, tx[t])
  BY <1>1, CommitFacts
<1>4. /\ CanonicalNodes(nodes) /\ Len(nodes) <= MaxNodes
      /\ StatesOK(states, Len(nodes)) /\ Len(states) <= MaxStates
      /\ \A i \in DOMAIN tx[t].transitions : tx[t].transitions[i].to < Len(states)
  BY <1>3 DEF ResolutionOK, PreparationOK
<1>5. \A i \in DOMAIN tx[t].transitions : tx[t].transitions[i].to \in Nat
  <2>1. \A i \in DOMAIN tx[t].transitions : tx[t].transitions[i] \in Transitions
    BY <1>2
  <2> QED BY <2>1 DEF Transitions
<1>6. /\ nodes \in Seq(Nodes) /\ SameNodes(id_to_node, nodes)
      /\ Len(nodes) = Len(id_to_node) + Len(tx[t].additions)
      /\ \A i \in 1 .. Len(id_to_node) : nodes[i] = id_to_node[i]
  BY <1>2, PublishedShape
<1>7. Len(id_to_node) \in Nat /\ Len(tx[t].additions) \in Nat /\ Len(id_to_state) \in Nat
      /\ Len(batch) \in Nat
  BY <1>2
<1> HIDE DEF nodes, batch
<1>8. Extends(id_to_node, nodes) /\ Len(nodes) \in Nat
  BY <1>6, <1>7 DEF Extends
<1>9. /\ states \in Seq(States)
      /\ Len(states) = Len(id_to_state) + Len(batch)
      /\ \A i \in 1 .. Len(id_to_state) : states[i] = id_to_state[i]
  BY <1>2, ConcatShape
<1> HIDE DEF states
<1>10. Extends(id_to_state, states) /\ Len(states) \in Nat
  BY <1>7, <1>9 DEF Extends
<1> QED BY <1>1, <1>4, <1>5, <1>6, <1>8, <1>9, <1>10 DEF nodes, states, batch

(* Both registries take what the commit prepared.                          *)
LEMMA PublishStep ==
    ASSUME ExpansionInv, NEW t \in Threads, Publish(t), LockDiscipline'
    PROVE  ExpansionInv'
<1> DEFINE nodes == id_to_node'
           states == id_to_state'
<1>1. pc[t] = "batch" /\ Local(t, NoTx) /\ Goto(t, "idle")
  BY DEF Publish
<1>2. pc'[t] = "idle" /\ \A u \in Threads \ {t} : pc'[u] = pc[u]
  BY <1>1, InvFacts DEF Goto
<1>3. tx' \in [Threads -> Transactions] /\ tx'[t] = NoTx /\ \A u \in Threads \ {t} : tx'[u] = tx[u]
  BY <1>1, LocalTyped, NoTxTyped DEF ExpansionInv
<1>4. /\ nodes \in Seq(Nodes) /\ states \in Seq(States)
      /\ SameNodes(id_to_node, nodes) /\ Extends(id_to_state, states)
      /\ CanonicalNodes(nodes) /\ Len(nodes) <= MaxNodes
      /\ StatesOK(states, Len(nodes)) /\ Len(states) <= MaxStates
  BY PublishFacts
<1>5. RegistryTypes' /\ RegistriesOK'
  BY <1>4 DEF RegistryTypes, RegistriesOK
<1>6. ASSUME NEW u \in Threads PROVE TransactionOK(nodes, states, tx'[u], pc'[u])
  <2>1. CASE u = t
    <3>1. states # <<>> /\ states[1].kind = "product"
      BY <1>4 DEF StatesOK
    <3>2. 0 < Len(states)
      <4> HIDE DEF states
      <4> QED BY <3>1, <1>4
    <3> QED BY <2>1, <3>1, <3>2, <1>2, <1>3, NoTxTyped DEF TransactionOK
  <2>2. CASE u # t
    <3>1. pc[u] \notin {"resolve", "batch"}
      BY <2>2, <1>1 DEF ExpansionInv, LockDiscipline, HoldsNodes
    <3>2. /\ id_to_node \in Seq(Nodes) /\ id_to_state \in Seq(States)
          /\ StatesOK(id_to_state, Len(id_to_node))
          /\ tx[u] \in Transactions /\ TransactionOK(id_to_node, id_to_state, tx[u], pc[u])
      BY InvFacts DEF ExpansionInv, RegistriesOK
    <3> HIDE DEF nodes, states
    <3>3. TransactionOK(nodes, states, tx[u], pc[u])
      BY <3>1, <3>2, <1>4, TransactionPersists
    <3> QED BY <2>2, <3>3, <1>2, <1>3
  <2> QED BY <2>1, <2>2
<1> QED BY <1>3, <1>5, <1>6 DEF ExpansionInv

(* Every step keeps the invariant.                                         *)
LEMMA NextInv == ExpansionInv /\ [Next]_vars => ExpansionInv'
<1> SUFFICES ASSUME ExpansionInv, [Next]_vars PROVE ExpansionInv'
  OBVIOUS
<1>1. LockDiscipline'
  BY NextLocks DEF ExpansionInv
<1>2. CASE \E t \in Threads : Step(t) \/ Request(t) \/ Exhaust(t) \/ Cancel(t) \/ ProviderFault(t)
  <2>1. PICK t \in Threads : Step(t) \/ Request(t) \/ Exhaust(t) \/ Cancel(t) \/ ProviderFault(t)
    BY <1>2
  <2>2. CASE Step(t)
    <3>1. CASE ReadNode(t) \/ StartPaths(t) \/ VisitEdge(t) \/ ApplyOperation(t) \/ EndWalk(t)
      BY <3>1, <1>1, ReadNodeStep, StartPathsStep, VisitEdgeStep, ApplyOperationStep, EndWalkStep
    <3>2. CASE LockNodes(t) \/ AdoptCanonical(t) \/ AddNode(t) \/ ReleaseToRetire(t) \/ Retry(t)
      BY <3>2, <1>1, LockNodesStep, AdoptCanonicalStep, AddNodeStep, ReleaseToRetireStep, RetryStep
    <3>3. CASE LockStates(t) \/ PrepareArc(t) \/ Publish(t)
      BY <3>3, <1>1, LockStatesStep, PrepareArcStep, PublishStep
    <3>4. CASE Abort(t) \/ Unwound(t)
      BY <3>4, <1>1, UnwindStep, UnwoundStep DEF Abort
    <3> QED BY <2>2, <3>1, <3>2, <3>3, <3>4 DEF Step
  <2>3. CASE Request(t)
    <3>1. PICK id \in StateIds : Begin(t, id) \/ ExpandEmit(t, id)
      BY <2>3 DEF Request
    <3>2. CASE Begin(t, id)
      BY <3>2, <1>1, BeginStep
    <3>3. CASE ExpandEmit(t, id)
      BY <3>3, <1>1, Stay DEF ExpandEmit
    <3> QED BY <3>1, <3>2, <3>3
  <2>4. CASE Exhaust(t)
    BY <2>4, <1>1, UnwindStep DEF Exhaust
  <2>5. CASE Cancel(t) \/ ProviderFault(t)
    BY <2>5, <1>1, Stay DEF Cancel, ProviderFault
  <2> QED BY <2>1, <2>2, <2>3, <2>4, <2>5
<1>3. CASE Finished \/ UNCHANGED vars
  BY <1>1, <1>3, Stay DEF Finished, vars
<1> QED BY <1>2, <1>3 DEF Next

(* Every registry entry, staged reference, resolution and prepared state   *)
(* is as the code assumes, whatever other activations publish, for any     *)
(* number of activations, dictionary, operation set and limits.            *)
THEOREM ExpansionConsistent == Spec => []ExpansionInv
<1>1. Init => ExpansionInv
  BY InitInv
<1>2. ExpansionInv /\ [Next]_vars => ExpansionInv'
  BY NextInv
<1> QED BY <1>1, <1>2, PTL DEF Spec

(* The registries never exceed their retained-object limits, although each *)
(* activation checks its own provisional counts (require_at_most).         *)
THEOREM RegistriesWithinLimits == Spec => []LimitsRespected
<1>1. ExpansionInv => LimitsRespected
  BY DEF ExpansionInv, RegistriesOK, LimitsRespected
<1> QED BY <1>1, ExpansionConsistent, PTL

----------------------------------------------------------------------------
(* What the registries promise their readers                               *)

(* The continuation at index i and its neighbours in the chain.            *)
LEMMA ChainNeighbours ==
    ASSUME NEW states \in Seq(States), NEW i \in DOMAIN states, states[i].kind # "product",
           ChainWhole(states, i)
    PROVE  LET s == states[i]
               last == LastOf(s.chain)
               At(j, q) == /\ j \in DOMAIN states
                           /\ states[j].kind = "emit"
                           /\ states[j].chain = s.chain
                           /\ states[j].position = q
           IN  /\ s.position = 1 \/ At(i - 1, s.position - 1)
               /\ IF s.position = last THEN s.next = s.chain.target
                  ELSE s.next = i /\ At(i + 1, s.position + 1)
<1> DEFINE s == states[i]
           chain == s.chain
           p == s.position
           last == LastOf(chain)
           to(q) == IF q = last THEN chain.target ELSE i - p + q
           At(j, q) == /\ j \in DOMAIN states
                       /\ states[j].kind = "emit"
                       /\ states[j].chain = chain
                       /\ states[j].position = q
<1>1. s \in Emits /\ p \in Nat /\ last \in Int /\ i \in Nat
  BY StateFields, EmitFields
<1>2. /\ p \in 1 .. last
      /\ \A q \in 1 .. last : /\ i - p + q \in DOMAIN states
                              /\ states[i - p + q] = Emit(chain, q, to(q))
  BY DEF ChainWhole
<1>3. \A q, m : /\ Emit(chain, q, m).kind = "emit" /\ Emit(chain, q, m).chain = chain
                /\ Emit(chain, q, m).position = q /\ Emit(chain, q, m).next = m
  BY DEF Emit
<1> HIDE DEF s, chain, p, last, to
<1>4. \A q \in 1 .. last : At(i - p + q, q) /\ states[i - p + q].next = to(q)
  BY <1>2, <1>3
<1>5. p = 1 \/ At(i - 1, p - 1)
  <2>1. SUFFICES ASSUME p # 1 PROVE At(i - 1, p - 1)
    OBVIOUS
  <2>2. p - 1 \in 1 .. last /\ i - p + (p - 1) = i - 1
    BY <2>1, <1>1, <1>2
  <2> HIDE DEF At
  <2>3. At(i - p + (p - 1), p - 1)
    BY <2>2, <1>4
  <2> QED BY <2>2, <2>3
<1>6. s.next = to(p)
  <2>1. i - p + p = i
    BY <1>1
  <2> QED BY <2>1, <1>2, <1>4 DEF s
<1>7. p = last => s.next = chain.target
  BY <1>6 DEF to
<1>8. p # last => s.next = i /\ At(i + 1, p + 1)
  <2>1. SUFFICES ASSUME p # last PROVE s.next = i /\ At(i + 1, p + 1)
    OBVIOUS
  <2>2. to(p) = i
    BY <2>1, <1>1 DEF to
  <2>3. p + 1 \in 1 .. last /\ i - p + (p + 1) = i + 1
    BY <2>1, <1>1, <1>2
  <2> HIDE DEF At
  <2>4. At(i - p + (p + 1), p + 1)
    BY <2>3, <1>4
  <2> QED BY <2>2, <2>3, <2>4, <1>6
<1> QED BY <1>5, <1>7, <1>8 DEF s, chain, p, last

(* No two states have the same identity.                                   *)
LEMMA CanonicalStates == ExpansionInv => StatesCanonical
<1> SUFFICES ASSUME ExpansionInv PROVE StatesCanonical
  OBVIOUS
<1>1. /\ id_to_state \in Seq(States) /\ StatesOK(id_to_state, Len(id_to_node))
      /\ Len(id_to_state) \in Nat /\ DOMAIN id_to_state = 1 .. Len(id_to_state)
  <2>1. id_to_state \in Seq(States)
    BY DEF ExpansionInv, RegistryTypes
  <2> QED BY <2>1 DEF ExpansionInv, RegistriesOK
<1>2. \A i, j \in DOMAIN id_to_state : Identity(id_to_state[i]) = Identity(id_to_state[j]) => i = j
  BY <1>1 DEF StatesOK
<1>3. ASSUME NEW id \in StateIds, StateAt(id).kind = "emit"
      PROVE  LET s     == StateAt(id)
                 last  == Longer(s.chain.input, s.chain.output) - 1
                 At(n, position) == /\ n \in StateIds
                                    /\ StateAt(n).kind = "emit"
                                    /\ StateAt(n).chain = s.chain
                                    /\ StateAt(n).position = position
             IN  /\ s.position = 1 \/ At(id - 1, s.position - 1)
                 /\ IF s.position = last THEN s.next = s.chain.target
                    ELSE s.next = id + 1 /\ At(id + 1, s.position + 1)
  <2> DEFINE i == id + 1
             s == id_to_state[i]
             last == LastOf(s.chain)
             In(j, q) == /\ j \in DOMAIN id_to_state
                         /\ id_to_state[j].kind = "emit"
                         /\ id_to_state[j].chain = s.chain
                         /\ id_to_state[j].position = q
             At(n, q) == /\ n \in StateIds
                         /\ StateAt(n).kind = "emit"
                         /\ StateAt(n).chain = s.chain
                         /\ StateAt(n).position = q
  <2>1. i \in DOMAIN id_to_state /\ s.kind # "product" /\ id \in Nat
    BY <1>1, <1>3 DEF StateIds, StateAt
  <2>2. ChainWhole(id_to_state, i)
    BY <2>1, <1>1 DEF StatesOK
  <2>3. /\ s.position = 1 \/ In(i - 1, s.position - 1)
        /\ IF s.position = last THEN s.next = s.chain.target
           ELSE s.next = i /\ In(i + 1, s.position + 1)
    <3> HIDE DEF i
    <3> QED BY <2>1, <2>2, <1>1, ChainNeighbours
  <2>4. \A n \in Int : \A q : In(n + 1, q) => At(n, q)
    BY <1>1 DEF StateIds, StateAt
  <2>5. id - 1 \in Int /\ id + 1 \in Int /\ (id - 1) + 1 = i - 1 /\ (id + 1) + 1 = i + 1
    BY <2>1
  <2> HIDE DEF In, At
  <2>6. /\ s.position = 1 \/ At(id - 1, s.position - 1)
        /\ IF s.position = last THEN s.next = s.chain.target
           ELSE s.next = id + 1 /\ At(id + 1, s.position + 1)
    <3>1. In(i - 1, s.position - 1) => At(id - 1, s.position - 1)
      <4> HIDE DEF i, s
      <4> QED BY <2>4, <2>5
    <3>2. In(i + 1, s.position + 1) => At(id + 1, s.position + 1)
      <4> HIDE DEF i, s
      <4> QED BY <2>4, <2>5
    <3> HIDE DEF s, last
    <3> QED BY <2>3, <3>1, <3>2
  <2>7. StateAt(id) = s
    BY DEF StateAt
  <2> QED BY <2>6, <2>7 DEF At, LastOf
<1> QED BY <1>2, <1>3 DEF StatesCanonical

(* However many activations stage the same node or prepare the same state  *)
(* at once, each is registered once, an id's key spells the path to its    *)
(* node, and an emission chain is there as a whole.                        *)
THEOREM RegisteredOnce == Spec => []RegistriesCanonical
<1>1. ExpansionInv => NodesCanonical
  BY DEF ExpansionInv, RegistriesOK, CanonicalNodes, NodesCanonical, NodeAt
<1>2. ExpansionInv => RegistriesCanonical
  BY <1>1, CanonicalStates DEF RegistriesCanonical
<1> QED BY <1>2, ExpansionConsistent, PTL

(* The registries only grow: an id that was ever handed out keeps its      *)
(* meaning.                                                                *)
AppendOnly == Extends(id_to_node, id_to_node') /\ Extends(id_to_state, id_to_state')

(* Registries only grow, and only when a commit publishes.                 *)
LEMMA RegistriesGrow ==
    ASSUME ExpansionInv, [Next]_vars
    PROVE  /\ AppendOnly
           /\ UNCHANGED registries \/ \E t \in Threads : Publish(t)
<1>1. UNCHANGED registries \/ \E t \in Threads : Publish(t)
  <2>1. CASE \E t \in Threads : Step(t)
    <3>1. PICK t \in Threads : Step(t)
      BY <2>1
    <3>2. CASE ReadNode(t) \/ StartPaths(t) \/ VisitEdge(t) \/ ApplyOperation(t) \/ EndWalk(t)
      BY <3>2 DEF ReadNode, StartPaths, VisitEdge, ApplyOperation, EndWalk, Walking
    <3>3. CASE LockNodes(t) \/ AdoptCanonical(t) \/ AddNode(t) \/ ReleaseToRetire(t) \/ Retry(t)
      BY <3>3 DEF LockNodes, AdoptCanonical, AddNode, Resolving, ReleaseToRetire, Retry
    <3>4. CASE LockStates(t) \/ PrepareArc(t) \/ Abort(t) \/ Unwound(t)
      BY <3>4 DEF LockStates, PrepareArc, Abort, Unwind, Unwound
    <3> QED BY <3>1, <3>2, <3>3, <3>4 DEF Step
  <2>2. CASE \E t \in Threads : Request(t) \/ Exhaust(t) \/ Cancel(t) \/ ProviderFault(t)
    BY <2>2 DEF Request, Begin, ExpandEmit, Exhaust, Unwind, Cancel, ProviderFault
  <2>3. CASE Finished \/ UNCHANGED vars
    BY <2>3 DEF Finished, vars
  <2> QED BY <2>1, <2>2, <2>3 DEF Next
<1>2. CASE UNCHANGED registries
  <2>1. id_to_node' = id_to_node /\ id_to_state' = id_to_state
    BY <1>2 DEF registries
  <2>2. Len(id_to_node) \in Nat /\ Len(id_to_state) \in Nat
    BY DEF ExpansionInv, RegistryTypes
  <2> QED BY <1>1, <2>1, <2>2 DEF AppendOnly, Extends
<1>3. CASE \E t \in Threads : Publish(t)
  BY <1>1, <1>3, PublishFacts DEF AppendOnly
<1> QED BY <1>1, <1>2, <1>3

(* Ids handed out to callers, kept in caches and stored in answers never   *)
(* change what they denote.                                                *)
THEOREM IdsKeepTheirMeaning == Spec => [][AppendOnly]_vars
<1>1. ExpansionInv /\ [Next]_vars => [AppendOnly]_vars
  BY RegistriesGrow
<1> QED BY <1>1, ExpansionConsistent, PTL DEF Spec

----------------------------------------------------------------------------
(* Counters and answers                                                    *)

HistoryOK ==
    /\ verdict \in [Threads -> {"fine", "cancelled", "fault"}]
    /\ calls \in 0 .. MaxCalls
    /\ disturbances \in 0 .. MaxDisturbances
    /\ DOMAIN answers = 0 .. MaxStates - 1
    /\ \A id \in DOMAIN answers : \A answer \in answers[id] :
          \A i \in DOMAIN answer.transitions :
             answer.transitions[i].to \in Nat /\ answer.transitions[i].to < Len(id_to_state)

(* The next id of a continuation and its target are registered.            *)
LEMMA EmitTargets ==
    ASSUME ExpansionInv, NEW i \in DOMAIN id_to_state, id_to_state[i].kind # "product"
    PROVE  /\ id_to_state[i].next \in Nat /\ id_to_state[i].next < Len(id_to_state)
           /\ id_to_state[i].chain.target \in Nat
           /\ id_to_state[i].chain.target < Len(id_to_state)
<1> DEFINE s == id_to_state[i]
           last == LastOf(s.chain)
<1>1. id_to_state \in Seq(States) /\ StatesOK(id_to_state, Len(id_to_node))
  BY DEF ExpansionInv, RegistryTypes, RegistriesOK
<1>2. ChainWhole(id_to_state, i)
  BY <1>1 DEF StatesOK
<1>3. /\ s \in Emits /\ s.next \in Nat /\ s.chain.target \in Nat
      /\ DOMAIN id_to_state = 1 .. Len(id_to_state) /\ Len(id_to_state) \in Nat
  BY <1>1, StateFields, EmitFields
<1>4. s.chain.target < Len(id_to_state)
  BY <1>2 DEF ChainWhole
<1>5. s.next = s.chain.target \/ (s.next = i /\ i + 1 \in DOMAIN id_to_state)
  BY <1>1, <1>2, ChainNeighbours
<1> HIDE DEF s
<1>6. s.next < Len(id_to_state)
  BY <1>3, <1>4, <1>5
<1> QED BY <1>3, <1>4, <1>6 DEF s

(* An answer whose transitions lead to n registered states.                *)
Leads(answer, n) ==
    \A i \in DOMAIN answer.transitions :
        answer.transitions[i].to \in Nat /\ answer.transitions[i].to < n

(* Answers still lead to states that exist when there are more of them.    *)
LEMMA AnswersLead ==
    ASSUME NEW n \in Nat, NEW m \in Nat, n <= m,
           DOMAIN answers = 0 .. MaxStates - 1,
           \A id \in DOMAIN answers : \A answer \in answers[id] : Leads(answer, n),
           \/ UNCHANGED answers
           \/ \E id, answer : Answer(id, answer) /\ Leads(answer, m)
    PROVE  /\ DOMAIN answers' = 0 .. MaxStates - 1
           /\ \A id \in DOMAIN answers' : \A answer \in answers'[id] : Leads(answer, m)
<1>1. \A id \in DOMAIN answers : \A answer \in answers[id] : Leads(answer, m)
  BY DEF Leads
<1>2. CASE UNCHANGED answers
  BY <1>1, <1>2
<1>3. CASE \E id, answer : Answer(id, answer) /\ Leads(answer, m)
  <2>1. PICK id, answer : Answer(id, answer) /\ Leads(answer, m)
    BY <1>3
  <2>2. answers' = [answers EXCEPT ![id] = answers[id] \cup {answer}]
    BY <2>1 DEF Answer
  <2>3. DOMAIN answers' = DOMAIN answers
    BY <2>2
  <2>4. \A x \in DOMAIN answers' : answers'[x] = answers[x] \/ answers'[x] = answers[x] \cup {answer}
    BY <2>2, <2>3
  <2> QED BY <1>1, <2>1, <2>3, <2>4
<1> QED BY <1>2, <1>3

(* Answers come from the registry of continuations and from publications.  *)
LEMMA AnswersChange ==
    ASSUME ExpansionInv, [Next]_vars
    PROVE  \/ UNCHANGED answers
           \/ \E id, answer : Answer(id, answer) /\ Leads(answer, Len(id_to_state'))
<1>1. CASE \E t \in Threads : Publish(t)
  <2>1. PICK t \in Threads : Publish(t)
    BY <1>1
  <2> DEFINE id == tx[t].state
             answer == [final |-> FinalWeightOf(StateAt(id)), transitions |-> tx[t].transitions]
  <2>2. Answer(id, answer)
    BY <2>1 DEF Publish
  <2>3. answer.transitions = tx[t].transitions
    OBVIOUS
  <2>4. \A i \in DOMAIN tx[t].transitions :
           tx[t].transitions[i].to \in Nat /\ tx[t].transitions[i].to < Len(id_to_state')
    BY <2>1, PublishFacts
  <2> HIDE DEF answer
  <2>5. Leads(answer, Len(id_to_state'))
    BY <2>3, <2>4 DEF Leads
  <2> QED BY <2>2, <2>5
<1>2. CASE \E t \in Threads : \E id \in StateIds : ExpandEmit(t, id)
  <2>1. PICK t \in Threads, id \in StateIds : ExpandEmit(t, id)
    BY <1>2
  <2> DEFINE s == StateAt(id)
             tr == [input |-> LabelAt(s.chain.input, s.position),
                    output |-> LabelAt(s.chain.output, s.position),
                    to |-> s.next, weight |-> 0]
             answer == [final |-> FALSE, transitions |-> <<tr>>]
  <2>2. Answer(id, answer) /\ s.kind = "emit" /\ id_to_state' = id_to_state
    BY <2>1 DEF ExpandEmit, registries
  <2>3. id_to_state \in Seq(States) /\ id + 1 \in DOMAIN id_to_state
    <3>1. id_to_state \in Seq(States)
      BY DEF ExpansionInv, RegistryTypes
    <3> QED BY <3>1 DEF StateIds
  <2>4. s.next \in Nat /\ s.next < Len(id_to_state)
    BY <2>2, <2>3, EmitTargets DEF StateAt
  <2>5. answer.transitions = <<tr>> /\ tr.to = s.next
    OBVIOUS
  <2> HIDE DEF answer, tr, s
  <2>6. Leads(answer, Len(id_to_state'))
    BY <2>2, <2>4, <2>5 DEF Leads
  <2> QED BY <2>2, <2>6
<1>3. CASE \E t \in Threads : \/ Step(t) /\ ~ Publish(t)
                              \/ \E id \in StateIds : Begin(t, id)
                              \/ Exhaust(t) \/ Cancel(t) \/ ProviderFault(t)
  <2>1. PICK t \in Threads : \/ Step(t) /\ ~ Publish(t)
                             \/ \E id \in StateIds : Begin(t, id)
                             \/ Exhaust(t) \/ Cancel(t) \/ ProviderFault(t)
    BY <1>3
  <2>2. CASE ReadNode(t) \/ StartPaths(t) \/ VisitEdge(t) \/ ApplyOperation(t) \/ EndWalk(t)
    BY <2>2 DEF ReadNode, StartPaths, VisitEdge, ApplyOperation, EndWalk, Walking
  <2>3. CASE LockNodes(t) \/ AdoptCanonical(t) \/ AddNode(t) \/ ReleaseToRetire(t) \/ Retry(t)
    BY <2>3 DEF LockNodes, AdoptCanonical, AddNode, Resolving, ReleaseToRetire, Retry
  <2>4. CASE LockStates(t) \/ PrepareArc(t) \/ Abort(t) \/ Unwound(t)
    BY <2>4 DEF LockStates, PrepareArc, Abort, Unwind, Unwound
  <2>5. CASE \E id \in StateIds : Begin(t, id)
    BY <2>5 DEF Begin
  <2>6. CASE Exhaust(t) \/ Cancel(t) \/ ProviderFault(t)
    BY <2>6 DEF Exhaust, Unwind, Cancel, ProviderFault
  <2> QED BY <2>1, <2>2, <2>3, <2>4, <2>5, <2>6 DEF Step
<1>4. CASE Finished \/ UNCHANGED vars
  BY <1>4 DEF Finished, vars
<1> QED BY <1>1, <1>2, <1>3, <1>4 DEF Next, Request

(* Every step keeps verdicts and bounds.                                   *)
LEMMA CountersStep ==
    ASSUME HistoryOK, [Next]_vars
    PROVE  /\ verdict' \in [Threads -> {"fine", "cancelled", "fault"}]
           /\ calls' \in 0 .. MaxCalls
           /\ disturbances' \in 0 .. MaxDisturbances
<1> USE BoundsAssumption DEF HistoryOK
<1>1. CASE \E t \in Threads : Step(t)
  <2>1. PICK t \in Threads : Step(t)
    BY <1>1
  <2>2. CASE ReadNode(t) \/ StartPaths(t) \/ VisitEdge(t) \/ ApplyOperation(t) \/ EndWalk(t)
    BY <2>2 DEF ReadNode, StartPaths, VisitEdge, ApplyOperation, EndWalk, Walking
  <2>3. CASE LockNodes(t) \/ AdoptCanonical(t) \/ AddNode(t) \/ ReleaseToRetire(t) \/ Retry(t)
    BY <2>3 DEF LockNodes, AdoptCanonical, AddNode, Resolving, ReleaseToRetire, Retry
  <2>4. CASE LockStates(t) \/ PrepareArc(t) \/ Publish(t) \/ Abort(t) \/ Unwound(t)
    BY <2>4 DEF LockStates, PrepareArc, Publish, Abort, Unwind, Unwound
  <2> QED BY <2>1, <2>2, <2>3, <2>4 DEF Step
<1>2. CASE \E t \in Threads : Request(t)
  BY <1>2 DEF Request, Begin, ExpandEmit
<1>3. CASE \E t \in Threads : Exhaust(t) \/ Cancel(t) \/ ProviderFault(t)
  BY <1>3 DEF Exhaust, Unwind, Cancel, ProviderFault, Disturb
<1>4. CASE Finished \/ UNCHANGED vars
  BY <1>4 DEF Finished, vars
<1> QED BY <1>1, <1>2, <1>3, <1>4 DEF Next

(* Every step keeps what the answers given so far say.                     *)
LEMMA HistoryStep == ExpansionInv /\ HistoryOK /\ [Next]_vars => HistoryOK'
<1> SUFFICES ASSUME ExpansionInv, HistoryOK, [Next]_vars PROVE HistoryOK'
  OBVIOUS
<1> DEFINE n == Len(id_to_state)
           m == Len(id_to_state')
<1>1. n \in Nat /\ m \in Nat /\ n <= m
  <2>1. ExpansionInv'
    BY NextInv
  <2>2. id_to_state \in Seq(States) /\ id_to_state' \in Seq(States)
    BY <2>1 DEF ExpansionInv, RegistryTypes
  <2>3. n <= m
    BY RegistriesGrow DEF AppendOnly, Extends
  <2> QED BY <2>2, <2>3
<1>2. /\ DOMAIN answers = 0 .. MaxStates - 1
      /\ \A id \in DOMAIN answers : \A answer \in answers[id] : Leads(answer, n)
  BY DEF HistoryOK, Leads
<1>3. UNCHANGED answers \/ \E id, answer : Answer(id, answer) /\ Leads(answer, m)
  BY AnswersChange
<1> HIDE DEF n, m
<1>4. /\ DOMAIN answers' = 0 .. MaxStates - 1
      /\ \A id \in DOMAIN answers' : \A answer \in answers'[id] : Leads(answer, m)
  BY <1>1, <1>2, <1>3, AnswersLead
<1> QED BY <1>4, CountersStep DEF HistoryOK, Leads, m

(* Every id mentioned by a registered state or by an answer is registered, *)
(* and every registered product is one compute_product_state accepts, in   *)
(* spite of failures, cancellations and other activations.                 *)
THEOREM NothingDangles == Spec => []NoDangling
<1>1. Init => HistoryOK
  BY BoundsAssumption DEF Init, HistoryOK
<1>2. ExpansionInv /\ HistoryOK /\ [Next]_vars => HistoryOK'
  BY HistoryStep
<1>3. ExpansionInv /\ HistoryOK => NoDangling
  <2> SUFFICES ASSUME ExpansionInv, HistoryOK PROVE NoDangling
    OBVIOUS
  <2>1. /\ id_to_state \in Seq(States) /\ id_to_node \in Seq(Nodes)
        /\ Len(id_to_state) \in Nat /\ Len(id_to_node) \in Nat
        /\ StatesOK(id_to_state, Len(id_to_node))
    <3>1. id_to_state \in Seq(States) /\ id_to_node \in Seq(Nodes)
      BY DEF ExpansionInv, RegistryTypes
    <3> QED BY <3>1 DEF ExpansionInv, RegistriesOK
  <2>2. \A i \in DOMAIN id_to_state : id_to_state[i].kind \in {"product", "emit"}
    BY <2>1, StateFields
  <2>3. TypeOK
    BY <2>1, <2>2 DEF TypeOK, HistoryOK, ExpansionInv, LockDiscipline, ControlOK, Nodes
  <2>4. \A n \in Nat : n < Len(id_to_state) => n \in StateIds
    BY <2>1 DEF StateIds
  <2>5. ASSUME NEW i \in DOMAIN id_to_state
        PROVE  IF id_to_state[i].kind = "product" THEN Valid(id_to_state[i])
               ELSE {id_to_state[i].next, id_to_state[i].chain.target} \subseteq StateIds
    <3>1. CASE id_to_state[i].kind = "product"
      <4> DEFINE s == id_to_state[i]
      <4>1. s \in Products
        BY <3>1, <2>1, StateFields
      <4>2. s.node < Len(id_to_node) /\ s.pos <= Len(Query) /\ s.cost <= MaxCost
        BY <3>1, <2>1 DEF StatesOK
      <4>3. s.node \in Nat
        BY <4>1 DEF Products
      <4> HIDE DEF s
      <4>4. Valid(s)
        BY <4>2, <4>3, <2>1 DEF Valid, NodeIds
      <4> QED BY <3>1, <4>4 DEF s
    <3>2. CASE id_to_state[i].kind # "product"
      BY <3>2, <2>4, EmitTargets
    <3> QED BY <3>1, <3>2
  <2>6. \A id \in DOMAIN answers : \A answer \in answers[id] :
           \A i \in DOMAIN answer.transitions : answer.transitions[i].to \in StateIds
    BY <2>4 DEF HistoryOK
  <2> QED BY <2>3, <2>5, <2>6 DEF NoDangling
<1> QED BY <1>1, <1>2, <1>3, ExpansionConsistent, PTL DEF Spec

----------------------------------------------------------------------------
(* Ownership and retries of commit_expansion.  A staged node's owner is    *)
(* its own allocation, that of the first node staged for the same          *)
(* dictionary node, or the registry's.  It only ever moves down that list, *)
(* which bounds the retries; and under the locks the additions hold the    *)
(* owner of the node they were made from, so that dropping the staging     *)
(* area or the additions never drops a last owner.                         *)

(* j is the first node staged for the dictionary node of i.                *)
FirstAlias(staged, i, j) ==
    /\ j \in 1 .. i
    /\ staged[j].node = staged[i].node
    /\ \A h \in 1 .. j - 1 : staged[h].node # staged[i].node

OwnerOK(nodes, staged, i) ==
    \/ staged[i].owner = Own(i)
    \/ \E j \in 1 .. i : FirstAlias(staged, i, j) /\ staged[i].owner = Own(j)
    \/ \E id \in 0 .. Len(nodes) - 1 : /\ staged[i].owner = RegistryOwner(id)
                                       /\ nodes[id + 1].node = staged[i].node

(* The owners that were replaced, and those that are now the registry's.   *)
ReplacedOwners(staged) == {i \in DOMAIN staged : staged[i].owner # Own(i)}

RegistryOwners(staged) == {i \in DOMAIN staged : staged[i].owner[1] = "registry"}

Replacements(staged) ==
    Cardinality(ReplacedOwners(staged)) + Cardinality(RegistryOwners(staged))

(* An addition shares the owner of the node it was made from.              *)
AdditionOK(r, a) ==
    \E j \in 1 .. Len(r.resolved) :
        /\ r.additions[a].owner = Own(j)
        /\ r.additions[a].node = r.staged[j].node
        /\ r.staged[j].owner = Own(j)
        /\ FirstAlias(r.staged, j, j)

(* A resolved node shares its owner with an addition or the registry.      *)
ResolvedOwnerOK(nodes, r, i) ==
    \/ \E a \in DOMAIN r.additions : r.staged[i].owner = r.additions[a].owner
    \/ \E id \in 0 .. Len(nodes) - 1 : r.staged[i].owner = RegistryOwner(id)

OwnershipOK(nodes, r, p) ==
    /\ p = "walk" => /\ r.passes = 0
                     /\ r.retired = FALSE
                     /\ \A i \in DOMAIN r.staged : r.staged[i].owner = Own(i)
    /\ p \in {"commit", "resolve", "retire", "batch"} =>
          \A i \in DOMAIN r.staged : OwnerOK(nodes, r.staged, i)
    /\ p = "commit" => r.retired = FALSE
    /\ p \in {"commit", "retire"} => r.passes <= Replacements(r.staged)
    /\ p \in {"resolve", "batch"} =>
          /\ r.passes <= Replacements(r.staged) + 1
          /\ r.retired => r.passes <= Replacements(r.staged)
          /\ \A a \in DOMAIN r.additions : AdditionOK(r, a)
          /\ \A i \in 1 .. Len(r.resolved) : ResolvedOwnerOK(nodes, r, i)
    /\ p = "unwind" => r.passes <= 2 * Len(r.staged) + 1

OwnershipInv == \A t \in Threads : OwnershipOK(id_to_node, tx[t], pc[t])

----------------------------------------------------------------------------
(* Owners and how many were replaced                                       *)

(* Owners of different places differ, and a registry's owner is no staged  *)
(* one.                                                                    *)
LEMMA OwnersDiffer ==
    ASSUME NEW i \in Nat, NEW j \in Nat
    PROVE  /\ Own(i) = Own(j) => i = j
           /\ RegistryOwner(i) = RegistryOwner(j) => i = j
           /\ Own(i) # RegistryOwner(j)
           /\ Own(i)[1] # "registry" /\ RegistryOwner(j)[1] = "registry"
BY DEF Own, RegistryOwner

(* Positions of the staging can be counted.                                *)
LEMMA Counts ==
    ASSUME NEW staged \in Seq(StagedNodes), NEW S, S \subseteq DOMAIN staged
    PROVE  IsFiniteSet(S) /\ Cardinality(S) \in Nat /\ Cardinality(S) <= Len(staged)
<1> DEFINE n == Len(staged)
<1>1. n \in Nat /\ S \in SUBSET (1 .. n)
  OBVIOUS
<1> HIDE DEF n
<1>2. IsFiniteSet(1 .. n) /\ Cardinality(1 .. n) = n
  <2>1. 1 \in Int /\ n \in Int
    BY <1>1
  <2>2. IsFiniteSet(1 .. n) /\ Cardinality(1 .. n) = IF 1 > n THEN 0 ELSE n - 1 + 1
    BY <2>1, FS_Interval
  <2> QED BY <1>1, <2>2
<1>3. IsFiniteSet(S) /\ Cardinality(S) <= n
  BY <1>1, <1>2, FS_Subset
<1> QED BY <1>3, FS_CardinalityType DEF n

(* The replacements of a staging are bounded by its length.                *)
LEMMA ReplacementsTyped ==
    ASSUME NEW staged \in Seq(StagedNodes)
    PROVE  Replacements(staged) \in Nat /\ Replacements(staged) <= 2 * Len(staged)
<1>1. ReplacedOwners(staged) \subseteq DOMAIN staged /\ RegistryOwners(staged) \subseteq DOMAIN staged
  BY DEF ReplacedOwners, RegistryOwners
<1>2. /\ Cardinality(ReplacedOwners(staged)) \in Nat
      /\ Cardinality(ReplacedOwners(staged)) <= Len(staged)
      /\ Cardinality(RegistryOwners(staged)) \in Nat
      /\ Cardinality(RegistryOwners(staged)) <= Len(staged)
  BY <1>1, Counts
<1> QED BY <1>2 DEF Replacements

(* Replacing an owner further down the list is counted.                    *)
LEMMA ReplacementsGrow ==
    ASSUME NEW old \in Seq(StagedNodes), NEW new \in Seq(StagedNodes), Len(new) = Len(old),
           ReplacedOwners(old) \subseteq ReplacedOwners(new),
           RegistryOwners(old) \subseteq RegistryOwners(new),
           ReplacedOwners(old) # ReplacedOwners(new) \/ RegistryOwners(old) # RegistryOwners(new)
    PROVE  Replacements(old) + 1 <= Replacements(new)
<1> DEFINE A == ReplacedOwners(old)
           B == ReplacedOwners(new)
           C == RegistryOwners(old)
           D == RegistryOwners(new)
<1>1. A \subseteq DOMAIN old /\ C \subseteq DOMAIN old /\ B \subseteq DOMAIN new /\ D \subseteq DOMAIN new
  BY DEF ReplacedOwners, RegistryOwners
<1> HIDE DEF A, B, C, D
<1>2. /\ IsFiniteSet(B) /\ IsFiniteSet(D)
      /\ Cardinality(A) \in Nat /\ Cardinality(B) \in Nat
      /\ Cardinality(C) \in Nat /\ Cardinality(D) \in Nat
  BY <1>1, Counts
<1>3. A \in SUBSET B /\ C \in SUBSET D
  BY DEF A, B, C, D
<1>4. /\ Cardinality(A) <= Cardinality(B)
      /\ Cardinality(B) = Cardinality(A) => A = B
      /\ Cardinality(C) <= Cardinality(D)
      /\ Cardinality(D) = Cardinality(C) => C = D
  <2>1. Cardinality(A) <= Cardinality(B) /\ (Cardinality(B) = Cardinality(A) => B = A)
    BY <1>2, <1>3, FS_Subset
  <2>2. Cardinality(C) <= Cardinality(D) /\ (Cardinality(D) = Cardinality(C) => D = C)
    BY <1>2, <1>3, FS_Subset
  <2> QED BY <2>1, <2>2
<1>5. A # B \/ C # D
  BY DEF A, B, C, D
<1>6. Cardinality(A) + Cardinality(C) + 1 <= Cardinality(B) + Cardinality(D)
  BY <1>2, <1>4, <1>5
<1> QED BY <1>6 DEF Replacements, A, B, C, D

----------------------------------------------------------------------------
(* Steps of one activation                                                 *)

(* Local changes one thread's transaction.                                 *)
LEMMA LocalEffect ==
    ASSUME ExpansionInv, NEW t \in Threads, NEW r, Local(t, r)
    PROVE  tx'[t] = r /\ \A u \in Threads \ {t} : tx'[u] = tx[u]
BY DEF ExpansionInv, Local

(* Goto changes one thread's position.                                     *)
LEMMA GotoEffect ==
    ASSUME ExpansionInv, NEW t \in Threads, NEW p, Goto(t, p)
    PROVE  pc'[t] = p /\ \A u \in Threads \ {t} : pc'[u] = pc[u]
BY InvFacts DEF Goto

(* A step of one thread that publishes nothing has to keep its own part    *)
(* only.                                                                   *)
LEMMA OwnershipStep ==
    ASSUME OwnershipInv, NEW t \in Threads, id_to_node' = id_to_node,
           \A u \in Threads \ {t} : tx'[u] = tx[u] /\ pc'[u] = pc[u],
           OwnershipOK(id_to_node, tx'[t], pc'[t])
    PROVE  OwnershipInv'
<1>1. ASSUME NEW u \in Threads PROVE OwnershipOK(id_to_node, tx'[u], pc'[u])
  BY DEF OwnershipInv
<1> QED BY <1>1 DEF OwnershipInv

(* A transaction that has staged nothing yet.                              *)
LEMMA NothingStaged ==
    ASSUME NEW r, r.staged = <<>>, r.passes = 0, r.retired = FALSE,
           NEW p \in {"idle", "node", "walk"}
    PROVE  OwnershipOK(id_to_node, r, p)
BY DEF OwnershipOK

(* A transaction begins with nothing staged.                               *)
LEMMA BeginOwners ==
    ASSUME ExpansionInv, OwnershipInv, NEW t \in Threads, NEW id, Begin(t, id)
    PROVE  OwnershipInv'
<1>1. UNCHANGED registries /\ Goto(t, "node")
  BY DEF Begin
<1>2. PICK r : Local(t, r)
  BY DEF Begin
<1>3. OwnershipOK(id_to_node, r, "node")
  BY DEF OwnershipOK
<1> QED BY <1>1, <1>2, <1>3, LocalEffect, GotoEffect, OwnershipStep DEF registries

(* Reading a node stages nothing.                                          *)
LEMMA ReadNodeOwners ==
    ASSUME ExpansionInv, OwnershipInv, NEW t \in Threads, ReadNode(t)
    PROVE  OwnershipInv'
<1> DEFINE op == Affordable(StateAt(tx[t].state), 1)
           r == [tx[t] EXCEPT !.op = op]
<1>1. pc[t] = "node" /\ UNCHANGED registries /\ Goto(t, "walk") /\ Local(t, r)
  BY DEF ReadNode
<1>2. tx[t] = [NoTx EXCEPT !.state = tx[t].state]
  BY <1>1, InvFacts DEF TransactionOK
<1>3. tx[t].staged = <<>> /\ tx[t].passes = 0 /\ tx[t].retired = FALSE /\ tx[t] \in Transactions
  BY <1>2, InvFacts DEF NoTx
<1> HIDE DEF op
<1>4. r.staged = <<>> /\ r.passes = 0 /\ r.retired = FALSE
  BY <1>3 DEF Transactions
<1> HIDE DEF r
<1>5. OwnershipOK(id_to_node, r, "walk")
  BY <1>4, NothingStaged
<1> QED BY <1>1, <1>5, LocalEffect, GotoEffect, OwnershipStep DEF registries

(* Steps of the walk that stage nothing.                                   *)
LEMMA WalkOwners ==
    ASSUME ExpansionInv, OwnershipInv, NEW t \in Threads,
           StartPaths(t) \/ ApplyOperation(t) \/ EndWalk(t)
    PROVE  OwnershipInv'
<1>1. pc[t] = "walk" /\ UNCHANGED registries
  BY DEF StartPaths, ApplyOperation, EndWalk, Walking
<1>2. /\ tx[t].passes = 0 /\ tx[t].retired = FALSE
      /\ \A i \in DOMAIN tx[t].staged : tx[t].staged[i].owner = Own(i)
      /\ tx[t] \in Transactions
  BY <1>1, InvFacts DEF OwnershipInv, OwnershipOK
<1>3. CASE EndWalk(t)
  <2>1. Goto(t, "commit") /\ UNCHANGED tx
    BY <1>3 DEF EndWalk
  <2>2. OwnershipOK(id_to_node, tx[t], "commit")
    <3>1. \A i \in DOMAIN tx[t].staged : OwnerOK(id_to_node, tx[t].staged, i)
      BY <1>2 DEF OwnerOK
    <3>2. Replacements(tx[t].staged) \in Nat
      BY <1>2, TransactionFields, ReplacementsTyped
    <3>3. tx[t].passes <= Replacements(tx[t].staged)
      BY <3>2, <1>2
    <3> QED BY <3>1, <3>3, <1>2 DEF OwnershipOK
  <2> QED BY <1>1, <2>1, <2>2, GotoEffect, OwnershipStep DEF registries
<1>4. CASE StartPaths(t)
  <2>1. UNCHANGED pc
    BY <1>4 DEF StartPaths
  <2>2. PICK paths, stack : Local(t, [tx[t] EXCEPT !.paths = paths, !.stack = stack])
    BY <1>4 DEF StartPaths
  <2> DEFINE r == [tx[t] EXCEPT !.paths = paths, !.stack = stack]
  <2>3. r.staged = tx[t].staged /\ r.passes = tx[t].passes /\ r.retired = tx[t].retired
    BY <1>2 DEF Transactions
  <2> HIDE DEF r
  <2>4. OwnershipOK(id_to_node, r, "walk")
    BY <1>2, <2>3 DEF OwnershipOK
  <2> QED BY <1>1, <2>1, <2>2, <2>4, LocalEffect, OwnershipStep DEF registries, r
<1>5. CASE ApplyOperation(t)
  <2>1. UNCHANGED pc
    BY <1>5 DEF ApplyOperation
  <2>2. PICK arcs, op : Local(t, [tx[t] EXCEPT !.arcs = arcs, !.op = op])
    BY <1>5 DEF ApplyOperation
  <2> DEFINE r == [tx[t] EXCEPT !.arcs = arcs, !.op = op]
  <2>3. r.staged = tx[t].staged /\ r.passes = tx[t].passes /\ r.retired = tx[t].retired
    BY <1>2 DEF Transactions
  <2> HIDE DEF r
  <2>4. OwnershipOK(id_to_node, r, "walk")
    BY <1>2, <2>3 DEF OwnershipOK
  <2> QED BY <1>1, <2>1, <2>2, <2>4, LocalEffect, OwnershipStep DEF registries, r
<1> QED BY <1>3, <1>4, <1>5

(* A child is staged with the owner that the visit made.                   *)
LEMMA VisitEdgeOwners ==
    ASSUME ExpansionInv, OwnershipInv, NEW t \in Threads, VisitEdge(t)
    PROVE  OwnershipInv'
<1> DEFINE old == tx[t].staged
<1>1. pc[t] = "walk" /\ UNCHANGED registries /\ UNCHANGED pc
  BY DEF VisitEdge, Walking
<1>2. /\ tx[t].passes = 0 /\ tx[t].retired = FALSE
      /\ \A i \in DOMAIN old : old[i].owner = Own(i)
      /\ tx[t] \in Transactions /\ old \in Seq(StagedNodes)
  BY <1>1, InvFacts, TransactionFields DEF OwnershipInv, OwnershipOK
<1>3. PICK staged, paths, stack :
         /\ Local(t, [tx[t] EXCEPT !.staged = staged, !.paths = paths, !.stack = stack])
         /\ \/ staged = old
            \/ \E parent, label, node :
                  staged = Append(old, [parent |-> parent, label |-> label, node |-> node,
                                        owner |-> Own(Len(old) + 1)])
  <2> DEFINE depth == Len(tx[t].stack)
             top   == tx[t].stack[depth]
             label == Head(top.todo)
             out   == Append(top.out, label)
             node  == Append(top.node, label)
             ref   == ChildRef(t, top.ref, label)
             width == CurrentOp(t).x
             rest  == [tx[t].stack EXCEPT ![depth].todo = Tail(@)]
             paths == IF depth = width
                      THEN Append(tx[t].paths, [width |-> width, done |-> TRUE,
                                                ref |-> ref, out |-> out])
                      ELSE tx[t].paths
             stack == Unfinished(IF depth = width THEN rest
                                 ELSE Append(rest, Frame(ref, node, out)))
             new == [parent |-> top.ref, label |-> label,
                     node |-> node, owner |-> Own(Len(old) + 1)]
             staged == IF ref = Staged(Len(old) + 1) THEN Append(old, new) ELSE old
  <2>1. Local(t, [tx[t] EXCEPT !.staged = staged, !.paths = paths, !.stack = stack])
    BY DEF VisitEdge
  <2>2. \/ staged = old
        \/ \E pa, la, no : staged = Append(old, [parent |-> pa, label |-> la, node |-> no,
                                                 owner |-> Own(Len(old) + 1)])
    OBVIOUS
  <2> HIDE DEF staged, paths, stack
  <2> QED BY <2>1, <2>2
<1> DEFINE r == [tx[t] EXCEPT !.staged = staged, !.paths = paths, !.stack = stack]
<1>4. r.staged = staged /\ r.passes = tx[t].passes /\ r.retired = tx[t].retired
  BY <1>2 DEF Transactions
<1> HIDE DEF r
<1>5. \A i \in DOMAIN staged : staged[i].owner = Own(i)
  <2>1. CASE staged = old
    BY <2>1, <1>2
  <2>2. ASSUME NEW new, new.owner = Own(Len(old) + 1), staged = Append(old, new)
        PROVE  \A i \in DOMAIN staged : staged[i].owner = Own(i)
    <3>1. /\ DOMAIN staged = 1 .. Len(old) + 1 /\ DOMAIN old = 1 .. Len(old) /\ Len(old) \in Nat
          /\ \A i \in 1 .. Len(old) : staged[i] = old[i]
          /\ staged[Len(old) + 1] = new
      BY <1>2, <2>2
    <3> HIDE DEF old
    <3> QED BY <3>1, <1>2, <2>2
  <2> QED BY <1>3, <2>1, <2>2
<1>6. OwnershipOK(id_to_node, r, "walk")
  BY <1>2, <1>4, <1>5 DEF OwnershipOK
<1> QED BY <1>1, <1>3, <1>6, LocalEffect, OwnershipStep DEF registries, r

(* Taking the registry's lock stages nothing.                              *)
LEMMA LockNodesOwners ==
    ASSUME ExpansionInv, OwnershipInv, NEW t \in Threads, LockNodes(t)
    PROVE  OwnershipInv'
<1> DEFINE passes == IF tx[t].passes > MaxPasses(t) THEN tx[t].passes ELSE tx[t].passes + 1
           r == [tx[t] EXCEPT !.resolved = <<>>, !.additions = <<>>, !.passes = passes]
<1>1. pc[t] = "commit" /\ UNCHANGED registries /\ Goto(t, "resolve") /\ Local(t, r)
  BY DEF LockNodes
<1>2. /\ tx[t].retired = FALSE /\ tx[t].passes <= Replacements(tx[t].staged)
      /\ \A i \in DOMAIN tx[t].staged : OwnerOK(id_to_node, tx[t].staged, i)
      /\ tx[t] \in Transactions /\ tx[t].passes \in Nat
      /\ Replacements(tx[t].staged) \in Nat
  BY <1>1, InvFacts, TransactionFields, ReplacementsTyped DEF OwnershipInv, OwnershipOK
<1>3. passes <= Replacements(tx[t].staged) + 1
  BY <1>2
<1> HIDE DEF passes
<1>4. /\ r.staged = tx[t].staged /\ r.passes = passes /\ r.retired = tx[t].retired
      /\ r.resolved = <<>> /\ r.additions = <<>>
  BY <1>2 DEF Transactions
<1> HIDE DEF r
<1>5. OwnershipOK(id_to_node, r, "resolve")
  BY <1>2, <1>3, <1>4 DEF OwnershipOK
<1> QED BY <1>1, <1>5, LocalEffect, GotoEffect, OwnershipStep DEF registries

(* Replaced owners are dropped outside the lock.                           *)
LEMMA RetireOwners ==
    ASSUME ExpansionInv, OwnershipInv, NEW t \in Threads, ReleaseToRetire(t)
    PROVE  OwnershipInv'
<1> DEFINE r == [tx[t] EXCEPT !.additions = <<>>]
<1>1. pc[t] = "resolve" /\ UNCHANGED registries /\ Goto(t, "retire") /\ Local(t, r) /\ tx[t].retired
  BY DEF ReleaseToRetire, AllResolved
<1>2. /\ tx[t].passes <= Replacements(tx[t].staged)
      /\ \A i \in DOMAIN tx[t].staged : OwnerOK(id_to_node, tx[t].staged, i)
      /\ tx[t] \in Transactions
  BY <1>1, InvFacts DEF OwnershipInv, OwnershipOK
<1>3. r.staged = tx[t].staged /\ r.passes = tx[t].passes
  BY <1>2 DEF Transactions
<1> HIDE DEF r
<1>4. OwnershipOK(id_to_node, r, "retire")
  BY <1>2, <1>3 DEF OwnershipOK
<1> QED BY <1>1, <1>4, LocalEffect, GotoEffect, OwnershipStep DEF registries

(* A retry starts with the staging as it was adopted.                      *)
LEMMA RetryOwners ==
    ASSUME ExpansionInv, OwnershipInv, NEW t \in Threads, Retry(t)
    PROVE  OwnershipInv'
<1> DEFINE r == [tx[t] EXCEPT !.retired = FALSE]
<1>1. pc[t] = "retire" /\ UNCHANGED registries /\ Goto(t, "commit") /\ Local(t, r)
  BY DEF Retry
<1>2. /\ tx[t].passes <= Replacements(tx[t].staged)
      /\ \A i \in DOMAIN tx[t].staged : OwnerOK(id_to_node, tx[t].staged, i)
      /\ tx[t] \in Transactions
  BY <1>1, InvFacts DEF OwnershipInv, OwnershipOK
<1>3. r.staged = tx[t].staged /\ r.passes = tx[t].passes /\ r.retired = FALSE
  BY <1>2 DEF Transactions
<1> HIDE DEF r
<1>4. OwnershipOK(id_to_node, r, "commit")
  BY <1>2, <1>3 DEF OwnershipOK
<1> QED BY <1>1, <1>4, LocalEffect, GotoEffect, OwnershipStep DEF registries

(* Preparing the states leaves the staged nodes alone.                     *)
LEMMA PrepareOwners ==
    ASSUME ExpansionInv, OwnershipInv, NEW t \in Threads, LockStates(t) \/ PrepareArc(t)
    PROVE  OwnershipInv'
<1>1. PICK batch, transitions :
         Local(t, [tx[t] EXCEPT !.batch = batch, !.transitions = transitions])
  BY DEF LockStates, PrepareArc
<1> DEFINE r == [tx[t] EXCEPT !.batch = batch, !.transitions = transitions]
<1>2. /\ pc[t] \in {"resolve", "batch"} /\ UNCHANGED registries
      /\ Goto(t, "batch") \/ (UNCHANGED pc /\ pc[t] = "batch")
  BY DEF LockStates, PrepareArc, AllResolved
<1>3. tx[t] \in Transactions
  BY InvFacts
<1>4. /\ r.staged = tx[t].staged /\ r.passes = tx[t].passes /\ r.retired = tx[t].retired
      /\ r.resolved = tx[t].resolved /\ r.additions = tx[t].additions
  BY <1>3 DEF Transactions
<1> HIDE DEF r
<1>5. OwnershipOK(id_to_node, tx[t], pc[t])
  BY DEF OwnershipInv
<1>6. OwnershipOK(id_to_node, r, "batch")
  BY <1>2, <1>4, <1>5 DEF OwnershipOK, AdditionOK, ResolvedOwnerOK
<1> QED BY <1>1, <1>2, <1>6, LocalEffect, GotoEffect, OwnershipStep DEF registries, r

(* A panic leaves the staging to its thread.                               *)
LEMMA UnwindOwners ==
    ASSUME ExpansionInv, OwnershipInv, NEW t \in Threads, pc[t] \notin {"idle", "unwind"}, Unwind(t)
    PROVE  OwnershipInv'
<1>1. UNCHANGED <<registries, tx>> /\ Goto(t, "unwind")
  BY DEF Unwind
<1>2. tx[t] \in Transactions /\ tx[t].passes \in Nat /\ tx[t].staged \in Seq(StagedNodes)
      /\ pc[t] \in PCs /\ OwnershipOK(id_to_node, tx[t], pc[t])
  BY InvFacts, TransactionFields DEF OwnershipInv
<1>3. /\ Replacements(tx[t].staged) \in Nat /\ Replacements(tx[t].staged) <= 2 * Len(tx[t].staged)
      /\ Len(tx[t].staged) \in Nat
  BY <1>2, ReplacementsTyped
<1>4. tx[t].passes <= 2 * Len(tx[t].staged) + 1
  <2>1. CASE pc[t] = "node"
    <3>1. tx[t] = [NoTx EXCEPT !.state = tx[t].state]
      BY <2>1, InvFacts DEF TransactionOK
    <3>2. tx[t].passes = 0
      BY <3>1 DEF NoTx
    <3> QED BY <3>2, <1>3
  <2>2. CASE pc[t] = "walk"
    <3>1. tx[t].passes = 0
      BY <2>2, <1>2 DEF OwnershipOK
    <3> QED BY <3>1, <1>3
  <2>3. CASE pc[t] \in {"commit", "resolve", "retire", "batch"}
    <3>1. tx[t].passes <= Replacements(tx[t].staged) + 1
      BY <2>3, <1>2, <1>3 DEF OwnershipOK
    <3> QED BY <3>1, <1>2, <1>3
  <2> QED BY <2>1, <2>2, <2>3, <1>2 DEF PCs
<1>5. OwnershipOK(id_to_node, tx[t], "unwind")
  BY <1>4 DEF OwnershipOK
<1> QED BY <1>1, <1>5, GotoEffect, OwnershipStep DEF registries

(* An unwound transaction has dropped everything.                          *)
LEMMA UnwoundOwners ==
    ASSUME ExpansionInv, OwnershipInv, NEW t \in Threads, Unwound(t)
    PROVE  OwnershipInv'
<1>1. UNCHANGED registries /\ Goto(t, "idle") /\ Local(t, NoTx)
  BY DEF Unwound
<1>2. OwnershipOK(id_to_node, NoTx, "idle")
  BY DEF OwnershipOK
<1> QED BY <1>1, <1>2, LocalEffect, GotoEffect, OwnershipStep DEF registries

(* Others' publications disturb no transaction that is not committing.     *)
LEMMA PublishOwners ==
    ASSUME ExpansionInv, OwnershipInv, NEW t \in Threads, Publish(t)
    PROVE  OwnershipInv'
<1> DEFINE nodes == id_to_node'
<1>1. pc[t] = "batch" /\ Local(t, NoTx) /\ Goto(t, "idle")
  BY DEF Publish
<1>2. /\ SameNodes(id_to_node, nodes) /\ nodes \in Seq(Nodes) /\ id_to_node \in Seq(Nodes)
  BY PublishFacts, InvFacts
<1>3. OwnershipOK(nodes, NoTx, "idle")
  BY DEF OwnershipOK
<1> HIDE DEF nodes
<1>4. ASSUME NEW u \in Threads \ {t} PROVE OwnershipOK(nodes, tx[u], pc[u])
  <2>1. pc[u] \notin {"resolve", "batch"}
    BY <1>1 DEF ExpansionInv, LockDiscipline, HoldsNodes
  <2>2. OwnershipOK(id_to_node, tx[u], pc[u])
    BY DEF OwnershipInv
  <2>3. ASSUME NEW i, OwnerOK(id_to_node, tx[u].staged, i)
        PROVE  OwnerOK(nodes, tx[u].staged, i)
    <3>1. CASE \E id \in 0 .. Len(id_to_node) - 1 :
                  /\ tx[u].staged[i].owner = RegistryOwner(id)
                  /\ id_to_node[id + 1].node = tx[u].staged[i].node
      <4>1. PICK id \in 0 .. Len(id_to_node) - 1 :
                  /\ tx[u].staged[i].owner = RegistryOwner(id)
                  /\ id_to_node[id + 1].node = tx[u].staged[i].node
        BY <3>1
      <4>2. id + 1 \in DOMAIN id_to_node /\ id \in 0 .. Len(nodes) - 1
        BY <1>2 DEF SameNodes
      <4>3. nodes[id + 1].node = id_to_node[id + 1].node
        BY <4>2, <1>2 DEF SameNodes
      <4> QED BY <4>1, <4>2, <4>3 DEF OwnerOK
    <3> QED BY <2>3, <3>1 DEF OwnerOK
  <2> QED BY <2>1, <2>2, <2>3 DEF OwnershipOK
<1>5. tx'[t] = NoTx /\ pc'[t] = "idle"
      /\ \A u \in Threads \ {t} : tx'[u] = tx[u] /\ pc'[u] = pc[u]
  BY <1>1, LocalEffect, GotoEffect
<1>6. \A u \in Threads : OwnershipOK(nodes, tx'[u], pc'[u])
  BY <1>3, <1>4, <1>5
<1> QED BY <1>6 DEF OwnershipInv, nodes

----------------------------------------------------------------------------
(* Resolution                                                              *)

(* Whose owner a staged node has depends on the nodes, not on the owners.  *)
LEMMA FirstAliasSame ==
    ASSUME NEW old \in Seq(StagedNodes), NEW new \in Seq(StagedNodes),
           Len(new) = Len(old), SameNodes(old, new),
           NEW i \in DOMAIN old, NEW j, FirstAlias(old, i, j)
    PROVE  FirstAlias(new, i, j)
<1>1. /\ DOMAIN old = 1 .. Len(old) /\ Len(old) \in Nat
      /\ \A h \in DOMAIN old : new[h].node = old[h].node
  BY DEF SameNodes
<1>2. j \in 1 .. i /\ \A h \in 1 .. i : h \in DOMAIN old
  BY <1>1 DEF FirstAlias
<1> QED BY <1>1, <1>2 DEF FirstAlias

(* The first alias of a staged node is unique.                             *)
LEMMA FirstAliasUnique ==
    ASSUME NEW staged, NEW i \in Nat, NEW j, NEW h, FirstAlias(staged, i, j), FirstAlias(staged, i, h)
    PROVE  j = h
<1>1. j \in 1 .. i /\ h \in 1 .. i
  BY DEF FirstAlias
<1>2. ~ (j < h) /\ ~ (h < j)
  BY <1>1 DEF FirstAlias
<1> QED BY <1>1, <1>2

(* The addition that a resolution shares is that of the first alias.       *)
LEMMA AdditionAlias ==
    ASSUME ExpansionInv, OwnershipInv, NEW t \in Threads, pc[t] = "resolve",
           NEW a \in DOMAIN tx[t].additions, NEW k \in DOMAIN tx[t].staged,
           k = Len(tx[t].resolved) + 1, tx[t].additions[a].node = tx[t].staged[k].node
    PROVE  \E j \in 1 .. k - 1 : /\ tx[t].additions[a].owner = Own(j)
                                 /\ FirstAlias(tx[t].staged, k, j)
<1>1. AdditionOK(tx[t], a)
  BY DEF OwnershipInv, OwnershipOK
<1>2. PICK j \in 1 .. Len(tx[t].resolved) :
         /\ tx[t].additions[a].owner = Own(j)
         /\ tx[t].additions[a].node = tx[t].staged[j].node
         /\ FirstAlias(tx[t].staged, j, j)
  BY <1>1 DEF AdditionOK
<1>3. tx[t].resolved \in Seq(Nat) /\ tx[t].staged \in Seq(StagedNodes)
  BY InvFacts, TransactionFields
<1>4. j \in 1 .. k - 1 /\ j \in 1 .. k
  BY <1>3
<1>5. FirstAlias(tx[t].staged, k, j)
  BY <1>2, <1>4 DEF FirstAlias
<1> QED BY <1>2, <1>4, <1>5

(* An adopted node keeps the registry's owner and retires its own.         *)
LEMMA AdoptOwners ==
    ASSUME ExpansionInv, OwnershipInv, NEW t \in Threads, AdoptCanonical(t)
    PROVE  OwnershipInv'
<1> DEFINE k == NextStaged(t)
           old == tx[t].staged
           id == CanonicalId(t, StagedKey(t))
           owner == CanonicalOwner(t, StagedKey(t))
           nodes == Published(id_to_node, tx[t].additions)
           n == Len(id_to_node)
<1>1. /\ pc[t] = "resolve" /\ UNCHANGED <<registries, pc>>
      /\ Len(tx[t].resolved) < Len(old) /\ k \in DOMAIN old /\ k = Len(tx[t].resolved) + 1
      /\ id \in Nat /\ id < Len(nodes) /\ nodes[id + 1].node = old[k].node
      /\ owner \in Owners
      /\ \/ id < n /\ owner = RegistryOwner(id)
         \/ \E a \in DOMAIN tx[t].additions : id = n + a - 1 /\ owner = tx[t].additions[a].owner
  BY AdoptFacts
<1>2. PICK r \in Transactions :
         /\ Local(t, r)
         /\ r.additions = tx[t].additions /\ r.passes = tx[t].passes
         /\ r.retired = (tx[t].retired \/ old[k].owner # owner)
         /\ SameStaging(old, r.staged) /\ Len(r.staged) = Len(old)
         /\ \A i \in DOMAIN old : r.staged[i].owner = IF i = k THEN owner ELSE old[i].owner
         /\ Len(r.resolved) = k
  BY AdoptFacts
<1>3. /\ tx[t] \in Transactions /\ old \in Seq(StagedNodes) /\ tx[t].resolved \in Seq(Nat)
      /\ tx[t].additions \in Seq(Additions) /\ tx[t].passes \in Nat /\ tx[t].retired \in BOOLEAN
      /\ id_to_node \in Seq(Nodes) /\ n \in Nat /\ DOMAIN id_to_node = 1 .. n
      /\ r.staged \in Seq(StagedNodes)
  BY InvFacts, TransactionFields
<1>4. /\ \A i \in DOMAIN old : OwnerOK(id_to_node, old, i)
      /\ tx[t].passes <= Replacements(old) + 1
      /\ tx[t].retired => tx[t].passes <= Replacements(old)
      /\ \A a \in DOMAIN tx[t].additions : AdditionOK(tx[t], a)
      /\ \A i \in 1 .. Len(tx[t].resolved) : ResolvedOwnerOK(id_to_node, tx[t], i)
  BY <1>1 DEF OwnershipInv, OwnershipOK
<1>5. /\ DOMAIN old = 1 .. Len(old) /\ Len(old) \in Nat /\ DOMAIN r.staged = DOMAIN old
      /\ k \in Nat /\ \A i \in DOMAIN old : i \in Nat
      /\ \A i \in DOMAIN old : r.staged[i].node = old[i].node
      /\ SameNodes(old, r.staged)
      /\ Len(tx[t].resolved) \in Nat /\ Len(tx[t].resolved) = k - 1 /\ k <= Len(old)
  <2>1. SameNodes(old, r.staged)
    BY <1>2 DEF SameStaging
  <2>2. Len(tx[t].resolved) \in Nat
    BY <1>3
  <2> HIDE DEF old, k
  <2>3. DOMAIN old = 1 .. Len(old) /\ Len(old) \in Nat /\ DOMAIN r.staged = DOMAIN old
    BY <1>2, <1>3
  <2>4. k \in Nat /\ Len(tx[t].resolved) = k - 1 /\ k <= Len(old)
    BY <1>1, <2>2, <2>3
  <2> QED BY <2>1, <2>2, <2>3, <2>4 DEF SameNodes
<1>6. /\ \A i \in 1 .. n : nodes[i] = id_to_node[i]
      /\ \A i \in 1 .. Len(tx[t].additions) :
            nodes[n + i] = [key |-> tx[t].additions[i].key, node |-> tx[t].additions[i].node]
      /\ Len(nodes) = n + Len(tx[t].additions) /\ nodes \in Seq(Nodes)
  BY <1>3, PublishedShape
<1>7. CanonicalNodes(nodes)
  BY <1>1, CommitFacts DEF ResolutionOK
<1> HIDE DEF k, old, id, owner, nodes, n
<1>8. \A i \in DOMAIN old : \A j : FirstAlias(old, i, j) => FirstAlias(r.staged, i, j)
  BY <1>2, <1>3, <1>5, FirstAliasSame
<1>9. \/ /\ id \in 0 .. n - 1 /\ owner = RegistryOwner(id) /\ id_to_node[id + 1].node = old[k].node
      \/ \E j \in 1 .. k - 1 :
            /\ owner = Own(j) /\ FirstAlias(old, k, j)
            /\ \E a \in DOMAIN tx[t].additions : owner = tx[t].additions[a].owner
            /\ \A i \in 0 .. n - 1 : id_to_node[i + 1].node # old[k].node
  <2>1. CASE id < n /\ owner = RegistryOwner(id)
    <3>1. id + 1 \in 1 .. n
      BY <2>1, <1>1, <1>3
    <3> QED BY <2>1, <3>1, <1>1, <1>3, <1>6, SMTT(30)
  <2>2. ASSUME NEW a \in DOMAIN tx[t].additions, id = n + a - 1, owner = tx[t].additions[a].owner
        PROVE  \E j \in 1 .. k - 1 :
                  /\ owner = Own(j) /\ FirstAlias(old, k, j)
                  /\ \A i \in 0 .. n - 1 : id_to_node[i + 1].node # old[k].node
    <3>1. a \in 1 .. Len(tx[t].additions) /\ a \in Nat
      BY <1>3
    <3>2. id + 1 = n + a /\ n + a \in DOMAIN nodes
      BY <2>2, <3>1, <1>3, <1>6, SMTT(30)
    <3>3. nodes[n + a].node = tx[t].additions[a].node
      <4>1. nodes[n + a] = [key |-> tx[t].additions[a].key, node |-> tx[t].additions[a].node]
        BY <3>1, <1>6
      <4> QED BY <4>1
    <3>4. tx[t].additions[a].node = old[k].node
      BY <3>2, <3>3, <1>1
    <3>5. PICK j \in 1 .. k - 1 : tx[t].additions[a].owner = Own(j) /\ FirstAlias(old, k, j)
      BY <3>4, <1>1, AdditionAlias DEF old
    <3>6. ASSUME NEW i \in 0 .. n - 1, id_to_node[i + 1].node = old[k].node PROVE FALSE
      <4>1. i + 1 \in 1 .. n /\ i + 1 \in DOMAIN nodes /\ i + 1 # n + a
        BY <3>1, <1>3, <1>6
      <4>2. nodes[i + 1].node = nodes[n + a].node
        BY <4>1, <3>3, <3>4, <3>6, <1>6
      <4> QED BY <4>1, <4>2, <3>2, <1>7 DEF CanonicalNodes
    <3> QED BY <2>2, <3>5, <3>6
  <2> QED BY <2>1, <2>2, <1>1
<1>10. ASSUME NEW i \in DOMAIN r.staged PROVE OwnerOK(id_to_node, r.staged, i)
  <2>1. CASE i = k
    <3>1. CASE id \in 0 .. n - 1 /\ owner = RegistryOwner(id) /\ id_to_node[id + 1].node = old[k].node
      BY <2>1, <3>1, <1>2, <1>5 DEF OwnerOK, n
    <3>2. ASSUME NEW j \in 1 .. k - 1, owner = Own(j), FirstAlias(old, k, j)
          PROVE  OwnerOK(id_to_node, r.staged, i)
      <4>1. FirstAlias(r.staged, k, j) /\ j \in 1 .. k /\ r.staged[k].owner = Own(j)
        BY <2>1, <3>2, <1>2, <1>5, <1>8
      <4> QED BY <2>1, <4>1 DEF OwnerOK
    <3> QED BY <3>1, <3>2, <1>9
  <2>2. CASE i # k
    <3>1. r.staged[i].owner = old[i].owner /\ r.staged[i].node = old[i].node /\ OwnerOK(id_to_node, old, i)
      BY <2>2, <1>2, <1>4, <1>5
    <3> QED BY <3>1, <1>5, <1>8 DEF OwnerOK
  <2> QED BY <2>1, <2>2
<1>11. ASSUME NEW a \in DOMAIN r.additions PROVE AdditionOK(r, a)
  <2>1. PICK j \in 1 .. Len(tx[t].resolved) :
           /\ tx[t].additions[a].owner = Own(j)
           /\ tx[t].additions[a].node = old[j].node
           /\ old[j].owner = Own(j)
           /\ FirstAlias(old, j, j)
    BY <1>2, <1>4 DEF AdditionOK, old
  <2>2. j \in DOMAIN old /\ j # k /\ j \in 1 .. Len(r.resolved)
    BY <1>2, <1>5
  <2>3. r.staged[j].owner = old[j].owner /\ r.staged[j].node = old[j].node /\ FirstAlias(r.staged, j, j)
    BY <2>1, <2>2, <1>2, <1>5, <1>8
  <2> QED BY <2>1, <2>2, <2>3, <1>2 DEF AdditionOK
<1>12. ASSUME NEW i \in 1 .. Len(r.resolved) PROVE ResolvedOwnerOK(id_to_node, r, i)
  <2>1. CASE i = k
    BY <2>1, <1>1, <1>2, <1>9 DEF ResolvedOwnerOK, n
  <2>2. CASE i # k
    <3>1. i \in 1 .. Len(tx[t].resolved) /\ i \in DOMAIN old
      BY <2>2, <1>2, <1>5
    <3>2. ResolvedOwnerOK(id_to_node, tx[t], i) /\ r.staged[i].owner = old[i].owner
      BY <2>2, <3>1, <1>2, <1>4
    <3> QED BY <3>2, <1>2 DEF ResolvedOwnerOK, old
  <2> QED BY <2>1, <2>2
<1>13. CASE old[k].owner = owner
  <2>1. /\ ReplacedOwners(r.staged) = ReplacedOwners(old)
        /\ RegistryOwners(r.staged) = RegistryOwners(old)
    BY <1>2, <1>5, <1>13 DEF ReplacedOwners, RegistryOwners
  <2>2. Replacements(r.staged) = Replacements(old) /\ (r.retired => tx[t].retired)
    BY <2>1, <1>2, <1>3, <1>13 DEF Replacements
  <2>3. OwnershipOK(id_to_node, r, "resolve")
    BY <2>2, <1>2, <1>4, <1>10, <1>11, <1>12 DEF OwnershipOK
  <2> QED BY <2>3, <1>1, <1>2, LocalEffect, OwnershipStep DEF registries
<1>14. CASE old[k].owner # owner
  <2>1. OwnerOK(id_to_node, old, k)
    BY <1>1, <1>4
  <2>2. /\ ReplacedOwners(old) \subseteq ReplacedOwners(r.staged)
        /\ RegistryOwners(old) \subseteq RegistryOwners(r.staged)
        /\ \/ ReplacedOwners(old) # ReplacedOwners(r.staged)
           \/ RegistryOwners(old) # RegistryOwners(r.staged)
    <3>1. CASE id \in 0 .. n - 1 /\ owner = RegistryOwner(id) /\ id_to_node[id + 1].node = old[k].node
      <4>1. owner # Own(k) /\ owner[1] = "registry"
        BY <3>1, <1>1, <1>5, OwnersDiffer
      <4>2. old[k].owner[1] # "registry"
        <5>1. CASE \E i \in 0 .. Len(id_to_node) - 1 :
                      old[k].owner = RegistryOwner(i) /\ id_to_node[i + 1].node = old[k].node
          <6>1. PICK i \in 0 .. n - 1 :
                      old[k].owner = RegistryOwner(i) /\ id_to_node[i + 1].node = old[k].node
            BY <5>1 DEF n
          <6>2. i + 1 \in DOMAIN id_to_node /\ id + 1 \in DOMAIN id_to_node /\ i \in Nat
            BY <3>1, <1>3
          <6>3. CanonicalNodes(id_to_node)
            BY DEF ExpansionInv, RegistriesOK
          <6>4. i + 1 = id + 1
            BY <3>1, <6>1, <6>2, <6>3 DEF CanonicalNodes
          <6>5. i = id
            BY <6>2, <6>4, <1>1
          <6> QED BY <6>1, <6>5, <3>1, <1>14
        <5>2. CASE \E j \in 1 .. k : old[k].owner = Own(j)
          BY <5>2, <1>5, OwnersDiffer
        <5>3. k \in 1 .. k
          BY <1>1, <1>5
        <5> QED BY <2>1, <5>1, <5>2, <5>3 DEF OwnerOK
      <4>3. k \in RegistryOwners(r.staged) /\ k \notin RegistryOwners(old)
        BY <4>1, <4>2, <1>1, <1>2, <1>5 DEF RegistryOwners
      <4> QED BY <4>1, <4>3, <1>1, <1>2, <1>5 DEF ReplacedOwners, RegistryOwners
    <3>2. ASSUME NEW j \in 1 .. k - 1, owner = Own(j), FirstAlias(old, k, j),
                 \A i \in 0 .. n - 1 : id_to_node[i + 1].node # old[k].node
          PROVE  /\ ReplacedOwners(old) \subseteq ReplacedOwners(r.staged)
                 /\ RegistryOwners(old) \subseteq RegistryOwners(r.staged)
                 /\ ReplacedOwners(old) # ReplacedOwners(r.staged)
      <4>1. j \in Nat /\ j # k /\ owner # Own(k)
        BY <3>2, <1>5, OwnersDiffer
      <4>2. old[k].owner = Own(k)
        <5>1. ASSUME NEW h \in 1 .. k, FirstAlias(old, k, h), old[k].owner = Own(h) PROVE FALSE
          BY <5>1, <3>2, <1>5, <1>14, FirstAliasUnique
        <5> QED BY <2>1, <3>2, <5>1 DEF OwnerOK, n
      <4>3. k \in ReplacedOwners(r.staged) /\ k \notin ReplacedOwners(old)
        BY <4>1, <4>2, <1>1, <1>2, <1>5 DEF ReplacedOwners
      <4>4. old[k].owner[1] # "registry"
        BY <4>2, <1>5, OwnersDiffer
      <4> QED BY <4>1, <4>3, <4>4, <1>1, <1>2, <1>5 DEF ReplacedOwners, RegistryOwners
    <3> QED BY <3>1, <3>2, <1>9
  <2>3. Replacements(old) + 1 <= Replacements(r.staged)
    BY <2>2, <1>2, <1>3, ReplacementsGrow
  <2>4. Replacements(old) \in Nat /\ Replacements(r.staged) \in Nat
    BY <1>3, ReplacementsTyped
  <2>5. r.passes <= Replacements(r.staged) /\ r.passes <= Replacements(r.staged) + 1
    BY <2>3, <2>4, <1>2, <1>3, <1>4
  <2>6. OwnershipOK(id_to_node, r, "resolve")
    BY <2>5, <1>10, <1>11, <1>12 DEF OwnershipOK
  <2> QED BY <2>6, <1>1, <1>2, LocalEffect, OwnershipStep DEF registries
<1> QED BY <1>13, <1>14

(* An added node keeps its own owner for the registry.                     *)
LEMMA AddOwners ==
    ASSUME ExpansionInv, OwnershipInv, NEW t \in Threads, AddNode(t)
    PROVE  OwnershipInv'
<1> DEFINE k == NextStaged(t)
           old == tx[t].staged
           resolved == tx[t].resolved
           nodes == Published(id_to_node, tx[t].additions)
           n == Len(tx[t].additions)
<1>1. /\ pc[t] = "resolve" /\ UNCHANGED <<registries, pc>>
      /\ k \in DOMAIN old /\ k = Len(resolved) + 1
      /\ \A i \in DOMAIN nodes : nodes[i].node # old[k].node
  BY AddFacts
<1>2. PICK r \in Transactions :
         /\ Local(t, r)
         /\ r.staged = old /\ r.passes = tx[t].passes /\ r.retired = tx[t].retired
         /\ Len(r.additions) = n + 1
         /\ \A a \in 1 .. n : r.additions[a] = tx[t].additions[a]
         /\ r.additions[n + 1].node = old[k].node
         /\ r.additions[n + 1].owner = old[k].owner
         /\ Len(r.resolved) = k
  BY AddFacts
<1>3. /\ old \in Seq(StagedNodes) /\ resolved \in Seq(Nat)
      /\ tx[t].additions \in Seq(Additions) /\ r.additions \in Seq(Additions)
      /\ id_to_node \in Seq(Nodes)
  BY InvFacts, TransactionFields
<1>4. /\ \A i \in DOMAIN old : OwnerOK(id_to_node, old, i)
      /\ tx[t].passes <= Replacements(old) + 1
      /\ tx[t].retired => tx[t].passes <= Replacements(old)
      /\ \A a \in DOMAIN tx[t].additions : AdditionOK(tx[t], a)
      /\ \A i \in 1 .. Len(resolved) : ResolvedOwnerOK(id_to_node, tx[t], i)
  BY <1>1 DEF OwnershipInv, OwnershipOK
<1>5. /\ Len(resolved) \in Nat /\ Len(resolved) = k - 1 /\ DOMAIN resolved = 1 .. k - 1
      /\ DOMAIN old = 1 .. Len(old) /\ Len(old) \in Nat /\ k \in Nat /\ k \in 1 .. k
      /\ n \in Nat /\ DOMAIN tx[t].additions = 1 .. n /\ DOMAIN r.additions = 1 .. n + 1
  <2>1. Len(resolved) \in Nat /\ DOMAIN resolved = 1 .. Len(resolved)
        /\ n \in Nat /\ DOMAIN tx[t].additions = 1 .. n
    BY <1>3
  <2>2. DOMAIN r.additions = 1 .. n + 1
    BY <1>2, <1>3
  <2>3. DOMAIN old = 1 .. Len(old) /\ Len(old) \in Nat
    BY <1>3
  <2> HIDE DEF k, old, resolved, n
  <2> QED BY <1>1, <2>1, <2>2, <2>3
<1>6. /\ \A i \in 1 .. Len(id_to_node) : nodes[i] = id_to_node[i]
      /\ Len(nodes) = Len(id_to_node) + n /\ nodes \in Seq(Nodes)
  BY <1>3, PublishedShape
<1>7. \A i \in DOMAIN resolved :
         resolved[i] + 1 \in DOMAIN nodes /\ nodes[resolved[i] + 1].node = old[i].node
  <2> TAKE i \in DOMAIN resolved
  <2>1. resolved[i] < Len(nodes) /\ nodes[resolved[i] + 1].node = old[i].node
    BY <1>1, CommitFacts DEF ResolutionOK
  <2>2. resolved[i] \in Nat
    BY <1>3
  <2> DEFINE x == resolved[i]
  <2> HIDE DEF nodes, x
  <2> QED BY <2>1, <2>2, <1>6 DEF x
<1> HIDE DEF k, old, resolved, nodes, n
<1>8. \A h \in 1 .. k - 1 : old[h].node # old[k].node
  BY <1>1, <1>5, <1>7
<1>9. FirstAlias(old, k, k)
  BY <1>5, <1>8 DEF FirstAlias
<1>10. old[k].owner = Own(k)
  <2>1. ASSUME NEW id \in 0 .. Len(id_to_node) - 1, id_to_node[id + 1].node = old[k].node
        PROVE  FALSE
    <3>1. id + 1 \in 1 .. Len(id_to_node) /\ id + 1 \in DOMAIN nodes
      <4>1. Len(id_to_node) \in Nat
        BY <1>3
      <4> QED BY <4>1, <1>5, <1>6
    <3> QED BY <2>1, <3>1, <1>1, <1>6
  <2>2. ASSUME NEW j \in 1 .. k, FirstAlias(old, k, j), old[k].owner = Own(j)
        PROVE  old[k].owner = Own(k)
    BY <2>2, <1>5, <1>9, FirstAliasUnique
  <2>3. OwnerOK(id_to_node, old, k)
    BY <1>1, <1>4
  <2> QED BY <2>1, <2>2, <2>3 DEF OwnerOK
<1>11. ASSUME NEW a \in DOMAIN r.additions PROVE AdditionOK(r, a)
  <2>1. CASE a \in 1 .. n
    <3>1. AdditionOK(tx[t], a) /\ r.additions[a] = tx[t].additions[a]
      BY <2>1, <1>2, <1>4, <1>5
    <3>2. \A j \in 1 .. Len(resolved) : j \in 1 .. Len(r.resolved)
      BY <1>2, <1>5
    <3> QED BY <3>1, <3>2, <1>2 DEF AdditionOK, old, resolved
  <2>2. CASE a = n + 1
    BY <2>2, <1>2, <1>5, <1>9, <1>10 DEF AdditionOK
  <2> QED BY <2>1, <2>2, <1>5
<1>12. ASSUME NEW i \in 1 .. Len(r.resolved) PROVE ResolvedOwnerOK(id_to_node, r, i)
  <2>1. CASE i = k
    <3>1. n + 1 \in DOMAIN r.additions
      BY <1>5
    <3> QED BY <2>1, <3>1, <1>2 DEF ResolvedOwnerOK
  <2>2. CASE i \in 1 .. k - 1
    <3>1. ResolvedOwnerOK(id_to_node, tx[t], i)
      BY <2>2, <1>4, <1>5
    <3>2. \A a \in DOMAIN tx[t].additions :
             a \in DOMAIN r.additions /\ r.additions[a] = tx[t].additions[a]
      BY <1>2, <1>5
    <3> QED BY <3>1, <3>2, <1>2 DEF ResolvedOwnerOK, old
  <2> QED BY <2>1, <2>2, <1>2, <1>5
<1>13. OwnershipOK(id_to_node, r, "resolve")
  BY <1>2, <1>4, <1>11, <1>12 DEF OwnershipOK
<1> QED BY <1>1, <1>2, <1>13, LocalEffect, OwnershipStep DEF registries

----------------------------------------------------------------------------
(* The theorems                                                            *)

(* Nothing is staged at first.                                             *)
LEMMA OwnershipInit == Init => OwnershipInv
<1> SUFFICES ASSUME Init, NEW t \in Threads PROVE OwnershipOK(id_to_node, tx[t], pc[t])
  BY DEF OwnershipInv
<1>1. pc[t] = "idle"
  BY DEF Init
<1> QED BY <1>1 DEF OwnershipOK

(* Every step keeps the owners where they belong.                          *)
LEMMA OwnershipNext == ExpansionInv /\ OwnershipInv /\ [Next]_vars => OwnershipInv'
<1> SUFFICES ASSUME ExpansionInv, OwnershipInv, [Next]_vars PROVE OwnershipInv'
  OBVIOUS
<1>1. ASSUME UNCHANGED <<id_to_node, tx, pc>> PROVE OwnershipInv'
  BY <1>1 DEF OwnershipInv
<1>2. CASE \E t \in Threads : Step(t) \/ Request(t) \/ Exhaust(t) \/ Cancel(t) \/ ProviderFault(t)
  <2>1. PICK t \in Threads : Step(t) \/ Request(t) \/ Exhaust(t) \/ Cancel(t) \/ ProviderFault(t)
    BY <1>2
  <2>2. CASE Step(t)
    <3>1. CASE ReadNode(t) \/ StartPaths(t) \/ VisitEdge(t) \/ ApplyOperation(t) \/ EndWalk(t)
      BY <3>1, ReadNodeOwners, WalkOwners, VisitEdgeOwners
    <3>2. CASE LockNodes(t) \/ AdoptCanonical(t) \/ AddNode(t) \/ ReleaseToRetire(t) \/ Retry(t)
      BY <3>2, LockNodesOwners, AdoptOwners, AddOwners, RetireOwners, RetryOwners
    <3>3. CASE LockStates(t) \/ PrepareArc(t) \/ Publish(t)
      BY <3>3, PrepareOwners, PublishOwners
    <3>4. CASE Abort(t)
      <4>1. pc[t] \notin {"idle", "unwind"} /\ Unwind(t)
        BY <3>4 DEF Abort, Stopped, OverLimit, PendingResolution, PendingArcs
      <4> QED BY <4>1, UnwindOwners
    <3>5. CASE Unwound(t)
      BY <3>5, UnwoundOwners
    <3> QED BY <2>2, <3>1, <3>2, <3>3, <3>4, <3>5 DEF Step
  <2>3. CASE Request(t)
    <3>1. PICK id \in StateIds : Begin(t, id) \/ ExpandEmit(t, id)
      BY <2>3 DEF Request
    <3> QED BY <3>1, <1>1, BeginOwners DEF ExpandEmit, registries
  <2>4. CASE Exhaust(t)
    <3>1. pc[t] \notin {"idle", "unwind"} /\ Unwind(t)
      BY <2>4 DEF Exhaust, PendingResolution
    <3> QED BY <3>1, UnwindOwners
  <2>5. CASE Cancel(t) \/ ProviderFault(t)
    BY <2>5, <1>1 DEF Cancel, ProviderFault, registries
  <2> QED BY <2>1, <2>2, <2>3, <2>4, <2>5
<1>3. CASE Finished \/ UNCHANGED vars
  BY <1>1, <1>3 DEF Finished, vars, registries
<1> QED BY <1>2, <1>3 DEF Next

(* A staged node's owner is its own, its first alias's or the registry's,  *)
(* and every pass of commit_expansion but one has moved one of them on.    *)
THEOREM OwnersAccountedFor == Spec => []OwnershipInv
<1>1. Init => OwnershipInv
  BY OwnershipInit
<1>2. ExpansionInv /\ OwnershipInv /\ [Next]_vars => OwnershipInv'
  BY OwnershipNext
<1> QED BY <1>1, <1>2, ExpansionConsistent, PTL DEF Spec

(* Once the states are prepared, dropping the staging area runs no         *)
(* destructor; and dropping the additions under the lock, on failure,      *)
(* never drops a last owner (generalized_computation.rs:275).              *)
THEOREM NoOwnerDroppedUnderLock == Spec => []OwnersRetained
<1>1. ASSUME ExpansionInv, OwnershipInv, NEW t \in Threads, NEW i \in DOMAIN tx[t].staged,
             pc[t] = "batch"
      PROVE  \/ \E a \in DOMAIN tx[t].additions : tx[t].staged[i].owner = tx[t].additions[a].owner
             \/ \E id \in NodeIds : tx[t].staged[i].owner = RegistryOwner(id)
  <2>1. Len(tx[t].resolved) = Len(tx[t].staged)
    BY <1>1, CommitFacts DEF PreparationOK
  <2>2. tx[t].staged \in Seq(StagedNodes)
    BY <1>1, InvFacts, TransactionFields
  <2>3. i \in 1 .. Len(tx[t].resolved)
    BY <2>1, <2>2
  <2>4. ResolvedOwnerOK(id_to_node, tx[t], i)
    BY <1>1, <2>3 DEF OwnershipInv, OwnershipOK
  <2> QED BY <2>4 DEF ResolvedOwnerOK, NodeIds
<1>2. ASSUME ExpansionInv, OwnershipInv, NEW t \in Threads, NEW a \in DOMAIN tx[t].additions,
             pc[t] \in {"resolve", "batch"}
      PROVE  \E j \in DOMAIN tx[t].staged : tx[t].additions[a].owner = tx[t].staged[j].owner
  <2>1. PICK j \in 1 .. Len(tx[t].resolved) :
           tx[t].additions[a].owner = Own(j) /\ tx[t].staged[j].owner = Own(j)
    BY <1>2 DEF OwnershipInv, OwnershipOK, AdditionOK
  <2>2. tx[t].staged \in Seq(StagedNodes) /\ tx[t].resolved \in Seq(Nat)
        /\ Len(tx[t].resolved) <= Len(tx[t].staged)
    BY <1>2, InvFacts, TransactionFields, CommitFacts DEF ResolutionOK
  <2>3. j \in DOMAIN tx[t].staged
    BY <2>2
  <2> QED BY <2>1, <2>3
<1>3. ExpansionInv /\ OwnershipInv => OwnersRetained
  BY <1>1, <1>2 DEF OwnersRetained
<1> QED BY <1>3, ExpansionConsistent, OwnersAccountedFor, PTL

(* commit_expansion's retry loop makes at most two passes for each staged  *)
(* node and one more, whatever other activations commit in between.        *)
THEOREM RetriesEnd == Spec => []RetriesBounded
<1>1. ASSUME ExpansionInv, OwnershipInv, NEW t \in Threads PROVE tx[t].passes <= MaxPasses(t)
  <2>1. /\ tx[t].passes \in Nat /\ tx[t].staged \in Seq(StagedNodes) /\ pc[t] \in PCs
        /\ TransactionOK(id_to_node, id_to_state, tx[t], pc[t])
        /\ OwnershipOK(id_to_node, tx[t], pc[t])
    BY <1>1, InvFacts, TransactionFields DEF OwnershipInv
  <2>2. /\ Replacements(tx[t].staged) \in Nat
        /\ Replacements(tx[t].staged) <= 2 * Len(tx[t].staged)
        /\ Len(tx[t].staged) \in Nat
    BY <2>1, ReplacementsTyped
  <2>3. CASE pc[t] \in {"idle", "node"}
    <3>1. tx[t] = NoTx \/ tx[t] = [NoTx EXCEPT !.state = tx[t].state]
      BY <2>1, <2>3 DEF TransactionOK
    <3>2. tx[t].passes = 0
      BY <3>1 DEF NoTx
    <3> QED BY <3>2, <2>2 DEF MaxPasses
  <2>4. CASE pc[t] = "walk"
    BY <2>1, <2>2, <2>4 DEF OwnershipOK, MaxPasses
  <2>5. CASE pc[t] \in {"commit", "resolve", "retire", "batch"}
    <3>1. tx[t].passes <= Replacements(tx[t].staged) + 1
      BY <2>1, <2>2, <2>5 DEF OwnershipOK
    <3> QED BY <3>1, <2>1, <2>2 DEF MaxPasses
  <2>6. CASE pc[t] = "unwind"
    BY <2>1, <2>6 DEF OwnershipOK, MaxPasses
  <2> QED BY <2>1, <2>3, <2>4, <2>5, <2>6 DEF PCs
<1>2. ExpansionInv /\ OwnershipInv => RetriesBounded
  BY <1>1 DEF RetriesBounded
<1> QED BY <1>2, ExpansionConsistent, OwnersAccountedFor, PTL

=============================================================================
