------------------------ MODULE GeneralizedExpansion ------------------------
(***************************************************************************)
(* Expansion of generalized product states (GeneralizedWfst).  Clones of a *)
(* WFST share two append-only registries that give dictionary nodes and    *)
(* WFST states their ids.  An expansion                                    *)
(*   1. walks the dictionary without holding a lock, staging every child   *)
(*      it finds that is not registered yet (generalized_expansion.rs),    *)
(*   2. takes the node write lock and resolves the staged nodes to ids; a  *)
(*      staged node somebody else registered meanwhile is retired, which   *)
(*      runs its user-defined destructor, so the lock is released first    *)
(*      and the resolution starts again (commit_expansion),                *)
(*   3. takes the state write lock, prepares the ids of the arcs' targets  *)
(*      and emission chains, and publishes both batches at once, or        *)
(*      nothing at all.                                                    *)
(*                                                                         *)
(* A "thread" is any activation of the code: a clone on another thread, or *)
(* a destructor or dictionary callback that re-enters the WFST while the   *)
(* outer activation waits.  Registry reads take and drop their read lock   *)
(* in one step, so only write locks are held across steps.                 *)
(***************************************************************************)
EXTENDS Integers, Sequences, FiniteSets

CONSTANTS
    Threads,           \* concurrent activations
    NoThread,          \* the owner of a free lock
    Labels,            \* the characters of the dictionary and the query
    DictNodes,         \* external dictionary: its nodes, as paths of labels
    Edges(_),          \* external dictionary: the labels leaving a node, in order
    IsFinal(_),        \* external dictionary: does a word end at this node
    Query,             \* the query, a sequence of labels
    Configured,        \* configured operations: a sequence of records, below
    MaxCost,           \* max_cost
    MaxNodes,          \* max_retained_dictionary_nodes
    MaxStates,         \* max_retained_wfst_states
    MaxCalls,          \* bound: expansions requested
    MaxDisturbances    \* bound: cancellations, provider faults, exhausted budgets

ASSUME ThreadsAssumption == NoThread \notin Threads

(* The dictionary is a trie over Labels, and Edges lists its children,     *)
(* each once.                                                              *)
ASSUME DictionaryAssumption ==
    /\ <<>> \in DictNodes
    /\ DictNodes \subseteq Seq(Labels)
    /\ \A p \in DictNodes :
          /\ \A n \in 0 .. Len(p) : SubSeq(p, 1, n) \in DictNodes
          /\ Edges(p) \in Seq(Labels)
          /\ \A i, j \in DOMAIN Edges(p) : Edges(p)[i] = Edges(p)[j] => i = j
          /\ \A l \in Labels :
                Append(p, l) \in DictNodes <=> \E i \in DOMAIN Edges(p) : Edges(p)[i] = l

ASSUME QueryAssumption == Query \in Seq(Labels)

(* Consumed lengths are unsigned, and costs are scaled to integers.        *)
ASSUME OperationsAssumption ==
    /\ DOMAIN Configured = 1 .. Len(Configured)
    /\ Len(Configured) \in Nat
    /\ \A i \in DOMAIN Configured :
          LET op == Configured[i] IN op.x \in Nat /\ op.y \in Nat /\ op.w \in Nat

ASSUME BoundsAssumption ==
    /\ MaxCost \in Nat
    /\ MaxNodes \in Nat \ {0}
    /\ MaxStates \in Nat \ {0}
    /\ MaxCalls \in Nat
    /\ MaxDisturbances \in Nat

VARIABLES
    id_to_node,   \* node_registry: id -> [key, node]; node_to_id is its inverse
    id_to_state,  \* state_registry: id -> registered state
    node_lock,    \* holder of the node_registry write lock
    state_lock,   \* holder of the state_registry write lock
    pc,           \* where each activation is
    tx,           \* its transaction-local data
    verdict,      \* what its cancellation token and fault scope say
    calls,        \* requests made so far
    disturbances, \* cancellations, faults and exhausted budgets so far
    answers       \* history: id -> the set of answers given for it

registries == <<id_to_node, id_to_state>>
locks == <<node_lock, state_lock>>
vars == <<registries, locks, pc, tx, verdict, calls, disturbances, answers>>

----------------------------------------------------------------------------
(* Operations.  [x, y, w, when]: replaces y query labels by x dictionary   *)
(* labels at scaled cost w; "when" is "any", "equal", "transpose" or      *)
(* "listed", in which case "pairs" holds <<dictionary, query>> segments.   *)

operation_applies(op, out, segment) ==
    CASE op.when = "any" -> TRUE
      [] op.when = "equal" -> out = segment
      [] op.when = "transpose" -> /\ Len(out) = 2
                                  /\ Len(segment) = 2
                                  /\ out = <<segment[2], segment[1]>>
      [] OTHER -> <<out, segment>> \in op.pairs

(* Some of the indexes of a sequence, in increasing order.                 *)
InOrder(indexes) ==
    [k \in 1 .. Cardinality(indexes) |->
        CHOOSE i \in indexes : Cardinality({j \in indexes : j <= i}) = k]

(* Operations over budget, and repetitions of an earlier one, are dropped. *)
bounded_operation_set ==
    LET kept == InOrder({i \in DOMAIN Configured :
                           /\ Configured[i].w <= MaxCost
                           /\ \A j \in 1 .. i - 1 : Configured[j] # Configured[i]})
    IN  [k \in DOMAIN kept |-> Configured[kept[k]]]

Operations == bounded_operation_set

----------------------------------------------------------------------------
(* Identities.  Ids are dense from 0; a dictionary node is denoted by the  *)
(* path of labels that leads to it.                                        *)

RootKey == <<>>

ChildKey(parent, label) == <<parent, label>>

(* A product is [kind, node, pos, cost]; a continuation of an emission     *)
(* chain is [kind, chain, position, next].                                 *)
Product(node, pos, cost) ==
    [kind |-> "product", node |-> node, pos |-> pos, cost |-> cost]

Emit(chain, position, next) ==
    [kind |-> "emit", chain |-> chain, position |-> position, next |-> next]

NodeIds == 0 .. Len(id_to_node) - 1

StateIds == 0 .. Len(id_to_state) - 1

NodeAt(id) == id_to_node[id + 1].node

StateAt(id) == id_to_state[id + 1]

(* A reference to a node: its committed id, or an offset into the staging  *)
(* area (PendingDictionaryNode).                                           *)
Registered(id) == [kind |-> "registered", at |-> id]

Staged(index) == [kind |-> "staged", at |-> index]

raw_offset(ref, resolved) == ref.at  \* mutant: staging offsets escape as ids

resolved_node(ref, resolved) ==
    IF ref.kind = "registered" THEN ref.at ELSE resolved[ref.at]

(* Arc identity.  A freshly staged owner is its own; one that was replaced *)
(* is the registry's or that of another staged node.                       *)
Own(index) == <<"own", index>>

RegistryOwner(id) == <<"registry", id>>

NoTx ==
    [state |-> 0, op |-> 1, stack |-> <<>>, paths |-> <<>>, staged |-> <<>>,
     arcs |-> <<>>, resolved |-> <<>>, additions |-> <<>>, retired |-> FALSE,
     passes |-> 0, batch |-> <<>>, transitions |-> <<>>]

Init ==
    /\ id_to_node = <<[key |-> RootKey, node |-> <<>>]>>
    /\ id_to_state = <<Product(0, 0, 0)>>
    /\ node_lock = NoThread
    /\ state_lock = NoThread
    /\ pc = [t \in Threads |-> "idle"]
    /\ tx = [t \in Threads |-> NoTx]
    /\ verdict = [t \in Threads |-> "fine"]
    /\ calls = 0
    /\ disturbances = 0
    /\ answers = [id \in 0 .. MaxStates - 1 |-> {}]

Goto(t, label) == pc' = [pc EXCEPT ![t] = label]

(* Its transaction-local data, which nobody else sees, become r.           *)
Local(t, r) == tx' = [tx EXCEPT ![t] = r]

(* check_source, which follows or precedes a look at the token.            *)
Fine(t) == verdict[t] = "fine"

(* charge_work and check_cancelled see the token, not the fault scope.     *)
NotCancelled(t) == verdict[t] # "cancelled"

FinalWeightOf(product) ==
    product.pos = Len(Query) /\ product.cost <= MaxCost /\ IsFinal(NodeAt(product.node))

(* labels.get(position): an arc's label, <<>> being epsilon.               *)
LabelAt(labels, position) ==
    IF position < Len(labels) THEN <<labels[position + 1]>> ELSE <<>>

Answer(id, answer) == answers' = [answers EXCEPT ![id] = @ \cup {answer}]

----------------------------------------------------------------------------
(* 1. Enumeration, without locks.                                          *)

(* A request for a product state.                                          *)
Begin(t, id) ==
    /\ pc[t] = "idle"
    /\ calls < MaxCalls
    /\ state_lock = NoThread
    /\ id \in StateIds
    /\ StateAt(id).kind = "product"
    /\ Local(t, [tx[t] EXCEPT !.state = id])
    /\ calls' = calls + 1
    /\ Goto(t, "node")
    /\ UNCHANGED <<registries, locks, verdict, disturbances, answers>>

(* A request for a continuation state is answered from the registry.       *)
ExpandEmit(t, id) ==
    /\ pc[t] = "idle"
    /\ calls < MaxCalls
    /\ state_lock = NoThread
    /\ id \in StateIds
    /\ StateAt(id).kind = "emit"
    /\ LET s == StateAt(id)
       IN  Answer(id, [final |-> FALSE,
                       transitions |-> <<[input |-> LabelAt(s.chain.input, s.position),
                                          output |-> LabelAt(s.chain.output, s.position),
                                          to |-> s.next, weight |-> 0]>>])
    /\ calls' = calls + 1
    /\ UNCHANGED <<registries, locks, pc, tx, verdict, disturbances>>

InBudget(op, product) ==
    /\ op.w <= MaxCost - product.cost
    /\ product.pos + op.y <= Len(Query)

(* The next operation that the remaining cost and query can pay for.       *)
Affordable(product, from) ==
    LET ops == {k \in from .. Len(Operations) : InBudget(Operations[k], product)}
    IN  IF ops = {} THEN Len(Operations) + 1 ELSE CHOOSE k \in ops : \A j \in ops : k <= j

(* What compute_product_state rejects as an invalid state otherwise.       *)
Valid(product) ==
    product.node \in NodeIds /\ product.pos <= Len(Query) /\ product.cost <= MaxCost

(* The product's own dictionary node is read, and asked for finality.      *)
ReadNode(t) ==
    /\ pc[t] = "node"
    /\ node_lock = NoThread
    /\ Valid(StateAt(tx[t].state))
    /\ Fine(t)
    /\ Local(t, [tx[t] EXCEPT !.op = Affordable(StateAt(tx[t].state), 1)])
    /\ Goto(t, "walk")
    /\ UNCHANGED <<registries, locks, verdict, calls, disturbances, answers>>

Segment(pos, width) == SubSeq(Query, pos + 1, pos + width)

(* A frame of the depth-first walk: a node and the edges still to visit.   *)
Frame(ref, node, out) == [ref |-> ref, node |-> node, out |-> out, todo |-> Edges(node)]

(* The frames that still have edges to visit.                              *)
Unfinished(stack) ==
    LET open == {d \in DOMAIN stack : stack[d].todo # <<>>}
    IN  SubSeq(stack, 1, CHOOSE d \in open \cup {0} : \A e \in open : e <= d)

(* Paths found so far, per width: paths[w] is absent until enumerated.     *)
Known(t, width) == width \in {tx[t].paths[i].width : i \in DOMAIN tx[t].paths}

PathsOf(t, width) ==
    {i \in DOMAIN tx[t].paths : tx[t].paths[i].width = width /\ tx[t].paths[i].done}

CurrentOp(t) == Operations[tx[t].op]

Walking(t) ==
    /\ pc[t] = "walk"
    /\ NotCancelled(t)
    /\ UNCHANGED <<registries, locks, calls, verdict, disturbances, answers>>

(* The first operation of a source width enumerates the paths of exactly   *)
(* that many labels; width 0 is the node itself.                           *)
StartPaths(t) ==
    LET product == StateAt(tx[t].state)
        width   == CurrentOp(t).x
        start   == Registered(product.node)
        mark    == [width |-> width, done |-> width = 0, ref |-> start, out |-> <<>>]
    IN  /\ Walking(t)
        /\ tx[t].stack = <<>>
        /\ tx[t].op <= Len(Operations)
        /\ ~ Known(t, width)
        /\ node_lock = NoThread
        /\ width > 0 => Fine(t)
        /\ Local(t, [tx[t] EXCEPT
              !.paths = Append(@, mark),
              !.stack = IF width = 0 THEN <<>>
                        ELSE Unfinished(<<Frame(start, NodeAt(product.node), <<>>)>>)])
        /\ UNCHANGED pc

IdOfKey(key) == CHOOSE id \in NodeIds : id_to_node[id + 1].key = key

HasKey(key) == \E id \in NodeIds : id_to_node[id + 1].key = key

(* stage_child: the registered child, the child staged for the same step,  *)
(* or a new staged node.                                                   *)
StagedSteps(t, ref, label) ==
    {i \in DOMAIN tx[t].staged :
        tx[t].staged[i].parent = ref /\ tx[t].staged[i].label = label}

ChildRef(t, ref, label) ==
    IF ref.kind = "registered" /\ HasKey(ChildKey(ref.at, label))
    THEN Registered(IdOfKey(ChildKey(ref.at, label)))
    ELSE IF StagedSteps(t, ref, label) # {}
    THEN Staged(CHOOSE i \in StagedSteps(t, ref, label) : TRUE)
    ELSE Staged(Len(tx[t].staged) + 1)

(* One edge of the frame on top: look the child up, stage it if need be,   *)
(* and record the path or descend.                                         *)
VisitEdge(t) ==
    LET depth == Len(tx[t].stack)
        top   == tx[t].stack[depth]
        label == Head(top.todo)
        out   == Append(top.out, label)
        node  == Append(top.node, label)
        ref   == ChildRef(t, top.ref, label)
        width == CurrentOp(t).x
        rest  == [tx[t].stack EXCEPT ![depth].todo = Tail(@)]
    IN  /\ Walking(t)
        /\ depth > 0
        /\ top.ref.kind = "registered" => node_lock = NoThread
        /\ depth < width => Fine(t)
        /\ Local(t, [tx[t] EXCEPT
              !.staged = IF ref = Staged(Len(@) + 1)
                         THEN Append(@, [parent |-> top.ref, label |-> label,
                                         node |-> node, owner |-> Own(Len(@) + 1)])
                         ELSE @,
              !.paths = IF depth = width
                        THEN Append(@, [width |-> width, done |-> TRUE,
                                        ref |-> ref, out |-> out])
                        ELSE @,
              !.stack = Unfinished(IF depth = width THEN rest
                                   ELSE Append(rest, Frame(ref, node, out)))])
        /\ UNCHANGED pc

(* The arcs of an operation whose paths are known.                         *)
ApplyOperation(t) ==
    LET product == StateAt(tx[t].state)
        op      == CurrentOp(t)
        segment == Segment(product.pos, op.y)
        chosen  == InOrder({i \in PathsOf(t, op.x) :
                               operation_applies(op, tx[t].paths[i].out, segment)})
    IN  /\ Walking(t)
        /\ tx[t].stack = <<>>
        /\ tx[t].op <= Len(Operations)
        /\ Known(t, op.x)
        /\ Local(t, [tx[t] EXCEPT
              !.arcs = @ \o [k \in DOMAIN chosen |->
                                [ref |-> tx[t].paths[chosen[k]].ref,
                                 output |-> tx[t].paths[chosen[k]].out,
                                 input |-> segment, pos |-> product.pos + op.y,
                                 cost |-> product.cost + op.w, weight |-> op.w]],
              !.op = Affordable(product, @ + 1)])
        /\ UNCHANGED pc

(* All operations done: the last check before the commit protocol.         *)
EndWalk(t) ==
    /\ Walking(t)
    /\ tx[t].op > Len(Operations)
    /\ Fine(t)
    /\ Goto(t, "commit")
    /\ UNCHANGED tx

----------------------------------------------------------------------------
(* 2. Resolution of the staged nodes, under the node write lock.           *)

(* Each staged owner is replaced at most twice, so no more passes than     *)
(* this; the history counter stops above it.                               *)
MaxPasses(t) == 2 * Len(tx[t].staged) + 1

LockNodes(t) ==
    /\ pc[t] = "commit"
    /\ node_lock = NoThread
    /\ node_lock' = t
    /\ Local(t, [tx[t] EXCEPT !.resolved = <<>>, !.additions = <<>>,
                              !.passes = IF @ > MaxPasses(t) THEN @ ELSE @ + 1])
    /\ Goto(t, "resolve")
    /\ UNCHANGED <<registries, state_lock, verdict, calls, disturbances, answers>>

AddedWith(t, key) ==
    {i \in DOMAIN tx[t].additions : tx[t].additions[i].key = key}

(* The next staged node in line and the key it resolves to.                *)
NextStaged(t) == Len(tx[t].resolved) + 1

StagedKey(t) ==
    LET staged == tx[t].staged[NextStaged(t)]
    IN  ChildKey(resolved_node(staged.parent, tx[t].resolved), staged.label)

Resolving(t) ==
    /\ pc[t] = "resolve"
    /\ Len(tx[t].resolved) < Len(tx[t].staged)
    /\ NotCancelled(t)
    /\ UNCHANGED <<registries, locks, pc, verdict, calls, disturbances, answers>>

IsRegistered(t, key) == HasKey(key)                \* mutant: aliases in the batch missed

IsInBatch(t, key) == AddedWith(t, key) # {}        \* mutant: registry not asked again

IsCanonical(t, key) == HasKey(key) \/ AddedWith(t, key) # {}

Addition(t, key) == CHOOSE i \in AddedWith(t, key) : TRUE

CanonicalId(t, key) ==
    IF HasKey(key) THEN IdOfKey(key) ELSE Len(id_to_node) + Addition(t, key) - 1

(* Mutant: an alias in the batch keeps its own owner.                      *)
CommittedOwner(t, key) ==
    IF HasKey(key) THEN RegistryOwner(IdOfKey(key)) ELSE tx[t].staged[NextStaged(t)].owner

CanonicalOwner(t, key) ==
    IF HasKey(key) THEN RegistryOwner(IdOfKey(key))
    ELSE tx[t].additions[Addition(t, key)].owner

AlwaysReplaces(t, owner) == TRUE  \* mutant: the pointer comparison is dropped

Replaces(t, owner) == tx[t].staged[NextStaged(t)].owner # owner

(* Someone registered the node, or this batch adds it: adopt that owner,   *)
(* and retire the staged one if it is a different allocation.              *)
AdoptCanonical(t) ==
    LET key   == StagedKey(t)
        owner == CanonicalOwner(t, key)
    IN  /\ Resolving(t)
        /\ IsCanonical(t, key)
        /\ Local(t, [tx[t] EXCEPT !.retired = @ \/ Replaces(t, owner),
                                  !.staged[NextStaged(t)].owner = owner,
                                  !.resolved = Append(@, CanonicalId(t, key))])

RegistryRoom(t) == Len(id_to_node) + 1 <= MaxNodes  \* mutant: additions not counted

NodeRoom(t) == Len(id_to_node) + Len(tx[t].additions) + 1 <= MaxNodes

(* A new node: it gets the next id, within the retained-node limit.        *)
AddNode(t) ==
    LET key    == StagedKey(t)
        staged == tx[t].staged[NextStaged(t)]
    IN  /\ Resolving(t)
        /\ ~ IsCanonical(t, key)
        /\ NodeRoom(t)
        /\ Local(t, [tx[t] EXCEPT
              !.additions = Append(@, [key |-> key, node |-> staged.node,
                                       owner |-> staged.owner]),
              !.resolved = Append(@, Len(id_to_node) + Len(tx[t].additions))])

AllResolved(t) == pc[t] = "resolve" /\ Len(tx[t].resolved) = Len(tx[t].staged)

(* Mutant: the lock is held while destructors run.                         *)
RetireLocked(t) ==
    /\ AllResolved(t)
    /\ tx[t].retired
    /\ Local(t, [tx[t] EXCEPT !.additions = <<>>])
    /\ Goto(t, "retire")
    /\ UNCHANGED <<registries, locks, verdict, calls, disturbances, answers>>

(* Some owner was replaced: release the lock before destructors run.       *)
ReleaseToRetire(t) ==
    /\ AllResolved(t)
    /\ tx[t].retired
    /\ node_lock' = NoThread
    /\ Local(t, [tx[t] EXCEPT !.additions = <<>>])
    /\ Goto(t, "retire")
    /\ UNCHANGED <<registries, state_lock, verdict, calls, disturbances, answers>>

(* retired.clear() ran the destructors; check, and resolve again.          *)
Retry(t) ==
    /\ pc[t] = "retire"
    /\ Fine(t)
    /\ Local(t, [tx[t] EXCEPT !.retired = FALSE])
    /\ Goto(t, "commit")
    /\ UNCHANGED <<registries, locks, verdict, calls, disturbances, answers>>

----------------------------------------------------------------------------
(* 3. Publication, under both write locks.                                 *)

LockStates(t) ==
    /\ AllResolved(t)
    /\ ~ tx[t].retired
    /\ state_lock = NoThread
    /\ state_lock' = t
    /\ Local(t, [tx[t] EXCEPT !.batch = <<>>, !.transitions = <<>>])
    /\ Goto(t, "batch")
    /\ UNCHANGED <<registries, node_lock, verdict, calls, disturbances, answers>>

(* The registered states as this transaction would leave them.             *)
WithBatch(t) == id_to_state \o tx[t].batch

IdsIn(states, state) == {i - 1 : i \in {j \in DOMAIN states : states[j] = state}}

ChainIds(states, chain) ==
    {i - 1 : i \in {j \in DOMAIN states :
        states[j].kind = "emit" /\ states[j].position = 1 /\ states[j].chain = chain}}

First(ids) == CHOOSE id \in ids : TRUE

(* StateBatch::product: an existing id or the next one.                    *)
WithProduct(states, product) ==
    IF IdsIn(states, product) # {} THEN states ELSE Append(states, product)

(* StateBatch::chain: width - 1 continuations, registered as a whole.      *)
Continuations(chain, width, first) ==
    [i \in 1 .. width - 1 |->
        Emit(chain, i, IF i + 1 = width THEN chain.target ELSE first + i)]

WithChain(states, chain, width) ==
    IF ChainIds(states, chain) # {} THEN states
    ELSE states \o Continuations(chain, width, Len(states))

Longer(a, b) == IF Len(a) >= Len(b) THEN Len(a) ELSE Len(b)

(* The next arc's target and, for a wide operation, its chain.             *)
NextArc(t) == tx[t].arcs[Len(tx[t].transitions) + 1]

ArcWidth(arc) == Longer(arc.input, arc.output)

ArcProduct(t) ==
    Product(resolved_node(NextArc(t).ref, tx[t].resolved), NextArc(t).pos, NextArc(t).cost)

ArcChain(t) ==
    LET states == WithProduct(WithBatch(t), ArcProduct(t))
    IN  [input |-> NextArc(t).input, output |-> NextArc(t).output,
         target |-> First(IdsIn(states, ArcProduct(t)))]

ArcStates(t) ==
    LET states == WithProduct(WithBatch(t), ArcProduct(t))
    IN  IF ArcWidth(NextArc(t)) <= 1 THEN states
        ELSE WithChain(states, ArcChain(t), ArcWidth(NextArc(t)))

PrepareArc(t) ==
    LET arc    == NextArc(t)
        states == ArcStates(t)
    IN  /\ pc[t] = "batch"
        /\ Len(tx[t].transitions) < Len(tx[t].arcs)
        /\ NotCancelled(t)
        /\ Len(states) <= MaxStates
        /\ Local(t, [tx[t] EXCEPT
              !.batch = SubSeq(states, Len(id_to_state) + 1, Len(states)),
              !.transitions = Append(@,
                  [input |-> LabelAt(arc.input, 0), output |-> LabelAt(arc.output, 0),
                   to |-> IF ArcWidth(arc) <= 1 THEN ArcChain(t).target
                          ELSE First(ChainIds(states, ArcChain(t))),
                   weight |-> arc.weight])])
        /\ UNCHANGED <<registries, locks, pc, verdict, calls, disturbances, answers>>

UnpublishedNodes(t) == id_to_node  \* mutant: states are published alone

PublishedNodes(t) ==
    id_to_node \o [i \in DOMAIN tx[t].additions |->
        [key |-> tx[t].additions[i].key, node |-> tx[t].additions[i].node]]

(* The linearization point.                                                *)
Publish(t) ==
    LET id == tx[t].state
    IN  /\ pc[t] = "batch"
        /\ Len(tx[t].transitions) = Len(tx[t].arcs)
        /\ Fine(t)
        /\ id_to_node' = PublishedNodes(t)
        /\ id_to_state' = id_to_state \o tx[t].batch
        /\ Answer(id, [final |-> FinalWeightOf(StateAt(id)), transitions |-> tx[t].transitions])
        /\ node_lock' = NoThread
        /\ state_lock' = NoThread
        /\ Local(t, NoTx)
        /\ Goto(t, "idle")
        /\ UNCHANGED <<verdict, calls, disturbances>>

----------------------------------------------------------------------------
(* Failure.  Every early return drops the guards it holds before the       *)
(* staged and retired owners, whose destructors are user code.             *)

(* Mutant: nodes are registered before the last check.                     *)
UnwindHalfCommitted(t) ==
    /\ id_to_node' = IF pc[t] = "batch" THEN PublishedNodes(t) ELSE id_to_node
    /\ node_lock' = IF node_lock = t THEN NoThread ELSE node_lock
    /\ state_lock' = IF state_lock = t THEN NoThread ELSE state_lock
    /\ Goto(t, "unwind")
    /\ UNCHANGED <<id_to_state, tx, verdict, calls, answers>>

Unwind(t) ==
    /\ node_lock' = IF node_lock = t THEN NoThread ELSE node_lock
    /\ state_lock' = IF state_lock = t THEN NoThread ELSE state_lock
    /\ Goto(t, "unwind")
    /\ UNCHANGED <<registries, tx, verdict, calls, answers>>

PendingResolution(t) == pc[t] = "resolve" /\ Len(tx[t].resolved) < Len(tx[t].staged)

PendingArcs(t) == pc[t] = "batch" /\ Len(tx[t].transitions) < Len(tx[t].arcs)

(* The steps of the walk that read the provider's edges check for faults.  *)
ReadsEdges(t) ==
    IF tx[t].stack = <<>>
    THEN \/ tx[t].op > Len(Operations)
         \/ /\ tx[t].op <= Len(Operations)
            /\ ~ Known(t, CurrentOp(t).x)
            /\ CurrentOp(t).x > 0
    ELSE Len(tx[t].stack) < CurrentOp(t).x

(* A check finds the token cancelled or a fault recorded.                  *)
Stopped(t) ==
    \/ pc[t] = "node" /\ node_lock = NoThread /\ ~ (Fine(t) /\ Valid(StateAt(tx[t].state)))
    \/ pc[t] = "walk" /\ (~ NotCancelled(t) \/ (~ Fine(t) /\ ReadsEdges(t)))
    \/ pc[t] = "commit" /\ ~ NotCancelled(t)
    \/ pc[t] = "retire" /\ ~ Fine(t)
    \/ PendingResolution(t) /\ ~ NotCancelled(t)
    \/ PendingArcs(t) /\ ~ NotCancelled(t)
    \/ pc[t] = "batch" /\ ~ PendingArcs(t) /\ ~ Fine(t)

(* The next node or state would exceed its retained-object limit.          *)
OverLimit(t) ==
    \/ PendingResolution(t) /\ ~ IsCanonical(t, StagedKey(t)) /\ ~ NodeRoom(t)
    \/ PendingArcs(t) /\ Len(ArcStates(t)) > MaxStates

Abort(t) == (Stopped(t) \/ OverLimit(t)) /\ Unwind(t) /\ UNCHANGED disturbances

Disturb == disturbances < MaxDisturbances /\ disturbances' = disturbances + 1

(* The work or path budget, or an allocation, gives out: the amounts are   *)
(* abstracted, so this may happen wherever one is charged.                 *)
Exhaust(t) ==
    /\ \/ pc[t] \in {"node", "walk", "batch"}
       \/ pc[t] = "commit" /\ tx[t].passes = 0
       \/ PendingResolution(t)
    /\ Disturb
    /\ Unwind(t)

(* Destructors of everything staged have run.                              *)
Unwound(t) ==
    /\ pc[t] = "unwind"
    /\ Local(t, NoTx)
    /\ verdict' = [verdict EXCEPT ![t] = "fine"]
    /\ Goto(t, "idle")
    /\ UNCHANGED <<registries, locks, calls, disturbances, answers>>

(* The environment: a token may be cancelled at any time, and any user     *)
(* callback (is_final, edges, Clone, Drop) may record a fault.             *)
CallbackSites == {"node", "walk", "retire", "unwind"}

Cancel(t) ==
    /\ pc[t] \notin {"idle", "unwind"}
    /\ verdict[t] = "fine"
    /\ Disturb
    /\ verdict' = [verdict EXCEPT ![t] = "cancelled"]
    /\ UNCHANGED <<registries, locks, pc, tx, calls, answers>>

ProviderFault(t) ==
    /\ pc[t] \in CallbackSites \ {"unwind"}
    /\ verdict[t] = "fine"
    /\ Disturb
    /\ verdict' = [verdict EXCEPT ![t] = "fault"]
    /\ UNCHANGED <<registries, locks, pc, tx, calls, answers>>

----------------------------------------------------------------------------

Step(t) ==
    \/ ReadNode(t) \/ StartPaths(t) \/ VisitEdge(t)
    \/ ApplyOperation(t) \/ EndWalk(t)
    \/ LockNodes(t) \/ AdoptCanonical(t) \/ AddNode(t) \/ ReleaseToRetire(t) \/ Retry(t)
    \/ LockStates(t) \/ PrepareArc(t) \/ Publish(t)
    \/ Abort(t) \/ Unwound(t)

Request(t) == \E id \in StateIds : Begin(t, id) \/ ExpandEmit(t, id)

(* Every activation has made its calls and returned.                       *)
Finished ==
    /\ \A t \in Threads : pc[t] = "idle"
    /\ calls = MaxCalls
    /\ UNCHANGED vars

Next ==
    \/ \E t \in Threads : Step(t) \/ Request(t) \/ Exhaust(t) \/ Cancel(t) \/ ProviderFault(t)
    \/ Finished

(* An activation that can take a step of its own eventually does: threads  *)
(* are scheduled, callbacks return, and a free lock is eventually granted. *)
Spec == Init /\ [][Next]_vars /\ \A t \in Threads : WF_vars(Step(t))

----------------------------------------------------------------------------
(* Properties.                                                             *)

PCs == {"idle", "node", "walk", "commit", "resolve", "retire", "batch", "unwind"}

NodeKeys == {RootKey} \cup (Nat \X Labels)

(* Types of the shared state and the control state (generalized_wfst.rs).  *)
TypeOK ==
    /\ id_to_node \in Seq([key : NodeKeys, node : DictNodes])
    /\ \A i \in DOMAIN id_to_state : id_to_state[i].kind \in {"product", "emit"}
    /\ node_lock \in Threads \cup {NoThread}
    /\ state_lock \in Threads \cup {NoThread}
    /\ pc \in [Threads -> PCs]
    /\ verdict \in [Threads -> {"fine", "cancelled", "fault"}]
    /\ calls \in 0 .. MaxCalls
    /\ disturbances \in 0 .. MaxDisturbances

(* A dictionary node has one id however many activations staged it at the  *)
(* same time, and the id's key spells the path to the node it stores       *)
(* (commit_expansion's reconciliation of staged nodes).                    *)
NodesCanonical ==
    /\ \A i, j \in DOMAIN id_to_node :
          id_to_node[i].key = id_to_node[j].key \/ id_to_node[i].node = id_to_node[j].node
              => i = j
    /\ \A i \in DOMAIN id_to_node \ {1} :
          LET parent == id_to_node[i].key[1]
          IN  /\ parent < i - 1
              /\ id_to_node[i].node = Append(NodeAt(parent), id_to_node[i].key[2])

(* What a registered state stands for, apart from its id and its links.    *)
Identity(s) == IF s.kind = "product" THEN s
               ELSE [kind |-> "emit", chain |-> s.chain, position |-> s.position]

(* A product state has one id, an emission chain has one first id, and the *)
(* continuations of a chain are all there, in a row, and end at its target *)
(* (StateBatch::product and chain against commits of other activations).   *)
StatesCanonical ==
    /\ \A i, j \in DOMAIN id_to_state :
          Identity(id_to_state[i]) = Identity(id_to_state[j]) => i = j
    /\ \A id \in {n \in StateIds : StateAt(n).kind = "emit"} :
          LET s     == StateAt(id)
              last  == Longer(s.chain.input, s.chain.output) - 1
              Emits(n, position) ==
                  /\ n \in StateIds
                  /\ StateAt(n).kind = "emit"
                  /\ StateAt(n).chain = s.chain
                  /\ StateAt(n).position = position
          IN  /\ s.position = 1 \/ Emits(id - 1, s.position - 1)
              /\ IF s.position = last THEN s.next = s.chain.target
                 ELSE s.next = id + 1 /\ Emits(id + 1, s.position + 1)

(* What activations race to register is registered once and whole.         *)
RegistriesCanonical == NodesCanonical /\ StatesCanonical

(* Every id that a registered state or an answer mentions is registered,   *)
(* and every product can be expanded: "every referenced ID becomes visible *)
(* together" (generalized_computation.rs:325).                             *)
NoDangling ==
    /\ TypeOK
    /\ \A i \in DOMAIN id_to_state :
          IF id_to_state[i].kind = "product" THEN Valid(id_to_state[i])
          ELSE {id_to_state[i].next, id_to_state[i].chain.target} \subseteq StateIds
    /\ \A id \in DOMAIN answers : \A answer \in answers[id] :
          \A i \in DOMAIN answer.transitions : answer.transitions[i].to \in StateIds

(* Clones never push the shared registries over the retained-object limits *)
(* (require_at_most, checked against provisional counts).                  *)
LimitsRespected == Len(id_to_node) <= MaxNodes /\ Len(id_to_state) <= MaxStates

(* User code (is_final, edges, Clone, Drop) never runs while its caller    *)
(* holds a registry lock, so it may re-enter the WFST (comment at          *)
(* generalized_computation.rs:193).                                        *)
NoCallbackUnderLock ==
    \A t \in Threads : pc[t] \in CallbackSites => t \notin {node_lock, state_lock}

(* Once the states are prepared every staged owner is shared with the      *)
(* registry or with this batch's additions, so dropping the staging area   *)
(* after the commit runs no destructor; and the additions dropped under    *)
(* the lock on failure never hold a last owner (comment at                 *)
(* generalized_computation.rs:275).                                        *)
OwnersRetained ==
    \A t \in Threads :
        LET added == {tx[t].additions[i].owner : i \in DOMAIN tx[t].additions}
            held  == {tx[t].staged[i].owner : i \in DOMAIN tx[t].staged}
        IN  /\ pc[t] = "batch" =>
                  held \subseteq added \cup {RegistryOwner(id) : id \in NodeIds}
            /\ pc[t] \in {"resolve", "batch"} => added \subseteq held

(* However other activations interfere, a staged owner is replaced at most *)
(* twice (by a node of its own batch, then by a registered one), so the    *)
(* retry loop of commit_expansion ends.                                    *)
RetriesBounded == \A t \in Threads : tx[t].passes <= MaxPasses(t)

(* What a transition stands for: the labels it spells, through its chain   *)
(* if it has one, and the product it reaches, by path and not by id.       *)
Meaning(transition) ==
    LET s      == StateAt(transition.to)
        wide   == s.kind = "emit"
        target == IF wide THEN StateAt(s.chain.target) ELSE s
    IN  [input  |-> IF wide THEN s.chain.input ELSE transition.input,
         output |-> IF wide THEN s.chain.output ELSE transition.output,
         weight |-> transition.weight, node |-> NodeAt(target.node),
         pos |-> target.pos, cost |-> target.cost]

(* The operations that apply at a product, straight from the dictionary.   *)
Applicable(product) ==
    LET path == NodeAt(product.node)
        Below(n) == {m \in DictNodes : /\ Len(m) = Len(path) + n
                                       /\ SubSeq(m, 1, Len(path)) = path}
    IN  {pair \in (DOMAIN Operations) \X DictNodes :
            LET op == Operations[pair[1]]
                m  == pair[2]
            IN  /\ InBudget(op, product)
                /\ m \in Below(op.x)
                /\ operation_applies(op, SubSeq(m, Len(path) + 1, Len(m)),
                                     Segment(product.pos, op.y))}

Reference(product) ==
    {LET op == Operations[pair[1]]
     IN  [input |-> Segment(product.pos, op.y),
          output |-> SubSeq(pair[2], Len(NodeAt(product.node)) + 1, Len(pair[2])),
          weight |-> op.w, node |-> pair[2],
          pos |-> product.pos + op.y, cost |-> product.cost + op.w]
        : pair \in Applicable(product)}

(* Every answer for a product lists exactly the operations that apply      *)
(* there, whatever was registered by others while it was computed.         *)
AnswersExact ==
    \A id \in StateIds : StateAt(id).kind = "product" =>
        \A answer \in answers[id] :
            LET ts == answer.transitions
            IN  /\ {Meaning(ts[i]) : i \in DOMAIN ts} = Reference(StateAt(id))
                /\ Len(ts) = Cardinality(Applicable(StateAt(id)))
                /\ answer.final <=> /\ StateAt(id).pos = Len(Query)
                                    /\ IsFinal(NodeAt(StateAt(id).node))

(* Two clones, or one before and after an eviction, give the same answer   *)
(* for a state, down to the ids.                                           *)
ClonesAgree == \A id \in DOMAIN answers : Cardinality(answers[id]) <= 1

(* Failed, cancelled and faulty expansions leave nothing behind: every     *)
(* state but the start is a target or a continuation of a published        *)
(* answer, and every node lies on a path one of those followed.            *)
NothingLeaked ==
    LET tos == {tr.to : tr \in UNION {{a.transitions[i] : i \in DOMAIN a.transitions} :
                                          a \in UNION {answers[id] : id \in DOMAIN answers}}}
        heads == {id \in tos : StateAt(id).kind = "emit"}
    IN  /\ \A id \in StateIds \ {0} :
              \/ id \in tos
              \/ \E h \in heads : \/ StateAt(h).chain.target = id
                                  \/ /\ StateAt(id).kind = "emit"
                                     /\ StateAt(id).chain = StateAt(h).chain
        /\ \A n \in NodeIds \ {0} :
              \E id \in StateIds : \E k \in DOMAIN Operations :
                  /\ answers[id] # {}
                  /\ StateAt(id).kind = "product"
                  /\ InBudget(Operations[k], StateAt(id))
                  /\ LET from == NodeAt(StateAt(id).node)
                     IN  /\ Len(NodeAt(n)) > Len(from)
                         /\ Len(NodeAt(n)) <= Len(from) + Operations[k].x
                         /\ SubSeq(NodeAt(n), 1, Len(from)) = from

(* Every expansion returns: no schedule of locks, retries, failures and    *)
(* callbacks blocks one for ever.                                          *)
ExpansionReturns == \A t \in Threads : pc[t] # "idle" ~> pc[t] = "idle"

=============================================================================
