------------------------ MODULE ExpansionAnswerProofs ------------------------
(***************************************************************************)
(* What an expansion answers, and what it leaves in the registries.        *)
(*                                                                         *)
(* AnswersExact speaks of published answers only.  The invariant follows   *)
(* an answer back to the walk that found it.  While a width is enumerated, *)
(* each dictionary node of that depth below the product's own is recorded  *)
(* once or still to come under one frame of the stack (EnumerationOK), so  *)
(* when the stack is empty the recorded paths are exactly those nodes; the *)
(* arcs are then the applicable pairs of operation and node (ArcsOK), and  *)
(* each prepared transition means what its arc does over the registries as *)
(* they will be (PreparedOK).  Publishing and later commits change no      *)
(* meaning, for ids keep theirs.                                           *)
(*                                                                         *)
(* ClonesAgree adds the order.  The walk visits edges as the dictionary    *)
(* lists them, so paths of one width are recorded in that order            *)
(* (WalkOrdered) and the arcs follow the one listing of the applicable     *)
(* pairs (ArcsListed, ListingUnique); a transition has the shape that its  *)
(* outcome determines (Shaped), and one key has one id.                    *)
(*                                                                         *)
(* NothingLeaked goes the same way: what is staged lies within reach of an *)
(* operation that the product can pay for, and what is prepared is led to  *)
(* by a transition of the same batch.                                      *)
(***************************************************************************)
EXTENDS ExpansionRegistryProofs, FunctionTheorems

----------------------------------------------------------------------------
(* The walk                                                                *)

(* The path m leads to or below the node p.                                *)
IsBelow(p, m) == Len(p) <= Len(m) /\ \A i \in 1 .. Len(p) : m[i] = p[i]

NodesBelow(base, width) ==
    {m \in DictNodes : Len(m) = Len(base) + width /\ IsBelow(base, m)}

(* The node m lies behind an edge that the frame has still to visit.       *)
Pending(frame, m) ==
    /\ IsBelow(frame.node, m)
    /\ Len(frame.node) < Len(m)
    /\ \E j \in DOMAIN frame.todo : frame.todo[j] = m[Len(frame.node) + 1]

Distinct(labels) == \A i, j \in DOMAIN labels : labels[i] = labels[j] => i = j

(* The stack is one branch of the trie, and an edge is visited once.       *)
StackOK(stack, base) ==
    /\ \A d \in DOMAIN stack : /\ Len(stack[d].node) = Len(base) + d - 1
                               /\ IsBelow(base, stack[d].node)
                               /\ Distinct(stack[d].todo)
    /\ \A d, e \in DOMAIN stack :
          d < e => /\ IsBelow(stack[d].node, stack[e].node)
                   /\ ~ Pending(stack[d], stack[e].node)

(* The path leads from the base to this node.                              *)
LeadsTo(path, base, m) == path.done /\ base \o path.out = m

(* Of the nodes at an enumerated depth below the base, each is recorded    *)
(* once or, if it is the depth being enumerated, still to come.            *)
EnumerationOK(stack, paths, base, current) ==
    /\ stack # <<>> => \E i \in DOMAIN paths : paths[i].width = current
    /\ \A i \in DOMAIN paths : paths[i].done => Len(paths[i].out) = paths[i].width
    /\ \A i, j \in DOMAIN paths :
          paths[i].done /\ paths[j].done /\ paths[i].out = paths[j].out => i = j
    /\ \A i \in DOMAIN paths : \A d \in DOMAIN stack :
          paths[i].done /\ paths[i].width = current =>
              ~ Pending(stack[d], base \o paths[i].out)
    /\ \A i \in DOMAIN paths : \A m \in NodesBelow(base, paths[i].width) :
          \/ \E j \in DOMAIN paths : LeadsTo(paths[j], base, m)
          \/ paths[i].width = current /\ \E d \in DOMAIN stack : Pending(stack[d], m)

(* The edges that the frame has still to visit are the last of its node's. *)
InTurn(frame) ==
    LET edges == Edges(frame.node)
    IN  /\ Len(frame.todo) <= Len(edges)
        /\ \A j \in DOMAIN frame.todo :
              frame.todo[j] = edges[Len(edges) - Len(frame.todo) + j]

(* The walk comes to m before n: they part at a node that lists the edge   *)
(* to m first.                                                             *)
ComesBefore(m, n) ==
    \E p \in DictNodes :
        /\ IsBelow(p, m) /\ Len(p) < Len(m)
        /\ IsBelow(p, n) /\ Len(p) < Len(n)
        /\ \E i, j \in DOMAIN Edges(p) : /\ i < j
                                         /\ Edges(p)[i] = m[Len(p) + 1]
                                         /\ Edges(p)[j] = n[Len(p) + 1]

(* Paths of one width are recorded in the order of the walk, before what   *)
(* is still to come.                                                       *)
WalkOrdered(stack, paths, base, current) ==
    /\ \A d \in DOMAIN stack : InTurn(stack[d])
    /\ \A i, j \in DOMAIN paths :
          i < j /\ paths[i].done /\ paths[j].done /\ paths[i].width = paths[j].width =>
              ComesBefore(base \o paths[i].out, base \o paths[j].out)
    /\ \A i \in DOMAIN paths : \A d \in DOMAIN stack : \A m \in DictNodes :
          paths[i].done /\ paths[i].width = current /\ Pending(stack[d], m) =>
              ComesBefore(base \o paths[i].out, m)

(* A node that some operation can reach from the product.                  *)
InReach(base, product, node) ==
    \E k \in DOMAIN Operations :
        /\ InBudget(Operations[k], product)
        /\ Len(base) < Len(node)
        /\ Len(node) <= Len(base) + Operations[k].x
        /\ IsBelow(base, node)

----------------------------------------------------------------------------
(* The arcs                                                                *)

(* The operations before bound that apply at the product, with the nodes   *)
(* they lead to.                                                           *)
AppliesTo(base, product, k, m) ==
    /\ InBudget(Operations[k], product)
    /\ m \in NodesBelow(base, Operations[k].x)
    /\ operation_applies(Operations[k], SubSeq(m, Len(base) + 1, Len(m)),
                         Segment(product.pos, Operations[k].y))

ApplicableBefore(base, product, bound) ==
    {pair \in (DOMAIN Operations) \X DictNodes :
        pair[1] < bound /\ AppliesTo(base, product, pair[1], pair[2])}

Outcome(base, product, pair) ==
    LET op == Operations[pair[1]]
    IN  [input |-> Segment(product.pos, op.y),
         output |-> SubSeq(pair[2], Len(base) + 1, Len(pair[2])),
         weight |-> op.w, node |-> pair[2],
         pos |-> product.pos + op.y, cost |-> product.cost + op.w]

ArcOutcome(base, arc) ==
    [input |-> arc.input, output |-> arc.output, weight |-> arc.weight,
     node |-> base \o arc.output, pos |-> arc.pos, cost |-> arc.cost]

(* The arcs are the applicable pairs, one for one.                         *)
ArcsOK(arcs, base, product, bound) ==
    LET pairs == ApplicableBefore(base, product, bound)
    IN  /\ IsFiniteSet(pairs)
        /\ Cardinality(pairs) = Len(arcs)
        /\ {ArcOutcome(base, arcs[i]) : i \in DOMAIN arcs} =
              {Outcome(base, product, pair) : pair \in pairs}

Pairs == (DOMAIN Operations) \X DictNodes

PairBefore(a, b) == a[1] < b[1] \/ (a[1] = b[1] /\ ComesBefore(a[2], b[2]))

(* The pairs, by operation and then in the order of the walk.              *)
Listing(list, pairs) ==
    /\ {list[i] : i \in DOMAIN list} = pairs
    /\ \A i, j \in DOMAIN list : i < j => PairBefore(list[i], list[j])

(* The arcs are those of the applicable pairs, in the order of a listing.  *)
ArcsListed(arcs, base, product, bound) ==
    \E list \in Seq(Pairs) :
        /\ Listing(list, ApplicableBefore(base, product, bound))
        /\ Len(list) = Len(arcs)
        /\ \A i \in DOMAIN arcs : ArcOutcome(base, arcs[i]) = Outcome(base, product, list[i])

----------------------------------------------------------------------------
(* The prepared transitions                                                *)

MeaningIn(nodes, states, transition) ==
    LET s      == states[transition.to + 1]
        wide   == s.kind = "emit"
        target == IF wide THEN states[s.chain.target + 1] ELSE s
    IN  [input  |-> IF wide THEN s.chain.input ELSE transition.input,
         output |-> IF wide THEN s.chain.output ELSE transition.output,
         weight |-> transition.weight, node |-> nodes[target.node + 1].node,
         pos |-> target.pos, cost |-> target.cost]

(* The transition carries the first labels, and leads to the product or,   *)
(* if there are more, to the head of a chain.                              *)
Shaped(states, transition, outcome) ==
    LET s == states[transition.to + 1]
    IN  /\ transition.input = LabelAt(outcome.input, 0)
        /\ transition.output = LabelAt(outcome.output, 0)
        /\ IF Longer(outcome.input, outcome.output) <= 1
           THEN s.kind = "product"
           ELSE s.kind = "emit" /\ s.position = 1

PreparedOK(nodes, states, r, base) ==
    /\ Len(r.transitions) <= Len(r.arcs)
    /\ \A i \in DOMAIN r.transitions :
          /\ MeaningIn(Published(nodes, r.additions), states \o r.batch, r.transitions[i]) =
                ArcOutcome(base, r.arcs[i])
          /\ Shaped(states \o r.batch, r.transitions[i], ArcOutcome(base, r.arcs[i]))

(* The state at index i is where a transition leads, or its chain.         *)
LedTo(states, tos, i) ==
    \/ i - 1 \in tos
    \/ \E h \in tos :
          /\ states[h + 1].kind = "emit"
          /\ \/ states[h + 1].chain.target = i - 1
             \/ states[i].kind = "emit" /\ states[i].chain = states[h + 1].chain

Targets(transitions) == {transitions[i].to : i \in DOMAIN transitions}

BatchLedTo(states, r) ==
    \A i \in Len(states) + 1 .. Len(states \o r.batch) :
        LedTo(states \o r.batch, Targets(r.transitions), i)

----------------------------------------------------------------------------
(* The invariant                                                           *)

AnswerOK(nodes, states, r, p) ==
    LET product == states[r.state + 1]
        base    == nodes[product.node + 1].node
    IN  /\ p = "walk" => /\ r.stack # <<>> => /\ r.op \in DOMAIN Operations
                                              /\ Len(r.stack) <= Operations[r.op].x
                         /\ StackOK(r.stack, base)
                         /\ EnumerationOK(r.stack, r.paths, base, Operations[r.op].x)
                         /\ WalkOrdered(r.stack, r.paths, base, Operations[r.op].x)
                         /\ ArcsOK(r.arcs, base, product, r.op)
                         /\ ArcsListed(r.arcs, base, product, r.op)
        /\ p \in {"walk", "commit", "resolve", "retire", "batch"} =>
              \A i \in DOMAIN r.staged : InReach(base, product, r.staged[i].node)
        /\ p \in {"commit", "resolve", "retire", "batch"} =>
              /\ ArcsOK(r.arcs, base, product, Len(Operations) + 1)
              /\ ArcsListed(r.arcs, base, product, Len(Operations) + 1)
        /\ p = "batch" => PreparedOK(nodes, states, r, base) /\ BatchLedTo(states, r)

(* A published answer for the product with this id.                        *)
Exact(nodes, states, id, answer) ==
    LET product == states[id + 1]
        base    == nodes[product.node + 1].node
        pairs   == ApplicableBefore(base, product, Len(Operations) + 1)
        ts      == answer.transitions
    IN  /\ {MeaningIn(nodes, states, ts[i]) : i \in DOMAIN ts} =
              {Outcome(base, product, pair) : pair \in pairs}
        /\ Len(ts) = Cardinality(pairs)
        /\ answer.final <=> product.pos = Len(Query) /\ IsFinal(base)

(* The transitions are those of the applicable pairs, in the order of the  *)
(* operations and of the walk.                                             *)
Lists(nodes, states, ts, base, product) ==
    \E list \in Seq(Pairs) :
        /\ Listing(list, ApplicableBefore(base, product, Len(Operations) + 1))
        /\ Len(list) = Len(ts)
        /\ \A i \in DOMAIN ts :
              LET outcome == Outcome(base, product, list[i])
              IN  MeaningIn(nodes, states, ts[i]) = outcome /\ Shaped(states, ts[i], outcome)

Listed(nodes, states, id, answer) ==
    LET product == states[id + 1]
    IN  /\ answer \in [final : BOOLEAN, transitions : Seq(Transitions)]
        /\ Lists(nodes, states, answer.transitions, nodes[product.node + 1].node, product)

(* The one answer of a continuation.                                       *)
EmitAnswer(s) ==
    [final |-> FALSE,
     transitions |-> <<[input |-> LabelAt(s.chain.input, s.position),
                        output |-> LabelAt(s.chain.output, s.position),
                        to |-> s.next, weight |-> 0]>>]

AllTargets == UNION {Targets(a.transitions) : a \in UNION {answers[id] : id \in DOMAIN answers}}

PublishedExact ==
    /\ \A id \in DOMAIN answers : answers[id] # {} => id \in StateIds
    /\ \A id \in StateIds : StateAt(id).kind = "product" =>
          \A answer \in answers[id] : Exact(id_to_node, id_to_state, id, answer)

PublishedListed ==
    \A id \in StateIds : \A answer \in answers[id] :
        IF StateAt(id).kind = "product"
        THEN Listed(id_to_node, id_to_state, id, answer)
        ELSE answer = EmitAnswer(StateAt(id))

PublishedUsed ==
    /\ \A i \in 2 .. Len(id_to_state) : LedTo(id_to_state, AllTargets, i)
    /\ \A n \in 2 .. Len(id_to_node) :
          \E id \in StateIds :
              /\ answers[id] # {}
              /\ StateAt(id).kind = "product"
              /\ InReach(NodeAt(StateAt(id).node), StateAt(id), id_to_node[n].node)

AnswerInv ==
    /\ \A t \in Threads : AnswerOK(id_to_node, id_to_state, tx[t], pc[t])
    /\ PublishedExact
    /\ PublishedListed
    /\ PublishedUsed

----------------------------------------------------------------------------
(* Paths of labels                                                         *)

(* A path has labels at its positions.                                     *)
LEMMA PathShape ==
    ASSUME NEW p \in DictNodes
    PROVE  /\ p \in Text /\ Len(p) \in Nat /\ DOMAIN p = 1 .. Len(p)
           /\ \A i \in 1 .. Len(p) : p[i] \in Labels
<1>1. p \in Text
  BY DictionaryAssumption DEF Text
<1> QED BY <1>1 DEF Text

(* Being below is transitive, and antisymmetric at one depth.              *)
LEMMA BelowOrder ==
    ASSUME NEW p \in Text, NEW q \in Text, NEW m \in Text
    PROVE  /\ IsBelow(p, p)
           /\ IsBelow(p, q) /\ IsBelow(q, m) => IsBelow(p, m)
           /\ IsBelow(p, m) /\ IsBelow(q, m) /\ Len(p) <= Len(q) => IsBelow(p, q)
           /\ IsBelow(p, m) /\ Len(p) = Len(m) => p = m
<1>1. /\ Len(p) \in Nat /\ Len(q) \in Nat /\ Len(m) \in Nat
      /\ DOMAIN p = 1 .. Len(p) /\ DOMAIN m = 1 .. Len(m)
  BY DEF Text
<1>2. IsBelow(p, m) /\ Len(p) = Len(m) => p = m
  BY <1>1, SeqEqual DEF IsBelow, Text
<1>3. IsBelow(p, p)
  BY <1>1 DEF IsBelow
<1>4. IsBelow(p, q) /\ IsBelow(q, m) => IsBelow(p, m)
  <2>1. Len(p) <= Len(q) => \A i \in 1 .. Len(p) : i \in 1 .. Len(q)
    BY <1>1
  <2> QED BY <1>1, <2>1 DEF IsBelow
<1>5. IsBelow(p, m) /\ IsBelow(q, m) /\ Len(p) <= Len(q) => IsBelow(p, q)
  <2>1. Len(p) <= Len(q) => \A i \in 1 .. Len(p) : i \in 1 .. Len(q)
    BY <1>1
  <2> QED BY <1>1, <2>1 DEF IsBelow
<1> QED BY <1>2, <1>3, <1>4, <1>5

(* Below a child means below its parent and past the child's label.        *)
LEMMA BelowChild ==
    ASSUME NEW p \in Text, NEW l \in Labels, NEW m \in Text
    PROVE  IsBelow(Append(p, l), m) <=>
              IsBelow(p, m) /\ Len(p) < Len(m) /\ m[Len(p) + 1] = l
<1> DEFINE q == Append(p, l)
           n == Len(p)
<1>1. n \in Nat /\ Len(q) = n + 1 /\ (\A i \in 1 .. n : q[i] = p[i]) /\ q[n + 1] = l
  BY DEF Text
<1>2. Len(m) \in Nat
  BY DEF Text
<1>3. \A i \in 1 .. n + 1 : i \in 1 .. n \/ i = n + 1
  BY <1>1
<1>4. n + 1 \in 1 .. n + 1 /\ \A i \in 1 .. n : i \in 1 .. n + 1
  BY <1>1
<1> HIDE DEF q, n
<1>5. IsBelow(q, m) <=> n + 1 <= Len(m) /\ \A i \in 1 .. n + 1 : m[i] = q[i]
  BY <1>1 DEF IsBelow
<1>6. IsBelow(p, m) <=> n <= Len(m) /\ \A i \in 1 .. n : m[i] = p[i]
  BY DEF IsBelow, n
<1> QED BY <1>1, <1>2, <1>3, <1>4, <1>5, <1>6 DEF q, n

(* The path that out continues the base by.                                *)
LEMMA BelowSuffix ==
    ASSUME NEW base \in Text, NEW out \in Text
    PROVE  /\ base \o out \in Text
           /\ Len(base \o out) = Len(base) + Len(out)
           /\ IsBelow(base, base \o out)
           /\ SubSeq(base \o out, Len(base) + 1, Len(base \o out)) = out
<1> DEFINE m == base \o out
           n == Len(base)
           k == Len(out)
<1>1. /\ n \in Nat /\ k \in Nat /\ m \in Text /\ Len(m) = n + k
      /\ \A i \in 1 .. n : m[i] = base[i]
      /\ \A i \in 1 .. k : m[n + i] = out[i]
  BY ConcatShape DEF Text
<1>2. IsBelow(base, m)
  BY <1>1 DEF IsBelow
<1>3. SubSeq(m, n + 1, n + k) = out
  <2> DEFINE s == SubSeq(m, n + 1, n + k)
  <2>1. \A i \in n + 1 .. n + k : i \in 1 .. Len(m)
    BY <1>1
  <2>2. s \in Seq(Labels) /\ Len(s) = k /\ \A i \in 1 .. k : s[i] = m[n + i]
    <3> HIDE DEF m, n, k
    <3>1. n + 1 \in Int /\ n + k \in Int /\ m \in Seq(Labels) /\ 1 <= n + 1 /\ n + k <= Len(m)
      BY <1>1 DEF Text
    <3>2. CASE k = 0
      BY <3>1, <3>2, <1>1, SubSeqProperties
    <3>3. CASE k > 0
      BY <3>1, <3>3, <1>1, SubSeqProperties
    <3> QED BY <3>2, <3>3, <1>1
  <2> HIDE DEF s, m, n
  <2>3. \A i \in 1 .. k : s[i] = out[i]
    BY <2>2, <1>1
  <2>4. out \in Seq(Labels) /\ Len(s) = Len(out)
    BY <2>2 DEF Text
  <2> QED BY <2>2, <2>3, <2>4, SeqEqual DEF s
<1> QED BY <1>1, <1>2, <1>3

(* A path below the base is the base and the rest.                         *)
LEMMA BelowSplit ==
    ASSUME NEW base \in Text, NEW m \in Text, IsBelow(base, m)
    PROVE  /\ SubSeq(m, Len(base) + 1, Len(m)) \in Text
           /\ Len(SubSeq(m, Len(base) + 1, Len(m))) = Len(m) - Len(base)
           /\ base \o SubSeq(m, Len(base) + 1, Len(m)) = m
           /\ SubSeq(m, 1, Len(base)) = base
<1> DEFINE n == Len(base)
           s == SubSeq(m, n + 1, Len(m))
<1>1. n \in Nat /\ Len(m) \in Nat /\ n <= Len(m) /\ \A i \in 1 .. n : m[i] = base[i]
  BY DEF IsBelow, Text
<1>2. s \in Seq(Labels) /\ Len(s) = Len(m) - n /\ \A i \in 1 .. Len(m) - n : s[i] = m[n + i]
  BY <1>1, SubSeqProperties DEF Text
<1> HIDE DEF s, n
<1>3. base \o s = m
  <2>1. /\ base \o s \in Seq(Labels) /\ Len(base \o s) = n + Len(s)
        /\ \A i \in 1 .. n : (base \o s)[i] = base[i]
        /\ \A i \in 1 .. Len(s) : (base \o s)[n + i] = s[i]
    BY <1>2, ConcatShape DEF Text, n
  <2>2. ASSUME NEW i \in 1 .. Len(m) PROVE (base \o s)[i] = m[i]
    <3>1. CASE i \in 1 .. n
      BY <3>1, <2>1, <1>1
    <3>2. CASE i \notin 1 .. n
      <4>1. i - n \in 1 .. Len(s) /\ n + (i - n) = i
        BY <3>2, <1>1, <1>2
      <4> QED BY <4>1, <2>1, <1>2
    <3> QED BY <3>1, <3>2
  <2>3. Len(base \o s) = Len(m)
    BY <2>1, <1>1, <1>2
  <2> QED BY <2>1, <2>2, <2>3, SeqEqual DEF Text
<1>4. SubSeq(m, 1, n) = base
  <2> DEFINE q == SubSeq(m, 1, n)
  <2>1. q \in Seq(Labels) /\ Len(q) = n /\ \A i \in 1 .. n : q[i] = m[i]
    BY <1>1, SubSeqProperties DEF Text
  <2> HIDE DEF q
  <2>2. Len(q) = Len(base) /\ \A i \in 1 .. Len(q) : q[i] = base[i]
    BY <2>1, <1>1 DEF n
  <2> QED BY <2>1, <2>2, SeqEqual DEF Text, q
<1> QED BY <1>1, <1>2, <1>3, <1>4 DEF s, n, Text

(* A prefix that is given by SubSeq.                                       *)
LEMMA PrefixBelow ==
    ASSUME NEW m \in Text, NEW n \in 0 .. Len(m)
    PROVE  /\ SubSeq(m, 1, n) \in Text
           /\ Len(SubSeq(m, 1, n)) = n
           /\ IsBelow(SubSeq(m, 1, n), m)
<1>1. Len(m) \in Nat /\ n \in Nat /\ n <= Len(m)
  BY DEF Text
<1>2. /\ SubSeq(m, 1, n) \in Seq(Labels) /\ Len(SubSeq(m, 1, n)) = n
      /\ \A i \in 1 .. n : SubSeq(m, 1, n)[i] = m[i]
  BY <1>1, SubSeqProperties DEF Text
<1> QED BY <1>1, <1>2 DEF IsBelow, Text

(* The dictionary lists the edge that leads on to a node further down.     *)
LEMMA EdgeListed ==
    ASSUME NEW p \in DictNodes, NEW m \in DictNodes, IsBelow(p, m), Len(p) < Len(m)
    PROVE  /\ m[Len(p) + 1] \in Labels
           /\ \E j \in DOMAIN Edges(p) : Edges(p)[j] = m[Len(p) + 1]
<1> DEFINE n == Len(p)
           l == m[n + 1]
           q == SubSeq(m, 1, n + 1)
<1>1. p \in Text /\ m \in Text /\ n \in Nat /\ Len(m) \in Nat /\ n + 1 \in 1 .. Len(m) /\ l \in Labels
  BY PathShape
<1>2. n + 1 \in 0 .. Len(m)
  BY <1>1
<1>3. q \in DictNodes /\ q \in Text /\ Len(q) = n + 1 /\ IsBelow(q, m)
  BY <1>1, <1>2, PrefixBelow, DictionaryAssumption
<1> HIDE DEF q
<1>4. IsBelow(Append(p, l), m) /\ Append(p, l) \in Text /\ Len(Append(p, l)) = n + 1
  <2>1. Append(p, l) \in Text /\ Len(Append(p, l)) = n + 1
    BY <1>1, AppendShape DEF Text
  <2>2. IsBelow(Append(p, l), m)
    BY <1>1, BelowChild
  <2> QED BY <2>1, <2>2
<1>5. Append(p, l) = q
  <2> DEFINE c == Append(p, l)
  <2>1. c \in Text /\ Len(c) = n + 1 /\ IsBelow(c, m) /\ Len(c) <= Len(q)
    BY <1>1, <1>3, <1>4
  <2> HIDE DEF c, l, n
  <2>2. IsBelow(c, q)
    BY <2>1, <1>1, <1>3, BelowOrder
  <2> QED BY <2>1, <2>2, <1>3, BelowOrder DEF c
<1> QED BY <1>1, <1>3, <1>5, DictionaryAssumption

----------------------------------------------------------------------------
(* The walk enumerates the nodes at a depth below the base                 *)

(* Pending depends on the labels up to the frame's own edge.               *)
LEMMA PendingPrefix ==
    ASSUME NEW frame \in Frames, NEW p \in DictNodes, NEW m \in DictNodes,
           IsBelow(p, m), IsBelow(frame.node, p), Len(frame.node) < Len(p)
    PROVE  Pending(frame, m) <=> Pending(frame, p)
<1>1. frame.node \in DictNodes /\ frame.node \in Text /\ p \in Text /\ m \in Text
  BY PathShape DEF Frames
<1>2. Len(frame.node) \in Nat /\ Len(p) \in Nat /\ Len(m) \in Nat
  BY <1>1, PathShape
<1>3. IsBelow(frame.node, m)
  BY <1>1, BelowOrder
<1>4. Len(p) <= Len(m) /\ m[Len(frame.node) + 1] = p[Len(frame.node) + 1]
  BY <1>2 DEF IsBelow
<1> QED BY <1>2, <1>3, <1>4 DEF Pending

(* A frame moves on to its next edge.                                      *)
LEMMA PendingAdvances ==
    ASSUME NEW f \in Frames, NEW g \in Frames, g.node = f.node,
           f.todo # <<>>, g.todo = Tail(f.todo), Distinct(f.todo)
    PROVE  LET child == Append(f.node, Head(f.todo))
           IN  /\ child \in DictNodes
               /\ Len(child) = Len(f.node) + 1
               /\ IsBelow(f.node, child)
               /\ Distinct(g.todo)
               /\ \A m \in DictNodes :
                     /\ Pending(g, m) => Pending(f, m)
                     /\ Pending(f, m) => Pending(g, m) \/ IsBelow(child, m)
                     /\ IsBelow(child, m) => Pending(f, m) /\ ~ Pending(g, m)
<1> DEFINE l == Head(f.todo)
           child == Append(f.node, l)
           n == Len(f.todo)
<1>1. /\ f.node \in DictNodes /\ f.todo \in Seq(Labels)
      /\ \A i \in DOMAIN f.todo : Append(f.node, f.todo[i]) \in DictNodes
  BY DEF Frames, Text
<1>2. /\ n \in Nat \ {0} /\ DOMAIN f.todo = 1 .. n /\ l = f.todo[1] /\ l \in Labels
      /\ DOMAIN g.todo = 1 .. n - 1 /\ \A i \in 1 .. n - 1 : g.todo[i] = f.todo[i + 1]
  BY <1>1
<1> HIDE DEF l, n
<1>3. f.node \in Text /\ Len(f.node) \in Nat /\ \A m \in DictNodes : m \in Text /\ Len(m) \in Nat
  BY <1>1, PathShape
<1>4. child \in DictNodes /\ child \in Text /\ Len(child) = Len(f.node) + 1
  <2>1. 1 \in DOMAIN f.todo
    BY <1>2
  <2>2. child \in DictNodes
    BY <1>1, <1>2, <2>1
  <2> QED BY <2>2, <1>2, <1>3, AppendShape, PathShape DEF Text
<1>5. \A m \in DictNodes :
         IsBelow(child, m) <=> IsBelow(f.node, m) /\ Len(f.node) < Len(m) /\ m[Len(f.node) + 1] = l
  BY <1>2, <1>3, BelowChild
<1>6. IsBelow(f.node, child)
  <2>1. IsBelow(child, child)
    BY <1>4, BelowOrder
  <2> QED BY <2>1, <1>4, <1>5
<1> HIDE DEF child
<1>7. Distinct(g.todo)
  <2> SUFFICES ASSUME NEW i \in 1 .. n - 1, NEW j \in 1 .. n - 1, g.todo[i] = g.todo[j] PROVE i = j
    BY <1>2 DEF Distinct
  <2>1. i + 1 \in 1 .. n /\ j + 1 \in 1 .. n /\ f.todo[i + 1] = f.todo[j + 1]
    BY <1>2
  <2>2. i + 1 = j + 1
    BY <2>1, <1>2 DEF Distinct
  <2> QED BY <2>2
<1>8. \A x : (\E j \in DOMAIN g.todo : g.todo[j] = x) <=> (\E j \in DOMAIN f.todo : f.todo[j] = x /\ j # 1)
  <2>1. \A j \in 1 .. n - 1 : j + 1 \in 1 .. n /\ j + 1 # 1
    BY <1>2
  <2>2. \A j \in 1 .. n : j # 1 => j - 1 \in 1 .. n - 1 /\ (j - 1) + 1 = j
    BY <1>2
  <2> TAKE x
  <2>3. ASSUME NEW j \in DOMAIN g.todo, g.todo[j] = x PROVE \E i \in DOMAIN f.todo : f.todo[i] = x /\ i # 1
    BY <2>1, <2>3, <1>2
  <2>4. ASSUME NEW j \in DOMAIN f.todo, f.todo[j] = x, j # 1 PROVE \E i \in DOMAIN g.todo : g.todo[i] = x
    <3>1. j - 1 \in DOMAIN g.todo /\ g.todo[j - 1] = f.todo[(j - 1) + 1]
      BY <2>2, <2>4, <1>2
    <3> QED BY <3>1, <2>2, <2>4, <1>2
  <2> QED BY <2>3, <2>4
<1>9. ASSUME NEW m \in DictNodes
      PROVE  /\ Pending(g, m) => Pending(f, m)
             /\ Pending(f, m) => Pending(g, m) \/ IsBelow(child, m)
             /\ IsBelow(child, m) => Pending(f, m) /\ ~ Pending(g, m)
  <2> DEFINE x == m[Len(f.node) + 1]
             below == IsBelow(f.node, m) /\ Len(f.node) < Len(m)
  <2>1. Pending(f, m) <=> below /\ \E j \in DOMAIN f.todo : f.todo[j] = x
    BY DEF Pending
  <2>2. Pending(g, m) <=> below /\ \E j \in DOMAIN f.todo : f.todo[j] = x /\ j # 1
    BY <1>8 DEF Pending
  <2>3. IsBelow(child, m) <=> below /\ x = f.todo[1]
    BY <1>2, <1>5
  <2>4. 1 \in DOMAIN f.todo /\ \A j \in DOMAIN f.todo : f.todo[j] = f.todo[1] => j = 1
    BY <1>2 DEF Distinct
  <2> HIDE DEF below, x
  <2> QED BY <2>1, <2>2, <2>3, <2>4
<1> QED BY <1>4, <1>6, <1>7, <1>9 DEF child, l

(* Frames with nothing to visit may be dropped.                            *)
LEMMA PruneOK ==
    ASSUME NEW stack \in Seq(Frames), NEW paths \in Seq(FoundPaths), NEW base, NEW current,
           StackOK(stack, base), EnumerationOK(stack, paths, base, current)
    PROVE  /\ StackOK(Unfinished(stack), base)
           /\ EnumerationOK(Unfinished(stack), paths, base, current)
<1> DEFINE left == Unfinished(stack)
<1>1. PICK d \in 0 .. Len(stack) :
         /\ left = SubSeq(stack, 1, d)
         /\ \A e \in d + 1 .. Len(stack) : stack[e].todo = <<>>
  BY UnfinishedResult
<1>2. /\ Len(stack) \in Nat /\ DOMAIN stack = 1 .. Len(stack)
      /\ DOMAIN left = 1 .. d /\ \A e \in 1 .. d : left[e] = stack[e]
  BY <1>1
<1> HIDE DEF left
<1>3. \A e \in DOMAIN left : e \in DOMAIN stack /\ left[e] = stack[e]
  BY <1>2
<1>4. ASSUME NEW e \in DOMAIN stack, NEW m, Pending(stack[e], m)
      PROVE  e \in DOMAIN left
  <2>1. stack[e].todo # <<>>
    BY <1>4 DEF Pending
  <2> QED BY <2>1, <1>1, <1>2
<1>5. StackOK(left, base)
  BY <1>3 DEF StackOK
<1>6. left # <<>> => stack # <<>>
  BY <1>2, <1>3
<1>7. ASSUME NEW e \in DOMAIN stack, NEW m, Pending(stack[e], m)
      PROVE  \E c \in DOMAIN left : Pending(left[c], m)
  BY <1>3, <1>4, <1>7
<1>8. EnumerationOK(left, paths, base, current)
  BY <1>3, <1>6, <1>7 DEF EnumerationOK
<1> QED BY <1>5, <1>8 DEF left

(* The frame on top has moved on to its next edge.                         *)
Advanced(stack, rest, n) ==
    /\ Len(stack) = n /\ Len(rest) = n
    /\ \A d \in 1 .. n - 1 : rest[d] = stack[d]
    /\ rest[n].node = stack[n].node
    /\ rest[n].todo = Tail(stack[n].todo)

(* What is still to come after the edge to the child: all that was, but    *)
(* for what is below the child.                                            *)
Behind(stack, rest, n, base, child) ==
    /\ StackOK(rest, base)
    /\ child \in DictNodes
    /\ Len(child) = Len(base) + n
    /\ IsBelow(base, child)
    /\ \A d \in 1 .. n : IsBelow(rest[d].node, child) /\ ~ Pending(rest[d], child)
    /\ \A m \in DictNodes :
          /\ \A d \in 1 .. n : Pending(rest[d], m) => Pending(stack[d], m)
          /\ \A d \in 1 .. n :
                Pending(stack[d], m) => Pending(rest[d], m) \/ IsBelow(child, m)
          /\ IsBelow(child, m) => Pending(stack[n], m)

(* An edge is visited.                                                     *)
LEMMA AdvancedOK ==
    ASSUME NEW stack \in Seq(Frames), NEW rest \in Seq(Frames), NEW n \in Nat \ {0},
           NEW base \in DictNodes, StackOK(stack, base), Advanced(stack, rest, n),
           stack[n].todo # <<>>
    PROVE  Behind(stack, rest, n, base, Append(stack[n].node, Head(stack[n].todo)))
<1> DEFINE child == Append(stack[n].node, Head(stack[n].todo))
<1>1. /\ n \in DOMAIN stack /\ n \in DOMAIN rest /\ DOMAIN stack = 1 .. n /\ DOMAIN rest = 1 .. n
      /\ \A d \in 1 .. n : d # n => d \in 1 .. n - 1 /\ d < n
  BY DEF Advanced
<1>2. \A d \in 1 .. n : /\ stack[d] \in Frames /\ rest[d] \in Frames
                        /\ stack[d].node \in DictNodes /\ rest[d].node = stack[d].node
  <2>1. \A d \in 1 .. n : /\ stack[d] \in Frames /\ rest[d] \in Frames
                          /\ stack[d].node \in DictNodes
    BY <1>1, FrameFields
  <2>2. \A d \in 1 .. n : rest[d].node = stack[d].node
    BY <1>1 DEF Advanced
  <2> QED BY <2>1, <2>2
<1>3. \A d \in 1 .. n : /\ Len(stack[d].node) = Len(base) + d - 1
                        /\ IsBelow(base, stack[d].node) /\ Distinct(stack[d].todo)
  BY <1>1 DEF StackOK
<1>4. /\ child \in DictNodes /\ Len(child) = Len(stack[n].node) + 1
      /\ IsBelow(stack[n].node, child) /\ Distinct(rest[n].todo)
      /\ \A m \in DictNodes :
            /\ Pending(rest[n], m) => Pending(stack[n], m)
            /\ Pending(stack[n], m) => Pending(rest[n], m) \/ IsBelow(child, m)
            /\ IsBelow(child, m) => Pending(stack[n], m) /\ ~ Pending(rest[n], m)
  BY <1>1, <1>2, <1>3, PendingAdvances DEF Advanced
<1> HIDE DEF child
<1>5. base \in Text /\ child \in Text /\ Len(base) \in Nat /\ \A d \in 1 .. n : stack[d].node \in Text
  BY <1>2, <1>4, PathShape
<1>6. Len(child) = Len(base) + n
  BY <1>1, <1>3, <1>4, <1>5
<1>7. IsBelow(base, child)
  BY <1>1, <1>3, <1>4, <1>5, BelowOrder
<1>8. \A d, e \in 1 .. n : d < e => /\ IsBelow(stack[d].node, stack[e].node)
                                    /\ ~ Pending(stack[d], stack[e].node)
  BY <1>1 DEF StackOK
<1>9. \A m \in DictNodes : \A d \in 1 .. n : Pending(rest[d], m) => Pending(stack[d], m)
  BY <1>1, <1>4 DEF Advanced
<1>10. \A m \in DictNodes : \A d \in 1 .. n :
          Pending(stack[d], m) => Pending(rest[d], m) \/ IsBelow(child, m)
  BY <1>1, <1>4 DEF Advanced
<1>11. \A d \in 1 .. n : Distinct(rest[d].todo)
  BY <1>1, <1>3, <1>4 DEF Advanced
<1>12. StackOK(rest, base)
  <2>1. \A d, e \in 1 .. n : d < e => /\ IsBelow(rest[d].node, rest[e].node)
                                      /\ ~ Pending(rest[d], rest[e].node)
    BY <1>2, <1>8, <1>9
  <2> QED BY <2>1, <1>1, <1>2, <1>3, <1>11 DEF StackOK
<1>13. ASSUME NEW d \in 1 .. n PROVE IsBelow(rest[d].node, child) /\ ~ Pending(rest[d], child)
  <2>1. CASE d = n
    <3>1. IsBelow(child, child)
      BY <1>5, BelowOrder
    <3> QED BY <3>1, <2>1, <1>2, <1>4
  <2>2. CASE d # n
    <3>1. IsBelow(stack[d].node, stack[n].node) /\ ~ Pending(stack[d], stack[n].node) /\ d < n
      BY <2>2, <1>1, <1>8
    <3>2. IsBelow(stack[d].node, child)
      BY <3>1, <1>1, <1>4, <1>5, BelowOrder
    <3>3. Len(stack[d].node) < Len(stack[n].node)
      BY <3>1, <1>1, <1>3, <1>5
    <3>4. ~ Pending(stack[d], child)
      BY <3>1, <3>3, <1>1, <1>2, <1>4, PendingPrefix
    <3> QED BY <3>2, <3>4, <1>2, <1>4, <1>9
  <2> QED BY <2>1, <2>2
<1>14. Behind(stack, rest, n, base, child)
  BY <1>4, <1>6, <1>7, <1>9, <1>10, <1>12, <1>13 DEF Behind
<1> QED BY <1>14 DEF child

(* At the depth being enumerated, the child is recorded.                   *)
LEMMA RecordOK ==
    ASSUME NEW stack \in Seq(Frames), NEW rest \in Seq(Frames), NEW n \in Nat \ {0},
           NEW base \in DictNodes, StackOK(stack, base), Advanced(stack, rest, n),
           stack[n].todo # <<>>,
           NEW paths \in Seq(FoundPaths), EnumerationOK(stack, paths, base, n),
           NEW path \in FoundPaths, path.width = n, path.done,
           base \o path.out = Append(stack[n].node, Head(stack[n].todo))
    PROVE  EnumerationOK(rest, Append(paths, path), base, n)
<1> DEFINE child == Append(stack[n].node, Head(stack[n].todo))
           more == Append(paths, path)
           last == Len(paths) + 1
<1>1. /\ StackOK(rest, base) /\ child \in DictNodes /\ Len(child) = Len(base) + n
      /\ IsBelow(base, child)
      /\ \A d \in 1 .. n : IsBelow(rest[d].node, child) /\ ~ Pending(rest[d], child)
      /\ \A m \in DictNodes :
            /\ \A d \in 1 .. n : Pending(rest[d], m) => Pending(stack[d], m)
            /\ \A d \in 1 .. n :
                  Pending(stack[d], m) => Pending(rest[d], m) \/ IsBelow(child, m)
            /\ IsBelow(child, m) => Pending(stack[n], m)
  <2>1. Behind(stack, rest, n, base, child)
    BY AdvancedOK
  <2> HIDE DEF child
  <2> QED BY <2>1 DEF Behind
<1> HIDE DEF child
<1>2. /\ more \in Seq(FoundPaths) /\ DOMAIN more = DOMAIN paths \cup {last}
      /\ \A i \in DOMAIN paths : more[i] = paths[i] /\ i # last
      /\ more[last] = path
  BY AppendShape
<1> HIDE DEF more, last
<1>3. base \in Text /\ Len(base) \in Nat /\ child \in Text /\ path.out \in Text
  BY <1>1, PathShape DEF FoundPaths
<1>4. base \o path.out = child
  BY DEF child
<1>5. Len(path.out) = n
  <2>1. Len(base \o path.out) = Len(base) + Len(path.out)
    BY <1>3, BelowSuffix
  <2>2. Len(path.out) \in Nat
    BY <1>3 DEF Text
  <2> QED BY <2>1, <2>2, <1>1, <1>3, <1>4
<1>6. DOMAIN stack = 1 .. n /\ DOMAIN rest = 1 .. n /\ n \in 1 .. n /\ stack # <<>> /\ rest # <<>>
  BY DEF Advanced
<1>7. \A i \in DOMAIN paths :
         paths[i].done /\ paths[i].width = n => \A d \in 1 .. n : ~ Pending(stack[d], base \o paths[i].out)
  BY <1>6 DEF EnumerationOK
<1>8. \A i \in DOMAIN paths : paths[i].done => Len(paths[i].out) = paths[i].width
  BY DEF EnumerationOK
<1>9. Pending(stack[n], child)
  <2>1. IsBelow(child, child)
    BY <1>3, BelowOrder
  <2> QED BY <2>1, <1>1
<1>10. ASSUME NEW i \in DOMAIN paths, paths[i].done, paths[i].out = path.out PROVE FALSE
  <2>1. paths[i].width = n
    BY <1>5, <1>8, <1>10
  <2> QED BY <2>1, <1>4, <1>6, <1>7, <1>9, <1>10
<1>11. \A i, j \in DOMAIN more :
          more[i].done /\ more[j].done /\ more[i].out = more[j].out => i = j
  <2>1. \A i, j \in DOMAIN paths :
           paths[i].done /\ paths[j].done /\ paths[i].out = paths[j].out => i = j
    BY DEF EnumerationOK
  <2> QED BY <2>1, <1>2, <1>10
<1>12. ASSUME NEW i \in DOMAIN more, NEW d \in 1 .. n, more[i].done, more[i].width = n
       PROVE  ~ Pending(rest[d], base \o more[i].out)
  <2>1. CASE i = last
    BY <2>1, <1>1, <1>2, <1>4
  <2>2. CASE i # last
    <3>1. i \in DOMAIN paths /\ more[i] = paths[i] /\ ~ Pending(stack[d], base \o paths[i].out)
      BY <2>2, <1>2, <1>7, <1>12
    <3>2. ASSUME Pending(rest[d], base \o paths[i].out) PROVE Pending(stack[d], base \o paths[i].out)
      <4>1. CASE d = n
        <5> DEFINE f == stack[d]
                   g == rest[d]
                   m == base \o paths[i].out
        <5>1. g.node = f.node /\ g.todo = Tail(f.todo) /\ f.todo # <<>> /\ f.todo \in Seq(Labels)
          BY <4>1, <1>6, FrameFields DEF Advanced, Text
        <5>2. \A j \in DOMAIN g.todo : j + 1 \in DOMAIN f.todo /\ g.todo[j] = f.todo[j + 1]
          BY <5>1
        <5> HIDE DEF f, g, m
        <5>3. Pending(g, m)
          BY <3>2 DEF g, m
        <5>4. Pending(f, m)
          BY <5>1, <5>2, <5>3 DEF Pending
        <5> QED BY <5>4 DEF f, m
      <4>2. CASE d # n
        <5>1. d \in 1 .. n - 1
          BY <4>2
        <5> QED BY <5>1, <3>2 DEF Advanced
      <4> QED BY <4>1, <4>2
    <3> QED BY <3>1, <3>2
  <2> QED BY <2>1, <2>2
<1>13. ASSUME NEW w, NEW m \in NodesBelow(base, w),
              \/ \E j \in DOMAIN paths : LeadsTo(paths[j], base, m)
              \/ w = n /\ \E d \in DOMAIN stack : Pending(stack[d], m)
       PROVE  \/ \E j \in DOMAIN more : LeadsTo(more[j], base, m)
              \/ w = n /\ \E d \in DOMAIN rest : Pending(rest[d], m)
  <2>1. CASE \E j \in DOMAIN paths : LeadsTo(paths[j], base, m)
    BY <2>1, <1>2
  <2>2. ASSUME w = n, NEW d \in DOMAIN stack, Pending(stack[d], m)
        PROVE  \/ \E j \in DOMAIN more : LeadsTo(more[j], base, m)
               \/ \E e \in DOMAIN rest : Pending(rest[e], m)
    <3>1. m \in DictNodes /\ m \in Text /\ Len(m) = Len(base) + n
      BY <2>2, PathShape DEF NodesBelow
    <3>2. CASE IsBelow(child, m)
      <4>1. child = m
        BY <3>1, <3>2, <1>1, <1>3, BelowOrder
      <4>2. LeadsTo(more[last], base, m) /\ last \in DOMAIN more
        BY <4>1, <1>2, <1>4 DEF LeadsTo
      <4> QED BY <4>2
    <3>3. CASE ~ IsBelow(child, m)
      <4>1. Pending(rest[d], m)
        BY <3>1, <3>3, <2>2, <1>1, <1>6
      <4> QED BY <4>1, <2>2, <1>6
    <3> QED BY <3>2, <3>3
  <2> QED BY <2>1, <2>2, <1>13
<1>14. ASSUME NEW i \in DOMAIN more, NEW m \in NodesBelow(base, more[i].width)
       PROVE  \/ \E j \in DOMAIN more : LeadsTo(more[j], base, m)
              \/ more[i].width = n /\ \E d \in DOMAIN rest : Pending(rest[d], m)
  <2>1. PICK k \in DOMAIN paths : paths[k].width = more[i].width
    <3>1. CASE i = last
      BY <3>1, <1>2, <1>6 DEF EnumerationOK
    <3>2. CASE i # last
      BY <3>2, <1>2
    <3> QED BY <3>1, <3>2
  <2>2. m \in NodesBelow(base, paths[k].width)
    BY <2>1
  <2>3. \/ \E j \in DOMAIN paths : LeadsTo(paths[j], base, m)
        \/ paths[k].width = n /\ \E d \in DOMAIN stack : Pending(stack[d], m)
    BY <2>2 DEF EnumerationOK
  <2> QED BY <2>1, <2>3, <1>13
<1>15. /\ rest # <<>> => \E i \in DOMAIN more : more[i].width = n
       /\ \A i \in DOMAIN more : more[i].done => Len(more[i].out) = more[i].width
  BY <1>2, <1>5, <1>8
<1> QED BY <1>6, <1>11, <1>12, <1>14, <1>15 DEF EnumerationOK, more

(* Above it, the child's edges are still to come.                          *)
LEMMA DescendOK ==
    ASSUME NEW stack \in Seq(Frames), NEW rest \in Seq(Frames), NEW n \in Nat \ {0},
           NEW base \in DictNodes, StackOK(stack, base), Advanced(stack, rest, n),
           stack[n].todo # <<>>,
           NEW current \in Nat, n < current,
           NEW paths \in Seq(FoundPaths), EnumerationOK(stack, paths, base, current),
           \A i \in DOMAIN paths : base \o paths[i].out \in DictNodes,
           NEW frame \in Frames, frame.node = Append(stack[n].node, Head(stack[n].todo)),
           frame.todo = Edges(frame.node)
    PROVE  /\ StackOK(Append(rest, frame), base)
           /\ EnumerationOK(Append(rest, frame), paths, base, current)
<1> DEFINE child == Append(stack[n].node, Head(stack[n].todo))
           frames == Append(rest, frame)
<1>1. /\ StackOK(rest, base) /\ child \in DictNodes /\ Len(child) = Len(base) + n
      /\ IsBelow(base, child)
      /\ \A d \in 1 .. n : IsBelow(rest[d].node, child) /\ ~ Pending(rest[d], child)
      /\ \A m \in DictNodes :
            /\ \A d \in 1 .. n : Pending(rest[d], m) => Pending(stack[d], m)
            /\ \A d \in 1 .. n :
                  Pending(stack[d], m) => Pending(rest[d], m) \/ IsBelow(child, m)
            /\ IsBelow(child, m) => Pending(stack[n], m)
  <2>1. Behind(stack, rest, n, base, child)
    BY AdvancedOK
  <2> HIDE DEF child
  <2> QED BY <2>1 DEF Behind
<1>2. frame.node = child
  OBVIOUS
<1> HIDE DEF child
<1>3. DOMAIN stack = 1 .. n /\ DOMAIN rest = 1 .. n /\ Len(rest) = n /\ n \in 1 .. n /\ stack # <<>>
  BY DEF Advanced
<1>4. /\ frames \in Seq(Frames) /\ DOMAIN frames = 1 .. n + 1 /\ n + 1 \in 1 .. n + 1
      /\ \A d \in 1 .. n : frames[d] = rest[d] /\ d \in 1 .. n + 1
      /\ frames[n + 1] = frame
      /\ \A d \in 1 .. n + 1 : d = n + 1 \/ d \in 1 .. n
  BY <1>3, AppendShape
<1> HIDE DEF frames
<1>5. Len(base) \in Nat /\ Len(child) \in Nat
  BY <1>1, PathShape
<1>6. StackOK(frames, base)
  <2>1. Distinct(frame.todo)
    BY <1>1, <1>2, DictionaryAssumption DEF Distinct
  <2>2. ASSUME NEW d \in 1 .. n + 1
        PROVE  /\ Len(frames[d].node) = Len(base) + d - 1
               /\ IsBelow(base, frames[d].node) /\ Distinct(frames[d].todo)
    <3>1. CASE d = n + 1
      <4>1. frames[d] = frame /\ Len(base) + n = Len(base) + d - 1
        BY <3>1, <1>4, <1>5
      <4> QED BY <4>1, <2>1, <1>1, <1>2
    <3>2. CASE d \in 1 .. n
      BY <3>2, <1>1, <1>3, <1>4 DEF StackOK
    <3> QED BY <3>1, <3>2, <1>4
  <2>3. ASSUME NEW d \in 1 .. n + 1, NEW e \in 1 .. n + 1, d < e
        PROVE  IsBelow(frames[d].node, frames[e].node) /\ ~ Pending(frames[d], frames[e].node)
    <3>1. d \in 1 .. n
      BY <2>3
    <3>2. CASE e = n + 1
      BY <3>1, <3>2, <1>1, <1>2, <1>4
    <3>3. CASE e \in 1 .. n
      BY <3>1, <3>3, <2>3, <1>1, <1>3, <1>4 DEF StackOK
    <3> QED BY <3>2, <3>3, <1>4
  <2> QED BY <2>2, <2>3, <1>4 DEF StackOK
<1>7. ASSUME NEW i \in DOMAIN paths, NEW d \in 1 .. n + 1, paths[i].done, paths[i].width = current
      PROVE  ~ Pending(frames[d], base \o paths[i].out)
  <2> DEFINE m == base \o paths[i].out
  <2>1. m \in DictNodes /\ \A e \in 1 .. n : ~ Pending(stack[e], m)
    BY <1>3, <1>7 DEF EnumerationOK
  <2> HIDE DEF m
  <2>2. CASE d \in 1 .. n
    BY <2>1, <2>2, <1>1, <1>4 DEF m
  <2>3. CASE d = n + 1
    <3>1. Pending(frame, m) => IsBelow(child, m)
      BY <1>2 DEF Pending
    <3> QED BY <3>1, <2>1, <2>3, <1>1, <1>3, <1>4 DEF m
  <2> QED BY <2>2, <2>3, <1>4
<1>8. ASSUME NEW i \in DOMAIN paths, NEW m \in NodesBelow(base, paths[i].width)
      PROVE  \/ \E j \in DOMAIN paths : LeadsTo(paths[j], base, m)
             \/ paths[i].width = current /\ \E d \in DOMAIN frames : Pending(frames[d], m)
  <2>1. \/ \E j \in DOMAIN paths : LeadsTo(paths[j], base, m)
        \/ paths[i].width = current /\ \E d \in DOMAIN stack : Pending(stack[d], m)
    BY DEF EnumerationOK
  <2>2. ASSUME paths[i].width = current, NEW d \in DOMAIN stack, Pending(stack[d], m)
        PROVE  \E e \in DOMAIN frames : Pending(frames[e], m)
    <3>1. m \in DictNodes /\ Len(m) = Len(base) + current
      BY <2>2 DEF NodesBelow
    <3>2. CASE IsBelow(child, m)
      <4>1. Len(child) < Len(m)
        BY <3>1, <1>1, <1>5
      <4>2. \E j \in DOMAIN Edges(child) : Edges(child)[j] = m[Len(child) + 1]
        BY <4>1, <3>1, <3>2, <1>1, EdgeListed
      <4>3. Pending(frame, m)
        BY <4>1, <4>2, <3>2, <1>2 DEF Pending
      <4> QED BY <4>3, <1>4
    <3>3. CASE ~ IsBelow(child, m)
      BY <3>1, <3>3, <2>2, <1>1, <1>3, <1>4
    <3> QED BY <3>2, <3>3
  <2> QED BY <2>1, <2>2
<1>9. EnumerationOK(frames, paths, base, current)
  BY <1>3, <1>4, <1>7, <1>8 DEF EnumerationOK
<1> QED BY <1>6, <1>9 DEF frames

(* Between two enumerations it does not matter which comes next.           *)
LEMMA EnumerationIdle ==
    ASSUME NEW paths, NEW base, NEW w, NEW v, EnumerationOK(<<>>, paths, base, w)
    PROVE  /\ EnumerationOK(<<>>, paths, base, v)
           /\ \A i \in DOMAIN paths : \A m \in NodesBelow(base, paths[i].width) :
                 \E j \in DOMAIN paths : LeadsTo(paths[j], base, m)
BY DEF EnumerationOK

(* Width 0 leads to the base itself.                                       *)
LEMMA EmptyPathOK ==
    ASSUME NEW paths \in Seq(FoundPaths), NEW base \in DictNodes, NEW w,
           EnumerationOK(<<>>, paths, base, w),
           NEW mark \in FoundPaths, mark.width = 0, mark.done, mark.out = <<>>,
           \A i \in DOMAIN paths : paths[i].width # 0
    PROVE  EnumerationOK(<<>>, Append(paths, mark), base, w)
<1> DEFINE more == Append(paths, mark)
           last == Len(paths) + 1
<1>1. /\ more \in Seq(FoundPaths) /\ DOMAIN more = DOMAIN paths \cup {last}
      /\ \A i \in DOMAIN paths : more[i] = paths[i] /\ i # last
      /\ more[last] = mark
  BY AppendShape
<1> HIDE DEF more, last
<1>2. base \in Text /\ Len(base) \in Nat
  BY PathShape
<1>3. base \o mark.out = base
  BY <1>2 DEF Text
<1>4. \A i \in DOMAIN paths : paths[i].done => paths[i].out # mark.out
  <2>1. Len(mark.out) = 0
    OBVIOUS
  <2> QED BY <2>1 DEF EnumerationOK
<1>5. \A i, j \in DOMAIN more : more[i].done /\ more[j].done /\ more[i].out = more[j].out => i = j
  <2>1. \A i, j \in DOMAIN paths :
           paths[i].done /\ paths[j].done /\ paths[i].out = paths[j].out => i = j
    BY DEF EnumerationOK
  <2> QED BY <2>1, <1>1, <1>4
<1>6. ASSUME NEW i \in DOMAIN more, NEW m \in NodesBelow(base, more[i].width)
      PROVE  \E j \in DOMAIN more : LeadsTo(more[j], base, m)
  <2>1. CASE i = last
    <3>1. m \in NodesBelow(base, 0)
      BY <2>1, <1>1
    <3>2. m \in DictNodes /\ IsBelow(base, m) /\ Len(m) = Len(base) + 0
      BY <3>1 DEF NodesBelow
    <3>3. m \in Text /\ Len(base) = Len(m)
      BY <3>2, <1>2, PathShape
    <3>4. m = base
      BY <3>2, <3>3, <1>2, BelowOrder
    <3>5. LeadsTo(more[last], base, m)
      BY <3>4, <1>1, <1>3 DEF LeadsTo
    <3> QED BY <3>5, <2>1
  <2>2. CASE i # last
    <3>1. i \in DOMAIN paths /\ m \in NodesBelow(base, paths[i].width)
      BY <2>2, <1>1
    <3>2. \E j \in DOMAIN paths : LeadsTo(paths[j], base, m)
      BY <3>1, EnumerationIdle
    <3> QED BY <3>2, <1>1
  <2> QED BY <2>1, <2>2
<1>7. \A i \in DOMAIN more : more[i].done => Len(more[i].out) = more[i].width
  <2>1. Len(mark.out) = 0
    OBVIOUS
  <2> QED BY <2>1, <1>1 DEF EnumerationOK
<1>8. EnumerationOK(<<>>, more, base, w)
  BY <1>5, <1>6, <1>7 DEF EnumerationOK
<1> QED BY <1>8 DEF more

(* A new width starts with the edges of the base.                          *)
LEMMA EnumerationStarts ==
    ASSUME NEW paths \in Seq(FoundPaths), NEW base \in DictNodes, NEW w,
           EnumerationOK(<<>>, paths, base, w),
           NEW width \in Nat \ {0}, \A i \in DOMAIN paths : paths[i].width # width,
           NEW mark \in FoundPaths, mark.width = width, ~ mark.done,
           NEW frame \in Frames, frame.node = base, frame.todo = Edges(base)
    PROVE  /\ StackOK(<<frame>>, base)
           /\ EnumerationOK(<<frame>>, Append(paths, mark), base, width)
<1> DEFINE more == Append(paths, mark)
           last == Len(paths) + 1
           stack == <<frame>>
<1>1. /\ more \in Seq(FoundPaths) /\ DOMAIN more = DOMAIN paths \cup {last}
      /\ \A i \in DOMAIN paths : more[i] = paths[i] /\ i # last
      /\ more[last] = mark
  BY AppendShape
<1> HIDE DEF more, last
<1>2. DOMAIN stack = {1} /\ stack[1] = frame
  OBVIOUS
<1> HIDE DEF stack
<1>3. base \in Text /\ Len(base) \in Nat
  BY PathShape
<1>4. StackOK(stack, base)
  <2>1. Distinct(frame.todo)
    BY DictionaryAssumption DEF Distinct
  <2>2. IsBelow(base, base) /\ Len(base) = Len(base) + 1 - 1
    BY <1>3, BelowOrder
  <2>3. \A d, e \in DOMAIN stack : ~ (d < e)
    BY <1>2
  <2> QED BY <2>1, <2>2, <2>3, <1>2 DEF StackOK
<1>5. ASSUME NEW i \in DOMAIN more, NEW m \in NodesBelow(base, more[i].width)
      PROVE  \/ \E j \in DOMAIN more : LeadsTo(more[j], base, m)
             \/ more[i].width = width /\ \E d \in DOMAIN stack : Pending(stack[d], m)
  <2>1. CASE i = last
    <3>1. m \in DictNodes /\ IsBelow(base, m) /\ Len(m) = Len(base) + width
      BY <2>1, <1>1 DEF NodesBelow
    <3>2. Len(base) < Len(m)
      BY <3>1, <1>3
    <3>3. Pending(frame, m)
      BY <3>1, <3>2, EdgeListed DEF Pending
    <3> QED BY <3>3, <2>1, <1>1, <1>2
  <2>2. CASE i # last
    <3>1. i \in DOMAIN paths /\ m \in NodesBelow(base, paths[i].width)
      BY <2>2, <1>1
    <3>2. \E j \in DOMAIN paths : LeadsTo(paths[j], base, m)
      BY <3>1, EnumerationIdle
    <3> QED BY <3>2, <1>1
  <2> QED BY <2>1, <2>2
<1>6. \A i \in DOMAIN more : more[i].done => i \in DOMAIN paths /\ more[i] = paths[i] /\ more[i].width # width
  BY <1>1
<1>7. /\ \A i \in DOMAIN more : more[i].done => Len(more[i].out) = more[i].width
      /\ \A i, j \in DOMAIN more : more[i].done /\ more[j].done /\ more[i].out = more[j].out => i = j
  BY <1>6 DEF EnumerationOK
<1>8. EnumerationOK(stack, more, base, width)
  BY <1>1, <1>5, <1>6, <1>7 DEF EnumerationOK
<1> QED BY <1>4, <1>8 DEF stack, more

----------------------------------------------------------------------------
(* Operations in order                                                     *)

(* No operation that Affordable skips could be paid for.                   *)
LEMMA AffordableFirst ==
    ASSUME NEW product \in Products, NEW from \in 1 .. Len(Operations) + 1
    PROVE  /\ Affordable(product, from) \in from .. Len(Operations) + 1
           /\ \A k \in DOMAIN Operations :
                 from <= k /\ k < Affordable(product, from) => ~ InBudget(Operations[k], product)
<1> DEFINE ops == {k \in from .. Len(Operations) : InBudget(Operations[k], product)}
<1>1. Len(Operations) \in Nat /\ DOMAIN Operations = 1 .. Len(Operations)
  BY OperationsTyped
<1>2. \A k \in DOMAIN Operations : from <= k /\ InBudget(Operations[k], product) => k \in ops
  BY <1>1
<1>3. ops \subseteq from .. Len(Operations)
  OBVIOUS
<1>4. CASE ops = {}
  <2>1. Affordable(product, from) = Len(Operations) + 1
    BY <1>4 DEF Affordable
  <2> HIDE DEF ops
  <2> QED BY <2>1, <1>1, <1>2, <1>4
<1>5. CASE ops # {}
  <2>1. Affordable(product, from) = CHOOSE k \in ops : \A j \in ops : k <= j
    BY <1>5 DEF Affordable
  <2> HIDE DEF ops
  <2>2. ops \subseteq Nat
    BY <1>1, <1>3
  <2>3. \E k \in ops : \A j \in ops : k <= j
    BY <2>2, <1>5, LeastElement
  <2>4. Affordable(product, from) \in ops /\ \A j \in ops : Affordable(product, from) <= j
    BY <2>1, <2>3
  <2>5. Affordable(product, from) \in from .. Len(Operations)
    BY <2>4, <1>3
  <2> HIDE DEF ops
  <2> DEFINE a == Affordable(product, from)
  <2>6. ASSUME NEW k \in DOMAIN Operations, from <= k, k < a, InBudget(Operations[k], product)
        PROVE  FALSE
    <3>1. k \in ops /\ a <= k /\ a \in Int /\ k \in Int
      BY <2>4, <2>5, <2>6, <1>1, <1>2
    <3> HIDE DEF a
    <3> QED BY <3>1, <2>6
  <2> QED BY <2>5, <2>6, <1>1
<1> QED BY <1>4, <1>5

(* InOrder lists every member of the set.                                  *)
LEMMA InOrderCovers ==
    ASSUME NEW n \in Nat, NEW S, S \subseteq 1 .. n, NEW i \in S
    PROVE  \E k \in 1 .. Cardinality(S) : k \in DOMAIN InOrder(S) /\ InOrder(S)[k] = i
<1>1. /\ IsFiniteSet(S) /\ Cardinality(S) \in Nat
      /\ \A j : IsFiniteSet(Upto(S, j)) /\ Cardinality(Upto(S, j)) \in Nat
  BY UptoFinite
<1> DEFINE k == Cardinality(Upto(S, i))
<1>2. i \in Upto(S, i) /\ Upto(S, i) \in SUBSET S
  BY DEF Upto
<1>3. k \in Nat /\ k <= Cardinality(S) /\ k # 0
  <2>1. k <= Cardinality(S)
    BY <1>1, <1>2, FS_Subset
  <2>2. k # 0
    BY <1>1, <1>2, FS_EmptySet
  <2> QED BY <2>1, <2>2, <1>1
<1> HIDE DEF k
<1>4. k \in 1 .. Cardinality(S)
  BY <1>1, <1>3
<1>5. /\ InOrder(S) \in Seq(S) /\ Len(InOrder(S)) = Cardinality(S)
      /\ \A j \in DOMAIN InOrder(S) : Cardinality(Upto(S, InOrder(S)[j])) = j
  BY InOrderTyped
<1>6. k \in DOMAIN InOrder(S) /\ InOrder(S)[k] \in S
  BY <1>4, <1>5
<1> DEFINE h == InOrder(S)[k]
<1>7. h \in S /\ Cardinality(Upto(S, h)) = Cardinality(Upto(S, i)) /\ h \in Int /\ i \in Int
  <2>1. Cardinality(Upto(S, h)) = k /\ h \in S
    BY <1>5, <1>6
  <2> HIDE DEF h
  <2>2. h \in Int /\ i \in Int
    BY <2>1
  <2> QED BY <2>1, <2>2 DEF k
<1> HIDE DEF h
<1>8. h = i
  <2>1. CASE h < i
    <3>1. Cardinality(Upto(S, h)) < Cardinality(Upto(S, i))
      BY <2>1, <1>7, UptoMonotone
    <3> QED BY <3>1, <1>1, <1>7
  <2>2. CASE i < h
    <3>1. Cardinality(Upto(S, i)) < Cardinality(Upto(S, h))
      BY <2>2, <1>7, UptoMonotone
    <3> QED BY <3>1, <1>1, <1>7
  <2> QED BY <2>1, <2>2, <1>7
<1> QED BY <1>4, <1>6, <1>8 DEF h

(* The pairs that the operation at k contributes.                          *)
PairsAt(base, product, k) ==
    {pair \in {k} \X DictNodes : AppliesTo(base, product, k, pair[2])}

(* They come next after those before k.                                    *)
LEMMA NextPairs ==
    ASSUME NEW base, NEW product, NEW k \in DOMAIN Operations,
           NEW next \in k + 1 .. Len(Operations) + 1,
           \A j \in DOMAIN Operations :
              k + 1 <= j /\ j < next => ~ InBudget(Operations[j], product)
    PROVE  /\ ApplicableBefore(base, product, next) =
                 ApplicableBefore(base, product, k) \cup PairsAt(base, product, k)
           /\ ApplicableBefore(base, product, k) \cap PairsAt(base, product, k) = {}
<1>1. Len(Operations) \in Nat /\ DOMAIN Operations = 1 .. Len(Operations)
  BY OperationsTyped
<1>2. k \in Int /\ k < next /\ next \in Int
  BY <1>1
<1>3. ASSUME NEW pair \in (DOMAIN Operations) \X DictNodes
      PROVE  pair \in ApplicableBefore(base, product, next) <=>
                pair \in ApplicableBefore(base, product, k) \/ pair \in PairsAt(base, product, k)
  <2> DEFINE j == pair[1]
  <2>1. j \in DOMAIN Operations /\ j \in Int
    BY <1>1
  <2>2. pair \in PairsAt(base, product, k) <=> j = k /\ AppliesTo(base, product, j, pair[2])
    BY DEF PairsAt
  <2>3. pair \in ApplicableBefore(base, product, k) <=> j < k /\ AppliesTo(base, product, j, pair[2])
    BY DEF ApplicableBefore
  <2>4. pair \in ApplicableBefore(base, product, next) <=> j < next /\ AppliesTo(base, product, j, pair[2])
    BY DEF ApplicableBefore
  <2>5. AppliesTo(base, product, j, pair[2]) => InBudget(Operations[j], product)
    BY DEF AppliesTo
  <2> HIDE DEF j
  <2>6. AppliesTo(base, product, j, pair[2]) => (j < next <=> j < k \/ j = k)
    <3>1. CASE k + 1 <= j
      BY <3>1, <2>1, <2>5, <1>2
    <3>2. CASE ~ (k + 1 <= j)
      BY <3>2, <2>1, <1>2
    <3> QED BY <3>1, <3>2
  <2> QED BY <2>2, <2>3, <2>4, <2>6
<1>4. PairsAt(base, product, k) \subseteq (DOMAIN Operations) \X DictNodes
  BY DEF PairsAt
<1>5. /\ ApplicableBefore(base, product, k) \subseteq (DOMAIN Operations) \X DictNodes
      /\ ApplicableBefore(base, product, next) \subseteq (DOMAIN Operations) \X DictNodes
  BY DEF ApplicableBefore
<1>6. ApplicableBefore(base, product, next) =
         ApplicableBefore(base, product, k) \cup PairsAt(base, product, k)
  BY <1>3, <1>4, <1>5
<1>7. ApplicableBefore(base, product, k) \cap PairsAt(base, product, k) = {}
  BY <1>2 DEF ApplicableBefore, PairsAt
<1> QED BY <1>6, <1>7

(* The paths that the operation at k applies to.                           *)
Matching(paths, product, k) ==
    {i \in DOMAIN paths : /\ paths[i].width = Operations[k].x /\ paths[i].done
                          /\ operation_applies(Operations[k], paths[i].out,
                                               Segment(product.pos, Operations[k].y))}

(* The pair that a path stands for.                                        *)
PairOf(base, paths, k, i) == <<k, base \o paths[i].out>>

(* A path stands for one pair, and each pair has its path.                 *)
LEMMA MatchingPairs ==
    ASSUME NEW base \in DictNodes, NEW product, NEW k \in DOMAIN Operations,
           InBudget(Operations[k], product),
           NEW paths \in Seq(FoundPaths), NEW w, EnumerationOK(<<>>, paths, base, w),
           \A i \in DOMAIN paths : base \o paths[i].out \in DictNodes,
           \E i \in DOMAIN paths : paths[i].width = Operations[k].x
    PROVE  /\ IsFiniteSet(Matching(paths, product, k))
           /\ IsFiniteSet(PairsAt(base, product, k))
           /\ Cardinality(PairsAt(base, product, k)) = Cardinality(Matching(paths, product, k))
           /\ \A i \in Matching(paths, product, k) :
                 PairOf(base, paths, k, i) \in PairsAt(base, product, k)
           /\ \A pair \in PairsAt(base, product, k) :
                 \E i \in Matching(paths, product, k) : PairOf(base, paths, k, i) = pair
<1> DEFINE S == Matching(paths, product, k)
           T == PairsAt(base, product, k)
           f == [i \in S |-> <<k, base \o paths[i].out>>]
           x == Operations[k].x
           Applies(out) == operation_applies(Operations[k], out, Segment(product.pos, Operations[k].y))
<1>1. base \in Text /\ Len(base) \in Nat /\ x \in Nat
  BY PathShape, OperationsTyped
<1>2. \A i \in DOMAIN paths :
         /\ paths[i].out \in Text /\ Len(paths[i].out) \in Nat
         /\ Len(base \o paths[i].out) = Len(base) + Len(paths[i].out)
         /\ IsBelow(base, base \o paths[i].out)
         /\ SubSeq(base \o paths[i].out, Len(base) + 1, Len(base \o paths[i].out)) = paths[i].out
  <2> TAKE i \in DOMAIN paths
  <2>1. paths[i].out \in Text
    BY PathFields
  <2>2. Len(paths[i].out) \in Nat
    BY <2>1 DEF Text
  <2> QED BY <2>1, <2>2, <1>1, BelowSuffix
<1>3. \A i \in S : i \in DOMAIN paths /\ paths[i].done /\ paths[i].width = x /\ Applies(paths[i].out)
  BY DEF Matching
<1>4. \A i \in DOMAIN paths : paths[i].done /\ paths[i].width = x /\ Applies(paths[i].out) => i \in S
  BY DEF Matching
<1>5. \A i \in DOMAIN paths : paths[i].done => Len(paths[i].out) = paths[i].width
  BY DEF EnumerationOK
<1>6. \A pair : pair \in T <=> /\ pair \in {k} \X DictNodes
                               /\ pair[2] \in NodesBelow(base, x)
                               /\ Applies(SubSeq(pair[2], Len(base) + 1, Len(pair[2])))
  BY DEF PairsAt, AppliesTo
<1> HIDE DEF S, T, x, Applies
<1>7. ASSUME NEW i \in S PROVE f[i] \in T
  <2> DEFINE m == base \o paths[i].out
  <2>1. f[i] = <<k, m>> /\ m \in DictNodes /\ i \in DOMAIN paths
    BY <1>3
  <2>2. Len(m) = Len(base) + x /\ IsBelow(base, m)
    BY <1>2, <1>3, <1>5
  <2>3. Applies(SubSeq(m, Len(base) + 1, Len(m)))
    BY <1>2, <1>3
  <2> HIDE DEF m
  <2>4. m \in NodesBelow(base, x)
    BY <2>1, <2>2 DEF NodesBelow
  <2> QED BY <2>1, <2>3, <2>4, <1>6
<1>8. ASSUME NEW i \in S, NEW j \in S, f[i] = f[j] PROVE i = j
  <2>1. base \o paths[i].out = base \o paths[j].out
    BY <1>8
  <2>2. paths[i].out = paths[j].out
    BY <2>1, <1>2, <1>3
  <2> QED BY <2>2, <1>3 DEF EnumerationOK
<1>9. ASSUME NEW pair \in T PROVE \E i \in S : f[i] = pair
  <2>1. PICK m \in DictNodes : pair = <<k, m>>
    BY <1>6
  <2>2. m \in NodesBelow(base, x) /\ Applies(SubSeq(m, Len(base) + 1, Len(m)))
    BY <2>1, <1>6
  <2>3. PICK i \in DOMAIN paths : LeadsTo(paths[i], base, m)
    BY <2>2, EnumerationIdle DEF x
  <2>4. paths[i].done /\ base \o paths[i].out = m
    BY <2>3 DEF LeadsTo
  <2>5. Len(m) = Len(base) + x
    BY <2>2 DEF NodesBelow
  <2>6. Len(m) = Len(base) + Len(paths[i].out) /\ Len(paths[i].out) = paths[i].width
        /\ SubSeq(m, Len(base) + 1, Len(m)) = paths[i].out /\ Len(paths[i].out) \in Nat
    BY <2>4, <1>2, <1>5
  <2>7. paths[i].width = x
    BY <2>5, <2>6, <1>1, SMTT(30)
  <2>8. i \in S
    <3>1. Applies(paths[i].out)
      BY <2>2, <2>6
    <3> QED BY <3>1, <2>4, <2>7, <1>4
  <2> QED BY <2>1, <2>4, <2>8
<1>10. IsFiniteSet(S)
  <2>1. Len(paths) \in Nat /\ S \subseteq 1 .. Len(paths)
    BY <1>3
  <2> QED BY <2>1, UptoFinite
<1>11. f \in Bijection(S, T)
  <2>1. f \in [S -> T]
    BY <1>7
  <2> HIDE DEF f
  <2>2. f \in Injection(S, T)
    BY <2>1, <1>8 DEF Injection, IsInjective
  <2>3. f \in Surjection(S, T)
    BY <2>1, <1>9 DEF Surjection
  <2> QED BY <2>2, <2>3 DEF Bijection
<1>12. \A i \in S : f[i] = PairOf(base, paths, k, i)
  BY DEF PairOf
<1> HIDE DEF f
<1>13. IsFiniteSet(T) /\ Cardinality(T) = Cardinality(S)
  BY <1>10, <1>11, FS_Bijection DEF ExistsBijection
<1>14. /\ \A i \in S : PairOf(base, paths, k, i) \in T
       /\ \A pair \in T : \E i \in S : PairOf(base, paths, k, i) = pair
  BY <1>7, <1>9, <1>12
<1> QED BY <1>10, <1>13, <1>14 DEF S, T

(* The arc that an operation makes of a path.                              *)
ArcOf(path, product, k) ==
    [ref |-> path.ref, output |-> path.out,
     input |-> Segment(product.pos, Operations[k].y), pos |-> product.pos + Operations[k].y,
     cost |-> product.cost + Operations[k].w, weight |-> Operations[k].w]

(* The operation applies to the paths, of which none is missing.           *)
CanApply(base, paths, product, k, w) ==
    /\ InBudget(Operations[k], product)
    /\ EnumerationOK(<<>>, paths, base, w)
    /\ \A i \in DOMAIN paths : base \o paths[i].out \in DictNodes
    /\ \E i \in DOMAIN paths : paths[i].width = Operations[k].x

(* The operations from k + 1 on cannot be paid for before next.            *)
NextAffordable(product, k, next) ==
    /\ next \in k + 1 .. Len(Operations) + 1
    /\ \A j \in DOMAIN Operations :
          k + 1 <= j /\ j < next => ~ InBudget(Operations[j], product)

(* The arcs of the operation, in the order of the paths.                   *)
MadeFrom(extra, paths, product, k) ==
    LET chosen == InOrder(Matching(paths, product, k))
    IN  /\ DOMAIN extra = DOMAIN chosen
        /\ \A j \in DOMAIN chosen : extra[j] = ArcOf(paths[chosen[j]], product, k)

(* What an operation appends are the arcs of its pairs.                    *)
LEMMA ArcsGrow ==
    ASSUME NEW base \in DictNodes, NEW product, NEW k \in DOMAIN Operations,
           NEW paths \in Seq(FoundPaths), NEW w, CanApply(base, paths, product, k, w),
           NEW next, NextAffordable(product, k, next),
           NEW arcs \in Seq(Arcs), ArcsOK(arcs, base, product, k),
           NEW extra \in Seq(Arcs), MadeFrom(extra, paths, product, k)
    PROVE  ArcsOK(arcs \o extra, base, product, next)
<1> DEFINE chosen == InOrder(Matching(paths, product, k))
<1>a. /\ InBudget(Operations[k], product)
      /\ EnumerationOK(<<>>, paths, base, w)
      /\ \A i \in DOMAIN paths : base \o paths[i].out \in DictNodes
      /\ \E i \in DOMAIN paths : paths[i].width = Operations[k].x
  BY DEF CanApply
<1>b. /\ next \in k + 1 .. Len(Operations) + 1
      /\ \A j \in DOMAIN Operations :
            k + 1 <= j /\ j < next => ~ InBudget(Operations[j], product)
  BY DEF NextAffordable
<1>c. /\ chosen = InOrder(Matching(paths, product, k))
      /\ DOMAIN extra = DOMAIN chosen
      /\ \A j \in DOMAIN chosen : extra[j] = ArcOf(paths[chosen[j]], product, k)
  BY DEF MadeFrom
<1> HIDE DEF chosen
<1> DEFINE S == Matching(paths, product, k)
           T == PairsAt(base, product, k)
           P == ApplicableBefore(base, product, k)
           Q == ApplicableBefore(base, product, next)
           f(i) == PairOf(base, paths, k, i)
           all == arcs \o extra
<1>1. /\ IsFiniteSet(S) /\ IsFiniteSet(T) /\ Cardinality(T) = Cardinality(S)
      /\ \A i \in S : f(i) \in T
      /\ \A pair \in T : \E i \in S : f(i) = pair
  BY <1>a, MatchingPairs
<1>2. Q = P \cup T /\ P \cap T = {}
  BY <1>b, NextPairs
<1>3. /\ IsFiniteSet(P) /\ Cardinality(P) = Len(arcs)
      /\ {ArcOutcome(base, arcs[i]) : i \in DOMAIN arcs} = {Outcome(base, product, pair) : pair \in P}
  BY DEF ArcsOK
<1>4. Len(paths) \in Nat /\ S \subseteq 1 .. Len(paths) /\ \A i \in S : i \in DOMAIN paths
  BY DEF Matching
<1> HIDE DEF S, T, P, Q
<1>5. chosen \in Seq(S) /\ Len(chosen) = Cardinality(S)
  BY <1>4, <1>c, InOrderTyped DEF S
<1>6. \A i \in S : \E j \in DOMAIN chosen : chosen[j] = i
  BY <1>4, <1>c, InOrderCovers DEF S
<1>7. Len(extra) = Cardinality(S) /\ DOMAIN extra = DOMAIN chosen
  BY <1>5, <1>c
<1>8. IsFiniteSet(Q) /\ Cardinality(Q) = Len(arcs) + Len(extra)
  <2>1. Cardinality(P \cap T) = 0
    BY <1>2, FS_EmptySet
  <2>2. /\ IsFiniteSet(P \cup T)
        /\ Cardinality(P \cup T) = Cardinality(P) + Cardinality(T) - Cardinality(P \cap T)
    BY <1>1, <1>3, FS_Union
  <2>3. Cardinality(P) \in Nat /\ Cardinality(T) \in Nat
    BY <1>1, <1>3, FS_CardinalityType
  <2> QED BY <2>1, <2>2, <2>3, <1>1, <1>2, <1>3, <1>7
<1>9. /\ all \in Seq(Arcs) /\ Len(all) = Len(arcs) + Len(extra)
      /\ \A i \in 1 .. Len(arcs) : all[i] = arcs[i]
      /\ \A i \in 1 .. Len(extra) : all[Len(arcs) + i] = extra[i]
  BY ConcatShape
<1>10. /\ Len(arcs) \in Nat /\ Len(extra) \in Nat
       /\ DOMAIN arcs = 1 .. Len(arcs) /\ DOMAIN extra = 1 .. Len(extra)
       /\ DOMAIN all = 1 .. Len(arcs) + Len(extra)
  BY <1>9
<1> HIDE DEF all
<1>11. \A i \in DOMAIN all : \/ i \in DOMAIN arcs /\ all[i] = arcs[i]
                             \/ i - Len(arcs) \in DOMAIN extra /\ all[i] = extra[i - Len(arcs)]
  <2> TAKE i \in DOMAIN all
  <2>1. CASE i <= Len(arcs)
    BY <2>1, <1>9, <1>10
  <2>2. CASE ~ (i <= Len(arcs))
    <3>1. i - Len(arcs) \in 1 .. Len(extra) /\ Len(arcs) + (i - Len(arcs)) = i
      BY <2>2, <1>10
    <3> QED BY <3>1, <1>9, <1>10
  <2> QED BY <2>1, <2>2
<1>12. ASSUME NEW j \in DOMAIN extra
       PROVE  /\ chosen[j] \in S
              /\ ArcOutcome(base, extra[j]) = Outcome(base, product, f(chosen[j]))
  <2> DEFINE i == chosen[j]
             out == paths[i].out
             m == base \o out
  <2>1. i \in S
    BY <1>5, <1>7
  <2> HIDE DEF i
  <2>2. out \in Text /\ base \in Text
    BY <2>1, <1>4, PathFields, PathShape
  <2>3. SubSeq(m, Len(base) + 1, Len(m)) = out
    BY <2>2, BelowSuffix
  <2>4. f(i) = <<k, m>>
    BY DEF PairOf
  <2> HIDE DEF m, f
  <2>5. f(i)[1] = k /\ f(i)[2] = m
    BY <2>4
  <2>6. ArcOutcome(base, extra[j]) = Outcome(base, product, f(i))
    <3>1. extra[j] = ArcOf(paths[i], product, k)
      BY <1>c DEF i
    <3>2. ArcOutcome(base, extra[j]) =
             [input |-> Segment(product.pos, Operations[k].y), output |-> out,
              weight |-> Operations[k].w, node |-> m,
              pos |-> product.pos + Operations[k].y, cost |-> product.cost + Operations[k].w]
      BY <3>1 DEF ArcOutcome, ArcOf, m
    <3> HIDE DEF out
    <3> QED BY <3>2, <2>3, <2>5 DEF Outcome
  <2> QED BY <2>1, <2>6 DEF i
<1>13. ASSUME NEW i \in DOMAIN all
       PROVE  \E pair \in Q : ArcOutcome(base, all[i]) = Outcome(base, product, pair)
  <2>1. CASE i \in DOMAIN arcs /\ all[i] = arcs[i]
    <3>1. ArcOutcome(base, arcs[i]) \in {Outcome(base, product, pair) : pair \in P}
      BY <2>1, <1>3
    <3> QED BY <3>1, <2>1, <1>2
  <2>2. CASE i - Len(arcs) \in DOMAIN extra /\ all[i] = extra[i - Len(arcs)]
    <3> DEFINE j == i - Len(arcs)
    <3> HIDE DEF j, f
    <3>1. chosen[j] \in S /\ ArcOutcome(base, all[i]) = Outcome(base, product, f(chosen[j]))
      BY <2>2, <1>12 DEF j
    <3> QED BY <3>1, <1>1, <1>2
  <2> QED BY <2>1, <2>2, <1>11
<1>14. ASSUME NEW pair \in Q
       PROVE  \E i \in DOMAIN all : ArcOutcome(base, all[i]) = Outcome(base, product, pair)
  <2>1. CASE pair \in P
    <3>1. Outcome(base, product, pair) \in {ArcOutcome(base, arcs[i]) : i \in DOMAIN arcs}
      BY <2>1, <1>3
    <3>2. \A i \in DOMAIN arcs : i \in DOMAIN all /\ all[i] = arcs[i]
      BY <1>9, <1>10
    <3> QED BY <3>1, <3>2
  <2>2. CASE pair \in T
    <3> HIDE DEF f
    <3>1. PICK i \in S : f(i) = pair
      BY <2>2, <1>1
    <3>2. PICK j \in DOMAIN chosen : chosen[j] = i
      BY <1>6
    <3>3. ArcOutcome(base, extra[j]) = Outcome(base, product, pair)
      BY <3>1, <3>2, <1>7, <1>12
    <3>4. Len(arcs) + j \in DOMAIN all /\ all[Len(arcs) + j] = extra[j]
      BY <3>2, <1>7, <1>9, <1>10
    <3> QED BY <3>3, <3>4
  <2> QED BY <2>1, <2>2, <1>2
<1>15. {ArcOutcome(base, all[i]) : i \in DOMAIN all} = {Outcome(base, product, pair) : pair \in Q}
  BY <1>13, <1>14
<1> QED BY <1>8, <1>9, <1>15 DEF ArcsOK, Q, all

(* Before the first affordable operation there is nothing.                 *)
LEMMA NoArcs ==
    ASSUME NEW base, NEW product, NEW next,
           \A j \in DOMAIN Operations : j < next => ~ InBudget(Operations[j], product)
    PROVE  ArcsOK(<<>>, base, product, next)
<1>1. ApplicableBefore(base, product, next) = {}
  BY DEF ApplicableBefore, AppliesTo
<1> QED BY <1>1, FS_EmptySet DEF ArcsOK

----------------------------------------------------------------------------
(* The order of the walk                                                   *)

(* The walk never comes to m before n and to n before m.                   *)
LEMMA BeforeAsymmetric ==
    ASSUME NEW m \in DictNodes, NEW n \in DictNodes, ComesBefore(m, n), ComesBefore(n, m)
    PROVE  FALSE
<1>1. PICK p \in DictNodes :
        /\ IsBelow(p, m) /\ Len(p) < Len(m)
        /\ IsBelow(p, n) /\ Len(p) < Len(n)
        /\ \E i, j \in DOMAIN Edges(p) : /\ i < j
                                         /\ Edges(p)[i] = m[Len(p) + 1]
                                         /\ Edges(p)[j] = n[Len(p) + 1]
  BY DEF ComesBefore
<1>2. PICK q \in DictNodes :
        /\ IsBelow(q, n) /\ Len(q) < Len(n)
        /\ IsBelow(q, m) /\ Len(q) < Len(m)
        /\ \E i, j \in DOMAIN Edges(q) : /\ i < j
                                         /\ Edges(q)[i] = n[Len(q) + 1]
                                         /\ Edges(q)[j] = m[Len(q) + 1]
  BY DEF ComesBefore
<1>3. PICK i \in DOMAIN Edges(p), j \in DOMAIN Edges(p) :
         i < j /\ Edges(p)[i] = m[Len(p) + 1] /\ Edges(p)[j] = n[Len(p) + 1]
  BY <1>1
<1>4. PICK k \in DOMAIN Edges(q), l \in DOMAIN Edges(q) :
         k < l /\ Edges(q)[k] = n[Len(q) + 1] /\ Edges(q)[l] = m[Len(q) + 1]
  BY <1>2
<1>5. /\ p \in Text /\ q \in Text /\ m \in Text /\ n \in Text
      /\ Len(p) \in Nat /\ Len(q) \in Nat
  BY PathShape
<1>6. /\ DOMAIN Edges(p) \subseteq Int /\ DOMAIN Edges(q) \subseteq Int
      /\ \A a, b \in DOMAIN Edges(p) : Edges(p)[a] = Edges(p)[b] => a = b
      /\ \A a, b \in DOMAIN Edges(q) : Edges(q)[a] = Edges(q)[b] => a = b
  <2>1. Edges(p) \in Seq(Labels) /\ Edges(q) \in Seq(Labels)
    BY DictionaryAssumption
  <2> QED BY <2>1, DictionaryAssumption
<1>7. CASE Len(p) < Len(q)
  <2>1. Len(p) + 1 \in 1 .. Len(q)
    BY <1>5, <1>7
  <2>2. m[Len(p) + 1] = n[Len(p) + 1]
    BY <2>1, <1>2 DEF IsBelow
  <2>3. i = j
    BY <2>2, <1>3, <1>6
  <2> QED BY <2>3, <1>3, <1>6
<1>8. CASE Len(q) < Len(p)
  <2>1. Len(q) + 1 \in 1 .. Len(p)
    BY <1>5, <1>8
  <2>2. m[Len(q) + 1] = n[Len(q) + 1]
    BY <2>1, <1>1 DEF IsBelow
  <2>3. k = l
    BY <2>2, <1>4, <1>6
  <2> QED BY <2>3, <1>4, <1>6
<1>9. CASE Len(p) = Len(q)
  <2>1. IsBelow(p, q)
    BY <1>1, <1>2, <1>5, <1>9, BelowOrder
  <2>2. p = q
    BY <2>1, <1>5, <1>9, BelowOrder
  <2>3. i = l /\ j = k
    BY <2>2, <1>3, <1>4, <1>6
  <2> QED BY <2>3, <1>3, <1>4, <1>6
<1> QED BY <1>5, <1>7, <1>8, <1>9

(* A node that the frame has visited comes before one it has not.          *)
LEMMA TurnOrder ==
    ASSUME NEW frame \in Frames, InTurn(frame), NEW m \in DictNodes, NEW n \in DictNodes,
           IsBelow(frame.node, m), Len(frame.node) < Len(m), ~ Pending(frame, m),
           Pending(frame, n)
    PROVE  ComesBefore(m, n)
<1> DEFINE p == frame.node
           edges == Edges(p)
           left == Len(frame.todo)
           gone == Len(edges) - left
<1>1. p \in DictNodes /\ frame.todo \in Seq(Labels)
  BY DEF Frames, Text
<1>2. edges \in Seq(Labels)
  BY <1>1, DictionaryAssumption
<1>3. /\ left \in Nat /\ Len(edges) \in Nat /\ DOMAIN edges = 1 .. Len(edges)
      /\ DOMAIN frame.todo = 1 .. left
  BY <1>1, <1>2
<1>4. left <= Len(edges) /\ \A j \in 1 .. left : frame.todo[j] = edges[gone + j]
  BY <1>3 DEF InTurn
<1>5. PICK i \in DOMAIN edges : edges[i] = m[Len(p) + 1]
  BY <1>1, EdgeListed
<1>6. PICK k \in 1 .. left : frame.todo[k] = n[Len(p) + 1]
  BY <1>3 DEF Pending
<1>7. \A j \in 1 .. left : frame.todo[j] # m[Len(p) + 1]
  BY <1>3 DEF Pending
<1>8. IsBelow(p, n) /\ Len(p) < Len(n)
  BY DEF Pending
<1> HIDE DEF edges, left
<1>9. gone \in Nat /\ gone + k \in DOMAIN edges /\ gone < gone + k
  BY <1>3, <1>4, <1>6
<1>10. i <= gone
  <2>1. ASSUME ~ (i <= gone) PROVE FALSE
    <3>1. i - gone \in 1 .. left /\ gone + (i - gone) = i
      BY <2>1, <1>3, <1>9
    <3> QED BY <3>1, <1>4, <1>5, <1>7
  <2> QED BY <2>1
<1>11. i < gone + k
  BY <1>3, <1>9, <1>10
<1>12. edges[gone + k] = n[Len(p) + 1]
  BY <1>4, <1>6
<1> HIDE DEF gone
<1> QED BY <1>1, <1>5, <1>8, <1>9, <1>11, <1>12 DEF ComesBefore, edges

(* The two orders of pairs exclude each other.                             *)
LEMMA PairAsymmetric ==
    ASSUME NEW a \in Pairs, NEW b \in Pairs, PairBefore(a, b), PairBefore(b, a)
    PROVE  FALSE
<1>1. a[1] \in Int /\ b[1] \in Int /\ a[2] \in DictNodes /\ b[2] \in DictNodes
  BY OperationsTyped DEF Pairs
<1> DEFINE x == a[1]
           y == b[1]
<1> HIDE DEF x, y
<1>2. (x < y \/ (x = y /\ ComesBefore(a[2], b[2]))) /\ (y < x \/ (y = x /\ ComesBefore(b[2], a[2])))
  BY DEF PairBefore, x, y
<1>3. x \in Int /\ y \in Int
  BY <1>1 DEF x, y
<1>4. ComesBefore(a[2], b[2]) /\ ComesBefore(b[2], a[2])
  BY <1>2, <1>3
<1> QED BY <1>1, <1>4, BeforeAsymmetric

(* A listing that agrees with another up to k agrees with it at k.         *)
LEMMA ListingAgrees ==
    ASSUME NEW a \in Seq(Pairs), NEW b \in Seq(Pairs), NEW pairs,
           Listing(a, pairs), Listing(b, pairs), NEW k \in DOMAIN a,
           \A j \in 1 .. k - 1 : j \in DOMAIN b /\ a[j] = b[j]
    PROVE  k \in DOMAIN b /\ a[k] = b[k]
<1>1. /\ Len(a) \in Nat /\ Len(b) \in Nat /\ DOMAIN a = 1 .. Len(a) /\ DOMAIN b = 1 .. Len(b)
      /\ \A i \in DOMAIN a : a[i] \in Pairs
      /\ \A i \in DOMAIN b : b[i] \in Pairs
  OBVIOUS
<1>2. /\ \A i \in DOMAIN a : \E j \in DOMAIN b : b[j] = a[i]
      /\ \A j \in DOMAIN b : \E i \in DOMAIN a : a[i] = b[j]
  BY DEF Listing
<1>3. /\ \A i, j \in DOMAIN a : i < j => PairBefore(a[i], a[j])
      /\ \A i, j \in DOMAIN b : i < j => PairBefore(b[i], b[j])
  BY DEF Listing
<1>4. /\ \A i, j \in DOMAIN a : i < j => a[i] # a[j]
      /\ \A i, j \in DOMAIN b : i < j => b[i] # b[j]
  BY <1>1, <1>3, PairAsymmetric
<1>5. PICK j \in DOMAIN b : b[j] = a[k]
  BY <1>2
<1>6. ~ (j < k)
  <2>1. ASSUME j < k PROVE FALSE
    <3>1. j \in 1 .. k - 1 /\ j \in DOMAIN a
      BY <2>1, <1>1
    <3>2. a[j] = a[k]
      BY <3>1, <1>5
    <3> QED BY <3>1, <3>2, <2>1, <1>4
  <2> QED BY <2>1
<1>7. ~ (k < j)
  <2>1. ASSUME k < j PROVE FALSE
    <3>1. k \in DOMAIN b
      BY <2>1, <1>1
    <3>2. PICK i \in DOMAIN a : a[i] = b[k]
      BY <3>1, <1>2
    <3>3. ~ (i < k)
      <4>1. ASSUME i < k PROVE FALSE
        <5>1. i \in 1 .. k - 1 /\ i \in DOMAIN b
          BY <4>1, <1>1
        <5>2. b[i] = b[k]
          BY <5>1, <3>2
        <5> QED BY <5>1, <5>2, <4>1, <3>1, <1>4
      <4> QED BY <4>1
    <3>4. i # k
      BY <3>1, <3>2, <2>1, <1>4, <1>5
    <3>5. k < i
      BY <3>3, <3>4, <1>1
    <3>6. PairBefore(a[k], a[i]) /\ PairBefore(b[k], b[j])
      BY <3>1, <3>5, <2>1, <1>3
    <3>7. PairBefore(a[k], b[k]) /\ PairBefore(b[k], a[k])
      BY <3>2, <3>6, <1>5
    <3> QED BY <3>1, <3>7, <1>1, PairAsymmetric
  <2> QED BY <2>1
<1>8. j = k
  BY <1>1, <1>6, <1>7
<1> QED BY <1>5, <1>8

(* There is one listing of a set of pairs.                                 *)
LEMMA ListingUnique ==
    ASSUME NEW a \in Seq(Pairs), NEW b \in Seq(Pairs), NEW pairs,
           Listing(a, pairs), Listing(b, pairs)
    PROVE  a = b
<1> DEFINE Agree(k) == k \in DOMAIN a /\ k \in DOMAIN b /\ a[k] = b[k]
           bad == {k \in Nat : (k \in DOMAIN a \/ k \in DOMAIN b) /\ ~ Agree(k)}
<1>1. /\ Len(a) \in Nat /\ Len(b) \in Nat /\ DOMAIN a = 1 .. Len(a) /\ DOMAIN b = 1 .. Len(b)
  OBVIOUS
<1>2. bad = {}
  <2>1. ASSUME bad # {} PROVE FALSE
    <3>1. PICK k \in bad : \A j \in bad : k <= j
      <4>1. bad \subseteq Nat
        OBVIOUS
      <4> HIDE DEF bad
      <4> QED BY <4>1, <2>1, LeastElement
    <3>2. k \in Nat /\ (k \in DOMAIN a \/ k \in DOMAIN b) /\ ~ Agree(k)
      OBVIOUS
    <3>3. ASSUME NEW j \in 1 .. k - 1 PROVE j \in DOMAIN a /\ j \in DOMAIN b /\ a[j] = b[j]
      <4>1. j \in Nat /\ j < k /\ (j \in DOMAIN a \/ j \in DOMAIN b)
        BY <3>2, <1>1
      <4>2. j \notin bad
        BY <4>1, <3>1, <3>2
      <4> QED BY <4>1, <4>2
    <3>4. CASE k \in DOMAIN a
      BY <3>2, <3>3, <3>4, ListingAgrees
    <3>5. CASE k \in DOMAIN b
      <4>1. \A j \in 1 .. k - 1 : j \in DOMAIN a /\ b[j] = a[j]
        BY <3>3
      <4>2. k \in DOMAIN a /\ b[k] = a[k]
        BY <4>1, <3>5, ListingAgrees
      <4> QED BY <4>2, <3>2, <3>5
    <3> QED BY <3>2, <3>4, <3>5
  <2> QED BY <2>1
<1>3. \A k \in DOMAIN a : k \in DOMAIN b /\ a[k] = b[k]
  BY <1>1, <1>2
<1>4. \A k \in DOMAIN b : k \in DOMAIN a
  BY <1>1, <1>2
<1>5. Len(a) = Len(b)
  <2>1. ~ (Len(a) < Len(b))
    <3>1. Len(a) < Len(b) => Len(b) \in DOMAIN b /\ Len(b) \notin DOMAIN a
      BY <1>1
    <3> QED BY <3>1, <1>4
  <2>2. ~ (Len(b) < Len(a))
    <3>1. Len(b) < Len(a) => Len(a) \in DOMAIN a /\ Len(a) \notin DOMAIN b
      BY <1>1
    <3> QED BY <3>1, <1>3
  <2> DEFINE x == Len(a)
             y == Len(b)
  <2> HIDE DEF x, y
  <2>3. x \in Nat /\ y \in Nat /\ ~ (x < y) /\ ~ (y < x)
    BY <2>1, <2>2, <1>1 DEF x, y
  <2>4. x = y
    BY <2>3
  <2> QED BY <2>4 DEF x, y
<1> QED BY <1>1, <1>3, <1>5, SeqEqual

----------------------------------------------------------------------------
(* The walk keeps its order                                                *)

(* Frames with nothing to visit may be dropped.                            *)
LEMMA PruneOrdered ==
    ASSUME NEW stack \in Seq(Frames), NEW paths, NEW base, NEW current,
           WalkOrdered(stack, paths, base, current)
    PROVE  WalkOrdered(Unfinished(stack), paths, base, current)
<1> DEFINE left == Unfinished(stack)
<1>1. PICK d \in 0 .. Len(stack) : left = SubSeq(stack, 1, d)
  BY UnfinishedResult
<1>2. /\ Len(stack) \in Nat /\ DOMAIN stack = 1 .. Len(stack)
      /\ DOMAIN left = 1 .. d /\ \A e \in 1 .. d : left[e] = stack[e]
  BY <1>1
<1> HIDE DEF left
<1>3. \A e \in DOMAIN left : e \in DOMAIN stack /\ left[e] = stack[e]
  BY <1>2
<1>4. WalkOrdered(left, paths, base, current)
  BY <1>3 DEF WalkOrdered
<1> QED BY <1>4 DEF left

(* A frame that moves on keeps its turn.                                   *)
LEMMA AdvancedInTurn ==
    ASSUME NEW f \in Frames, NEW g \in Frames, g.node = f.node,
           f.todo # <<>>, g.todo = Tail(f.todo), InTurn(f)
    PROVE  InTurn(g)
<1> DEFINE edges == Edges(f.node)
           n == Len(f.todo)
<1>1. f.node \in DictNodes /\ f.todo \in Seq(Labels)
  BY DEF Frames, Text
<1>2. edges \in Seq(Labels)
  BY <1>1, DictionaryAssumption
<1>3. /\ n \in Nat \ {0} /\ Len(edges) \in Nat /\ DOMAIN f.todo = 1 .. n
      /\ Len(g.todo) = n - 1 /\ DOMAIN g.todo = 1 .. n - 1
      /\ \A i \in 1 .. n - 1 : g.todo[i] = f.todo[i + 1]
  BY <1>1, <1>2
<1>4. n <= Len(edges) /\ \A j \in 1 .. n : f.todo[j] = edges[Len(edges) - n + j]
  BY <1>3 DEF InTurn
<1> HIDE DEF n, edges
<1>5. ASSUME NEW j \in 1 .. n - 1 PROVE g.todo[j] = edges[Len(edges) - (n - 1) + j]
  <2>1. j + 1 \in 1 .. n /\ Len(edges) - n + (j + 1) = Len(edges) - (n - 1) + j
    BY <1>3
  <2> QED BY <2>1, <1>3, <1>4
<1>6. n - 1 <= Len(edges)
  BY <1>3, <1>4
<1> QED BY <1>3, <1>5, <1>6 DEF InTurn, edges

(* What is to come after an edge was to come before it.                    *)
LEMMA AdvancedOrdered ==
    ASSUME NEW stack \in Seq(Frames), NEW rest \in Seq(Frames), NEW n \in Nat \ {0},
           NEW base \in DictNodes, StackOK(stack, base), Advanced(stack, rest, n),
           stack[n].todo # <<>>,
           NEW paths, NEW current, WalkOrdered(stack, paths, base, current)
    PROVE  WalkOrdered(rest, paths, base, current)
<1> DEFINE child == Append(stack[n].node, Head(stack[n].todo))
<1>1. \A m \in DictNodes : \A d \in 1 .. n : Pending(rest[d], m) => Pending(stack[d], m)
  <2>1. Behind(stack, rest, n, base, child)
    BY AdvancedOK
  <2> HIDE DEF child
  <2> QED BY <2>1 DEF Behind
<1>2. DOMAIN stack = 1 .. n /\ DOMAIN rest = 1 .. n /\ n \in 1 .. n
  BY DEF Advanced
<1>3. \A d \in 1 .. n : InTurn(stack[d])
  BY <1>2 DEF WalkOrdered
<1>4. ASSUME NEW d \in 1 .. n PROVE InTurn(rest[d])
  <2>1. CASE d = n
    <3>1. stack[n] \in Frames /\ rest[n] \in Frames
      BY <1>2
    <3> QED BY <2>1, <3>1, <1>2, <1>3, AdvancedInTurn DEF Advanced
  <2>2. CASE d # n
    <3>1. d \in 1 .. n - 1
      BY <2>2
    <3> QED BY <3>1, <1>3 DEF Advanced
  <2> QED BY <2>1, <2>2
<1> QED BY <1>1, <1>2, <1>4 DEF WalkOrdered

(* The child that is recorded comes after the others, before the rest.     *)
LEMMA RecordOrdered ==
    ASSUME NEW stack \in Seq(Frames), NEW rest \in Seq(Frames), NEW n \in Nat \ {0},
           NEW base \in DictNodes, StackOK(stack, base), Advanced(stack, rest, n),
           stack[n].todo # <<>>,
           NEW paths \in Seq(FoundPaths), WalkOrdered(stack, paths, base, n),
           NEW path \in FoundPaths, path.width = n, path.done,
           base \o path.out = Append(stack[n].node, Head(stack[n].todo))
    PROVE  WalkOrdered(rest, Append(paths, path), base, n)
<1> DEFINE child == Append(stack[n].node, Head(stack[n].todo))
           more == Append(paths, path)
           last == Len(paths) + 1
<1>1. /\ StackOK(rest, base) /\ child \in DictNodes /\ Len(child) = Len(base) + n
      /\ \A d \in 1 .. n : IsBelow(rest[d].node, child) /\ ~ Pending(rest[d], child)
      /\ \A m \in DictNodes : IsBelow(child, m) => Pending(stack[n], m)
  <2>1. Behind(stack, rest, n, base, child)
    BY AdvancedOK
  <2> HIDE DEF child
  <2> QED BY <2>1 DEF Behind
<1> HIDE DEF child
<1>2. /\ DOMAIN more = DOMAIN paths \cup {last}
      /\ \A i \in DOMAIN paths : more[i] = paths[i] /\ i # last /\ i < last
      /\ more[last] = path /\ last \in Nat /\ DOMAIN paths \subseteq Nat
  BY AppendShape
<1>a. WalkOrdered(rest, paths, base, n)
  BY AdvancedOrdered
<1> HIDE DEF more, last
<1>3. DOMAIN stack = 1 .. n /\ DOMAIN rest = 1 .. n /\ n \in 1 .. n
  BY DEF Advanced
<1>4. base \o path.out = child /\ Len(base) \in Nat /\ child \in Text
  BY <1>1, PathShape DEF child
<1>5. Pending(stack[n], child)
  BY <1>1, <1>4, BelowOrder
<1>6. \A i \in DOMAIN paths : paths[i].done /\ paths[i].width = n => ComesBefore(base \o paths[i].out, child)
  BY <1>1, <1>3, <1>5 DEF WalkOrdered
<1>7. ASSUME NEW i \in DOMAIN more, NEW j \in DOMAIN more, i < j, more[i].done, more[j].done,
             more[i].width = more[j].width
      PROVE  ComesBefore(base \o more[i].out, base \o more[j].out)
  <2>1. i \in DOMAIN paths
    BY <1>2, <1>7
  <2>2. CASE j = last
    BY <2>1, <2>2, <1>2, <1>4, <1>6, <1>7
  <2>3. CASE j # last
    BY <2>1, <2>3, <1>2, <1>7, <1>a DEF WalkOrdered
  <2> QED BY <2>2, <2>3
<1>8. ASSUME NEW i \in DOMAIN more, NEW d \in DOMAIN rest, NEW m \in DictNodes,
             more[i].done, more[i].width = n, Pending(rest[d], m)
      PROVE  ComesBefore(base \o more[i].out, m)
  <2>1. CASE i = last
    <3>1. rest[d] \in Frames /\ InTurn(rest[d])
      BY <1>a DEF WalkOrdered
    <3>2. IsBelow(rest[d].node, child) /\ ~ Pending(rest[d], child)
      BY <1>1, <1>3
    <3>3. Len(rest[d].node) < Len(child)
      <4>1. Len(rest[d].node) = Len(base) + d - 1 /\ d \in 1 .. n
        BY <1>1, <1>3 DEF StackOK
      <4> QED BY <4>1, <1>1, <1>4
    <3>4. ComesBefore(child, m)
      BY <3>1, <3>2, <3>3, <1>1, <1>8, TurnOrder
    <3> QED BY <3>4, <2>1, <1>2, <1>4
  <2>2. CASE i # last
    BY <2>2, <1>2, <1>8, <1>a DEF WalkOrdered
  <2> QED BY <2>1, <2>2
<1>9. \A d \in DOMAIN rest : InTurn(rest[d])
  BY <1>a DEF WalkOrdered
<1> QED BY <1>7, <1>8, <1>9 DEF WalkOrdered, more

(* The child's edges come where the child did.                             *)
LEMMA DescendOrdered ==
    ASSUME NEW stack \in Seq(Frames), NEW rest \in Seq(Frames), NEW n \in Nat \ {0},
           NEW base \in DictNodes, StackOK(stack, base), Advanced(stack, rest, n),
           stack[n].todo # <<>>,
           NEW current, NEW paths, WalkOrdered(stack, paths, base, current),
           NEW frame \in Frames, frame.node = Append(stack[n].node, Head(stack[n].todo)),
           frame.todo = Edges(frame.node)
    PROVE  WalkOrdered(Append(rest, frame), paths, base, current)
<1> DEFINE child == Append(stack[n].node, Head(stack[n].todo))
           frames == Append(rest, frame)
<1>1. child \in DictNodes /\ \A m \in DictNodes : IsBelow(child, m) => Pending(stack[n], m)
  <2>1. Behind(stack, rest, n, base, child)
    BY AdvancedOK
  <2> HIDE DEF child
  <2> QED BY <2>1 DEF Behind
<1>2. frame.node = child
  OBVIOUS
<1> HIDE DEF child
<1>3. DOMAIN stack = 1 .. n /\ DOMAIN rest = 1 .. n /\ Len(rest) = n /\ n \in 1 .. n
  BY DEF Advanced
<1>4. /\ DOMAIN frames = 1 .. n + 1
      /\ \A d \in 1 .. n : frames[d] = rest[d]
      /\ frames[n + 1] = frame
      /\ \A d \in 1 .. n + 1 : d = n + 1 \/ d \in 1 .. n
  BY <1>3, AppendShape
<1> HIDE DEF frames
<1>5. WalkOrdered(rest, paths, base, current)
  BY AdvancedOrdered
<1>6. InTurn(frame)
  <2> DEFINE e == Edges(frame.node)
  <2>1. e \in Seq(Labels)
    BY <1>1, <1>2, DictionaryAssumption
  <2>2. frame.todo = e
    OBVIOUS
  <2> HIDE DEF e
  <2>3. Len(e) <= Len(e) /\ \A j \in DOMAIN e : e[j] = e[Len(e) - Len(e) + j]
    BY <2>1
  <2> QED BY <2>2, <2>3 DEF InTurn, e
<1>7. ASSUME NEW d \in 1 .. n + 1 PROVE InTurn(frames[d])
  BY <1>3, <1>4, <1>5, <1>6 DEF WalkOrdered
<1>8. ASSUME NEW i \in DOMAIN paths, NEW d \in 1 .. n + 1, NEW m \in DictNodes,
             paths[i].done, paths[i].width = current, Pending(frames[d], m)
      PROVE  ComesBefore(base \o paths[i].out, m)
  <2>1. CASE d = n + 1
    <3>1. Pending(frame, m)
      BY <2>1, <1>4, <1>8
    <3>2. IsBelow(child, m)
      BY <3>1, <1>2 DEF Pending
    <3> QED BY <3>2, <1>1, <1>3, <1>8 DEF WalkOrdered
  <2>2. CASE d \in 1 .. n
    BY <2>2, <1>3, <1>4, <1>5, <1>8 DEF WalkOrdered
  <2> QED BY <2>1, <2>2, <1>4
<1>9. WalkOrdered(frames, paths, base, current)
  BY <1>4, <1>5, <1>7, <1>8 DEF WalkOrdered
<1> QED BY <1>9 DEF frames

(* Between two enumerations nothing is to come.                            *)
LEMMA OrderedIdle ==
    ASSUME NEW paths, NEW base, NEW w, NEW v, WalkOrdered(<<>>, paths, base, w)
    PROVE  WalkOrdered(<<>>, paths, base, v)
BY DEF WalkOrdered

(* A new width starts with its mark, and with the edges of the base.       *)
LEMMA OrderedStarts ==
    ASSUME NEW paths \in Seq(FoundPaths), NEW base \in DictNodes, NEW w,
           WalkOrdered(<<>>, paths, base, w),
           NEW width, \A i \in DOMAIN paths : paths[i].width # width,
           NEW mark \in FoundPaths, mark.width = width
    PROVE  /\ WalkOrdered(<<>>, Append(paths, mark), base, width)
           /\ \A frame \in Frames :
                 ~ mark.done /\ frame.node = base /\ frame.todo = Edges(base) =>
                     WalkOrdered(<<frame>>, Append(paths, mark), base, width)
<1> DEFINE more == Append(paths, mark)
           last == Len(paths) + 1
<1>1. /\ DOMAIN more = DOMAIN paths \cup {last}
      /\ \A i \in DOMAIN paths : more[i] = paths[i] /\ i # last /\ i < last
      /\ more[last] = mark /\ last \in Nat /\ DOMAIN paths \subseteq Nat
  BY AppendShape
<1> HIDE DEF more, last
<1>2. ASSUME NEW i \in DOMAIN more, NEW j \in DOMAIN more, i < j, more[i].done, more[j].done,
             more[i].width = more[j].width
      PROVE  ComesBefore(base \o more[i].out, base \o more[j].out)
  <2>1. i \in DOMAIN paths
    BY <1>1, <1>2
  <2>2. j # last
    BY <2>1, <1>1, <1>2
  <2> QED BY <2>1, <2>2, <1>1, <1>2 DEF WalkOrdered
<1>3. WalkOrdered(<<>>, more, base, width)
  BY <1>2 DEF WalkOrdered
<1>4. ASSUME NEW frame \in Frames, ~ mark.done, frame.node = base, frame.todo = Edges(base)
      PROVE  WalkOrdered(<<frame>>, more, base, width)
  <2> DEFINE stack == <<frame>>
             e == Edges(base)
  <2>1. DOMAIN stack = {1} /\ stack[1] = frame
    OBVIOUS
  <2>2. e \in Seq(Labels)
    BY DictionaryAssumption
  <2>3. frame.todo = e /\ Edges(frame.node) = e
    BY <1>4
  <2> HIDE DEF e, stack
  <2>4. Len(e) <= Len(e) /\ \A j \in DOMAIN e : e[j] = e[Len(e) - Len(e) + j]
    BY <2>2
  <2>5. InTurn(frame)
    BY <2>3, <2>4 DEF InTurn
  <2>6. \A i \in DOMAIN more : more[i].done => more[i].width # width
    BY <1>1, <1>4
  <2>7. WalkOrdered(stack, more, base, width)
    BY <2>1, <2>5, <2>6, <1>2 DEF WalkOrdered
  <2> QED BY <2>7 DEF stack
<1> QED BY <1>3, <1>4 DEF more

----------------------------------------------------------------------------
(* The arcs are listed in order                                            *)

(* InOrder lists a set of numbers by size.                                 *)
LEMMA InOrderIncreases ==
    ASSUME NEW n \in Nat, NEW S, S \subseteq 1 .. n,
           NEW j \in DOMAIN InOrder(S), NEW k \in DOMAIN InOrder(S), j < k
    PROVE  InOrder(S)[j] < InOrder(S)[k]
<1> DEFINE x == InOrder(S)[j]
           y == InOrder(S)[k]
<1>1. /\ x \in S /\ y \in S /\ Cardinality(Upto(S, x)) = j /\ Cardinality(Upto(S, y)) = k
      /\ j \in Nat /\ k \in Nat
  <2>1. /\ InOrder(S) \in Seq(S)
        /\ \A i \in DOMAIN InOrder(S) : Cardinality(Upto(S, InOrder(S)[i])) = i
    BY InOrderTyped
  <2>2. j \in Nat /\ k \in Nat /\ InOrder(S)[j] \in S /\ InOrder(S)[k] \in S
    BY <2>1
  <2> QED BY <2>1, <2>2
<1> HIDE DEF x, y
<1>2. x \in Int /\ y \in Int
  BY <1>1
<1>3. x # y
  BY <1>1
<1>4. ~ (y < x)
  <2>1. y < x => Cardinality(Upto(S, y)) < Cardinality(Upto(S, x))
    BY <1>1, UptoMonotone
  <2> QED BY <2>1, <1>1
<1>5. x < y
  BY <1>2, <1>3, <1>4
<1> QED BY <1>5 DEF x, y

(* Two listings, one after the other.                                      *)
LEMMA ListingsJoin ==
    ASSUME NEW a \in Seq(Pairs), NEW b \in Seq(Pairs), NEW P, NEW Q,
           Listing(a, P), Listing(b, Q), \A x \in P : \A y \in Q : PairBefore(x, y)
    PROVE  Listing(a \o b, P \cup Q)
<1> DEFINE all == a \o b
           n == Len(a)
<1>1. /\ Len(all) = n + Len(b) /\ all \in Seq(Pairs)
      /\ \A i \in 1 .. n : all[i] = a[i]
      /\ \A i \in 1 .. Len(b) : all[n + i] = b[i]
  BY ConcatShape
<1>2. /\ n \in Nat /\ Len(b) \in Nat /\ DOMAIN a = 1 .. n /\ DOMAIN b = 1 .. Len(b)
      /\ DOMAIN all = 1 .. n + Len(b)
  BY <1>1
<1> HIDE DEF all, n
<1>3. /\ \A i \in DOMAIN a : i \in DOMAIN all /\ all[i] = a[i]
      /\ \A i \in DOMAIN b : n + i \in DOMAIN all /\ all[n + i] = b[i]
      /\ \A i \in DOMAIN all : i \in DOMAIN a \/ (i > n /\ i - n \in DOMAIN b /\ all[i] = b[i - n])
  <2>1. \A i \in DOMAIN all : i \in DOMAIN a \/ (i > n /\ i - n \in DOMAIN b /\ n + (i - n) = i)
    BY <1>2
  <2> QED BY <2>1, <1>1, <1>2
<1>4. /\ \A i \in DOMAIN a : a[i] \in P
      /\ \A i \in DOMAIN b : b[i] \in Q
      /\ \A x \in P : \E i \in DOMAIN a : a[i] = x
      /\ \A x \in Q : \E i \in DOMAIN b : b[i] = x
  BY DEF Listing
<1>5. {all[i] : i \in DOMAIN all} = P \cup Q
  BY <1>3, <1>4
<1>6. ASSUME NEW i \in DOMAIN all, NEW j \in DOMAIN all, i < j
      PROVE  PairBefore(all[i], all[j])
  <2>1. CASE i \in DOMAIN a /\ j \in DOMAIN a
    BY <2>1, <1>3, <1>6 DEF Listing
  <2>2. CASE i \in DOMAIN a /\ j \notin DOMAIN a
    BY <2>2, <1>3, <1>4
  <2>3. CASE i \notin DOMAIN a
    <3>1. i > n /\ i - n \in DOMAIN b /\ all[i] = b[i - n]
      BY <2>3, <1>3
    <3>2. j \notin DOMAIN a
      BY <3>1, <1>2, <1>6
    <3>3. j - n \in DOMAIN b /\ all[j] = b[j - n]
      BY <3>2, <1>3
    <3>4. i - n < j - n
      BY <1>2, <1>6
    <3> QED BY <3>1, <3>3, <3>4 DEF Listing
  <2> QED BY <2>1, <2>2, <2>3
<1> QED BY <1>5, <1>6 DEF Listing, all

(* What an operation appends continues the listing.                        *)
LEMMA ListingGrows ==
    ASSUME NEW base \in DictNodes, NEW product, NEW k \in DOMAIN Operations,
           NEW paths \in Seq(FoundPaths), NEW w, CanApply(base, paths, product, k, w),
           WalkOrdered(<<>>, paths, base, w),
           NEW next, NextAffordable(product, k, next),
           NEW arcs \in Seq(Arcs), ArcsListed(arcs, base, product, k),
           NEW extra \in Seq(Arcs), MadeFrom(extra, paths, product, k)
    PROVE  ArcsListed(arcs \o extra, base, product, next)
<1> DEFINE S == Matching(paths, product, k)
           T == PairsAt(base, product, k)
           P == ApplicableBefore(base, product, k)
           Q == ApplicableBefore(base, product, next)
           chosen == InOrder(S)
           f(i) == PairOf(base, paths, k, i)
           more == [j \in DOMAIN chosen |-> f(chosen[j])]
           all == arcs \o extra
<1>1. /\ \A i \in S : f(i) \in T
      /\ \A pair \in T : \E i \in S : f(i) = pair
  BY MatchingPairs DEF CanApply
<1>2. Q = P \cup T
  BY NextPairs DEF NextAffordable
<1>3. /\ Len(paths) \in Nat /\ S \subseteq 1 .. Len(paths)
      /\ \A i \in S : i \in DOMAIN paths /\ paths[i].width = Operations[k].x /\ paths[i].done
  BY DEF Matching
<1>4. DOMAIN extra = DOMAIN chosen /\ \A j \in DOMAIN chosen : extra[j] = ArcOf(paths[chosen[j]], product, k)
  BY DEF MadeFrom
<1>5. T \subseteq Pairs /\ (\A pair \in T : pair[1] = k) /\ (\A pair \in P : pair \in Pairs /\ pair[1] < k)
  BY DEF PairsAt, ApplicableBefore, Pairs
<1> HIDE DEF S, T, P, Q
<1>6. chosen \in Seq(S)
  BY <1>3, InOrderTyped
<1>7. ASSUME NEW i \in S PROVE \E j \in DOMAIN chosen : chosen[j] = i
  <2> HIDE DEF chosen, f, more, all
  <2>1. Len(paths) \in Nat /\ S \subseteq 1 .. Len(paths)
    BY <1>3
  <2>2. \E j \in 1 .. Cardinality(S) : j \in DOMAIN InOrder(S) /\ InOrder(S)[j] = i
    BY <2>1, InOrderCovers
  <2> QED BY <2>2 DEF chosen
<1>8. \A i, j \in DOMAIN chosen : i < j => chosen[i] < chosen[j]
  BY <1>3, InOrderIncreases
<1> HIDE DEF chosen
<1>9. \A j \in DOMAIN chosen : chosen[j] \in S
  BY <1>6
<1>10. /\ more \in Seq(Pairs) /\ DOMAIN more = DOMAIN chosen
       /\ \A j \in DOMAIN chosen : more[j] = f(chosen[j])
  <2>1. \A j \in DOMAIN chosen : f(chosen[j]) \in Pairs
    BY <1>1, <1>5, <1>9
  <2>2. DOMAIN chosen = 1 .. Len(chosen) /\ Len(chosen) \in Nat
    BY <1>6
  <2> HIDE DEF f
  <2> QED BY <2>1, <2>2
<1> HIDE DEF more
<1>11. \A i : f(i)[1] = k /\ f(i)[2] = base \o paths[i].out
  BY DEF PairOf
<1>12. Listing(more, T)
  <2>1. {more[j] : j \in DOMAIN more} = T
    <3> HIDE DEF f
    <3> QED BY <1>1, <1>7, <1>9, <1>10
  <2>2. ASSUME NEW i \in DOMAIN more, NEW j \in DOMAIN more, i < j
        PROVE  PairBefore(more[i], more[j])
    <3> DEFINE a == chosen[i]
               b == chosen[j]
    <3>1. a \in S /\ b \in S /\ a < b /\ more[i] = f(a) /\ more[j] = f(b)
      BY <2>2, <1>8, <1>9, <1>10
    <3> HIDE DEF a, b, f
    <3>2. ComesBefore(base \o paths[a].out, base \o paths[b].out)
      BY <3>1, <1>3 DEF WalkOrdered
    <3> QED BY <3>1, <3>2, <1>11 DEF PairBefore
  <2> QED BY <2>1, <2>2 DEF Listing
<1>13. PICK list \in Seq(Pairs) :
          /\ Listing(list, P)
          /\ Len(list) = Len(arcs)
          /\ \A i \in DOMAIN arcs : ArcOutcome(base, arcs[i]) = Outcome(base, product, list[i])
  BY DEF ArcsListed, P
<1>14. \A x \in P : \A y \in T : PairBefore(x, y)
  BY <1>5 DEF PairBefore
<1>15. Listing(list \o more, Q)
  BY <1>2, <1>10, <1>12, <1>13, <1>14, ListingsJoin
<1>16. ASSUME NEW j \in DOMAIN extra PROVE ArcOutcome(base, extra[j]) = Outcome(base, product, more[j])
  <2> DEFINE i == chosen[j]
             out == paths[i].out
             m == base \o out
  <2>1. i \in S /\ more[j] = f(i)
    BY <1>4, <1>9, <1>10
  <2>2. extra[j] = ArcOf(paths[i], product, k)
    BY <1>4
  <2> HIDE DEF i
  <2>3. out \in Text /\ base \in Text
    BY <2>1, <1>3, PathFields, PathShape
  <2>4. SubSeq(m, Len(base) + 1, Len(m)) = out
    BY <2>3, BelowSuffix
  <2>5. more[j][1] = k /\ more[j][2] = m
    BY <2>1, <1>11
  <2> HIDE DEF m, f
  <2>6. ArcOutcome(base, extra[j]) =
             [input |-> Segment(product.pos, Operations[k].y), output |-> out,
              weight |-> Operations[k].w, node |-> m,
              pos |-> product.pos + Operations[k].y, cost |-> product.cost + Operations[k].w]
    BY <2>2 DEF ArcOutcome, ArcOf, m
  <2> HIDE DEF out
  <2> QED BY <2>4, <2>5, <2>6 DEF Outcome
<1>17. /\ list \o more \in Seq(Pairs) /\ Len(list \o more) = Len(all)
       /\ \A i \in DOMAIN all :
             ArcOutcome(base, all[i]) = Outcome(base, product, (list \o more)[i])
  <2> DEFINE n == Len(arcs)
             both == list \o more
  <2>1. /\ Len(all) = n + Len(extra)
        /\ \A i \in 1 .. n : all[i] = arcs[i]
        /\ \A i \in 1 .. Len(extra) : all[n + i] = extra[i]
        /\ all \in Seq(Arcs)
    BY ConcatShape
  <2>2. /\ both \in Seq(Pairs) /\ Len(both) = n + Len(more)
        /\ \A i \in 1 .. n : both[i] = list[i]
        /\ \A i \in 1 .. Len(more) : both[n + i] = more[i]
    <3> HIDE DEF f, all, n
    <3>m. more \in Seq(Pairs)
      BY <1>10
    <3>1. /\ both \in Seq(Pairs) /\ Len(both) = Len(list) + Len(more)
          /\ \A i \in 1 .. Len(list) : both[i] = list[i]
          /\ \A i \in 1 .. Len(more) : both[Len(list) + i] = more[i]
      BY <3>m, ConcatShape
    <3> HIDE DEF both
    <3> QED BY <3>1, <1>13 DEF n
  <2>3. /\ n \in Nat /\ DOMAIN arcs = 1 .. n /\ Len(extra) \in Nat
        /\ DOMAIN extra = 1 .. Len(extra) /\ Len(more) = Len(extra)
        /\ DOMAIN all = 1 .. n + Len(extra)
    BY <1>4, <1>10, <2>1
  <2> HIDE DEF both, all, n
  <2>4. ASSUME NEW i \in DOMAIN all PROVE ArcOutcome(base, all[i]) = Outcome(base, product, both[i])
    <3>1. CASE i <= n
      <4>1. i \in 1 .. n
        BY <3>1, <2>3
      <4> QED BY <4>1, <2>1, <2>2, <2>3, <1>13
    <3>2. CASE ~ (i <= n)
      <4> DEFINE j == i - n
      <4>1. j \in 1 .. Len(extra) /\ n + j = i
        BY <3>2, <2>3
      <4> HIDE DEF j
      <4> QED BY <4>1, <2>1, <2>2, <2>3, <1>16
    <3> QED BY <3>1, <3>2
  <2> QED BY <2>1, <2>2, <2>3, <2>4 DEF both
<1> QED BY <1>15, <1>17 DEF ArcsListed, Q

(* Before the first affordable operation there is nothing to list.         *)
LEMMA NothingListed ==
    ASSUME NEW base, NEW product, NEW next,
           \A j \in DOMAIN Operations : j < next => ~ InBudget(Operations[j], product)
    PROVE  ArcsListed(<<>>, base, product, next)
<1>1. ApplicableBefore(base, product, next) = {}
  BY DEF ApplicableBefore, AppliesTo
<1> DEFINE none == <<>>
<1>2. none \in Seq(Pairs) /\ Listing(none, {}) /\ Len(none) = 0 /\ DOMAIN none = {}
  BY DEF Listing
<1> HIDE DEF none
<1>3. ArcsListed(none, base, product, next)
  BY <1>1, <1>2 DEF ArcsListed
<1> QED BY <1>3 DEF none

----------------------------------------------------------------------------
(* Steps of the walk                                                       *)

(* What the invariant says of a walk, in the terms of the actions.         *)
WalkAnswers(r, base, product) ==
    /\ r.stack # <<>> => r.op \in DOMAIN Operations /\ Len(r.stack) <= Operations[r.op].x
    /\ StackOK(r.stack, base)
    /\ EnumerationOK(r.stack, r.paths, base, Operations[r.op].x)
    /\ WalkOrdered(r.stack, r.paths, base, Operations[r.op].x)
    /\ ArcsOK(r.arcs, base, product, r.op)
    /\ ArcsListed(r.arcs, base, product, r.op)
    /\ \A i \in DOMAIN r.staged : InReach(base, product, r.staged[i].node)

(* The same with the activation's product and base spelled out.            *)
LEMMA WalkAnswersIff ==
    ASSUME NEW r
    PROVE  AnswerOK(id_to_node, id_to_state, r, "walk") <=>
              WalkAnswers(r, BaseOf(r), StateAt(r.state))
BY DEF AnswerOK, WalkAnswers, BaseOf, NodeAt, StateAt

(* A step of one thread that publishes nothing has to keep its own part    *)
(* only.                                                                   *)
LEMMA AnswerStep ==
    ASSUME AnswerInv, NEW t \in Threads, UNCHANGED <<registries, answers>>,
           \A u \in Threads \ {t} : tx'[u] = tx[u] /\ pc'[u] = pc[u],
           AnswerOK(id_to_node, id_to_state, tx'[t], pc'[t])
    PROVE  AnswerInv'
<1>1. id_to_node' = id_to_node /\ id_to_state' = id_to_state /\ answers' = answers
  BY DEF registries
<1>2. ASSUME NEW u \in Threads PROVE AnswerOK(id_to_node, id_to_state, tx'[u], pc'[u])
  BY DEF AnswerInv
<1>3. PublishedExact'
  BY <1>1 DEF AnswerInv, PublishedExact, StateIds, StateAt
<1>4. PublishedUsed'
  BY <1>1 DEF AnswerInv, PublishedUsed, AllTargets, StateIds, StateAt, NodeAt
<1>5. PublishedListed'
  BY <1>1 DEF AnswerInv, PublishedListed, StateIds, StateAt
<1> QED BY <1>1, <1>2, <1>3, <1>4, <1>5 DEF AnswerInv

(* A step of the walk that goes on with it.                                *)
LEMMA WalkStep ==
    ASSUME ExpansionInv, AnswerInv, NEW t \in Threads, Walking(t), UNCHANGED pc,
           NEW r, Local(t, r), r.state = tx[t].state,
           WalkAnswers(r, BaseOf(tx[t]), StateAt(tx[t].state))
    PROVE  AnswerInv'
<1>1. pc[t] = "walk" /\ UNCHANGED <<registries, answers>> /\ pc'[t] = "walk"
  BY DEF Walking
<1>2. BaseOf(r) = BaseOf(tx[t])
  BY DEF BaseOf
<1>3. AnswerOK(id_to_node, id_to_state, r, "walk")
  BY <1>2, WalkAnswersIff
<1>4. tx'[t] = r /\ \A u \in Threads \ {t} : tx'[u] = tx[u]
  BY LocalEffect
<1> QED BY <1>1, <1>3, <1>4, AnswerStep

(* What is known when a step of the walk begins.                           *)
LEMMA WalkBegins ==
    ASSUME ExpansionInv, AnswerInv, NEW t \in Threads, pc[t] = "walk"
    PROVE  /\ WalkAnswers(tx[t], BaseOf(tx[t]), StateAt(tx[t].state))
           /\ WalkOK(id_to_node, tx[t], BaseOf(tx[t]))
           /\ tx[t] \in Transactions
           /\ tx[t].op <= Len(Operations) => tx[t].op \in DOMAIN Operations
           /\ tx[t].stack \in Seq(Frames) /\ tx[t].paths \in Seq(FoundPaths)
           /\ tx[t].staged \in Seq(StagedNodes) /\ tx[t].arcs \in Seq(Arcs)
           /\ BaseOf(tx[t]) \in DictNodes
           /\ StateAt(tx[t].state) \in Products
           /\ \A i \in DOMAIN tx[t].paths : BaseOf(tx[t]) \o tx[t].paths[i].out \in DictNodes
<1>1. WalkAnswers(tx[t], BaseOf(tx[t]), StateAt(tx[t].state))
  BY WalkAnswersIff DEF AnswerInv
<1>2. /\ tx[t] \in Transactions /\ tx[t].op \in Nat \ {0}
      /\ tx[t].stack \in Seq(Frames) /\ tx[t].paths \in Seq(FoundPaths)
      /\ tx[t].staged \in Seq(StagedNodes) /\ tx[t].arcs \in Seq(Arcs)
  BY InvFacts, TransactionFields
<1>3. tx[t].op <= Len(Operations) => tx[t].op \in DOMAIN Operations
  BY <1>2, OperationsTyped
<1>4. WalkOK(id_to_node, tx[t], BaseOf(tx[t]))
  BY WalkingFacts
<1>5. ASSUME NEW i \in DOMAIN tx[t].paths PROVE BaseOf(tx[t]) \o tx[t].paths[i].out \in DictNodes
  <2> DEFINE ref == tx[t].paths[i].ref
             path == BaseOf(tx[t]) \o tx[t].paths[i].out
  <2>1. ref \in Refs /\ Refers(id_to_node, tx[t].staged, ref, path)
    BY <1>2, <1>4, PathFields DEF WalkOK
  <2> HIDE DEF ref, path
  <2>2. id_to_node \in Seq(Nodes) /\ DOMAIN id_to_node = 1 .. Len(id_to_node)
    BY InvFacts
  <2>3. CASE ref.kind = "registered"
    <3>1. ref.at \in Nat /\ ref.at < Len(id_to_node) /\ path = id_to_node[ref.at + 1].node
      BY <2>1, <2>3 DEF Refers, NodeOf, Refs
    <3>2. ref.at + 1 \in DOMAIN id_to_node
      BY <3>1, <2>2
    <3> QED BY <3>1, <3>2, <2>2, NodeFields DEF path
  <2>4. CASE ref.kind # "registered"
    <3>1. ref.at \in DOMAIN tx[t].staged /\ path = tx[t].staged[ref.at].node
      BY <2>1, <2>4 DEF Refers, NodeOf, Refs
    <3> QED BY <3>1, <1>2, StagedFields DEF path
  <2> QED BY <2>3, <2>4
<1> QED BY <1>1, <1>2, <1>3, <1>4, <1>5, StartFacts

(* The walk begins with nothing found.                                     *)
LEMMA ReadNodeAnswers ==
    ASSUME ExpansionInv, AnswerInv, NEW t \in Threads, ReadNode(t)
    PROVE  AnswerInv'
<1> DEFINE product == StateAt(tx[t].state)
           op == Affordable(product, 1)
           r == [tx[t] EXCEPT !.op = op]
<1>1. pc[t] = "node" /\ UNCHANGED <<registries, answers>> /\ Goto(t, "walk") /\ Local(t, r)
  BY DEF ReadNode
<1>2. TransactionOK(id_to_node, id_to_state, tx[t], "node") /\ tx[t] \in Transactions
  BY <1>1, InvFacts
<1>3. tx[t].staged = <<>> /\ tx[t].stack = <<>> /\ tx[t].paths = <<>> /\ tx[t].arcs = <<>>
  BY <1>2, NoTxTyped DEF TransactionOK, NoTx
<1>4. product \in Products
  BY StartFacts
<1>5. 1 \in 1 .. Len(Operations) + 1
  BY OperationsTyped
<1>6. \A k \in DOMAIN Operations : k < op => ~ InBudget(Operations[k], product)
  <2>1. \A k \in DOMAIN Operations : 1 <= k
    BY OperationsTyped
  <2> HIDE DEF product
  <2> QED BY <1>4, <1>5, <2>1, AffordableFirst
<1> HIDE DEF op
<1>7. /\ r.op = op /\ r.state = tx[t].state /\ r.staged = <<>> /\ r.stack = <<>>
      /\ r.paths = <<>> /\ r.arcs = <<>>
  BY <1>2, <1>3 DEF Transactions
<1> HIDE DEF r
<1>8. ArcsOK(<<>>, BaseOf(r), product, op) /\ ArcsListed(<<>>, BaseOf(r), product, op)
  BY <1>6, NoArcs, NothingListed
<1>9. /\ StackOK(<<>>, BaseOf(r)) /\ EnumerationOK(<<>>, <<>>, BaseOf(r), Operations[op].x)
      /\ WalkOrdered(<<>>, <<>>, BaseOf(r), Operations[op].x)
  BY DEF StackOK, EnumerationOK, WalkOrdered
<1>10. WalkAnswers(r, BaseOf(r), StateAt(r.state))
  BY <1>7, <1>8, <1>9 DEF WalkAnswers
<1>11. AnswerOK(id_to_node, id_to_state, r, "walk")
  BY <1>10, WalkAnswersIff
<1> QED BY <1>1, <1>11, LocalEffect, GotoEffect, AnswerStep

(* A new width begins.                                                     *)
LEMMA StartPathsAnswers ==
    ASSUME ExpansionInv, AnswerInv, NEW t \in Threads, StartPaths(t)
    PROVE  AnswerInv'
<1> DEFINE product == StateAt(tx[t].state)
           base == BaseOf(tx[t])
           width == CurrentOp(t).x
           start == Registered(product.node)
           mark == [width |-> width, done |-> width = 0, ref |-> start, out |-> <<>>]
           frame == Frame(start, NodeAt(product.node), <<>>)
           stack == IF width = 0 THEN <<>> ELSE Unfinished(<<frame>>)
           paths == Append(tx[t].paths, mark)
           r == [tx[t] EXCEPT !.paths = paths, !.stack = stack]
<1>1. /\ Walking(t) /\ pc[t] = "walk" /\ tx[t].stack = <<>> /\ tx[t].op <= Len(Operations)
      /\ Local(t, r) /\ UNCHANGED pc /\ ~ Known(t, width)
  BY DEF StartPaths, Walking
<1>2. /\ WalkAnswers(tx[t], base, product) /\ tx[t] \in Transactions
      /\ tx[t].op \in DOMAIN Operations /\ tx[t].paths \in Seq(FoundPaths)
      /\ base \in DictNodes /\ product \in Products
  <2>1. /\ WalkAnswers(tx[t], base, product) /\ tx[t] \in Transactions
        /\ tx[t].op <= Len(Operations) => tx[t].op \in DOMAIN Operations
        /\ tx[t].paths \in Seq(FoundPaths)
        /\ base \in DictNodes /\ product \in Products
    <3> HIDE DEF base, product
    <3> QED BY <1>1, WalkBegins DEF base, product
  <2> QED BY <2>1, <1>1
<1>3. width \in Nat /\ width = Operations[tx[t].op].x
  BY <1>2, OperationsTyped DEF CurrentOp
<1>4. start \in Refs /\ NodeAt(product.node) = base /\ <<>> \in Text /\ base \in Text
  BY <1>2, StartFacts, PathShape DEF Registered, Refs, Text, BaseOf
<1>5. frame \in Frames /\ frame.node = base /\ frame.todo = Edges(base)
  <2>1. frame \in Frames /\ frame.node = base
    <3> HIDE DEF start, base
    <3> QED BY <1>2, <1>4, FrameTyped
  <2> QED BY <2>1, <1>4 DEF Frame
<1>6. mark \in FoundPaths /\ mark.width = width /\ mark.done = (width = 0) /\ mark.out = <<>>
  <2> HIDE DEF start, width
  <2> QED BY <1>3, <1>4 DEF FoundPaths
<1>7. \A i \in DOMAIN tx[t].paths : tx[t].paths[i].width # width
  BY <1>1 DEF Known
<1> HIDE DEF start, frame, mark, width, product, base
<1>a. WalkOrdered(stack, paths, base, width)
  <2>1. WalkOrdered(<<>>, tx[t].paths, base, width)
    BY <1>1, <1>2, <1>3 DEF WalkAnswers
  <2>2. CASE width = 0
    <3>1. stack = <<>>
      BY <2>2
    <3>2. WalkOrdered(<<>>, paths, base, width)
      BY <2>1, <1>2, <1>6, <1>7, OrderedStarts
    <3> HIDE DEF stack, paths
    <3> QED BY <3>1, <3>2
  <2>3. CASE width # 0
    <3> DEFINE f == <<frame>>
    <3>1. stack = Unfinished(f) /\ f \in Seq(Frames)
      BY <2>3, <1>5
    <3>2. WalkOrdered(f, paths, base, width)
      BY <2>1, <2>3, <1>2, <1>5, <1>6, <1>7, OrderedStarts
    <3> HIDE DEF f, stack, paths
    <3> QED BY <3>1, <3>2, PruneOrdered
  <2> QED BY <2>2, <2>3
<1>8. StackOK(stack, base) /\ EnumerationOK(stack, paths, base, width) /\ Len(stack) <= width
  <2>1. EnumerationOK(<<>>, tx[t].paths, base, width)
    BY <1>1, <1>2, <1>3 DEF WalkAnswers
  <2>2. CASE width = 0
    <3>1. EnumerationOK(<<>>, paths, base, width)
      BY <2>1, <2>2, <1>2, <1>6, <1>7, EmptyPathOK, ZenonT(40)
    <3>2. StackOK(<<>>, base)
      BY DEF StackOK
    <3>3. stack = <<>> /\ Len(stack) <= width
      BY <2>2
    <3> HIDE DEF stack, paths
    <3> QED BY <3>1, <3>2, <3>3
  <2>3. CASE width # 0
    <3>1. StackOK(<<frame>>, base) /\ EnumerationOK(<<frame>>, paths, base, width)
      BY <2>1, <2>3, <1>2, <1>3, <1>5, <1>6, <1>7, EnumerationStarts
    <3> DEFINE f == <<frame>>
    <3>2. f \in Seq(Frames) /\ paths \in Seq(FoundPaths) /\ Len(f) = 1
      BY <1>2, <1>5, <1>6
    <3>3. stack = Unfinished(f)
      BY <2>3
    <3> HIDE DEF f, stack, paths
    <3>4. StackOK(f, base) /\ EnumerationOK(f, paths, base, width)
      BY <3>1 DEF f
    <3>5. Len(stack) \in Nat /\ Len(stack) <= 1
      BY <3>2, <3>3, UnfinishedTyped
    <3> QED BY <2>3, <3>2, <3>3, <3>4, <3>5, <1>3, PruneOK
  <2> QED BY <2>2, <2>3
<1> HIDE DEF stack, paths
<1>9. /\ r.state = tx[t].state /\ r.op = tx[t].op /\ r.staged = tx[t].staged
      /\ r.arcs = tx[t].arcs /\ r.paths = paths /\ r.stack = stack
  BY <1>2 DEF Transactions
<1> HIDE DEF r
<1>10. WalkAnswers(r, base, product)
  BY <1>2, <1>3, <1>8, <1>9, <1>a DEF WalkAnswers
<1> QED BY <1>1, <1>9, <1>10, WalkStep DEF base, product

(* A child is visited.                                                     *)
LEMMA VisitEdgeAnswers ==
    ASSUME ExpansionInv, AnswerInv, NEW t \in Threads, VisitEdge(t)
    PROVE  AnswerInv'
<1> DEFINE product == StateAt(tx[t].state)
           base == BaseOf(tx[t])
           stack == tx[t].stack
           depth == Len(tx[t].stack)
           top == tx[t].stack[depth]
           label == Head(top.todo)
           out == Append(top.out, label)
           node == Append(top.node, label)
           ref == ChildRef(t, top.ref, label)
           width == CurrentOp(t).x
           rest == [tx[t].stack EXCEPT ![depth].todo = Tail(@)]
           length == Len(tx[t].staged)
           new == [parent |-> top.ref, label |-> label, node |-> node, owner |-> Own(length + 1)]
           found == [width |-> width, done |-> TRUE, ref |-> ref, out |-> out]
           frame == Frame(ref, node, out)
           staged == IF ref = Staged(length + 1) THEN Append(tx[t].staged, new) ELSE tx[t].staged
           paths == IF depth = width THEN Append(tx[t].paths, found) ELSE tx[t].paths
           frames == IF depth = width THEN rest ELSE Append(rest, frame)
           r == [tx[t] EXCEPT !.staged = staged, !.paths = paths, !.stack = Unfinished(frames)]
<1>1. Walking(t) /\ pc[t] = "walk" /\ depth > 0 /\ Local(t, r) /\ UNCHANGED pc
  BY DEF VisitEdge, Walking
<1>2. /\ WalkAnswers(tx[t], base, product)
      /\ WalkOK(id_to_node, tx[t], base)
      /\ tx[t] \in Transactions
      /\ stack \in Seq(Frames) /\ tx[t].paths \in Seq(FoundPaths)
      /\ tx[t].staged \in Seq(StagedNodes)
      /\ base \in DictNodes /\ product \in Products
      /\ \A i \in DOMAIN tx[t].paths : base \o tx[t].paths[i].out \in DictNodes
  <2> HIDE DEF base, product
  <2> QED BY <1>1, WalkBegins DEF base, product
<1>3. base \in Text /\ Len(base) \in Nat
  BY <1>2, PathShape
<1>4. /\ depth \in DOMAIN stack /\ depth \in Nat \ {0} /\ length \in Nat /\ stack # <<>>
  BY <1>1, <1>2, SMTT(30)
<1>5. /\ tx[t].op \in DOMAIN Operations /\ depth <= width
      /\ width = Operations[tx[t].op].x /\ width \in Nat
      /\ InBudget(Operations[tx[t].op], product)
  <2>1. tx[t].op \in DOMAIN Operations /\ depth <= Operations[tx[t].op].x
    BY <1>2, <1>4 DEF WalkAnswers
  <2>2. tx[t].op <= Len(Operations)
    BY <2>1, OperationsTyped
  <2> QED BY <1>1, <2>1, <2>2, WalkingFacts DEF CurrentOp
<1>6. /\ top \in Frames /\ top.ref \in Refs /\ top.node \in DictNodes
      /\ top.out \in Seq(Labels) /\ top.todo \in Seq(Labels) /\ top.todo # <<>>
      /\ Refers(id_to_node, tx[t].staged, top.ref, top.node)
      /\ top.node = base \o top.out
  <2>1. /\ top \in Frames /\ top.ref \in Refs /\ top.node \in DictNodes
        /\ top.out \in Text /\ top.todo \in Text
    BY <1>2, <1>4, FrameFields
  <2> QED BY <1>2, <1>4, <2>1 DEF WalkOK, Text
<1>7. /\ StackOK(stack, base)
      /\ EnumerationOK(stack, tx[t].paths, base, width)
      /\ WalkOrdered(stack, tx[t].paths, base, width)
      /\ ArcsOK(tx[t].arcs, base, product, tx[t].op)
      /\ ArcsListed(tx[t].arcs, base, product, tx[t].op)
      /\ \A i \in DOMAIN tx[t].staged : InReach(base, product, tx[t].staged[i].node)
  BY <1>2, <1>5 DEF WalkAnswers
<1> HIDE DEF base, product, width
<1> DEFINE top2 == [top EXCEPT !.todo = Tail(@)]
<1>8. rest \in Seq(Frames) /\ Advanced(stack, rest, depth)
  <2>1. Tail(top.todo) \in Seq(Labels)
        /\ \A i \in DOMAIN Tail(top.todo) :
              i + 1 \in DOMAIN top.todo /\ Tail(top.todo)[i] = top.todo[i + 1]
    <3> HIDE DEF top
    <3> QED BY <1>6
  <2>2. \A i \in DOMAIN top.todo : Append(top.node, top.todo[i]) \in DictNodes
    <3> HIDE DEF top
    <3> QED BY <1>6 DEF Frames
  <2>3. top2 \in Frames /\ top2.node = top.node /\ top2.todo = Tail(top.todo)
    <3> HIDE DEF top
    <3> QED BY <1>6, <2>1, <2>2 DEF Frames, Text
  <2>4. rest = [stack EXCEPT ![depth] = top2]
    BY <1>4
  <2> HIDE DEF top2
  <2> DEFINE next == [stack EXCEPT ![depth] = top2]
  <2>5. /\ next \in Seq(Frames) /\ Len(next) = depth
        /\ DOMAIN next = DOMAIN stack
        /\ \A d \in DOMAIN stack : next[d] = IF d = depth THEN top2 ELSE stack[d]
    <3> HIDE DEF depth, stack
    <3> QED BY <1>2, <1>4, <2>3, ReplaceShape DEF depth, stack
  <2> HIDE DEF next, rest
  <2>6. rest = next
    BY <2>4 DEF next
  <2>7. DOMAIN stack = 1 .. depth
    BY <1>2
  <2>8. /\ \A d \in 1 .. depth - 1 : rest[d] = stack[d]
        /\ rest[depth] = top2
    BY <2>5, <2>6, <2>7, <1>4
  <2> QED BY <2>3, <2>5, <2>6, <2>8 DEF Advanced
<1>9. /\ StackOK(rest, base) /\ node \in DictNodes /\ Len(node) = Len(base) + depth
      /\ IsBelow(base, node)
  <2> HIDE DEF rest, stack
  <2>1. top = stack[depth]
    BY DEF stack
  <2> HIDE DEF top, depth
  <2> DEFINE child == Append(stack[depth].node, Head(stack[depth].todo))
  <2>2. /\ stack \in Seq(Frames) /\ rest \in Seq(Frames) /\ depth \in Nat \ {0}
        /\ base \in DictNodes /\ StackOK(stack, base) /\ Advanced(stack, rest, depth)
        /\ stack[depth].todo # <<>>
    BY <1>2, <1>4, <1>6, <1>7, <1>8, <2>1
  <2>3. /\ StackOK(rest, base)
        /\ child \in DictNodes
        /\ Len(child) = Len(base) + depth
        /\ IsBelow(base, child)
        /\ \A d \in 1 .. depth : IsBelow(rest[d].node, child) /\ ~ Pending(rest[d], child)
        /\ \A m \in DictNodes :
              /\ \A d \in 1 .. depth : Pending(rest[d], m) => Pending(stack[d], m)
              /\ \A d \in 1 .. depth :
                    Pending(stack[d], m) => Pending(rest[d], m) \/ IsBelow(child, m)
              /\ IsBelow(child, m) => Pending(stack[depth], m)
    BY <2>2, AdvancedOK DEF Behind
  <2> QED BY <2>1, <2>3
<1> HIDE DEF rest
<1>10. label \in Labels /\ out \in Seq(Labels) /\ node = base \o out
  <2> HIDE DEF top
  <2>1. label \in Labels
    BY <1>6
  <2> HIDE DEF label
  <2>2. out \in Seq(Labels)
    BY <1>6, <2>1
  <2>3. base \o Append(top.out, label) = Append(base \o top.out, label)
    BY <1>3, <1>6, <2>1, ConcatAppend DEF Text
  <2>4. Append(top.node, label) = Append(base \o top.out, label)
    BY <1>6
  <2> QED BY <2>1, <2>2, <2>3, <2>4
<1>11. ref \in Refs
  <2> HIDE DEF top, label
  <2> QED BY <1>1, <1>6, <1>10, ChildRefResult
<1>12. found \in FoundPaths /\ found.width = width /\ found.done /\ found.out = out
  <2> HIDE DEF ref, out
  <2> QED BY <1>5, <1>10, <1>11 DEF FoundPaths, Text
<1>13. frame \in Frames /\ frame.node = node /\ frame.todo = Edges(node)
  <2> HIDE DEF ref, out, node
  <2>1. ref \in Refs /\ node \in DictNodes /\ out \in Text
    BY <1>9, <1>10, <1>11 DEF Text
  <2>2. frame \in Frames /\ frame.node = node
    BY <2>1, FrameTyped
  <2> QED BY <2>2 DEF Frame
<1>14. new.node = node
  <2> HIDE DEF node, top, label, length
  <2> QED OBVIOUS
<1>15. ASSUME NEW i \in DOMAIN staged PROVE InReach(base, product, staged[i].node)
  <2>1. InReach(base, product, node)
    <3> HIDE DEF node
    <3> QED BY <1>3, <1>4, <1>5, <1>9 DEF InReach
  <2>2. CASE ref = Staged(length + 1)
    <3> HIDE DEF ref, new
    <3>1. staged = Append(tx[t].staged, new)
      BY <2>2
    <3>2. \A j \in DOMAIN Append(tx[t].staged, new) :
             \/ j \in DOMAIN tx[t].staged /\ Append(tx[t].staged, new)[j] = tx[t].staged[j]
             \/ Append(tx[t].staged, new)[j] = new
      BY <1>2
    <3> HIDE DEF staged
    <3> QED BY <3>1, <3>2, <2>1, <1>7, <1>14
  <2>3. CASE ref # Staged(length + 1)
    <3>1. staged = tx[t].staged
      BY <2>3
    <3> HIDE DEF staged
    <3> QED BY <3>1, <1>7
  <2> QED BY <2>2, <2>3
<1> HIDE DEF found, frame, staged, new, ref, top2
<1>16. /\ frames \in Seq(Frames) /\ Len(frames) <= width
       /\ paths \in Seq(FoundPaths)
       /\ StackOK(frames, base) /\ EnumerationOK(frames, paths, base, width)
       /\ WalkOrdered(frames, paths, base, width)
  <2>1. top = stack[depth] /\ node = Append(stack[depth].node, Head(stack[depth].todo))
        /\ stack[depth].todo # <<>>
    BY <1>6
  <2> HIDE DEF depth, top, node, out
  <2>2. stack \in Seq(Frames) /\ depth \in Nat \ {0} /\ Len(rest) = depth
    BY <1>2, <1>4, <1>8 DEF Advanced
  <2> HIDE DEF stack
  <2>3. CASE depth = width
    <3>1. frames = rest /\ paths = Append(tx[t].paths, found)
      BY <2>3
    <3>2. base \o found.out = Append(stack[depth].node, Head(stack[depth].todo))
      BY <1>10, <1>12, <2>1
    <3>3. EnumerationOK(rest, Append(tx[t].paths, found), base, depth)
      BY <1>2, <1>7, <1>8, <1>12, <2>1, <2>2, <2>3, <3>2, RecordOK
    <3>4. Append(tx[t].paths, found) \in Seq(FoundPaths)
      BY <1>2, <1>12
    <3>5. WalkOrdered(rest, Append(tx[t].paths, found), base, depth)
      BY <1>2, <1>7, <1>8, <1>12, <2>1, <2>2, <2>3, <3>2, RecordOrdered
    <3> HIDE DEF frames, paths
    <3> QED BY <2>2, <2>3, <3>1, <3>3, <3>4, <3>5, <1>8, <1>9
  <2>4. CASE depth # width
    <3>1. frames = Append(rest, frame) /\ paths = tx[t].paths
      BY <2>4
    <3>2. depth < width
      BY <2>4, <1>5, <2>2
    <3>3. frame.node = Append(stack[depth].node, Head(stack[depth].todo))
          /\ frame.todo = Edges(frame.node)
      BY <1>13, <2>1
    <3>4. StackOK(Append(rest, frame), base)
          /\ EnumerationOK(Append(rest, frame), tx[t].paths, base, width)
      BY <1>2, <1>5, <1>7, <1>8, <1>13, <2>1, <2>2, <3>2, <3>3, DescendOK
    <3>5. Append(rest, frame) \in Seq(Frames) /\ Len(Append(rest, frame)) = depth + 1
      BY <1>8, <1>13, <2>2
    <3>6. WalkOrdered(Append(rest, frame), tx[t].paths, base, width)
      BY <1>2, <1>7, <1>8, <1>13, <2>1, <2>2, <3>3, DescendOrdered
    <3> HIDE DEF frames, paths
    <3> QED BY <2>2, <3>1, <3>2, <3>4, <3>5, <3>6, <1>2, <1>5
  <2> QED BY <2>3, <2>4
<1> HIDE DEF frames, paths
<1> DEFINE left == Unfinished(frames)
<1>17. /\ StackOK(left, base) /\ EnumerationOK(left, paths, base, width) /\ Len(left) <= width
       /\ WalkOrdered(left, paths, base, width)
  <2>1. /\ StackOK(left, base) /\ EnumerationOK(left, paths, base, width)
        /\ WalkOrdered(left, paths, base, width)
    BY <1>16, PruneOK, PruneOrdered
  <2>2. Len(left) \in Nat /\ Len(left) <= Len(frames) /\ Len(frames) \in Nat
    BY <1>16, UnfinishedTyped
  <2> QED BY <2>1, <2>2, <1>5, <1>16
<1> HIDE DEF left
<1>18. /\ r.state = tx[t].state /\ r.op = tx[t].op /\ r.staged = staged
       /\ r.arcs = tx[t].arcs /\ r.paths = paths /\ r.stack = left
  BY <1>2 DEF Transactions, left
<1> HIDE DEF r
<1>19. WalkAnswers(r, base, product)
  BY <1>5, <1>7, <1>15, <1>17, <1>18 DEF WalkAnswers
<1> QED BY <1>1, <1>18, <1>19, WalkStep DEF base, product

(* An operation is applied to the paths of its width.                      *)
LEMMA ApplyOperationAnswers ==
    ASSUME ExpansionInv, AnswerInv, NEW t \in Threads, ApplyOperation(t)
    PROVE  AnswerInv'
<1> DEFINE product == StateAt(tx[t].state)
           base == BaseOf(tx[t])
           op == CurrentOp(t)
           k == tx[t].op
           paths == tx[t].paths
           segment == Segment(product.pos, op.y)
           hits == {i \in PathsOf(t, op.x) : operation_applies(op, tx[t].paths[i].out, segment)}
           chosen == InOrder(hits)
           Arc(i) == [ref |-> tx[t].paths[i].ref, output |-> tx[t].paths[i].out,
                      input |-> segment, pos |-> product.pos + op.y,
                      cost |-> product.cost + op.w, weight |-> op.w]
           new == [j \in DOMAIN chosen |-> Arc(chosen[j])]
           arcs == tx[t].arcs \o new
           next == Affordable(product, tx[t].op + 1)
           r == [tx[t] EXCEPT !.arcs = arcs, !.op = next]
<1>1. /\ Walking(t) /\ pc[t] = "walk" /\ tx[t].op <= Len(Operations) /\ Local(t, r)
      /\ UNCHANGED pc /\ tx[t].stack = <<>> /\ Known(t, op.x)
  BY DEF ApplyOperation, Walking
<1>2. /\ WalkAnswers(tx[t], base, product)
      /\ tx[t] \in Transactions /\ k \in DOMAIN Operations
      /\ paths \in Seq(FoundPaths) /\ tx[t].arcs \in Seq(Arcs)
      /\ base \in DictNodes /\ product \in Products
      /\ \A i \in DOMAIN paths : base \o paths[i].out \in DictNodes
  <2>1. /\ WalkAnswers(tx[t], base, product) /\ tx[t] \in Transactions
        /\ tx[t].op <= Len(Operations) => tx[t].op \in DOMAIN Operations
        /\ tx[t].paths \in Seq(FoundPaths) /\ tx[t].arcs \in Seq(Arcs)
        /\ base \in DictNodes /\ product \in Products
        /\ \A i \in DOMAIN tx[t].paths : base \o tx[t].paths[i].out \in DictNodes
    <3> HIDE DEF base, product
    <3> QED BY <1>1, WalkBegins DEF base, product
  <2> QED BY <2>1, <1>1
<1>3. op = Operations[k] /\ InBudget(op, product) /\ op.x \in Nat /\ op.y \in Nat /\ op.w \in Nat
  BY <1>1, WalkingFacts DEF CurrentOp
<1>4. /\ StackOK(<<>>, base) /\ EnumerationOK(<<>>, paths, base, op.x)
      /\ WalkOrdered(<<>>, paths, base, op.x)
      /\ ArcsOK(tx[t].arcs, base, product, k) /\ ArcsListed(tx[t].arcs, base, product, k)
      /\ \A i \in DOMAIN tx[t].staged : InReach(base, product, tx[t].staged[i].node)
  BY <1>1, <1>2, <1>3 DEF WalkAnswers
<1>5. \E i \in DOMAIN paths : paths[i].width = op.x
  BY <1>1 DEF Known
<1>6. hits = Matching(paths, product, k)
  BY <1>3 DEF Matching, PathsOf
<1>7. \A i \in DOMAIN paths : Arc(i) = ArcOf(paths[i], product, k)
  BY <1>3 DEF ArcOf
<1>8. /\ product.pos \in Nat /\ product.cost \in Nat
      /\ product.pos + op.y \in Nat /\ product.pos + op.y <= Len(Query)
      /\ product.cost + op.w \in Nat
  <2> HIDE DEF product, op
  <2>1. product.pos \in Nat /\ product.cost \in Nat
    BY <1>2 DEF Products
  <2>2. product.pos + op.y <= Len(Query)
    BY <1>3 DEF InBudget
  <2>3. op.y \in Nat /\ op.w \in Nat
    BY <1>3
  <2> QED BY <2>1, <2>2, <2>3
<1>9. segment \in Text
  <2>1. \A m \in 1 .. Len(Query) + 1, n \in 0 .. Len(Query) : SubSeq(Query, m, n) \in Seq(Labels)
    BY QueryAssumption
  <2>2. product.pos + 1 \in 1 .. Len(Query) + 1 /\ product.pos + op.y \in 0 .. Len(Query)
    <3> HIDE DEF product, op
    <3> QED BY <1>3, <1>8, QueryAssumption
  <2> QED BY <2>1, <2>2 DEF Segment, Text
<1> HIDE DEF product, base, op, segment
<1>10. \A i \in DOMAIN paths : Arc(i) \in Arcs
  <2>1. \A i \in DOMAIN paths : paths[i].ref \in Refs /\ paths[i].out \in Text
    BY <1>2, PathFields
  <2> QED BY <2>1, <1>3, <1>8, <1>9 DEF Arcs
<1>11. hits \subseteq 1 .. Len(paths) /\ Len(paths) \in Nat /\ DOMAIN paths = 1 .. Len(paths)
  BY <1>2 DEF PathsOf
<1> HIDE DEF hits, Arc, paths
<1>12. chosen \in Seq(hits)
  BY <1>11, InOrderTyped
<1>13. chosen = InOrder(Matching(paths, product, k))
  BY <1>6
<1> HIDE DEF chosen
<1>14. /\ DOMAIN chosen = 1 .. Len(chosen) /\ Len(chosen) \in Nat
       /\ \A j \in DOMAIN chosen : chosen[j] \in DOMAIN paths
  <2>1. /\ DOMAIN chosen = 1 .. Len(chosen) /\ Len(chosen) \in Nat
        /\ \A j \in DOMAIN chosen : chosen[j] \in hits
    BY <1>12
  <2> QED BY <2>1, <1>11
<1>15. /\ new \in Seq(Arcs) /\ DOMAIN new = DOMAIN chosen
       /\ \A j \in DOMAIN chosen : new[j] = ArcOf(paths[chosen[j]], product, k)
  BY <1>7, <1>10, <1>14
<1> HIDE DEF new
<1>16. k \in Nat /\ k + 1 \in 1 .. Len(Operations) + 1
  BY <1>2, OperationsTyped
<1>17. /\ next \in k + 1 .. Len(Operations) + 1
       /\ \A j \in DOMAIN Operations :
             k + 1 <= j /\ j < next => ~ InBudget(Operations[j], product)
  BY <1>2, <1>16, AffordableFirst
<1> HIDE DEF next
<1>18. ArcsOK(arcs, base, product, next) /\ ArcsListed(arcs, base, product, next)
  <2> HIDE DEF k
  <2>1. InBudget(Operations[k], product) /\ \E i \in DOMAIN paths : paths[i].width = Operations[k].x
    BY <1>3, <1>5
  <2> DEFINE old == tx[t].arcs
  <2>2. old \in Seq(Arcs) /\ ArcsOK(old, base, product, k) /\ ArcsListed(old, base, product, k)
    BY <1>2, <1>4
  <2> HIDE DEF old
  <2>3. /\ base \in DictNodes /\ k \in DOMAIN Operations /\ paths \in Seq(FoundPaths)
        /\ EnumerationOK(<<>>, paths, base, op.x) /\ WalkOrdered(<<>>, paths, base, op.x)
        /\ \A i \in DOMAIN paths : base \o paths[i].out \in DictNodes
    BY <1>2, <1>4
  <2> DEFINE w == op.x
  <2> HIDE DEF w
  <2>4. EnumerationOK(<<>>, paths, base, w) /\ WalkOrdered(<<>>, paths, base, w)
    BY <2>3 DEF w
  <2>5. CanApply(base, paths, product, k, w)
    BY <2>1, <2>3, <2>4 DEF CanApply
  <2>6. NextAffordable(product, k, next)
    BY <1>17 DEF NextAffordable
  <2>7. MadeFrom(new, paths, product, k)
    BY <1>13, <1>15 DEF MadeFrom
  <2>8. ArcsOK(old \o new, base, product, next)
    BY <1>15, <2>2, <2>3, <2>5, <2>6, <2>7, ArcsGrow
  <2>9. ArcsListed(old \o new, base, product, next)
    BY <1>15, <2>2, <2>3, <2>4, <2>5, <2>6, <2>7, ListingGrows
  <2> QED BY <2>8, <2>9 DEF old
<1>19. /\ EnumerationOK(<<>>, paths, base, Operations[next].x)
       /\ WalkOrdered(<<>>, paths, base, Operations[next].x)
  BY <1>4, EnumerationIdle, OrderedIdle
<1> HIDE DEF arcs
<1>20. /\ r.state = tx[t].state /\ r.op = next /\ r.staged = tx[t].staged
       /\ r.arcs = arcs /\ r.paths = paths /\ r.stack = <<>>
  BY <1>1, <1>2 DEF Transactions, paths
<1> HIDE DEF r
<1>21. WalkAnswers(r, base, product)
  BY <1>4, <1>18, <1>19, <1>20 DEF WalkAnswers
<1> QED BY <1>1, <1>20, <1>21, WalkStep DEF base, product

(* No operation is left: the arcs are all of them.                         *)
LEMMA EndWalkAnswers ==
    ASSUME ExpansionInv, AnswerInv, NEW t \in Threads, EndWalk(t)
    PROVE  AnswerInv'
<1> DEFINE product == StateAt(tx[t].state)
           base == BaseOf(tx[t])
<1>1. /\ pc[t] = "walk" /\ tx[t].op > Len(Operations) /\ Goto(t, "commit")
      /\ UNCHANGED <<registries, answers, tx>>
  BY DEF EndWalk, Walking
<1>2. WalkAnswers(tx[t], base, product) /\ tx[t].op \in Nat
  BY <1>1, WalkBegins, TransactionFields
<1>3. \A j \in DOMAIN Operations : j < tx[t].op <=> j < Len(Operations) + 1
  BY <1>1, <1>2, OperationsTyped
<1> HIDE DEF base, product
<1>4. ApplicableBefore(base, product, tx[t].op) = ApplicableBefore(base, product, Len(Operations) + 1)
  BY <1>3 DEF ApplicableBefore
<1>5. /\ ArcsOK(tx[t].arcs, base, product, Len(Operations) + 1)
      /\ ArcsListed(tx[t].arcs, base, product, Len(Operations) + 1)
      /\ \A i \in DOMAIN tx[t].staged : InReach(base, product, tx[t].staged[i].node)
  <2>1. /\ ArcsOK(tx[t].arcs, base, product, tx[t].op)
        /\ ArcsListed(tx[t].arcs, base, product, tx[t].op)
        /\ \A i \in DOMAIN tx[t].staged : InReach(base, product, tx[t].staged[i].node)
    BY <1>2 DEF WalkAnswers
  <2>2. ArcsOK(tx[t].arcs, base, product, Len(Operations) + 1)
    BY <2>1, <1>4 DEF ArcsOK
  <2>3. ArcsListed(tx[t].arcs, base, product, Len(Operations) + 1)
    BY <2>1, <1>4 DEF ArcsListed
  <2> QED BY <2>1, <2>2, <2>3
<1>6. AnswerOK(id_to_node, id_to_state, tx[t], "commit")
  BY <1>5 DEF AnswerOK, base, product, BaseOf, StateAt, NodeAt
<1> QED BY <1>1, <1>6, GotoEffect, AnswerStep

----------------------------------------------------------------------------
(* Steps of the commit protocol                                            *)

(* What the invariant says after the walk.                                 *)
CommitAnswers(r, base, product) ==
    /\ \A i \in DOMAIN r.staged : InReach(base, product, r.staged[i].node)
    /\ ArcsOK(r.arcs, base, product, Len(Operations) + 1)
    /\ ArcsListed(r.arcs, base, product, Len(Operations) + 1)

(* A step of the protocol keeps the arcs and the staged nodes.             *)
LEMMA CommitCarries ==
    ASSUME ExpansionInv, AnswerInv, NEW t \in Threads,
           pc[t] \in {"commit", "resolve", "retire", "batch"},
           NEW r \in Transactions, r.state = tx[t].state, r.arcs = tx[t].arcs,
           SameStaging(tx[t].staged, r.staged), Len(r.staged) = Len(tx[t].staged)
    PROVE  /\ CommitAnswers(r, BaseOf(r), StateAt(r.state))
           /\ \A p \in {"commit", "resolve", "retire"} : AnswerOK(id_to_node, id_to_state, r, p)
           /\ PreparedOK(id_to_node, id_to_state, r, BaseOf(r)) /\ BatchLedTo(id_to_state, r) =>
                 AnswerOK(id_to_node, id_to_state, r, "batch")
<1>1. BaseOf(r) = BaseOf(tx[t])
  BY DEF BaseOf
<1>2. CommitAnswers(tx[t], BaseOf(tx[t]), StateAt(tx[t].state))
  <2>1. AnswerOK(id_to_node, id_to_state, tx[t], pc[t])
    BY DEF AnswerInv
  <2> QED BY <2>1 DEF AnswerOK, CommitAnswers, BaseOf, StateAt, NodeAt
<1>3. \A i \in DOMAIN r.staged : i \in DOMAIN tx[t].staged /\ r.staged[i].node = tx[t].staged[i].node
  <2>1. r.staged \in Seq(StagedNodes) /\ tx[t].staged \in Seq(StagedNodes)
    BY InvFacts, TransactionFields
  <2>2. DOMAIN r.staged = DOMAIN tx[t].staged
    BY <2>1
  <2> QED BY <2>2 DEF SameStaging, SameNodes
<1>4. CommitAnswers(r, BaseOf(r), StateAt(r.state))
  BY <1>1, <1>2, <1>3 DEF CommitAnswers
<1>5. \A p \in {"commit", "resolve", "retire"} : AnswerOK(id_to_node, id_to_state, r, p)
  BY <1>4 DEF AnswerOK, CommitAnswers, BaseOf, StateAt, NodeAt
<1>6. PreparedOK(id_to_node, id_to_state, r, BaseOf(r)) /\ BatchLedTo(id_to_state, r) =>
         AnswerOK(id_to_node, id_to_state, r, "batch")
  BY <1>4 DEF AnswerOK, CommitAnswers, BaseOf, StateAt, NodeAt
<1> QED BY <1>4, <1>5, <1>6

(* The steps up to the resolution of the last staged node.                 *)
LEMMA ResolutionAnswers ==
    ASSUME ExpansionInv, AnswerInv, NEW t \in Threads,
           LockNodes(t) \/ AdoptCanonical(t) \/ AddNode(t) \/ ReleaseToRetire(t) \/ Retry(t)
    PROVE  AnswerInv'
<1>1. tx[t] \in Transactions /\ tx[t].passes \in Nat
  BY InvFacts, TransactionFields
<1>2. CASE LockNodes(t)
  <2> DEFINE passes == IF tx[t].passes > MaxPasses(t) THEN tx[t].passes ELSE tx[t].passes + 1
             r == [tx[t] EXCEPT !.resolved = <<>>, !.additions = <<>>, !.passes = passes]
  <2>1. pc[t] = "commit" /\ Local(t, r) /\ Goto(t, "resolve") /\ UNCHANGED <<registries, answers>>
    BY <1>2 DEF LockNodes
  <2>2. <<>> \in Seq(Nat) /\ <<>> \in Seq(Additions) /\ passes \in Nat
    BY <1>1
  <2> HIDE DEF passes
  <2>3. r \in Transactions /\ r.state = tx[t].state /\ r.arcs = tx[t].arcs /\ r.staged = tx[t].staged
    BY <1>1, <2>2 DEF Transactions
  <2> HIDE DEF r
  <2>4. AnswerOK(id_to_node, id_to_state, r, "resolve")
    BY <2>1, <2>3, SameRefl, CommitCarries
  <2> QED BY <2>1, <2>4, LocalEffect, GotoEffect, AnswerStep
<1>3. CASE AdoptCanonical(t)
  <2>1. pc[t] = "resolve" /\ UNCHANGED <<registries, pc, answers>>
    BY <1>3 DEF AdoptCanonical, Resolving
  <2>2. PICK r \in Transactions :
           /\ Local(t, r) /\ r.state = tx[t].state /\ r.arcs = tx[t].arcs
           /\ SameStaging(tx[t].staged, r.staged) /\ Len(r.staged) = Len(tx[t].staged)
    BY <1>3, AdoptFacts
  <2>3. AnswerOK(id_to_node, id_to_state, r, "resolve")
    BY <2>1, <2>2, CommitCarries
  <2> QED BY <2>1, <2>2, <2>3, LocalEffect, AnswerStep
<1>4. CASE AddNode(t)
  <2>1. pc[t] = "resolve" /\ UNCHANGED <<registries, pc, answers>>
    BY <1>4 DEF AddNode, Resolving
  <2>2. PICK r \in Transactions :
           /\ Local(t, r) /\ r.state = tx[t].state /\ r.arcs = tx[t].arcs
           /\ r.staged = tx[t].staged
    BY <1>4, AddFacts
  <2>3. AnswerOK(id_to_node, id_to_state, r, "resolve")
    BY <2>1, <2>2, SameRefl, CommitCarries
  <2> QED BY <2>1, <2>2, <2>3, LocalEffect, AnswerStep
<1>5. CASE ReleaseToRetire(t)
  <2> DEFINE r == [tx[t] EXCEPT !.additions = <<>>]
  <2>1. pc[t] = "resolve" /\ Local(t, r) /\ Goto(t, "retire") /\ UNCHANGED <<registries, answers>>
    BY <1>5 DEF ReleaseToRetire, AllResolved
  <2>2. r \in Transactions /\ r.state = tx[t].state /\ r.arcs = tx[t].arcs /\ r.staged = tx[t].staged
    <3>1. <<>> \in Seq(Additions)
      OBVIOUS
    <3> QED BY <1>1, <3>1 DEF Transactions
  <2> HIDE DEF r
  <2>3. AnswerOK(id_to_node, id_to_state, r, "retire")
    BY <2>1, <2>2, SameRefl, CommitCarries
  <2> QED BY <2>1, <2>3, LocalEffect, GotoEffect, AnswerStep
<1>6. CASE Retry(t)
  <2> DEFINE r == [tx[t] EXCEPT !.retired = FALSE]
  <2>1. pc[t] = "retire" /\ Local(t, r) /\ Goto(t, "commit") /\ UNCHANGED <<registries, answers>>
    BY <1>6 DEF Retry
  <2>2. r \in Transactions /\ r.state = tx[t].state /\ r.arcs = tx[t].arcs /\ r.staged = tx[t].staged
    BY <1>1 DEF Transactions
  <2> HIDE DEF r
  <2>3. AnswerOK(id_to_node, id_to_state, r, "commit")
    BY <2>1, <2>2, SameRefl, CommitCarries
  <2> QED BY <2>1, <2>3, LocalEffect, GotoEffect, AnswerStep
<1> QED BY <1>2, <1>3, <1>4, <1>5, <1>6

(* The preparation begins with nothing prepared.                           *)
LEMMA LockStatesAnswers ==
    ASSUME ExpansionInv, AnswerInv, NEW t \in Threads, LockStates(t)
    PROVE  AnswerInv'
<1> DEFINE r == [tx[t] EXCEPT !.batch = <<>>, !.transitions = <<>>]
<1>1. pc[t] = "resolve" /\ Local(t, r) /\ Goto(t, "batch") /\ UNCHANGED <<registries, answers>>
  BY DEF LockStates, AllResolved
<1>2. /\ tx[t] \in Transactions /\ <<>> \in Seq(States) /\ <<>> \in Seq(Transitions)
      /\ id_to_state \in Seq(States)
  BY InvFacts
<1>3. /\ r \in Transactions /\ r.state = tx[t].state /\ r.arcs = tx[t].arcs
      /\ r.staged = tx[t].staged /\ r.batch = <<>> /\ r.transitions = <<>>
  BY <1>2 DEF Transactions
<1> HIDE DEF r
<1>4. Len(r.arcs) \in Nat
  <2>1. r.arcs \in Seq(Arcs)
    BY <1>3, TransactionFields
  <2> QED BY <2>1
<1>5. PreparedOK(id_to_node, id_to_state, r, BaseOf(r))
  BY <1>3, <1>4 DEF PreparedOK
<1>6. BatchLedTo(id_to_state, r)
  <2>1. id_to_state \o <<>> = id_to_state /\ Len(id_to_state) \in Nat
    BY <1>2
  <2> QED BY <2>1, <1>3 DEF BatchLedTo
<1>7. AnswerOK(id_to_node, id_to_state, r, "batch")
  BY <1>1, <1>3, <1>5, <1>6, SameRefl, CommitCarries
<1> QED BY <1>1, <1>7, LocalEffect, GotoEffect, AnswerStep

(* Before a walk and after a failure there is nothing to say.              *)
LEMMA IdleAnswers ==
    ASSUME NEW nodes, NEW states, NEW r, NEW p \in {"idle", "node", "unwind"}
    PROVE  AnswerOK(nodes, states, r, p)
BY DEF AnswerOK

(* Requests, failures and the environment.                                 *)
LEMMA OtherAnswers ==
    ASSUME ExpansionInv, AnswerInv, NEW t \in Threads,
           \/ \E id \in StateIds : Begin(t, id)
           \/ Abort(t) \/ Exhaust(t) \/ Unwound(t) \/ Cancel(t) \/ ProviderFault(t)
    PROVE  AnswerInv'
<1>1. CASE \E id \in StateIds : Begin(t, id)
  <2>1. PICK id \in StateIds : Begin(t, id)
    BY <1>1
  <2> DEFINE r == [tx[t] EXCEPT !.state = id]
  <2>2. Local(t, r) /\ Goto(t, "node") /\ UNCHANGED <<registries, answers>>
    BY <2>1 DEF Begin
  <2> HIDE DEF r
  <2> QED BY <2>2, IdleAnswers, LocalEffect, GotoEffect, AnswerStep
<1>2. CASE Abort(t) \/ Exhaust(t)
  <2>1. Goto(t, "unwind") /\ UNCHANGED <<registries, answers, tx>>
    BY <1>2 DEF Abort, Exhaust, Unwind
  <2> QED BY <2>1, IdleAnswers, GotoEffect, AnswerStep
<1>3. CASE Unwound(t)
  <2>1. Local(t, NoTx) /\ Goto(t, "idle") /\ UNCHANGED <<registries, answers>>
    BY <1>3 DEF Unwound
  <2> QED BY <2>1, IdleAnswers, LocalEffect, GotoEffect, AnswerStep
<1>4. CASE Cancel(t) \/ ProviderFault(t)
  <2>1. UNCHANGED <<registries, answers, tx, pc>>
    BY <1>4 DEF Cancel, ProviderFault
  <2>2. AnswerOK(id_to_node, id_to_state, tx[t], pc[t])
    BY DEF AnswerInv
  <2> QED BY <2>1, <2>2, AnswerStep
<1> QED BY <1>1, <1>2, <1>3, <1>4

(* A transition means the same when more is registered.                    *)
LEMMA MeaningPersists ==
    ASSUME NEW nodes \in Seq(Nodes), NEW nodes2 \in Seq(Nodes), SameNodes(nodes, nodes2),
           NEW states \in Seq(States), NEW states2 \in Seq(States), Extends(states, states2),
           StatesOK(states, Len(nodes)),
           NEW transition, transition.to \in Nat, transition.to < Len(states)
    PROVE  MeaningIn(nodes2, states2, transition) = MeaningIn(nodes, states, transition)
<1> DEFINE s == states[transition.to + 1]
           target == IF s.kind = "emit" THEN states[s.chain.target + 1] ELSE s
<1>1. /\ Len(states) \in Nat /\ DOMAIN states = 1 .. Len(states) /\ Len(nodes) \in Nat
      /\ DOMAIN nodes = 1 .. Len(nodes) /\ transition.to + 1 \in 1 .. Len(states)
  OBVIOUS
<1>2. s.kind = "product" \/ (s \in Emits /\ s.kind = "emit" /\ s.kind # "product")
  BY <1>1, StateFields
<1>3. states2[transition.to + 1] = s
  BY <1>1 DEF Extends
<1>4. s.kind = "emit" => s.chain.target + 1 \in 1 .. Len(states)
  <2>1. s.kind = "emit" => ChainWhole(states, transition.to + 1) /\ s.chain.target \in Nat
    BY <1>1, <1>2, EmitFields DEF StatesOK
  <2>2. s.kind = "emit" => s.chain.target < Len(states)
    BY <2>1 DEF ChainWhole
  <2> HIDE DEF s
  <2> QED BY <2>1, <2>2, <1>1
<1>5. s.kind = "emit" => /\ states2[s.chain.target + 1] = states[s.chain.target + 1]
                         /\ states[s.chain.target + 1].kind = "product"
  <2>1. s.kind = "emit" => ChainWhole(states, transition.to + 1)
    BY <1>1, <1>2 DEF StatesOK
  <2>2. s.kind = "emit" => states[s.chain.target + 1].kind = "product"
    BY <2>1 DEF ChainWhole
  <2> HIDE DEF s
  <2> QED BY <2>2, <1>4 DEF Extends
<1> HIDE DEF s
<1>6. \E i \in 1 .. Len(states) : target = states[i] /\ target.kind = "product"
  BY <1>1, <1>2, <1>4, <1>5 DEF s
<1>7. target = IF s.kind = "emit" THEN states2[s.chain.target + 1] ELSE s
  BY <1>5
<1>8. target = IF s.kind = "emit" THEN states[s.chain.target + 1] ELSE s
  OBVIOUS
<1> HIDE DEF target
<1>9. target.node + 1 \in DOMAIN nodes
  <2>1. PICK i \in 1 .. Len(states) : target = states[i] /\ target.kind = "product"
    BY <1>6
  <2>2. target \in Products /\ target.node < Len(nodes)
    BY <2>1, <1>1, StateFields DEF StatesOK
  <2>3. target.node \in Nat
    BY <2>2 DEF Products
  <2> QED BY <2>2, <2>3, <1>1
<1>10. nodes2[target.node + 1].node = nodes[target.node + 1].node
  BY <1>9 DEF SameNodes
<1> DEFINE wide == s.kind = "emit"
           Result(node) ==
              [input  |-> IF wide THEN s.chain.input ELSE transition.input,
               output |-> IF wide THEN s.chain.output ELSE transition.output,
               weight |-> transition.weight, node |-> node,
               pos |-> target.pos, cost |-> target.cost]
<1>11. MeaningIn(nodes, states, transition) = Result(nodes[target.node + 1].node)
  BY <1>8 DEF MeaningIn, s
<1>12. MeaningIn(nodes2, states2, transition) = Result(nodes2[target.node + 1].node)
  BY <1>3, <1>7 DEF MeaningIn
<1> QED BY <1>10, <1>11, <1>12

(* A state that transitions lead to stays one.                             *)
LEMMA LedToPersists ==
    ASSUME NEW states \in Seq(States), NEW states2 \in Seq(States), Extends(states, states2),
           NEW tos, \A h \in tos : h \in Nat /\ h < Len(states), NEW tos2, tos \subseteq tos2,
           NEW i \in 1 .. Len(states), LedTo(states, tos, i)
    PROVE  LedTo(states2, tos2, i)
<1>1. Len(states) \in Nat /\ \A h \in tos : h + 1 \in 1 .. Len(states)
  OBVIOUS
<1>2. states2[i] = states[i] /\ \A h \in tos : states2[h + 1] = states[h + 1]
  BY <1>1 DEF Extends
<1> QED BY <1>2 DEF LedTo

(* The one label of a narrow arc is all of it.                             *)
LEMMA NarrowLabel ==
    ASSUME NEW labels \in Text, Len(labels) <= 1
    PROVE  LabelAt(labels, 0) = labels
<1>1. labels \in Seq(Labels) /\ Len(labels) \in Nat
  BY DEF Text
<1>2. CASE Len(labels) = 0
  BY <1>1, <1>2 DEF LabelAt
<1>3. CASE Len(labels) = 1
  <2>1. labels[1] \in Labels
    BY <1>1, <1>3
  <2> DEFINE one == <<labels[1]>>
  <2>2. one \in Seq(Labels) /\ Len(one) = 1 /\ one[1] = labels[1]
    BY <2>1
  <2>3. LabelAt(labels, 0) = one
    BY <1>3 DEF LabelAt
  <2> HIDE DEF one
  <2>4. \A i \in 1 .. 1 : one[i] = labels[i]
    BY <2>2
  <2>5. one = labels
    BY <1>1, <1>3, <2>2, <2>4, SeqEqual
  <2> QED BY <2>3, <2>5
<1>4. Len(labels) = 0 \/ Len(labels) = 1
  <2> DEFINE n == Len(labels)
  <2>1. n \in Nat /\ n <= 1
    BY <1>1
  <2> HIDE DEF n
  <2>2. n = 0 \/ n = 1
    BY <2>1
  <2> QED BY <2>2 DEF n
<1> QED BY <1>2, <1>3, <1>4

(* The transition of the next arc.                                         *)
ArcTransition(t) ==
    [input |-> LabelAt(NextArc(t).input, 0), output |-> LabelAt(NextArc(t).output, 0),
     to |-> ArcTo(t), weight |-> NextArc(t).weight]

(* A transition keeps its shape when more is registered.                   *)
LEMMA ShapePersists ==
    ASSUME NEW states \in Seq(States), NEW states2 \in Seq(States), Extends(states, states2),
           NEW tr, tr.to \in Nat, tr.to < Len(states), NEW outcome,
           Shaped(states, tr, outcome)
    PROVE  Shaped(states2, tr, outcome)
<1>1. tr.to + 1 \in 1 .. Len(states)
  OBVIOUS
<1>2. states2[tr.to + 1] = states[tr.to + 1]
  BY <1>1 DEF Extends
<1> QED BY <1>2 DEF Shaped

(* It means what the arc does, and what was interned for it is led to.     *)
LEMMA ArcMeaning ==
    ASSUME ExpansionInv, NEW t \in Threads, pc[t] = "batch",
           Len(tx[t].transitions) < Len(tx[t].arcs)
    PROVE  /\ MeaningIn(Published(id_to_node, tx[t].additions), ArcStates(t), ArcTransition(t)) =
                 ArcOutcome(BaseOf(tx[t]), NextArc(t))
           /\ Shaped(ArcStates(t), ArcTransition(t), ArcOutcome(BaseOf(tx[t]), NextArc(t)))
           /\ \A i \in Len(WithBatch(t)) + 1 .. Len(ArcStates(t)) :
                 LedTo(ArcStates(t), {ArcTo(t)}, i)
<1> DEFINE arc == NextArc(t)
           product == ArcProduct(t)
           chain == ArcChain(t)
           target == chain.target
           nodes == Published(id_to_node, tx[t].additions)
           path == BaseOf(tx[t]) \o arc.output
           before == WithBatch(t)
           middle == WithTarget(t)
           states == ArcStates(t)
           to == ArcTo(t)
           width == ArcWidth(arc)
           tr == ArcTransition(t)
<1>1. /\ arc \in Arcs /\ product \in Products /\ product.kind = "product"
      /\ product.pos = arc.pos /\ product.cost = arc.cost
      /\ nodes[product.node + 1].node = path
      /\ before \in Seq(States) /\ middle \in Seq(States)
      /\ \A i \in Len(before) + 1 .. Len(middle) : middle[i] = product
      /\ StatesOK(middle, Len(nodes))
      /\ chain \in Chains /\ chain.input = arc.input /\ chain.output = arc.output
      /\ target \in Nat /\ target < Len(middle) /\ middle[target + 1] = product
      /\ width \in Nat
  BY ArcTargetOK
<1>2. /\ states \in Seq(States) /\ Extends(middle, states)
      /\ to \in Nat /\ to < Len(states)
      /\ IF width <= 1
         THEN to = target /\ states = middle
         ELSE /\ states[to + 1].kind = "emit" /\ states[to + 1].chain = chain
              /\ states[to + 1].position = 1
              /\ \A i \in Len(middle) + 1 .. Len(states) :
                    states[i].kind = "emit" /\ states[i].chain = chain
  BY ArcStatesOK
<1>3. arc.input \in Text /\ arc.output \in Text /\ Len(arc.input) \in Nat /\ Len(arc.output) \in Nat
  <2>1. arc.input \in Text /\ arc.output \in Text
    BY <1>1 DEF Arcs
  <2> QED BY <2>1 DEF Text
<1>4. /\ tr.input = LabelAt(arc.input, 0) /\ tr.output = LabelAt(arc.output, 0)
      /\ tr.to = to /\ tr.weight = arc.weight
  BY DEF ArcTransition
<1>5. width <= 1 => Len(arc.input) <= 1 /\ Len(arc.output) <= 1
  BY <1>3 DEF ArcWidth, Longer
<1>a. width = Longer(arc.input, arc.output)
  BY DEF ArcWidth
<1>6. Len(before) \in Nat /\ Len(middle) \in Nat /\ Len(states) \in Nat
  BY <1>1, <1>2
<1>7. states[target + 1] = product
  <2>1. target + 1 \in 1 .. Len(middle)
    BY <1>1, <1>6
  <2> HIDE DEF target, middle, states, product
  <2> QED BY <2>1, <1>1, <1>2 DEF Extends
<1>8. ArcOutcome(BaseOf(tx[t]), arc) =
         [input |-> arc.input, output |-> arc.output, weight |-> arc.weight,
          node |-> nodes[product.node + 1].node, pos |-> product.pos, cost |-> product.cost]
  BY <1>1 DEF ArcOutcome
<1> HIDE DEF arc, product, chain, target, nodes, path, before, middle, states, to, width, tr
<1>9. MeaningIn(nodes, states, tr) = ArcOutcome(BaseOf(tx[t]), arc)
  <2>1. CASE width <= 1
    <3>1. states[tr.to + 1] = product /\ product.kind # "emit"
      BY <2>1, <1>1, <1>2, <1>4, <1>7
    <3>2. tr.input = arc.input /\ tr.output = arc.output
      BY <2>1, <1>3, <1>4, <1>5, NarrowLabel
    <3> QED BY <3>1, <3>2, <1>4, <1>8 DEF MeaningIn
  <2>2. CASE ~ (width <= 1)
    <3>1. states[tr.to + 1].kind = "emit" /\ states[tr.to + 1].chain = chain
      BY <2>2, <1>2, <1>4
    <3>2. states[chain.target + 1] = product
      BY <1>7 DEF target
    <3> QED BY <3>1, <3>2, <1>1, <1>4, <1>8 DEF MeaningIn
  <2> QED BY <2>1, <2>2
<1>10. ASSUME NEW i \in Len(before) + 1 .. Len(states) PROVE LedTo(states, {to}, i)
  <2>1. CASE i \in Len(before) + 1 .. Len(middle)
    <3>1. middle[i] = product /\ i \in 1 .. Len(middle) /\ target + 1 \in 1 .. Len(middle)
      BY <2>1, <1>1, <1>6
    <3>2. i = target + 1
      <4>1. Identity(middle[i]) = Identity(middle[target + 1])
        BY <3>1, <1>1
      <4>2. i \in DOMAIN middle /\ target + 1 \in DOMAIN middle
        BY <3>1, <1>1
      <4> QED BY <4>1, <4>2, <1>1 DEF StatesOK
    <3>3. i - 1 = target
      BY <3>2, <1>1
    <3>4. CASE width <= 1
      BY <3>3, <3>4, <1>2 DEF LedTo
    <3>5. CASE ~ (width <= 1)
      <4>1. states[to + 1].kind = "emit" /\ states[to + 1].chain.target = i - 1
        BY <3>3, <3>5, <1>2 DEF target
      <4> QED BY <4>1 DEF LedTo
    <3> QED BY <3>4, <3>5
  <2>2. CASE i \notin Len(before) + 1 .. Len(middle)
    <3>1. i \in Len(middle) + 1 .. Len(states)
      BY <2>2, <1>6
    <3>2. ~ (width <= 1)
      BY <3>1, <1>2, <1>6
    <3> QED BY <3>1, <3>2, <1>2 DEF LedTo
  <2> QED BY <2>1, <2>2
<1>11. Shaped(states, tr, ArcOutcome(BaseOf(tx[t]), arc))
  <2>1. CASE width <= 1
    <3>1. states[tr.to + 1].kind = "product"
      BY <2>1, <1>1, <1>2, <1>4, <1>7
    <3> QED BY <2>1, <3>1, <1>4, <1>8, <1>a DEF Shaped
  <2>2. CASE ~ (width <= 1)
    <3>1. states[tr.to + 1].kind = "emit" /\ states[tr.to + 1].position = 1
      BY <2>2, <1>2, <1>4
    <3> QED BY <2>2, <3>1, <1>4, <1>8, <1>a DEF Shaped
  <2> QED BY <2>1, <2>2
<1> QED BY <1>9, <1>10, <1>11 DEF arc, nodes, before, states, to, tr

(* An arc is prepared.                                                     *)
LEMMA PrepareArcAnswers ==
    ASSUME ExpansionInv, AnswerInv, NEW t \in Threads, PrepareArc(t)
    PROVE  AnswerInv'
<1> DEFINE arc == NextArc(t)
           base == BaseOf(tx[t])
           nodes == Published(id_to_node, tx[t].additions)
           before == WithBatch(t)
           states == ArcStates(t)
           old == tx[t].transitions
           new == ArcTransition(t)
           batch == SubSeq(states, Len(id_to_state) + 1, Len(states))
           transitions == Append(old, new)
           r == [tx[t] EXCEPT !.batch = batch, !.transitions = transitions]
<1>1. /\ pc[t] = "batch" /\ Len(old) < Len(tx[t].arcs)
      /\ Local(t, r) /\ UNCHANGED <<registries, pc, answers>>
  BY DEF PrepareArc, ArcTransition, ArcTo
<1>2. /\ arc \in Arcs /\ states \in Seq(States) /\ Extends(before, states)
      /\ ArcTo(t) \in Nat /\ ArcTo(t) < Len(states)
  BY <1>1, ArcStatesOK
<1>3. /\ tx[t] \in Transactions /\ id_to_state \in Seq(States) /\ tx[t].batch \in Seq(States)
      /\ old \in Seq(Transitions) /\ id_to_node \in Seq(Nodes)
      /\ tx[t].additions \in Seq(Additions) /\ tx[t].arcs \in Seq(Arcs)
      /\ tx[t].staged \in Seq(StagedNodes)
  BY InvFacts, TransactionFields
<1>4. /\ MeaningIn(nodes, states, new) = ArcOutcome(base, arc)
      /\ Shaped(states, new, ArcOutcome(base, arc))
      /\ \A i \in Len(before) + 1 .. Len(states) : LedTo(states, {ArcTo(t)}, i)
  BY <1>1, ArcMeaning
<1>5. PreparationOK(id_to_node, id_to_state, tx[t])
  BY <1>1, CommitFacts
<1>6. /\ before = id_to_state \o tx[t].batch /\ before \in Seq(States)
      /\ StatesOK(before, Len(nodes))
      /\ \A i \in DOMAIN old : old[i].to \in Nat /\ old[i].to < Len(before)
  <2>1. before = id_to_state \o tx[t].batch /\ before \in Seq(States)
    BY <1>3 DEF WithBatch
  <2>2. \A i \in DOMAIN old : old[i] \in Transitions
    BY <1>3
  <2> QED BY <2>1, <2>2, <1>5 DEF PreparationOK, Transitions
<1>7. nodes \in Seq(Nodes)
  BY <1>3, PublishedShape
<1>8. AnswerOK(id_to_node, id_to_state, tx[t], "batch")
  BY <1>1 DEF AnswerInv
<1>9. /\ PreparedOK(id_to_node, id_to_state, tx[t], base)
      /\ BatchLedTo(id_to_state, tx[t])
  BY <1>8 DEF AnswerOK, BaseOf, StateAt, NodeAt
<1>10. /\ arc.input \in Text /\ arc.output \in Text /\ arc.weight \in Nat
       /\ arc = tx[t].arcs[Len(old) + 1]
  BY <1>2 DEF Arcs, NextArc
<1>11. new \in Transitions /\ new.to = ArcTo(t)
  <2>1. LabelAt(arc.input, 0) \in Text /\ LabelAt(arc.output, 0) \in Text
    BY <1>10, LabelAtTyped
  <2> QED BY <2>1, <1>2, <1>10 DEF Transitions, ArcTransition
<1> HIDE DEF arc, base, states, new, nodes, before
<1>12. Extends(id_to_state, states) /\ Extends(id_to_state, before)
  <2> DEFINE b == tx[t].batch
  <2>1. b \in Seq(States) /\ before = id_to_state \o b
    BY <1>3, <1>6
  <2> HIDE DEF b
  <2>2. /\ id_to_state \o b \in Seq(States) /\ Len(id_to_state \o b) = Len(id_to_state) + Len(b)
        /\ \A i \in 1 .. Len(id_to_state) : (id_to_state \o b)[i] = id_to_state[i]
    BY <2>1, <1>3, ConcatShape
  <2>3. Len(b) \in Nat /\ Len(id_to_state) \in Nat
    BY <2>1, <1>3
  <2>4. Extends(id_to_state, before)
    BY <2>1, <2>2, <2>3 DEF Extends
  <2> QED BY <2>4, <1>2, <1>3, <1>6, ExtendsTransitive
<1>13. batch \in Seq(States) /\ id_to_state \o batch = states
  BY <1>2, <1>3, <1>12, SuffixOf
<1> HIDE DEF batch, old
<1>14. /\ transitions \in Seq(Transitions) /\ Len(transitions) = Len(old) + 1
       /\ DOMAIN transitions = DOMAIN old \cup {Len(old) + 1}
       /\ transitions[Len(old) + 1] = new
       /\ \A i \in DOMAIN old : transitions[i] = old[i]
  BY <1>3, <1>11, AppendShape
<1> HIDE DEF transitions
<1>15. /\ r \in Transactions /\ r.state = tx[t].state /\ r.arcs = tx[t].arcs
       /\ r.staged = tx[t].staged /\ r.additions = tx[t].additions
       /\ r.batch = batch /\ r.transitions = transitions
  BY <1>3, <1>13, <1>14 DEF Transactions
<1> HIDE DEF r
<1>16. BaseOf(r) = base
  BY <1>15 DEF base, BaseOf
<1>17. PreparedOK(id_to_node, id_to_state, r, base)
  <2>1. Len(transitions) <= Len(tx[t].arcs)
    <3>1. Len(old) \in Nat /\ Len(tx[t].arcs) \in Nat
      BY <1>3
    <3> QED BY <3>1, <1>1, <1>14
  <2>2. ASSUME NEW i \in DOMAIN transitions
        PROVE  /\ MeaningIn(nodes, states, transitions[i]) = ArcOutcome(base, tx[t].arcs[i])
               /\ Shaped(states, transitions[i], ArcOutcome(base, tx[t].arcs[i]))
    <3>1. CASE i = Len(old) + 1
      BY <3>1, <1>4, <1>10, <1>14
    <3>2. CASE i \in DOMAIN old
      <4>1. /\ MeaningIn(nodes, before, old[i]) = ArcOutcome(base, tx[t].arcs[i])
            /\ Shaped(before, old[i], ArcOutcome(base, tx[t].arcs[i]))
        BY <3>2, <1>6, <1>9 DEF PreparedOK, nodes, old
      <4>2. old[i].to \in Nat /\ old[i].to < Len(before)
        BY <3>2, <1>6
      <4>3. MeaningIn(nodes, states, old[i]) = MeaningIn(nodes, before, old[i])
        <5> DEFINE tr == old[i]
        <5>1. SameNodes(nodes, nodes) /\ tr.to \in Nat /\ tr.to < Len(before)
          BY <4>2, SameRefl
        <5>2. /\ before \in Seq(States) /\ states \in Seq(States) /\ Extends(before, states)
              /\ StatesOK(before, Len(nodes))
          BY <1>2, <1>6
        <5> HIDE DEF tr
        <5>3. MeaningIn(nodes, states, tr) = MeaningIn(nodes, before, tr)
          BY <5>1, <5>2, <1>7, MeaningPersists
        <5> QED BY <5>3 DEF tr
      <4>4. Shaped(states, old[i], ArcOutcome(base, tx[t].arcs[i]))
        <5> DEFINE tr == old[i]
                   outcome == ArcOutcome(base, tx[t].arcs[i])
        <5>1. /\ tr.to \in Nat /\ tr.to < Len(before) /\ Shaped(before, tr, outcome)
              /\ before \in Seq(States) /\ states \in Seq(States) /\ Extends(before, states)
          BY <4>1, <4>2, <1>2, <1>6
        <5> HIDE DEF tr, outcome
        <5>2. Shaped(states, tr, outcome)
          BY <5>1, ShapePersists
        <5> QED BY <5>2 DEF tr, outcome
      <4> QED BY <3>2, <4>1, <4>3, <4>4, <1>14
    <3> QED BY <3>1, <3>2, <1>14
  <2> QED BY <2>1, <2>2, <1>13, <1>15 DEF PreparedOK, nodes
<1>18. BatchLedTo(id_to_state, r)
  <2> DEFINE tos == Targets(transitions)
  <2>1. Targets(old) \subseteq tos /\ {ArcTo(t)} \subseteq tos
    BY <1>11, <1>14 DEF Targets
  <2>2. \A h \in Targets(old) : h \in Nat /\ h < Len(before)
    BY <1>6 DEF Targets
  <2> HIDE DEF tos
  <2>3. Len(before) \in Nat /\ Len(states) \in Nat /\ Len(id_to_state) \in Nat
    BY <1>2, <1>3, <1>6
  <2>4. ASSUME NEW i \in Len(id_to_state) + 1 .. Len(states) PROVE LedTo(states, tos, i)
    <3>1. CASE i \in Len(before) + 1 .. Len(states)
      <4>1. LedTo(states, {ArcTo(t)}, i)
        BY <3>1, <1>4
      <4> QED BY <4>1, <2>1 DEF LedTo
    <3>2. CASE i \notin Len(before) + 1 .. Len(states)
      <4>1. i \in Len(id_to_state) + 1 .. Len(before) /\ i \in 1 .. Len(before)
        BY <3>2, <2>3
      <4>2. LedTo(before, Targets(old), i)
        BY <4>1, <1>6, <1>9 DEF BatchLedTo, old
      <4> QED BY <4>1, <4>2, <2>1, <2>2, <1>2, <1>6, LedToPersists
    <3> QED BY <3>1, <3>2
  <2> QED BY <2>4, <1>13, <1>15 DEF BatchLedTo, tos
<1>19. AnswerOK(id_to_node, id_to_state, r, "batch")
  BY <1>1, <1>15, <1>16, <1>17, <1>18, SameRefl, CommitCarries
<1> QED BY <1>1, <1>19, LocalEffect, AnswerStep

----------------------------------------------------------------------------
(* Publication                                                             *)

(* A product and its node are the same when more is registered.            *)
LEMMA ProductPersists ==
    ASSUME NEW nodes \in Seq(Nodes), NEW nodes2 \in Seq(Nodes), SameNodes(nodes, nodes2),
           NEW states \in Seq(States), NEW states2 \in Seq(States), Extends(states, states2),
           StatesOK(states, Len(nodes)),
           NEW i \in 1 .. Len(states), states[i].kind = "product"
    PROVE  /\ states2[i] = states[i]
           /\ nodes2[states[i].node + 1].node = nodes[states[i].node + 1].node
<1> DEFINE product == states[i]
           j == product.node + 1
<1>1. i \in DOMAIN states /\ Len(nodes) \in Nat
  OBVIOUS
<1>2. product \in Products /\ product.node < Len(nodes)
  BY <1>1, StateFields DEF StatesOK
<1>3. product.node \in Nat
  BY <1>2 DEF Products
<1>4. states2[i] = states[i]
  BY DEF Extends
<1>5. j \in DOMAIN nodes
  BY <1>1, <1>2, <1>3
<1> HIDE DEF product, j
<1>6. nodes2[j].node = nodes[j].node
  BY <1>5 DEF SameNodes
<1> QED BY <1>4, <1>6 DEF j, product

(* What a thread that holds no lock has found stays so when another one    *)
(* publishes.                                                              *)
LEMMA AnswerPersists ==
    ASSUME NEW nodes \in Seq(Nodes), NEW nodes2 \in Seq(Nodes), SameNodes(nodes, nodes2),
           NEW states \in Seq(States), NEW states2 \in Seq(States), Extends(states, states2),
           StatesOK(states, Len(nodes)),
           NEW r \in Transactions, NEW p, p \notin {"resolve", "batch"},
           TransactionOK(nodes, states, r, p), AnswerOK(nodes, states, r, p)
    PROVE  AnswerOK(nodes2, states2, r, p)
<1> DEFINE i == r.state + 1
<1>1. r.state \in Nat /\ r.state < Len(states) /\ states[i].kind = "product"
  BY TransactionFields DEF TransactionOK
<1>2. i \in 1 .. Len(states)
  BY <1>1
<1> HIDE DEF i
<1>3. /\ states2[i] = states[i]
      /\ nodes2[states[i].node + 1].node = nodes[states[i].node + 1].node
  BY <1>1, <1>2, ProductPersists
<1> DEFINE product == states[i]
           base == nodes[states[i].node + 1].node
<1>4. product = states2[i] /\ base = nodes2[states2[i].node + 1].node
  BY <1>3
<1>5. AnswerOK(nodes2, states2, r, p) <=>
        /\ p = "walk" => /\ r.stack # <<>> => /\ r.op \in DOMAIN Operations
                                              /\ Len(r.stack) <= Operations[r.op].x
                         /\ StackOK(r.stack, base)
                         /\ EnumerationOK(r.stack, r.paths, base, Operations[r.op].x)
                         /\ WalkOrdered(r.stack, r.paths, base, Operations[r.op].x)
                         /\ ArcsOK(r.arcs, base, product, r.op)
                         /\ ArcsListed(r.arcs, base, product, r.op)
        /\ p \in {"walk", "commit", "resolve", "retire", "batch"} =>
              \A k \in DOMAIN r.staged : InReach(base, product, r.staged[k].node)
        /\ p \in {"commit", "resolve", "retire", "batch"} =>
              /\ ArcsOK(r.arcs, base, product, Len(Operations) + 1)
              /\ ArcsListed(r.arcs, base, product, Len(Operations) + 1)
  BY <1>4 DEF AnswerOK, i
<1>6. AnswerOK(nodes, states, r, p) <=>
        /\ p = "walk" => /\ r.stack # <<>> => /\ r.op \in DOMAIN Operations
                                              /\ Len(r.stack) <= Operations[r.op].x
                         /\ StackOK(r.stack, base)
                         /\ EnumerationOK(r.stack, r.paths, base, Operations[r.op].x)
                         /\ WalkOrdered(r.stack, r.paths, base, Operations[r.op].x)
                         /\ ArcsOK(r.arcs, base, product, r.op)
                         /\ ArcsListed(r.arcs, base, product, r.op)
        /\ p \in {"walk", "commit", "resolve", "retire", "batch"} =>
              \A k \in DOMAIN r.staged : InReach(base, product, r.staged[k].node)
        /\ p \in {"commit", "resolve", "retire", "batch"} =>
              /\ ArcsOK(r.arcs, base, product, Len(Operations) + 1)
              /\ ArcsListed(r.arcs, base, product, Len(Operations) + 1)
  BY DEF AnswerOK, i
<1> QED BY <1>5, <1>6

(* The clauses of Exact, for a product and its node.                       *)
ExactFor(nodes, states, base, product, answer) ==
    LET pairs == ApplicableBefore(base, product, Len(Operations) + 1)
        ts    == answer.transitions
    IN  /\ {MeaningIn(nodes, states, ts[i]) : i \in DOMAIN ts} =
              {Outcome(base, product, pair) : pair \in pairs}
        /\ Len(ts) = Cardinality(pairs)
        /\ answer.final <=> product.pos = Len(Query) /\ IsFinal(base)

(* An exact answer stays exact when more is registered.                    *)
LEMMA ExactPersists ==
    ASSUME NEW nodes \in Seq(Nodes), NEW nodes2 \in Seq(Nodes), SameNodes(nodes, nodes2),
           NEW states \in Seq(States), NEW states2 \in Seq(States), Extends(states, states2),
           StatesOK(states, Len(nodes)),
           NEW id, id + 1 \in 1 .. Len(states), states[id + 1].kind = "product",
           NEW answer, Leads(answer, Len(states)), Exact(nodes, states, id, answer)
    PROVE  Exact(nodes2, states2, id, answer)
<1> DEFINE product == states[id + 1]
           base == nodes[product.node + 1].node
           ts == answer.transitions
<1>1. product = states2[id + 1] /\ base = nodes2[states2[id + 1].node + 1].node
  <2> DEFINE i == id + 1
  <2>1. i \in 1 .. Len(states) /\ states[i].kind = "product"
    OBVIOUS
  <2> HIDE DEF i
  <2>2. /\ states2[i] = states[i]
        /\ nodes2[states[i].node + 1].node = nodes[states[i].node + 1].node
    BY <2>1, ProductPersists
  <2> QED BY <2>2 DEF i
<1>2. Exact(nodes, states, id, answer) <=> ExactFor(nodes, states, base, product, answer)
  BY DEF Exact, ExactFor
<1>3. Exact(nodes2, states2, id, answer) <=> ExactFor(nodes2, states2, base, product, answer)
  BY <1>1 DEF Exact, ExactFor
<1> HIDE DEF product, base
<1>4. ASSUME NEW i \in DOMAIN ts
      PROVE  MeaningIn(nodes2, states2, ts[i]) = MeaningIn(nodes, states, ts[i])
  <2>1. ts[i].to \in Nat /\ ts[i].to < Len(states)
    BY DEF Leads
  <2> HIDE DEF ts
  <2> DEFINE tr == ts[i]
  <2>2. tr.to \in Nat /\ tr.to < Len(states)
    BY <2>1
  <2> HIDE DEF tr
  <2>3. MeaningIn(nodes2, states2, tr) = MeaningIn(nodes, states, tr)
    BY <2>2, MeaningPersists
  <2> QED BY <2>3 DEF tr
<1>5. {MeaningIn(nodes2, states2, ts[i]) : i \in DOMAIN ts} =
         {MeaningIn(nodes, states, ts[i]) : i \in DOMAIN ts}
  BY <1>4
<1>6. ExactFor(nodes2, states2, base, product, answer)
  BY <1>2, <1>5 DEF ExactFor
<1> QED BY <1>3, <1>6

(* The answer that is published is exact over the registries as they are   *)
(* published.                                                              *)
LEMMA PublishedAnswer ==
    ASSUME ExpansionInv, AnswerInv, NEW t \in Threads, Publish(t)
    PROVE  LET answer == [final |-> FinalWeightOf(StateAt(tx[t].state)),
                          transitions |-> tx[t].transitions]
           IN  /\ Exact(id_to_node', id_to_state', tx[t].state, answer)
               /\ Listed(id_to_node', id_to_state', tx[t].state, answer)
               /\ Answer(tx[t].state, answer)
<1> DEFINE id == tx[t].state
           product == StateAt(id)
           base == BaseOf(tx[t])
           pairs == ApplicableBefore(base, product, Len(Operations) + 1)
           nodes == id_to_node'
           states == id_to_state'
           ts == tx[t].transitions
           arcs == tx[t].arcs
           answer == [final |-> FinalWeightOf(product), transitions |-> ts]
<1>1. pc[t] = "batch" /\ Len(ts) = Len(arcs) /\ Answer(id, answer)
  BY DEF Publish
<1>2. /\ nodes = Published(id_to_node, tx[t].additions) /\ states = id_to_state \o tx[t].batch
      /\ nodes \in Seq(Nodes) /\ states \in Seq(States)
      /\ SameNodes(id_to_node, nodes) /\ Extends(id_to_state, states)
  BY PublishFacts
<1>3. /\ id_to_node \in Seq(Nodes) /\ id_to_state \in Seq(States)
      /\ ts \in Seq(Transitions) /\ arcs \in Seq(Arcs) /\ id \in Nat /\ id < Len(id_to_state)
      /\ id_to_state[id + 1].kind = "product" /\ StatesOK(id_to_state, Len(id_to_node))
  <2>1. ts \in Seq(Transitions) /\ arcs \in Seq(Arcs) /\ id \in Nat
    BY InvFacts, TransactionFields
  <2> QED BY <2>1, <1>1, InvFacts, CommitFacts DEF ExpansionInv, RegistriesOK
<1>4. /\ ArcsOK(arcs, base, product, Len(Operations) + 1)
      /\ ArcsListed(arcs, base, product, Len(Operations) + 1)
      /\ PreparedOK(id_to_node, id_to_state, tx[t], base)
  <2>1. AnswerOK(id_to_node, id_to_state, tx[t], "batch")
    BY <1>1 DEF AnswerInv
  <2> QED BY <2>1 DEF AnswerOK, BaseOf, StateAt, NodeAt
<1>5. product = states[id + 1] /\ base = nodes[states[id + 1].node + 1].node
  <2> DEFINE i == id + 1
  <2>1. i \in 1 .. Len(id_to_state) /\ id_to_state[i].kind = "product"
    BY <1>3
  <2>2. /\ id_to_node \in Seq(Nodes) /\ nodes \in Seq(Nodes) /\ SameNodes(id_to_node, nodes)
        /\ id_to_state \in Seq(States) /\ states \in Seq(States)
        /\ Extends(id_to_state, states) /\ StatesOK(id_to_state, Len(id_to_node))
    BY <1>2, <1>3
  <2> HIDE DEF i, nodes, states, ts, arcs, answer, product, base, id
  <2>3. /\ states[i] = id_to_state[i]
        /\ nodes[id_to_state[i].node + 1].node = id_to_node[id_to_state[i].node + 1].node
    BY <2>1, <2>2, ProductPersists
  <2> QED BY <2>3 DEF i, product, base, id, BaseOf, StateAt, NodeAt
<1>6. \A i \in DOMAIN ts : /\ MeaningIn(nodes, states, ts[i]) = ArcOutcome(base, arcs[i])
                           /\ Shaped(states, ts[i], ArcOutcome(base, arcs[i]))
  BY <1>2, <1>4 DEF PreparedOK
<1>7. DOMAIN ts = DOMAIN arcs
  BY <1>1, <1>3
<1>8. product.cost <= MaxCost
  BY StartFacts
<1>9. FinalWeightOf(product) <=> product.pos = Len(Query) /\ IsFinal(base)
  BY <1>8 DEF FinalWeightOf, BaseOf
<1>10. answer.transitions = ts /\ (answer.final <=> FinalWeightOf(product))
  OBVIOUS
<1>a. answer \in [final : BOOLEAN, transitions : Seq(Transitions)]
  <2>1. FinalWeightOf(product) \in BOOLEAN
    BY DEF FinalWeightOf
  <2> HIDE DEF product, ts
  <2> QED BY <2>1, <1>3
<1>b. Listed(nodes, states, id, answer) <=>
         /\ answer \in [final : BOOLEAN, transitions : Seq(Transitions)]
         /\ Lists(nodes, states, ts, base, product)
  <2> HIDE DEF answer, nodes, states, base, product
  <2> QED BY <1>5, <1>10 DEF Listed
<1>11. Exact(nodes, states, id, answer) <=> ExactFor(nodes, states, base, product, answer)
  <2> HIDE DEF answer, nodes, states, base, product
  <2> QED BY <1>5 DEF Exact, ExactFor
<1> HIDE DEF answer, nodes, states, base, product, ts, arcs
<1>12. {MeaningIn(nodes, states, ts[i]) : i \in DOMAIN ts} = {ArcOutcome(base, arcs[i]) : i \in DOMAIN arcs}
  BY <1>6, <1>7
<1>13. /\ {MeaningIn(nodes, states, ts[i]) : i \in DOMAIN ts} = {Outcome(base, product, pair) : pair \in pairs}
       /\ Len(ts) = Cardinality(pairs)
  BY <1>1, <1>4, <1>12 DEF ArcsOK
<1>14. ExactFor(nodes, states, base, product, answer)
  BY <1>9, <1>10, <1>13 DEF ExactFor
<1>15. Exact(nodes, states, id, answer)
  BY <1>11, <1>14
<1>16. Lists(nodes, states, ts, base, product)
  BY <1>1, <1>4, <1>6, <1>7 DEF ArcsListed, Lists
<1>17. Listed(nodes, states, id, answer)
  BY <1>16, <1>a, <1>b
<1> QED BY <1>1, <1>15, <1>17 DEF answer, nodes, states, product, ts

(* A listed answer stays listed when more is registered.                   *)
LEMMA ListedPersists ==
    ASSUME NEW nodes \in Seq(Nodes), NEW nodes2 \in Seq(Nodes), SameNodes(nodes, nodes2),
           NEW states \in Seq(States), NEW states2 \in Seq(States), Extends(states, states2),
           StatesOK(states, Len(nodes)),
           NEW id, id + 1 \in 1 .. Len(states), states[id + 1].kind = "product",
           NEW answer, Leads(answer, Len(states)), Listed(nodes, states, id, answer)
    PROVE  Listed(nodes2, states2, id, answer)
<1> DEFINE product == states[id + 1]
           base == nodes[product.node + 1].node
           ts == answer.transitions
<1>1. product = states2[id + 1] /\ base = nodes2[states2[id + 1].node + 1].node
  <2> DEFINE i == id + 1
  <2>1. i \in 1 .. Len(states) /\ states[i].kind = "product"
    OBVIOUS
  <2> HIDE DEF i
  <2>2. /\ states2[i] = states[i]
        /\ nodes2[states[i].node + 1].node = nodes[states[i].node + 1].node
    BY <2>1, ProductPersists
  <2> QED BY <2>2 DEF i
<1>2. /\ answer \in [final : BOOLEAN, transitions : Seq(Transitions)]
      /\ Lists(nodes, states, ts, base, product)
  BY DEF Listed
<1>3. Listed(nodes2, states2, id, answer) <=>
         /\ answer \in [final : BOOLEAN, transitions : Seq(Transitions)]
         /\ Lists(nodes2, states2, ts, base, product)
  BY <1>1 DEF Listed
<1> HIDE DEF product, base
<1>4. ASSUME NEW i \in DOMAIN ts, NEW outcome
      PROVE  /\ MeaningIn(nodes2, states2, ts[i]) = MeaningIn(nodes, states, ts[i])
             /\ Shaped(states, ts[i], outcome) => Shaped(states2, ts[i], outcome)
  <2>1. ts[i].to \in Nat /\ ts[i].to < Len(states)
    BY DEF Leads
  <2> HIDE DEF ts
  <2> DEFINE tr == ts[i]
  <2>2. tr.to \in Nat /\ tr.to < Len(states)
    BY <2>1
  <2> HIDE DEF tr
  <2>3. MeaningIn(nodes2, states2, tr) = MeaningIn(nodes, states, tr)
    BY <2>2, MeaningPersists
  <2>4. Shaped(states, tr, outcome) => Shaped(states2, tr, outcome)
    BY <2>2, ShapePersists
  <2> QED BY <2>3, <2>4 DEF tr
<1> HIDE DEF ts
<1>5. Lists(nodes2, states2, ts, base, product)
  BY <1>2, <1>4 DEF Lists
<1> QED BY <1>2, <1>3, <1>5

(* An answer adds to what was answered.                                    *)
LEMMA AnswerEffect ==
    ASSUME HistoryOK, NEW id \in DOMAIN answers, NEW answer, Answer(id, answer)
    PROVE  /\ DOMAIN answers' = DOMAIN answers
           /\ answers'[id] = answers[id] \cup {answer}
           /\ \A x \in DOMAIN answers \ {id} : answers'[x] = answers[x]
           /\ AllTargets' = AllTargets \cup Targets(answer.transitions)
<1>1. answers' = [answers EXCEPT ![id] = answers[id] \cup {answer}]
  BY DEF Answer
<1>2. /\ DOMAIN answers' = DOMAIN answers
      /\ answers'[id] = answers[id] \cup {answer}
      /\ \A x \in DOMAIN answers \ {id} : answers'[x] = answers[x]
  BY <1>1
<1>3. UNION {answers'[x] : x \in DOMAIN answers'} = (UNION {answers[x] : x \in DOMAIN answers}) \cup {answer}
  <2>1. ASSUME NEW a \in UNION {answers'[x] : x \in DOMAIN answers'}
        PROVE  a \in (UNION {answers[x] : x \in DOMAIN answers}) \cup {answer}
    BY <1>2
  <2>2. ASSUME NEW a \in (UNION {answers[x] : x \in DOMAIN answers}) \cup {answer}
        PROVE  a \in UNION {answers'[x] : x \in DOMAIN answers'}
    <3>1. CASE a = answer
      BY <3>1, <1>2
    <3>2. CASE a # answer
      <4>1. PICK x \in DOMAIN answers : a \in answers[x]
        BY <2>2, <3>2
      <4> QED BY <4>1, <1>2
    <3> QED BY <3>1, <3>2
  <2> QED BY <2>1, <2>2
<1> DEFINE given == UNION {answers[x] : x \in DOMAIN answers}
<1>4. AllTargets = UNION {Targets(a.transitions) : a \in given}
  BY DEF AllTargets
<1>5. AllTargets' = UNION {Targets(a.transitions) : a \in given \cup {answer}}
  <2> DEFINE now == UNION {answers'[x] : x \in DOMAIN answers'}
  <2>1. AllTargets' = UNION {Targets(a.transitions) : a \in now}
    BY DEF AllTargets, Targets
  <2>2. now = given \cup {answer}
    BY <1>3
  <2> HIDE DEF now, given
  <2> QED BY <2>1, <2>2
<1> HIDE DEF given
<1>6. UNION {Targets(a.transitions) : a \in given \cup {answer}} =
         (UNION {Targets(a.transitions) : a \in given}) \cup Targets(answer.transitions)
  OBVIOUS
<1> QED BY <1>2, <1>4, <1>5, <1>6

(* All targets are registered.                                             *)
LEMMA TargetsRegistered ==
    ASSUME HistoryOK
    PROVE  \A h \in AllTargets : h \in Nat /\ h < Len(id_to_state)
BY DEF HistoryOK, AllTargets, Targets

(* The registries after a step that only adds to them.                     *)
Grown ==
    /\ id_to_node' \in Seq(Nodes) /\ SameNodes(id_to_node, id_to_node')
    /\ id_to_state' \in Seq(States) /\ Extends(id_to_state, id_to_state')
    /\ Len(id_to_state') <= MaxStates

(* Registered products stay where they are.                                *)
LEMMA GrownProduct ==
    ASSUME ExpansionInv, Grown, NEW id \in StateIds
    PROVE  /\ id \in StateIds' /\ id + 1 \in 1 .. Len(id_to_state)
           /\ id_to_state'[id + 1] = id_to_state[id + 1]
           /\ StateAt(id).kind = "product" =>
                 id_to_node'[StateAt(id).node + 1].node = NodeAt(StateAt(id).node)
<1>1. /\ id_to_node \in Seq(Nodes) /\ id_to_state \in Seq(States)
      /\ StatesOK(id_to_state, Len(id_to_node))
  BY DEF ExpansionInv, RegistryTypes, RegistriesOK
<1>2. /\ Len(id_to_state) \in Nat /\ Len(id_to_state') \in Nat
      /\ Len(id_to_state) <= Len(id_to_state')
  BY <1>1 DEF Grown, Extends
<1>3. id \in StateIds' /\ id + 1 \in 1 .. Len(id_to_state)
  BY <1>2 DEF StateIds
<1>4. id_to_state'[id + 1] = id_to_state[id + 1]
  BY <1>3 DEF Grown, Extends
<1>5. CASE StateAt(id).kind = "product"
  <2> DEFINE i == id + 1
             nodes == id_to_node'
             states == id_to_state'
  <2>1. /\ i \in 1 .. Len(id_to_state) /\ id_to_state[i].kind = "product"
        /\ nodes \in Seq(Nodes) /\ SameNodes(id_to_node, nodes)
        /\ states \in Seq(States) /\ Extends(id_to_state, states)
    BY <1>3, <1>5 DEF StateAt, Grown
  <2> HIDE DEF i, nodes, states
  <2>2. nodes[id_to_state[i].node + 1].node = id_to_node[id_to_state[i].node + 1].node
    BY <2>1, <1>1, ProductPersists
  <2> QED BY <2>2, <1>3, <1>4 DEF i, nodes, StateAt, NodeAt
<1> QED BY <1>3, <1>4, <1>5

(* If the new answer is exact, all are.                                    *)
LEMMA ExactGoesOn ==
    ASSUME ExpansionInv, HistoryOK, PublishedExact, Grown,
           NEW id \in StateIds, NEW answer, Answer(id, answer),
           StateAt(id).kind = "product" => Exact(id_to_node', id_to_state', id, answer)
    PROVE  PublishedExact'
<1>1. /\ id_to_node \in Seq(Nodes) /\ id_to_state \in Seq(States)
      /\ StatesOK(id_to_state, Len(id_to_node)) /\ Len(id_to_state) <= MaxStates
      /\ DOMAIN answers = 0 .. MaxStates - 1 /\ MaxStates \in Nat
  BY BoundsAssumption DEF ExpansionInv, RegistryTypes, RegistriesOK, HistoryOK
<1>2. Len(id_to_state) \in Nat /\ Len(id_to_state') \in Nat
  BY <1>1 DEF Grown
<1>3. id \in DOMAIN answers /\ StateIds' \subseteq DOMAIN answers
  BY <1>1, <1>2 DEF StateIds, Grown
<1>4. /\ DOMAIN answers' = DOMAIN answers
      /\ answers'[id] = answers[id] \cup {answer}
      /\ \A x \in DOMAIN answers \ {id} : answers'[x] = answers[x]
  BY <1>3, AnswerEffect
<1>5. ASSUME NEW x \in DOMAIN answers', answers'[x] # {} PROVE x \in StateIds'
  <2>1. x \in StateIds
    BY <1>4, <1>5 DEF PublishedExact
  <2> QED BY <2>1, GrownProduct
<1>6. ASSUME NEW x \in StateIds', id_to_state'[x + 1].kind = "product", NEW a \in answers'[x]
      PROVE  Exact(id_to_node', id_to_state', x, a)
  <2>1. CASE x = id /\ a = answer
    <3>1. StateAt(id).kind = "product"
      BY <2>1, <1>6, GrownProduct DEF StateAt
    <3> QED BY <2>1, <3>1
  <2>2. CASE ~ (x = id /\ a = answer)
    <3>1. x \in DOMAIN answers /\ a \in answers[x]
      BY <2>2, <1>3, <1>4, <1>6
    <3>2. x \in StateIds
      BY <3>1 DEF PublishedExact
    <3>3. x + 1 \in 1 .. Len(id_to_state) /\ id_to_state[x + 1].kind = "product"
      BY <3>2, <1>6, GrownProduct
    <3>4. Exact(id_to_node, id_to_state, x, a)
      BY <3>1, <3>2, <3>3 DEF PublishedExact, StateAt
    <3>5. Leads(a, Len(id_to_state))
      BY <3>1 DEF HistoryOK, Leads
    <3> DEFINE nodes == id_to_node'
               states == id_to_state'
    <3>6. /\ nodes \in Seq(Nodes) /\ SameNodes(id_to_node, nodes)
          /\ states \in Seq(States) /\ Extends(id_to_state, states)
      BY DEF Grown
    <3> HIDE DEF nodes, states
    <3>7. Exact(nodes, states, x, a)
      BY <3>3, <3>4, <3>5, <3>6, <1>1, ExactPersists
    <3> QED BY <3>7 DEF nodes, states
  <2> QED BY <2>1, <2>2
<1>7. \A x \in DOMAIN answers' : answers'[x] # {} => x \in StateIds'
  BY <1>5
<1>8. \A x \in StateIds' : id_to_state'[x + 1].kind = "product" =>
         \A a \in answers'[x] : Exact(id_to_node', id_to_state', x, a)
  BY <1>6
<1> QED BY <1>7, <1>8 DEF PublishedExact, StateAt

(* If the new answer is listed, all are.                                   *)
LEMMA ListedGoesOn ==
    ASSUME ExpansionInv, HistoryOK, PublishedExact, PublishedListed, Grown,
           NEW id \in StateIds, NEW answer, Answer(id, answer),
           IF StateAt(id).kind = "product"
           THEN Listed(id_to_node', id_to_state', id, answer)
           ELSE answer = EmitAnswer(StateAt(id))
    PROVE  PublishedListed'
<1>1. /\ id_to_node \in Seq(Nodes) /\ id_to_state \in Seq(States)
      /\ StatesOK(id_to_state, Len(id_to_node)) /\ Len(id_to_state) <= MaxStates
      /\ DOMAIN answers = 0 .. MaxStates - 1 /\ MaxStates \in Nat
  BY BoundsAssumption DEF ExpansionInv, RegistryTypes, RegistriesOK, HistoryOK
<1>2. Len(id_to_state) \in Nat /\ Len(id_to_state') \in Nat
  BY <1>1 DEF Grown
<1>3. id \in DOMAIN answers /\ StateIds' \subseteq DOMAIN answers
  BY <1>1, <1>2 DEF StateIds, Grown
<1>4. /\ DOMAIN answers' = DOMAIN answers
      /\ answers'[id] = answers[id] \cup {answer}
      /\ \A x \in DOMAIN answers \ {id} : answers'[x] = answers[x]
  BY <1>3, AnswerEffect
<1>5. ASSUME NEW x \in StateIds', NEW a \in answers'[x]
      PROVE  IF id_to_state'[x + 1].kind = "product"
             THEN Listed(id_to_node', id_to_state', x, a)
             ELSE a = EmitAnswer(id_to_state'[x + 1])
  <2>1. CASE x = id /\ a = answer
    <3>1. id_to_state'[id + 1] = StateAt(id)
      BY GrownProduct DEF StateAt
    <3> QED BY <2>1, <3>1
  <2>2. CASE ~ (x = id /\ a = answer)
    <3>1. x \in DOMAIN answers /\ a \in answers[x]
      BY <2>2, <1>3, <1>4, <1>5
    <3>2. x \in StateIds
      BY <3>1 DEF PublishedExact
    <3>3. /\ x + 1 \in 1 .. Len(id_to_state) /\ id_to_state'[x + 1] = id_to_state[x + 1]
          /\ StateAt(x) = id_to_state[x + 1]
      BY <3>2, GrownProduct DEF StateAt
    <3>4. IF id_to_state[x + 1].kind = "product"
          THEN Listed(id_to_node, id_to_state, x, a)
          ELSE a = EmitAnswer(id_to_state[x + 1])
      BY <3>1, <3>2, <3>3 DEF PublishedListed
    <3>5. Leads(a, Len(id_to_state))
      BY <3>1 DEF HistoryOK, Leads
    <3> DEFINE nodes == id_to_node'
               states == id_to_state'
    <3>6. /\ nodes \in Seq(Nodes) /\ SameNodes(id_to_node, nodes)
          /\ states \in Seq(States) /\ Extends(id_to_state, states)
      BY DEF Grown
    <3> HIDE DEF nodes, states
    <3>7. id_to_state[x + 1].kind = "product" => Listed(nodes, states, x, a)
      BY <3>3, <3>4, <3>5, <3>6, <1>1, ListedPersists
    <3> QED BY <3>3, <3>4, <3>7 DEF nodes, states
  <2> QED BY <2>1, <2>2
<1>6. \A x \in StateIds' : \A a \in answers'[x] :
         IF id_to_state'[x + 1].kind = "product"
         THEN Listed(id_to_node', id_to_state', x, a)
         ELSE a = EmitAnswer(id_to_state'[x + 1])
  BY <1>5
<1> QED BY <1>6 DEF PublishedListed, StateAt

(* If the new answer leads to everything new, nothing is unused.           *)
LEMMA UsedGoesOn ==
    ASSUME ExpansionInv, HistoryOK, PublishedUsed, Grown,
           NEW id \in StateIds, NEW answer, Answer(id, answer),
           \A i \in Len(id_to_state) + 1 .. Len(id_to_state') :
              LedTo(id_to_state', Targets(answer.transitions), i),
           \A n \in Len(id_to_node) + 1 .. Len(id_to_node') :
              /\ StateAt(id).kind = "product"
              /\ InReach(NodeAt(StateAt(id).node), StateAt(id), id_to_node'[n].node)
    PROVE  PublishedUsed'
<1>1. /\ id_to_node \in Seq(Nodes) /\ id_to_state \in Seq(States)
      /\ Len(id_to_state) <= MaxStates
      /\ DOMAIN answers = 0 .. MaxStates - 1 /\ MaxStates \in Nat
  BY BoundsAssumption DEF ExpansionInv, RegistryTypes, RegistriesOK, HistoryOK
<1>2. /\ Len(id_to_state) \in Nat /\ Len(id_to_state') \in Nat
      /\ Len(id_to_node) \in Nat /\ Len(id_to_node') \in Nat
  BY <1>1 DEF Grown
<1>3. id \in DOMAIN answers /\ StateIds \subseteq DOMAIN answers
  BY <1>1, <1>2 DEF StateIds
<1>4. /\ DOMAIN answers' = DOMAIN answers
      /\ answers'[id] = answers[id] \cup {answer}
      /\ \A x \in DOMAIN answers \ {id} : answers'[x] = answers[x]
      /\ AllTargets' = AllTargets \cup Targets(answer.transitions)
  BY <1>3, AnswerEffect
<1>5. ASSUME NEW i \in 2 .. Len(id_to_state') PROVE LedTo(id_to_state', AllTargets', i)
  <2>1. CASE i <= Len(id_to_state)
    <3>1. LedTo(id_to_state, AllTargets, i) /\ i \in 1 .. Len(id_to_state)
      BY <2>1, <1>2 DEF PublishedUsed
    <3>2. \A h \in AllTargets : h \in Nat /\ h < Len(id_to_state)
      BY TargetsRegistered
    <3> DEFINE states == id_to_state'
               tos == AllTargets'
    <3>3. states \in Seq(States) /\ Extends(id_to_state, states) /\ AllTargets \subseteq tos
      BY <1>4 DEF Grown
    <3> HIDE DEF states, tos
    <3>4. LedTo(states, tos, i)
      BY <3>1, <3>2, <3>3, <1>1, LedToPersists
    <3> QED BY <3>4 DEF states, tos
  <2>2. CASE ~ (i <= Len(id_to_state))
    <3> DEFINE states == id_to_state'
               tos == AllTargets'
               new == Targets(answer.transitions)
    <3>1. i \in Len(id_to_state) + 1 .. Len(states)
      BY <2>2, <1>2
    <3>2. LedTo(states, new, i) /\ new \subseteq tos
      BY <3>1, <1>4
    <3> HIDE DEF states, tos, new
    <3>3. LedTo(states, tos, i)
      BY <3>2 DEF LedTo
    <3> QED BY <3>3 DEF states, tos
  <2> QED BY <2>1, <2>2
<1>6. ASSUME NEW n \in 2 .. Len(id_to_node')
      PROVE  \E x \in StateIds :
                /\ answers'[x] # {}
                /\ StateAt(x).kind = "product"
                /\ InReach(NodeAt(StateAt(x).node), StateAt(x), id_to_node'[n].node)
  <2>1. CASE n <= Len(id_to_node)
    <3>1. n \in 2 .. Len(id_to_node) /\ n \in DOMAIN id_to_node
      BY <2>1, <1>1, <1>2
    <3>2. PICK x \in StateIds :
             /\ answers[x] # {}
             /\ StateAt(x).kind = "product"
             /\ InReach(NodeAt(StateAt(x).node), StateAt(x), id_to_node[n].node)
      BY <3>1 DEF PublishedUsed
    <3>3. id_to_node'[n].node = id_to_node[n].node
      BY <3>1 DEF Grown, SameNodes
    <3>4. answers'[x] # {}
      BY <3>2, <1>3, <1>4
    <3> QED BY <3>2, <3>3, <3>4
  <2>2. CASE ~ (n <= Len(id_to_node))
    <3>1. n \in Len(id_to_node) + 1 .. Len(id_to_node')
      BY <2>2, <1>2
    <3>2. answers'[id] # {}
      BY <1>4
    <3> QED BY <3>1, <3>2
  <2> QED BY <2>1, <2>2
<1>7. ASSUME NEW n \in 2 .. Len(id_to_node')
      PROVE  \E x \in StateIds' :
                /\ answers'[x] # {}
                /\ id_to_state'[x + 1].kind = "product"
                /\ InReach(id_to_node'[id_to_state'[x + 1].node + 1].node, id_to_state'[x + 1],
                           id_to_node'[n].node)
  <2>1. PICK x \in StateIds :
           /\ answers'[x] # {}
           /\ StateAt(x).kind = "product"
           /\ InReach(NodeAt(StateAt(x).node), StateAt(x), id_to_node'[n].node)
    BY <1>6
  <2>2. /\ x \in StateIds' /\ id_to_state'[x + 1] = StateAt(x)
        /\ id_to_node'[StateAt(x).node + 1].node = NodeAt(StateAt(x).node)
    BY <2>1, GrownProduct DEF StateAt
  <2> QED BY <2>1, <2>2
<1>8. \A n \in 2 .. Len(id_to_node') :
         \E x \in StateIds' :
            /\ answers'[x] # {}
            /\ id_to_state'[x + 1].kind = "product"
            /\ InReach(id_to_node'[id_to_state'[x + 1].node + 1].node, id_to_state'[x + 1],
                       id_to_node'[n].node)
  BY <1>7
<1>9. \A i \in 2 .. Len(id_to_state') : LedTo(id_to_state', AllTargets', i)
  BY <1>5
<1> QED BY <1>8, <1>9 DEF PublishedUsed, StateAt, NodeAt

(* The nodes that are published lie within reach of the product.           *)
LEMMA AdditionsReached ==
    ASSUME ExpansionInv, OwnershipInv, AnswerInv, NEW t \in Threads, Publish(t),
           NEW n \in Len(id_to_node) + 1 .. Len(id_to_node')
    PROVE  InReach(BaseOf(tx[t]), StateAt(tx[t].state), id_to_node'[n].node)
<1> DEFINE additions == tx[t].additions
           a == n - Len(id_to_node)
<1>1. pc[t] = "batch" /\ id_to_node' = Published(id_to_node, additions)
  BY PublishFacts DEF Publish
<1>2. /\ id_to_node \in Seq(Nodes) /\ additions \in Seq(Additions)
      /\ tx[t].staged \in Seq(StagedNodes) /\ tx[t].resolved \in Seq(Nat)
      /\ Len(tx[t].resolved) <= Len(tx[t].staged)
  BY <1>1, InvFacts, TransactionFields, CommitFacts DEF ResolutionOK
<1>3. /\ Len(id_to_node') = Len(id_to_node) + Len(additions)
      /\ \A i \in 1 .. Len(additions) :
            id_to_node'[Len(id_to_node) + i] =
               [key |-> additions[i].key, node |-> additions[i].node]
  BY <1>1, <1>2, PublishedShape
<1>4. Len(id_to_node) \in Nat /\ Len(additions) \in Nat /\ DOMAIN additions = 1 .. Len(additions)
  BY <1>2
<1>5. a \in 1 .. Len(additions) /\ n = Len(id_to_node) + a
  BY <1>3, <1>4
<1>6. id_to_node'[n].node = additions[a].node
  <2> HIDE DEF a, additions
  <2>1. id_to_node'[n] = [key |-> additions[a].key, node |-> additions[a].node]
    BY <1>3, <1>5
  <2> QED BY <2>1
<1>7. OwnershipOK(id_to_node, tx[t], "batch")
  BY <1>1 DEF OwnershipInv
<1>8. AdditionOK(tx[t], a)
  BY <1>4, <1>5, <1>7 DEF OwnershipOK
<1>9. PICK j \in 1 .. Len(tx[t].resolved) : additions[a].node = tx[t].staged[j].node
  BY <1>8 DEF AdditionOK
<1>10. j \in DOMAIN tx[t].staged
  BY <1>2
<1>11. AnswerOK(id_to_node, id_to_state, tx[t], "batch")
  BY <1>1 DEF AnswerInv
<1>12. InReach(BaseOf(tx[t]), StateAt(tx[t].state), tx[t].staged[j].node)
  BY <1>10, <1>11 DEF AnswerOK, BaseOf, StateAt, NodeAt
<1> QED BY <1>6, <1>9, <1>12

(* A commit publishes an exact answer and nothing that it does not use.    *)
LEMMA PublishAnswers ==
    ASSUME ExpansionInv, OwnershipInv, HistoryOK, AnswerInv, NEW t \in Threads, Publish(t)
    PROVE  AnswerInv'
<1> DEFINE id == tx[t].state
           answer == [final |-> FinalWeightOf(StateAt(id)), transitions |-> tx[t].transitions]
           nodes == id_to_node'
           states == id_to_state'
<1>1. pc[t] = "batch" /\ Local(t, NoTx) /\ Goto(t, "idle")
  BY DEF Publish
<1>2. Exact(nodes, states, id, answer) /\ Listed(nodes, states, id, answer) /\ Answer(id, answer)
  BY PublishedAnswer
<1>3. /\ nodes \in Seq(Nodes) /\ states \in Seq(States)
      /\ SameNodes(id_to_node, nodes) /\ Extends(id_to_state, states)
      /\ states = id_to_state \o tx[t].batch /\ Len(states) <= MaxStates
  BY PublishFacts
<1>4. Grown
  BY <1>3 DEF Grown
<1>5. id \in StateIds /\ StateAt(id).kind = "product" /\ BaseOf(tx[t]) = NodeAt(StateAt(id).node)
  <2>1. id \in Nat /\ Len(id_to_state) \in Nat
    BY InvFacts, TransactionFields
  <2>2. id < Len(id_to_state) /\ id_to_state[id + 1].kind = "product"
    BY <1>1, CommitFacts
  <2> QED BY <2>1, <2>2 DEF StateIds, StateAt, BaseOf
<1>6. answer.transitions = tx[t].transitions
  OBVIOUS
<1>7. \A i \in Len(id_to_state) + 1 .. Len(states) :
         LedTo(states, Targets(answer.transitions), i)
  <2>1. AnswerOK(id_to_node, id_to_state, tx[t], "batch")
    BY <1>1 DEF AnswerInv
  <2>2. BatchLedTo(id_to_state, tx[t])
    BY <2>1 DEF AnswerOK
  <2> HIDE DEF answer, states
  <2> QED BY <2>2, <1>3, <1>6 DEF BatchLedTo
<1>8. \A n \in Len(id_to_node) + 1 .. Len(nodes) :
         InReach(NodeAt(StateAt(id).node), StateAt(id), nodes[n].node)
  BY <1>5, AdditionsReached
<1>9. ASSUME NEW u \in Threads PROVE AnswerOK(nodes, states, tx'[u], pc'[u])
  <2>1. CASE u = t
    BY <2>1, <1>1, LocalEffect, GotoEffect, IdleAnswers
  <2>2. CASE u # t
    <3>1. pc[u] \notin {"resolve", "batch"} /\ tx'[u] = tx[u] /\ pc'[u] = pc[u]
      BY <2>2, <1>1, LocalEffect, GotoEffect DEF ExpansionInv, LockDiscipline, HoldsNodes
    <3>2. /\ id_to_node \in Seq(Nodes) /\ id_to_state \in Seq(States)
          /\ StatesOK(id_to_state, Len(id_to_node))
          /\ tx[u] \in Transactions /\ TransactionOK(id_to_node, id_to_state, tx[u], pc[u])
          /\ AnswerOK(id_to_node, id_to_state, tx[u], pc[u])
      BY InvFacts DEF ExpansionInv, RegistriesOK, AnswerInv
    <3> DEFINE r == tx[u]
               p == pc[u]
    <3>3. /\ id_to_node \in Seq(Nodes) /\ nodes \in Seq(Nodes) /\ SameNodes(id_to_node, nodes)
          /\ id_to_state \in Seq(States) /\ states \in Seq(States)
          /\ Extends(id_to_state, states) /\ StatesOK(id_to_state, Len(id_to_node))
          /\ r \in Transactions /\ p \notin {"resolve", "batch"}
          /\ TransactionOK(id_to_node, id_to_state, r, p)
          /\ AnswerOK(id_to_node, id_to_state, r, p)
      BY <3>1, <3>2, <1>3
    <3> HIDE DEF nodes, states, r, p, answer, id
    <3>4. AnswerOK(nodes, states, r, p)
      BY <3>3, AnswerPersists
    <3> QED BY <3>1, <3>4 DEF r, p
  <2> QED BY <2>1, <2>2
<1> HIDE DEF answer, id
<1>10. PublishedExact'
  BY <1>2, <1>4, <1>5, ExactGoesOn DEF AnswerInv
<1>11. PublishedUsed'
  BY <1>2, <1>4, <1>5, <1>7, <1>8, UsedGoesOn DEF AnswerInv
<1>12. PublishedListed'
  BY <1>2, <1>4, <1>5, ListedGoesOn DEF AnswerInv
<1> QED BY <1>9, <1>10, <1>11, <1>12 DEF AnswerInv

(* A continuation is answered from the registry.                           *)
LEMMA ExpandEmitAnswers ==
    ASSUME ExpansionInv, HistoryOK, AnswerInv, NEW t \in Threads,
           NEW id \in StateIds, ExpandEmit(t, id)
    PROVE  AnswerInv'
<1> DEFINE answer == EmitAnswer(StateAt(id))
<1>1. /\ StateAt(id).kind = "emit" /\ Answer(id, answer)
      /\ id_to_node' = id_to_node /\ id_to_state' = id_to_state /\ tx' = tx /\ pc' = pc
  BY DEF ExpandEmit, registries, EmitAnswer
<1> HIDE DEF answer
<1>2. /\ id_to_node \in Seq(Nodes) /\ id_to_state \in Seq(States)
      /\ Len(id_to_state) <= MaxStates
  BY DEF ExpansionInv, RegistryTypes, RegistriesOK
<1>3. Len(id_to_node) \in Nat /\ Len(id_to_state) \in Nat
  BY <1>2
<1>4. Grown
  BY <1>1, <1>2, <1>3, SameRefl DEF Grown, Extends
<1>5. PublishedExact'
  BY <1>1, <1>4, ExactGoesOn DEF AnswerInv
<1>6. /\ \A i \in Len(id_to_state) + 1 .. Len(id_to_state') :
            LedTo(id_to_state', Targets(answer.transitions), i)
      /\ \A n \in Len(id_to_node) + 1 .. Len(id_to_node') :
            /\ StateAt(id).kind = "product"
            /\ InReach(NodeAt(StateAt(id).node), StateAt(id), id_to_node'[n].node)
  BY <1>1, <1>3
<1>7. PublishedUsed'
  BY <1>1, <1>4, <1>6, UsedGoesOn DEF AnswerInv
<1>8. \A u \in Threads : AnswerOK(id_to_node', id_to_state', tx'[u], pc'[u])
  BY <1>1 DEF AnswerInv
<1>9. PublishedListed'
  <2>1. answer = EmitAnswer(StateAt(id)) /\ StateAt(id).kind # "product"
    BY <1>1 DEF answer
  <2> QED BY <2>1, <1>1, <1>4, ListedGoesOn DEF AnswerInv
<1> QED BY <1>5, <1>7, <1>8, <1>9 DEF AnswerInv

----------------------------------------------------------------------------
(* The specification                                                       *)

(* Nothing is answered at first.                                           *)
LEMMA AnswerInit == Init => AnswerInv
<1> SUFFICES ASSUME Init PROVE AnswerInv
  OBVIOUS
<1>1. \A t \in Threads : AnswerOK(id_to_node, id_to_state, tx[t], pc[t])
  BY IdleAnswers DEF Init
<1>2. /\ DOMAIN answers = 0 .. MaxStates - 1 /\ \A id \in 0 .. MaxStates - 1 : answers[id] = {}
      /\ Len(id_to_state) = 1 /\ Len(id_to_node) = 1
  BY DEF Init
<1>3. StateIds \subseteq DOMAIN answers
  BY <1>2, BoundsAssumption DEF StateIds
<1>4. PublishedExact
  BY <1>2, <1>3 DEF PublishedExact
<1>5. PublishedUsed
  BY <1>2 DEF PublishedUsed
<1>6. PublishedListed
  BY <1>2, <1>3 DEF PublishedListed
<1> QED BY <1>1, <1>4, <1>5, <1>6 DEF AnswerInv

(* Every step keeps the answers exact.                                     *)
LEMMA AnswerNext ==
    ExpansionInv /\ OwnershipInv /\ HistoryOK /\ AnswerInv /\ [Next]_vars => AnswerInv'
<1> SUFFICES ASSUME ExpansionInv, OwnershipInv, HistoryOK, AnswerInv, [Next]_vars PROVE AnswerInv'
  OBVIOUS
<1>1. CASE \E t \in Threads : Step(t) \/ Request(t) \/ Exhaust(t) \/ Cancel(t) \/ ProviderFault(t)
  <2>1. PICK t \in Threads : Step(t) \/ Request(t) \/ Exhaust(t) \/ Cancel(t) \/ ProviderFault(t)
    BY <1>1
  <2>2. CASE Step(t)
    <3>1. CASE ReadNode(t) \/ StartPaths(t) \/ VisitEdge(t) \/ ApplyOperation(t) \/ EndWalk(t)
      BY <3>1, ReadNodeAnswers, StartPathsAnswers, VisitEdgeAnswers, ApplyOperationAnswers,
         EndWalkAnswers
    <3>2. CASE LockNodes(t) \/ AdoptCanonical(t) \/ AddNode(t) \/ ReleaseToRetire(t) \/ Retry(t)
      BY <3>2, ResolutionAnswers
    <3>3. CASE LockStates(t) \/ PrepareArc(t) \/ Publish(t)
      BY <3>3, LockStatesAnswers, PrepareArcAnswers, PublishAnswers
    <3>4. CASE Abort(t) \/ Unwound(t)
      BY <3>4, OtherAnswers
    <3> QED BY <2>2, <3>1, <3>2, <3>3, <3>4 DEF Step
  <2>3. CASE Request(t)
    <3>1. PICK id \in StateIds : Begin(t, id) \/ ExpandEmit(t, id)
      BY <2>3 DEF Request
    <3> QED BY <3>1, OtherAnswers, ExpandEmitAnswers
  <2>4. CASE Exhaust(t) \/ Cancel(t) \/ ProviderFault(t)
    BY <2>4, OtherAnswers
  <2> QED BY <2>1, <2>2, <2>3, <2>4
<1>2. CASE Finished \/ UNCHANGED vars
  <2>1. /\ id_to_node' = id_to_node /\ id_to_state' = id_to_state /\ tx' = tx /\ pc' = pc
        /\ answers' = answers
    BY <1>2 DEF Finished, vars, registries
  <2>2. PublishedExact'
    BY <2>1 DEF AnswerInv, PublishedExact, StateIds, StateAt
  <2>3. PublishedUsed'
    BY <2>1 DEF AnswerInv, PublishedUsed, AllTargets, StateIds, StateAt, NodeAt
  <2>4. \A u \in Threads : AnswerOK(id_to_node', id_to_state', tx'[u], pc'[u])
    BY <2>1 DEF AnswerInv
  <2>5. PublishedListed'
    BY <2>1 DEF AnswerInv, PublishedListed, StateIds, StateAt
  <2> QED BY <2>2, <2>3, <2>4, <2>5 DEF AnswerInv
<1> QED BY <1>1, <1>2 DEF Next

(* Every walk records each node once, every arc is an applicable pair, and *)
(* every prepared or published transition means what its arc does.         *)
THEOREM AnswersTraced == Spec => [](HistoryOK /\ AnswerInv)
<1>1. Init => HistoryOK /\ AnswerInv
  <2>1. Init => HistoryOK
    BY BoundsAssumption DEF Init, HistoryOK
  <2> QED BY <2>1, AnswerInit
<1>2. ExpansionInv /\ OwnershipInv /\ (HistoryOK /\ AnswerInv) /\ [Next]_vars =>
         (HistoryOK /\ AnswerInv)'
  BY HistoryStep, AnswerNext
<1> QED BY <1>1, <1>2, ExpansionConsistent, OwnersAccountedFor, PTL DEF Spec

(* The two ways to say that a path leads below the base.                   *)
LEMMA BelowIff ==
    ASSUME NEW base \in Text, NEW m \in Text, Len(base) <= Len(m)
    PROVE  SubSeq(m, 1, Len(base)) = base <=> IsBelow(base, m)
<1>1. Len(base) \in 0 .. Len(m)
  BY DEF Text
<1>2. IsBelow(SubSeq(m, 1, Len(base)), m)
  BY <1>1, PrefixBelow
<1>3. IsBelow(base, m) => SubSeq(m, 1, Len(base)) = base
  BY BelowSplit
<1> QED BY <1>2, <1>3

(* A registered product's node is a node of the dictionary.                *)
LEMMA ProductNode ==
    ASSUME ExpansionInv, NEW id \in StateIds, StateAt(id).kind = "product"
    PROVE  NodeAt(StateAt(id).node) \in DictNodes /\ NodeAt(StateAt(id).node) \in Text
<1> DEFINE product == StateAt(id)
           j == product.node + 1
<1>1. /\ id_to_node \in Seq(Nodes) /\ id_to_state \in Seq(States)
      /\ StatesOK(id_to_state, Len(id_to_node))
  BY DEF ExpansionInv, RegistryTypes, RegistriesOK
<1>2. id + 1 \in DOMAIN id_to_state
  BY <1>1 DEF StateIds
<1>3. product \in Products /\ product.node < Len(id_to_node)
  BY <1>1, <1>2, StateFields DEF StatesOK, StateAt
<1>4. product.node \in Nat
  BY <1>3 DEF Products
<1>5. j \in DOMAIN id_to_node
  BY <1>1, <1>3, <1>4
<1>6. NodeAt(product.node) = id_to_node[j].node
  BY DEF NodeAt
<1> HIDE DEF j, product
<1>7. NodeAt(product.node) \in DictNodes /\ NodeAt(product.node) \in Seq(Labels)
  BY <1>1, <1>5, <1>6, NodeFields
<1> QED BY <1>7 DEF product, Text

(* The applicable pairs of the invariant are those of the property.        *)
LEMMA SameApplicable ==
    ASSUME NEW product, NodeAt(product.node) \in Text
    PROVE  Applicable(product) =
              ApplicableBefore(NodeAt(product.node), product, Len(Operations) + 1)
<1> DEFINE base == NodeAt(product.node)
           Below(n) == {m \in DictNodes : Len(m) = Len(base) + n /\ SubSeq(m, 1, Len(base)) = base}
<1>1. base \in Text
  OBVIOUS
<1>2. ASSUME NEW n \in Nat PROVE Below(n) = NodesBelow(base, n)
  <2>1. ASSUME NEW m \in DictNodes, Len(m) = Len(base) + n
        PROVE  SubSeq(m, 1, Len(base)) = base <=> IsBelow(base, m)
    <3>1. m \in Text
      BY DictionaryAssumption DEF Text
    <3>2. Len(base) \in Nat
      BY <1>1 DEF Text
    <3>3. Len(base) <= Len(m)
      BY <2>1, <3>2
    <3> HIDE DEF base
    <3> QED BY <1>1, <3>1, <3>3, BelowIff
  <2> QED BY <2>1 DEF NodesBelow
<1>3. ASSUME NEW k \in DOMAIN Operations PROVE Operations[k].x \in Nat /\ k < Len(Operations) + 1
  BY OperationsTyped
<1>4. Applicable(product) =
         {pair \in (DOMAIN Operations) \X DictNodes :
            /\ InBudget(Operations[pair[1]], product)
            /\ pair[2] \in Below(Operations[pair[1]].x)
            /\ operation_applies(Operations[pair[1]],
                                 SubSeq(pair[2], Len(base) + 1, Len(pair[2])),
                                 Segment(product.pos, Operations[pair[1]].y))}
  BY DEF Applicable
<1> HIDE DEF base, Below
<1>5. ASSUME NEW pair \in (DOMAIN Operations) \X DictNodes
      PROVE  (/\ InBudget(Operations[pair[1]], product)
              /\ pair[2] \in Below(Operations[pair[1]].x)
              /\ operation_applies(Operations[pair[1]],
                                   SubSeq(pair[2], Len(base) + 1, Len(pair[2])),
                                   Segment(product.pos, Operations[pair[1]].y)))
              <=> pair[1] < Len(Operations) + 1 /\ AppliesTo(base, product, pair[1], pair[2])
  <2>1. pair[1] \in DOMAIN Operations
    OBVIOUS
  <2>2. pair[1] < Len(Operations) + 1 /\ Below(Operations[pair[1]].x) = NodesBelow(base, Operations[pair[1]].x)
    BY <2>1, <1>2, <1>3
  <2> QED BY <2>2 DEF AppliesTo
<1>6. Applicable(product) = ApplicableBefore(base, product, Len(Operations) + 1)
  BY <1>4, <1>5 DEF ApplicableBefore
<1> QED BY <1>6 DEF base

(* A published answer lists each applicable operation once, whatever other *)
(* activations registered while it was computed, and says whether a word   *)
(* ends there, for any dictionary, operations, limits and schedule.        *)
THEOREM AnswersAreExact == Spec => []AnswersExact
<1>1. ASSUME ExpansionInv, AnswerInv, NEW id \in StateIds, StateAt(id).kind = "product",
             NEW answer \in answers[id]
      PROVE  LET ts == answer.transitions
             IN  /\ {Meaning(ts[i]) : i \in DOMAIN ts} = Reference(StateAt(id))
                 /\ Len(ts) = Cardinality(Applicable(StateAt(id)))
                 /\ answer.final <=> /\ StateAt(id).pos = Len(Query)
                                     /\ IsFinal(NodeAt(StateAt(id).node))
  <2> DEFINE product == StateAt(id)
             base == NodeAt(product.node)
             pairs == ApplicableBefore(base, product, Len(Operations) + 1)
             ts == answer.transitions
  <2>1. Exact(id_to_node, id_to_state, id, answer)
    BY <1>1 DEF AnswerInv, PublishedExact
  <2>2. ExactFor(id_to_node, id_to_state, base, product, answer)
    BY <2>1 DEF Exact, ExactFor, StateAt, NodeAt
  <2>3. Applicable(product) = pairs
    BY <1>1, ProductNode, SameApplicable
  <2>4. Reference(product) = {Outcome(base, product, pair) : pair \in Applicable(product)}
    BY DEF Reference, Outcome
  <2>5. \A i \in DOMAIN ts : Meaning(ts[i]) = MeaningIn(id_to_node, id_to_state, ts[i])
    BY DEF Meaning, MeaningIn, StateAt, NodeAt
  <2> HIDE DEF product, base
  <2>6. {Meaning(ts[i]) : i \in DOMAIN ts} =
           {MeaningIn(id_to_node, id_to_state, ts[i]) : i \in DOMAIN ts}
    BY <2>5
  <2>7. /\ {Meaning(ts[i]) : i \in DOMAIN ts} = Reference(product)
        /\ Len(ts) = Cardinality(Applicable(product))
        /\ answer.final <=> product.pos = Len(Query) /\ IsFinal(base)
    BY <2>2, <2>3, <2>4, <2>6 DEF ExactFor
  <2> QED BY <2>7 DEF product, base
<1>2. ExpansionInv /\ AnswerInv => AnswersExact
  BY <1>1 DEF AnswersExact
<1> QED BY <1>2, ExpansionConsistent, AnswersTraced, PTL

(* Failed, cancelled and faulty expansions leave nothing behind: all that  *)
(* is registered was reached by an answer that was published.              *)
THEOREM NothingIsLeaked == Spec => []NothingLeaked
<1>1. ASSUME ExpansionInv, AnswerInv PROVE NothingLeaked
  <2> DEFINE given == UNION {answers[id] : id \in DOMAIN answers}
             tos == {tr.to : tr \in UNION {{a.transitions[i] : i \in DOMAIN a.transitions} :
                                              a \in given}}
             heads == {id \in tos : StateAt(id).kind = "emit"}
  <2>1. AllTargets = tos
    <3>1. AllTargets = UNION {Targets(a.transitions) : a \in given}
      BY DEF AllTargets
    <3> HIDE DEF given
    <3> QED BY <3>1 DEF Targets
  <2>2. Len(id_to_state) \in Nat /\ Len(id_to_node) \in Nat
    BY <1>1 DEF ExpansionInv, RegistryTypes
  <2> HIDE DEF tos, given
  <2>3. ASSUME NEW id \in StateIds \ {0}
        PROVE  \/ id \in tos
               \/ \E h \in heads : \/ StateAt(h).chain.target = id
                                   \/ /\ StateAt(id).kind = "emit"
                                      /\ StateAt(id).chain = StateAt(h).chain
    <3>1. id + 1 \in 2 .. Len(id_to_state) /\ (id + 1) - 1 = id
      BY <2>2 DEF StateIds
    <3>2. LedTo(id_to_state, tos, id + 1)
      BY <1>1, <2>1, <3>1 DEF AnswerInv, PublishedUsed
    <3> QED BY <3>1, <3>2 DEF LedTo, StateAt
  <2>4. ASSUME NEW n \in NodeIds \ {0}
        PROVE  \E id \in StateIds : \E k \in DOMAIN Operations :
                  /\ answers[id] # {}
                  /\ StateAt(id).kind = "product"
                  /\ InBudget(Operations[k], StateAt(id))
                  /\ LET from == NodeAt(StateAt(id).node)
                     IN  /\ Len(NodeAt(n)) > Len(from)
                         /\ Len(NodeAt(n)) <= Len(from) + Operations[k].x
                         /\ SubSeq(NodeAt(n), 1, Len(from)) = from
    <3>1. n + 1 \in 2 .. Len(id_to_node) /\ id_to_node[n + 1].node = NodeAt(n)
      BY <2>2 DEF NodeIds, NodeAt
    <3>2. PICK id \in StateIds :
             /\ answers[id] # {}
             /\ StateAt(id).kind = "product"
             /\ InReach(NodeAt(StateAt(id).node), StateAt(id), NodeAt(n))
      BY <1>1, <3>1 DEF AnswerInv, PublishedUsed
    <3> DEFINE from == NodeAt(StateAt(id).node)
               node == NodeAt(n)
    <3>3. PICK k \in DOMAIN Operations :
             /\ InBudget(Operations[k], StateAt(id))
             /\ Len(from) < Len(node)
             /\ Len(node) <= Len(from) + Operations[k].x
             /\ IsBelow(from, node)
      BY <3>2 DEF InReach
    <3>4. from \in Text
      BY <1>1, <3>2, ProductNode
    <3>5. node \in Text
      <4>1. id_to_node \in Seq(Nodes)
        BY <1>1 DEF ExpansionInv, RegistryTypes
      <4>2. n + 1 \in DOMAIN id_to_node
        BY <4>1, <2>2 DEF NodeIds
      <4> QED BY <4>1, <4>2, <3>1, NodeFields DEF Text
    <3> HIDE DEF from, node
    <3>6. Len(from) \in Nat /\ Len(node) \in Nat
      BY <3>4, <3>5 DEF Text
    <3>7. SubSeq(node, 1, Len(from)) = from
      BY <3>3, <3>4, <3>5, BelowSplit
    <3>8. Len(node) > Len(from)
      BY <3>3, <3>6
    <3> QED BY <3>2, <3>3, <3>7, <3>8 DEF from, node
  <2> QED BY <2>3, <2>4 DEF NothingLeaked, tos, given
<1>2. ExpansionInv /\ AnswerInv => NothingLeaked
  BY <1>1
<1> QED BY <1>2, ExpansionConsistent, AnswersTraced, PTL

----------------------------------------------------------------------------
(* One answer                                                              *)

(* Products for the same node, position and cost are one state.            *)
LEMMA SameProduct ==
    ASSUME NEW nodes \in Seq(Nodes), CanonicalNodes(nodes),
           NEW states \in Seq(States), StatesOK(states, Len(nodes)),
           NEW i \in DOMAIN states, NEW j \in DOMAIN states,
           states[i].kind = "product", states[j].kind = "product",
           nodes[states[i].node + 1].node = nodes[states[j].node + 1].node,
           states[i].pos = states[j].pos, states[i].cost = states[j].cost
    PROVE  i = j
<1> DEFINE a == states[i]
           b == states[j]
<1>1. /\ a \in Products /\ b \in Products /\ a.node < Len(nodes) /\ b.node < Len(nodes)
      /\ a.pos = b.pos /\ a.cost = b.cost /\ nodes[a.node + 1].node = nodes[b.node + 1].node
  BY StateFields DEF StatesOK
<1>2. Identity(a) = a /\ Identity(b) = b
  BY DEF Identity
<1> HIDE DEF a, b
<1>3. /\ a.node \in Nat /\ b.node \in Nat
      /\ a = [kind |-> "product", node |-> a.node, pos |-> a.pos, cost |-> a.cost]
      /\ b = [kind |-> "product", node |-> b.node, pos |-> b.pos, cost |-> b.cost]
  BY <1>1 DEF Products
<1>4. a.node + 1 \in DOMAIN nodes /\ b.node + 1 \in DOMAIN nodes
  BY <1>1, <1>3
<1>5. a.node + 1 = b.node + 1
  BY <1>1, <1>4 DEF CanonicalNodes
<1>6. a = b
  <2>1. a.node = b.node
    BY <1>3, <1>5
  <2> QED BY <2>1, <1>1, <1>3
<1> QED BY <1>2, <1>6 DEF StatesOK, a, b

(* A transition is determined by its meaning and its shape.                *)
LEMMA SameTransition ==
    ASSUME NEW nodes \in Seq(Nodes), CanonicalNodes(nodes),
           NEW states \in Seq(States), StatesOK(states, Len(nodes)),
           NEW a \in Transitions, NEW b \in Transitions,
           a.to < Len(states), b.to < Len(states), NEW outcome,
           MeaningIn(nodes, states, a) = outcome, MeaningIn(nodes, states, b) = outcome,
           Shaped(states, a, outcome), Shaped(states, b, outcome)
    PROVE  a = b
<1> DEFINE i == a.to + 1
           j == b.to + 1
           s == states[i]
           u == states[j]
<1>1. /\ a.to \in Nat /\ b.to \in Nat
      /\ a = [input |-> a.input, output |-> a.output, to |-> a.to, weight |-> a.weight]
      /\ b = [input |-> b.input, output |-> b.output, to |-> b.to, weight |-> b.weight]
  BY DEF Transitions
<1>2. i \in DOMAIN states /\ j \in DOMAIN states
  BY <1>1
<1>3. a.input = b.input /\ a.output = b.output
  BY DEF Shaped
<1>4. a.weight = b.weight
  BY DEF MeaningIn
<1>5. \/ s.kind = "product" /\ u.kind = "product"
      \/ /\ s.kind = "emit" /\ s.position = 1
         /\ u.kind = "emit" /\ u.position = 1
  BY DEF Shaped
<1>6. i = j
  <2>1. CASE s.kind = "product" /\ u.kind = "product"
    <3>1. /\ nodes[s.node + 1].node = nodes[u.node + 1].node
          /\ s.pos = u.pos /\ s.cost = u.cost
      BY <2>1 DEF MeaningIn
    <3> QED BY <2>1, <3>1, <1>2, SameProduct
  <2>2. CASE /\ s.kind = "emit" /\ s.position = 1
             /\ u.kind = "emit" /\ u.position = 1
    <3> DEFINE p == s.chain.target + 1
               q == u.chain.target + 1
    <3>1. /\ s.chain.input = u.chain.input /\ s.chain.output = u.chain.output
          /\ nodes[states[p].node + 1].node = nodes[states[q].node + 1].node
          /\ states[p].pos = states[q].pos /\ states[p].cost = states[q].cost
      <4>1. /\ outcome.input = s.chain.input /\ outcome.output = s.chain.output
            /\ outcome.node = nodes[states[p].node + 1].node
            /\ outcome.pos = states[p].pos /\ outcome.cost = states[p].cost
        <5>1. outcome = [input |-> s.chain.input, output |-> s.chain.output, weight |-> a.weight,
                         node |-> nodes[states[p].node + 1].node,
                         pos |-> states[p].pos, cost |-> states[p].cost]
          BY <2>2, Zenon DEF MeaningIn
        <5> HIDE DEF s, i, p
        <5> QED BY <5>1
      <4>2. /\ outcome.input = u.chain.input /\ outcome.output = u.chain.output
            /\ outcome.node = nodes[states[q].node + 1].node
            /\ outcome.pos = states[q].pos /\ outcome.cost = states[q].cost
        <5>1. outcome = [input |-> u.chain.input, output |-> u.chain.output, weight |-> b.weight,
                         node |-> nodes[states[q].node + 1].node,
                         pos |-> states[q].pos, cost |-> states[q].cost]
          BY <2>2, Zenon DEF MeaningIn
        <5> HIDE DEF u, j, q
        <5> QED BY <5>1
      <4> HIDE DEF s, u, i, j, p, q
      <4> QED BY <4>1, <4>2
    <3>2. s \in Emits /\ u \in Emits /\ ChainWhole(states, i) /\ ChainWhole(states, j)
      BY <2>2, <1>2, StateFields DEF StatesOK
    <3>3. /\ s.chain \in Chains /\ u.chain \in Chains
          /\ s.chain.target \in Nat /\ u.chain.target \in Nat
      BY <3>2, EmitFields
    <3>4. /\ s.chain.target < Len(states) /\ states[p].kind = "product"
          /\ u.chain.target < Len(states) /\ states[q].kind = "product"
      BY <3>2 DEF ChainWhole
    <3> HIDE DEF s, u, i, j
    <3>5. p \in DOMAIN states /\ q \in DOMAIN states
      BY <3>3, <3>4
    <3>6. p = q
      <4> HIDE DEF p, q
      <4> QED BY <3>1, <3>4, <3>5, SameProduct
    <3>7. s.chain.target = u.chain.target
      BY <3>3, <3>6
    <3>8. s.chain = u.chain
      <4> DEFINE c == s.chain
                 d == u.chain
      <4>1. /\ c \in Chains /\ d \in Chains /\ c.input = d.input /\ c.output = d.output
            /\ c.target = d.target
        BY <3>1, <3>3, <3>7
      <4> HIDE DEF c, d
      <4>2. /\ c = [input |-> c.input, output |-> c.output, target |-> c.target]
            /\ d = [input |-> d.input, output |-> d.output, target |-> d.target]
        BY <4>1 DEF Chains
      <4>3. c = d
        BY <4>1, <4>2
      <4> QED BY <4>3 DEF c, d
    <3>9. Identity(s) = Identity(u)
      BY <2>2, <3>8 DEF Identity
    <3> QED BY <3>9, <1>2 DEF StatesOK, s, u
  <2> QED BY <2>1, <2>2, <1>5
<1>7. a.to = b.to
  BY <1>1, <1>6
<1> QED BY <1>1, <1>3, <1>4, <1>7

(* Listings of the same pairs are the same transitions.                    *)
LEMMA SameTransitions ==
    ASSUME NEW nodes \in Seq(Nodes), CanonicalNodes(nodes),
           NEW states \in Seq(States), StatesOK(states, Len(nodes)),
           NEW a \in Seq(Transitions), NEW b \in Seq(Transitions),
           \A i \in DOMAIN a : a[i].to < Len(states),
           \A i \in DOMAIN b : b[i].to < Len(states),
           NEW base, NEW product,
           Lists(nodes, states, a, base, product), Lists(nodes, states, b, base, product)
    PROVE  a = b
<1> DEFINE pairs == ApplicableBefore(base, product, Len(Operations) + 1)
<1>1. PICK list \in Seq(Pairs) :
         /\ Listing(list, pairs) /\ Len(list) = Len(a)
         /\ \A i \in DOMAIN a : /\ MeaningIn(nodes, states, a[i]) = Outcome(base, product, list[i])
                                /\ Shaped(states, a[i], Outcome(base, product, list[i]))
  BY DEF Lists
<1>2. PICK other \in Seq(Pairs) :
         /\ Listing(other, pairs) /\ Len(other) = Len(b)
         /\ \A i \in DOMAIN b : /\ MeaningIn(nodes, states, b[i]) = Outcome(base, product, other[i])
                                /\ Shaped(states, b[i], Outcome(base, product, other[i]))
  BY DEF Lists
<1> HIDE DEF pairs
<1>3. list = other
  BY <1>1, <1>2, ListingUnique
<1>4. /\ Len(a) = Len(b) /\ Len(a) \in Nat
      /\ DOMAIN a = 1 .. Len(a) /\ DOMAIN b = 1 .. Len(a)
  BY <1>1, <1>2, <1>3
<1>5. ASSUME NEW i \in 1 .. Len(a) PROVE a[i] = b[i]
  <2> DEFINE x == a[i]
             y == b[i]
             outcome == Outcome(base, product, list[i])
  <2>1. x \in Transitions /\ y \in Transitions /\ x.to < Len(states) /\ y.to < Len(states)
    <3>1. i \in DOMAIN a /\ i \in DOMAIN b
      BY <1>4
    <3>2. x \in Transitions /\ y \in Transitions
      BY <3>1
    <3> QED BY <3>1, <3>2
  <2>2. /\ MeaningIn(nodes, states, x) = outcome /\ MeaningIn(nodes, states, y) = outcome
        /\ Shaped(states, x, outcome) /\ Shaped(states, y, outcome)
    BY <1>1, <1>2, <1>3, <1>4
  <2> HIDE DEF x, y, outcome
  <2>3. x = y
    BY <2>1, <2>2, SameTransition
  <2> QED BY <2>3 DEF x, y
<1> QED BY <1>4, <1>5, SeqEqual

(* Two clones that expand one state, at the same time or with an eviction  *)
(* in between, get one answer: the same transitions, in the same order,    *)
(* with the same ids.                                                      *)
THEOREM ClonesAnswerAlike == Spec => []ClonesAgree
<1>1. ASSUME ExpansionInv, HistoryOK, AnswerInv, NEW id \in DOMAIN answers,
             NEW a \in answers[id], NEW b \in answers[id]
      PROVE  a = b
  <2>1. id \in StateIds
    BY <1>1 DEF AnswerInv, PublishedExact
  <2>2. CASE StateAt(id).kind # "product"
    <3>1. a = EmitAnswer(StateAt(id)) /\ b = EmitAnswer(StateAt(id))
      BY <1>1, <2>1, <2>2 DEF AnswerInv, PublishedListed
    <3> QED BY <3>1
  <2>3. CASE StateAt(id).kind = "product"
    <3> DEFINE product == id_to_state[id + 1]
               base == id_to_node[product.node + 1].node
               ts == a.transitions
               us == b.transitions
    <3>1. /\ Listed(id_to_node, id_to_state, id, a) /\ Listed(id_to_node, id_to_state, id, b)
          /\ Exact(id_to_node, id_to_state, id, a) /\ Exact(id_to_node, id_to_state, id, b)
      BY <1>1, <2>1, <2>3 DEF AnswerInv, PublishedListed, PublishedExact
    <3>2. /\ a \in [final : BOOLEAN, transitions : Seq(Transitions)]
          /\ b \in [final : BOOLEAN, transitions : Seq(Transitions)]
          /\ Lists(id_to_node, id_to_state, ts, base, product)
          /\ Lists(id_to_node, id_to_state, us, base, product)
      BY <3>1 DEF Listed
    <3>3. a.final <=> b.final
      BY <3>1 DEF Exact
    <3>4. /\ \A i \in DOMAIN ts : ts[i].to < Len(id_to_state)
          /\ \A i \in DOMAIN us : us[i].to < Len(id_to_state)
      BY <1>1 DEF HistoryOK
    <3>5. /\ id_to_node \in Seq(Nodes) /\ CanonicalNodes(id_to_node)
          /\ id_to_state \in Seq(States) /\ StatesOK(id_to_state, Len(id_to_node))
      BY <1>1 DEF ExpansionInv, RegistryTypes, RegistriesOK
    <3>6. ts \in Seq(Transitions) /\ us \in Seq(Transitions)
      BY <3>2
    <3> HIDE DEF base, product
    <3>7. ts = us
      <4> HIDE DEF ts, us
      <4> QED BY <3>2, <3>4, <3>5, <3>6, SameTransitions
    <3>8. a.final = b.final
      <4>1. a.final \in BOOLEAN /\ b.final \in BOOLEAN
        BY <3>2
      <4> QED BY <4>1, <3>3
    <3>9. /\ a = [final |-> a.final, transitions |-> a.transitions]
          /\ b = [final |-> b.final, transitions |-> b.transitions]
      BY <3>2
    <3> QED BY <3>7, <3>8, <3>9
  <2> QED BY <2>2, <2>3
<1>2. ASSUME ExpansionInv, HistoryOK, AnswerInv, NEW id \in DOMAIN answers
      PROVE  Cardinality(answers[id]) <= 1
  <2>1. CASE answers[id] = {}
    BY <2>1, FS_EmptySet
  <2>2. CASE answers[id] # {}
    <3>1. PICK a \in answers[id] : TRUE
      BY <2>2
    <3>2. answers[id] = {a}
      BY <3>1, <1>1, <1>2
    <3>3. Cardinality({a}) = 1
      BY FS_Singleton
    <3> QED BY <3>2, <3>3
  <2> QED BY <2>1, <2>2
<1>3. ExpansionInv /\ HistoryOK /\ AnswerInv => ClonesAgree
  BY <1>2 DEF ClonesAgree
<1> QED BY <1>3, ExpansionConsistent, AnswersTraced, PTL

=============================================================================
