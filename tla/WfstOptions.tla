----------------------------- MODULE WfstOptions -----------------------------
(***************************************************************************)
(* The options of the C constructors (ffi/config.rs, ffi/fzf.rs), the      *)
(* graph that is built from them (bindings.rs) and the options a handle    *)
(* gives back (ffi/inspection.rs).                                         *)
(*                                                                         *)
(* An options record has a kind, an algorithm, a distance, the selector    *)
(* and capacity of a cache policy, at most one record of limits and a list *)
(* of custom operations.  Records of a wrong size, version or alignment,   *)
(* and names, are not modelled.                                            *)
(***************************************************************************)
EXTENDS Integers, Sequences, SequencesExt

CONSTANTS
    MaxU8,            \* the largest u8
    MaxOperations,    \* CONFIG_MAX_OPERATIONS: operations, and letters they consume
    MaxRestrictions,  \* CONFIG_MAX_RESTRICTION_PAIRS
    DefaultCapacity   \* 100,000: what an LRU capacity of zero stands for

ASSUME OptionsAssumption ==
    DefaultCapacity # 0 /\ MaxOperations \in Nat /\ MaxRestrictions \in Nat

Kinds == {"Levenshtein", "Universal", "Generalized", "Fzf"}

Algorithms == 0 .. 3

CacheAll == [selector |-> 0, capacity |-> 0]

NoCache == [selector |-> 1, capacity |-> 0]

Lru(capacity) == [selector |-> 2, capacity |-> capacity]

(* The pairs that name a policy: only LRU has a capacity.                  *)
cache_policy(selector, capacity) ==
    \/ selector \in {0, 1} /\ capacity = 0
    \/ selector = 2

(* RequestedCachePolicy::effective                                         *)
effective(policy, kind) ==
    IF policy # Lru(0) THEN policy
    ELSE IF kind = "Fzf" THEN NoCache ELSE Lru(DefaultCapacity)

Policy(raw) == [selector |-> raw.selector, capacity |-> raw.capacity]

(* The limits a Generalized graph is given: it retains a node and a state  *)
(* at least.                                                               *)
decode_limits(limits) == limits.nodes >= 1 /\ limits.states >= 1

(* The records of an operation and of the options, as they are passed.     *)
OperationRecords ==
    [consume_x : Nat, consume_y : Nat, weight : Nat, applicability : Nat,
     restrictions : Seq([source : Seq(STRING), target : Seq(STRING)])]

OptionRecords ==
    [kind : STRING, algorithm : Nat, distance : Nat, selector : Nat, capacity : Nat,
     limits : SUBSET [nodes : Nat, states : Nat], operations : Seq(OperationRecords)]

(* One operation record: it consumes something, changes lengths at a cost  *)
(* only, and lists pairs of its own arity exactly if it says so.  An empty *)
(* text is refused, so a listed operation consumes on both sides.          *)
OperationAccepted(op) ==
    /\ op.consume_x + op.consume_y > 0
    /\ op.weight = 0 => op.consume_x = op.consume_y
    /\ \/ op.applicability = 0 /\ op.restrictions = <<>>
       \/ op.applicability = 1 /\ op.restrictions = <<>> /\ op.consume_x = op.consume_y
       \/ op.applicability = 2 /\ op.restrictions = <<>> /\ op.consume_x = 2 /\ op.consume_y = 2
       \/ /\ op.applicability = 3
          /\ op.restrictions # <<>>
          /\ \A i \in DOMAIN op.restrictions :
                /\ op.restrictions[i].source # <<>> /\ op.restrictions[i].target # <<>>
                /\ Len(op.restrictions[i].source) = op.consume_x
                /\ Len(op.restrictions[i].target) = op.consume_y

Total(counts) ==
    LET sum[n \in 0 .. Len(counts)] == IF n = 0 THEN 0 ELSE sum[n - 1] + counts[n]
    IN  sum[Len(counts)]

OperationsAccepted(operations) ==
    /\ Len(operations) <= MaxOperations
    /\ Total([i \in DOMAIN operations |-> operations[i].consume_x + operations[i].consume_y]) <= MaxOperations
    /\ Total([i \in DOMAIN operations |-> Len(operations[i].restrictions)]) <= MaxRestrictions
    /\ \A i \in DOMAIN operations : OperationAccepted(operations[i])

(* An operation as it is kept: its pairs become a set.                     *)
Operation(op) ==
    [consume_x |-> op.consume_x, consume_y |-> op.consume_y, weight |-> op.weight,
     applicability |-> op.applicability, pairs |-> Range(op.restrictions)]

(* What parse_options accepts.                                             *)
parse_options(raw) ==
    /\ raw.kind \in Kinds
    /\ raw.algorithm \in Algorithms
    /\ cache_policy(raw.selector, raw.capacity)
    /\ raw.kind # "Levenshtein" => raw.algorithm = 0
    /\ raw.kind = "Fzf" => raw.distance = 0
    /\ raw.kind \in {"Universal", "Generalized"} => raw.distance <= MaxU8
    /\ raw.kind # "Generalized" => raw.limits = {} /\ raw.operations = <<>>
    /\ \A limits \in raw.limits : decode_limits(limits)
    /\ OperationsAccepted(raw.operations)

(* ParsedOptions::into_construction                                        *)
into_construction(raw) ==
    [kind |-> raw.kind, algorithm |-> raw.algorithm, distance |-> raw.distance,
     limits |-> raw.limits, fzf |-> "default",
     operations |-> [i \in DOMAIN raw.operations |-> Operation(raw.operations[i])],
     policy |-> effective(Policy(raw), raw.kind)]

(* duallity_wfst_new takes a kind, an algorithm and any distance, and      *)
(* create_wfst adds no more than these and a cache of everything.          *)
legacy_accepts(raw) == raw.kind \in Kinds /\ raw.algorithm \in Algorithms

create_wfst(raw) ==
    [kind |-> raw.kind, algorithm |-> raw.algorithm, distance |-> raw.distance,
     limits |-> {}, operations |-> <<>>, fzf |-> "default", policy |-> CacheAll]

(* duallity_fzf_wfst_new_ref: a configuration with its own cache policy.   *)
fzf_construction(raw) ==
    [kind |-> "Fzf", algorithm |-> 0, distance |-> 0, limits |-> {},
     operations |-> <<>>, fzf |-> raw.fzf, policy |-> effective(Policy(raw), "Fzf")]

(* create_wfst_configured: a distance that must fit u8 where it is one.    *)
Buildable(c) == c.kind \in {"Universal", "Generalized"} => c.distance <= MaxU8

(* Kinds whose construction can refuse the query, grammar or limits.       *)
MayRefuse(c) == c.kind \in {"Generalized", "Fzf"}

(* The graph: what of the construction each kind uses.                     *)
Graph(c) ==
    [kind       |-> c.kind,
     algorithm  |-> IF c.kind = "Levenshtein" THEN c.algorithm ELSE 0,
     distance   |-> IF c.kind = "Fzf" THEN 0 ELSE c.distance,
     limits     |-> IF c.kind = "Generalized" THEN c.limits ELSE {},
     operations |-> IF c.kind = "Generalized" THEN c.operations ELSE <<>>,
     fzf        |-> IF c.kind = "Fzf" THEN c.fzf ELSE "default"]

(* An operation as it is read back.                                        *)
Inspected(op) ==
    [consume_x |-> op.consume_x, consume_y |-> op.consume_y, weight |-> op.weight,
     applicability |-> op.applicability, restrictions |-> SetToSeq(op.pairs)]

(* Mutant: the algorithm as it was passed.                                 *)
OptionsAsPassed(c) ==
    [kind |-> c.kind, algorithm |-> c.algorithm,
     distance |-> IF c.kind = "Fzf" THEN 0 ELSE c.distance,
     limits |-> c.limits,
     operations |-> [i \in DOMAIN c.operations |-> Inspected(c.operations[i])]]

(* OwnedOptions::build                                                     *)
OwnedOptions(c) ==
    [kind |-> c.kind,
     algorithm |-> IF c.kind = "Levenshtein" THEN c.algorithm ELSE 0,
     distance |-> IF c.kind = "Fzf" THEN 0 ELSE c.distance,
     limits |-> c.limits,
     operations |-> [i \in DOMAIN c.operations |-> Inspected(c.operations[i])]]

(* OwnedOptions::readback: the policy is the one in force.                 *)
readback(options, policy) ==
    [kind |-> options.kind, algorithm |-> options.algorithm, distance |-> options.distance,
     limits |-> options.limits, operations |-> options.operations,
     selector |-> policy.selector, capacity |-> policy.capacity]

(* duallity_fzf_wfst_config_get                                            *)
fzf_readback(fzf, policy) ==
    [fzf |-> fzf, selector |-> policy.selector, capacity |-> policy.capacity]

=============================================================================
