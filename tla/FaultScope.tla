----------------------------- MODULE FaultScope -----------------------------
(***************************************************************************)
(* Provider diagnostics of one thread (bindings/fault_scope.rs).  Calls on *)
(* a foreign dictionary cannot return errors, so a failed one is recorded  *)
(* in a stack of scopes kept by the thread: with_checked opens a scope for *)
(* its provider, a generalized expansion opens a computation scope for any *)
(* provider.  Provider callbacks may run further checked calls or          *)
(* expansions before they return, so scopes nest.  Each scope's owner asks *)
(* its own cell, when its work is done, whether anything failed.           *)
(***************************************************************************)
EXTENDS Integers, Sequences, FiniteSets

CONSTANTS
    Statuses,     \* error statuses a provider can return
    NoFault,
    Computation,  \* the boundary of an expansion, which is no provider
    MaxScopes,    \* bound: scopes opened
    MaxFailures   \* bound: provider calls that fail

(* Providers are numbered, and a status is an error.                       *)
ASSUME FaultAssumption == Computation \notin Nat /\ NoFault \notin Statuses

VARIABLES
    frames,    \* FRAMES: the open scopes, innermost last, by cell
    boundary,  \* cell -> the provider it watches, or Computation
    fault,     \* cell -> the status recorded in it, or NoFault
    failures   \* history: failed calls, with the scopes open at the time

faultVars == <<frames, boundary, fault, failures>>

NoScopes ==
    /\ frames = <<>>
    /\ boundary = <<>>
    /\ fault = <<>>
    /\ failures = <<>>

(* FaultScope::enter and FaultScope::computation: a fresh cell on top.     *)
push(b) ==
    /\ Len(fault) < MaxScopes
    /\ frames' = Append(frames, Len(fault) + 1)
    /\ boundary' = Append(boundary, b)
    /\ fault' = Append(fault, NoFault)
    /\ UNCHANGED failures

enter(provider) == push(provider)

computation == push(Computation)

(* Guards are locals of with_checked and of the expansion, so they are     *)
(* dropped innermost first, on return and on unwinding alike.              *)
leave ==
    /\ frames # <<>>
    /\ frames' = SubSeq(frames, 1, Len(frames) - 1)
    /\ UNCHANGED <<boundary, fault, failures>>

Innermost(indexes) == CHOOSE i \in indexes : \A j \in indexes : j <= i

(* The frames that take a fault of the provider.                           *)
Takers(provider) ==
    {i \in DOMAIN frames : boundary[frames[i]] \in {Computation, provider}}

(* Mutant: every enclosing scope of the provider is told.                  *)
AllEnclosing(provider, index) ==
    {i \in 1 .. index - 1 : boundary[frames[i]] \in {Computation, provider}}

(* The provider's own scope around the innermost computation, unless an    *)
(* older computation lies between them.                                    *)
Enclosing(provider, index) ==
    LET outer == {i \in 1 .. index - 1 : boundary[frames[i]] \in {Computation, provider}}
    IN  IF outer # {} /\ boundary[frames[Innermost(outer)]] = provider THEN {Innermost(outer)} ELSE {}

Sinks(provider) ==
    LET index == Innermost(Takers(provider))
    IN  {index} \cup (IF boundary[frames[index]] = Computation
                      THEN Enclosing(provider, index) ELSE {})

Log(provider, status) ==
    /\ Len(failures) < MaxFailures
    /\ failures' = Append(failures, [provider |-> provider, status |-> status,
                                     open |-> frames])

(* A failed call inside some scope: the first fault of a cell stays.       *)
record(provider, status) ==
    /\ Takers(provider) # {}
    /\ Log(provider, status)
    /\ fault' = [c \in DOMAIN fault |->
                    IF fault[c] = NoFault /\ \E i \in Sinks(provider) : frames[i] = c
                    THEN status ELSE fault[c]]
    /\ UNCHANGED <<frames, boundary>>

(* Outside every scope that could take it the failure panics: nothing is   *)
(* recorded, and the caller that catches the panic opened no scope.        *)
record_unscoped(provider) == Takers(provider) = {} /\ UNCHANGED faultVars

----------------------------------------------------------------------------

(* Whether a failure concerns a scope, from the scopes open inside it when *)
(* the call failed: a computation is concerned by the calls it makes       *)
(* itself, outside nested computations and nested scopes of the provider;  *)
(* a provider's scope also by those of a computation it directly encloses. *)
Concerns(failure, cell) ==
    LET At == {i \in DOMAIN failure.open : failure.open[i] = cell}
        inside == {boundary[failure.open[j]] :
                      j \in {k \in DOMAIN failure.open : \A i \in At : i < k}}
        computations == {j \in DOMAIN failure.open :
                            (\A i \in At : i < j) /\ boundary[failure.open[j]] = Computation}
    IN  /\ At # {}
        /\ failure.provider \notin inside
        /\ \/ boundary[cell] = Computation /\ computations = {}
           \/ boundary[cell] = failure.provider /\ \A j, k \in computations : j = k

(* A scope reports the first failure that concerns it and no other: none   *)
(* is lost, nested failures that were handled never poison an older        *)
(* computation, and a directly failed one still reaches the enclosing      *)
(* with_checked (comment at bindings.rs:330).                              *)
FaultsAttributed ==
    \A c \in DOMAIN fault :
        LET mine == {n \in DOMAIN failures : Concerns(failures[n], c)}
        IN  fault[c] = IF mine = {} THEN NoFault
                       ELSE failures[CHOOSE n \in mine : \A m \in mine : n <= m].status

=============================================================================
