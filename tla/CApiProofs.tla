----------------------------- MODULE CApiProofs -----------------------------
(***************************************************************************)
(* Ownership and diagnostics at the C boundary, for every nesting of       *)
(* calls, every request and every bound.  What a call owns is determined   *)
(* by the steps it has taken: the revision between its capture and the     *)
(* export, the resource from there until it is boxed or given away, the    *)
(* handle from its boxing on.  The programs' order of steps does the rest. *)
(* For the options of a handle it is enough that a program reads them once *)
(* and before it builds, and that a graph goes only with its resource.     *)
(***************************************************************************)
EXTENDS CApi, OrderLemmas, SequenceTheorems

----------------------------------------------------------------------------
(* Programs                                                                *)

Steps ==
    {"snapshot", "inspect", "scope", "build", "check", "export", "query", "selectors",
     "slot", "box", "write", "dictionary", "clear", "parse", "fzf", "policy", "records",
     "text", "compile", "into_raw", "walk", "rank", "write_ranking", "computation", "leave"}

(* Steps at which a call can be refused, and at which a callback can make  *)
(* another one.                                                            *)
Refusing ==
    Checks \cup {"snapshot", "slot", "selectors", "parse", "fzf", "policy", "build", "check"}

Calling == {"snapshot", "inspect", "walk"}

Scoping == {"snapshot", "export", "scope", "computation", "leave"}

Reading == {"selectors", "parse", "fzf", "policy"}

Writes == {"write", "into_raw", "write_ranking"}

(* The step was taken before the position at.                              *)
Past(p, at, step) == \E i \in 1 .. at - 1 : p[i] = step

Single == {"snapshot", "export", "box", "scope", "computation", "leave"}

(* What the order of the steps of a program guarantees at each of them...  *)
StepOK(p, entry, at) ==
    /\ \A x \in Writes : ~ Past(p, at, x)
    /\ Past(p, at, "box") <=> p[at] = "write"
    /\ p[at] \in Single => ~ Past(p, at, p[at])
    /\ p[at] \in {"box", "into_raw"} => Past(p, at, "export")
    /\ p[at] \in {"export", "box"} => \E x \in Reading : Past(p, at, x)
    /\ p[at] \in Calling \cup Scoping => ~ Past(p, at, "export")
    /\ p[at] \in {"scope", "computation"} => ~ Past(p, at, "leave")
    /\ p[at] \in {"computation", "leave"} => Past(p, at, "scope")
    /\ p[at] = "scope" => ~ Past(p, at, "computation")
    /\ p[at] = "leave" => Past(p, at, "computation")
    /\ entry \notin Legacy \cup Readers =>
          IF p[at] = "slot" THEN ~ Past(p, at, "clear")
          ELSE p[at] # "clear" => Past(p, at, "clear")

(* ... and at the end.                                                     *)
EndOK(p, entry) ==
    LET end == Len(p) + 1
    IN  /\ entry \notin Readers => \E x \in Writes : Past(p, end, x)
        /\ Past(p, end, "box") <=> Past(p, end, "write")

OrderOK(p, entry) ==
    /\ p \in Seq(Steps)
    /\ \A at \in DOMAIN p : StepOK(p, entry, at)
    /\ EndOK(p, entry)

----------------------------------------------------------------------------
(* Types                                                                   *)

PolicyConstruction(p, kind) ==
    [kind |-> kind, algorithm |-> 0, distance |-> 0, limits |-> {}, operations |-> <<>>,
     fzf |-> "default", policy |-> effective(p, "Levenshtein")]

Constructions ==
    {create_wfst(raw) : raw \in Requests} \cup {into_construction(raw) : raw \in Requests}
    \cup {fzf_construction(raw) : raw \in FzfRequests}
    \cup {PolicyConstruction(p, kind) : p \in Policies, kind \in {"WallBreaker", "Phonetic"}}

OptionValues == {OwnedOptions(c) : c \in Constructions} \cup {Nothing}

PolicyValues ==
    {c.policy : c \in Constructions} \cup {CacheAll}
    \cup {effective(p, kind) : p \in Policies,
                               kind \in {c.kind : c \in Constructions} \cup {"Levenshtein"}}

SlotSet ==
    [is : {"none", "stale", "null", "handle", "resource", "ranking"}, id : Nat]

CallSet ==
    [entry : DOMAIN Program, at : Nat, slot : SlotSet, construction : Constructions \cup {Nothing},
     snapshot : Nat, resource : Nat, handle : Nat, reads : Nat, base : Nat]

ResourceSet ==
    [refs : Nat, exported : Nat, snapshot : Nat,
     graph : {Graph(c) : c \in Constructions} \cup {Nothing}, policy : PolicyValues]

HandleSet ==
    [state : {"boxed", "owned", "freed"}, resource : Nat, options : OptionValues,
     fzf : {c.fzf : c \in Constructions} \cup {Nothing}]

BoundaryTypes ==
    /\ snapshots \in Seq(Nat)
    /\ resources \in Seq(ResourceSet)
    /\ handles \in Seq(HandleSet)
    /\ calls \in Seq(CallSet)

----------------------------------------------------------------------------
(* The inductive invariant                                                 *)

Did(c, step) == Past(Program[c.entry], c.at, step)

AtStep(c) == c.at \in DOMAIN Program[c.entry]

(* What the slot holds follows from the steps taken.                       *)
SlotOK(c) ==
    IF Did(c, "write") THEN c.slot = Slot("handle", c.handle)
    ELSE IF Did(c, "into_raw") THEN c.slot.is = "resource"
    ELSE IF Did(c, "write_ranking") THEN c.slot.is = "ranking"
    ELSE /\ c.slot.is \in {"none", "stale", "null"}
         /\ Did(c, "clear") => c.slot.is = "null"

(* So does what the call owns.                                             *)
CallOK(c) ==
    /\ c.at \in 1 .. Len(Program[c.entry]) + 1
    /\ (\E x \in Reading : Did(c, x)) => c.construction \in Constructions
    /\ c.snapshot # 0 => Did(c, "snapshot")
    /\ c.resource # 0 <=> Did(c, "export") /\ ~ Did(c, "box") /\ ~ Did(c, "into_raw")
    /\ c.handle # 0 <=> Did(c, "box")
    /\ SlotOK(c)

(* What a call holds exists, and nobody has freed it.                      *)
HoldingsOK(c) ==
    /\ c.snapshot # 0 => c.snapshot \in DOMAIN snapshots
    /\ c.resource # 0 => c.resource \in DOMAIN resources
    /\ c.handle # 0 => c.handle \in DOMAIN handles /\ handles[c.handle].state = "boxed"
    /\ Did(c, "into_raw") =>
          c.slot.id \in DOMAIN resources /\ resources[c.slot.id].exported > 0

(* Below the top, calls wait for a callback.                               *)
Waiting(c) == AtStep(c) /\ Program[c.entry][c.at] \in Calling

CallsOK ==
    /\ \A i \in DOMAIN calls : CallOK(calls[i]) /\ HoldingsOK(calls[i])
    /\ \A i \in 1 .. Len(calls) - 1 : Waiting(calls[i])

(* A captured revision has one holder at a time.                           *)
HoldersUnique ==
    /\ \A i, j \in DOMAIN calls :
          calls[i].snapshot # 0 /\ calls[i].snapshot = calls[j].snapshot => i = j
    /\ \A r, q \in DOMAIN resources :
          resources[r].snapshot # 0 /\ resources[r].snapshot = resources[q].snapshot => r = q
    /\ \A i \in DOMAIN calls, r \in DOMAIN resources :
          calls[i].snapshot # 0 => calls[i].snapshot # resources[r].snapshot

ObjectsOK ==
    /\ \A r \in DOMAIN resources :
          /\ resources[r].snapshot # 0 => resources[r].snapshot \in DOMAIN snapshots
          /\ resources[r].refs = 0 => resources[r].snapshot = 0
    /\ \A h \in DOMAIN handles :
          handles[h].state # "freed" => handles[h].resource \in DOMAIN resources

(* The object the last answer points to exists.                            *)
AnswerOK ==
    /\ SlotsTruthful
    /\ answer # Nothing /\ answer.entry \notin Readers /\ answer.ok =>
          /\ answer.slot.is = "handle" => answer.slot.id \in DOMAIN handles
          /\ answer.slot.is = "resource" => answer.slot.id \in DOMAIN resources

(* OwnersExact, given that only the innermost call can hold a resource or  *)
(* a handle and that what is destroyed holds no revision.                  *)
HeldByTop(r) == IF calls # <<>> /\ Top.resource = r THEN 1 ELSE 0

Held(s) ==
    \/ \E i \in DOMAIN calls : calls[i].snapshot = s
    \/ \E r \in DOMAIN resources : resources[r].snapshot = s

OwnersCounted ==
    /\ \A r \in DOMAIN resources :
          resources[r].refs = Cardinality(LiveHandles(r)) + resources[r].exported + HeldByTop(r)
    /\ \A s \in DOMAIN snapshots : snapshots[s] = IF Held(s) THEN 0 ELSE 1
    /\ \A h \in DOMAIN handles :
          handles[h].state = "boxed" => calls # <<>> /\ Top.handle = h

OwnershipInv ==
    BoundaryTypes /\ CallsOK /\ HoldersUnique /\ ObjectsOK /\ OwnersCounted /\ AnswerOK

(* The scopes that a call has open.                                        *)
Opened(c) ==
    IF Did(c, "export") \/ ~ Did(c, "scope") THEN 0
    ELSE IF Did(c, "computation") /\ ~ Did(c, "leave") THEN 2 ELSE 1

(* Each call stands on the scopes of those below it.                       *)
ScopesStacked ==
    /\ calls = <<>> => frames = <<>>
    /\ calls # <<>> => calls[1].base = 0 /\ Len(frames) = Top.base + Opened(Top)
    /\ \A i \in 1 .. Len(calls) - 1 : calls[i + 1].base = calls[i].base + Opened(calls[i])

OpenOK(open) ==
    /\ \A i \in DOMAIN open : open[i] \in DOMAIN fault
    /\ \A i, j \in DOMAIN open : i < j => open[i] < open[j]

FaultTypes ==
    /\ frames \in Seq(Nat)
    /\ boundary \in Seq(Nat \cup {Computation})
    /\ fault \in Seq(Statuses \cup {NoFault})
    /\ failures \in Seq([provider : Nat, status : Statuses, open : Seq(Nat)])
    /\ Len(boundary) = Len(fault)

FaultInv ==
    /\ FaultTypes
    /\ OpenOK(frames)
    /\ \A n \in DOMAIN failures : OpenOK(failures[n].open)
    /\ FaultsAttributed

(* A state is read through a resource that was built.                      *)
ReadsOK == \A i \in DOMAIN calls : calls[i].reads \in 0 .. Len(resources)

ScopesInv == FaultInv /\ ScopesStacked /\ ReadsOK

----------------------------------------------------------------------------
(* The order of the steps                                                  *)

(* Lists that are written out, one after the other.                        *)
LEMMA Joined ==
    ASSUME NEW S, NEW a \in Seq(S), NEW b \in Seq(S), NEW c \in Seq(S),
           Len(c) = Len(a) + Len(b),
           \A i \in 1 .. Len(a) : c[i] = a[i], \A i \in 1 .. Len(b) : c[Len(a) + i] = b[i]
    PROVE  a \o b = c
<1>1. a \o b \in Seq(S) /\ Len(a \o b) = Len(c) /\ Len(a) \in Nat /\ Len(b) \in Nat
  OBVIOUS
<1>2. ASSUME NEW i \in 1 .. Len(c) PROVE (a \o b)[i] = c[i]
  <2>1. CASE i <= Len(a)
    BY <1>1, <2>1
  <2>2. CASE i > Len(a)
    <3>1. i - Len(a) \in 1 .. Len(b) /\ Len(a) + (i - Len(a)) = i
      BY <1>1, <2>2
    <3>2. (a \o b)[i] = b[i - Len(a)]
      BY <1>1, <2>2
    <3> QED BY <3>1, <3>2
  <2> QED BY <1>1, <2>1, <2>2
<1> QED BY <1>1, <1>2, SeqEqual

(* Short ranges, written out.                                              *)
LEMMA Counted ==
    /\ \A i \in 1 .. 1 : i \in {1}
    /\ \A i \in 1 .. 2 : i \in {1, 2}
    /\ \A i \in 1 .. 3 : i \in {1, 2, 3}
    /\ \A i \in 1 .. 4 : i \in {1, 2, 3, 4}
    /\ \A i \in 1 .. 5 : i \in {1, 2, 3, 4, 5}
    /\ \A i \in 1 .. 6 : i \in {1, 2, 3, 4, 5, 6}
    /\ \A i \in 1 .. 7 : i \in {1, 2, 3, 4, 5, 6, 7}
    /\ \A i \in 1 .. 8 : i \in {1, 2, 3, 4, 5, 6, 7, 8}
    /\ \A i \in 1 .. 9 : i \in {1, 2, 3, 4, 5, 6, 7, 8, 9}
    /\ \A i \in 1 .. 10 : i \in {1, 2, 3, 4, 5, 6, 7, 8, 9, 10}
    /\ \A i \in 1 .. 11 : i \in {1, 2, 3, 4, 5, 6, 7, 8, 9, 10, 11}
    /\ \A i \in 1 .. 12 : i \in {1, 2, 3, 4, 5, 6, 7, 8, 9, 10, 11, 12}
    /\ \A i \in 1 .. 13 : i \in {1, 2, 3, 4, 5, 6, 7, 8, 9, 10, 11, 12, 13}
    /\ \A i \in 1 .. 14 : i \in {1, 2, 3, 4, 5, 6, 7, 8, 9, 10, 11, 12, 13, 14}
OBVIOUS

(* The steps of the shared constructor, as one list.                       *)
LEMMA CreateSteps ==
    create_wfst_configured =
        <<"snapshot", "inspect", "scope", "build", "check", "export">>
<1> DEFINE p1 == <<"snapshot", "inspect">>
           p2 == <<"scope", "build", "check", "export">>
           q2 == <<"snapshot", "inspect", "scope", "build", "check", "export">>
<1>1. p1 \o p2 = q2
  <2>1. /\ p1 \in Seq(Steps) /\ p2 \in Seq(Steps) /\ q2 \in Seq(Steps)
        /\ Len(p1) = 2 /\ Len(p2) = 4 /\ Len(q2) = 6
    BY DEF Steps
  <2>2. /\ \A i \in 1 .. 2 : q2[i] = p1[i]
        /\ \A i \in 1 .. 4 : q2[2 + i] = p2[i]
    BY Counted
  <2> HIDE DEF p1, p2, q2
  <2>3. /\ Len(q2) = Len(p1) + Len(p2)
        /\ \A i \in 1 .. Len(p1) : q2[i] = p1[i]
        /\ \A i \in 1 .. Len(p2) : q2[Len(p1) + i] = p2[i]
    BY <2>1, <2>2
  <2> QED BY <2>1, <2>3, Joined
<1> QED BY <1>1 DEF create_wfst_configured, capture

(* The steps of duallity_wfst_new.                                         *)
LEMMA NewSteps ==
    duallity_wfst_new =
        <<"query", "selectors", "snapshot", "inspect", "scope", "build", "check",
          "export", "slot", "box", "write">>
<1> DEFINE p1 == <<"query", "selectors">>
           p2 == <<"snapshot", "inspect", "scope", "build", "check", "export">>
           q2 == <<"query", "selectors", "snapshot", "inspect", "scope", "build",
                   "check", "export">>
           p3 == <<"slot", "box", "write">>
           q3 == <<"query", "selectors", "snapshot", "inspect", "scope", "build",
                   "check", "export", "slot", "box", "write">>
<1>1. p1 \o p2 = q2
  <2>1. /\ p1 \in Seq(Steps) /\ p2 \in Seq(Steps) /\ q2 \in Seq(Steps)
        /\ Len(p1) = 2 /\ Len(p2) = 6 /\ Len(q2) = 8
    BY DEF Steps
  <2>2. /\ \A i \in 1 .. 2 : q2[i] = p1[i]
        /\ \A i \in 1 .. 6 : q2[2 + i] = p2[i]
    BY Counted
  <2> HIDE DEF p1, p2, q2
  <2>3. /\ Len(q2) = Len(p1) + Len(p2)
        /\ \A i \in 1 .. Len(p1) : q2[i] = p1[i]
        /\ \A i \in 1 .. Len(p2) : q2[Len(p1) + i] = p2[i]
    BY <2>1, <2>2
  <2> QED BY <2>1, <2>3, Joined
<1>2. q2 \o p3 = q3
  <2>1. /\ q2 \in Seq(Steps) /\ p3 \in Seq(Steps) /\ q3 \in Seq(Steps)
        /\ Len(q2) = 8 /\ Len(p3) = 3 /\ Len(q3) = 11
    BY DEF Steps
  <2>2. /\ \A i \in 1 .. 8 : q3[i] = q2[i]
        /\ \A i \in 1 .. 3 : q3[8 + i] = p3[i]
    BY Counted
  <2> HIDE DEF q2, p3, q3
  <2>3. /\ Len(q3) = Len(q2) + Len(p3)
        /\ \A i \in 1 .. Len(q2) : q3[i] = q2[i]
        /\ \A i \in 1 .. Len(p3) : q3[Len(q2) + i] = p3[i]
    BY <2>1, <2>2
  <2> QED BY <2>1, <2>3, Joined
<1> QED BY <1>1, <1>2, CreateSteps DEF duallity_wfst_new

(* The steps of duallity_wfst_new_ref.                                     *)
LEMMA NewRefSteps ==
    duallity_wfst_new_ref =
        <<"dictionary", "query", "selectors", "snapshot", "inspect", "scope", "build",
          "check", "export", "slot", "box", "write">>
<1> DEFINE p1 == <<"dictionary">>
           p2 == <<"query", "selectors", "snapshot", "inspect", "scope", "build",
                   "check", "export", "slot", "box", "write">>
           q2 == <<"dictionary", "query", "selectors", "snapshot", "inspect", "scope",
                   "build", "check", "export", "slot", "box", "write">>
<1>1. p1 \o p2 = q2
  <2>1. /\ p1 \in Seq(Steps) /\ p2 \in Seq(Steps) /\ q2 \in Seq(Steps)
        /\ Len(p1) = 1 /\ Len(p2) = 11 /\ Len(q2) = 12
    BY DEF Steps
  <2>2. /\ \A i \in 1 .. 1 : q2[i] = p1[i]
        /\ \A i \in 1 .. 11 : q2[1 + i] = p2[i]
    BY Counted
  <2> HIDE DEF p1, p2, q2
  <2>3. /\ Len(q2) = Len(p1) + Len(p2)
        /\ \A i \in 1 .. Len(p1) : q2[i] = p1[i]
        /\ \A i \in 1 .. Len(p2) : q2[Len(p1) + i] = p2[i]
    BY <2>1, <2>2
  <2> QED BY <2>1, <2>3, Joined
<1> QED BY <1>1, NewSteps DEF duallity_wfst_new_ref

(* The steps of duallity_wfst_new_configured_ref.                          *)
LEMMA ConfiguredSteps ==
    duallity_wfst_new_configured_ref =
        <<"slot", "clear", "dictionary", "query", "parse", "snapshot", "inspect",
          "scope", "build", "check", "export", "box", "write">>
<1> DEFINE p1 == <<"slot", "clear", "dictionary", "query", "parse">>
           p2 == <<"snapshot", "inspect", "scope", "build", "check", "export">>
           q2 == <<"slot", "clear", "dictionary", "query", "parse", "snapshot",
                   "inspect", "scope", "build", "check", "export">>
           p3 == <<"box", "write">>
           q3 == <<"slot", "clear", "dictionary", "query", "parse", "snapshot",
                   "inspect", "scope", "build", "check", "export", "box", "write">>
<1>1. p1 \o p2 = q2
  <2>1. /\ p1 \in Seq(Steps) /\ p2 \in Seq(Steps) /\ q2 \in Seq(Steps)
        /\ Len(p1) = 5 /\ Len(p2) = 6 /\ Len(q2) = 11
    BY DEF Steps
  <2>2. /\ \A i \in 1 .. 5 : q2[i] = p1[i]
        /\ \A i \in 1 .. 6 : q2[5 + i] = p2[i]
    BY Counted
  <2> HIDE DEF p1, p2, q2
  <2>3. /\ Len(q2) = Len(p1) + Len(p2)
        /\ \A i \in 1 .. Len(p1) : q2[i] = p1[i]
        /\ \A i \in 1 .. Len(p2) : q2[Len(p1) + i] = p2[i]
    BY <2>1, <2>2
  <2> QED BY <2>1, <2>3, Joined
<1>2. q2 \o p3 = q3
  <2>1. /\ q2 \in Seq(Steps) /\ p3 \in Seq(Steps) /\ q3 \in Seq(Steps)
        /\ Len(q2) = 11 /\ Len(p3) = 2 /\ Len(q3) = 13
    BY DEF Steps
  <2>2. /\ \A i \in 1 .. 11 : q3[i] = q2[i]
        /\ \A i \in 1 .. 2 : q3[11 + i] = p3[i]
    BY Counted
  <2> HIDE DEF q2, p3, q3
  <2>3. /\ Len(q3) = Len(q2) + Len(p3)
        /\ \A i \in 1 .. Len(q2) : q3[i] = q2[i]
        /\ \A i \in 1 .. Len(p3) : q3[Len(q2) + i] = p3[i]
    BY <2>1, <2>2
  <2> QED BY <2>1, <2>3, Joined
<1> QED BY <1>1, <1>2, CreateSteps DEF duallity_wfst_new_configured_ref

(* The steps of duallity_fzf_wfst_new_ref.                                 *)
LEMMA FzfSteps ==
    duallity_fzf_wfst_new_ref =
        <<"slot", "clear", "dictionary", "query", "fzf", "snapshot", "inspect", "scope",
          "build", "check", "export", "box", "write">>
<1> DEFINE p1 == <<"slot", "clear", "dictionary", "query", "fzf">>
           p2 == <<"snapshot", "inspect", "scope", "build", "check", "export">>
           q2 == <<"slot", "clear", "dictionary", "query", "fzf", "snapshot", "inspect",
                   "scope", "build", "check", "export">>
           p3 == <<"box", "write">>
           q3 == <<"slot", "clear", "dictionary", "query", "fzf", "snapshot", "inspect",
                   "scope", "build", "check", "export", "box", "write">>
<1>1. p1 \o p2 = q2
  <2>1. /\ p1 \in Seq(Steps) /\ p2 \in Seq(Steps) /\ q2 \in Seq(Steps)
        /\ Len(p1) = 5 /\ Len(p2) = 6 /\ Len(q2) = 11
    BY DEF Steps
  <2>2. /\ \A i \in 1 .. 5 : q2[i] = p1[i]
        /\ \A i \in 1 .. 6 : q2[5 + i] = p2[i]
    BY Counted
  <2> HIDE DEF p1, p2, q2
  <2>3. /\ Len(q2) = Len(p1) + Len(p2)
        /\ \A i \in 1 .. Len(p1) : q2[i] = p1[i]
        /\ \A i \in 1 .. Len(p2) : q2[Len(p1) + i] = p2[i]
    BY <2>1, <2>2
  <2> QED BY <2>1, <2>3, Joined
<1>2. q2 \o p3 = q3
  <2>1. /\ q2 \in Seq(Steps) /\ p3 \in Seq(Steps) /\ q3 \in Seq(Steps)
        /\ Len(q2) = 11 /\ Len(p3) = 2 /\ Len(q3) = 13
    BY DEF Steps
  <2>2. /\ \A i \in 1 .. 11 : q3[i] = q2[i]
        /\ \A i \in 1 .. 2 : q3[11 + i] = p3[i]
    BY Counted
  <2> HIDE DEF q2, p3, q3
  <2>3. /\ Len(q3) = Len(q2) + Len(p3)
        /\ \A i \in 1 .. Len(q2) : q3[i] = q2[i]
        /\ \A i \in 1 .. Len(p3) : q3[Len(q2) + i] = p3[i]
    BY <2>1, <2>2
  <2> QED BY <2>1, <2>3, Joined
<1> QED BY <1>1, <1>2, CreateSteps DEF duallity_fzf_wfst_new_ref

(* The steps of duallity_phonetic_product_new_ref.                         *)
LEMMA ProductSteps ==
    duallity_phonetic_product_new_ref =
        <<"slot", "clear", "dictionary", "text", "policy", "compile", "snapshot",
          "inspect", "scope", "compile", "check", "export", "into_raw">>
<1> DEFINE p1 == <<"slot", "clear", "dictionary", "text", "policy", "compile">>
           p2 == <<"snapshot", "inspect">>
           q2 == <<"slot", "clear", "dictionary", "text", "policy", "compile",
                   "snapshot", "inspect">>
           p3 == <<"scope", "compile", "check", "export", "into_raw">>
           q3 == <<"slot", "clear", "dictionary", "text", "policy", "compile",
                   "snapshot", "inspect", "scope", "compile", "check", "export",
                   "into_raw">>
<1>1. p1 \o p2 = q2
  <2>1. /\ p1 \in Seq(Steps) /\ p2 \in Seq(Steps) /\ q2 \in Seq(Steps)
        /\ Len(p1) = 6 /\ Len(p2) = 2 /\ Len(q2) = 8
    BY DEF Steps
  <2>2. /\ \A i \in 1 .. 6 : q2[i] = p1[i]
        /\ \A i \in 1 .. 2 : q2[6 + i] = p2[i]
    BY Counted
  <2> HIDE DEF p1, p2, q2
  <2>3. /\ Len(q2) = Len(p1) + Len(p2)
        /\ \A i \in 1 .. Len(p1) : q2[i] = p1[i]
        /\ \A i \in 1 .. Len(p2) : q2[Len(p1) + i] = p2[i]
    BY <2>1, <2>2
  <2> QED BY <2>1, <2>3, Joined
<1>2. q2 \o p3 = q3
  <2>1. /\ q2 \in Seq(Steps) /\ p3 \in Seq(Steps) /\ q3 \in Seq(Steps)
        /\ Len(q2) = 8 /\ Len(p3) = 5 /\ Len(q3) = 13
    BY DEF Steps
  <2>2. /\ \A i \in 1 .. 8 : q3[i] = q2[i]
        /\ \A i \in 1 .. 5 : q3[8 + i] = p3[i]
    BY Counted
  <2> HIDE DEF q2, p3, q3
  <2>3. /\ Len(q3) = Len(q2) + Len(p3)
        /\ \A i \in 1 .. Len(q2) : q3[i] = q2[i]
        /\ \A i \in 1 .. Len(p3) : q3[Len(q2) + i] = p3[i]
    BY <2>1, <2>2
  <2> QED BY <2>1, <2>3, Joined
<1> QED BY <1>1, <1>2 DEF duallity_phonetic_product_new_ref, capture

(* The steps of duallity_fzf_rank_ref.                                     *)
LEMMA RankSteps ==
    duallity_fzf_rank_ref =
        <<"slot", "clear", "dictionary", "query", "fzf", "snapshot", "inspect", "scope",
          "walk", "check", "rank", "write_ranking">>
<1> DEFINE p1 == <<"slot", "clear", "dictionary", "query", "fzf">>
           p2 == <<"snapshot", "inspect">>
           q2 == <<"slot", "clear", "dictionary", "query", "fzf", "snapshot",
                   "inspect">>
           p3 == <<"scope", "walk", "check", "rank", "write_ranking">>
           q3 == <<"slot", "clear", "dictionary", "query", "fzf", "snapshot", "inspect",
                   "scope", "walk", "check", "rank", "write_ranking">>
<1>1. p1 \o p2 = q2
  <2>1. /\ p1 \in Seq(Steps) /\ p2 \in Seq(Steps) /\ q2 \in Seq(Steps)
        /\ Len(p1) = 5 /\ Len(p2) = 2 /\ Len(q2) = 7
    BY DEF Steps
  <2>2. /\ \A i \in 1 .. 5 : q2[i] = p1[i]
        /\ \A i \in 1 .. 2 : q2[5 + i] = p2[i]
    BY Counted
  <2> HIDE DEF p1, p2, q2
  <2>3. /\ Len(q2) = Len(p1) + Len(p2)
        /\ \A i \in 1 .. Len(p1) : q2[i] = p1[i]
        /\ \A i \in 1 .. Len(p2) : q2[Len(p1) + i] = p2[i]
    BY <2>1, <2>2
  <2> QED BY <2>1, <2>3, Joined
<1>2. q2 \o p3 = q3
  <2>1. /\ q2 \in Seq(Steps) /\ p3 \in Seq(Steps) /\ q3 \in Seq(Steps)
        /\ Len(q2) = 7 /\ Len(p3) = 5 /\ Len(q3) = 12
    BY DEF Steps
  <2>2. /\ \A i \in 1 .. 7 : q3[i] = q2[i]
        /\ \A i \in 1 .. 5 : q3[7 + i] = p3[i]
    BY Counted
  <2> HIDE DEF q2, p3, q3
  <2>3. /\ Len(q3) = Len(q2) + Len(p3)
        /\ \A i \in 1 .. Len(q2) : q3[i] = q2[i]
        /\ \A i \in 1 .. Len(p3) : q3[Len(q2) + i] = p3[i]
    BY <2>1, <2>2
  <2> QED BY <2>1, <2>3, Joined
<1> QED BY <1>1, <1>2 DEF duallity_fzf_rank_ref, capture

(* Every program takes its steps in an order that makes ownership          *)
(* unambiguous.                                                            *)
LEMMA ProgramOrder == \A entry \in DOMAIN Program : OrderOK(Program[entry], entry)
<1>1. OrderOK(duallity_wfst_new, "wfst_new")
  <2> DEFINE p == <<"query", "selectors", "snapshot", "inspect", "scope", "build",
                   "check", "export", "slot", "box", "write">>
  <2>1. p \in Seq(Steps) /\ Len(p) = 11 /\ DOMAIN p = 1 .. 11
    BY DEF Steps
  <2>2. \A at \in DOMAIN p : StepOK(p, "wfst_new", at)
    BY Counted DEF StepOK, Past, Single, Scoping, Calling, Reading, Writes, Legacy, Readers
  <2>3. EndOK(p, "wfst_new")
    BY Counted DEF EndOK, Past, Writes, Readers
  <2> QED BY <2>1, <2>2, <2>3, NewSteps DEF OrderOK
<1>2. OrderOK(duallity_wfst_new_ref, "wfst_new_ref")
  <2> DEFINE p == <<"dictionary", "query", "selectors", "snapshot", "inspect", "scope",
                   "build", "check", "export", "slot", "box", "write">>
  <2>1. p \in Seq(Steps) /\ Len(p) = 12 /\ DOMAIN p = 1 .. 12
    BY DEF Steps
  <2>2. \A at \in DOMAIN p : StepOK(p, "wfst_new_ref", at)
    BY Counted DEF StepOK, Past, Single, Scoping, Calling, Reading, Writes, Legacy, Readers
  <2>3. EndOK(p, "wfst_new_ref")
    BY Counted DEF EndOK, Past, Writes, Readers
  <2> QED BY <2>1, <2>2, <2>3, NewRefSteps DEF OrderOK
<1>3. OrderOK(duallity_wfst_new_configured_ref, "configured")
  <2> DEFINE p == <<"slot", "clear", "dictionary", "query", "parse", "snapshot",
                   "inspect", "scope", "build", "check", "export", "box", "write">>
  <2>1. p \in Seq(Steps) /\ Len(p) = 13 /\ DOMAIN p = 1 .. 13
    BY DEF Steps
  <2>2. \A at \in DOMAIN p : StepOK(p, "configured", at)
    BY Counted DEF StepOK, Past, Single, Scoping, Calling, Reading, Writes, Legacy, Readers
  <2>3. EndOK(p, "configured")
    BY Counted DEF EndOK, Past, Writes, Readers
  <2> QED BY <2>1, <2>2, <2>3, ConfiguredSteps DEF OrderOK
<1>4. OrderOK(duallity_fzf_wfst_new_ref, "fzf")
  <2> DEFINE p == <<"slot", "clear", "dictionary", "query", "fzf", "snapshot", "inspect",
                   "scope", "build", "check", "export", "box", "write">>
  <2>1. p \in Seq(Steps) /\ Len(p) = 13 /\ DOMAIN p = 1 .. 13
    BY DEF Steps
  <2>2. \A at \in DOMAIN p : StepOK(p, "fzf", at)
    BY Counted DEF StepOK, Past, Single, Scoping, Calling, Reading, Writes, Legacy, Readers
  <2>3. EndOK(p, "fzf")
    BY Counted DEF EndOK, Past, Writes, Readers
  <2> QED BY <2>1, <2>2, <2>3, FzfSteps DEF OrderOK
<1>5. OrderOK(duallity_wallbreaker_wfst_new_results, "wallbreaker")
  <2> DEFINE p == <<"slot", "clear", "query", "policy", "records", "export", "box",
                   "write">>
  <2>1. p \in Seq(Steps) /\ Len(p) = 8 /\ DOMAIN p = 1 .. 8
    BY DEF Steps
  <2>2. \A at \in DOMAIN p : StepOK(p, "wallbreaker", at)
    BY Counted DEF StepOK, Past, Single, Scoping, Calling, Reading, Writes, Legacy, Readers
  <2>3. EndOK(p, "wallbreaker")
    BY Counted DEF EndOK, Past, Writes, Readers
  <2> QED BY <2>1, <2>2, <2>3 DEF OrderOK, duallity_wallbreaker_wfst_new_results
<1>6. OrderOK(duallity_phonetic_nfa_new, "phonetic_nfa")
  <2> DEFINE p == <<"slot", "clear", "text", "policy", "compile", "export", "into_raw">>
  <2>1. p \in Seq(Steps) /\ Len(p) = 7 /\ DOMAIN p = 1 .. 7
    BY DEF Steps
  <2>2. \A at \in DOMAIN p : StepOK(p, "phonetic_nfa", at)
    BY Counted DEF StepOK, Past, Single, Scoping, Calling, Reading, Writes, Legacy, Readers
  <2>3. EndOK(p, "phonetic_nfa")
    BY Counted DEF EndOK, Past, Writes, Readers
  <2> QED BY <2>1, <2>2, <2>3 DEF OrderOK, duallity_phonetic_nfa_new
<1>7. OrderOK(duallity_phonetic_product_new_ref, "phonetic_product")
  <2> DEFINE p == <<"slot", "clear", "dictionary", "text", "policy", "compile",
                   "snapshot", "inspect", "scope", "compile", "check", "export",
                   "into_raw">>
  <2>1. p \in Seq(Steps) /\ Len(p) = 13 /\ DOMAIN p = 1 .. 13
    BY DEF Steps
  <2>2. \A at \in DOMAIN p : StepOK(p, "phonetic_product", at)
    BY Counted DEF StepOK, Past, Single, Scoping, Calling, Reading, Writes, Legacy, Readers
  <2>3. EndOK(p, "phonetic_product")
    BY Counted DEF EndOK, Past, Writes, Readers
  <2> QED BY <2>1, <2>2, <2>3, ProductSteps DEF OrderOK
<1>8. OrderOK(duallity_phonetic_rewrite_new, "phonetic_rewrite")
  <2> DEFINE p == <<"slot", "clear", "records", "policy", "text", "compile", "export",
                   "into_raw">>
  <2>1. p \in Seq(Steps) /\ Len(p) = 8 /\ DOMAIN p = 1 .. 8
    BY DEF Steps
  <2>2. \A at \in DOMAIN p : StepOK(p, "phonetic_rewrite", at)
    BY Counted DEF StepOK, Past, Single, Scoping, Calling, Reading, Writes, Legacy, Readers
  <2>3. EndOK(p, "phonetic_rewrite")
    BY Counted DEF EndOK, Past, Writes, Readers
  <2> QED BY <2>1, <2>2, <2>3 DEF OrderOK, duallity_phonetic_rewrite_new
<1>9. OrderOK(duallity_phonetic_rewrite_builtin_new, "phonetic_builtin")
  <2> DEFINE p == <<"slot", "clear", "text", "policy", "compile", "export", "into_raw">>
  <2>1. p \in Seq(Steps) /\ Len(p) = 7 /\ DOMAIN p = 1 .. 7
    BY DEF Steps
  <2>2. \A at \in DOMAIN p : StepOK(p, "phonetic_builtin", at)
    BY Counted DEF StepOK, Past, Single, Scoping, Calling, Reading, Writes, Legacy, Readers
  <2>3. EndOK(p, "phonetic_builtin")
    BY Counted DEF EndOK, Past, Writes, Readers
  <2> QED BY <2>1, <2>2, <2>3 DEF OrderOK, duallity_phonetic_rewrite_builtin_new
<1>10. OrderOK(duallity_fzf_rank_ref, "rank")
  <2> DEFINE p == <<"slot", "clear", "dictionary", "query", "fzf", "snapshot", "inspect",
                   "scope", "walk", "check", "rank", "write_ranking">>
  <2>1. p \in Seq(Steps) /\ Len(p) = 12 /\ DOMAIN p = 1 .. 12
    BY DEF Steps
  <2>2. \A at \in DOMAIN p : StepOK(p, "rank", at)
    BY Counted DEF StepOK, Past, Single, Scoping, Calling, Reading, Writes, Legacy, Readers
  <2>3. EndOK(p, "rank")
    BY Counted DEF EndOK, Past, Writes, Readers
  <2> QED BY <2>1, <2>2, <2>3, RankSteps DEF OrderOK
<1>11. OrderOK(scalar_state, "state")
  <2> DEFINE p == <<"scope", "walk", "check">>
  <2>1. p \in Seq(Steps) /\ Len(p) = 3 /\ DOMAIN p = 1 .. 3
    BY DEF Steps
  <2>2. \A at \in DOMAIN p : StepOK(p, "state", at)
    BY Counted DEF StepOK, Past, Single, Scoping, Calling, Reading, Writes, Legacy, Readers
  <2>3. EndOK(p, "state")
    BY Counted DEF EndOK, Past, Writes, Readers
  <2> QED BY <2>1, <2>2, <2>3 DEF OrderOK, scalar_state
<1>12. OrderOK(generalized_state, "generalized_state")
  <2> DEFINE p == <<"scope", "computation", "walk", "check", "leave", "check">>
  <2>1. p \in Seq(Steps) /\ Len(p) = 6 /\ DOMAIN p = 1 .. 6
    BY DEF Steps
  <2>2. \A at \in DOMAIN p : StepOK(p, "generalized_state", at)
    BY Counted DEF StepOK, Past, Single, Scoping, Calling, Reading, Writes, Legacy, Readers
  <2>3. EndOK(p, "generalized_state")
    BY Counted DEF EndOK, Past, Writes, Readers
  <2> QED BY <2>1, <2>2, <2>3 DEF OrderOK, generalized_state
<1> QED
  BY <1>1, <1>2, <1>3, <1>4, <1>5, <1>6, <1>7, <1>8, <1>9, <1>10, <1>11, <1>12 DEF Program

----------------------------------------------------------------------------
(* Calls                                                                   *)

(* The types of a call's fields.                                           *)
LEMMA CallFields ==
    ASSUME NEW c \in CallSet
    PROVE  /\ c.entry \in DOMAIN Program /\ c.at \in Nat /\ c.slot \in SlotSet
           /\ c.slot = Slot(c.slot.is, c.slot.id) /\ c.slot.id \in Nat
           /\ c.construction \in Constructions \cup {Nothing}
           /\ c.snapshot \in Nat /\ c.resource \in Nat /\ c.handle \in Nat
           /\ c.reads \in Nat /\ c.base \in Nat
BY DEF CallSet, SlotSet, Slot

(* The types of a resource's counters.                                     *)
LEMMA ResourceFields ==
    ASSUME NEW r \in ResourceSet
    PROVE  r.refs \in Nat /\ r.exported \in Nat /\ r.snapshot \in Nat
BY DEF ResourceSet

(* The types of a handle's fields.                                         *)
LEMMA HandleFields ==
    ASSUME NEW h \in HandleSet
    PROVE  h.state \in {"boxed", "owned", "freed"} /\ h.resource \in Nat
BY DEF HandleSet

(* The innermost call is one of them.                                      *)
LEMMA TopIn ==
    ASSUME calls \in Seq(CallSet), calls # <<>>
    PROVE  /\ Len(calls) \in Nat \ {0} /\ Len(calls) \in DOMAIN calls
           /\ DOMAIN calls = 1 .. Len(calls)
           /\ Top = calls[Len(calls)] /\ Top \in CallSet
BY DEF Top

(* A program's steps, with what ProgramOrder says of them.                 *)
LEMMA ProgramFacts ==
    ASSUME NEW entry \in DOMAIN Program
    PROVE  /\ Program[entry] \in Seq(Steps)
           /\ Len(Program[entry]) \in Nat
           /\ DOMAIN Program[entry] = 1 .. Len(Program[entry])
           /\ \A at \in DOMAIN Program[entry] :
                 Program[entry][at] \in Steps /\ StepOK(Program[entry], entry, at)
           /\ EndOK(Program[entry], entry)
<1>1. Program[entry] \in Seq(Steps)
  BY ProgramOrder DEF OrderOK
<1> QED BY <1>1, ProgramOrder DEF OrderOK

(* What is taken by the next step.                                         *)
LEMMA Taken ==
    ASSUME NEW c \in CallSet, NEW n \in CallSet, AtStep(c),
           n.entry = c.entry, n.at = c.at + 1, NEW x
    PROVE  Did(n, x) <=> Did(c, x) \/ Program[c.entry][c.at] = x
<1>1. c.at \in Nat \ {0} /\ (c.at + 1) - 1 = c.at
  BY CallFields, ProgramFacts DEF AtStep
<1>2. \A i : i \in 1 .. c.at <=> i \in 1 .. c.at - 1 \/ i = c.at
  BY <1>1
<1> QED BY <1>1, <1>2 DEF Did, Past

(* A call that goes on stays within its program or reaches its end.        *)
LEMMA NextAt ==
    ASSUME NEW c \in CallSet, NEW n \in CallSet, AtStep(c), n.entry = c.entry, n.at = c.at + 1
    PROVE  n.at \in 1 .. Len(Program[n.entry]) + 1
<1>1. c.at \in 1 .. Len(Program[c.entry]) /\ Len(Program[c.entry]) \in Nat
  BY CallFields, ProgramFacts DEF AtStep
<1> QED BY <1>1

(* A step that can be taken now.                                           *)
LEMMA NowFacts ==
    ASSUME calls \in Seq(CallSet), CallsOK, NEW step, Now(step)
    PROVE  /\ calls # <<>> /\ Top \in CallSet /\ AtStep(Top) /\ CallOK(Top) /\ HoldingsOK(Top)
           /\ step = Program[Top.entry][Top.at] /\ step \in Steps
           /\ StepOK(Program[Top.entry], Top.entry, Top.at)
           /\ DOMAIN calls = 1 .. Len(calls) /\ Len(calls) \in Nat \ {0}
<1>1. calls # <<>> /\ Top.at <= Len(Program[Top.entry]) /\ Program[Top.entry][Top.at] = step
  BY DEF Now
<1>2. Top \in CallSet /\ CallOK(Top) /\ HoldingsOK(Top)
  BY <1>1, TopIn DEF CallsOK
<1>3. Top.at \in DOMAIN Program[Top.entry]
  BY <1>1, <1>2, CallFields, ProgramFacts DEF CallOK
<1> QED BY <1>1, <1>2, <1>3, TopIn, CallFields, ProgramFacts DEF AtStep

(* The calls below the top own a revision at most.                         *)
LEMMA WaitingOwns ==
    ASSUME NEW c \in CallSet, CallOK(c), Waiting(c)
    PROVE  /\ c.resource = 0 /\ c.handle = 0
           /\ ~ Did(c, "into_raw") /\ ~ Did(c, "export") /\ ~ Did(c, "box")
           /\ \A x \in Writes : ~ Did(c, x)
<1> DEFINE p == Program[c.entry]
<1>1. c.at \in DOMAIN p /\ p[c.at] \in Calling /\ StepOK(p, c.entry, c.at)
  BY CallFields, ProgramFacts DEF Waiting, AtStep
<1>2. /\ \A x \in Writes : ~ Did(c, x)
      /\ ~ Did(c, "box") /\ ~ Did(c, "export")
  BY <1>1 DEF StepOK, Did, Calling
<1>3. ~ Did(c, "into_raw")
  BY <1>2 DEF Writes
<1> QED BY <1>2, <1>3 DEF CallOK

(* What the invariant says of a call below the top.                        *)
LEMMA WaitingAt ==
    ASSUME calls \in Seq(CallSet), CallsOK, NEW i \in 1 .. Len(calls) - 1
    PROVE  calls[i] \in CallSet /\ CallOK(calls[i]) /\ HoldingsOK(calls[i]) /\ Waiting(calls[i])
<1>1. i \in DOMAIN calls
  OBVIOUS
<1>2. Waiting(calls[i])
  BY DEF CallsOK
<1>3. CallOK(calls[i]) /\ HoldingsOK(calls[i])
  BY <1>1 DEF CallsOK
<1> QED BY <1>1, <1>2, <1>3

(* A call can be made from outside or while the innermost one waits.       *)
LEMMA CanCallWaiting ==
    ASSUME calls \in Seq(CallSet), CallsOK, CanCall, calls # <<>>
    PROVE  Top \in CallSet /\ CallOK(Top) /\ Waiting(Top)
<1>1. PICK step \in Calling : Now(step)
  BY DEF CanCall, Calling
<1> QED BY <1>1, NowFacts DEF Waiting

(* What Go changes: the innermost call, and of that its position.          *)
LEMMA GoShape ==
    ASSUME calls \in Seq(CallSet), calls # <<>>, NEW c \in CallSet, Go(c)
    PROVE  \E n \in CallSet :
              /\ n = [c EXCEPT !.at = @ + 1]
              /\ n.entry = c.entry /\ n.at = c.at + 1 /\ n.slot = c.slot
              /\ n.construction = c.construction /\ n.snapshot = c.snapshot
              /\ n.resource = c.resource /\ n.handle = c.handle
              /\ n.reads = c.reads /\ n.base = c.base
              /\ calls' \in Seq(CallSet) /\ Len(calls') = Len(calls) /\ calls' # <<>>
              /\ \A i \in 1 .. Len(calls) - 1 : calls'[i] = calls[i]
              /\ calls'[Len(calls)] = n /\ Top' = n
              /\ answer' = answer
<1> DEFINE n == [c EXCEPT !.at = @ + 1]
<1>1. /\ n \in CallSet
      /\ n.entry = c.entry /\ n.at = c.at + 1 /\ n.slot = c.slot
      /\ n.construction = c.construction /\ n.snapshot = c.snapshot
      /\ n.resource = c.resource /\ n.handle = c.handle
      /\ n.reads = c.reads /\ n.base = c.base
  <2>1. c.at + 1 \in Nat
    BY CallFields
  <2> HIDE DEF n
  <2>2. n = [c EXCEPT !.at = c.at + 1]
    BY DEF n
  <2> QED BY <2>1, <2>2 DEF CallSet
<1>2. calls' = [calls EXCEPT ![Len(calls)] = n] /\ answer' = answer
  BY DEF Go
<1> HIDE DEF n
<1>3. /\ calls' \in Seq(CallSet) /\ Len(calls') = Len(calls)
      /\ calls'[Len(calls)] = n
      /\ \A i \in 1 .. Len(calls) - 1 : calls'[i] = calls[i]
  <2>1. Len(calls) \in Nat \ {0} /\ Len(calls) \in DOMAIN calls /\ n \in CallSet
    BY <1>1, TopIn
  <2> QED BY <1>2, <2>1
<1>4. Top' = n /\ calls' # <<>>
  BY <1>3, TopIn DEF Top
<1> QED BY <1>1, <1>2, <1>3, <1>4 DEF n

----------------------------------------------------------------------------
(* Ownership                                                               *)

(* The invariant's parts and the domains of the sequences.                 *)
LEMMA InvFacts ==
    ASSUME OwnershipInv
    PROVE  /\ snapshots \in Seq(Nat) /\ resources \in Seq(ResourceSet)
           /\ handles \in Seq(HandleSet) /\ calls \in Seq(CallSet)
           /\ CallsOK /\ HoldersUnique /\ ObjectsOK /\ OwnersCounted /\ AnswerOK
           /\ DOMAIN snapshots = 1 .. Len(snapshots) /\ Len(snapshots) \in Nat
           /\ DOMAIN resources = 1 .. Len(resources) /\ Len(resources) \in Nat
           /\ DOMAIN handles = 1 .. Len(handles) /\ Len(handles) \in Nat
           /\ DOMAIN calls = 1 .. Len(calls) /\ Len(calls) \in Nat
BY DEF OwnershipInv, BoundaryTypes

(* What the next step makes of a call that keeps what it owns.             *)
LEMMA NextCallOK ==
    ASSUME NEW c \in CallSet, NEW n \in CallSet, CallOK(c), AtStep(c),
           n.entry = c.entry, n.at = c.at + 1, n.resource = c.resource, n.handle = c.handle,
           NEW step, n.snapshot = c.snapshot \/ step = "snapshot", step = Program[c.entry][c.at], step \notin {"export", "box", "into_raw"},
           n.construction \in Constructions \/ (step \notin Reading /\ n.construction = c.construction),
           \/ step \notin Writes \cup {"clear"} /\ n.slot = c.slot
           \/ step = "clear" /\ n.slot.is = "null"
           \/ step = "write" /\ n.slot = Slot("handle", c.handle)
           \/ step = "write_ranking" /\ n.slot.is = "ranking"
    PROVE  CallOK(n)
<1>1. \A x : Did(n, x) <=> Did(c, x) \/ step = x
  BY Taken
<1>2. n.at \in 1 .. Len(Program[n.entry]) + 1
  BY NextAt
<1>3. (\E x \in Reading : Did(n, x)) => n.construction \in Constructions
  BY <1>1 DEF CallOK
<1>4. /\ n.snapshot # 0 => Did(n, "snapshot")
      /\ n.resource # 0 <=> Did(n, "export") /\ ~ Did(n, "box") /\ ~ Did(n, "into_raw")
      /\ n.handle # 0 <=> Did(n, "box")
  BY <1>1 DEF CallOK
<1>5. SlotOK(n)
  <2>1. SlotOK(c) /\ \A x \in Writes : ~ Did(c, x)
    BY CallFields, ProgramFacts DEF CallOK, AtStep, StepOK, Did
  <2> QED BY <2>1, <1>1 DEF SlotOK, Writes
<1> QED BY <1>2, <1>3, <1>4, <1>5 DEF CallOK

(* A step of the innermost call that takes nothing away.                   *)
LEMMA GoKeeps ==
    ASSUME OwnershipInv, NEW step, Now(step), NEW n \in CallSet,
           calls' \in Seq(CallSet), Len(calls') = Len(calls), answer' = answer,
           \A i \in 1 .. Len(calls) - 1 : calls'[i] = calls[i],
           calls'[Len(calls)] = n, CallOK(n), HoldingsOK(n)',
           snapshots' \in Seq(Nat), resources' \in Seq(ResourceSet), handles' \in Seq(HandleSet),
           DOMAIN snapshots \subseteq DOMAIN snapshots',
           DOMAIN resources \subseteq DOMAIN resources',
           DOMAIN handles \subseteq DOMAIN handles',
           \A r \in DOMAIN resources : resources'[r].exported >= resources[r].exported,
           \A h \in DOMAIN handles : handles'[h].state = handles[h].state
    PROVE  BoundaryTypes' /\ CallsOK' /\ AnswerOK'
<1>1. BoundaryTypes'
  BY DEF BoundaryTypes
<1>2. /\ DOMAIN calls' = 1 .. Len(calls) /\ Len(calls) \in Nat \ {0}
      /\ DOMAIN calls = 1 .. Len(calls) /\ CallsOK
  BY InvFacts, NowFacts
<1>3. ASSUME NEW i \in 1 .. Len(calls) - 1
      PROVE  CallOK(calls'[i]) /\ HoldingsOK(calls[i])' /\ Waiting(calls'[i])
  <2>1. calls[i] \in CallSet /\ CallOK(calls[i]) /\ HoldingsOK(calls[i]) /\ Waiting(calls[i])
    BY <1>2, InvFacts, WaitingAt
  <2>2. calls'[i] = calls[i]
    OBVIOUS
  <2>3. calls[i].resource = 0 /\ calls[i].handle = 0 /\ ~ Did(calls[i], "into_raw")
    BY <2>1, WaitingOwns
  <2>4. HoldingsOK(calls[i])'
    BY <2>1, <2>2, <2>3 DEF HoldingsOK, Did
  <2> QED BY <2>1, <2>2, <2>4
<1>4. CallsOK'
  <2>1. ASSUME NEW i \in DOMAIN calls' PROVE CallOK(calls'[i]) /\ HoldingsOK(calls[i])'
    <3>1. i \in 1 .. Len(calls) - 1 \/ i = Len(calls)
      BY <1>2
    <3>2. CASE i = Len(calls)
      BY <3>2 DEF HoldingsOK, Did
    <3> QED BY <3>1, <3>2, <1>3
  <2> QED BY <2>1, <1>3 DEF CallsOK, CallOK, SlotOK, Did, Waiting, AtStep
<1>5. AnswerOK'
  <2>1. AnswerOK
    BY InvFacts
  <2>2. \A r \in DOMAIN resources : resources[r].exported > 0 => resources'[r].exported > 0
    <3> TAKE r \in DOMAIN resources
    <3>1. resources[r] \in ResourceSet /\ resources'[r] \in ResourceSet
      BY InvFacts
    <3> QED BY <3>1, ResourceFields
  <2> QED BY <2>1, <2>2 DEF AnswerOK, SlotsTruthful
<1> QED BY <1>1, <1>4, <1>5

(* Who owns what, when a step of the innermost call gives nothing away.    *)
LEMMA OwnersSame ==
    ASSUME OwnershipInv, NEW step, Now(step), NEW n \in CallSet,
           calls' \in Seq(CallSet), Len(calls') = Len(calls),
           \A i \in 1 .. Len(calls) - 1 : calls'[i] = calls[i],
           calls'[Len(calls)] = n, Top' = n, calls' # <<>>,
           n.snapshot = Top.snapshot, n.resource = Top.resource, n.handle = Top.handle,
           UNCHANGED objects
    PROVE  HoldersUnique' /\ ObjectsOK' /\ OwnersCounted'
<1>1. /\ DOMAIN calls' = DOMAIN calls /\ Len(calls) \in Nat \ {0}
      /\ DOMAIN calls = 1 .. Len(calls) /\ calls # <<>> /\ Top = calls[Len(calls)]
  BY InvFacts, NowFacts DEF Top
<1>2. \A i \in DOMAIN calls : calls'[i].snapshot = calls[i].snapshot
  <2> TAKE i \in DOMAIN calls
  <2>1. i \in 1 .. Len(calls) - 1 \/ i = Len(calls)
    BY <1>1
  <2> QED BY <2>1, <1>1
<1>3. /\ snapshots' = snapshots /\ resources' = resources /\ handles' = handles
  BY DEF objects
<1>4. \A r : LiveHandles(r)' = LiveHandles(r) /\ HeldByTop(r)' = HeldByTop(r)
  BY <1>1, <1>3 DEF LiveHandles, HeldByTop
<1>5. \A s : Held(s)' <=> Held(s)
  BY <1>1, <1>2, <1>3 DEF Held
<1>6. HoldersUnique /\ ObjectsOK /\ OwnersCounted
  BY InvFacts
<1>7. HoldersUnique'
  BY <1>1, <1>2, <1>3, <1>6 DEF HoldersUnique
<1>8. ObjectsOK'
  BY <1>3, <1>6 DEF ObjectsOK
<1>9. OwnersCounted'
  BY <1>1, <1>3, <1>4, <1>5, <1>6 DEF OwnersCounted
<1> QED BY <1>7, <1>8, <1>9

(* The steps that go on with the objects as they are.                      *)
LEMMA QuietGo ==
    ASSUME OwnershipInv, NEW step, Now(step), NEW c \in CallSet, Go(c), UNCHANGED objects,
           c.entry = Top.entry, c.at = Top.at, c.snapshot = Top.snapshot,
           c.resource = Top.resource, c.handle = Top.handle,
           step \notin {"export", "box", "into_raw"},
           c.construction \in Constructions \/ (step \notin Reading /\ c.construction = Top.construction),
           \/ step \notin Writes \cup {"clear"} /\ c.slot = Top.slot
           \/ step = "clear" /\ c.slot.is = "null"
           \/ step = "write" /\ c.slot = Slot("handle", Top.handle)
           \/ step = "write_ranking" /\ c.slot.is = "ranking"
    PROVE  OwnershipInv'
<1>1. /\ calls # <<>> /\ Top \in CallSet /\ AtStep(Top) /\ CallOK(Top) /\ HoldingsOK(Top)
      /\ step = Program[Top.entry][Top.at] /\ calls \in Seq(CallSet)
  BY InvFacts, NowFacts
<1>2. PICK n \in CallSet :
              /\ n.entry = c.entry /\ n.at = c.at + 1 /\ n.slot = c.slot
              /\ n.construction = c.construction /\ n.snapshot = c.snapshot
              /\ n.resource = c.resource /\ n.handle = c.handle
              /\ calls' \in Seq(CallSet) /\ Len(calls') = Len(calls) /\ calls' # <<>>
              /\ \A i \in 1 .. Len(calls) - 1 : calls'[i] = calls[i]
              /\ calls'[Len(calls)] = n /\ Top' = n
              /\ answer' = answer
  BY <1>1, GoShape
<1>3. CallOK(n)
  BY <1>1, <1>2, NextCallOK
<1>4. /\ snapshots' = snapshots /\ resources' = resources /\ handles' = handles
  BY DEF objects
<1>5. ~ Did(n, "into_raw")
  <2>1. Did(n, "into_raw") <=> Did(Top, "into_raw") \/ step = "into_raw"
    BY <1>1, <1>2, Taken
  <2>2. ~ Did(Top, "into_raw")
    BY <1>1, InvFacts, NowFacts DEF StepOK, Did, Writes
  <2> QED BY <2>1, <2>2
<1>6. HoldingsOK(n)'
  BY <1>1, <1>2, <1>4, <1>5 DEF HoldingsOK, Did
<1>7. /\ snapshots' \in Seq(Nat) /\ resources' \in Seq(ResourceSet) /\ handles' \in Seq(HandleSet)
      /\ \A r \in DOMAIN resources : resources'[r].exported >= resources[r].exported
  <2>1. ASSUME NEW r \in DOMAIN resources PROVE resources'[r].exported >= resources[r].exported
    <3>1. resources[r] \in ResourceSet
      BY InvFacts
    <3> QED BY <3>1, <1>4, ResourceFields
  <2> QED BY <2>1, <1>4, InvFacts
<1>8. BoundaryTypes' /\ CallsOK' /\ AnswerOK'
  BY <1>2, <1>3, <1>4, <1>6, <1>7, GoKeeps
<1>9. HoldersUnique' /\ ObjectsOK' /\ OwnersCounted'
  BY <1>2, OwnersSame
<1> QED BY <1>8, <1>9 DEF OwnershipInv

(* The revision a call captures is new and its own.                        *)
LEMMA CaptureOwns ==
    ASSUME OwnershipInv, CaptureSnapshot
    PROVE  OwnershipInv'
<1>0. PICK k \in Nat : k = Len(snapshots) + 1
  BY InvFacts
<1> DEFINE c == [Top EXCEPT !.snapshot = k]
<1>1. /\ Now("snapshot") /\ snapshots' = Append(snapshots, 0) /\ Go(c)
      /\ resources' = resources /\ handles' = handles
  BY <1>0 DEF CaptureSnapshot
<1>2. /\ calls # <<>> /\ Top \in CallSet /\ AtStep(Top) /\ CallOK(Top) /\ HoldingsOK(Top)
      /\ Program[Top.entry][Top.at] = "snapshot" /\ calls \in Seq(CallSet)
      /\ StepOK(Program[Top.entry], Top.entry, Top.at)
      /\ DOMAIN calls = 1 .. Len(calls) /\ Len(calls) \in Nat \ {0}
      /\ Len(snapshots) \in Nat
  BY <1>1, InvFacts, NowFacts
<1>3. /\ c \in CallSet /\ c.entry = Top.entry /\ c.at = Top.at /\ c.slot = Top.slot
      /\ c.construction = Top.construction /\ c.snapshot = k
      /\ c.resource = Top.resource /\ c.handle = Top.handle
  BY <1>2 DEF CallSet
<1> HIDE DEF c
<1>4. PICK n \in CallSet :
              /\ n.entry = c.entry /\ n.at = c.at + 1 /\ n.slot = c.slot
              /\ n.construction = c.construction /\ n.snapshot = c.snapshot
              /\ n.resource = c.resource /\ n.handle = c.handle
              /\ calls' \in Seq(CallSet) /\ Len(calls') = Len(calls) /\ calls' # <<>>
              /\ \A i \in 1 .. Len(calls) - 1 : calls'[i] = calls[i]
              /\ calls'[Len(calls)] = n /\ Top' = n
              /\ answer' = answer
  BY <1>1, <1>2, <1>3, GoShape
<1>5. CallOK(n)
  BY <1>2, <1>3, <1>4, NextCallOK DEF Reading, Writes
<1>6. /\ snapshots' \in Seq(Nat) /\ DOMAIN snapshots' = 1 .. k
      /\ DOMAIN snapshots = 1 .. Len(snapshots)
      /\ snapshots'[k] = 0
      /\ \A s \in DOMAIN snapshots : snapshots'[s] = snapshots[s]
  <2>1. snapshots \in Seq(Nat) /\ 0 \in Nat
    BY InvFacts
  <2> QED BY <1>0, <1>1, <2>1, AppendShape
<1>7. /\ DOMAIN snapshots \subseteq DOMAIN snapshots'
      /\ k \in DOMAIN snapshots' /\ k \notin DOMAIN snapshots /\ k # 0
  BY <1>0, <1>2, <1>6
<1>8. Top.snapshot = 0 /\ ~ Did(Top, "into_raw")
  BY <1>2 DEF CallOK, Did, StepOK, Single, Writes
<1>9. HoldingsOK(n)'
  <2>1. ~ Did(n, "into_raw")
    BY <1>2, <1>3, <1>4, <1>8, Taken
  <2> QED BY <2>1, <1>1, <1>2, <1>3, <1>4, <1>7 DEF HoldingsOK, Did
<1>10. BoundaryTypes' /\ CallsOK' /\ AnswerOK'
  <2>1. \A r \in DOMAIN resources : resources'[r].exported >= resources[r].exported
    <3> TAKE r \in DOMAIN resources
    <3>1. resources[r] \in ResourceSet
      BY InvFacts
    <3> QED BY <3>1, <1>1, ResourceFields
  <2>2. resources' \in Seq(ResourceSet) /\ handles' \in Seq(HandleSet)
    BY <1>1, InvFacts
  <2>3. /\ DOMAIN resources \subseteq DOMAIN resources' /\ DOMAIN handles \subseteq DOMAIN handles'
        /\ \A h \in DOMAIN handles : handles'[h].state = handles[h].state
    BY <1>1
  <2> QED BY <2>1, <2>2, <2>3, <1>1, <1>4, <1>5, <1>6, <1>7, <1>9, GoKeeps
<1>11. /\ DOMAIN calls' = DOMAIN calls
       /\ \A i \in DOMAIN calls : calls'[i].snapshot = IF i = Len(calls) THEN k ELSE calls[i].snapshot
  <2>1. ASSUME NEW i \in DOMAIN calls
        PROVE  calls'[i].snapshot = IF i = Len(calls) THEN k ELSE calls[i].snapshot
    <3>1. i \in 1 .. Len(calls) - 1 \/ i = Len(calls)
      BY <1>2
    <3> QED BY <3>1, <1>3, <1>4, <1>2
  <2> QED BY <2>1, <1>2, <1>4
<1>12. /\ \A i \in DOMAIN calls : calls[i].snapshot # k
       /\ \A r \in DOMAIN resources : resources[r].snapshot # k
       /\ calls[Len(calls)].snapshot = 0
  <2>1. \A i \in DOMAIN calls : HoldingsOK(calls[i])
    BY InvFacts DEF CallsOK
  <2>2. ObjectsOK
    BY InvFacts
  <2> QED BY <2>1, <2>2, <1>7, <1>8 DEF HoldingsOK, ObjectsOK, Top
<1>13. HoldersUnique'
  <2>1. HoldersUnique
    BY InvFacts
  <2> QED BY <2>1, <1>1, <1>11, <1>12 DEF HoldersUnique
<1>14. ObjectsOK'
  <2>1. ObjectsOK
    BY InvFacts
  <2> QED BY <2>1, <1>1, <1>7 DEF ObjectsOK
<1>15. OwnersCounted'
  <2>1. OwnersCounted
    BY InvFacts
  <2>2. \A r : LiveHandles(r)' = LiveHandles(r) /\ HeldByTop(r)' = HeldByTop(r)
    BY <1>1, <1>2, <1>3, <1>4 DEF LiveHandles, HeldByTop
  <2>3. ASSUME NEW s \in DOMAIN snapshots PROVE Held(s)' <=> Held(s)
    <3>1. s # 0 /\ s # k
      BY <1>6, <1>7
    <3> QED BY <3>1, <1>1, <1>2, <1>11, <1>12 DEF Held
  <2>4. Held(k)'
    BY <1>2, <1>11 DEF Held
  <2>5. \A s \in DOMAIN snapshots' : snapshots'[s] = IF Held(s)' THEN 0 ELSE 1
    <3> TAKE s \in DOMAIN snapshots'
    <3>1. s \in DOMAIN snapshots \/ s = k
      BY <1>0, <1>2, <1>6
    <3>2. CASE s = k
      BY <3>2, <2>4, <1>6
    <3>3. CASE s \in DOMAIN snapshots
      BY <3>3, <2>1, <2>3, <1>6 DEF OwnersCounted
    <3> QED BY <3>1, <3>2, <3>3
  <2> QED BY <2>1, <2>2, <2>5, <1>1, <1>2, <1>3, <1>4 DEF OwnersCounted
<1> QED BY <1>10, <1>13, <1>14, <1>15 DEF OwnershipInv

(* The live handles of a resource can be counted.                          *)
LEMMA LiveFinite ==
    ASSUME handles \in Seq(HandleSet), NEW r
    PROVE  IsFiniteSet(LiveHandles(r)) /\ Cardinality(LiveHandles(r)) \in Nat
<1>1. LiveHandles(r) \subseteq 1 .. Len(handles) /\ Len(handles) \in Nat
  BY DEF LiveHandles
<1>2. IsFiniteSet(1 .. Len(handles))
  BY <1>1, FS_Interval
<1>3. IsFiniteSet(LiveHandles(r))
  BY <1>1, <1>2, FS_Subset
<1> QED BY <1>3, FS_CardinalityType

(* The revision moves from the call to the resource it builds.             *)
LEMMA ExportOwns ==
    ASSUME OwnershipInv, Export
    PROVE  OwnershipInv'
<1>0. PICK k \in Nat : k = Len(resources) + 1
  BY InvFacts
<1> DEFINE c == [Top EXCEPT !.resource = k, !.snapshot = 0]
           new == [refs |-> 1, exported |-> 0, snapshot |-> Top.snapshot,
                   graph |-> Graph(Top.construction), policy |-> Top.construction.policy]
<1>1. /\ Now("export") /\ resources' = Append(resources, new) /\ Go(c)
      /\ snapshots' = snapshots /\ handles' = handles
  BY <1>0 DEF Export
<1>2. /\ calls # <<>> /\ Top \in CallSet /\ AtStep(Top) /\ CallOK(Top) /\ HoldingsOK(Top)
      /\ Program[Top.entry][Top.at] = "export" /\ calls \in Seq(CallSet)
      /\ StepOK(Program[Top.entry], Top.entry, Top.at)
      /\ DOMAIN calls = 1 .. Len(calls) /\ Len(calls) \in Nat \ {0}
      /\ Len(resources) \in Nat
  BY <1>1, InvFacts, NowFacts
<1>3. /\ c \in CallSet /\ c.entry = Top.entry /\ c.at = Top.at /\ c.slot = Top.slot
      /\ c.construction = Top.construction /\ c.snapshot = 0
      /\ c.resource = k /\ c.handle = Top.handle
  BY <1>2 DEF CallSet
<1> HIDE DEF c
<1>4. PICK n \in CallSet :
              /\ n.entry = c.entry /\ n.at = c.at + 1 /\ n.slot = c.slot
              /\ n.construction = c.construction /\ n.snapshot = c.snapshot
              /\ n.resource = c.resource /\ n.handle = c.handle
              /\ calls' \in Seq(CallSet) /\ Len(calls') = Len(calls) /\ calls' # <<>>
              /\ \A i \in 1 .. Len(calls) - 1 : calls'[i] = calls[i]
              /\ calls'[Len(calls)] = n /\ Top' = n
              /\ answer' = answer
  BY <1>1, <1>2, <1>3, GoShape
<1>5. /\ ~ Did(Top, "export") /\ ~ Did(Top, "box") /\ \A x \in Writes : ~ Did(Top, x)
      /\ \E x \in Reading : Did(Top, x)
      /\ Top.resource = 0 /\ Top.handle = 0
  <2>1. /\ ~ Did(Top, "export") /\ ~ Did(Top, "box") /\ \A x \in Writes : ~ Did(Top, x)
        /\ \E x \in Reading : Did(Top, x)
    BY <1>2 DEF Did, StepOK, Single
  <2> QED BY <2>1, <1>2 DEF CallOK
<1>6. \A x : Did(n, x) <=> Did(Top, x) \/ "export" = x
  BY <1>2, <1>3, <1>4, Taken
<1>7. CallOK(n)
  <2>1. n.at \in 1 .. Len(Program[n.entry]) + 1
    BY <1>2, <1>3, <1>4, NextAt
  <2>2. SlotOK(n)
    BY <1>2, <1>3, <1>4, <1>5, <1>6 DEF CallOK, SlotOK, Writes
  <2>3. k # 0
    BY <1>0, <1>2
  <2> QED BY <2>1, <2>2, <2>3, <1>2, <1>3, <1>4, <1>5, <1>6 DEF CallOK, Reading, Writes
<1>8. new \in ResourceSet /\ new.refs = 1 /\ new.exported = 0 /\ new.snapshot = Top.snapshot
  <2>1. Top.construction \in Constructions /\ Top.snapshot \in Nat
    BY <1>2, <1>5, CallFields DEF CallOK
  <2>2. /\ Graph(Top.construction) \in {Graph(d) : d \in Constructions}
        /\ Top.construction.policy \in PolicyValues
    BY <2>1 DEF PolicyValues
  <2> QED BY <2>1, <2>2 DEF ResourceSet
<1> HIDE DEF new
<1>9. /\ resources' \in Seq(ResourceSet) /\ DOMAIN resources' = 1 .. k
      /\ DOMAIN resources = 1 .. Len(resources)
      /\ resources'[k] = new
      /\ \A r \in DOMAIN resources : resources'[r] = resources[r]
  <2>1. resources \in Seq(ResourceSet)
    BY InvFacts
  <2> QED BY <1>0, <1>1, <1>8, <2>1, AppendShape
<1>10. /\ DOMAIN resources \subseteq DOMAIN resources' /\ k \in DOMAIN resources'
       /\ k \notin DOMAIN resources /\ k # 0 /\ 0 \notin DOMAIN resources
       /\ \A r \in DOMAIN resources' : r \in DOMAIN resources \/ r = k
  BY <1>0, <1>2, <1>9
<1>11. HoldingsOK(n)'
  <2>1. ~ Did(n, "into_raw")
    BY <1>5, <1>6 DEF Writes
  <2> QED BY <2>1, <1>3, <1>4, <1>5, <1>10 DEF HoldingsOK, Did
<1>12. BoundaryTypes' /\ CallsOK' /\ AnswerOK'
  <2>1. \A r \in DOMAIN resources : resources'[r].exported >= resources[r].exported
    <3> TAKE r \in DOMAIN resources
    <3>1. resources[r] \in ResourceSet
      BY InvFacts
    <3> QED BY <3>1, <1>9, ResourceFields
  <2>2. /\ snapshots' \in Seq(Nat) /\ handles' \in Seq(HandleSet)
        /\ DOMAIN snapshots \subseteq DOMAIN snapshots' /\ DOMAIN handles \subseteq DOMAIN handles'
        /\ \A h \in DOMAIN handles : handles'[h].state = handles[h].state
    BY <1>1, InvFacts
  <2> QED BY <2>1, <2>2, <1>1, <1>4, <1>7, <1>9, <1>10, <1>11, GoKeeps
<1>13. /\ DOMAIN calls' = DOMAIN calls
       /\ \A i \in DOMAIN calls : calls'[i].snapshot = IF i = Len(calls) THEN 0 ELSE calls[i].snapshot
       /\ Top = calls[Len(calls)] /\ Len(calls) \in DOMAIN calls
  <2>1. ASSUME NEW i \in DOMAIN calls
        PROVE  calls'[i].snapshot = IF i = Len(calls) THEN 0 ELSE calls[i].snapshot
    <3>1. i \in 1 .. Len(calls) - 1 \/ i = Len(calls)
      BY <1>2
    <3> QED BY <3>1, <1>3, <1>4, <1>2
  <2> QED BY <2>1, <1>2, <1>4 DEF Top
<1>14. HoldersUnique'
  <2>1. HoldersUnique
    BY InvFacts
  <2>2. \A r \in DOMAIN resources' :
           resources'[r].snapshot = IF r = k THEN Top.snapshot ELSE resources[r].snapshot
    BY <1>8, <1>9, <1>10
  <2> QED BY <2>1, <2>2, <1>1, <1>10, <1>13, SMTT(30) DEF HoldersUnique
<1>15. ObjectsOK'
  <2>1. ObjectsOK
    BY InvFacts
  <2>2. \A h \in DOMAIN handles' : handles'[h].state # "freed" => handles'[h].resource \in DOMAIN resources'
    BY <2>1, <1>1, <1>10 DEF ObjectsOK
  <2>3. ASSUME NEW r \in DOMAIN resources'
        PROVE  /\ resources'[r].snapshot # 0 => resources'[r].snapshot \in DOMAIN snapshots'
               /\ resources'[r].refs = 0 => resources'[r].snapshot = 0
    <3>1. CASE r = k
      BY <3>1, <1>1, <1>2, <1>8, <1>9 DEF HoldingsOK
    <3>2. CASE r \in DOMAIN resources
      BY <3>2, <2>1, <1>1, <1>9 DEF ObjectsOK
    <3> QED BY <3>1, <3>2, <1>10
  <2> QED BY <2>2, <2>3 DEF ObjectsOK
<1>16. OwnersCounted'
  <2>1. OwnersCounted
    BY InvFacts
  <2>2. \A r : LiveHandles(r)' = LiveHandles(r)
    BY <1>1 DEF LiveHandles
  <2>3. LiveHandles(k) = {}
    BY <1>10, InvFacts DEF LiveHandles, ObjectsOK
  <2>4. ASSUME NEW r \in DOMAIN resources'
        PROVE  resources'[r].refs =
                  Cardinality(LiveHandles(r)') + resources'[r].exported + HeldByTop(r)'
    <3>1. CASE r = k
      <4>1. HeldByTop(r)' = 1
        BY <3>1, <1>3, <1>4 DEF HeldByTop
      <4>2. Cardinality(LiveHandles(r)') = 0
        BY <3>1, <2>2, <2>3, FS_EmptySet
      <4> QED BY <3>1, <4>1, <4>2, <1>8, <1>9
    <3>2. CASE r \in DOMAIN resources
      <4>1. HeldByTop(r)' = 0 /\ HeldByTop(r) = 0
        BY <3>2, <1>3, <1>4, <1>5, <1>10 DEF HeldByTop
      <4>2. resources[r].refs = Cardinality(LiveHandles(r)) + resources[r].exported + 0
        BY <3>2, <4>1, <2>1 DEF OwnersCounted
      <4>3. resources'[r] = resources[r] /\ LiveHandles(r)' = LiveHandles(r)
        BY <3>2, <2>2, <1>9
      <4> QED BY <4>1, <4>2, <4>3
    <3> QED BY <3>1, <3>2, <1>10
  <2>5. ASSUME NEW s \in DOMAIN snapshots PROVE Held(s)' <=> Held(s)
    <3>1. s # 0
      BY InvFacts
    <3>2. ASSUME NEW r \in DOMAIN resources' PROVE resources'[r].snapshot = s => Held(s)
      BY <1>8, <1>9, <1>10, <1>13 DEF Held
    <3>3. ASSUME NEW i \in DOMAIN calls' PROVE calls'[i].snapshot = s => Held(s)
      BY <3>1, <1>13 DEF Held
    <3>4. ASSUME NEW r \in DOMAIN resources PROVE resources[r].snapshot = s => Held(s)'
      BY <1>9, <1>10 DEF Held
    <3>5. ASSUME NEW i \in DOMAIN calls PROVE calls[i].snapshot = s => Held(s)'
      <4>1. CASE i = Len(calls)
        BY <4>1, <1>8, <1>9, <1>10, <1>13 DEF Held
      <4>2. CASE i # Len(calls)
        BY <4>2, <1>13 DEF Held
      <4> QED BY <4>1, <4>2
    <3> QED BY <3>2, <3>3, <3>4, <3>5 DEF Held
  <2>6. \A s \in DOMAIN snapshots' : snapshots'[s] = IF Held(s)' THEN 0 ELSE 1
    BY <2>1, <2>5, <1>1 DEF OwnersCounted
  <2>7. \A h \in DOMAIN handles' : handles'[h].state = "boxed" => calls' # <<>> /\ Top'.handle = h
    BY <2>1, <1>1, <1>3, <1>4 DEF OwnersCounted
  <2> QED BY <2>4, <2>6, <2>7 DEF OwnersCounted
<1> QED BY <1>12, <1>14, <1>15, <1>16 DEF OwnershipInv

(* The handle takes the call's retain of the resource.                     *)
LEMMA BoxOwns ==
    ASSUME OwnershipInv, BoxHandle
    PROVE  OwnershipInv'
<1>0. PICK k \in Nat : k = Len(handles) + 1
  BY InvFacts
<1> DEFINE c == [Top EXCEPT !.handle = k, !.resource = 0]
           options == IF Top.entry = "wallbreaker" THEN Nothing ELSE OwnedOptions(Top.construction)
           fzf == IF Top.entry = "fzf" THEN Top.construction.fzf ELSE Nothing
           new == [state |-> "boxed", resource |-> Top.resource, options |-> options, fzf |-> fzf]
<1>1. /\ Now("box") /\ handles' = Append(handles, new) /\ Go(c)
      /\ snapshots' = snapshots /\ resources' = resources
  BY <1>0 DEF BoxHandle
<1>2. /\ calls # <<>> /\ Top \in CallSet /\ AtStep(Top) /\ CallOK(Top) /\ HoldingsOK(Top)
      /\ Program[Top.entry][Top.at] = "box" /\ calls \in Seq(CallSet)
      /\ StepOK(Program[Top.entry], Top.entry, Top.at)
      /\ DOMAIN calls = 1 .. Len(calls) /\ Len(calls) \in Nat \ {0}
      /\ Len(handles) \in Nat
  BY <1>1, InvFacts, NowFacts
<1>3. /\ c \in CallSet /\ c.entry = Top.entry /\ c.at = Top.at /\ c.slot = Top.slot
      /\ c.construction = Top.construction /\ c.snapshot = Top.snapshot
      /\ c.resource = 0 /\ c.handle = k
  BY <1>2 DEF CallSet
<1> HIDE DEF c
<1>4. PICK n \in CallSet :
              /\ n.entry = c.entry /\ n.at = c.at + 1 /\ n.slot = c.slot
              /\ n.construction = c.construction /\ n.snapshot = c.snapshot
              /\ n.resource = c.resource /\ n.handle = c.handle
              /\ calls' \in Seq(CallSet) /\ Len(calls') = Len(calls) /\ calls' # <<>>
              /\ \A i \in 1 .. Len(calls) - 1 : calls'[i] = calls[i]
              /\ calls'[Len(calls)] = n /\ Top' = n
              /\ answer' = answer
  BY <1>1, <1>2, <1>3, GoShape
<1>5. /\ Did(Top, "export") /\ ~ Did(Top, "box") /\ \A x \in Writes : ~ Did(Top, x)
      /\ \E x \in Reading : Did(Top, x)
      /\ Top.resource # 0 /\ Top.handle = 0 /\ Top.resource \in DOMAIN resources
  <2>1. /\ Did(Top, "export") /\ ~ Did(Top, "box") /\ \A x \in Writes : ~ Did(Top, x)
        /\ \E x \in Reading : Did(Top, x)
    BY <1>2 DEF Did, StepOK, Single
  <2> QED BY <2>1, <1>2 DEF CallOK, HoldingsOK, Writes
<1>6. \A x : Did(n, x) <=> Did(Top, x) \/ "box" = x
  BY <1>2, <1>3, <1>4, Taken
<1>7. CallOK(n)
  <2>1. n.at \in 1 .. Len(Program[n.entry]) + 1
    BY <1>2, <1>3, <1>4, NextAt
  <2>2. SlotOK(n)
    BY <1>2, <1>3, <1>4, <1>5, <1>6 DEF CallOK, SlotOK, Writes
  <2>3. k # 0
    BY <1>0, <1>2
  <2> QED BY <2>1, <2>2, <2>3, <1>2, <1>3, <1>4, <1>5, <1>6 DEF CallOK, Reading, Writes
<1>8. new \in HandleSet /\ new.state = "boxed" /\ new.resource = Top.resource
  <2>1. Top.construction \in Constructions /\ Top.resource \in Nat
    BY <1>2, <1>5, CallFields DEF CallOK
  <2>2. options \in OptionValues /\ fzf \in {d.fzf : d \in Constructions} \cup {Nothing}
    BY <2>1 DEF OptionValues
  <2> HIDE DEF options, fzf
  <2> QED BY <2>1, <2>2 DEF HandleSet
<1> HIDE DEF new
<1>9. /\ handles' \in Seq(HandleSet) /\ DOMAIN handles' = 1 .. k
      /\ DOMAIN handles = 1 .. Len(handles)
      /\ handles'[k] = new
      /\ \A h \in DOMAIN handles : handles'[h] = handles[h]
  <2>1. handles \in Seq(HandleSet)
    BY InvFacts
  <2> QED BY <1>0, <1>1, <1>8, <2>1, AppendShape
<1>10. /\ DOMAIN handles \subseteq DOMAIN handles' /\ k \in DOMAIN handles'
       /\ k \notin DOMAIN handles /\ k # 0
       /\ \A h \in DOMAIN handles' : h \in DOMAIN handles \/ h = k
  BY <1>0, <1>2, <1>9
<1>11. HoldingsOK(n)'
  <2>1. ~ Did(n, "into_raw")
    BY <1>5, <1>6 DEF Writes
  <2>2. n.snapshot # 0 => n.snapshot \in DOMAIN snapshots
    BY <1>2, <1>3, <1>4 DEF HoldingsOK
  <2> QED BY <2>1, <2>2, <1>1, <1>3, <1>4, <1>8, <1>9, <1>10 DEF HoldingsOK, Did
<1>12. BoundaryTypes' /\ CallsOK' /\ AnswerOK'
  <2>1. \A r \in DOMAIN resources : resources'[r].exported >= resources[r].exported
    <3> TAKE r \in DOMAIN resources
    <3>1. resources[r] \in ResourceSet
      BY InvFacts
    <3> QED BY <3>1, <1>1, ResourceFields
  <2>2. /\ snapshots' \in Seq(Nat) /\ resources' \in Seq(ResourceSet)
        /\ DOMAIN snapshots \subseteq DOMAIN snapshots' /\ DOMAIN resources \subseteq DOMAIN resources'
        /\ \A h \in DOMAIN handles : handles'[h].state = handles[h].state
    BY <1>1, <1>9, InvFacts
  <2> QED BY <2>1, <2>2, <1>1, <1>4, <1>7, <1>9, <1>10, <1>11, GoKeeps
<1>13. /\ DOMAIN calls' = DOMAIN calls
       /\ \A i \in DOMAIN calls : calls'[i].snapshot = calls[i].snapshot
  <2>1. ASSUME NEW i \in DOMAIN calls
        PROVE  calls'[i].snapshot = calls[i].snapshot
    <3>1. i \in 1 .. Len(calls) - 1 \/ i = Len(calls)
      BY <1>2
    <3> QED BY <3>1, <1>3, <1>4, <1>2 DEF Top
  <2> QED BY <2>1, <1>2, <1>4
<1>14. HoldersUnique'
  <2>1. HoldersUnique
    BY InvFacts
  <2> QED BY <2>1, <1>1, <1>13 DEF HoldersUnique
<1>15. ObjectsOK'
  <2>1. ObjectsOK
    BY InvFacts
  <2>2. ASSUME NEW h \in DOMAIN handles', handles'[h].state # "freed"
        PROVE  handles'[h].resource \in DOMAIN resources
    <3>1. CASE h = k
      BY <3>1, <1>5, <1>8, <1>9
    <3>2. CASE h \in DOMAIN handles
      BY <3>2, <2>1, <2>2, <1>9 DEF ObjectsOK
    <3> QED BY <3>1, <3>2, <1>10
  <2> QED BY <2>1, <2>2, <1>1 DEF ObjectsOK
<1>16. OwnersCounted'
  <2>1. OwnersCounted
    BY InvFacts
  <2>2. ASSUME NEW r PROVE LiveHandles(r)' = IF r = Top.resource THEN LiveHandles(r) \cup {k} ELSE LiveHandles(r)
    BY <1>8, <1>9, <1>10 DEF LiveHandles
  <2>4. ASSUME NEW r \in DOMAIN resources
        PROVE  resources[r].refs =
                  Cardinality(LiveHandles(r)') + resources[r].exported + HeldByTop(r)'
    <3>1. /\ resources[r].refs = Cardinality(LiveHandles(r)) + resources[r].exported + HeldByTop(r)
          /\ resources[r] \in ResourceSet /\ r # 0
      BY <2>1, InvFacts DEF OwnersCounted
    <3>2. HeldByTop(r)' = 0 /\ HeldByTop(r) = IF r = Top.resource THEN 1 ELSE 0
      BY <3>1, <1>2, <1>3, <1>4 DEF HeldByTop
    <3>3. IsFiniteSet(LiveHandles(r)) /\ Cardinality(LiveHandles(r)) \in Nat /\ k \notin LiveHandles(r)
      BY <1>10, LiveFinite, InvFacts DEF LiveHandles
    <3>4. Cardinality(LiveHandles(r) \cup {k}) = Cardinality(LiveHandles(r)) + 1
      BY <3>3, FS_AddElement
    <3>5. Cardinality(LiveHandles(r)') = Cardinality(LiveHandles(r)) + IF r = Top.resource THEN 1 ELSE 0
      BY <2>2, <3>3, <3>4
    <3>6. resources[r].exported \in Nat
      BY <3>1, ResourceFields
    <3> QED BY <3>1, <3>2, <3>3, <3>5, <3>6
  <2>5. \A s : Held(s)' <=> Held(s)
    BY <1>1, <1>13 DEF Held
  <2>6. \A s \in DOMAIN snapshots' : snapshots'[s] = IF Held(s)' THEN 0 ELSE 1
    BY <2>1, <2>5, <1>1 DEF OwnersCounted
  <2>7. \A h \in DOMAIN handles' : handles'[h].state = "boxed" => calls' # <<>> /\ Top'.handle = h
    <3>1. \A h \in DOMAIN handles : h # 0
      BY InvFacts
    <3> QED BY <3>1, <2>1, <1>3, <1>4, <1>5, <1>9, <1>10 DEF OwnersCounted
  <2> QED BY <2>4, <2>6, <2>7, <1>1 DEF OwnersCounted
<1> QED BY <1>12, <1>14, <1>15, <1>16 DEF OwnershipInv

(* The call's retain of the resource goes to its caller.                   *)
LEMMA IntoRawOwns ==
    ASSUME OwnershipInv, IntoRaw
    PROVE  OwnershipInv'
<1>0. PICK k : k = Top.resource
  OBVIOUS
<1> DEFINE slot == Slot("resource", k)
           c == [Top EXCEPT !.slot = slot, !.resource = 0]
           new == [resources[k] EXCEPT !.exported = @ + 1]
<1>1. /\ Now("into_raw") /\ resources' = [resources EXCEPT ![k].exported = @ + 1] /\ Go(c)
      /\ snapshots' = snapshots /\ handles' = handles
  BY <1>0 DEF IntoRaw
<1>2. /\ calls # <<>> /\ Top \in CallSet /\ AtStep(Top) /\ CallOK(Top) /\ HoldingsOK(Top)
      /\ Program[Top.entry][Top.at] = "into_raw" /\ calls \in Seq(CallSet)
      /\ StepOK(Program[Top.entry], Top.entry, Top.at)
      /\ DOMAIN calls = 1 .. Len(calls) /\ Len(calls) \in Nat \ {0}
  BY <1>1, InvFacts, NowFacts
<1>3. /\ c \in CallSet /\ c.entry = Top.entry /\ c.at = Top.at /\ c.slot = slot
      /\ c.construction = Top.construction /\ c.snapshot = Top.snapshot
      /\ c.resource = 0 /\ c.handle = Top.handle
      /\ slot.is = "resource" /\ slot.id = k
  <2>1. slot \in SlotSet /\ slot.is = "resource" /\ slot.id = k
    BY <1>0, <1>2, CallFields DEF SlotSet, Slot
  <2> HIDE DEF slot
  <2> QED BY <1>2, <2>1 DEF CallSet
<1> HIDE DEF c, slot
<1>4. PICK n \in CallSet :
              /\ n.entry = c.entry /\ n.at = c.at + 1 /\ n.slot = c.slot
              /\ n.construction = c.construction /\ n.snapshot = c.snapshot
              /\ n.resource = c.resource /\ n.handle = c.handle
              /\ calls' \in Seq(CallSet) /\ Len(calls') = Len(calls) /\ calls' # <<>>
              /\ \A i \in 1 .. Len(calls) - 1 : calls'[i] = calls[i]
              /\ calls'[Len(calls)] = n /\ Top' = n
              /\ answer' = answer
  BY <1>1, <1>2, <1>3, GoShape
<1>5. /\ Did(Top, "export") /\ ~ Did(Top, "box") /\ \A x \in Writes : ~ Did(Top, x)
      /\ k # 0 /\ Top.handle = 0 /\ k \in DOMAIN resources
  <2>1. /\ Did(Top, "export") /\ ~ Did(Top, "box") /\ \A x \in Writes : ~ Did(Top, x)
    BY <1>2 DEF Did, StepOK
  <2> QED BY <2>1, <1>0, <1>2 DEF CallOK, HoldingsOK, Writes
<1>6. \A x : Did(n, x) <=> Did(Top, x) \/ "into_raw" = x
  BY <1>2, <1>3, <1>4, Taken
<1>7. CallOK(n)
  <2>1. n.at \in 1 .. Len(Program[n.entry]) + 1
    BY <1>2, <1>3, <1>4, NextAt
  <2>2. SlotOK(n)
    BY <1>3, <1>4, <1>5, <1>6 DEF SlotOK, Writes
  <2> QED BY <2>1, <2>2, <1>2, <1>3, <1>4, <1>5, <1>6 DEF CallOK, Reading
<1>8. /\ new \in ResourceSet /\ new.refs = resources[k].refs /\ new.snapshot = resources[k].snapshot
      /\ new.exported = resources[k].exported + 1 /\ resources[k].exported \in Nat
      /\ resources[k].refs \in Nat
  <2>1. resources[k] \in ResourceSet
    BY <1>5, InvFacts
  <2>2. resources[k].exported + 1 \in Nat /\ resources[k].exported \in Nat /\ resources[k].refs \in Nat
    BY <2>1, ResourceFields
  <2> QED BY <2>1, <2>2 DEF ResourceSet
<1>9. /\ resources' \in Seq(ResourceSet) /\ DOMAIN resources' = DOMAIN resources
      /\ \A r \in DOMAIN resources : resources'[r] = IF r = k THEN new ELSE resources[r]
  <2>1. resources \in Seq(ResourceSet)
    BY InvFacts
  <2>2. resources' = [resources EXCEPT ![k] = new]
    BY <1>1, <1>5, <2>1
  <2> HIDE DEF new
  <2> QED BY <1>5, <1>8, <2>1, <2>2, ReplaceShape
<1> HIDE DEF new
<1>10. HoldingsOK(n)'
  <2>1. n.snapshot # 0 => n.snapshot \in DOMAIN snapshots
    BY <1>2, <1>3, <1>4 DEF HoldingsOK
  <2>2. resources'[k].exported > 0
    BY <1>5, <1>8, <1>9
  <2> QED BY <2>1, <2>2, <1>1, <1>3, <1>4, <1>5, <1>9 DEF HoldingsOK, Did
<1>11. \A r \in DOMAIN resources : resources[r] \in ResourceSet /\ resources[r].exported \in Nat
  <2> TAKE r \in DOMAIN resources
  <2>1. resources[r] \in ResourceSet
    BY InvFacts
  <2> QED BY <2>1, ResourceFields
<1>12. BoundaryTypes' /\ CallsOK' /\ AnswerOK'
  <2>1. \A r \in DOMAIN resources : resources'[r].exported >= resources[r].exported
    BY <1>8, <1>9, <1>11
  <2>2. /\ snapshots' \in Seq(Nat) /\ handles' \in Seq(HandleSet)
        /\ DOMAIN snapshots \subseteq DOMAIN snapshots' /\ DOMAIN handles \subseteq DOMAIN handles'
        /\ \A h \in DOMAIN handles : handles'[h].state = handles[h].state
    BY <1>1, InvFacts
  <2> QED BY <2>1, <2>2, <1>1, <1>4, <1>7, <1>9, <1>10, GoKeeps
<1>13. /\ DOMAIN calls' = DOMAIN calls
       /\ \A i \in DOMAIN calls : calls'[i].snapshot = calls[i].snapshot
       /\ \A r \in DOMAIN resources : /\ resources'[r].snapshot = resources[r].snapshot
                                      /\ resources'[r].refs = resources[r].refs
  <2>1. ASSUME NEW i \in DOMAIN calls
        PROVE  calls'[i].snapshot = calls[i].snapshot
    <3>1. i \in 1 .. Len(calls) - 1 \/ i = Len(calls)
      BY <1>2
    <3> QED BY <3>1, <1>3, <1>4, <1>2 DEF Top
  <2> QED BY <2>1, <1>2, <1>4, <1>8, <1>9
<1>14. HoldersUnique'
  <2>1. HoldersUnique
    BY InvFacts
  <2> QED BY <2>1, <1>9, <1>13 DEF HoldersUnique
<1>15. ObjectsOK'
  <2>1. ObjectsOK
    BY InvFacts
  <2> QED BY <2>1, <1>1, <1>9, <1>13 DEF ObjectsOK
<1>16. OwnersCounted'
  <2>1. OwnersCounted
    BY InvFacts
  <2>2. \A r : LiveHandles(r)' = LiveHandles(r)
    BY <1>1 DEF LiveHandles
  <2>4. ASSUME NEW r \in DOMAIN resources
        PROVE  resources'[r].refs =
                  Cardinality(LiveHandles(r)') + resources'[r].exported + HeldByTop(r)'
    <3>1. /\ resources[r].refs = Cardinality(LiveHandles(r)) + resources[r].exported + HeldByTop(r)
          /\ r # 0 /\ Cardinality(LiveHandles(r)) \in Nat
      BY <2>1, InvFacts, LiveFinite DEF OwnersCounted
    <3>2. HeldByTop(r)' = 0 /\ HeldByTop(r) = IF r = k THEN 1 ELSE 0
      BY <3>1, <1>0, <1>2, <1>3, <1>4 DEF HeldByTop
    <3>3. resources'[r].exported = resources[r].exported + IF r = k THEN 1 ELSE 0
      BY <1>8, <1>9, <1>11
    <3>4. LiveHandles(r)' = LiveHandles(r) /\ resources'[r].refs = resources[r].refs
      BY <2>2, <1>13
    <3> QED BY <3>1, <3>2, <3>3, <3>4, <1>11
  <2>5. \A s : Held(s)' <=> Held(s)
    BY <1>9, <1>13 DEF Held
  <2>6. \A s \in DOMAIN snapshots' : snapshots'[s] = IF Held(s)' THEN 0 ELSE 1
    BY <2>1, <2>5, <1>1 DEF OwnersCounted
  <2>7. \A h \in DOMAIN handles' : handles'[h].state = "boxed" => calls' # <<>> /\ Top'.handle = h
    BY <2>1, <1>1, <1>3, <1>4 DEF OwnersCounted
  <2> QED BY <2>4, <2>6, <2>7, <1>9 DEF OwnersCounted
<1> QED BY <1>12, <1>14, <1>15, <1>16 DEF OwnershipInv

(* One retain less.                                                        *)
LEMMA WithoutShape ==
    ASSUME resources \in Seq(ResourceSet), NEW k \in DOMAIN resources, resources[k].refs >= 1
    PROVE  /\ Without(k) \in Seq(ResourceSet) /\ DOMAIN Without(k) = DOMAIN resources
           /\ \A r \in DOMAIN resources \ {k} : Without(k)[r] = resources[r]
           /\ Without(k)[k].refs = resources[k].refs - 1
           /\ resources[k].refs = 1 =>
                 Without(k)[k].snapshot = 0 /\ Without(k)[k].exported = 0
           /\ resources[k].refs # 1 =>
                 /\ Without(k)[k] = [resources[k] EXCEPT !.refs = @ - 1]
                 /\ Without(k)[k].snapshot = resources[k].snapshot
                 /\ Without(k)[k].exported = resources[k].exported
<1> DEFINE less == [resources[k] EXCEPT !.refs = @ - 1]
           new == IF resources[k].refs = 1 THEN Destroyed ELSE less
<1>1. resources[k] \in ResourceSet /\ resources[k].refs \in Nat
  <2>1. resources[k] \in ResourceSet
    OBVIOUS
  <2> QED BY <2>1, ResourceFields
<1>2. /\ Destroyed \in ResourceSet /\ Destroyed.refs = 0
      /\ Destroyed.snapshot = 0 /\ Destroyed.exported = 0
  <2>1. CacheAll \in PolicyValues
    BY DEF PolicyValues
  <2> QED BY <2>1 DEF Destroyed, ResourceSet
<1>3. /\ less \in ResourceSet /\ less.refs = resources[k].refs - 1
      /\ less.snapshot = resources[k].snapshot /\ less.exported = resources[k].exported
  <2>1. resources[k].refs - 1 \in Nat
    BY <1>1
  <2> QED BY <1>1, <2>1 DEF ResourceSet
<1>4. Without(k) = [resources EXCEPT ![k] = new]
  BY DEF Without, Dropped
<1> HIDE DEF less
<1>5. new \in ResourceSet
  BY <1>2, <1>3
<1>6. /\ Without(k) \in Seq(ResourceSet) /\ DOMAIN Without(k) = DOMAIN resources
      /\ \A r \in DOMAIN resources : Without(k)[r] = IF r = k THEN new ELSE resources[r]
  <2> HIDE DEF new
  <2> QED BY <1>4, <1>5, ReplaceShape
<1>7. CASE resources[k].refs = 1
  BY <1>1, <1>2, <1>6, <1>7
<1>8. CASE resources[k].refs # 1
  BY <1>1, <1>3, <1>6, <1>8 DEF less
<1> QED BY <1>7, <1>8

(* release adds one to the revisions that are gone.                        *)
LEMMA ReleaseShape ==
    ASSUME snapshots \in Seq(Nat), NEW gone
    PROVE  /\ release(gone) \in Seq(Nat) /\ DOMAIN release(gone) = DOMAIN snapshots
           /\ \A s \in DOMAIN snapshots :
                 release(gone)[s] = snapshots[s] + IF s \in gone THEN 1 ELSE 0
<1>1. /\ DOMAIN snapshots = 1 .. Len(snapshots) /\ Len(snapshots) \in Nat
      /\ \A s \in DOMAIN snapshots : snapshots[s] \in Nat
  OBVIOUS
<1>2. release(gone) \in [1 .. Len(snapshots) -> Nat]
  BY <1>1 DEF release
<1> QED BY <1>1, <1>2 DEF release

(* What is counted of a resource that the innermost call or a handle holds *)
(* or that was exported: it has a retain.                                  *)
LEMMA RetainedBy ==
    ASSUME OwnershipInv, NEW r \in DOMAIN resources
    PROVE  /\ resources[r].refs = Cardinality(LiveHandles(r)) + resources[r].exported + HeldByTop(r)
           /\ resources[r].refs \in Nat /\ resources[r].exported \in Nat
           /\ Cardinality(LiveHandles(r)) \in Nat /\ HeldByTop(r) \in {0, 1}
           /\ IsFiniteSet(LiveHandles(r))
           /\ LiveHandles(r) # {} => Cardinality(LiveHandles(r)) >= 1
<1>1. resources[r] \in ResourceSet /\ OwnersCounted /\ handles \in Seq(HandleSet)
  BY InvFacts
<1>2. IsFiniteSet(LiveHandles(r)) /\ Cardinality(LiveHandles(r)) \in Nat
  BY <1>1, LiveFinite
<1>3. LiveHandles(r) # {} => Cardinality(LiveHandles(r)) # 0
  BY <1>2, FS_EmptySet
<1> QED BY <1>1, <1>2, <1>3, ResourceFields DEF OwnersCounted, HeldByTop

(* A call that returns drops what it owns, and nothing else changes hands. *)
LEMMA ReturnOwns ==
    ASSUME OwnershipInv, calls # <<>>, NEW ok \in BOOLEAN, Return(ok),
           Top.handle # 0 => ok /\ Top.slot.is = "handle",
           ok /\ Top.slot.is = "handle" => Top.handle # 0 /\ Top.slot.id = Top.handle,
           Top.entry \notin Readers =>
              IF ok THEN \/ Top.slot.is \in {"handle", "ranking"}
                         \/ /\ Top.slot.is = "resource" /\ Top.resource = 0
                            /\ Top.slot.id \in DOMAIN resources
                            /\ resources[Top.slot.id].exported > 0
              ELSE Top.slot.is \in {"none", "null"} \cup (IF Top.entry \in Legacy THEN {"stale"} ELSE {})
    PROVE  OwnershipInv'
<1>0. PICK c : c = Top
  OBVIOUS
<1>1. /\ calls' = SubSeq(calls, 1, Len(calls) - 1)
      /\ answer' = [entry |-> c.entry, ok |-> ok, slot |-> c.slot]
      /\ resources' = IF c.resource = 0 THEN resources ELSE Without(c.resource)
      /\ snapshots' = release({c.snapshot} \cup
                              (IF c.resource = 0 THEN {} ELSE LastOf(c.resource)))
      /\ handles' = IF ok /\ c.slot.is = "handle"
                    THEN [handles EXCEPT ![c.slot.id].state = "owned"] ELSE handles
  BY <1>0 DEF Return
<1>2. /\ calls \in Seq(CallSet) /\ c \in CallSet /\ c = calls[Len(calls)]
      /\ CallOK(c) /\ HoldingsOK(c) /\ DOMAIN calls = 1 .. Len(calls)
      /\ Len(calls) \in Nat \ {0} /\ Len(calls) \in DOMAIN calls
      /\ snapshots \in Seq(Nat) /\ resources \in Seq(ResourceSet) /\ handles \in Seq(HandleSet)
      /\ 0 \notin DOMAIN resources /\ 0 \notin DOMAIN snapshots /\ 0 \notin DOMAIN handles
  <2>1. calls \in Seq(CallSet) /\ CallsOK
    BY InvFacts
  <2>2. c \in CallSet /\ c = calls[Len(calls)] /\ Len(calls) \in DOMAIN calls
    BY <1>0, <2>1, TopIn
  <2> QED BY <2>1, <2>2, TopIn, InvFacts, SMTT(30) DEF CallsOK
<1>3. /\ calls' \in Seq(CallSet) /\ Len(calls') = Len(calls) - 1
      /\ DOMAIN calls' = 1 .. Len(calls) - 1 /\ DOMAIN calls' \subseteq DOMAIN calls
      /\ \A i \in DOMAIN calls' : calls'[i] = calls[i]
      /\ \A i \in DOMAIN calls : i \in DOMAIN calls' \/ i = Len(calls)
  BY <1>1, <1>2
<1>4. ASSUME NEW i \in DOMAIN calls'
      PROVE  /\ calls'[i] \in CallSet /\ CallOK(calls'[i]) /\ HoldingsOK(calls[i])
             /\ Waiting(calls'[i])
             /\ calls'[i].resource = 0 /\ calls'[i].handle = 0 /\ ~ Did(calls'[i], "into_raw")
  <2>1. CallsOK /\ i \in 1 .. Len(calls) - 1 /\ calls'[i] = calls[i]
    BY <1>3, InvFacts
  <2>2. calls[i] \in CallSet /\ CallOK(calls[i]) /\ HoldingsOK(calls[i]) /\ Waiting(calls[i])
    BY <1>2, <2>1, WaitingAt
  <2> QED BY <2>1, <2>2, WaitingOwns
<1>5. c.resource # 0 =>
         /\ c.resource \in DOMAIN resources /\ HeldByTop(c.resource) = 1
         /\ resources[c.resource].refs >= 1
  <2> SUFFICES ASSUME c.resource # 0
               PROVE  /\ c.resource \in DOMAIN resources /\ HeldByTop(c.resource) = 1
                      /\ resources[c.resource].refs >= 1
    OBVIOUS
  <2>1. c.resource \in DOMAIN resources /\ HeldByTop(c.resource) = 1
    BY <1>0, <1>2 DEF HoldingsOK, HeldByTop
  <2>2. resources[c.resource].refs =
           Cardinality(LiveHandles(c.resource)) + resources[c.resource].exported + 1
    BY <2>1, RetainedBy
  <2> QED BY <2>1, <2>2, RetainedBy
<1>6. /\ resources' \in Seq(ResourceSet) /\ DOMAIN resources' = DOMAIN resources
      /\ \A r \in DOMAIN resources : r # c.resource => resources'[r] = resources[r]
      /\ c.resource # 0 =>
            /\ resources'[c.resource].refs = resources[c.resource].refs - 1
            /\ resources[c.resource].refs = 1 =>
                  resources'[c.resource].snapshot = 0 /\ resources'[c.resource].exported = 0
            /\ resources[c.resource].refs # 1 =>
                  /\ resources'[c.resource].snapshot = resources[c.resource].snapshot
                  /\ resources'[c.resource].exported = resources[c.resource].exported
  <2>1. CASE c.resource = 0
    BY <2>1, <1>1, <1>2
  <2>2. CASE c.resource # 0
    <3>1. resources' = Without(c.resource) /\ c.resource \in DOMAIN resources
      BY <2>2, <1>1, <1>5
    <3> QED BY <3>1, <2>2, <1>2, <1>5, WithoutShape
  <2> QED BY <2>1, <2>2
<1>7. PICK gone : gone = {c.snapshot} \cup (IF c.resource = 0 THEN {} ELSE LastOf(c.resource))
  OBVIOUS
<1>8. /\ snapshots' \in Seq(Nat) /\ DOMAIN snapshots' = DOMAIN snapshots
      /\ \A s \in DOMAIN snapshots :
            snapshots'[s] = snapshots[s] + IF s \in gone THEN 1 ELSE 0
  BY <1>1, <1>2, <1>7, ReleaseShape, SMTT(30)
<1>9. /\ handles' \in Seq(HandleSet) /\ DOMAIN handles' = DOMAIN handles
      /\ \A h \in DOMAIN handles :
            /\ handles'[h].resource = handles[h].resource
            /\ IF ok /\ c.slot.is = "handle" /\ h = c.handle
               THEN handles'[h].state = "owned" /\ handles[h].state = "boxed"
               ELSE handles'[h].state = handles[h].state
      /\ ok /\ c.slot.is = "handle" => c.handle \in DOMAIN handles
  <2>1. CASE ~ (ok /\ c.slot.is = "handle")
    BY <2>1, <1>1, <1>2
  <2>2. CASE ok /\ c.slot.is = "handle"
    <3> DEFINE h == c.handle
               new == [handles[h] EXCEPT !.state = "owned"]
    <3>1. h # 0 /\ c.slot.id = h /\ h \in DOMAIN handles /\ handles[h].state = "boxed"
      BY <2>2, <1>0, <1>2 DEF HoldingsOK
    <3> HIDE DEF h
    <3>2. handles' = [handles EXCEPT ![h] = new]
      BY <2>2, <3>1, <1>1
    <3>3. handles[h] \in HandleSet
      BY <3>1, <1>2
    <3>4. new \in HandleSet /\ new.resource = handles[h].resource /\ new.state = "owned"
      BY <3>3 DEF HandleSet
    <3> HIDE DEF new
    <3>5. /\ handles' \in Seq(HandleSet) /\ DOMAIN handles' = DOMAIN handles
          /\ \A g \in DOMAIN handles : handles'[g] = IF g = h THEN new ELSE handles[g]
      BY <3>1, <3>2, <3>4, <1>2, ReplaceShape
    <3> QED BY <3>1, <3>4, <3>5, <2>2 DEF h
  <2> QED BY <2>1, <2>2
<1>10. BoundaryTypes'
  BY <1>3, <1>6, <1>8, <1>9 DEF BoundaryTypes
<1>11. CallsOK'
  <2>1. ASSUME NEW i \in DOMAIN calls' PROVE HoldingsOK(calls[i])'
    <3>1. calls'[i] = calls[i]
      BY <1>3
    <3> QED BY <3>1, <1>4, <1>8 DEF HoldingsOK, Did
  <2>2. \A i \in 1 .. Len(calls') - 1 : i \in DOMAIN calls'
    BY <1>2, <1>3
  <2> QED BY <2>1, <2>2, <1>4 DEF CallsOK, CallOK, SlotOK, Did, Waiting, AtStep
<1>12. \A r \in DOMAIN resources :
          resources'[r].snapshot =
             IF r = c.resource /\ resources[r].refs = 1 THEN 0 ELSE resources[r].snapshot
  BY <1>2, <1>6
<1>13. HoldersUnique'
  <2>1. HoldersUnique
    BY InvFacts
  <2> QED BY <2>1, <1>3, <1>6, <1>12 DEF HoldersUnique
<1>14. ObjectsOK'
  <2>1. ObjectsOK
    BY InvFacts
  <2>2. ASSUME NEW r \in DOMAIN resources
        PROVE  /\ resources'[r].snapshot # 0 => resources'[r].snapshot \in DOMAIN snapshots
               /\ resources'[r].refs = 0 => resources'[r].snapshot = 0
    <3>1. CASE r = c.resource
      <4>1. resources[r].refs \in Nat
        BY RetainedBy
      <4> QED BY <3>1, <4>1, <2>1, <1>2, <1>6 DEF ObjectsOK
    <3>2. CASE r # c.resource
      BY <3>2, <2>1, <1>6 DEF ObjectsOK
    <3> QED BY <3>1, <3>2
  <2>3. \A h \in DOMAIN handles' :
           handles'[h].state # "freed" => handles'[h].resource \in DOMAIN resources
    BY <2>1, <1>9 DEF ObjectsOK
  <2> QED BY <2>2, <2>3, <1>6, <1>8 DEF ObjectsOK
<1>15. calls' # <<>> => Top'.resource = 0 /\ Top'.handle = 0
  <2> SUFFICES ASSUME calls' # <<>> PROVE Top'.resource = 0 /\ Top'.handle = 0
    OBVIOUS
  <2>1. Len(calls') \in DOMAIN calls' /\ Top' = calls'[Len(calls')]
    BY <1>3 DEF Top
  <2> QED BY <2>1, <1>4
<1>16. \A r \in DOMAIN resources' :
          resources'[r].refs =
             Cardinality(LiveHandles(r)') + resources'[r].exported + HeldByTop(r)'
  <2> SUFFICES ASSUME NEW r \in DOMAIN resources
               PROVE  resources'[r].refs =
                         Cardinality(LiveHandles(r)') + resources'[r].exported + HeldByTop(r)'
    BY <1>6
  <2>1. LiveHandles(r)' = LiveHandles(r)
    BY <1>9 DEF LiveHandles
  <2>2. HeldByTop(r)' = 0
    BY <1>2, <1>15 DEF HeldByTop
  <2>3. /\ resources[r].refs = Cardinality(LiveHandles(r)) + resources[r].exported + HeldByTop(r)
        /\ resources[r].refs \in Nat /\ resources[r].exported \in Nat
        /\ Cardinality(LiveHandles(r)) \in Nat
    BY RetainedBy
  <2>4. CASE r = c.resource
    <3>1. HeldByTop(r) = 1 /\ r # 0
      BY <2>4, <1>2, <1>5
    <3>2. CASE resources[r].refs = 1
      BY <2>1, <2>2, <2>3, <2>4, <3>1, <3>2, <1>6
    <3>3. CASE resources[r].refs # 1
      BY <2>1, <2>2, <2>3, <2>4, <3>1, <3>3, <1>6
    <3> QED BY <3>2, <3>3
  <2>5. CASE r # c.resource
    <3>1. HeldByTop(r) = 0
      BY <2>5, <1>0 DEF HeldByTop
    <3> QED BY <3>1, <2>1, <2>2, <2>3, <2>5, <1>6
  <2> QED BY <2>4, <2>5
<1>17. \A s \in DOMAIN snapshots' : snapshots'[s] = IF Held(s)' THEN 0 ELSE 1
  <2> SUFFICES ASSUME NEW s \in DOMAIN snapshots
               PROVE  snapshots'[s] = IF Held(s)' THEN 0 ELSE 1
    BY <1>8
  <2>1. s # 0 /\ snapshots[s] = (IF Held(s) THEN 0 ELSE 1) /\ HoldersUnique
    BY <1>2, InvFacts DEF OwnersCounted
  <2>2. s \in gone <=>
           \/ c.snapshot = s
           \/ c.resource # 0 /\ resources[c.resource].refs = 1 /\ resources[c.resource].snapshot = s
    BY <1>7 DEF LastOf
  <2>3. CASE s \in gone
    <3>1. Held(s)
      BY <2>2, <2>3, <1>2, <1>5 DEF Held
    <3>2. ~ Held(s)'
      <4>1. ASSUME NEW i \in DOMAIN calls', calls'[i].snapshot = s PROVE FALSE
        <5>1. i \in DOMAIN calls /\ calls[i].snapshot = s /\ i # Len(calls)
          BY <4>1, <1>2, <1>3
        <5>2. c.snapshot # s
          BY <5>1, <2>1, <1>2 DEF HoldersUnique
        <5> QED BY <5>1, <5>2, <2>1, <2>2, <2>3, <1>5 DEF HoldersUnique
      <4>2. ASSUME NEW r \in DOMAIN resources', resources'[r].snapshot = s PROVE FALSE
        <5>1. /\ r \in DOMAIN resources /\ resources[r].snapshot = s
              /\ ~ (r = c.resource /\ resources[r].refs = 1)
          BY <4>2, <2>1, <1>6, <1>12
        <5>2. c.snapshot # s
          BY <5>1, <2>1, <1>2 DEF HoldersUnique
        <5> QED BY <5>1, <5>2, <2>1, <2>2, <2>3, <1>5 DEF HoldersUnique
      <4> QED BY <4>1, <4>2 DEF Held
    <3> QED BY <3>1, <3>2, <2>1, <2>3, <1>8
  <2>4. CASE s \notin gone
    <3>1. ASSUME NEW i \in DOMAIN calls, calls[i].snapshot = s PROVE Held(s)'
      BY <3>1, <2>2, <2>4, <1>2, <1>3 DEF Held
    <3>2. ASSUME NEW r \in DOMAIN resources, resources[r].snapshot = s PROVE Held(s)'
      <4>1. resources'[r].snapshot = s
        BY <3>2, <2>2, <2>4, <1>2, <1>12
      <4> QED BY <4>1, <1>6 DEF Held
    <3>3. ASSUME NEW i \in DOMAIN calls', calls'[i].snapshot = s PROVE Held(s)
      BY <3>3, <1>3 DEF Held
    <3>4. ASSUME NEW r \in DOMAIN resources', resources'[r].snapshot = s PROVE Held(s)
      BY <3>4, <2>1, <1>6, <1>12 DEF Held
    <3>5. Held(s)' <=> Held(s)
      BY <3>1, <3>2, <3>3, <3>4 DEF Held
    <3> QED BY <3>5, <2>1, <2>4, <1>8
  <2> QED BY <2>3, <2>4
<1>18. \A h \in DOMAIN handles' : handles'[h].state # "boxed"
  <2> SUFFICES ASSUME NEW h \in DOMAIN handles, handles'[h].state = "boxed" PROVE FALSE
    BY <1>9
  <2>1. handles[h].state = "boxed" /\ ~ (ok /\ c.slot.is = "handle" /\ h = c.handle)
    BY <1>9
  <2>2. c.handle = h /\ h # 0
    BY <2>1, <1>0, <1>2, InvFacts DEF OwnersCounted
  <2> QED BY <2>1, <2>2, <1>0
<1>19. OwnersCounted'
  BY <1>16, <1>17, <1>18 DEF OwnersCounted
<1>20. AnswerOK'
  <2>1. answer'.entry = c.entry /\ answer'.ok = ok /\ answer'.slot = c.slot
    BY <1>1
  <2>2. c.slot.is = "handle" /\ ok =>
           handles'[c.slot.id].state = "owned" /\ c.slot.id \in DOMAIN handles'
    BY <1>0, <1>9
  <2>3. c.slot.is = "resource" /\ ok /\ c.entry \notin Readers =>
           resources'[c.slot.id].exported > 0 /\ c.slot.id \in DOMAIN resources'
    BY <1>0, <1>2, <1>6
  <2> QED BY <2>1, <2>2, <2>3, <1>0 DEF AnswerOK, SlotsTruthful
<1> QED BY <1>10, <1>11, <1>13, <1>14, <1>19, <1>20 DEF OwnershipInv

(* When a call can be made, only revisions are held by calls.              *)
LEMMA Idle ==
    ASSUME OwnershipInv, CanCall
    PROVE  /\ \A r \in DOMAIN resources : HeldByTop(r) = 0
           /\ \A h \in DOMAIN handles : handles[h].state # "boxed"
           /\ \A i \in DOMAIN calls :
                 /\ calls[i] \in CallSet /\ CallOK(calls[i]) /\ HoldingsOK(calls[i])
                 /\ Waiting(calls[i])
<1>1. /\ calls \in Seq(CallSet) /\ CallsOK /\ OwnersCounted
      /\ \A r \in DOMAIN resources : r # 0
      /\ \A h \in DOMAIN handles : h # 0
  BY InvFacts
<1>2. calls # <<>> => Top.resource = 0 /\ Top.handle = 0
  BY <1>1, CanCallWaiting, WaitingOwns
<1>3. ASSUME NEW i \in DOMAIN calls
      PROVE  calls[i] \in CallSet /\ CallOK(calls[i]) /\ HoldingsOK(calls[i]) /\ Waiting(calls[i])
  <2>1. CASE i = Len(calls)
    <3>1. calls # <<>> /\ calls[i] = Top
      BY <2>1, <1>1 DEF Top
    <3> QED BY <3>1, <1>1, CanCallWaiting DEF CallsOK
  <2>2. CASE i # Len(calls)
    <3>1. i \in 1 .. Len(calls) - 1
      BY <2>2, <1>1
    <3> QED BY <3>1, <1>1, WaitingAt
  <2> QED BY <2>1, <2>2
<1> QED BY <1>1, <1>2, <1>3 DEF HeldByTop, OwnersCounted

(* A call that has taken no step owns nothing.                             *)
LEMMA FreshCall ==
    ASSUME NEW c \in CallSet, c.at = 1, c.snapshot = 0, c.resource = 0, c.handle = 0,
           c.slot.is \in {"none", "stale"}
    PROVE  CallOK(c) /\ HoldingsOK(c)
<1>1. \A x : ~ Did(c, x)
  BY DEF Did, Past
<1>2. 1 \in 1 .. Len(Program[c.entry]) + 1
  BY CallFields, ProgramFacts
<1> QED BY <1>1, <1>2 DEF CallOK, HoldingsOK, SlotOK

(* Beginning a call changes no owner.                                      *)
LEMMA BeginOwns ==
    ASSUME OwnershipInv, NEW entry \in DOMAIN Program, NEW is \in {"none", "stale"},
           NEW reads \in Nat, Begin(entry, Slot(is, 0), reads), Len(frames) \in Nat
    PROVE  OwnershipInv'
<1> DEFINE slot == Slot(is, 0)
           c == [entry |-> entry, at |-> 1, slot |-> slot, construction |-> Nothing,
                 snapshot |-> 0, resource |-> 0, handle |-> 0, reads |-> reads,
                 base |-> Len(frames)]
<1>1. /\ CanCall /\ calls' = Append(calls, c) /\ answer' = Nothing
      /\ snapshots' = snapshots /\ resources' = resources /\ handles' = handles
  BY DEF Begin, objects
<1>2. c \in CallSet /\ c.at = 1 /\ c.snapshot = 0 /\ c.resource = 0 /\ c.handle = 0 /\ c.slot.is = is
  <2>1. slot \in SlotSet /\ slot.is = is
    BY DEF SlotSet, Slot
  <2> HIDE DEF slot
  <2> QED BY <2>1 DEF CallSet
<1> HIDE DEF c
<1>3. CallOK(c) /\ HoldingsOK(c)
  BY <1>2, FreshCall
<1>4. PICK n : n = c
  OBVIOUS
<1>5. /\ calls' \in Seq(CallSet) /\ Len(calls') = Len(calls) + 1
      /\ DOMAIN calls' = 1 .. Len(calls) + 1 /\ calls'[Len(calls) + 1] = n
      /\ \A i \in DOMAIN calls : i \in DOMAIN calls' /\ calls'[i] = calls[i]
      /\ \A i \in DOMAIN calls' : i \in DOMAIN calls \/ i = Len(calls) + 1
  <2>1. calls \in Seq(CallSet)
    BY InvFacts
  <2> QED BY <2>1, <1>1, <1>2, <1>4, AppendShape
<1>6. /\ Top' = n /\ calls' # <<>> /\ n.snapshot = 0 /\ n.resource = 0 /\ n.handle = 0
      /\ Len(calls) \in Nat /\ DOMAIN calls = 1 .. Len(calls)
  BY <1>2, <1>4, <1>5, InvFacts DEF Top
<1>7. BoundaryTypes'
  BY <1>1, <1>5, InvFacts DEF BoundaryTypes
<1>8. CallsOK'
  <2>1. ASSUME NEW i \in DOMAIN calls'
        PROVE  CallOK(calls'[i]) /\ HoldingsOK(calls[i])' /\ (i # Len(calls) + 1 => Waiting(calls'[i]))
    <3>1. CASE i \in DOMAIN calls
      <4>1. HoldingsOK(calls[i]) /\ CallOK(calls[i]) /\ Waiting(calls[i]) /\ calls'[i] = calls[i]
        BY <3>1, <1>1, <1>5, Idle
      <4> QED BY <4>1, <1>1 DEF HoldingsOK, Did
    <3>2. CASE i = Len(calls) + 1
      <4>1. calls'[i] = n /\ CallOK(n) /\ HoldingsOK(n)
        BY <3>2, <1>3, <1>4, <1>5
      <4> QED BY <3>2, <4>1, <1>1 DEF HoldingsOK, Did
    <3> QED BY <3>1, <3>2, <1>5
  <2>2. \A i \in 1 .. Len(calls') - 1 : i \in DOMAIN calls' /\ i # Len(calls) + 1
    BY <1>5, <1>6
  <2> QED BY <2>1, <2>2 DEF CallsOK, CallOK, SlotOK, Did, Waiting, AtStep
<1>9. HoldersUnique'
  <2>1. HoldersUnique
    BY InvFacts
  <2>2. \A i \in DOMAIN calls' : calls'[i].snapshot # 0 => i \in DOMAIN calls /\ calls'[i] = calls[i]
    BY <1>5, <1>6
  <2> QED BY <2>1, <2>2, <1>1 DEF HoldersUnique
<1>10. ObjectsOK'
  BY <1>1, InvFacts DEF ObjectsOK
<1>11. OwnersCounted'
  <2>1. OwnersCounted /\ \A s \in DOMAIN snapshots : s # 0
    BY InvFacts
  <2>2. \A r : LiveHandles(r)' = LiveHandles(r)
    BY <1>1 DEF LiveHandles
  <2>3. \A r \in DOMAIN resources : HeldByTop(r)' = 0 /\ HeldByTop(r) = 0
    <3> TAKE r \in DOMAIN resources
    <3>1. r # 0
      BY InvFacts
    <3> QED BY <3>1, <1>1, <1>6, Idle DEF HeldByTop
  <2>4. \A s \in DOMAIN snapshots : Held(s)' <=> Held(s)
    BY <2>1, <1>1, <1>5, <1>6 DEF Held
  <2>5. \A h \in DOMAIN handles : handles[h].state # "boxed"
    BY <1>1, Idle
  <2> QED BY <2>1, <2>2, <2>3, <2>4, <2>5, <1>1 DEF OwnersCounted
<1>12. AnswerOK'
  BY <1>1 DEF AnswerOK, SlotsTruthful
<1> QED BY <1>7, <1>8, <1>9, <1>10, <1>11, <1>12 DEF OwnershipInv

(* The operations on what was handed out: the calls stay as they are.      *)
LEMMA WaitingKept ==
    ASSUME OwnershipInv, CanCall, calls' = calls, DOMAIN snapshots' = DOMAIN snapshots,
           answer' = Nothing
    PROVE  CallsOK' /\ AnswerOK'
<1>1. ASSUME NEW i \in DOMAIN calls PROVE HoldingsOK(calls[i])'
  <2>1. /\ calls[i].resource = 0 /\ calls[i].handle = 0 /\ ~ Did(calls[i], "into_raw")
        /\ HoldingsOK(calls[i])
    BY Idle, WaitingOwns
  <2> QED BY <2>1 DEF HoldingsOK, Did
<1>2. CallsOK'
  BY <1>1, InvFacts DEF CallsOK, CallOK, SlotOK, Did, Waiting, AtStep
<1> QED BY <1>2 DEF AnswerOK, SlotsTruthful

(* A resource that loses a retain takes its revision along with the last.  *)
LEMMA RetainDropped ==
    ASSUME OwnershipInv, calls' = calls, NEW k \in DOMAIN resources,
           DOMAIN resources' = DOMAIN resources,
           \A r \in DOMAIN resources \ {k} : resources'[r] = resources[r],
           resources'[k].snapshot = (IF resources[k].refs = 1 THEN 0 ELSE resources[k].snapshot),
           resources'[k].refs = resources[k].refs - 1,
           snapshots' = release(LastOf(k))
    PROVE  /\ snapshots' \in Seq(Nat) /\ DOMAIN snapshots' = DOMAIN snapshots
           /\ HoldersUnique'
           /\ \A r \in DOMAIN resources' :
                 /\ resources'[r].snapshot # 0 => resources'[r].snapshot \in DOMAIN snapshots'
                 /\ resources'[r].refs = 0 => resources'[r].snapshot = 0
           /\ \A s \in DOMAIN snapshots' : snapshots'[s] = IF Held(s)' THEN 0 ELSE 1
<1>1. /\ snapshots' \in Seq(Nat) /\ DOMAIN snapshots' = DOMAIN snapshots
      /\ \A s \in DOMAIN snapshots :
            snapshots'[s] = snapshots[s] + IF s \in LastOf(k) THEN 1 ELSE 0
  BY InvFacts, ReleaseShape
<1>2. HoldersUnique /\ ObjectsOK /\ OwnersCounted
  BY InvFacts
<1>3. HoldersUnique'
  <2>1. \A r \in DOMAIN resources :
           resources'[r].snapshot # 0 => resources'[r].snapshot = resources[r].snapshot
    OBVIOUS
  <2> QED BY <2>1, <1>2 DEF HoldersUnique
<1>4. ASSUME NEW r \in DOMAIN resources
      PROVE  /\ resources'[r].snapshot # 0 => resources'[r].snapshot \in DOMAIN snapshots
             /\ resources'[r].refs = 0 => resources'[r].snapshot = 0
  <2>1. resources[r].refs \in Nat
    BY RetainedBy
  <2> QED BY <2>1, <1>2 DEF ObjectsOK
<1>5. ASSUME NEW s \in DOMAIN snapshots
      PROVE  snapshots'[s] = IF Held(s)' THEN 0 ELSE 1
  <2>1. s # 0 /\ snapshots[s] = IF Held(s) THEN 0 ELSE 1
    BY <1>2, InvFacts DEF OwnersCounted
  <2>2. s \in LastOf(k) <=> resources[k].refs = 1 /\ resources[k].snapshot = s
    BY DEF LastOf
  <2>3. CASE s \in LastOf(k)
    <3>1. Held(s)
      BY <2>2, <2>3 DEF Held
    <3>2. \A i \in DOMAIN calls : calls[i].snapshot # s
      BY <2>1, <2>2, <2>3, <1>2 DEF HoldersUnique
    <3>3. \A r \in DOMAIN resources : resources'[r].snapshot # s
      BY <2>1, <2>2, <2>3, <1>2 DEF HoldersUnique
    <3>4. ~ Held(s)'
      BY <3>2, <3>3 DEF Held
    <3> QED BY <3>1, <3>4, <2>1, <2>3, <1>1
  <2>4. CASE s \notin LastOf(k)
    <3>1. \A r \in DOMAIN resources : resources'[r].snapshot = s <=> resources[r].snapshot = s
      BY <2>1, <2>2, <2>4
    <3>2. Held(s)' <=> Held(s)
      BY <3>1 DEF Held
    <3> QED BY <3>2, <2>1, <2>4, <1>1
  <2> QED BY <2>3, <2>4
<1> QED BY <1>1, <1>3, <1>4, <1>5

(* Freeing a handle gives up its retain, and its resource if it was the    *)
(* last.                                                                   *)
LEMMA FreeOwns ==
    ASSUME OwnershipInv, NEW h \in DOMAIN handles, duallity_wfst_free(h)
    PROVE  OwnershipInv'
<1>0. PICK k : k = handles[h].resource
  OBVIOUS
<1> DEFINE new == [state |-> "freed", resource |-> 0, options |-> Nothing, fzf |-> Nothing]
<1>1. /\ CanCall /\ handles[h].state = "owned" /\ handles' = [handles EXCEPT ![h] = new]
      /\ resources' = Without(k) /\ snapshots' = release(LastOf(k))
      /\ answer' = Nothing /\ calls' = calls
  BY <1>0 DEF duallity_wfst_free
<1>2. /\ handles' \in Seq(HandleSet) /\ DOMAIN handles' = DOMAIN handles
      /\ \A g \in DOMAIN handles : handles'[g] = IF g = h THEN new ELSE handles[g]
      /\ new.state = "freed"
  <2>1. new \in HandleSet /\ new.state = "freed"
    BY DEF HandleSet, OptionValues
  <2>2. handles \in Seq(HandleSet)
    BY InvFacts
  <2> HIDE DEF new
  <2> QED BY <1>1, <2>1, <2>2, ReplaceShape
<1> HIDE DEF new
<1>3. k \in DOMAIN resources /\ h \in LiveHandles(k)
  BY <1>0, <1>1, InvFacts DEF ObjectsOK, LiveHandles
<1>4. resources[k].refs >= 1
  <2>1. /\ resources[k].refs = Cardinality(LiveHandles(k)) + resources[k].exported + HeldByTop(k)
        /\ resources[k].refs \in Nat /\ resources[k].exported \in Nat /\ HeldByTop(k) \in {0, 1}
        /\ Cardinality(LiveHandles(k)) >= 1 /\ Cardinality(LiveHandles(k)) \in Nat
    BY <1>3, RetainedBy
  <2> QED BY <2>1
<1>5. /\ resources' \in Seq(ResourceSet) /\ DOMAIN resources' = DOMAIN resources
      /\ \A r \in DOMAIN resources \ {k} : resources'[r] = resources[r]
      /\ resources'[k].refs = resources[k].refs - 1
      /\ resources[k].refs = 1 =>
            resources'[k].snapshot = 0 /\ resources'[k].exported = 0
      /\ resources[k].refs # 1 =>
            /\ resources'[k].snapshot = resources[k].snapshot
            /\ resources'[k].exported = resources[k].exported
  BY <1>1, <1>3, <1>4, InvFacts, WithoutShape
<1>6. /\ snapshots' \in Seq(Nat) /\ DOMAIN snapshots' = DOMAIN snapshots
      /\ HoldersUnique'
      /\ \A r \in DOMAIN resources' :
            /\ resources'[r].snapshot # 0 => resources'[r].snapshot \in DOMAIN snapshots'
            /\ resources'[r].refs = 0 => resources'[r].snapshot = 0
      /\ \A s \in DOMAIN snapshots' : snapshots'[s] = IF Held(s)' THEN 0 ELSE 1
  <2>1. resources'[k].snapshot = IF resources[k].refs = 1 THEN 0 ELSE resources[k].snapshot
    BY <1>5
  <2> QED BY <2>1, <1>1, <1>3, <1>5, RetainDropped
<1>7. CallsOK' /\ AnswerOK'
  BY <1>1, <1>6, WaitingKept
<1>8. BoundaryTypes'
  BY <1>1, <1>2, <1>5, <1>6, InvFacts DEF BoundaryTypes
<1>9. ObjectsOK'
  <2>1. ObjectsOK
    BY InvFacts
  <2>2. \A g \in DOMAIN handles' :
           handles'[g].state # "freed" => handles'[g].resource \in DOMAIN resources'
    BY <2>1, <1>2, <1>5 DEF ObjectsOK
  <2> QED BY <2>2, <1>6 DEF ObjectsOK
<1>10. ASSUME NEW r \in DOMAIN resources
       PROVE  resources'[r].refs =
                 Cardinality(LiveHandles(r)') + resources'[r].exported + HeldByTop(r)'
  <2>1. HeldByTop(r)' = 0 /\ HeldByTop(r) = 0
    BY <1>1, Idle DEF HeldByTop, Top
  <2>2. LiveHandles(r)' = IF r = k THEN LiveHandles(r) \ {h} ELSE LiveHandles(r)
    BY <1>0, <1>2 DEF LiveHandles
  <2>3. /\ resources[r].refs = Cardinality(LiveHandles(r)) + resources[r].exported + HeldByTop(r)
        /\ resources[r].refs \in Nat /\ resources[r].exported \in Nat
        /\ Cardinality(LiveHandles(r)) \in Nat /\ IsFiniteSet(LiveHandles(r))
    BY RetainedBy
  <2>4. CASE r = k
    <3>1. Cardinality(LiveHandles(r)') = Cardinality(LiveHandles(r)) - 1
      <4>1. h \in LiveHandles(r) /\ LiveHandles(r)' = LiveHandles(r) \ {h}
        BY <2>2, <2>4, <1>3
      <4>2. Cardinality(LiveHandles(r) \ {h}) = Cardinality(LiveHandles(r)) - 1
        BY <4>1, <2>3, FS_RemoveElement
      <4> QED BY <4>1, <4>2
    <3>2. Cardinality(LiveHandles(r)) >= 1
      BY <2>4, <1>3, RetainedBy
    <3>3. CASE resources[r].refs = 1
      BY <2>1, <2>3, <2>4, <3>1, <3>2, <3>3, <1>5
    <3>4. CASE resources[r].refs # 1
      BY <2>1, <2>3, <2>4, <3>1, <3>2, <3>4, <1>5
    <3> QED BY <3>3, <3>4
  <2>5. CASE r # k
    <3>1. LiveHandles(r)' = LiveHandles(r) /\ resources'[r] = resources[r]
      BY <2>2, <2>5, <1>5
    <3> QED BY <3>1, <2>1, <2>3
  <2> QED BY <2>4, <2>5
<1>11. OwnersCounted'
  <2>1. \A g \in DOMAIN handles' : handles'[g].state # "boxed"
    BY <1>1, <1>2, Idle
  <2> QED BY <2>1, <1>5, <1>6, <1>10 DEF OwnersCounted
<1> QED BY <1>6, <1>7, <1>8, <1>9, <1>11 DEF OwnershipInv

(* Releasing an export gives up its retain.                                *)
LEMMA ReleaseOwns ==
    ASSUME OwnershipInv, NEW k \in DOMAIN resources, duallity_resource_release(k)
    PROVE  OwnershipInv'
<1>1. /\ CanCall /\ resources[k].exported > 0
      /\ resources' = IF resources[k].refs = 1 THEN Without(k)
                      ELSE [Without(k) EXCEPT ![k].exported = @ - 1]
      /\ snapshots' = release(LastOf(k))
      /\ answer' = Nothing /\ calls' = calls /\ handles' = handles
  BY DEF duallity_resource_release
<1>2. /\ resources[k].refs = Cardinality(LiveHandles(k)) + resources[k].exported
      /\ resources[k].refs \in Nat /\ resources[k].exported \in Nat
      /\ Cardinality(LiveHandles(k)) \in Nat
  <2>1. HeldByTop(k) = 0
    BY <1>1, Idle
  <2> QED BY <2>1, RetainedBy
<1>3. /\ Without(k) \in Seq(ResourceSet) /\ DOMAIN Without(k) = DOMAIN resources
      /\ \A r \in DOMAIN resources \ {k} : Without(k)[r] = resources[r]
      /\ Without(k)[k].refs = resources[k].refs - 1
      /\ resources[k].refs = 1 => Without(k)[k].snapshot = 0 /\ Without(k)[k].exported = 0
      /\ resources[k].refs # 1 =>
            /\ Without(k)[k].snapshot = resources[k].snapshot
            /\ Without(k)[k].exported = resources[k].exported
  <2>1. resources[k].refs >= 1 /\ resources \in Seq(ResourceSet)
    BY <1>1, <1>2, InvFacts
  <2> QED BY <2>1, WithoutShape
<1>4. /\ resources' \in Seq(ResourceSet) /\ DOMAIN resources' = DOMAIN resources
      /\ \A r \in DOMAIN resources \ {k} : resources'[r] = resources[r]
      /\ resources'[k].refs = resources[k].refs - 1
      /\ resources'[k].snapshot = (IF resources[k].refs = 1 THEN 0 ELSE resources[k].snapshot)
      /\ resources'[k].exported = resources[k].exported - 1
  <2>1. CASE resources[k].refs = 1
    <3>1. resources[k].exported = 1
      BY <2>1, <1>1, <1>2
    <3> QED BY <2>1, <3>1, <1>1, <1>3
  <2>2. CASE resources[k].refs # 1
    <3> DEFINE w == Without(k)
               new == [w[k] EXCEPT !.exported = @ - 1]
    <3>1. w \in Seq(ResourceSet) /\ k \in DOMAIN w /\ w[k].exported = resources[k].exported
      BY <2>2, <1>3
    <3>2. resources' = [w EXCEPT ![k] = new]
      BY <2>2, <1>1
    <3>3. /\ new \in ResourceSet /\ new.refs = w[k].refs /\ new.snapshot = w[k].snapshot
          /\ new.exported = w[k].exported - 1
      <4> HIDE DEF w
      <4>1. w[k] \in ResourceSet /\ w[k].exported - 1 \in Nat
        BY <3>1, <1>1, <1>2
      <4> QED BY <4>1 DEF ResourceSet
    <3> HIDE DEF new
    <3>4. /\ resources' \in Seq(ResourceSet) /\ DOMAIN resources' = DOMAIN w
          /\ \A r \in DOMAIN w : resources'[r] = IF r = k THEN new ELSE w[r]
      <4> HIDE DEF w
      <4> QED BY <3>1, <3>2, <3>3, ReplaceShape
    <3> QED BY <2>2, <3>1, <3>3, <3>4, <1>3
  <2> QED BY <2>1, <2>2
<1>6. /\ snapshots' \in Seq(Nat) /\ DOMAIN snapshots' = DOMAIN snapshots
      /\ HoldersUnique'
      /\ \A r \in DOMAIN resources' :
            /\ resources'[r].snapshot # 0 => resources'[r].snapshot \in DOMAIN snapshots'
            /\ resources'[r].refs = 0 => resources'[r].snapshot = 0
      /\ \A s \in DOMAIN snapshots' : snapshots'[s] = IF Held(s)' THEN 0 ELSE 1
  BY <1>1, <1>4, RetainDropped
<1>7. CallsOK' /\ AnswerOK'
  BY <1>1, <1>6, WaitingKept
<1>8. BoundaryTypes'
  BY <1>1, <1>4, <1>6, InvFacts DEF BoundaryTypes
<1>9. ObjectsOK'
  BY <1>1, <1>4, <1>6, InvFacts DEF ObjectsOK
<1>10. ASSUME NEW r \in DOMAIN resources
       PROVE  resources'[r].refs =
                 Cardinality(LiveHandles(r)') + resources'[r].exported + HeldByTop(r)'
  <2>1. HeldByTop(r)' = 0 /\ HeldByTop(r) = 0 /\ LiveHandles(r)' = LiveHandles(r)
    BY <1>1, Idle DEF HeldByTop, Top, LiveHandles
  <2>2. /\ resources[r].refs = Cardinality(LiveHandles(r)) + resources[r].exported + HeldByTop(r)
        /\ resources[r].refs \in Nat /\ resources[r].exported \in Nat
        /\ Cardinality(LiveHandles(r)) \in Nat
    BY RetainedBy
  <2>3. CASE r = k
    BY <2>1, <2>2, <2>3, <1>4
  <2>4. CASE r # k
    BY <2>1, <2>2, <2>4, <1>4
  <2> QED BY <2>3, <2>4
<1>11. OwnersCounted'
  <2>1. \A g \in DOMAIN handles' : handles'[g].state # "boxed"
    BY <1>1, Idle
  <2> QED BY <2>1, <1>4, <1>6, <1>10 DEF OwnersCounted
<1> QED BY <1>6, <1>7, <1>8, <1>9, <1>11 DEF OwnershipInv

(* A resource changes, but neither its revision nor who holds it, but for  *)
(* the retains that are exported.                                          *)
LEMMA ResourceChanged ==
    ASSUME OwnershipInv, CanCall, calls' = calls, handles' = handles, snapshots' = snapshots,
           answer' = Nothing, NEW k \in DOMAIN resources, NEW new \in ResourceSet,
           resources' = [resources EXCEPT ![k] = new],
           new.snapshot = resources[k].snapshot, NEW exports \in Nat,
           new.refs = resources[k].refs + exports, resources[k].refs >= 1,
           new.exported = resources[k].exported + exports
    PROVE  OwnershipInv'
<1>1. /\ resources' \in Seq(ResourceSet) /\ DOMAIN resources' = DOMAIN resources
      /\ \A r \in DOMAIN resources : resources'[r] = IF r = k THEN new ELSE resources[r]
  <2>1. resources \in Seq(ResourceSet)
    BY InvFacts
  <2> QED BY <2>1, ReplaceShape
<1>2. CallsOK' /\ AnswerOK'
  BY WaitingKept
<1>3. BoundaryTypes'
  BY <1>1, InvFacts DEF BoundaryTypes
<1>4. \A r \in DOMAIN resources : resources'[r].snapshot = resources[r].snapshot
  BY <1>1
<1>5. HoldersUnique'
  BY <1>1, <1>4, InvFacts DEF HoldersUnique
<1>6. ObjectsOK'
  <2>1. resources[k].refs \in Nat
    BY RetainedBy
  <2>2. new.refs # 0
    BY <2>1
  <2> QED BY <2>2, <1>1, <1>4, InvFacts DEF ObjectsOK
<1>7. OwnersCounted'
  <2>1. ASSUME NEW r \in DOMAIN resources
        PROVE  resources'[r].refs =
                  Cardinality(LiveHandles(r)') + resources'[r].exported + HeldByTop(r)'
    <3>1. LiveHandles(r)' = LiveHandles(r) /\ HeldByTop(r)' = HeldByTop(r)
      BY DEF LiveHandles, HeldByTop, Top
    <3>2. /\ resources[r].refs = Cardinality(LiveHandles(r)) + resources[r].exported + HeldByTop(r)
          /\ resources[r].refs \in Nat /\ resources[r].exported \in Nat
          /\ Cardinality(LiveHandles(r)) \in Nat /\ HeldByTop(r) \in {0, 1}
      BY RetainedBy
    <3> QED BY <3>1, <3>2, <1>1
  <2>2. \A s : Held(s)' <=> Held(s)
    BY <1>1, <1>4 DEF Held
  <2> QED BY <2>1, <2>2, <1>1, InvFacts, Idle DEF OwnersCounted
<1> QED BY <1>2, <1>3, <1>5, <1>6, <1>7 DEF OwnershipInv

(* Exporting through a handle adds a retain and an export.                 *)
LEMMA ResourceOwns ==
    ASSUME OwnershipInv, NEW h \in DOMAIN handles, duallity_wfst_resource(h)
    PROVE  OwnershipInv'
<1>0. PICK k : k = handles[h].resource
  OBVIOUS
<1> DEFINE new == [resources[k] EXCEPT !.refs = @ + 1, !.exported = @ + 1]
<1>1. /\ CanCall /\ handles[h].state = "owned" /\ resources' = Retained(k, 1)
      /\ answer' = Nothing /\ calls' = calls /\ handles' = handles /\ snapshots' = snapshots
  BY <1>0 DEF duallity_wfst_resource
<1>2. k \in DOMAIN resources /\ h \in LiveHandles(k)
  BY <1>0, <1>1, InvFacts DEF ObjectsOK, LiveHandles
<1>3. /\ resources[k].refs \in Nat /\ resources[k].exported \in Nat /\ resources[k].refs >= 1
      /\ resources[k] \in ResourceSet /\ resources \in Seq(ResourceSet)
  <2>1. /\ resources[k].refs = Cardinality(LiveHandles(k)) + resources[k].exported + HeldByTop(k)
        /\ resources[k].refs \in Nat /\ resources[k].exported \in Nat /\ HeldByTop(k) \in {0, 1}
        /\ Cardinality(LiveHandles(k)) >= 1 /\ Cardinality(LiveHandles(k)) \in Nat
    BY <1>2, RetainedBy
  <2> QED BY <2>1, <1>2, InvFacts
<1>4. /\ new \in ResourceSet /\ new.snapshot = resources[k].snapshot
      /\ new.refs = resources[k].refs + 1 /\ new.exported = resources[k].exported + 1
  <2>1. resources[k].refs + 1 \in Nat /\ resources[k].exported + 1 \in Nat
    BY <1>3
  <2> QED BY <2>1, <1>3 DEF ResourceSet
<1>5. resources' = [resources EXCEPT ![k] = new]
  BY <1>1, <1>2, <1>3 DEF Retained, ResourceSet
<1> HIDE DEF new
<1> QED BY <1>1, <1>2, <1>3, <1>4, <1>5, ResourceChanged

(* Setting the cache policy changes no owner.                              *)
LEMMA PolicyOwns ==
    ASSUME OwnershipInv, NEW h \in DOMAIN handles, NEW p \in Policies,
           duallity_wfst_cache_set_policy(h, p)
    PROVE  OwnershipInv'
<1>0. PICK k : k = handles[h].resource
  OBVIOUS
<1> DEFINE options == handles[h].options
           policy == effective(p, IF options = Nothing THEN "Levenshtein" ELSE options.kind)
           new == [resources[k] EXCEPT !.policy = policy]
<1>1. /\ CanCall /\ handles[h].state = "owned" /\ resources' = [resources EXCEPT ![k].policy = policy]
      /\ answer' = Nothing /\ calls' = calls /\ handles' = handles /\ snapshots' = snapshots
  BY <1>0 DEF duallity_wfst_cache_set_policy
<1>2. k \in DOMAIN resources /\ h \in LiveHandles(k)
  BY <1>0, <1>1, InvFacts DEF ObjectsOK, LiveHandles
<1>3. /\ resources[k].refs \in Nat /\ resources[k].exported \in Nat /\ resources[k].refs >= 1
      /\ resources[k] \in ResourceSet /\ resources \in Seq(ResourceSet)
  <2>1. /\ resources[k].refs = Cardinality(LiveHandles(k)) + resources[k].exported + HeldByTop(k)
        /\ resources[k].refs \in Nat /\ resources[k].exported \in Nat /\ HeldByTop(k) \in {0, 1}
        /\ Cardinality(LiveHandles(k)) >= 1 /\ Cardinality(LiveHandles(k)) \in Nat
    BY <1>2, RetainedBy
  <2> QED BY <2>1, <1>2, InvFacts
<1>4. policy \in PolicyValues
  <2>1. handles[h] \in HandleSet
    BY InvFacts
  <2>2. options \in OptionValues
    BY <2>1 DEF HandleSet
  <2> HIDE DEF options
  <2>3. options # Nothing => options.kind \in {c.kind : c \in Constructions}
    BY <2>2 DEF OptionValues, OwnedOptions
  <2>4. \/ policy = effective(p, "Levenshtein")
        \/ \E kind \in {c.kind : c \in Constructions} : policy = effective(p, kind)
    BY <2>3
  <2> HIDE DEF policy
  <2> QED BY <2>4 DEF PolicyValues
<1> HIDE DEF policy
<1>5. /\ new \in ResourceSet /\ new.snapshot = resources[k].snapshot
      /\ new.refs = resources[k].refs + 0 /\ new.exported = resources[k].exported + 0
  <2>1. new \in ResourceSet /\ new.snapshot = resources[k].snapshot
        /\ new.refs = resources[k].refs /\ new.exported = resources[k].exported
    BY <1>3, <1>4 DEF ResourceSet
  <2> HIDE DEF new
  <2> QED BY <2>1, <1>3
<1>6. resources' = [resources EXCEPT ![k] = new]
  BY <1>1
<1> HIDE DEF new
<1> QED BY <1>1, <1>2, <1>3, <1>5, <1>6, ResourceChanged

(* A call that is refused had not written its slot yet.                    *)
LEMMA RefuseOwns ==
    ASSUME OwnershipInv, NEW step \in Refusing, Now(step), Refuse,
           step = "slot" => Top.slot.is = "none"
    PROVE  OwnershipInv'
<1>1. /\ calls # <<>> /\ Top \in CallSet /\ CallOK(Top)
      /\ Program[Top.entry][Top.at] = step
      /\ StepOK(Program[Top.entry], Top.entry, Top.at)
  BY InvFacts, NowFacts
<1>2. /\ \A x \in Writes : ~ Did(Top, x)
      /\ ~ Did(Top, "box")
      /\ Top.entry \notin Legacy \cup Readers /\ step # "slot" => Did(Top, "clear")
  BY <1>1 DEF StepOK, Did, Refusing, Checks
<1>3. /\ Top.slot.is \in {"none", "stale", "null"}
      /\ Did(Top, "clear") => Top.slot.is = "null"
      /\ Top.handle = 0
  BY <1>1, <1>2 DEF CallOK, SlotOK, Writes
<1>4. Top.entry \notin Readers =>
         Top.slot.is \in {"none", "null"} \cup (IF Top.entry \in Legacy THEN {"stale"} ELSE {})
  BY <1>2, <1>3
<1> QED BY <1>1, <1>3, <1>4, ReturnOwns DEF Refuse

(* A call that succeeds has written it.                                    *)
LEMMA DoneOwns ==
    ASSUME OwnershipInv, Done
    PROVE  OwnershipInv'
<1>1. calls # <<>> /\ Top.at > Len(Program[Top.entry]) /\ Return(TRUE)
  BY DEF Done
<1>2. Top \in CallSet /\ CallOK(Top) /\ HoldingsOK(Top)
  BY <1>1, InvFacts, TopIn DEF CallsOK
<1>3. Top.at = Len(Program[Top.entry]) + 1 /\ EndOK(Program[Top.entry], Top.entry)
  BY <1>1, <1>2, CallFields, ProgramFacts DEF CallOK
<1>4. /\ Did(Top, "box") <=> Did(Top, "write")
      /\ Top.entry \notin Readers =>
            Did(Top, "write") \/ Did(Top, "into_raw") \/ Did(Top, "write_ranking")
  BY <1>3 DEF EndOK, Did, Writes
<1>5. /\ Did(Top, "write") => Top.slot = Slot("handle", Top.handle)
      /\ ~ Did(Top, "write") /\ Did(Top, "into_raw") => Top.slot.is = "resource"
      /\ ~ Did(Top, "write") /\ ~ Did(Top, "into_raw") /\ Did(Top, "write_ranking") =>
            Top.slot.is = "ranking"
      /\ ~ Did(Top, "write") => Top.slot.is # "handle"
      /\ Top.handle # 0 <=> Did(Top, "box")
      /\ Did(Top, "into_raw") => Top.resource = 0
  BY <1>2 DEF CallOK, SlotOK
<1>6. Did(Top, "write") => Top.slot.is = "handle" /\ Top.slot.id = Top.handle
  BY <1>5 DEF Slot
<1>7. Did(Top, "into_raw") => Top.slot.id \in DOMAIN resources /\ resources[Top.slot.id].exported > 0
  BY <1>2 DEF HoldingsOK
<1> QED BY <1>1, <1>4, <1>5, <1>6, <1>7, ReturnOwns

(* Nothing is owned at first.                                              *)
LEMMA InitOwns == Init => OwnershipInv
<1> SUFFICES ASSUME Init PROVE OwnershipInv
  OBVIOUS
<1>1. /\ snapshots = <<>> /\ resources = <<>> /\ handles = <<>> /\ calls = <<>> /\ answer = Nothing
  BY DEF Init
<1> QED
  BY <1>1 DEF OwnershipInv, BoundaryTypes, CallsOK, HoldersUnique, ObjectsOK, OwnersCounted, AnswerOK,
    SlotsTruthful

(* A step of the innermost call that changes none of its fields.           *)
LEMMA PlainGo ==
    ASSUME OwnershipInv, NEW step, Now(step), Go(Top), UNCHANGED objects,
           step \notin {"export", "box", "into_raw", "clear"} \cup Reading \cup Writes
    PROVE  OwnershipInv'
<1>1. Top \in CallSet
  BY InvFacts, NowFacts
<1> QED BY <1>1, QuietGo

(* Reading the arguments, accepted or refused.                             *)
LEMMA SettleOwns ==
    ASSUME OwnershipInv, NEW step \in Reading, Now(step), NEW accepted \in BOOLEAN,
           NEW construction \in Constructions, Settle(accepted, construction)
    PROVE  OwnershipInv'
<1>1. Top \in CallSet
  BY InvFacts, NowFacts
<1>2. CASE accepted
  <2> DEFINE c == [Top EXCEPT !.construction = construction]
  <2>1. Go(c) /\ UNCHANGED objects
    BY <1>2 DEF Settle
  <2>2. /\ c \in CallSet /\ c.entry = Top.entry /\ c.at = Top.at /\ c.slot = Top.slot
        /\ c.construction = construction /\ c.snapshot = Top.snapshot
        /\ c.resource = Top.resource /\ c.handle = Top.handle
    BY <1>1 DEF CallSet
  <2> HIDE DEF c
  <2>3. step \notin {"export", "box", "into_raw", "clear"} \cup Writes
    BY DEF Reading, Writes
  <2> QED BY <2>1, <2>2, <2>3, QuietGo
<1>3. CASE ~ accepted
  <2>1. Refuse /\ step \in Refusing /\ step # "slot"
    BY <1>3 DEF Settle, Refusing, Reading
  <2> QED BY <2>1, RefuseOwns
<1> QED BY <1>2, <1>3

(* The slot is written or cleared.                                         *)
LEMMA SlotOwns ==
    ASSUME OwnershipInv, NEW step, Now(step), NEW slot \in SlotSet,
           Go([Top EXCEPT !.slot = slot]), UNCHANGED objects,
           \/ step = "clear" /\ slot.is = "null"
           \/ step = "write" /\ slot = Slot("handle", Top.handle)
           \/ step = "write_ranking" /\ slot.is = "ranking"
    PROVE  OwnershipInv'
<1> DEFINE c == [Top EXCEPT !.slot = slot]
<1>1. Top \in CallSet
  BY InvFacts, NowFacts
<1>2. /\ c \in CallSet /\ c.entry = Top.entry /\ c.at = Top.at /\ c.slot = slot
      /\ c.construction = Top.construction /\ c.snapshot = Top.snapshot
      /\ c.resource = Top.resource /\ c.handle = Top.handle
  BY <1>1 DEF CallSet
<1>3. Go(c)
  OBVIOUS
<1> HIDE DEF c
<1>4. step \notin {"export", "box", "into_raw"} \cup Reading
  BY DEF Reading
<1> QED BY <1>2, <1>3, <1>4, QuietGo

(* Every step keeps ownership exact.                                       *)
LEMMA NextOwns ==
    ASSUME OwnershipInv, Len(frames) \in Nat, [Next]_vars
    PROVE  OwnershipInv'
<1>1. ASSUME NEW entry \in Constructors, Construct(entry) PROVE OwnershipInv'
  <2>1. PICK is \in {"none", "stale"} : Begin(entry, Slot(is, 0), 0)
    BY <1>1 DEF Construct
  <2> QED BY <2>1, BeginOwns DEF Constructors
<1>2. ASSUME NEW r \in DOMAIN resources, ReadState(r) PROVE OwnershipInv'
  <2>1. PICK entry \in Readers : Begin(entry, Slot("none", 0), r)
    BY <1>2 DEF ReadState, Readers
  <2>2. entry \in DOMAIN Program
    BY DEF Readers, Program
  <2>3. r \in Nat
    BY InvFacts
  <2> QED BY <2>1, <2>2, <2>3, BeginOwns
<1>3. ASSUME NEW r \in DOMAIN resources, duallity_resource_release(r) PROVE OwnershipInv'
  BY <1>3, ReleaseOwns
<1>4. CASE Pass
  <2>1. PICK step \in Checks : Now(step)
    BY <1>4 DEF Pass
  <2>2. Go(Top) /\ UNCHANGED objects
    BY <1>4 DEF Pass
  <2>3. step \notin {"export", "box", "into_raw", "clear"} \cup Reading \cup Writes
    BY DEF Checks, Reading, Writes
  <2> QED BY <2>1, <2>2, <2>3, PlainGo
<1>5. CASE RefuseCheck
  <2>1. PICK step \in Checks \cup {"snapshot"} : Now(step)
    BY <1>5 DEF RefuseCheck
  <2>2. Refuse /\ step \in Refusing /\ step # "slot"
    BY <1>5 DEF RefuseCheck, Refusing, Checks
  <2> QED BY <2>1, <2>2, RefuseOwns
<1>6. CASE output
  <2>1. CASE Top.slot.is = "none"
    BY <1>6, <2>1, RefuseOwns DEF output, Refusing
  <2>2. CASE Top.slot.is # "none"
    BY <1>6, <2>2, PlainGo DEF output, Reading, Writes
  <2> QED BY <2>1, <2>2
<1>7. CASE owned_output
  <2>1. Slot("null", 0) \in SlotSet /\ Slot("null", 0).is = "null"
    BY DEF Slot, SlotSet
  <2>2. Now("clear") /\ Go([Top EXCEPT !.slot = Slot("null", 0)]) /\ UNCHANGED objects
    BY <1>7 DEF owned_output
  <2> QED BY <2>1, <2>2, SlotOwns
<1>8. CASE ReadSelectors
  <2>1. PICK raw \in Requests : Settle(legacy_accepts(raw), create_wfst(raw))
    BY <1>8 DEF ReadSelectors
  <2>2. create_wfst(raw) \in Constructions /\ legacy_accepts(raw) \in BOOLEAN
    BY DEF Constructions, legacy_accepts
  <2>3. Now("selectors") /\ "selectors" \in Reading
    BY <1>8 DEF ReadSelectors, Reading
  <2> QED BY <2>1, <2>2, <2>3, SettleOwns
<1>9. CASE ReadOptions
  <2>1. PICK raw \in Requests : Settle(parse_options(raw), into_construction(raw))
    BY <1>9 DEF ReadOptions
  <2>2. into_construction(raw) \in Constructions /\ parse_options(raw) \in BOOLEAN
    BY DEF Constructions, parse_options
  <2>3. Now("parse") /\ "parse" \in Reading
    BY <1>9 DEF ReadOptions, Reading
  <2> QED BY <2>1, <2>2, <2>3, SettleOwns
<1>10. CASE ReadFzf
  <2>1. PICK raw \in FzfRequests :
           Settle(cache_policy(raw.selector, raw.capacity), fzf_construction(raw))
    BY <1>10 DEF ReadFzf
  <2>2. /\ fzf_construction(raw) \in Constructions
        /\ cache_policy(raw.selector, raw.capacity) \in BOOLEAN
    BY DEF Constructions, cache_policy
  <2>3. Now("fzf") /\ "fzf" \in Reading
    BY <1>10 DEF ReadFzf, Reading
  <2> QED BY <2>1, <2>2, <2>3, SettleOwns
<1>11. CASE ReadPolicy
  <2>1. PICK p \in Policies, kind \in {"WallBreaker", "Phonetic"} :
           Settle(cache_policy(p.selector, p.capacity), PolicyConstruction(p, kind))
    BY <1>11 DEF ReadPolicy, PolicyConstruction
  <2>2. /\ PolicyConstruction(p, kind) \in Constructions
        /\ cache_policy(p.selector, p.capacity) \in BOOLEAN
    BY DEF Constructions, cache_policy
  <2>3. Now("policy") /\ "policy" \in Reading
    BY <1>11 DEF ReadPolicy, Reading
  <2> QED BY <2>1, <2>2, <2>3, SettleOwns
<1>12. CASE CaptureSnapshot
  BY <1>12, CaptureOwns
<1>13. CASE OpenScope
  BY <1>13, PlainGo DEF OpenScope, Reading, Writes
<1>14. CASE OpenComputation
  BY <1>14, PlainGo DEF OpenComputation, Reading, Writes
<1>15. CASE CloseComputation
  BY <1>15, PlainGo DEF CloseComputation, Reading, Writes
<1>16. CASE Build
  <2>1. CASE Go(Top) /\ UNCHANGED objects
    BY <1>16, <2>1, PlainGo DEF Build, Reading, Writes
  <2>2. CASE Refuse
    BY <1>16, <2>2, RefuseOwns DEF Build, Refusing
  <2> QED BY <1>16, <2>1, <2>2 DEF Build
<1>17. CASE Walked
  BY <1>17, PlainGo DEF Walked, Reading, Writes
<1>18. CASE CheckScope
  <2>1. CASE Go(Top) /\ UNCHANGED objects
    BY <1>18, <2>1, PlainGo DEF CheckScope, Reading, Writes
  <2>2. CASE Refuse
    BY <1>18, <2>2, RefuseOwns DEF CheckScope, Refusing
  <2> QED BY <1>18, <2>1, <2>2 DEF CheckScope
<1>19. CASE Export
  BY <1>19, ExportOwns
<1>20. CASE BoxHandle
  BY <1>20, BoxOwns
<1>21. CASE WriteHandle
  <2>1. Now("write") /\ Go([Top EXCEPT !.slot = Slot("handle", Top.handle)]) /\ UNCHANGED objects
    BY <1>21 DEF WriteHandle
  <2>2. Top.handle \in Nat
    BY <2>1, InvFacts, NowFacts, CallFields
  <2>3. Slot("handle", Top.handle) \in SlotSet
    BY <2>2 DEF Slot, SlotSet
  <2> QED BY <2>1, <2>3, SlotOwns
<1>22. CASE WriteRanking
  <2>1. Slot("ranking", 0) \in SlotSet /\ Slot("ranking", 0).is = "ranking"
    BY DEF Slot, SlotSet
  <2>2. Now("write_ranking") /\ Go([Top EXCEPT !.slot = Slot("ranking", 0)]) /\ UNCHANGED objects
    BY <1>22 DEF WriteRanking
  <2> QED BY <2>1, <2>2, SlotOwns
<1>23. CASE IntoRaw
  BY <1>23, IntoRawOwns
<1>24. CASE Done
  BY <1>24, DoneOwns
<1>25. ASSUME NEW h \in DOMAIN handles, duallity_wfst_free(h) PROVE OwnershipInv'
  BY <1>25, FreeOwns
<1>26. ASSUME NEW h \in DOMAIN handles, duallity_wfst_resource(h) PROVE OwnershipInv'
  BY <1>26, ResourceOwns
<1>27. ASSUME NEW h \in DOMAIN handles, NEW p \in Policies, duallity_wfst_cache_set_policy(h, p)
       PROVE  OwnershipInv'
  BY <1>27, PolicyOwns
<1>28. ASSUME UNCHANGED <<objects, calls, answer>> PROVE OwnershipInv'
  <2>1. /\ snapshots' = snapshots /\ resources' = resources /\ handles' = handles
        /\ calls' = calls /\ answer' = answer
    BY <1>28 DEF objects
  <2>2. /\ \A i \in DOMAIN calls : HoldingsOK(calls[i])' <=> HoldingsOK(calls[i])
        /\ \A r : LiveHandles(r)' = LiveHandles(r) /\ HeldByTop(r)' = HeldByTop(r)
        /\ \A s : Held(s)' <=> Held(s)
    BY <2>1 DEF HoldingsOK, Did, LiveHandles, HeldByTop, Held, Top
  <2>3. BoundaryTypes' /\ HoldersUnique' /\ ObjectsOK' /\ AnswerOK'
    BY <2>1, InvFacts DEF BoundaryTypes, HoldersUnique, ObjectsOK, AnswerOK, SlotsTruthful
  <2>4. CallsOK'
    BY <2>1, <2>2, InvFacts DEF CallsOK, CallOK, SlotOK, Did, Waiting, AtStep
  <2>5. OwnersCounted'
    BY <2>1, <2>2, InvFacts DEF OwnersCounted, Top
  <2> QED BY <2>3, <2>4, <2>5 DEF OwnershipInv
<1>29. ASSUME NEW status \in Statuses, CallbackFails(status) PROVE OwnershipInv'
  BY <1>28, <1>29 DEF CallbackFails
<1>30. ASSUME NEW s \in DOMAIN snapshots, UncheckedUse(s) PROVE OwnershipInv'
  BY <1>28, <1>30 DEF UncheckedUse
<1>31. CASE UNCHANGED vars
  BY <1>28, <1>31 DEF vars, objects
<1> QED
  BY <1>1, <1>2, <1>3, <1>4, <1>5, <1>6, <1>7, <1>8, <1>9, <1>10, <1>11, <1>12, <1>13, <1>14, <1>15,
     <1>16, <1>17, <1>18, <1>19, <1>20, <1>21, <1>22, <1>23, <1>24, <1>25, <1>26, <1>27, <1>29, <1>30,
     <1>31 DEF Next

----------------------------------------------------------------------------
(* Diagnostics.  What concerns a scope, stated of any assignment of        *)
(* boundaries to cells.                                                    *)

ConcernsIn(watched, failure, cell) ==
    LET At == {i \in DOMAIN failure.open : failure.open[i] = cell}
        inside == {watched[failure.open[j]] :
                      j \in {k \in DOMAIN failure.open : \A i \in At : i < k}}
        computations == {j \in DOMAIN failure.open :
                            (\A i \in At : i < j) /\ watched[failure.open[j]] = Computation}
    IN  /\ At # {}
        /\ failure.provider \notin inside
        /\ \/ watched[cell] = Computation /\ computations = {}
           \/ watched[cell] = failure.provider /\ \A j, k \in computations : j = k

Earliest(indexes) == CHOOSE n \in indexes : \A m \in indexes : n <= m

Concerning(watched, failed, cell) == {n \in DOMAIN failed : ConcernsIn(watched, failed[n], cell)}

AttributedIn(watched, failed, cells) ==
    \A c \in DOMAIN cells :
        cells[c] = IF Concerning(watched, failed, c) = {} THEN NoFault
                   ELSE failed[Earliest(Concerning(watched, failed, c))].status

FailureSet == [provider : Nat, status : Statuses, open : Seq(Nat)]

(* FaultsAttributed, of the present boundaries...                          *)
LEMMA AttributedHere == FaultsAttributed <=> AttributedIn(boundary, failures, fault)
<1>1. \A f, c : Concerns(f, c) = ConcernsIn(boundary, f, c)
  BY DEF ConcernsIn, Concerns
<1> QED BY <1>1 DEF FaultsAttributed, AttributedIn, Concerning, Earliest

(* ... and of the next ones.                                               *)
LEMMA AttributedNext == FaultsAttributed' <=> AttributedIn(boundary', failures', fault')
<1>1. ASSUME NEW f, NEW c PROVE Concerns(f, c)' = ConcernsIn(boundary', f, c)
  BY DEF ConcernsIn, Concerns
<1> QED BY <1>1 DEF FaultsAttributed, AttributedIn, Concerning, Earliest

(* A least member is the earliest...                                       *)
LEMMA EarliestIs ==
    ASSUME NEW S, S \subseteq Nat, NEW n \in S, \A m \in S : n <= m
    PROVE  Earliest(S) = n
<1>1. /\ Earliest(S) \in S /\ \A m \in S : Earliest(S) <= m
  BY DEF Earliest
<1>2. Earliest(S) <= n /\ n <= Earliest(S) /\ Earliest(S) \in Nat /\ n \in Nat
  BY <1>1
<1> QED BY <1>2

(* ... and there is one in every set of positions.                         *)
LEMMA EarliestOf ==
    ASSUME NEW S, S \subseteq Nat, S # {}
    PROVE  Earliest(S) \in S /\ \A m \in S : Earliest(S) <= m
<1>1. PICK n \in S : \A m \in S : n <= m
  BY LeastElement
<1> QED BY <1>1 DEF Earliest

(* What concerns the scope at a position of the open ones.                 *)
Reaches(watched, provider, open, i) ==
    /\ \A j \in DOMAIN open : j > i => watched[open[j]] # provider
    /\ \/ /\ watched[open[i]] = Computation
          /\ \A j \in DOMAIN open : j > i => watched[open[j]] # Computation
       \/ /\ watched[open[i]] = provider
          /\ \A j, k \in DOMAIN open :
                (/\ j > i /\ watched[open[j]] = Computation
                 /\ k > i /\ watched[open[k]] = Computation) => j = k

(* ConcernsIn by position: a cell is open at most once.                    *)
LEMMA ConcernsAt ==
    ASSUME NEW watched, NEW f, NEW open \in Seq(Nat), f.open = open,
           \A i, j \in DOMAIN open : i < j => open[i] < open[j],
           NEW i \in DOMAIN open
    PROVE  ConcernsIn(watched, f, open[i]) <=> Reaches(watched, f.provider, open, i)
<1> DEFINE cell == open[i]
           At == {k \in DOMAIN open : open[k] = cell}
           inside == {watched[open[j]] : j \in {k \in DOMAIN open : \A h \in At : h < k}}
           computations == {j \in DOMAIN open :
                               (\A h \in At : h < j) /\ watched[open[j]] = Computation}
<1>1. DOMAIN open = 1 .. Len(open) /\ Len(open) \in Nat /\ \A k \in DOMAIN open : open[k] \in Nat
  OBVIOUS
<1>2. ASSUME NEW k \in DOMAIN open, open[k] = open[i] PROVE k = i
  <2>1. ~ (k < i) /\ ~ (i < k)
    BY <1>1, <1>2
  <2> QED BY <1>1, <2>1
<1>3. At = {i}
  BY <1>2
<1>4. \A j \in DOMAIN open : (\A h \in At : h < j) <=> j > i
  BY <1>1, <1>3
<1>5. f.provider \notin inside <=> \A j \in DOMAIN open : j > i => watched[open[j]] # f.provider
  BY <1>4
<1>6. \A j : j \in computations <=> j \in DOMAIN open /\ j > i /\ watched[open[j]] = Computation
  BY <1>4
<1>8. ConcernsIn(watched, f, cell) <=>
         /\ At # {}
         /\ f.provider \notin inside
         /\ \/ watched[cell] = Computation /\ computations = {}
            \/ watched[cell] = f.provider /\ \A j, k \in computations : j = k
  BY DEF ConcernsIn
<1> HIDE DEF computations, inside
<1>9. computations = {} <=> \A j \in DOMAIN open : j > i => watched[open[j]] # Computation
  BY <1>6
<1>10. (\A j, k \in computations : j = k) <=>
          \A j, k \in DOMAIN open :
             (/\ j > i /\ watched[open[j]] = Computation
              /\ k > i /\ watched[open[k]] = Computation) => j = k
  BY <1>6
<1> QED BY <1>3, <1>5, <1>8, <1>9, <1>10 DEF Reaches

(* A failure concerns no scope that was not open.                          *)
LEMMA ConcernsOpen ==
    ASSUME NEW watched, NEW f, NEW c, ConcernsIn(watched, f, c)
    PROVE  \E i \in DOMAIN f.open : f.open[i] = c
BY DEF ConcernsIn

(* What concerns a scope is settled when the call fails: cells that are    *)
(* opened later do not matter.                                             *)
LEMMA ConcernsKept ==
    ASSUME NEW watched, NEW more, NEW f \in FailureSet,
           \A i \in DOMAIN f.open : more[f.open[i]] = watched[f.open[i]],
           \A i, j \in DOMAIN f.open : i < j => f.open[i] < f.open[j], NEW c
    PROVE  ConcernsIn(more, f, c) <=> ConcernsIn(watched, f, c)
<1>1. f.open \in Seq(Nat)
  BY DEF FailureSet
<1>2. CASE \E i \in DOMAIN f.open : f.open[i] = c
  <2> DEFINE open == f.open
  <2>1. PICK i \in DOMAIN open : open[i] = c
    BY <1>2
  <2>2. /\ open \in Seq(Nat) /\ f.open = open
        /\ \A k \in DOMAIN open : more[open[k]] = watched[open[k]]
        /\ \A k, j \in DOMAIN open : k < j => open[k] < open[j]
    BY <1>1
  <2> HIDE DEF open
  <2>3. ConcernsIn(watched, f, open[i]) <=> Reaches(watched, f.provider, open, i)
    BY <2>2, ConcernsAt
  <2>4. ConcernsIn(more, f, open[i]) <=> Reaches(more, f.provider, open, i)
    BY <2>2, ConcernsAt
  <2>5. Reaches(more, f.provider, open, i) <=> Reaches(watched, f.provider, open, i)
    BY <2>2, SMTT(30) DEF Reaches
  <2> QED BY <2>1, <2>3, <2>4, <2>5
<1>3. CASE ~ \E i \in DOMAIN f.open : f.open[i] = c
  BY <1>3, ConcernsOpen
<1> QED BY <1>2, <1>3

(* A greatest member is the innermost...                                   *)
LEMMA InnermostIs ==
    ASSUME NEW S, S \subseteq Nat, NEW n \in S, \A m \in S : m <= n
    PROVE  Innermost(S) = n
<1>1. /\ Innermost(S) \in S /\ \A m \in S : m <= Innermost(S)
  BY DEF Innermost
<1>2. Innermost(S) <= n /\ n <= Innermost(S) /\ Innermost(S) \in Nat /\ n \in Nat
  BY <1>1
<1> QED BY <1>2

(* ... and there is one among finitely many.                               *)
LEMMA InnermostIn ==
    ASSUME NEW top \in Nat, NEW S, S \subseteq 1 .. top, S # {}
    PROVE  Innermost(S) \in S /\ \A m \in S : m <= Innermost(S)
<1>0. S \subseteq 0 .. top
  OBVIOUS
<1>1. PICK n \in S : \A m \in S : m <= n
  BY <1>0, GreatestElement
<1> QED BY <1>1 DEF Innermost

(* The search for the scopes to tell finds those that the failure          *)
(* concerns.                                                               *)
LEMMA SinksConcerned ==
    ASSUME frames \in Seq(Nat), NEW provider \in Nat, Takers(provider) # {},
           NEW i \in DOMAIN frames
    PROVE  Reaches(boundary, provider, frames, i) <=> i \in Sinks(provider)
<1> DEFINE w(j) == boundary[frames[j]]
           index == Innermost(Takers(provider))
           outer == {j \in 1 .. index - 1 : w(j) \in {Computation, provider}}
<1>1. Len(frames) \in Nat /\ DOMAIN frames = 1 .. Len(frames)
  OBVIOUS
<1>2. Takers(provider) \subseteq 1 .. Len(frames)
  BY <1>1 DEF Takers
<1>3. index \in Takers(provider) /\ \A m \in Takers(provider) : m <= index
  BY <1>1, <1>2, InnermostIn
<1>4. /\ index \in 1 .. Len(frames) /\ w(index) \in {Computation, provider}
      /\ \A j \in 1 .. Len(frames) : j > index => w(j) \notin {Computation, provider}
  <2>1. index \in 1 .. Len(frames) /\ w(index) \in {Computation, provider}
    BY <1>1, <1>3 DEF Takers
  <2> HIDE DEF index
  <2>2. ASSUME NEW j \in 1 .. Len(frames), j > index, w(j) \in {Computation, provider} PROVE FALSE
    <3>1. j \in Takers(provider)
      BY <1>1, <2>2 DEF Takers
    <3>2. j <= index
      BY <1>3, <3>1
    <3> QED BY <2>1, <2>2, <3>2
  <2> QED BY <2>1, <2>2
<1>5. Computation # provider
  BY FaultAssumption
<1>6. i \in Sinks(provider) <=>
         i = index \/ (w(index) = Computation /\ outer # {} /\ w(Innermost(outer)) = provider /\ i = Innermost(outer))
  <2>1. Enclosing(provider, index) =
           IF outer # {} /\ w(Innermost(outer)) = provider THEN {Innermost(outer)} ELSE {}
    BY DEF Enclosing
  <2>2. Sinks(provider) = {index} \cup (IF w(index) = Computation THEN Enclosing(provider, index) ELSE {})
    BY DEF Sinks
  <2> HIDE DEF index, outer, w
  <2> QED BY <2>1, <2>2
<1>7. Reaches(boundary, provider, frames, i) <=>
        /\ \A j \in 1 .. Len(frames) : j > i => w(j) # provider
        /\ \/ /\ w(i) = Computation
              /\ \A j \in 1 .. Len(frames) : j > i => w(j) # Computation
           \/ /\ w(i) = provider
              /\ \A j, k \in 1 .. Len(frames) :
                    (j > i /\ w(j) = Computation /\ k > i /\ w(k) = Computation) => j = k
  BY <1>1 DEF Reaches
<1>8. /\ outer \subseteq Nat
      /\ outer # {} => Innermost(outer) \in outer /\ \A m \in outer : m <= Innermost(outer)
  <2>1. index - 1 \in Nat /\ outer \subseteq 1 .. index - 1
    BY <1>1, <1>4
  <2> HIDE DEF index, outer, w
  <2>2. outer # {} => Innermost(outer) \in outer /\ \A m \in outer : m <= Innermost(outer)
    BY <2>1, InnermostIn
  <2> QED BY <2>1, <2>2
<1>9. i \in 1 .. Len(frames)
  BY <1>1
<1>10. \A j : j \in outer <=> j \in 1 .. index - 1 /\ w(j) \in {Computation, provider}
  OBVIOUS
<1> HIDE DEF w, index, outer
<1>11. CASE i >= index
  <2>1. CASE i = index
    <3>1. \A j \in 1 .. Len(frames) : j > i => w(j) # provider /\ w(j) # Computation
      BY <1>4, <2>1
    <3> QED BY <1>4, <1>6, <1>7, <2>1, <3>1
  <2>2. CASE i # index
    <3>1. w(i) # Computation /\ w(i) # provider
      BY <1>1, <1>4, <1>9, <1>11, <2>2
    <3>2. ~ (outer # {} /\ i = Innermost(outer))
      BY <1>8, <1>10, <3>1
    <3> QED BY <1>6, <1>7, <2>2, <3>1, <3>2
  <2> QED BY <2>1, <2>2
<1>12. CASE i < index /\ w(index) = provider
  BY <1>1, <1>4, <1>5, <1>6, <1>7, <1>12
<1>13. CASE i < index /\ w(index) = Computation
  <2>1. ASSUME Reaches(boundary, provider, frames, i) PROVE i \in Sinks(provider)
    <3>1. /\ w(i) = provider /\ \A j \in 1 .. Len(frames) : j > i => w(j) # provider
          /\ \A j \in 1 .. Len(frames) : j > i /\ w(j) = Computation => j = index
      BY <1>1, <1>4, <1>7, <1>9, <1>13, <2>1
    <3>2. i \in outer
      BY <1>1, <1>4, <1>9, <1>10, <1>13, <3>1
    <3>3. ASSUME NEW m \in outer PROVE m <= i
      <4>1. m \in 1 .. Len(frames) /\ m < index /\ w(m) \in {Computation, provider}
        BY <1>1, <1>4, <1>10
      <4> QED BY <1>1, <1>4, <1>9, <3>1, <4>1
    <3>4. Innermost(outer) = i
      BY <1>8, <3>2, <3>3, InnermostIs
    <3> QED BY <1>6, <1>13, <3>1, <3>2, <3>4
  <2>2. ASSUME i \in Sinks(provider) PROVE Reaches(boundary, provider, frames, i)
    <3>1. outer # {} /\ w(i) = provider /\ i = Innermost(outer)
      BY <1>1, <1>4, <1>6, <1>9, <1>13, <2>2
    <3>2. ASSUME NEW j \in 1 .. Len(frames), j > i PROVE w(j) # provider /\ (w(j) = Computation => j = index)
      <4>1. CASE j < index
        <5>1. j \notin outer
          BY <1>1, <1>8, <1>9, <3>1, <3>2
        <5>2. j \in 1 .. index - 1
          BY <1>1, <1>4, <4>1
        <5> QED BY <1>10, <5>1, <5>2
      <4>2. CASE j = index
        BY <1>5, <1>13, <4>2
      <4>3. CASE j > index
        BY <1>4, <4>3
      <4> QED BY <1>1, <1>4, <4>1, <4>2, <4>3
    <3> QED BY <1>7, <3>1, <3>2
  <2> QED BY <2>1, <2>2
<1> QED BY <1>1, <1>4, <1>9, <1>11, <1>12, <1>13

(* Only open scopes are told.                                              *)
LEMMA SinksOpen ==
    ASSUME frames \in Seq(Nat), NEW provider, Takers(provider) # {}
    PROVE  Sinks(provider) \subseteq DOMAIN frames
<1> DEFINE index == Innermost(Takers(provider))
           outer == {i \in 1 .. index - 1 : boundary[frames[i]] \in {Computation, provider}}
<1>1. Len(frames) \in Nat /\ DOMAIN frames = 1 .. Len(frames) /\ Takers(provider) \subseteq 1 .. Len(frames)
  BY DEF Takers
<1>2. index \in 1 .. Len(frames)
  BY <1>1, InnermostIn
<1>3. outer # {} => Innermost(outer) \in 1 .. Len(frames)
  <2>1. index - 1 \in Nat /\ outer \subseteq 1 .. index - 1
    BY <1>1, <1>2
  <2> HIDE DEF outer, index
  <2>2. outer # {} => Innermost(outer) \in outer
    BY <2>1, InnermostIn
  <2>3. 1 .. index - 1 \subseteq 1 .. Len(frames)
    BY <1>1, <1>2
  <2> QED BY <2>1, <2>2, <2>3
<1>4. Enclosing(provider, index) \subseteq 1 .. Len(frames)
  BY <1>3 DEF Enclosing
<1> HIDE DEF index
<1>5. Sinks(provider) \subseteq {index} \cup Enclosing(provider, index)
  BY DEF Sinks, index
<1> QED BY <1>1, <1>2, <1>4, <1>5

(* The invariant's parts and the domains of the sequences.                 *)
LEMMA FaultFacts ==
    ASSUME FaultInv
    PROVE  /\ frames \in Seq(Nat) /\ Len(frames) \in Nat /\ DOMAIN frames = 1 .. Len(frames)
           /\ boundary \in Seq(Nat \cup {Computation}) /\ DOMAIN boundary = DOMAIN fault
           /\ fault \in Seq(Statuses \cup {NoFault})
           /\ Len(fault) \in Nat /\ DOMAIN fault = 1 .. Len(fault) /\ Len(boundary) = Len(fault)
           /\ failures \in Seq(FailureSet)
           /\ Len(failures) \in Nat /\ DOMAIN failures = 1 .. Len(failures)
           /\ OpenOK(frames)
           /\ \A n \in DOMAIN failures : failures[n] \in FailureSet /\ OpenOK(failures[n].open)
           /\ AttributedIn(boundary, failures, fault)
<1>1. /\ frames \in Seq(Nat) /\ boundary \in Seq(Nat \cup {Computation})
      /\ fault \in Seq(Statuses \cup {NoFault}) /\ failures \in Seq(FailureSet)
      /\ Len(boundary) = Len(fault)
  BY DEF FaultInv, FaultTypes, FailureSet
<1>2. /\ Len(frames) \in Nat /\ DOMAIN frames = 1 .. Len(frames)
      /\ Len(fault) \in Nat /\ DOMAIN fault = 1 .. Len(fault) /\ DOMAIN boundary = DOMAIN fault
      /\ Len(failures) \in Nat /\ DOMAIN failures = 1 .. Len(failures)
      /\ \A n \in DOMAIN failures : failures[n] \in FailureSet
  BY <1>1
<1>3. AttributedIn(boundary, failures, fault)
  BY AttributedHere DEF FaultInv
<1> QED BY <1>1, <1>2, <1>3 DEF FaultInv

(* The parts of the invariant of the next state.                           *)
LEMMA FaultParts ==
    ASSUME frames' \in Seq(Nat), boundary' \in Seq(Nat \cup {Computation}),
           fault' \in Seq(Statuses \cup {NoFault}), failures' \in Seq(FailureSet),
           Len(boundary') = Len(fault'), OpenOK(frames)',
           \A n \in DOMAIN failures' : OpenOK(failures[n].open)',
           AttributedIn(boundary', failures', fault')
    PROVE  FaultInv'
<1>1. FaultTypes'
  BY DEF FaultTypes, FailureSet
<1>2. FaultsAttributed'
  BY AttributedNext
<1> QED BY <1>1, <1>2 DEF FaultInv

(* A step that leaves the scopes alone keeps the invariant.                *)
LEMMA FaultSame ==
    ASSUME FaultInv, UNCHANGED faultVars
    PROVE  FaultInv'
<1>1. frames' = frames /\ boundary' = boundary /\ fault' = fault /\ failures' = failures
  BY DEF faultVars
<1> QED BY <1>1, FaultFacts, FaultParts DEF OpenOK

(* So does forgetting everything when the outermost call returns.          *)
LEMMA ClearKeeps ==
    ASSUME frames' = <<>>, boundary' = <<>>, fault' = <<>>, failures' = <<>>
    PROVE  FaultInv'
<1>1. OpenOK(frames)' /\ \A n \in DOMAIN failures' : OpenOK(failures[n].open)'
  BY DEF OpenOK
<1>2. AttributedIn(boundary', failures', fault')
  BY DEF AttributedIn
<1> QED BY <1>1, <1>2, FaultParts

(* So does closing the innermost scopes: the history does not change.      *)
LEMMA PrefixKeeps ==
    ASSUME FaultInv, NEW b \in Nat, b <= Len(frames), frames' = SubSeq(frames, 1, b),
           UNCHANGED <<boundary, fault, failures>>
    PROVE  FaultInv' /\ Len(frames') = b
<1>1. /\ frames' \in Seq(Nat) /\ Len(frames') = b /\ DOMAIN frames' = 1 .. b
      /\ \A i \in 1 .. b : frames'[i] = frames[i] /\ i \in DOMAIN frames
  BY FaultFacts
<1>2. OpenOK(frames)'
  BY <1>1, FaultFacts DEF OpenOK
<1>3. boundary' = boundary /\ fault' = fault /\ failures' = failures
  OBVIOUS
<1>4. \A n \in DOMAIN failures' : OpenOK(failures[n].open)'
  BY <1>3, FaultFacts DEF OpenOK
<1> QED BY <1>1, <1>2, <1>3, <1>4, FaultFacts, FaultParts

(* So does opening one: no earlier failure concerns the fresh cell.        *)
LEMMA PushKeeps ==
    ASSUME FaultInv, NEW b \in Nat \cup {Computation}, push(b)
    PROVE  FaultInv' /\ Len(frames') = Len(frames) + 1
<1>1. PICK c : c = Len(fault) + 1
  OBVIOUS
<1>2. /\ frames' = Append(frames, c) /\ boundary' = Append(boundary, b)
      /\ fault' = Append(fault, NoFault) /\ failures' = failures
  BY <1>1 DEF push
<1>3. c \in Nat /\ c \notin DOMAIN fault /\ \A d \in DOMAIN fault : d < c /\ d # c
  BY <1>1, FaultFacts
<1>4. /\ frames' \in Seq(Nat) /\ Len(frames') = Len(frames) + 1
      /\ DOMAIN frames' = 1 .. Len(frames) + 1
      /\ \A i \in DOMAIN frames : frames'[i] = frames[i]
      /\ frames'[Len(frames) + 1] = c
  BY <1>2, <1>3, FaultFacts, AppendShape
<1>5. /\ boundary' \in Seq(Nat \cup {Computation}) /\ Len(boundary') = c
      /\ \A d \in DOMAIN fault : boundary'[d] = boundary[d]
  BY <1>1, <1>2, FaultFacts, AppendShape
<1>6. /\ fault' \in Seq(Statuses \cup {NoFault}) /\ Len(fault') = c
      /\ DOMAIN fault' = 1 .. c /\ DOMAIN fault' = DOMAIN fault \cup {c}
      /\ \A d \in DOMAIN fault : fault'[d] = fault[d]
      /\ fault'[c] = NoFault
  <2>1. NoFault \in Statuses \cup {NoFault}
    OBVIOUS
  <2>2. /\ fault' \in Seq(Statuses \cup {NoFault}) /\ Len(fault') = c
        /\ DOMAIN fault' = 1 .. c
        /\ \A d \in DOMAIN fault : fault'[d] = fault[d]
        /\ fault'[c] = NoFault
    BY <1>1, <1>2, <2>1, FaultFacts, AppendShape
  <2>3. 1 .. c = 1 .. Len(fault) \cup {c}
    BY <1>1, FaultFacts
  <2> QED BY <2>2, <2>3, FaultFacts
<1>7. OpenOK(frames)'
  <2>1. ASSUME NEW i \in DOMAIN frames' PROVE frames'[i] \in DOMAIN fault'
    <3>1. i \in DOMAIN frames \/ i = Len(frames) + 1
      BY <1>4, FaultFacts
    <3>2. i \in DOMAIN frames => frames[i] \in DOMAIN fault
      BY FaultFacts DEF OpenOK
    <3> QED BY <1>4, <1>6, <3>1, <3>2
  <2>2. ASSUME NEW i \in DOMAIN frames', NEW j \in DOMAIN frames', i < j PROVE frames'[i] < frames'[j]
    <3>1. i \in DOMAIN frames /\ frames'[i] = frames[i]
      BY <1>4, <2>2, FaultFacts
    <3>2. CASE j \in DOMAIN frames
      BY <1>4, <2>2, <3>1, <3>2, FaultFacts DEF OpenOK
    <3>3. CASE j \notin DOMAIN frames
      <4>1. j = Len(frames) + 1
        BY <1>4, <3>3, FaultFacts
      <4> QED BY <1>3, <1>4, <3>1, <4>1, FaultFacts DEF OpenOK
    <3> QED BY <3>2, <3>3
  <2> QED BY <2>1, <2>2 DEF OpenOK
<1>8. \A n \in DOMAIN failures' : OpenOK(failures[n].open)'
  BY <1>2, <1>6, FaultFacts DEF OpenOK
<1>9. ASSUME NEW n \in DOMAIN failures, NEW d
      PROVE  ConcernsIn(boundary', failures[n], d) <=> ConcernsIn(boundary, failures[n], d)
  <2>1. PICK f : f = failures[n]
    OBVIOUS
  <2>2. /\ f \in FailureSet
        /\ \A i \in DOMAIN f.open : boundary'[f.open[i]] = boundary[f.open[i]]
        /\ \A i, j \in DOMAIN f.open : i < j => f.open[i] < f.open[j]
    BY <1>5, <2>1, FaultFacts DEF OpenOK
  <2>3. ConcernsIn(boundary', f, d) <=> ConcernsIn(boundary, f, d)
    BY <2>2, ConcernsKept
  <2> QED BY <2>1, <2>3
<1>10. \A d : Concerning(boundary', failures', d) = Concerning(boundary, failures, d)
  BY <1>2, <1>9 DEF Concerning
<1>11. Concerning(boundary, failures, c) = {}
  <2>1. ASSUME NEW n \in DOMAIN failures, ConcernsIn(boundary, failures[n], c) PROVE FALSE
    <3>1. PICK i \in DOMAIN failures[n].open : failures[n].open[i] = c
      BY <2>1, ConcernsOpen
    <3>2. failures[n].open[i] \in DOMAIN fault
      BY FaultFacts DEF OpenOK
    <3> QED BY <1>3, <3>1, <3>2
  <2> QED BY <2>1 DEF Concerning
<1>12. AttributedIn(boundary', failures', fault')
  BY <1>2, <1>6, <1>10, <1>11, FaultFacts DEF AttributedIn
<1> QED BY <1>2, <1>4, <1>5, <1>6, <1>7, <1>8, <1>12, FaultFacts, FaultParts

(* So does a failure: it is written to the cells it concerns and that had  *)
(* none.                                                                   *)
LEMMA RecordKeeps ==
    ASSUME FaultInv, NEW provider \in Nat, NEW status \in Statuses, record(provider, status)
    PROVE  FaultInv' /\ frames' = frames
<1>1. PICK f : f = [provider |-> provider, status |-> status, open |-> frames]
  OBVIOUS
<1>2. PICK n : n = Len(failures) + 1
  OBVIOUS
<1>3. /\ frames' = frames /\ boundary' = boundary /\ failures' = Append(failures, f)
      /\ fault' = [c \in DOMAIN fault |->
                      IF fault[c] = NoFault /\ \E i \in Sinks(provider) : frames[i] = c
                      THEN status ELSE fault[c]]
      /\ Takers(provider) # {}
  BY <1>1 DEF record, Log
<1>4. f \in FailureSet /\ f.open = frames /\ f.status = status /\ f.provider = provider
  BY <1>1, FaultFacts DEF FailureSet
<1>5. /\ failures' \in Seq(FailureSet) /\ DOMAIN failures' = 1 .. n
      /\ \A m \in DOMAIN failures : failures'[m] = failures[m]
      /\ failures'[n] = f
  BY <1>2, <1>3, <1>4, FaultFacts, AppendShape
<1>6. n \in Nat /\ n \notin DOMAIN failures /\ DOMAIN failures' = DOMAIN failures \cup {n}
      /\ \A m \in DOMAIN failures : m \in Nat /\ m <= n
  BY <1>2, <1>5, FaultFacts
<1>7. fault' \in Seq(Statuses \cup {NoFault}) /\ Len(fault') = Len(fault) /\ DOMAIN fault' = DOMAIN fault
  <2>1. \A c \in 1 .. Len(fault) : fault[c] \in Statuses \cup {NoFault}
    BY FaultFacts
  <2>2. fault' \in [1 .. Len(fault) -> Statuses \cup {NoFault}]
    BY <1>3, <2>1, FaultFacts
  <2>3. Len(fault) \in Nat /\ DOMAIN fault = 1 .. Len(fault)
    BY FaultFacts
  <2>4. fault' \in Seq(Statuses \cup {NoFault}) /\ DOMAIN fault' = 1 .. Len(fault)
    BY <2>2, <2>3
  <2>5. DOMAIN fault' = 1 .. Len(fault') /\ Len(fault') \in Nat
    BY <2>4
  <2> QED BY <2>3, <2>4, <2>5
<1>8. OpenOK(frames)'
  BY <1>3, <1>7, FaultFacts DEF OpenOK
<1>9. \A m \in DOMAIN failures' : OpenOK(failures[m].open)'
  <2>1. \A m \in DOMAIN failures : OpenOK(failures[m].open)'
    BY <1>5, <1>7, FaultFacts DEF OpenOK
  <2>2. OpenOK(failures[n].open)'
    BY <1>3, <1>4, <1>5, <1>8 DEF OpenOK
  <2> QED BY <1>6, <2>1, <2>2
<1>10. ASSUME NEW c
       PROVE  ConcernsIn(boundary, f, c) <=> \E i \in Sinks(provider) : frames[i] = c
  <2>1. ASSUME NEW i \in DOMAIN frames
        PROVE  ConcernsIn(boundary, f, frames[i]) <=> i \in Sinks(provider)
    <3>1. frames \in Seq(Nat) /\ \A j, k \in DOMAIN frames : j < k => frames[j] < frames[k]
      BY FaultFacts DEF OpenOK
    <3>2. ConcernsIn(boundary, f, frames[i]) <=> Reaches(boundary, f.provider, frames, i)
      BY <1>4, <3>1, ConcernsAt
    <3>3. Reaches(boundary, provider, frames, i) <=> i \in Sinks(provider)
      BY <1>3, <3>1, SinksConcerned
    <3> QED BY <1>4, <3>2, <3>3
  <2>2. Sinks(provider) \subseteq DOMAIN frames
    BY <1>3, FaultFacts, SinksOpen
  <2>3. ConcernsIn(boundary, f, c) => \E i \in DOMAIN frames : frames[i] = c
    BY <1>4, ConcernsOpen
  <2> QED BY <2>1, <2>2, <2>3
<1>11. \A c : Concerning(boundary', failures', c) =
              Concerning(boundary, failures, c) \cup (IF ConcernsIn(boundary, f, c) THEN {n} ELSE {})
  BY <1>3, <1>5, <1>6 DEF Concerning
<1>12. ASSUME NEW c \in DOMAIN fault
       PROVE  fault'[c] = IF Concerning(boundary', failures', c) = {} THEN NoFault
                          ELSE failures'[Earliest(Concerning(boundary', failures', c))].status
  <2>1. PICK M : M = Concerning(boundary, failures, c)
    OBVIOUS
  <2>2. PICK N : N = Concerning(boundary', failures', c)
    OBVIOUS
  <2>3. /\ N = M \cup (IF ConcernsIn(boundary, f, c) THEN {n} ELSE {})
        /\ M \subseteq DOMAIN failures /\ M \subseteq Nat /\ N \subseteq Nat
    <3>1. M \subseteq DOMAIN failures
      BY <2>1 DEF Concerning
    <3> QED BY <1>6, <1>11, <2>1, <2>2, <3>1
  <2>4. fault[c] = IF M = {} THEN NoFault ELSE failures[Earliest(M)].status
    BY <2>1, FaultFacts DEF AttributedIn
  <2>5. fault'[c] = IF fault[c] = NoFault /\ ConcernsIn(boundary, f, c) THEN status ELSE fault[c]
    BY <1>3, <1>10
  <2>6. CASE M # {}
    <3>1. Earliest(M) \in M /\ \A m \in M : Earliest(M) <= m
      BY <2>3, <2>6, EarliestOf
    <3>2. Earliest(M) \in DOMAIN failures /\ Earliest(M) \in N /\ \A m \in N : Earliest(M) <= m
      BY <1>6, <2>3, <3>1
    <3>3. Earliest(N) = Earliest(M)
      BY <2>3, <3>2, EarliestIs
    <3>4. failures[Earliest(M)].status \in Statuses /\ failures[Earliest(M)].status # NoFault
      <4>1. failures[Earliest(M)] \in FailureSet
        BY <3>2, FaultFacts
      <4> QED BY <4>1, FaultAssumption DEF FailureSet
    <3> QED BY <1>5, <2>2, <2>4, <2>5, <2>6, <3>2, <3>3, <3>4
  <2>7. CASE M = {} /\ ConcernsIn(boundary, f, c)
    <3>1. N = {n}
      BY <2>3, <2>7
    <3>2. Earliest(N) = n
      BY <1>6, <3>1, EarliestIs
    <3> QED BY <1>4, <1>5, <2>2, <2>4, <2>5, <2>7, <3>1, <3>2
  <2>8. CASE M = {} /\ ~ ConcernsIn(boundary, f, c)
    BY <2>2, <2>3, <2>4, <2>5, <2>8
  <2> QED BY <2>6, <2>7, <2>8
<1>13. AttributedIn(boundary', failures', fault')
  BY <1>7, <1>12 DEF AttributedIn
<1> QED BY <1>3, <1>5, <1>7, <1>8, <1>9, <1>13, FaultFacts, FaultParts

----------------------------------------------------------------------------
(* Scopes and calls                                                        *)

(* How a step changes the number of open scopes of its call.               *)
LEMMA OpenedNext ==
    ASSUME NEW c \in CallSet, NEW n \in CallSet, AtStep(c), n.entry = c.entry, n.at = c.at + 1,
           NEW step, step = Program[c.entry][c.at]
    PROVE  /\ Opened(c) \in Nat
           /\ step = "export" => Opened(n) = 0
           /\ step \in {"scope", "computation"} => Opened(n) = Opened(c) + 1
           /\ step = "leave" => Opened(c) >= 1 /\ Opened(n) = Opened(c) - 1
           /\ step \notin {"export", "scope", "computation", "leave"} => Opened(n) = Opened(c)
<1>1. \A x : Did(n, x) <=> Did(c, x) \/ step = x
  BY Taken
<1>2. StepOK(Program[c.entry], c.entry, c.at)
  BY CallFields, ProgramFacts DEF AtStep
<1>3. /\ step \in Single => ~ Did(c, step)
      /\ step \in Calling \cup Scoping => ~ Did(c, "export")
      /\ step \in {"scope", "computation"} => ~ Did(c, "leave")
      /\ step \in {"computation", "leave"} => Did(c, "scope")
      /\ step = "scope" => ~ Did(c, "computation")
      /\ step = "leave" => Did(c, "computation")
  BY <1>2 DEF StepOK, Did
<1>4. step \in {"scope", "computation", "leave"} => step \in Single /\ step \in Scoping
  BY DEF Single, Scoping
<1> HIDE DEF Did
<1>5. Opened(c) \in Nat
  BY DEF Opened
<1>6. step = "export" => Opened(n) = 0
  BY <1>1 DEF Opened
<1>7. step = "scope" => Opened(n) = Opened(c) + 1
  BY <1>1, <1>3, <1>4 DEF Opened
<1>8. step = "computation" => Opened(n) = Opened(c) + 1
  BY <1>1, <1>3, <1>4 DEF Opened
<1>9. step = "leave" => Opened(c) >= 1 /\ Opened(n) = Opened(c) - 1
  BY <1>1, <1>3, <1>4 DEF Opened
<1>10. step \notin {"export", "scope", "computation", "leave"} => Opened(n) = Opened(c)
  BY <1>1 DEF Opened
<1> QED BY <1>5, <1>6, <1>7, <1>8, <1>9, <1>10

(* The innermost call goes on and its scopes follow.                       *)
LEMMA GoStacked ==
    ASSUME OwnershipInv, ScopesInv, NEW step, Now(step), NEW c \in CallSet, Go(c),
           c.entry = Top.entry, c.at = Top.at, c.base = Top.base, c.reads = Top.reads,
           Len(resources') \in Nat, Len(resources') >= Len(resources),
           step = "export" => Len(frames') = Top.base,
           step \in {"scope", "computation"} => Len(frames') = Len(frames) + 1,
           step = "leave" => Len(frames') = Len(frames) - 1,
           step \notin {"export", "scope", "computation", "leave"} => Len(frames') = Len(frames)
    PROVE  ScopesStacked' /\ ReadsOK'
<1>1. /\ calls \in Seq(CallSet) /\ Len(calls) \in Nat \ {0} /\ DOMAIN calls = 1 .. Len(calls)
      /\ calls # <<>> /\ Top \in CallSet /\ AtStep(Top) /\ step = Program[Top.entry][Top.at]
      /\ Len(resources) \in Nat /\ Top.base \in Nat /\ Top = calls[Len(calls)]
  <2>1. calls \in Seq(CallSet) /\ CallsOK /\ Len(resources) \in Nat
    BY InvFacts
  <2> QED BY <2>1, NowFacts, TopIn, CallFields
<1>2. PICK n \in CallSet :
         /\ n.entry = c.entry /\ n.at = c.at + 1 /\ n.reads = c.reads /\ n.base = c.base
         /\ calls' \in Seq(CallSet) /\ Len(calls') = Len(calls) /\ calls' # <<>>
         /\ \A i \in 1 .. Len(calls) - 1 : calls'[i] = calls[i]
         /\ calls'[Len(calls)] = n /\ Top' = n
  BY <1>1, GoShape
<1>3. PICK top : top = Top
  OBVIOUS
<1>4. /\ top \in CallSet /\ AtStep(top) /\ step = Program[top.entry][top.at]
      /\ n.entry = top.entry /\ n.at = top.at + 1
  BY <1>1, <1>2, <1>3
<1>5. /\ Opened(top) \in Nat
      /\ step = "export" => Opened(n) = 0
      /\ step \in {"scope", "computation"} => Opened(n) = Opened(top) + 1
      /\ step = "leave" => Opened(top) >= 1 /\ Opened(n) = Opened(top) - 1
      /\ step \notin {"export", "scope", "computation", "leave"} => Opened(n) = Opened(top)
  BY <1>4, OpenedNext
<1>6. /\ calls[1].base = 0 /\ Len(frames) = top.base + Opened(top)
      /\ \A i \in 1 .. Len(calls) - 1 : calls[i + 1].base = calls[i].base + Opened(calls[i])
  BY <1>1, <1>3 DEF ScopesInv, ScopesStacked
<1>7. Len(frames') = n.base + Opened(n)
  <2>1. n.base = top.base /\ top.base \in Nat
    BY <1>1, <1>2, <1>3
  <2>2. CASE step = "export"
    BY <1>3, <1>5, <2>1, <2>2
  <2>3. CASE step \in {"scope", "computation"}
    BY <1>5, <1>6, <2>1, <2>3
  <2>4. CASE step = "leave"
    BY <1>5, <1>6, <2>1, <2>4
  <2>5. CASE step \notin {"export", "scope", "computation", "leave"}
    BY <1>5, <1>6, <2>1, <2>5
  <2> QED BY <2>2, <2>3, <2>4, <2>5
<1>8. calls'[1].base = 0
  <2>1. CASE Len(calls) = 1
    BY <1>1, <1>2, <1>6, <2>1
  <2>2. CASE Len(calls) > 1
    BY <1>1, <1>2, <1>6, <2>2
  <2> QED BY <1>1, <2>1, <2>2
<1>9. ASSUME NEW i \in 1 .. Len(calls) - 1
      PROVE  calls'[i + 1].base = calls'[i].base + Opened(calls'[i])
  <2>1. calls'[i] = calls[i] /\ calls'[i + 1].base = calls[i + 1].base
    <3>1. CASE i + 1 = Len(calls)
      BY <1>1, <1>2, <3>1
    <3>2. CASE i + 1 < Len(calls)
      BY <1>1, <1>2, <3>2
    <3> QED BY <1>1, <3>1, <3>2
  <2> QED BY <1>6, <2>1
<1>10. ScopesStacked'
  BY <1>2, <1>7, <1>8, <1>9 DEF ScopesStacked, Opened, Did
<1>11. ASSUME NEW i \in 1 .. Len(calls) PROVE calls'[i].reads \in 0 .. Len(resources')
  <2>1. calls[i].reads \in 0 .. Len(resources)
    BY <1>1 DEF ScopesInv, ReadsOK
  <2>2. calls'[i].reads = calls[i].reads
    BY <1>1, <1>2
  <2> QED BY <1>1, <2>1, <2>2
<1>12. DOMAIN calls' = 1 .. Len(calls)
  BY <1>2
<1> QED BY <1>10, <1>11, <1>12 DEF ReadsOK

(* Nothing is called or returned.                                          *)
LEMMA SameStacked ==
    ASSUME OwnershipInv, ScopesInv, calls' = calls, frames' = frames,
           Len(resources') \in Nat, Len(resources') >= Len(resources)
    PROVE  ScopesStacked' /\ ReadsOK'
<1>1. Len(resources) \in Nat
  BY InvFacts
<1>2. ScopesStacked'
  BY DEF ScopesInv, ScopesStacked, Top, Opened, Did
<1>3. ReadsOK'
  BY <1>1 DEF ScopesInv, ReadsOK
<1> QED BY <1>2, <1>3

(* A new call stands on everything that is open.                           *)
LEMMA BeginStacked ==
    ASSUME OwnershipInv, ScopesInv, NEW entry \in DOMAIN Program, NEW is \in {"none", "stale"},
           NEW reads \in 0 .. Len(resources), Begin(entry, Slot(is, 0), reads)
    PROVE  ScopesInv'
<1>1. PICK c : c = [entry |-> entry, at |-> 1, slot |-> Slot(is, 0), construction |-> Nothing,
                    snapshot |-> 0, resource |-> 0, handle |-> 0, reads |-> reads,
                    base |-> Len(frames)]
  OBVIOUS
<1>2. /\ calls' = Append(calls, c) /\ UNCHANGED faultVars /\ resources' = resources
      /\ frames' = frames
  BY <1>1 DEF Begin, objects, faultVars
<1>3. c.base = Len(frames) /\ c.at = 1 /\ c.reads = reads
  BY <1>1
<1>4. Opened(c) = 0
  <2>1. \A x : ~ Did(c, x)
    BY <1>3 DEF Did, Past
  <2> HIDE DEF Did
  <2> QED BY <2>1 DEF Opened
<1>5. /\ Len(calls) \in Nat /\ DOMAIN calls = 1 .. Len(calls) /\ calls \in Seq(CallSet)
      /\ Len(frames) \in Nat /\ frames \in Seq(Nat) /\ Len(resources) \in Nat
  BY InvFacts, FaultFacts DEF ScopesInv
<1>typed. c \in CallSet
  <2>1. Slot(is, 0) \in SlotSet
    BY DEF Slot, SlotSet
  <2> QED BY <1>1, <1>5, <2>1 DEF CallSet
<1>6. /\ Len(calls') = Len(calls) + 1 /\ DOMAIN calls' = 1 .. Len(calls) + 1 /\ calls' # <<>>
      /\ \A i \in 1 .. Len(calls) : calls'[i] = calls[i]
      /\ calls'[Len(calls) + 1] = c /\ Top' = c
  <2>1. /\ Len(calls') = Len(calls) + 1 /\ DOMAIN calls' = 1 .. Len(calls) + 1 /\ calls' # <<>>
        /\ \A i \in 1 .. Len(calls) : calls'[i] = calls[i]
        /\ calls'[Len(calls) + 1] = c
    BY <1>2, <1>5, <1>typed, AppendShape
  <2> QED BY <2>1 DEF Top
<1>7. /\ calls = <<>> => frames = <<>>
      /\ calls # <<>> => calls[1].base = 0 /\ Len(frames) = calls[Len(calls)].base + Opened(calls[Len(calls)])
      /\ \A i \in 1 .. Len(calls) - 1 : calls[i + 1].base = calls[i].base + Opened(calls[i])
  BY DEF ScopesInv, ScopesStacked, Top
<1>8. calls'[1].base = 0 /\ Len(frames') = c.base + Opened(c)
  <2>1. CASE calls = <<>>
    BY <1>2, <1>3, <1>4, <1>5, <1>6, <1>7, <2>1
  <2>2. CASE calls # <<>>
    BY <1>2, <1>3, <1>4, <1>5, <1>6, <1>7, <2>2
  <2> QED BY <2>1, <2>2
<1>9. ASSUME NEW i \in 1 .. Len(calls') - 1
      PROVE  calls'[i + 1].base = calls'[i].base + Opened(calls'[i])
  <2>1. CASE i = Len(calls)
    BY <1>2, <1>3, <1>5, <1>6, <1>7, <2>1
  <2>2. CASE i # Len(calls)
    <3>0. i \in 1 .. Len(calls) /\ Len(calls) \in Nat
      BY <1>5, <1>6
    <3>1. i \in 1 .. Len(calls) - 1 /\ i \in 1 .. Len(calls) /\ i + 1 \in 1 .. Len(calls)
      BY <2>2, <3>0
    <3>2. calls'[i] = calls[i] /\ calls'[i + 1] = calls[i + 1]
      BY <1>6, <3>1
    <3> QED BY <1>7, <3>1, <3>2
  <2> QED BY <2>1, <2>2
<1>10. ScopesStacked'
  BY <1>6, <1>8, <1>9 DEF ScopesStacked, Opened, Did
<1>11. ReadsOK'
  BY <1>2, <1>3, <1>5, <1>6 DEF ReadsOK, ScopesInv
<1>12. FaultInv'
  BY <1>2, FaultSame DEF ScopesInv
<1> QED BY <1>10, <1>11, <1>12 DEF ScopesInv

(* What the first call below the top stands on bounds what is open.        *)
LEMMA ReturnStacked ==
    ASSUME OwnershipInv, ScopesInv, calls # <<>>, NEW ok, Return(ok),
           Len(resources') \in Nat, Len(resources') >= Len(resources)
    PROVE  ScopesInv'
<1>1. PICK base : base = Top.base
  OBVIOUS
<1>2. /\ calls' = SubSeq(calls, 1, Len(calls) - 1) /\ frames' = SubSeq(frames, 1, base)
      /\ IF SubSeq(calls, 1, Len(calls) - 1) = <<>>
         THEN boundary' = <<>> /\ fault' = <<>> /\ failures' = <<>>
         ELSE UNCHANGED <<boundary, fault, failures>>
  BY <1>1 DEF Return
<1>3. /\ calls \in Seq(CallSet) /\ Len(calls) \in Nat \ {0} /\ DOMAIN calls = 1 .. Len(calls)
      /\ Top = calls[Len(calls)] /\ Top \in CallSet
      /\ Len(resources) \in Nat /\ base \in Nat
  BY <1>1, InvFacts, TopIn, CallFields
<1>4. Len(frames) \in Nat /\ frames \in Seq(Nat)
  BY FaultFacts DEF ScopesInv
<1>5. /\ calls[1].base = 0 /\ Len(frames) = base + Opened(Top)
      /\ \A i \in 1 .. Len(calls) - 1 : calls[i + 1].base = calls[i].base + Opened(calls[i])
  BY <1>1 DEF ScopesInv, ScopesStacked
<1>6. base <= Len(frames)
  <2>1. Opened(Top) \in Nat
    BY DEF Opened
  <2> QED BY <1>3, <1>4, <1>5, <2>1
<1>7. /\ calls' \in Seq(CallSet) /\ Len(calls') = Len(calls) - 1
      /\ DOMAIN calls' = 1 .. Len(calls) - 1
      /\ \A i \in 1 .. Len(calls) - 1 : calls'[i] = calls[i]
  BY <1>2, <1>3
<1>8. ReadsOK'
  <2>1. ASSUME NEW i \in 1 .. Len(calls) - 1 PROVE calls'[i].reads \in 0 .. Len(resources')
    <3>1. calls[i].reads \in 0 .. Len(resources)
      BY <1>3 DEF ScopesInv, ReadsOK
    <3> QED BY <1>3, <1>7, <3>1
  <2> QED BY <1>7, <2>1 DEF ReadsOK
<1>9. CASE Len(calls) = 1
  <2>1. calls' = <<>> /\ base = 0
    BY <1>1, <1>3, <1>5, <1>7, <1>9
  <2>2. frames' = <<>>
    BY <1>2, <1>4, <2>1
  <2>3. boundary' = <<>> /\ fault' = <<>> /\ failures' = <<>>
    BY <1>2, <2>1
  <2>4. FaultInv'
    BY <2>2, <2>3, ClearKeeps
  <2>5. ScopesStacked'
    BY <1>7, <1>9, <2>1, <2>2 DEF ScopesStacked
  <2> QED BY <1>8, <2>4, <2>5 DEF ScopesInv
<1>10. CASE Len(calls) > 1
  <2>1. calls' # <<>>
    BY <1>3, <1>7, <1>10
  <2>2. UNCHANGED <<boundary, fault, failures>>
    BY <1>2, <2>1
  <2>3. FaultInv' /\ Len(frames') = base
    BY <1>2, <1>3, <1>6, <2>2, PrefixKeeps DEF ScopesInv
  <2>4. PICK k : k = Len(calls) - 1
    OBVIOUS
  <2>5. k \in 1 .. Len(calls) - 1 /\ k + 1 = Len(calls) /\ Len(calls') = k
    BY <1>3, <1>7, <1>10, <2>4
  <2>6. base = calls[k].base + Opened(calls[k]) /\ calls'[k] = calls[k] /\ calls'[1] = calls[1]
    BY <1>1, <1>3, <1>5, <1>7, <2>5
  <2>7. Top' = calls[k]
    BY <2>5, <2>6 DEF Top
  <2>8. ASSUME NEW i \in 1 .. Len(calls') - 1
        PROVE  calls'[i + 1].base = calls'[i].base + Opened(calls'[i])
    BY <1>3, <1>5, <1>7
  <2>9. ScopesStacked'
    BY <1>5, <2>1, <2>3, <2>6, <2>7, <2>8 DEF ScopesStacked, Opened, Did
  <2> QED BY <1>8, <2>3, <2>9 DEF ScopesInv
<1> QED BY <1>3, <1>9, <1>10

(* What a scope watches is a revision's number.                            *)
LEMMA WatchedTyped ==
    ASSUME OwnershipInv, ScopesInv, calls # <<>>
    PROVE  Watched \in Nat
<1>1. Top \in CallSet /\ Len(calls) \in DOMAIN calls /\ Top = calls[Len(calls)]
  BY InvFacts, TopIn
<1>2. Top.snapshot \in Nat /\ Top.reads \in 0 .. Len(resources)
  BY <1>1, CallFields DEF ScopesInv, ReadsOK
<1>3. Top.reads # 0 => resources[Top.reads].snapshot \in Nat
  <2>1. Top.reads # 0 => Top.reads \in DOMAIN resources
    BY <1>2, InvFacts
  <2>2. \A r \in DOMAIN resources : resources[r] \in ResourceSet
    BY InvFacts
  <2> QED BY <2>1, <2>2, ResourceFields
<1> QED BY <1>2, <1>3 DEF Watched

(* Resources are built and never forgotten.                                *)
LEMMA ResourcesKept ==
    ASSUME OwnershipInv, OwnershipInv', DOMAIN resources' = DOMAIN resources
    PROVE  Len(resources') \in Nat /\ Len(resources') >= Len(resources)
<1>1. /\ DOMAIN resources = 1 .. Len(resources) /\ Len(resources) \in Nat
      /\ resources' \in Seq(ResourceSet)
  BY InvFacts DEF OwnershipInv, BoundaryTypes
<1>2. DOMAIN resources' = 1 .. Len(resources') /\ Len(resources') \in Nat
  BY <1>1
<1> QED BY <1>1, <1>2

(* A step of the innermost call that opens and closes nothing.             *)
LEMMA QuietScopes ==
    ASSUME OwnershipInv, ScopesInv, NEW step, Now(step), NEW c \in CallSet, Go(c),
           c.entry = Top.entry, c.at = Top.at, c.base = Top.base, c.reads = Top.reads,
           OwnershipInv', DOMAIN resources' = DOMAIN resources,
           step \notin {"export", "scope", "computation", "leave"}, UNCHANGED faultVars
    PROVE  ScopesInv'
<1>1. frames' = frames
  BY DEF faultVars
<1>2. Len(resources') \in Nat /\ Len(resources') >= Len(resources)
  BY ResourcesKept
<1>3. ScopesStacked' /\ ReadsOK'
  BY <1>1, <1>2, GoStacked
<1>4. FaultInv'
  BY FaultSame DEF ScopesInv
<1> QED BY <1>3, <1>4 DEF ScopesInv

(* A step of the innermost call that changes nothing else.                 *)
LEMMA PlainScopes ==
    ASSUME OwnershipInv, ScopesInv, NEW step, Now(step), Go(Top), OwnershipInv',
           UNCHANGED objects, UNCHANGED faultVars,
           step \notin {"export", "scope", "computation", "leave"}
    PROVE  ScopesInv'
<1>1. Top \in CallSet
  BY InvFacts, NowFacts
<1>2. DOMAIN resources' = DOMAIN resources
  BY DEF objects
<1> QED BY <1>1, <1>2, QuietScopes

(* The slot is written or cleared.                                         *)
LEMMA SlotScopes ==
    ASSUME OwnershipInv, ScopesInv, NEW step, Now(step), NEW slot \in SlotSet,
           Go([Top EXCEPT !.slot = slot]), OwnershipInv',
           UNCHANGED objects, UNCHANGED faultVars,
           step \notin {"export", "scope", "computation", "leave"}
    PROVE  ScopesInv'
<1> DEFINE c == [Top EXCEPT !.slot = slot]
<1>1. Top \in CallSet
  BY InvFacts, NowFacts
<1>2. /\ c \in CallSet /\ c.entry = Top.entry /\ c.at = Top.at
      /\ c.base = Top.base /\ c.reads = Top.reads
  BY <1>1 DEF CallSet
<1>3. Go(c) /\ DOMAIN resources' = DOMAIN resources
  BY DEF objects
<1> HIDE DEF c
<1> QED BY <1>2, <1>3, QuietScopes

(* A call returns and closes its scopes.                                   *)
LEMMA ReturnScopes ==
    ASSUME OwnershipInv, ScopesInv, calls # <<>>, NEW ok, Return(ok), OwnershipInv'
    PROVE  ScopesInv'
<1>1. DOMAIN resources' = DOMAIN resources
  BY DEF Return, Without
<1>2. Len(resources') \in Nat /\ Len(resources') >= Len(resources)
  BY <1>1, ResourcesKept
<1> QED BY <1>2, ReturnStacked

(* Reading the arguments, accepted or refused.                             *)
LEMMA SettleScopes ==
    ASSUME OwnershipInv, ScopesInv, NEW step \in Reading, Now(step), NEW accepted \in BOOLEAN,
           NEW construction \in Constructions, Settle(accepted, construction), OwnershipInv'
    PROVE  ScopesInv'
<1>1. Top \in CallSet /\ calls # <<>>
  BY InvFacts, NowFacts
<1>2. CASE accepted
  <2> DEFINE c == [Top EXCEPT !.construction = construction]
  <2>1. Go(c) /\ UNCHANGED faultVars /\ DOMAIN resources' = DOMAIN resources
    BY <1>2 DEF Settle, objects
  <2>2. /\ c \in CallSet /\ c.entry = Top.entry /\ c.at = Top.at
        /\ c.base = Top.base /\ c.reads = Top.reads
    BY <1>1 DEF CallSet
  <2> HIDE DEF c
  <2>3. step \notin {"export", "scope", "computation", "leave"}
    BY DEF Reading
  <2> QED BY <2>1, <2>2, <2>3, QuietScopes
<1>3. CASE ~ accepted
  BY <1>1, <1>3, ReturnScopes DEF Settle, Refuse
<1> QED BY <1>2, <1>3

(* An operation outside the calls in progress.                             *)
LEMMA IdleScopes ==
    ASSUME OwnershipInv, ScopesInv, OwnershipInv', calls' = calls, UNCHANGED faultVars,
           DOMAIN resources' = DOMAIN resources
    PROVE  ScopesInv'
<1>1. frames' = frames
  BY DEF faultVars
<1>2. Len(resources') \in Nat /\ Len(resources') >= Len(resources)
  BY ResourcesKept
<1>3. ScopesStacked' /\ ReadsOK'
  BY <1>1, <1>2, SameStacked
<1>4. FaultInv'
  BY FaultSame DEF ScopesInv
<1> QED BY <1>3, <1>4 DEF ScopesInv

(* Scopes are opened and closed with the calls they belong to.             *)
LEMMA ScopeStepKeeps ==
    ASSUME OwnershipInv, ScopesInv, OwnershipInv', OpenScope \/ OpenComputation \/ CloseComputation
    PROVE  ScopesInv'
<1>1. DOMAIN resources' = DOMAIN resources
  BY DEF OpenScope, OpenComputation, CloseComputation, objects
<1>2. Len(resources') \in Nat /\ Len(resources') >= Len(resources)
  BY <1>1, ResourcesKept
<1>3. ASSUME NEW step, Now(step), Go(Top) PROVE Top \in CallSet /\ calls # <<>>
  BY <1>3, InvFacts, NowFacts
<1>4. CASE OpenScope
  <2>1. Now("scope") /\ Go(Top) /\ push(Watched)
    BY <1>4 DEF OpenScope, enter
  <2>2. Top \in CallSet /\ Watched \in Nat
    BY <1>3, <2>1, WatchedTyped
  <2>3. FaultInv' /\ Len(frames') = Len(frames) + 1
    BY <2>1, <2>2, PushKeeps DEF ScopesInv
  <2>4. ScopesStacked' /\ ReadsOK'
    BY <1>2, <2>1, <2>2, <2>3, GoStacked
  <2> QED BY <2>3, <2>4 DEF ScopesInv
<1>5. CASE OpenComputation
  <2>1. Now("computation") /\ Go(Top) /\ push(Computation)
    BY <1>5 DEF OpenComputation, computation
  <2>2. Top \in CallSet
    BY <1>3, <2>1
  <2>3. FaultInv' /\ Len(frames') = Len(frames) + 1
    BY <2>1, PushKeeps DEF ScopesInv
  <2>4. ScopesStacked' /\ ReadsOK'
    BY <1>2, <2>1, <2>2, <2>3, GoStacked
  <2> QED BY <2>3, <2>4 DEF ScopesInv
<1>6. CASE CloseComputation
  <2>1. Now("leave") /\ Go(Top) /\ leave
    BY <1>6 DEF CloseComputation
  <2>2. Top \in CallSet
    BY <1>3, <2>1
  <2>3. PICK b : b = Len(frames) - 1
    OBVIOUS
  <2>4. /\ frames' = SubSeq(frames, 1, b) /\ UNCHANGED <<boundary, fault, failures>>
        /\ frames # <<>>
    BY <2>1, <2>3 DEF leave
  <2>5. b \in Nat /\ b <= Len(frames)
    BY <2>3, <2>4, FaultFacts DEF ScopesInv
  <2>6. FaultInv' /\ Len(frames') = b
    BY <2>4, <2>5, PrefixKeeps DEF ScopesInv
  <2>7. ScopesStacked' /\ ReadsOK'
    BY <1>2, <2>1, <2>2, <2>3, <2>6, GoStacked
  <2> QED BY <2>6, <2>7 DEF ScopesInv
<1> QED BY <1>4, <1>5, <1>6

(* The provider is built: the scope around its construction ends.          *)
LEMMA ExportScopes ==
    ASSUME OwnershipInv, ScopesInv, OwnershipInv', Export
    PROVE  ScopesInv'
<1>1. PICK base : base = Top.base
  OBVIOUS
<1>2. PICK r : r = Len(resources) + 1
  OBVIOUS
<1> DEFINE c == [Top EXCEPT !.resource = r, !.snapshot = 0]
<1>3. /\ Now("export") /\ Go(c) /\ frames' = SubSeq(frames, 1, base)
      /\ UNCHANGED <<boundary, fault, failures>>
  BY <1>1, <1>2 DEF Export
<1>4. Top \in CallSet /\ calls # <<>> /\ base \in Nat /\ r \in Nat /\ Len(resources) \in Nat
  BY <1>1, <1>2, <1>3, InvFacts, NowFacts, CallFields
<1>5. /\ c \in CallSet /\ c.entry = Top.entry /\ c.at = Top.at
      /\ c.base = Top.base /\ c.reads = Top.reads
  BY <1>4 DEF CallSet
<1> HIDE DEF c
<1>6. Len(resources') = r
  BY <1>2, InvFacts DEF Export
<1>7. base <= Len(frames)
  <2>1. Len(frames) = base + Opened(Top) /\ Opened(Top) \in Nat
    BY <1>1, <1>4 DEF ScopesInv, ScopesStacked, Opened
  <2> QED BY <1>4, <2>1
<1>8. FaultInv' /\ Len(frames') = base
  BY <1>3, <1>4, <1>7, PrefixKeeps DEF ScopesInv
<1>9. ScopesStacked' /\ ReadsOK'
  BY <1>1, <1>2, <1>3, <1>4, <1>5, <1>6, <1>8, GoStacked
<1> QED BY <1>8, <1>9 DEF ScopesInv

(* Every step keeps the scopes in order and the faults attributed.         *)
LEMMA NextScopes ==
    ASSUME OwnershipInv, ScopesInv, OwnershipInv', [Next]_vars
    PROVE  ScopesInv'
<1> DEFINE quiet == {"export", "scope", "computation", "leave"}
<1>1. ASSUME NEW entry \in Constructors, Construct(entry) PROVE ScopesInv'
  <2>1. PICK is \in {"none", "stale"} : Begin(entry, Slot(is, 0), 0)
    BY <1>1 DEF Construct
  <2>2. 0 \in 0 .. Len(resources)
    BY InvFacts
  <2> QED BY <2>1, <2>2, BeginStacked DEF Constructors
<1>2. ASSUME NEW r \in DOMAIN resources, ReadState(r) PROVE ScopesInv'
  <2>1. PICK entry \in Readers : Begin(entry, Slot("none", 0), r)
    BY <1>2 DEF ReadState, Readers
  <2>2. entry \in DOMAIN Program
    BY DEF Readers, Program
  <2>3. r \in 0 .. Len(resources)
    BY InvFacts
  <2> QED BY <2>1, <2>2, <2>3, BeginStacked
<1>3. ASSUME NEW r \in DOMAIN resources, duallity_resource_release(r) PROVE ScopesInv'
  <2>1. DOMAIN resources' = DOMAIN resources /\ calls' = calls /\ UNCHANGED faultVars
    BY <1>3 DEF duallity_resource_release, Without
  <2> QED BY <2>1, IdleScopes
<1>4. CASE Pass
  <2>1. PICK step \in Checks : Now(step)
    BY <1>4 DEF Pass
  <2>2. Go(Top) /\ UNCHANGED objects /\ UNCHANGED faultVars
    BY <1>4 DEF Pass
  <2>3. step \notin quiet
    BY DEF Checks
  <2> QED BY <2>1, <2>2, <2>3, PlainScopes
<1>5. ASSUME NEW step, Now(step), Refuse PROVE ScopesInv'
  BY <1>5, ReturnScopes DEF Refuse, Now
<1>6. CASE RefuseCheck
  BY <1>5, <1>6 DEF RefuseCheck
<1>7. CASE output
  <2>1. CASE Top.slot.is = "none"
    BY <1>5, <1>7, <2>1 DEF output
  <2>2. CASE Top.slot.is # "none"
    BY <1>7, <2>2, PlainScopes DEF output
  <2> QED BY <2>1, <2>2
<1>8. CASE owned_output
  <2>1. Slot("null", 0) \in SlotSet
    BY DEF Slot, SlotSet
  <2>2. /\ Now("clear") /\ Go([Top EXCEPT !.slot = Slot("null", 0)])
        /\ UNCHANGED objects /\ UNCHANGED faultVars
    BY <1>8 DEF owned_output
  <2> QED BY <2>1, <2>2, SlotScopes
<1>9. CASE ReadSelectors
  <2>1. PICK raw \in Requests : Settle(legacy_accepts(raw), create_wfst(raw))
    BY <1>9 DEF ReadSelectors
  <2>2. create_wfst(raw) \in Constructions /\ legacy_accepts(raw) \in BOOLEAN
    BY DEF Constructions, legacy_accepts
  <2>3. Now("selectors") /\ "selectors" \in Reading
    BY <1>9 DEF ReadSelectors, Reading
  <2> QED BY <2>1, <2>2, <2>3, SettleScopes
<1>10. CASE ReadOptions
  <2>1. PICK raw \in Requests : Settle(parse_options(raw), into_construction(raw))
    BY <1>10 DEF ReadOptions
  <2>2. into_construction(raw) \in Constructions /\ parse_options(raw) \in BOOLEAN
    BY DEF Constructions, parse_options
  <2>3. Now("parse") /\ "parse" \in Reading
    BY <1>10 DEF ReadOptions, Reading
  <2> QED BY <2>1, <2>2, <2>3, SettleScopes
<1>11. CASE ReadFzf
  <2>1. PICK raw \in FzfRequests :
           Settle(cache_policy(raw.selector, raw.capacity), fzf_construction(raw))
    BY <1>11 DEF ReadFzf
  <2>2. /\ fzf_construction(raw) \in Constructions
        /\ cache_policy(raw.selector, raw.capacity) \in BOOLEAN
    BY DEF Constructions, cache_policy
  <2>3. Now("fzf") /\ "fzf" \in Reading
    BY <1>11 DEF ReadFzf, Reading
  <2> QED BY <2>1, <2>2, <2>3, SettleScopes
<1>12. CASE ReadPolicy
  <2>1. PICK p \in Policies, kind \in {"WallBreaker", "Phonetic"} :
           Settle(cache_policy(p.selector, p.capacity), PolicyConstruction(p, kind))
    BY <1>12 DEF ReadPolicy, PolicyConstruction
  <2>2. /\ PolicyConstruction(p, kind) \in Constructions
        /\ cache_policy(p.selector, p.capacity) \in BOOLEAN
    BY DEF Constructions, cache_policy
  <2>3. Now("policy") /\ "policy" \in Reading
    BY <1>12 DEF ReadPolicy, Reading
  <2> QED BY <2>1, <2>2, <2>3, SettleScopes
<1>13. CASE CaptureSnapshot
  <2>1. PICK s : s = Len(snapshots) + 1
    OBVIOUS
  <2> DEFINE c == [Top EXCEPT !.snapshot = s]
  <2>2. /\ Now("snapshot") /\ Go(c) /\ UNCHANGED faultVars /\ DOMAIN resources' = DOMAIN resources
    BY <1>13, <2>1 DEF CaptureSnapshot
  <2>3. Top \in CallSet /\ s \in Nat
    BY <2>1, <2>2, InvFacts, NowFacts
  <2>4. /\ c \in CallSet /\ c.entry = Top.entry /\ c.at = Top.at
        /\ c.base = Top.base /\ c.reads = Top.reads
    BY <2>3 DEF CallSet
  <2> HIDE DEF c
  <2> QED BY <2>2, <2>4, QuietScopes
<1>14. CASE OpenScope \/ OpenComputation \/ CloseComputation
  BY <1>14, ScopeStepKeeps
<1>15. CASE Build
  <2>1. CASE Go(Top) /\ UNCHANGED <<faultVars, objects>>
    BY <1>15, <2>1, PlainScopes DEF Build
  <2>2. CASE Refuse
    BY <1>5, <1>15, <2>2 DEF Build
  <2> QED BY <1>15, <2>1, <2>2 DEF Build
<1>16. CASE Walked
  BY <1>16, PlainScopes DEF Walked
<1>17. CASE CheckScope
  <2>1. CASE Go(Top) /\ UNCHANGED <<faultVars, objects>>
    BY <1>17, <2>1, PlainScopes DEF CheckScope
  <2>2. CASE Refuse
    BY <1>5, <1>17, <2>2 DEF CheckScope
  <2> QED BY <1>17, <2>1, <2>2 DEF CheckScope
<1>18. CASE Export
  BY <1>18, ExportScopes
<1>19. CASE BoxHandle
  <2>1. PICK h : h = Len(handles) + 1
    OBVIOUS
  <2> DEFINE c == [Top EXCEPT !.handle = h, !.resource = 0]
  <2>2. /\ Now("box") /\ Go(c) /\ UNCHANGED faultVars /\ DOMAIN resources' = DOMAIN resources
    BY <1>19, <2>1 DEF BoxHandle
  <2>3. Top \in CallSet /\ h \in Nat
    BY <2>1, <2>2, InvFacts, NowFacts
  <2>4. /\ c \in CallSet /\ c.entry = Top.entry /\ c.at = Top.at
        /\ c.base = Top.base /\ c.reads = Top.reads
    BY <2>3 DEF CallSet
  <2> HIDE DEF c
  <2> QED BY <2>2, <2>4, QuietScopes
<1>20. CASE WriteHandle
  <2>1. /\ Now("write") /\ Go([Top EXCEPT !.slot = Slot("handle", Top.handle)])
        /\ UNCHANGED objects /\ UNCHANGED faultVars
    BY <1>20 DEF WriteHandle
  <2>2. Top.handle \in Nat
    BY <2>1, InvFacts, NowFacts, CallFields
  <2>3. Slot("handle", Top.handle) \in SlotSet
    BY <2>2 DEF Slot, SlotSet
  <2> QED BY <2>1, <2>3, SlotScopes
<1>21. CASE WriteRanking
  <2>1. Slot("ranking", 0) \in SlotSet
    BY DEF Slot, SlotSet
  <2>2. /\ Now("write_ranking") /\ Go([Top EXCEPT !.slot = Slot("ranking", 0)])
        /\ UNCHANGED objects /\ UNCHANGED faultVars
    BY <1>21 DEF WriteRanking
  <2> QED BY <2>1, <2>2, SlotScopes
<1>22. CASE IntoRaw
  <2>1. PICK slot : slot = Slot("resource", Top.resource)
    OBVIOUS
  <2> DEFINE c == [Top EXCEPT !.slot = slot, !.resource = 0]
  <2>2. /\ Now("into_raw") /\ Go(c) /\ UNCHANGED faultVars /\ DOMAIN resources' = DOMAIN resources
    BY <1>22, <2>1 DEF IntoRaw
  <2>3. Top \in CallSet /\ Top.resource \in Nat
    BY <2>2, InvFacts, NowFacts, CallFields
  <2>4. slot \in SlotSet
    BY <2>1, <2>3 DEF Slot, SlotSet
  <2>5. /\ c \in CallSet /\ c.entry = Top.entry /\ c.at = Top.at
        /\ c.base = Top.base /\ c.reads = Top.reads
    BY <2>3, <2>4 DEF CallSet
  <2> HIDE DEF c
  <2> QED BY <2>2, <2>5, QuietScopes
<1>23. CASE Done
  BY <1>23, ReturnScopes DEF Done
<1>24. ASSUME NEW h \in DOMAIN handles, duallity_wfst_free(h) PROVE ScopesInv'
  <2>1. DOMAIN resources' = DOMAIN resources /\ calls' = calls /\ UNCHANGED faultVars
    BY <1>24 DEF duallity_wfst_free, Without
  <2> QED BY <2>1, IdleScopes
<1>25. ASSUME NEW h \in DOMAIN handles, duallity_wfst_resource(h) PROVE ScopesInv'
  <2>1. DOMAIN resources' = DOMAIN resources /\ calls' = calls /\ UNCHANGED faultVars
    BY <1>25 DEF duallity_wfst_resource, Retained
  <2> QED BY <2>1, IdleScopes
<1>26. ASSUME NEW h \in DOMAIN handles, NEW p \in Policies, duallity_wfst_cache_set_policy(h, p)
       PROVE  ScopesInv'
  <2>1. DOMAIN resources' = DOMAIN resources /\ calls' = calls /\ UNCHANGED faultVars
    BY <1>26 DEF duallity_wfst_cache_set_policy
  <2> QED BY <2>1, IdleScopes
<1>27. ASSUME NEW status \in Statuses, CallbackFails(status) PROVE ScopesInv'
  <2>1. calls # <<>> /\ record(Watched, status) /\ resources' = resources /\ calls' = calls
    BY <1>27 DEF CallbackFails, Now, objects
  <2>2. Watched \in Nat
    BY <2>1, WatchedTyped
  <2>3. PICK watched \in Nat : watched = Watched
    BY <2>2
  <2>4. FaultInv' /\ frames' = frames
    BY <2>1, <2>3, RecordKeeps DEF ScopesInv
  <2>5. Len(resources') \in Nat /\ Len(resources') >= Len(resources)
    BY <2>1, ResourcesKept
  <2>6. ScopesStacked' /\ ReadsOK'
    BY <2>1, <2>4, <2>5, SameStacked
  <2> QED BY <2>4, <2>6 DEF ScopesInv
<1>28. ASSUME NEW s \in DOMAIN snapshots, UncheckedUse(s) PROVE ScopesInv'
  <2>1. DOMAIN resources' = DOMAIN resources /\ calls' = calls /\ UNCHANGED faultVars
    BY <1>28 DEF UncheckedUse, record_unscoped, objects
  <2> QED BY <2>1, IdleScopes
<1>29. CASE UNCHANGED vars
  <2>1. DOMAIN resources' = DOMAIN resources /\ calls' = calls /\ UNCHANGED faultVars
    BY <1>29 DEF vars, faultVars
  <2> QED BY <2>1, IdleScopes
<1> QED
  BY <1>1, <1>2, <1>3, <1>4, <1>6, <1>7, <1>8, <1>9, <1>10, <1>11, <1>12, <1>13, <1>14, <1>15, <1>16,
     <1>17, <1>18, <1>19, <1>20, <1>21, <1>22, <1>23, <1>24, <1>25, <1>26, <1>27, <1>28, <1>29 DEF Next

(* No scope is open at first.                                              *)
LEMMA InitScopes == Init => ScopesInv
<1> SUFFICES ASSUME Init PROVE ScopesInv
  OBVIOUS
<1>1. /\ frames = <<>> /\ boundary = <<>> /\ fault = <<>> /\ failures = <<>> /\ calls = <<>>
      /\ resources = <<>>
  BY DEF Init, NoScopes
<1>2. FaultTypes /\ OpenOK(frames) /\ \A n \in DOMAIN failures : OpenOK(failures[n].open)
  BY <1>1 DEF FaultTypes, OpenOK
<1>3. FaultsAttributed
  BY <1>1 DEF FaultsAttributed
<1>4. ScopesStacked /\ ReadsOK
  BY <1>1 DEF ScopesStacked, ReadsOK
<1> QED BY <1>2, <1>3, <1>4 DEF ScopesInv, FaultInv

----------------------------------------------------------------------------
(* Results                                                                 *)

(* What the invariant counts is what OwnersExact states: below the top no  *)
(* call holds a resource or a handle, and what is destroyed holds no       *)
(* revision.                                                               *)
LEMMA OwnersFollow ==
    ASSUME OwnershipInv
    PROVE  OwnersExact
<1>1. ASSUME NEW r \in DOMAIN resources
      PROVE  Cardinality({i \in DOMAIN calls : calls[i].resource = r}) = HeldByTop(r)
  <2> DEFINE holders == {i \in DOMAIN calls : calls[i].resource = r}
  <2>1. r # 0
    BY InvFacts
  <2>2. ASSUME NEW i \in DOMAIN calls, calls[i].resource = r PROVE i = Len(calls) /\ calls # <<>>
    <3>1. DOMAIN calls = 1 .. Len(calls) /\ Len(calls) \in Nat /\ calls \in Seq(CallSet) /\ CallsOK
      BY InvFacts
    <3>2. ASSUME i \in 1 .. Len(calls) - 1 PROVE FALSE
      BY <2>1, <2>2, <3>1, <3>2, WaitingAt, WaitingOwns
    <3> QED BY <3>1, <3>2
  <2>3. CASE calls # <<>> /\ Top.resource = r
    <3>1. Len(calls) \in DOMAIN calls /\ Top = calls[Len(calls)]
      BY <2>3, InvFacts, TopIn
    <3>2. holders = {Len(calls)}
      BY <2>2, <2>3, <3>1
    <3> HIDE DEF holders
    <3>3. Cardinality(holders) = 1
      BY <3>2, FS_Singleton
    <3> QED BY <2>3, <3>3 DEF HeldByTop, holders
  <2>4. CASE ~ (calls # <<>> /\ Top.resource = r)
    <3>1. holders = {}
      BY <2>2, <2>4 DEF Top
    <3> HIDE DEF holders
    <3>2. Cardinality(holders) = 0
      BY <3>1, FS_EmptySet
    <3> QED BY <2>4, <3>2 DEF HeldByTop, holders
  <2> QED BY <2>3, <2>4
<1>2. ASSUME NEW s \in DOMAIN snapshots
      PROVE  Held(s) <=> \/ \E i \in DOMAIN calls : calls[i].snapshot = s
                         \/ \E r \in DOMAIN resources :
                               resources[r].refs > 0 /\ resources[r].snapshot = s
  <2>1. s # 0
    BY InvFacts
  <2>2. ASSUME NEW r \in DOMAIN resources, resources[r].snapshot = s PROVE resources[r].refs > 0
    <3>1. resources[r] \in ResourceSet
      BY InvFacts
    <3>2. resources[r].refs \in Nat /\ resources[r].refs # 0
      BY <2>1, <2>2, <3>1, ResourceFields, InvFacts DEF ObjectsOK
    <3> QED BY <3>2
  <2> QED BY <2>2 DEF Held
<1>3. ASSUME NEW h \in DOMAIN handles, handles[h].state = "boxed"
      PROVE  \E i \in DOMAIN calls : calls[i].handle = h
  <2>1. calls # <<>> /\ Top.handle = h
    BY <1>3, InvFacts DEF OwnersCounted
  <2>2. Len(calls) \in DOMAIN calls /\ Top = calls[Len(calls)]
    BY <2>1, InvFacts, TopIn
  <2> QED BY <2>1, <2>2
<1> QED BY <1>1, <1>2, <1>3, InvFacts DEF OwnersExact, OwnersCounted

(* Ownership and scopes together are inductive: a call can only begin on   *)
(* scopes that are counted, and a scope watches what its call owns.        *)
THEOREM BoundaryInvariant == Spec => [](OwnershipInv /\ ScopesInv)
<1>1. Init => OwnershipInv /\ ScopesInv
  BY InitOwns, InitScopes
<1>2. (OwnershipInv /\ ScopesInv) /\ [Next]_vars => (OwnershipInv /\ ScopesInv)'
  <2> SUFFICES ASSUME OwnershipInv, ScopesInv, [Next]_vars
               PROVE  OwnershipInv' /\ ScopesInv'
    OBVIOUS
  <2>1. Len(frames) \in Nat
    BY FaultFacts DEF ScopesInv
  <2>2. OwnershipInv'
    BY <2>1, NextOwns
  <2> QED BY <2>2, NextScopes
<1> QED BY <1>1, <1>2, PTL DEF Spec

(* Every handle, resource and captured revision has exactly the owners the *)
(* code means it to have: retains match handles, exports and the call in   *)
(* progress, a revision is released once and only when its last holder is  *)
(* gone, and no boxed handle is lost (DUAL-B10), for every nesting of      *)
(* calls and every place at which a call can end.                          *)
THEOREM OwnersStayExact == Spec => []OwnersExact
<1>1. OwnershipInv /\ ScopesInv => OwnersExact
  BY OwnersFollow
<1> QED BY <1>1, BoundaryInvariant, PTL

(* A caller can trust its slot: a live object on success, no pointer on    *)
(* failure, but for what the revision-2 constructors leave as it was.      *)
THEOREM SlotsStayTruthful == Spec => []SlotsTruthful
<1>1. OwnershipInv /\ ScopesInv => SlotsTruthful
  BY DEF OwnershipInv, AnswerOK
<1> QED BY <1>1, BoundaryInvariant, PTL

(* Each fault scope reports the first provider failure that concerns it    *)
(* and no other, however with_checked calls, expansions and reads nest.    *)
THEOREM FaultsStayAttributed == Spec => []FaultsAttributed
<1>1. OwnershipInv /\ ScopesInv => FaultsAttributed
  BY DEF ScopesInv, FaultInv
<1> QED BY <1>1, BoundaryInvariant, PTL

----------------------------------------------------------------------------
(* Options                                                                 *)

SumTo(counts, n, sum) == sum = [k \in 0 .. n |-> IF k = 0 THEN 0 ELSE sum[k - 1] + counts[k]]

(* The partial sums of a list exist.                                       *)
LEMMA SumExists ==
    ASSUME NEW counts, NEW n \in Nat
    PROVE  \E sum : SumTo(counts, n, sum)
<1> DEFINE Missing == {k \in Nat : ~ \E sum : SumTo(counts, k, sum)}
<1> SUFFICES ASSUME n \in Missing PROVE FALSE
  OBVIOUS
<1>1. PICK k \in Missing : \A j \in Missing : k <= j
  BY LeastElement
<1>2. CASE k = 0
  <2> DEFINE sum == [j \in 0 .. 0 |-> 0]
  <2>1. SumTo(counts, 0, sum)
    BY DEF SumTo
  <2> QED BY <1>1, <1>2, <2>1
<1>3. CASE k # 0
  <2>1. k - 1 \in Nat /\ k - 1 \notin Missing
    BY <1>1, <1>3
  <2>2. PICK sum : SumTo(counts, k - 1, sum)
    BY <2>1
  <2> DEFINE more == [j \in 0 .. k |-> IF j = k THEN sum[k - 1] + counts[k] ELSE sum[j]]
  <2>3. \A j \in 0 .. k : more[j] = IF j = 0 THEN 0 ELSE more[j - 1] + counts[j]
    BY <1>3, <2>1, <2>2 DEF SumTo
  <2>4. SumTo(counts, k, more)
    BY <2>3 DEF SumTo
  <2> QED BY <1>1, <2>4
<1> QED BY <1>2, <1>3

(* What Total sums up.                                                     *)
LEMMA TotalIs ==
    ASSUME NEW counts, Len(counts) \in Nat
    PROVE  \E sum : SumTo(counts, Len(counts), sum) /\ Total(counts) = sum[Len(counts)]
<1> DEFINE n == Len(counts)
           sum == CHOOSE s : SumTo(counts, n, s)
<1>1. SumTo(counts, n, sum)
  BY SumExists
<1>2. Total(counts) = sum[n]
  BY DEF Total, SumTo
<1> QED BY <1>1, <1>2

(* A list of smaller numbers has a smaller sum.                            *)
LEMMA TotalGrows ==
    ASSUME NEW a, NEW b, Len(a) \in Nat, Len(b) = Len(a),
           \A i \in 1 .. Len(a) : a[i] \in Nat /\ b[i] \in Nat /\ a[i] <= b[i]
    PROVE  Total(a) \in Nat /\ Total(b) \in Nat /\ Total(a) <= Total(b)
<1>1. PICK s : SumTo(a, Len(a), s) /\ Total(a) = s[Len(a)]
  BY TotalIs
<1>2. PICK t : SumTo(b, Len(a), t) /\ Total(b) = t[Len(a)]
  BY TotalIs
<1> DEFINE Good(k) == s[k] \in Nat /\ t[k] \in Nat /\ s[k] <= t[k]
           Missing == {k \in Nat : k <= Len(a) /\ ~ Good(k)}
<1> SUFFICES ASSUME ~ Good(Len(a)) PROVE FALSE
  BY <1>1, <1>2
<1>3. PICK k \in Missing : \A j \in Missing : k <= j
  <2>1. Missing \in SUBSET Nat /\ Len(a) \in Missing
    OBVIOUS
  <2> HIDE DEF Missing
  <2> QED BY <2>1, LeastElement
<1>4. k \in 0 .. Len(a)
  BY <1>3
<1>5. k # 0
  BY <1>1, <1>2, <1>3, <1>4 DEF SumTo
<1>6. k - 1 \in 0 .. Len(a) /\ k - 1 \notin Missing /\ k \in 1 .. Len(a)
  BY <1>3, <1>4, <1>5
<1>7. Good(k - 1)
  BY <1>6
<1>8. s[k] = s[k - 1] + a[k] /\ t[k] = t[k - 1] + b[k]
  BY <1>1, <1>2, <1>4, <1>5 DEF SumTo
<1> QED BY <1>3, <1>6, <1>7, <1>8

(* A finite set, listed: each member, and no more of them than there are.  *)
LEMMA ListedSet ==
    ASSUME NEW list, Len(list) \in Nat, DOMAIN list = 1 .. Len(list), NEW S,
           \A x : x \in S <=> \E i \in DOMAIN list : list[i] = x
    PROVE  LET again == SetToSeq(S)
           IN  /\ again \in Seq(S)
               /\ Len(again) \in Nat /\ DOMAIN again = 1 .. Len(again)
               /\ Len(again) <= Len(list)
               /\ \A x : x \in S <=> \E i \in DOMAIN again : again[i] = x
<1> DEFINE n == Len(list)
           f == [i \in 1 .. n |-> list[i]]
           again == SetToSeq(S)
<1>1. f \in Surjection(1 .. n, S)
  BY DEF Surjection
<1>2. IsFiniteSet(1 .. n) /\ Cardinality(1 .. n) = n
  <2>1. n \in Int /\ 1 \in Int /\ (1 > n => n = 0) /\ n - 1 + 1 = n
    OBVIOUS
  <2> HIDE DEF n
  <2> QED BY <2>1, FS_Interval
<1>3. IsFiniteSet(S) /\ Cardinality(S) <= n /\ Cardinality(S) \in Nat
  BY <1>1, <1>2, FS_Surjection, FS_CardinalityType
<1>4. PICK g \in [1 .. Cardinality(S) -> S] : IsInjective(g)
  <2>1. PICK g : g \in Bijection(1 .. Cardinality(S), S)
    BY <1>3, FS_CardinalityType DEF ExistsBijection
  <2> QED BY <2>1 DEF Bijection, Injection
<1>5. again \in [1 .. Cardinality(S) -> S] /\ IsInjective(again)
  BY <1>4 DEF SetToSeq
<1>6. again \in Surjection(1 .. Cardinality(S), S)
  <2>1. again \in Injection(1 .. Cardinality(S), S)
    BY <1>5 DEF Injection
  <2>2. Cardinality(1 .. Cardinality(S)) = Cardinality(S)
    BY <1>3, FS_Interval
  <2> QED BY <1>3, <2>1, <2>2, FS_Injection
<1>7. Len(again) = Cardinality(S) /\ DOMAIN again = 1 .. Cardinality(S)
  BY <1>3, <1>5
<1>8. \A x : x \in S <=> \E i \in DOMAIN again : again[i] = x
  <2> HIDE DEF again
  <2>1. \A i \in DOMAIN again : again[i] \in S
    BY <1>5, <1>7
  <2>2. \A x \in S : \E i \in DOMAIN again : again[i] = x
    BY <1>6, <1>7 DEF Surjection
  <2> QED BY <2>1, <2>2
<1>9. again \in Seq(S)
  <2> HIDE DEF again
  <2> DEFINE m == Cardinality(S)
  <2>1. m \in Nat /\ again \in [1 .. m -> S]
    BY <1>3, <1>5
  <2> HIDE DEF m
  <2> QED BY <2>1
<1> QED BY <1>3, <1>7, <1>8, <1>9

(* When a program reads its arguments: before it builds from them, and by  *)
(* the steps of its own constructor.                                       *)
ReadingOK(p, entry, at) ==
    /\ p[at] \in Reading => ~ Past(p, at, "build") /\ ~ Past(p, at, "export")
    /\ p[at] = "selectors" => entry \in Legacy
    /\ p[at] = "parse" => entry = "configured"
    /\ p[at] = "fzf" => entry \in {"fzf", "rank"}
    /\ p[at] = "policy" => entry \notin Legacy \cup {"configured", "fzf", "rank"}
    /\ p[at] = "build" => \E x \in Reading : Past(p, at, x)
    /\ p[at] = "box" /\ entry # "wallbreaker" =>
          Past(p, at, "build") /\ entry \in Legacy \cup {"configured", "fzf"}

(* What a constructor makes of requests it accepts.                        *)
Accepted(entry) ==
    IF entry \in Legacy THEN {create_wfst(raw) : raw \in {r \in Requests : legacy_accepts(r)}}
    ELSE IF entry = "configured"
    THEN {into_construction(raw) : raw \in {r \in Requests : parse_options(r)}}
    ELSE IF entry \in {"fzf", "rank"}
    THEN {fzf_construction(raw) :
             raw \in {r \in FzfRequests : cache_policy(r.selector, r.capacity)}}
    ELSE {PolicyConstruction(p, kind) :
             p \in {q \in Policies : cache_policy(q.selector, q.capacity)},
             kind \in {"WallBreaker", "Phonetic"}}

(* A policy in force: one of the pairs that name a policy, and not the     *)
(* request for a default.                                                  *)
Settled(policy) ==
    /\ policy = [selector |-> policy.selector, capacity |-> policy.capacity]
    /\ cache_policy(policy.selector, policy.capacity)
    /\ policy # Lru(0)

(* A call has read what its constructor accepts, and its resource is the   *)
(* graph of that.                                                          *)
CallOptions(c, res) ==
    /\ (\E x \in Reading : Did(c, x)) => c.construction \in Accepted(c.entry)
    /\ Did(c, "build") => Buildable(c.construction)
    /\ c.resource # 0 => res[c.resource].graph = Graph(c.construction)

(* A handle keeps the options that its resource was built from.            *)
HandleOptions(h, res) ==
    h.options # Nothing =>
       /\ h.state # "freed"
       /\ \E entry \in Legacy \cup {"configured", "fzf"} : \E c \in Accepted(entry) :
             /\ Buildable(c)
             /\ h.options = OwnedOptions(c)
             /\ h.fzf = IF entry = "fzf" THEN c.fzf ELSE Nothing
             /\ res[h.resource].graph = Graph(c)

OptionsInv ==
    /\ \A i \in DOMAIN calls : CallOptions(calls[i], resources)
    /\ \A h \in DOMAIN handles : HandleOptions(handles[h], resources)
    /\ \A r \in DOMAIN resources : Settled(resources[r].policy)

(* Every program reads its arguments in time.                              *)
LEMMA ReadingOrder ==
    \A entry \in DOMAIN Program : \A at \in DOMAIN Program[entry] :
       ReadingOK(Program[entry], entry, at)
<1>1. \A at \in DOMAIN duallity_wfst_new : ReadingOK(duallity_wfst_new, "wfst_new", at)
  <2> DEFINE p == <<"query", "selectors", "snapshot", "inspect", "scope", "build",
                   "check", "export", "slot", "box", "write">>
  <2>1. DOMAIN p = 1 .. 11
    OBVIOUS
  <2>2. \A at \in DOMAIN p : ReadingOK(p, "wfst_new", at)
    BY Counted DEF ReadingOK, Past, Reading, Legacy
  <2> QED BY <2>1, <2>2, NewSteps
<1>2. \A at \in DOMAIN duallity_wfst_new_ref : ReadingOK(duallity_wfst_new_ref, "wfst_new_ref", at)
  <2> DEFINE p == <<"dictionary", "query", "selectors", "snapshot", "inspect", "scope",
                   "build", "check", "export", "slot", "box", "write">>
  <2>1. DOMAIN p = 1 .. 12
    OBVIOUS
  <2>2. \A at \in DOMAIN p : ReadingOK(p, "wfst_new_ref", at)
    BY Counted DEF ReadingOK, Past, Reading, Legacy
  <2> QED BY <2>1, <2>2, NewRefSteps
<1>3. \A at \in DOMAIN duallity_wfst_new_configured_ref : ReadingOK(duallity_wfst_new_configured_ref, "configured", at)
  <2> DEFINE p == <<"slot", "clear", "dictionary", "query", "parse", "snapshot",
                   "inspect", "scope", "build", "check", "export", "box", "write">>
  <2>1. DOMAIN p = 1 .. 13
    OBVIOUS
  <2>2. \A at \in DOMAIN p : ReadingOK(p, "configured", at)
    BY Counted DEF ReadingOK, Past, Reading, Legacy
  <2> QED BY <2>1, <2>2, ConfiguredSteps
<1>4. \A at \in DOMAIN duallity_fzf_wfst_new_ref : ReadingOK(duallity_fzf_wfst_new_ref, "fzf", at)
  <2> DEFINE p == <<"slot", "clear", "dictionary", "query", "fzf", "snapshot", "inspect",
                   "scope", "build", "check", "export", "box", "write">>
  <2>1. DOMAIN p = 1 .. 13
    OBVIOUS
  <2>2. \A at \in DOMAIN p : ReadingOK(p, "fzf", at)
    BY Counted DEF ReadingOK, Past, Reading, Legacy
  <2> QED BY <2>1, <2>2, FzfSteps
<1>5. \A at \in DOMAIN duallity_wallbreaker_wfst_new_results : ReadingOK(duallity_wallbreaker_wfst_new_results, "wallbreaker", at)
  <2> DEFINE p == <<"slot", "clear", "query", "policy", "records", "export", "box",
                   "write">>
  <2>1. DOMAIN p = 1 .. 8
    OBVIOUS
  <2>2. \A at \in DOMAIN p : ReadingOK(p, "wallbreaker", at)
    BY Counted DEF ReadingOK, Past, Reading, Legacy
  <2> QED BY <2>1, <2>2 DEF duallity_wallbreaker_wfst_new_results
<1>6. \A at \in DOMAIN duallity_phonetic_nfa_new : ReadingOK(duallity_phonetic_nfa_new, "phonetic_nfa", at)
  <2> DEFINE p == <<"slot", "clear", "text", "policy", "compile", "export", "into_raw">>
  <2>1. DOMAIN p = 1 .. 7
    OBVIOUS
  <2>2. \A at \in DOMAIN p : ReadingOK(p, "phonetic_nfa", at)
    BY Counted DEF ReadingOK, Past, Reading, Legacy
  <2> QED BY <2>1, <2>2 DEF duallity_phonetic_nfa_new
<1>7. \A at \in DOMAIN duallity_phonetic_product_new_ref : ReadingOK(duallity_phonetic_product_new_ref, "phonetic_product", at)
  <2> DEFINE p == <<"slot", "clear", "dictionary", "text", "policy", "compile",
                   "snapshot", "inspect", "scope", "compile", "check", "export",
                   "into_raw">>
  <2>1. DOMAIN p = 1 .. 13
    OBVIOUS
  <2>2. \A at \in DOMAIN p : ReadingOK(p, "phonetic_product", at)
    BY Counted DEF ReadingOK, Past, Reading, Legacy
  <2> QED BY <2>1, <2>2, ProductSteps
<1>8. \A at \in DOMAIN duallity_phonetic_rewrite_new : ReadingOK(duallity_phonetic_rewrite_new, "phonetic_rewrite", at)
  <2> DEFINE p == <<"slot", "clear", "records", "policy", "text", "compile", "export",
                   "into_raw">>
  <2>1. DOMAIN p = 1 .. 8
    OBVIOUS
  <2>2. \A at \in DOMAIN p : ReadingOK(p, "phonetic_rewrite", at)
    BY Counted DEF ReadingOK, Past, Reading, Legacy
  <2> QED BY <2>1, <2>2 DEF duallity_phonetic_rewrite_new
<1>9. \A at \in DOMAIN duallity_phonetic_rewrite_builtin_new : ReadingOK(duallity_phonetic_rewrite_builtin_new, "phonetic_builtin", at)
  <2> DEFINE p == <<"slot", "clear", "text", "policy", "compile", "export", "into_raw">>
  <2>1. DOMAIN p = 1 .. 7
    OBVIOUS
  <2>2. \A at \in DOMAIN p : ReadingOK(p, "phonetic_builtin", at)
    BY Counted DEF ReadingOK, Past, Reading, Legacy
  <2> QED BY <2>1, <2>2 DEF duallity_phonetic_rewrite_builtin_new
<1>10. \A at \in DOMAIN duallity_fzf_rank_ref : ReadingOK(duallity_fzf_rank_ref, "rank", at)
  <2> DEFINE p == <<"slot", "clear", "dictionary", "query", "fzf", "snapshot", "inspect",
                   "scope", "walk", "check", "rank", "write_ranking">>
  <2>1. DOMAIN p = 1 .. 12
    OBVIOUS
  <2>2. \A at \in DOMAIN p : ReadingOK(p, "rank", at)
    BY Counted DEF ReadingOK, Past, Reading, Legacy
  <2> QED BY <2>1, <2>2, RankSteps
<1>11. \A at \in DOMAIN scalar_state : ReadingOK(scalar_state, "state", at)
  <2> DEFINE p == <<"scope", "walk", "check">>
  <2>1. DOMAIN p = 1 .. 3
    OBVIOUS
  <2>2. \A at \in DOMAIN p : ReadingOK(p, "state", at)
    BY Counted DEF ReadingOK, Past, Reading, Legacy
  <2> QED BY <2>1, <2>2 DEF scalar_state
<1>12. \A at \in DOMAIN generalized_state : ReadingOK(generalized_state, "generalized_state", at)
  <2> DEFINE p == <<"scope", "computation", "walk", "check", "leave", "check">>
  <2>1. DOMAIN p = 1 .. 6
    OBVIOUS
  <2>2. \A at \in DOMAIN p : ReadingOK(p, "generalized_state", at)
    BY Counted DEF ReadingOK, Past, Reading, Legacy
  <2> QED BY <2>1, <2>2 DEF generalized_state
<1> QED
  BY <1>1, <1>2, <1>3, <1>4, <1>5, <1>6, <1>7, <1>8, <1>9, <1>10, <1>11, <1>12 DEF Program

(* A policy that was accepted is settled when it takes effect, and stays   *)
(* as it is when it is passed again.                                       *)
LEMMA EffectiveSettles ==
    ASSUME NEW p, p = [selector |-> p.selector, capacity |-> p.capacity],
           cache_policy(p.selector, p.capacity), NEW kind
    PROVE  Settled(effective(p, kind))
BY OptionsAssumption DEF effective, Settled, cache_policy, Lru, NoCache

LEMMA SettledStays ==
    ASSUME NEW p, Settled(p), NEW kind
    PROVE  effective(p, kind) = p
BY DEF effective, Settled

LEMMA PolicySettles ==
    ASSUME NEW raw, cache_policy(raw.selector, raw.capacity), NEW kind
    PROVE  Settled(effective(Policy(raw), kind))
<1>1. Policy(raw) = [selector |-> raw.selector, capacity |-> raw.capacity]
  BY DEF Policy
<1>2. Policy(raw).selector = raw.selector /\ Policy(raw).capacity = raw.capacity
  BY <1>1
<1> QED BY <1>1, <1>2, EffectiveSettles

(* What is built from accepted arguments starts under a settled policy.    *)
LEMMA AcceptedSettled ==
    ASSUME NEW entry, NEW c \in Accepted(entry)
    PROVE  Settled(c.policy)
<1>1. CASE entry \in Legacy
  <2>1. c.policy = CacheAll
    BY <1>1 DEF Accepted, create_wfst
  <2> QED BY <2>1 DEF CacheAll, Settled, cache_policy, Lru
<1>2. CASE entry \notin Legacy /\ entry = "configured"
  <2>1. PICK raw \in Requests : parse_options(raw) /\ c = into_construction(raw)
    BY <1>2 DEF Accepted
  <2>2. cache_policy(raw.selector, raw.capacity) /\ c.policy = effective(Policy(raw), raw.kind)
    BY <2>1 DEF parse_options, into_construction
  <2> QED BY <2>2, PolicySettles
<1>3. CASE entry \notin Legacy /\ entry # "configured" /\ entry \in {"fzf", "rank"}
  <2>1. PICK raw \in FzfRequests :
           cache_policy(raw.selector, raw.capacity) /\ c = fzf_construction(raw)
    BY <1>3 DEF Accepted
  <2>2. c.policy = effective(Policy(raw), "Fzf")
    BY <2>1 DEF fzf_construction
  <2> QED BY <2>1, <2>2, PolicySettles
<1>4. CASE entry \notin Legacy /\ entry # "configured" /\ entry \notin {"fzf", "rank"}
  <2>1. PICK p \in Policies, kind \in {"WallBreaker", "Phonetic"} :
           cache_policy(p.selector, p.capacity) /\ c = PolicyConstruction(p, kind)
    BY <1>4 DEF Accepted
  <2>2. c.policy = effective(p, "Levenshtein")
    BY <2>1 DEF PolicyConstruction
  <2>3. p = [selector |-> p.selector, capacity |-> p.capacity]
    BY RequestsAssumption
  <2> QED BY <2>1, <2>2, <2>3, EffectiveSettles
<1> QED BY <1>1, <1>2, <1>3, <1>4

----------------------------------------------------------------------------
(* Options read back                                                       *)

(* An accepted operation, read back, is accepted, has no more pairs than   *)
(* it was given and is the same operation.                                 *)
LEMMA OperationReadBack ==
    ASSUME NEW op \in OperationRecords, OperationAccepted(op)
    PROVE  LET again == Inspected(Operation(op))
           IN  /\ OperationAccepted(again)
               /\ Operation(again) = Operation(op)
               /\ again.consume_x = op.consume_x /\ again.consume_y = op.consume_y
               /\ Len(again.restrictions) \in Nat /\ Len(op.restrictions) \in Nat
               /\ Len(again.restrictions) <= Len(op.restrictions)
<1> DEFINE pairs == Range(op.restrictions)
           list == SetToSeq(pairs)
           again == Inspected(Operation(op))
<1>1. /\ op.restrictions \in Seq([source : Seq(STRING), target : Seq(STRING)])
      /\ Len(op.restrictions) \in Nat /\ DOMAIN op.restrictions = 1 .. Len(op.restrictions)
      /\ \A x : x \in pairs <=> \E i \in DOMAIN op.restrictions : op.restrictions[i] = x
  BY DEF OperationRecords, Range
<1>2. /\ list \in Seq(pairs)
      /\ Len(list) \in Nat /\ DOMAIN list = 1 .. Len(list) /\ Len(list) <= Len(op.restrictions)
      /\ \A x : x \in pairs <=> \E i \in DOMAIN list : list[i] = x
  <2> DEFINE given == op.restrictions
  <2>1. /\ Len(given) \in Nat /\ DOMAIN given = 1 .. Len(given)
        /\ \A x : x \in pairs <=> \E i \in DOMAIN given : given[i] = x
    BY <1>1
  <2> HIDE DEF pairs, given
  <2>2. /\ list \in Seq(pairs)
        /\ Len(list) \in Nat /\ DOMAIN list = 1 .. Len(list) /\ Len(list) <= Len(given)
        /\ \A x : x \in pairs <=> \E i \in DOMAIN list : list[i] = x
    BY <2>1, ListedSet
  <2> QED BY <2>2 DEF given
<1>3. /\ again.consume_x = op.consume_x /\ again.consume_y = op.consume_y
      /\ again.weight = op.weight /\ again.applicability = op.applicability
      /\ again.restrictions = list
  BY DEF Inspected, Operation
<1>4. Operation(again) = Operation(op)
  <2>1. Range(list) = pairs
    <3> HIDE DEF list, pairs
    <3> QED BY <1>2 DEF Range
  <2> HIDE DEF again, list, pairs
  <2> QED BY <1>3, <2>1 DEF Operation, pairs
<1>5. OperationAccepted(again)
  <2>1. op.restrictions = <<>> <=> list = <<>>
    <3>1. op.restrictions = <<>> <=> pairs = {}
      <4> DEFINE given == op.restrictions
      <4>1. /\ given \in Seq([source : Seq(STRING), target : Seq(STRING)])
            /\ \A x : x \in pairs <=> \E i \in DOMAIN given : given[i] = x
        BY <1>1
      <4> HIDE DEF pairs, given
      <4>2. ASSUME given = <<>> PROVE pairs = {}
        <5>1. DOMAIN given = {}
          BY <4>2
        <5> QED BY <4>1, <4>2, <5>1
      <4>3. ASSUME given # <<>> PROVE pairs # {}
        <5>1. 1 \in DOMAIN given
          BY <4>1, <4>3
        <5>2. given[1] \in pairs
          BY <4>1, <5>1, Zenon
        <5> QED BY <4>3, <5>2
      <4> QED BY <4>2, <4>3 DEF given
    <3>2. list = <<>> <=> pairs = {}
      <4> HIDE DEF list, pairs
      <4> QED BY <1>2
    <3> QED BY <3>1, <3>2
  <2>2. ASSUME op.applicability = 3, NEW i \in DOMAIN list
        PROVE  /\ list[i].source # <<>> /\ list[i].target # <<>>
               /\ Len(list[i].source) = op.consume_x /\ Len(list[i].target) = op.consume_y
    <3>1. list[i] \in pairs
      BY <1>2
    <3>2. PICK j \in DOMAIN op.restrictions : list[i] = op.restrictions[j]
      <4> HIDE DEF list
      <4> QED BY <1>1, <3>1
    <3> QED BY <2>2, <3>2 DEF OperationAccepted
  <2> HIDE DEF again, list, pairs
  <2> QED BY <1>3, <2>1, <2>2 DEF OperationAccepted
<1> QED BY <1>1, <1>2, <1>3, <1>4, <1>5

(* So are lists of operations, their pairs still within the limit.         *)
LEMMA OperationsReadBack ==
    ASSUME NEW ops \in Seq(OperationRecords), OperationsAccepted(ops)
    PROVE  LET kept == [i \in DOMAIN ops |-> Operation(ops[i])]
               list == [i \in DOMAIN kept |-> Inspected(kept[i])]
           IN  /\ OperationsAccepted(list)
               /\ [i \in DOMAIN list |-> Operation(list[i])] = kept
               /\ ops = <<>> => list = <<>> /\ kept = <<>>
<1> DEFINE kept == [i \in DOMAIN ops |-> Operation(ops[i])]
           list == [i \in DOMAIN kept |-> Inspected(kept[i])]
<1>1. /\ Len(ops) \in Nat /\ DOMAIN ops = 1 .. Len(ops)
      /\ \A i \in DOMAIN ops : ops[i] \in OperationRecords /\ OperationAccepted(ops[i])
  BY DEF OperationsAccepted
<1>2. /\ DOMAIN list = DOMAIN ops /\ DOMAIN kept = DOMAIN ops
      /\ \A i \in DOMAIN ops : list[i] = Inspected(Operation(ops[i])) /\ kept[i] = Operation(ops[i])
  OBVIOUS
<1>3. Len(list) = Len(ops) /\ Len(kept) = Len(ops)
  <2> DEFINE n == Len(ops)
  <2>1. n \in Nat /\ list = [i \in 1 .. n |-> list[i]] /\ kept = [i \in 1 .. n |-> kept[i]]
    BY <1>1, <1>2
  <2> HIDE DEF n, list, kept
  <2>2. Len(list) = n /\ Len(kept) = n
    BY <2>1
  <2> QED BY <2>2 DEF n
<1>4. ASSUME NEW i \in DOMAIN ops
      PROVE  /\ OperationAccepted(list[i]) /\ Operation(list[i]) = kept[i]
             /\ list[i].consume_x = ops[i].consume_x /\ list[i].consume_y = ops[i].consume_y
             /\ Len(list[i].restrictions) \in Nat /\ Len(ops[i].restrictions) \in Nat
             /\ Len(list[i].restrictions) <= Len(ops[i].restrictions)
  <2> HIDE DEF list, kept
  <2> QED BY <1>1, <1>2, OperationReadBack
<1>5. [i \in DOMAIN list |-> Operation(list[i])] = kept
  <2>1. kept = [i \in DOMAIN kept |-> kept[i]]
    OBVIOUS
  <2> HIDE DEF list, kept
  <2> QED BY <1>2, <1>4, <2>1
<1>6. ops = <<>> => list = <<>> /\ kept = <<>>
  OBVIOUS
<1> HIDE DEF list, kept
<1>7. Total([i \in DOMAIN list |-> list[i].consume_x + list[i].consume_y]) =
      Total([i \in DOMAIN ops |-> ops[i].consume_x + ops[i].consume_y])
  <2>1. [i \in DOMAIN list |-> list[i].consume_x + list[i].consume_y] =
        [i \in DOMAIN ops |-> ops[i].consume_x + ops[i].consume_y]
    BY <1>2, <1>4
  <2> QED BY <2>1
<1>8. Total([i \in DOMAIN list |-> Len(list[i].restrictions)]) <= MaxRestrictions
  <2> DEFINE a == [i \in DOMAIN list |-> Len(list[i].restrictions)]
             b == [i \in DOMAIN ops |-> Len(ops[i].restrictions)]
             n == Len(ops)
  <2>1. n \in Nat /\ a = [i \in 1 .. n |-> a[i]] /\ b = [i \in 1 .. n |-> b[i]]
    BY <1>1, <1>2
  <2>2. \A i \in 1 .. n : a[i] \in Nat /\ b[i] \in Nat /\ a[i] <= b[i]
    BY <1>1, <1>2, <1>4
  <2>3. Total(b) <= MaxRestrictions
    BY DEF OperationsAccepted
  <2> HIDE DEF a, b, n
  <2>4. Len(a) = n /\ Len(b) = n
    BY <2>1
  <2>5. Total(a) \in Nat /\ Total(b) \in Nat /\ Total(a) <= Total(b)
    BY <2>1, <2>2, <2>4, TotalGrows
  <2>6. Total(a) <= MaxRestrictions
    BY <2>3, <2>5, OptionsAssumption
  <2> QED BY <2>6 DEF a
<1>9. OperationsAccepted(list)
  <2>1. Len(list) <= MaxOperations
    BY <1>3 DEF OperationsAccepted
  <2>2. Total([i \in DOMAIN list |-> list[i].consume_x + list[i].consume_y]) <= MaxOperations
    BY <1>7 DEF OperationsAccepted
  <2>3. \A i \in DOMAIN list : OperationAccepted(list[i])
    BY <1>2, <1>4
  <2> QED BY <1>8, <2>1, <2>2, <2>3 DEF OperationsAccepted
<1> QED BY <1>5, <1>6, <1>9 DEF list, kept

(* No operation at all is accepted.                                        *)
LEMMA NoOperations == OperationsAccepted(<<>>) /\ <<>> \in Seq(OperationRecords)
<1>1. ASSUME NEW f(_) PROVE Total([i \in DOMAIN <<>> |-> f(i)]) = 0
  <2> DEFINE a == [i \in DOMAIN <<>> |-> f(i)]
  <2>1. a = <<>>
    OBVIOUS
  <2> HIDE DEF a
  <2>2. Len(a) = 0
    BY <2>1
  <2>3. PICK sum : SumTo(a, 0, sum) /\ Total(a) = sum[0]
    BY <2>2, TotalIs
  <2>4. Total(a) = 0
    BY <2>3 DEF SumTo
  <2> QED BY <2>4 DEF a
<1>2. /\ Total([i \in DOMAIN <<>> |-> <<>>[i].consume_x + <<>>[i].consume_y]) = 0
      /\ Total([i \in DOMAIN <<>> |-> Len(<<>>[i].restrictions)]) = 0
  BY <1>1
<1> QED BY <1>2, OptionsAssumption DEF OperationsAccepted


(* The options that a handle gives back are accepted again and build the   *)
(* same graph under the same policy...                                     *)
LEMMA OptionsReadBack ==
    ASSUME NEW entry \in Legacy \cup {"configured"}, NEW c \in Accepted(entry), Buildable(c),
           NEW policy, Settled(policy)
    PROVE  LET raw == readback(OwnedOptions(c), policy)
           IN  /\ parse_options(raw)
               /\ Graph(into_construction(raw)) = Graph(c)
               /\ into_construction(raw).policy = policy
<1> DEFINE list == [i \in DOMAIN c.operations |-> Inspected(c.operations[i])]
           raw == readback(OwnedOptions(c), policy)
           built == into_construction(raw)
           again == [i \in DOMAIN list |-> Operation(list[i])]
<1>1. /\ c.kind \in Kinds /\ c.algorithm \in Algorithms /\ c.fzf = "default"
      /\ c.kind # "Generalized" => c.limits = {} /\ list = <<>>
      /\ \A limits \in c.limits : decode_limits(limits)
      /\ OperationsAccepted(list) /\ again = c.operations
  <2>1. CASE entry \in Legacy
    <3>1. PICK r \in Requests : legacy_accepts(r) /\ c = create_wfst(r)
      BY <2>1 DEF Accepted
    <3>2. c.operations = <<>> /\ c.limits = {} /\ c.fzf = "default"
          /\ c.kind \in Kinds /\ c.algorithm \in Algorithms
      BY <3>1 DEF create_wfst, legacy_accepts
    <3>3. list = <<>>
      BY <3>2
    <3>4. again = c.operations
      <4> HIDE DEF list
      <4> QED BY <3>2, <3>3
    <3> HIDE DEF list, again
    <3> QED BY <3>2, <3>3, <3>4, NoOperations
  <2>2. CASE entry = "configured"
    <3>1. PICK r \in Requests : parse_options(r) /\ c = into_construction(r)
      BY <2>2 DEF Accepted, Legacy
    <3>2. /\ c.kind = r.kind /\ c.algorithm = r.algorithm /\ c.limits = r.limits /\ c.fzf = "default"
          /\ c.operations = [i \in DOMAIN r.operations |-> Operation(r.operations[i])]
      BY <3>1 DEF into_construction
    <3>3. r.operations \in Seq(OperationRecords) /\ OperationsAccepted(r.operations)
      BY <3>1, RequestsAssumption DEF parse_options, OptionRecords
    <3>4. /\ OperationsAccepted(list) /\ again = c.operations
          /\ r.operations = <<>> => list = <<>>
      <4> DEFINE ops == r.operations
                 kept == [i \in DOMAIN ops |-> Operation(ops[i])]
                 back == [i \in DOMAIN kept |-> Inspected(kept[i])]
      <4>1. /\ OperationsAccepted(back)
            /\ [i \in DOMAIN back |-> Operation(back[i])] = kept
            /\ ops = <<>> => back = <<>>
        <5> HIDE DEF ops
        <5> QED BY <3>3, OperationsReadBack DEF ops
      <4>2. list = back /\ again = [i \in DOMAIN back |-> Operation(back[i])] /\ c.operations = kept
        BY <3>2
      <4> HIDE DEF list, back, again, kept
      <4> QED BY <4>1, <4>2
    <3> HIDE DEF list, again
    <3> QED BY <3>1, <3>2, <3>4 DEF parse_options
  <2> QED BY <2>1, <2>2
<1>2. /\ raw.kind = c.kind /\ raw.limits = c.limits /\ raw.operations = list
      /\ raw.algorithm = IF c.kind = "Levenshtein" THEN c.algorithm ELSE 0
      /\ raw.distance = IF c.kind = "Fzf" THEN 0 ELSE c.distance
      /\ raw.selector = policy.selector /\ raw.capacity = policy.capacity
  BY DEF readback, OwnedOptions
<1>3. parse_options(raw)
  <2> HIDE DEF raw, list, again
  <2> QED BY <1>1, <1>2 DEF parse_options, Settled, Buildable, Algorithms
<1>4. Policy(raw) = policy
  <2> HIDE DEF raw
  <2> QED BY <1>2 DEF Policy, Settled
<1>5. built.policy = policy
  <2>1. effective(policy, raw.kind) = policy
    BY SettledStays
  <2> HIDE DEF raw
  <2> QED BY <1>4, <2>1 DEF into_construction
<1>6. Graph(built) = Graph(c)
  <2> HIDE DEF raw, list
  <2>1. /\ built.kind = raw.kind /\ built.algorithm = raw.algorithm
        /\ built.distance = raw.distance /\ built.limits = raw.limits
        /\ built.fzf = "default"
        /\ built.operations = [i \in DOMAIN raw.operations |-> Operation(raw.operations[i])]
    BY DEF into_construction
  <2>2. built.operations = again
    BY <1>2, <2>1
  <2> HIDE DEF built, again
  <2> QED BY <1>1, <1>2, <2>1, <2>2 DEF Graph
<1> QED BY <1>3, <1>5, <1>6

(* ... and so does the configuration of a fuzzy finder handle.             *)
LEMMA FzfReadBack ==
    ASSUME NEW c \in Accepted("fzf"), NEW policy, Settled(policy)
    PROVE  LET raw == fzf_readback(c.fzf, policy)
           IN  /\ cache_policy(raw.selector, raw.capacity)
               /\ Graph(fzf_construction(raw)) = Graph(c)
               /\ fzf_construction(raw).policy = policy
<1> DEFINE raw == fzf_readback(c.fzf, policy)
           built == fzf_construction(raw)
<1>1. raw.fzf = c.fzf /\ raw.selector = policy.selector /\ raw.capacity = policy.capacity
  BY DEF fzf_readback
<1>2. PICK r \in FzfRequests : c = fzf_construction(r)
  BY DEF Accepted, Legacy
<1>3. Policy(raw) = policy
  <2> HIDE DEF raw
  <2> QED BY <1>1 DEF Policy, Settled
<1>4. built.policy = policy
  <2>1. effective(policy, "Fzf") = policy
    BY SettledStays
  <2> HIDE DEF raw
  <2> QED BY <1>3, <2>1 DEF fzf_construction
<1>5. Graph(built) = Graph(c)
  <2> HIDE DEF raw
  <2>1. /\ built.kind = c.kind /\ built.algorithm = c.algorithm /\ built.distance = c.distance
        /\ built.limits = c.limits /\ built.operations = c.operations /\ built.fzf = c.fzf
    BY <1>1, <1>2 DEF fzf_construction
  <2> HIDE DEF built
  <2> QED BY <2>1 DEF Graph
<1>6. cache_policy(raw.selector, raw.capacity)
  <2> HIDE DEF raw
  <2> QED BY <1>1 DEF Settled
<1> QED BY <1>4, <1>5, <1>6

(* What the invariant says of a handle is what its reader relies on.       *)
LEMMA OptionsFollow ==
    ASSUME OwnershipInv, OptionsInv
    PROVE  OptionsRoundTrip
<1> SUFFICES ASSUME NEW h \in DOMAIN handles,
                    handles[h].state = "owned", handles[h].options # Nothing
             PROVE  LET resource == resources[handles[h].resource]
                        raw      == readback(handles[h].options, resource.policy)
                        fzf      == fzf_readback(handles[h].fzf, resource.policy)
                    IN  IF handles[h].fzf = Nothing
                        THEN /\ parse_options(raw)
                             /\ Graph(into_construction(raw)) = resource.graph
                             /\ into_construction(raw).policy = resource.policy
                        ELSE /\ cache_policy(fzf.selector, fzf.capacity)
                             /\ Graph(fzf_construction(fzf)) = resource.graph
                             /\ fzf_construction(fzf).policy = resource.policy
  BY DEF OptionsRoundTrip
<1>1. handles[h].resource \in DOMAIN resources
  BY InvFacts DEF ObjectsOK
<1> DEFINE policy == resources[handles[h].resource].policy
<1>2. Settled(policy)
  BY <1>1 DEF OptionsInv
<1>3. PICK entry \in Legacy \cup {"configured", "fzf"} : \E c \in Accepted(entry) :
          /\ Buildable(c)
          /\ handles[h].options = OwnedOptions(c)
          /\ handles[h].fzf = IF entry = "fzf" THEN c.fzf ELSE Nothing
          /\ resources[handles[h].resource].graph = Graph(c)
  BY DEF OptionsInv, HandleOptions
<1>4. PICK c \in Accepted(entry) :
          /\ Buildable(c)
          /\ handles[h].options = OwnedOptions(c)
          /\ handles[h].fzf = IF entry = "fzf" THEN c.fzf ELSE Nothing
          /\ resources[handles[h].resource].graph = Graph(c)
  BY <1>3
<1> HIDE DEF policy
<1>5. CASE entry = "fzf"
  <2>1. c.fzf # Nothing
    <3>1. PICK r \in FzfRequests : c = fzf_construction(r)
      BY <1>5 DEF Accepted, Legacy
    <3> QED BY <3>1, RequestsAssumption DEF fzf_construction
  <2>2. c \in Accepted("fzf")
    BY <1>5
  <2>3. /\ cache_policy(fzf_readback(c.fzf, policy).selector, fzf_readback(c.fzf, policy).capacity)
        /\ Graph(fzf_construction(fzf_readback(c.fzf, policy))) = Graph(c)
        /\ fzf_construction(fzf_readback(c.fzf, policy)).policy = policy
    BY <1>2, <2>2, FzfReadBack
  <2> QED BY <1>4, <1>5, <2>1, <2>3 DEF policy
<1>6. CASE entry # "fzf"
  <2>1. entry \in Legacy \cup {"configured"}
    BY <1>6
  <2>2. /\ parse_options(readback(OwnedOptions(c), policy))
        /\ Graph(into_construction(readback(OwnedOptions(c), policy))) = Graph(c)
        /\ into_construction(readback(OwnedOptions(c), policy)).policy = policy
    BY <1>2, <1>4, <2>1, OptionsReadBack
  <2> QED BY <1>4, <1>6, <2>2 DEF policy
<1> QED BY <1>5, <1>6


----------------------------------------------------------------------------
(* Options are kept                                                        *)

(* What a handle owns has not been destroyed.                              *)
LEMMA RetainedNext ==
    ASSUME OwnershipInv', NEW h \in DOMAIN handles', handles'[h].state # "freed"
    PROVE  /\ handles'[h].resource \in DOMAIN resources'
           /\ resources'[handles'[h].resource].refs # 0
<1>0. PICK r : r = handles'[h].resource
  OBVIOUS
<1> DEFINE live == {g \in DOMAIN handles' : handles'[g].state # "freed" /\ handles'[g].resource = r}
<1>1. r \in DOMAIN resources'
  BY <1>0 DEF OwnershipInv, ObjectsOK
<1>2. resources'[r].refs = Cardinality(live) + resources'[r].exported + HeldByTop(r)'
  <2>1. \A q \in DOMAIN resources' :
           resources'[q].refs = Cardinality({g \in DOMAIN handles' :
                                   handles'[g].state # "freed" /\ handles'[g].resource = q})
                                + resources'[q].exported + HeldByTop(q)'
    BY DEF OwnershipInv, OwnersCounted, LiveHandles
  <2> QED BY <1>1, <2>1
<1>3. resources'[r] \in ResourceSet
  BY <1>1 DEF OwnershipInv, BoundaryTypes
<1>4. resources'[r].exported \in Nat
  BY <1>3, ResourceFields
<1>5. HeldByTop(r)' \in {0, 1}
  BY DEF HeldByTop
<1>6. Cardinality(live) \in Nat /\ Cardinality(live) # 0
  <2>1. handles' \in Seq(HandleSet)
    BY DEF OwnershipInv, BoundaryTypes
  <2>2. PICK n \in Nat : DOMAIN handles' = 1 .. n
    BY <2>1
  <2>3. IsFiniteSet(1 .. n)
    BY FS_Interval
  <2>4. live \in SUBSET (1 .. n) /\ h \in live
    BY <1>0, <2>2
  <2> HIDE DEF live
  <2>5. IsFiniteSet(live)
    BY <2>3, <2>4, FS_Subset
  <2> QED BY <2>4, <2>5, FS_CardinalityType, FS_EmptySet
<1> HIDE DEF live
<1>7. resources'[r].refs # 0
  BY <1>2, <1>4, <1>5, <1>6
<1> QED BY <1>0, <1>1, <1>7

(* A graph changes when its resource is destroyed, and then nothing is     *)
(* left that refers to it.                                                 *)
LEMMA OptionsKept ==
    ASSUME OptionsInv, OwnershipInv',
           \A r \in DOMAIN resources :
              resources'[r].graph = resources[r].graph \/ resources'[r].refs = 0,
           DOMAIN handles' \subseteq DOMAIN handles, OwnershipInv,
           \A h \in DOMAIN handles' :
              \/ handles'[h].options = Nothing
              \/ /\ handles'[h].options = handles[h].options
                 /\ handles'[h].fzf = handles[h].fzf
                 /\ handles'[h].resource = handles[h].resource
                 /\ handles[h].state # "freed" => handles'[h].state # "freed"
    PROVE  \A h \in DOMAIN handles' : HandleOptions(handles'[h], resources')
<1> SUFFICES ASSUME NEW h \in DOMAIN handles', handles'[h].options # Nothing
             PROVE  HandleOptions(handles'[h], resources')
  BY DEF HandleOptions
<1>1. /\ handles'[h].options = handles[h].options /\ handles'[h].fzf = handles[h].fzf
      /\ handles'[h].resource = handles[h].resource
      /\ handles[h].state # "freed" => handles'[h].state # "freed"
  OBVIOUS
<1>2. h \in DOMAIN handles /\ HandleOptions(handles[h], resources)
  BY DEF OptionsInv
<1>3. handles[h].state # "freed" /\ handles'[h].state # "freed"
  BY <1>1, <1>2 DEF HandleOptions
<1>4. handles[h].resource \in DOMAIN resources
  BY <1>2, <1>3, InvFacts DEF ObjectsOK
<1>5. resources'[handles'[h].resource].refs # 0
  BY <1>3, RetainedNext
<1>6. resources'[handles[h].resource].graph = resources[handles[h].resource].graph
  BY <1>1, <1>4, <1>5
<1> QED BY <1>1, <1>2, <1>3, <1>6 DEF HandleOptions

(* Below the top, and while the innermost call waits, no call holds a      *)
(* resource, so what it has read is all there is to say of it.             *)
LEMMA WaitingOptions ==
    ASSUME NEW c \in CallSet, CallOK(c), Waiting(c), NEW res, NEW new, CallOptions(c, res)
    PROVE  CallOptions(c, new)
BY WaitingOwns DEF CallOptions

LEMMA BelowOptions ==
    ASSUME OwnershipInv, OptionsInv, NEW i \in 1 .. Len(calls) - 1, NEW new
    PROVE  CallOptions(calls[i], new)
<1>1. calls \in Seq(CallSet) /\ CallsOK /\ i \in DOMAIN calls
  BY InvFacts
<1> QED BY <1>1, WaitingAt, WaitingOptions DEF OptionsInv

LEMMA IdleOptions ==
    ASSUME OwnershipInv, OptionsInv, CanCall, NEW i \in DOMAIN calls, NEW new
    PROVE  CallOptions(calls[i], new)
<1>1. /\ calls \in Seq(CallSet) /\ CallsOK /\ calls # <<>>
      /\ DOMAIN calls = 1 .. Len(calls) /\ Len(calls) \in Nat
  BY InvFacts
<1>2. CASE i \in 1 .. Len(calls) - 1
  BY <1>2, BelowOptions
<1>3. CASE i = Len(calls)
  BY <1>1, <1>3, CanCallWaiting, WaitingOptions, TopIn DEF OptionsInv
<1> QED BY <1>1, <1>2, <1>3

(* Nothing has been read when a call begins.                               *)
LEMMA BeginOptions ==
    ASSUME OwnershipInv, OptionsInv, NEW entry, NEW slot, NEW reads, Begin(entry, slot, reads)
    PROVE  OptionsInv'
<1> DEFINE c == [entry |-> entry, at |-> 1, slot |-> slot, construction |-> Nothing,
                 snapshot |-> 0, resource |-> 0, handle |-> 0, reads |-> reads,
                 base |-> Len(frames)]
<1>1. calls' = Append(calls, c) /\ resources' = resources /\ handles' = handles
  BY DEF Begin, objects
<1>2. CallOptions(c, resources)
  <2>1. c.at = 1 /\ c.resource = 0
    OBVIOUS
  <2> HIDE DEF c
  <2>2. \A x : ~ Did(c, x)
    BY <2>1 DEF Did, Past
  <2> QED BY <2>1, <2>2 DEF CallOptions
<1> HIDE DEF c
<1>3. \A i \in DOMAIN calls' : CallOptions(calls'[i], resources')
  <2>1. calls \in Seq(CallSet) /\ Len(calls) \in Nat /\ DOMAIN calls = 1 .. Len(calls)
    BY InvFacts
  <2> TAKE i \in DOMAIN calls'
  <2>2. CASE i \in DOMAIN calls
    BY <1>1, <2>1, <2>2 DEF OptionsInv
  <2>3. CASE i \notin DOMAIN calls
    BY <1>1, <1>2, <2>1, <2>3
  <2> QED BY <2>2, <2>3
<1> QED BY <1>1, <1>3 DEF OptionsInv


(* A step of the innermost call that leaves all objects alone.             *)
LEMMA GoOptions ==
    ASSUME OwnershipInv, OptionsInv, NEW step, Now(step), NEW c \in CallSet, Go(c),
           UNCHANGED objects,
           c.entry = Top.entry, c.at = Top.at, c.resource = Top.resource,
           \/ step \notin Reading /\ c.construction = Top.construction
           \/ step \in Reading /\ c.construction \in Accepted(Top.entry),
           step = "build" => Buildable(c.construction)
    PROVE  OptionsInv'
<1>1. /\ calls # <<>> /\ Top \in CallSet /\ AtStep(Top) /\ CallOK(Top)
      /\ step = Program[Top.entry][Top.at] /\ calls \in Seq(CallSet)
      /\ Len(calls) \in Nat \ {0} /\ DOMAIN calls = 1 .. Len(calls) /\ Top = calls[Len(calls)]
  BY InvFacts, NowFacts DEF Top
<1>2. PICK n \in CallSet :
              /\ n.entry = c.entry /\ n.at = c.at + 1
              /\ n.construction = c.construction /\ n.resource = c.resource
              /\ calls' \in Seq(CallSet) /\ Len(calls') = Len(calls) /\ calls' # <<>>
              /\ \A i \in 1 .. Len(calls) - 1 : calls'[i] = calls[i]
              /\ calls'[Len(calls)] = n
  BY <1>1, GoShape
<1>3. resources' = resources /\ handles' = handles
  BY DEF objects
<1>4. \A x : Did(n, x) <=> Did(Top, x) \/ step = x
  BY <1>1, <1>2, Taken
<1>5. ReadingOK(Program[Top.entry], Top.entry, Top.at)
  BY <1>1, CallFields, ReadingOrder DEF AtStep
<1>6. CallOptions(Top, resources)
  BY <1>1 DEF OptionsInv
<1>7. CallOptions(n, resources)
  <2>1. CASE step \in Reading
    <3>1. ~ Did(Top, "build") /\ ~ Did(Top, "export") /\ step # "build"
      BY <1>1, <1>5, <2>1 DEF ReadingOK, Did, Reading
    <3>2. Top.resource = 0
      BY <1>1, <3>1 DEF CallOK
    <3>3. ~ Did(n, "build")
      BY <1>4, <3>1
    <3>4. step \in Reading /\ n.construction \in Accepted(n.entry) /\ n.resource = 0
      BY <1>2, <2>1, <3>2
    <3> QED BY <3>3, <3>4 DEF CallOptions
  <2>2. CASE step \notin Reading
    <3>1. n.construction = Top.construction /\ n.entry = Top.entry /\ n.resource = Top.resource
      BY <1>2, <2>2
    <3>2. (\E x \in Reading : Did(n, x)) => \E x \in Reading : Did(Top, x)
      BY <1>4, <2>2
    <3>3. Did(n, "build") => Did(Top, "build") \/ Buildable(n.construction)
      BY <1>2, <1>4
    <3> QED BY <1>6, <3>1, <3>2, <3>3 DEF CallOptions
  <2> QED BY <2>1, <2>2
<1>8. \A i \in DOMAIN calls' : CallOptions(calls'[i], resources)
  <2> TAKE i \in DOMAIN calls'
  <2>1. i \in 1 .. Len(calls) - 1 \/ i = Len(calls)
    BY <1>1, <1>2
  <2>2. CASE i \in 1 .. Len(calls) - 1
    BY <1>2, <2>2, BelowOptions
  <2> QED BY <1>2, <1>7, <2>1, <2>2
<1> QED BY <1>3, <1>8 DEF OptionsInv

(* A step of the innermost call that only moves it on.                     *)
LEMMA PlainOptions ==
    ASSUME OwnershipInv, OptionsInv, NEW step, Now(step), Go(Top), UNCHANGED objects,
           step \notin Reading \cup {"build"}
    PROVE  OptionsInv'
BY InvFacts, NowFacts, GoOptions

(* What a resource with one retain less keeps.                             *)
LEMMA WithoutOptions ==
    ASSUME OwnershipInv, OptionsInv, NEW k \in DOMAIN resources, resources[k].refs >= 1
    PROVE  /\ DOMAIN Without(k) = DOMAIN resources
           /\ \A r \in DOMAIN resources :
                 /\ Without(k)[r].graph = resources[r].graph \/ Without(k)[r].refs = 0
                 /\ Settled(Without(k)[r].policy)
<1>1. resources \in Seq(ResourceSet) /\ \A r \in DOMAIN resources : Settled(resources[r].policy)
  BY InvFacts DEF OptionsInv
<1>2. /\ DOMAIN Without(k) = DOMAIN resources
      /\ \A r \in DOMAIN resources \ {k} : Without(k)[r] = resources[r]
      /\ resources[k].refs # 1 => Without(k)[k] = [resources[k] EXCEPT !.refs = @ - 1]
  BY <1>1, WithoutShape
<1>3. CASE resources[k].refs = 1
  <2>1. Without(k)[k] = Destroyed
    BY <1>3 DEF Without, Dropped
  <2>2. Destroyed.refs = 0 /\ Settled(Destroyed.policy)
    BY DEF Destroyed, CacheAll, Settled, cache_policy, Lru
  <2> QED BY <1>1, <1>2, <2>1, <2>2
<1>4. CASE resources[k].refs # 1
  <2>1. resources[k] \in ResourceSet
    BY <1>1
  <2>2. /\ Without(k)[k].graph = resources[k].graph
        /\ Without(k)[k].policy = resources[k].policy
    BY <1>2, <1>4, <2>1 DEF ResourceSet
  <2> QED BY <1>1, <1>2, <2>2
<1> QED BY <1>3, <1>4

(* A call that returns.                                                    *)
LEMMA ReturnOptions ==
    ASSUME OwnershipInv, OptionsInv, OwnershipInv', calls # <<>>, NEW ok, Return(ok)
    PROVE  OptionsInv'
<1>0. PICK c : c = Top
  OBVIOUS
<1>1. /\ calls' = SubSeq(calls, 1, Len(calls) - 1)
      /\ resources' = IF c.resource = 0 THEN resources ELSE Without(c.resource)
      /\ handles' = IF ok /\ c.slot.is = "handle"
                    THEN [handles EXCEPT ![c.slot.id].state = "owned"] ELSE handles
  BY <1>0 DEF Return
<1>2. /\ calls \in Seq(CallSet) /\ c \in CallSet /\ HoldingsOK(c)
      /\ Len(calls) \in Nat \ {0} /\ DOMAIN calls = 1 .. Len(calls)
  BY <1>0, InvFacts, TopIn DEF CallsOK
<1>3. c.resource # 0 => c.resource \in DOMAIN resources /\ resources[c.resource].refs >= 1
  <2> SUFFICES ASSUME c.resource # 0
               PROVE  c.resource \in DOMAIN resources /\ resources[c.resource].refs >= 1
    OBVIOUS
  <2>1. c.resource \in DOMAIN resources
    BY <1>2 DEF HoldingsOK
  <2>2. HeldByTop(c.resource) = 1
    BY <1>0 DEF HeldByTop
  <2> QED BY <2>1, <2>2, RetainedBy
<1>4. /\ DOMAIN resources' = DOMAIN resources
      /\ \A r \in DOMAIN resources :
            /\ resources'[r].graph = resources[r].graph \/ resources'[r].refs = 0
            /\ Settled(resources'[r].policy)
  <2>1. CASE c.resource = 0
    BY <1>1, <2>1 DEF OptionsInv
  <2>2. CASE c.resource # 0
    BY <1>1, <1>3, <2>2, WithoutOptions
  <2> QED BY <2>1, <2>2
<1>5. /\ DOMAIN handles' = DOMAIN handles
      /\ \A h \in DOMAIN handles :
            /\ handles'[h].options = handles[h].options /\ handles'[h].fzf = handles[h].fzf
            /\ handles'[h].resource = handles[h].resource
            /\ handles[h].state # "freed" => handles'[h].state # "freed"
  <2>1. \A h \in DOMAIN handles : handles[h] \in HandleSet
    BY InvFacts
  <2> QED BY <1>1, <2>1 DEF HandleSet
<1>6. \A h \in DOMAIN handles' : HandleOptions(handles'[h], resources')
  BY <1>4, <1>5, OptionsKept
<1>7. \A i \in DOMAIN calls' : CallOptions(calls'[i], resources')
  <2> TAKE i \in DOMAIN calls'
  <2>1. i \in 1 .. Len(calls) - 1 /\ calls'[i] = calls[i]
    BY <1>1, <1>2
  <2> QED BY <2>1, BelowOptions
<1> QED BY <1>4, <1>6, <1>7 DEF OptionsInv


(* Steps of the innermost call that change the objects: what the call has  *)
(* read stays, and it is enough to look at the resource.                   *)
LEMMA TopOptions ==
    ASSUME OwnershipInv, OptionsInv, NEW step, Now(step), NEW c \in CallSet, Go(c),
           c.entry = Top.entry, c.at = Top.at, c.construction = Top.construction,
           step \notin Reading \cup {"build"}, NEW res,
           c.resource # 0 => res[c.resource].graph = Graph(c.construction)
    PROVE  \A i \in DOMAIN calls' : CallOptions(calls'[i], res)
<1>1. /\ calls # <<>> /\ Top \in CallSet /\ AtStep(Top)
      /\ step = Program[Top.entry][Top.at] /\ calls \in Seq(CallSet)
      /\ Len(calls) \in Nat \ {0} /\ DOMAIN calls = 1 .. Len(calls) /\ Top = calls[Len(calls)]
  BY InvFacts, NowFacts DEF Top
<1>2. PICK n \in CallSet :
              /\ n.entry = c.entry /\ n.at = c.at + 1
              /\ n.construction = c.construction /\ n.resource = c.resource
              /\ calls' \in Seq(CallSet) /\ Len(calls') = Len(calls) /\ calls' # <<>>
              /\ \A i \in 1 .. Len(calls) - 1 : calls'[i] = calls[i]
              /\ calls'[Len(calls)] = n
  BY <1>1, GoShape
<1>3. \A x : Did(n, x) <=> Did(Top, x) \/ step = x
  BY <1>1, <1>2, Taken
<1>4. CallOptions(Top, resources)
  BY <1>1 DEF OptionsInv
<1>5. CallOptions(n, res)
  <2>1. (\E x \in Reading : Did(n, x)) => \E x \in Reading : Did(Top, x)
    BY <1>3
  <2>2. Did(n, "build") => Did(Top, "build")
    BY <1>3
  <2> QED BY <1>2, <1>4, <2>1, <2>2 DEF CallOptions
<1> TAKE i \in DOMAIN calls'
<1>6. i \in 1 .. Len(calls) - 1 \/ i = Len(calls)
  BY <1>1, <1>2
<1>7. CASE i \in 1 .. Len(calls) - 1
  BY <1>2, <1>7, BelowOptions
<1> QED BY <1>2, <1>5, <1>6, <1>7

(* A call that exports has read its arguments.                             *)
LEMMA ReadBefore ==
    ASSUME OwnershipInv, OptionsInv, NEW step \in {"export", "box"}, Now(step)
    PROVE  Top.construction \in Accepted(Top.entry)
<1>1. /\ Top \in CallSet /\ AtStep(Top) /\ Program[Top.entry][Top.at] = step
      /\ StepOK(Program[Top.entry], Top.entry, Top.at)
      /\ calls # <<>> /\ Len(calls) \in DOMAIN calls /\ Top = calls[Len(calls)]
  BY InvFacts, NowFacts, TopIn
<1>2. \E x \in Reading : Did(Top, x)
  BY <1>1 DEF StepOK, Did
<1> QED BY <1>1, <1>2 DEF OptionsInv, CallOptions

(* The resource is the graph of what the call has read.                    *)
LEMMA ExportOptions ==
    ASSUME OwnershipInv, OptionsInv, OwnershipInv', Export
    PROVE  OptionsInv'
<1>0. PICK k \in Nat : k = Len(resources) + 1
  BY InvFacts
<1> DEFINE c == [Top EXCEPT !.resource = k, !.snapshot = 0]
           new == [refs |-> 1, exported |-> 0, snapshot |-> Top.snapshot,
                   graph |-> Graph(Top.construction), policy |-> Top.construction.policy]
<1>1. Now("export") /\ resources' = Append(resources, new) /\ Go(c) /\ handles' = handles
  BY <1>0 DEF Export
<1>2. Top \in CallSet
  BY <1>1, InvFacts, NowFacts
<1>3. /\ c \in CallSet /\ c.entry = Top.entry /\ c.at = Top.at
      /\ c.construction = Top.construction /\ c.resource = k
  BY <1>2 DEF CallSet
<1>4. Top.construction \in Accepted(Top.entry)
  BY <1>1, ReadBefore
<1>5. new.graph = Graph(Top.construction) /\ Settled(new.policy)
  BY <1>4, AcceptedSettled
<1> HIDE DEF c, new
<1>6. /\ DOMAIN resources' = 1 .. k /\ resources'[k] = new
      /\ DOMAIN resources = 1 .. k - 1
      /\ \A r \in DOMAIN resources : resources'[r] = resources[r]
  BY <1>0, <1>1, InvFacts
<1>7. \A r \in DOMAIN resources' : Settled(resources'[r].policy)
  <2> TAKE r \in DOMAIN resources'
  <2>1. r \in DOMAIN resources \/ r = k
    BY <1>6
  <2> QED BY <1>5, <1>6, <2>1 DEF OptionsInv
<1>8. \A h \in DOMAIN handles' : HandleOptions(handles'[h], resources')
  BY <1>1, <1>6, OptionsKept
<1>9. \A i \in DOMAIN calls' : CallOptions(calls'[i], resources')
  <2>1. "export" \notin Reading \cup {"build"}
    BY DEF Reading
  <2> QED BY <1>1, <1>3, <1>5, <1>6, <2>1, TopOptions
<1> QED BY <1>7, <1>8, <1>9 DEF OptionsInv

(* The handle keeps the options the resource was built from.               *)
LEMMA BoxOptions ==
    ASSUME OwnershipInv, OptionsInv, OwnershipInv', BoxHandle
    PROVE  OptionsInv'
<1>0. PICK k \in Nat : k = Len(handles) + 1
  BY InvFacts
<1> DEFINE c == [Top EXCEPT !.handle = k, !.resource = 0]
           options == IF Top.entry = "wallbreaker" THEN Nothing ELSE OwnedOptions(Top.construction)
           fzf == IF Top.entry = "fzf" THEN Top.construction.fzf ELSE Nothing
           new == [state |-> "boxed", resource |-> Top.resource, options |-> options, fzf |-> fzf]
<1>1. /\ Now("box") /\ handles' = Append(handles, new) /\ Go(c) /\ resources' = resources
  BY <1>0 DEF BoxHandle
<1>2. /\ Top \in CallSet /\ AtStep(Top) /\ CallOK(Top)
      /\ Program[Top.entry][Top.at] = "box"
      /\ StepOK(Program[Top.entry], Top.entry, Top.at)
      /\ Top = calls[Len(calls)] /\ Len(calls) \in DOMAIN calls
  BY <1>1, InvFacts, NowFacts, TopIn
<1>3. /\ c \in CallSet /\ c.entry = Top.entry /\ c.at = Top.at
      /\ c.construction = Top.construction /\ c.resource = 0
  BY <1>2 DEF CallSet
<1>4. Top.construction \in Accepted(Top.entry)
  BY <1>1, ReadBefore
<1>5. CallOptions(Top, resources)
  BY <1>2 DEF OptionsInv
<1>6. Top.resource # 0
  <2>1. /\ Did(Top, "export") /\ ~ Did(Top, "box") /\ ~ Did(Top, "into_raw")
    BY <1>2 DEF StepOK, Did, Single, Writes
  <2> QED BY <1>2, <2>1 DEF CallOK
<1>7. HandleOptions(new, resources)
  <2> SUFFICES ASSUME new.options # Nothing PROVE HandleOptions(new, resources)
    BY DEF HandleOptions
  <2>1. Top.entry # "wallbreaker" /\ new.options = OwnedOptions(Top.construction)
    OBVIOUS
  <2>2. ReadingOK(Program[Top.entry], Top.entry, Top.at)
    BY <1>2, CallFields, ReadingOrder DEF AtStep
  <2>3. Did(Top, "build") /\ Top.entry \in Legacy \cup {"configured", "fzf"}
    BY <1>2, <2>1, <2>2 DEF ReadingOK, Did
  <2>4. Buildable(Top.construction) /\ resources[Top.resource].graph = Graph(Top.construction)
    BY <1>5, <1>6, <2>3 DEF CallOptions
  <2>5. new.state # "freed" /\ new.resource = Top.resource
        /\ new.fzf = IF Top.entry = "fzf" THEN Top.construction.fzf ELSE Nothing
    OBVIOUS
  <2> HIDE DEF new
  <2> QED BY <1>4, <2>1, <2>3, <2>4, <2>5 DEF HandleOptions
<1> HIDE DEF c, new
<1>8. \A h \in DOMAIN handles' : HandleOptions(handles'[h], resources')
  <2> TAKE h \in DOMAIN handles'
  <2>1. /\ DOMAIN handles' = 1 .. k /\ handles'[k] = new
        /\ DOMAIN handles = 1 .. k - 1
        /\ \A g \in DOMAIN handles : handles'[g] = handles[g]
    BY <1>0, <1>1, InvFacts
  <2>2. h \in DOMAIN handles \/ h = k
    BY <2>1
  <2> QED BY <1>1, <1>7, <2>1, <2>2 DEF OptionsInv
<1>9. \A i \in DOMAIN calls' : CallOptions(calls'[i], resources')
  <2>1. "box" \notin Reading \cup {"build"}
    BY DEF Reading
  <2> QED BY <1>1, <1>3, <2>1, TopOptions
<1> QED BY <1>1, <1>8, <1>9 DEF OptionsInv


(* A resource that one step changes in its counters or its policy.         *)
LEMMA ChangedOptions ==
    ASSUME OptionsInv, OwnershipInv, OwnershipInv', handles' = handles,
           NEW k, NEW new, resources' = [resources EXCEPT ![k] = new],
           k \in DOMAIN resources => new.graph = resources[k].graph /\ Settled(new.policy)
    PROVE  /\ \A r \in DOMAIN resources' : Settled(resources'[r].policy)
           /\ \A h \in DOMAIN handles' : HandleOptions(handles'[h], resources')
           /\ \A r \in DOMAIN resources : resources'[r].graph = resources[r].graph
<1>1. /\ DOMAIN resources' = DOMAIN resources
      /\ \A r \in DOMAIN resources : resources'[r] = IF r = k THEN new ELSE resources[r]
  OBVIOUS
<1>2. \A r \in DOMAIN resources : /\ resources'[r].graph = resources[r].graph
                                  /\ Settled(resources'[r].policy)
  BY <1>1 DEF OptionsInv
<1>3. \A h \in DOMAIN handles' : HandleOptions(handles'[h], resources')
  BY <1>2, OptionsKept
<1> QED BY <1>1, <1>2, <1>3

LEMMA IntoRawOptions ==
    ASSUME OwnershipInv, OptionsInv, OwnershipInv', IntoRaw
    PROVE  OptionsInv'
<1>0. PICK k : k = Top.resource
  OBVIOUS
<1> DEFINE new == [resources[k] EXCEPT !.exported = @ + 1]
           c == [Top EXCEPT !.slot = Slot("resource", k), !.resource = 0]
<1>1. /\ Now("into_raw") /\ resources' = [resources EXCEPT ![k].exported = @ + 1]
      /\ Go(c) /\ handles' = handles
  BY <1>0 DEF IntoRaw
<1>2. Top \in CallSet
  BY <1>1, InvFacts, NowFacts
<1>3. /\ c \in CallSet /\ c.entry = Top.entry /\ c.at = Top.at
      /\ c.construction = Top.construction /\ c.resource = 0
  <2>1. Slot("resource", k) \in SlotSet
    BY <1>0, <1>2, CallFields DEF Slot, SlotSet
  <2> QED BY <1>2, <2>1 DEF CallSet
<1>4. resources' = [resources EXCEPT ![k] = new]
  BY <1>1
<1>5. k \in DOMAIN resources => new.graph = resources[k].graph /\ Settled(new.policy)
  <2> SUFFICES ASSUME k \in DOMAIN resources
               PROVE  new.graph = resources[k].graph /\ Settled(new.policy)
    OBVIOUS
  <2>1. resources[k] \in ResourceSet /\ Settled(resources[k].policy)
    BY InvFacts DEF OptionsInv
  <2>2. new.graph = resources[k].graph /\ new.policy = resources[k].policy
    BY <2>1 DEF ResourceSet
  <2> QED BY <2>1, <2>2
<1> HIDE DEF c, new
<1>6. /\ \A r \in DOMAIN resources' : Settled(resources'[r].policy)
      /\ \A h \in DOMAIN handles' : HandleOptions(handles'[h], resources')
  <2>1. handles' = handles
    BY <1>1
  <2> QED BY <1>4, <1>5, <2>1, ChangedOptions
<1>7. \A i \in DOMAIN calls' : CallOptions(calls'[i], resources')
  <2>1. "into_raw" \notin Reading \cup {"build"}
    BY DEF Reading
  <2> QED BY <1>1, <1>3, <2>1, TopOptions
<1> QED BY <1>6, <1>7 DEF OptionsInv

(* Operations on what was handed out change no call.                       *)
LEMMA OperationOptions ==
    ASSUME OwnershipInv, OptionsInv, CanCall, calls' = calls,
           \A r \in DOMAIN resources' : Settled(resources'[r].policy),
           \A h \in DOMAIN handles' : HandleOptions(handles'[h], resources')
    PROVE  OptionsInv'
<1>1. \A i \in DOMAIN calls' : CallOptions(calls'[i], resources')
  BY IdleOptions
<1> QED BY <1>1 DEF OptionsInv

LEMMA FreeOptions ==
    ASSUME OwnershipInv, OptionsInv, OwnershipInv', NEW h \in DOMAIN handles, duallity_wfst_free(h)
    PROVE  OptionsInv'
<1>0. PICK k : k = handles[h].resource
  OBVIOUS
<1>1. /\ CanCall /\ handles[h].state = "owned" /\ calls' = calls
      /\ handles' = [handles EXCEPT ![h] = [state |-> "freed", resource |-> 0,
                                            options |-> Nothing, fzf |-> Nothing]]
      /\ resources' = Without(k)
  BY <1>0 DEF duallity_wfst_free
<1>2. k \in DOMAIN resources /\ h \in LiveHandles(k)
  BY <1>0, <1>1, InvFacts DEF ObjectsOK, LiveHandles
<1>3. resources[k].refs >= 1
  BY <1>2, RetainedBy
<1>4. /\ DOMAIN resources' = DOMAIN resources
      /\ \A r \in DOMAIN resources :
            /\ resources'[r].graph = resources[r].graph \/ resources'[r].refs = 0
            /\ Settled(resources'[r].policy)
  BY <1>1, <1>2, <1>3, WithoutOptions
<1>5. /\ DOMAIN handles' = DOMAIN handles
      /\ \A g \in DOMAIN handles : g # h => handles'[g] = handles[g]
      /\ handles'[h].options = Nothing
  BY <1>1
<1>6. \A g \in DOMAIN handles' : HandleOptions(handles'[g], resources')
  BY <1>4, <1>5, OptionsKept
<1> QED BY <1>1, <1>4, <1>6, OperationOptions

LEMMA ReleaseOptions ==
    ASSUME OwnershipInv, OptionsInv, OwnershipInv', NEW k \in DOMAIN resources,
           duallity_resource_release(k)
    PROVE  OptionsInv'
<1>1. /\ CanCall /\ resources[k].exported > 0 /\ calls' = calls /\ handles' = handles
      /\ resources' = IF resources[k].refs = 1 THEN Without(k)
                      ELSE [Without(k) EXCEPT ![k].exported = @ - 1]
  BY DEF duallity_resource_release
<1>2. resources[k].refs >= 1
  BY <1>1, RetainedBy
<1>3. /\ DOMAIN Without(k) = DOMAIN resources
      /\ \A r \in DOMAIN resources :
            /\ Without(k)[r].graph = resources[r].graph \/ Without(k)[r].refs = 0
            /\ Settled(Without(k)[r].policy)
      /\ Without(k) \in Seq(ResourceSet)
  BY <1>2, WithoutOptions, WithoutShape, InvFacts
<1>4. /\ DOMAIN resources' = DOMAIN resources
      /\ \A r \in DOMAIN resources :
            /\ resources'[r].graph = Without(k)[r].graph
            /\ resources'[r].refs = Without(k)[r].refs
            /\ resources'[r].policy = Without(k)[r].policy
  <2>1. \A r \in DOMAIN resources : Without(k)[r] \in ResourceSet
    BY <1>3
  <2> QED BY <1>1, <1>3, <2>1 DEF ResourceSet
<1>5. \A h \in DOMAIN handles' : HandleOptions(handles'[h], resources')
  BY <1>1, <1>3, <1>4, OptionsKept
<1> QED BY <1>1, <1>3, <1>4, <1>5, OperationOptions

LEMMA ResourceOptions ==
    ASSUME OwnershipInv, OptionsInv, OwnershipInv', NEW h \in DOMAIN handles,
           duallity_wfst_resource(h)
    PROVE  OptionsInv'
<1>0. PICK k : k = handles[h].resource
  OBVIOUS
<1> DEFINE new == [resources[k] EXCEPT !.refs = @ + 1, !.exported = @ + 1]
<1>1. /\ CanCall /\ handles[h].state = "owned" /\ resources' = Retained(k, 1)
      /\ calls' = calls /\ handles' = handles
  BY <1>0 DEF duallity_wfst_resource
<1>2. k \in DOMAIN resources
  BY <1>0, <1>1, InvFacts DEF ObjectsOK
<1>3. resources[k] \in ResourceSet /\ resources \in Seq(ResourceSet) /\ Settled(resources[k].policy)
  BY <1>2, InvFacts DEF OptionsInv
<1>4. resources' = [resources EXCEPT ![k] = new]
  BY <1>1, <1>2, <1>3 DEF Retained, ResourceSet
<1>5. new.graph = resources[k].graph /\ Settled(new.policy)
  BY <1>3 DEF ResourceSet
<1> HIDE DEF new
<1>6. /\ \A r \in DOMAIN resources' : Settled(resources'[r].policy)
      /\ \A g \in DOMAIN handles' : HandleOptions(handles'[g], resources')
  BY <1>1, <1>4, <1>5, ChangedOptions
<1> QED BY <1>1, <1>6, OperationOptions

LEMMA PolicyOptions ==
    ASSUME OwnershipInv, OptionsInv, OwnershipInv', NEW h \in DOMAIN handles, NEW p \in Policies,
           duallity_wfst_cache_set_policy(h, p)
    PROVE  OptionsInv'
<1>0. PICK k, kind : /\ k = handles[h].resource
                     /\ kind = IF handles[h].options = Nothing THEN "Levenshtein"
                               ELSE handles[h].options.kind
  OBVIOUS
<1> DEFINE new == [resources[k] EXCEPT !.policy = effective(p, kind)]
<1>1. /\ CanCall /\ handles[h].state = "owned" /\ cache_policy(p.selector, p.capacity)
      /\ resources' = [resources EXCEPT ![k].policy = effective(p, kind)]
      /\ calls' = calls /\ handles' = handles
  BY <1>0 DEF duallity_wfst_cache_set_policy
<1>2. k \in DOMAIN resources
  BY <1>0, <1>1, InvFacts DEF ObjectsOK
<1>3. Settled(effective(p, kind))
  <2>1. p = [selector |-> p.selector, capacity |-> p.capacity]
    BY RequestsAssumption
  <2> QED BY <1>1, <2>1, EffectiveSettles
<1>4. new.graph = resources[k].graph /\ Settled(new.policy)
  <2>1. resources[k] \in ResourceSet
    BY <1>2, InvFacts
  <2> QED BY <1>3, <2>1 DEF ResourceSet
<1>5. resources' = [resources EXCEPT ![k] = new]
  BY <1>1
<1> HIDE DEF new
<1>6. /\ \A r \in DOMAIN resources' : Settled(resources'[r].policy)
      /\ \A g \in DOMAIN handles' : HandleOptions(handles'[g], resources')
  <2>1. handles' = handles
    BY <1>1
  <2> QED BY <1>4, <1>5, <2>1, ChangedOptions
<1> QED BY <1>1, <1>6, OperationOptions

(* Reading the arguments, accepted or refused.                             *)
LEMMA SettleOptions ==
    ASSUME OwnershipInv, OptionsInv, OwnershipInv', NEW step \in Reading, Now(step),
           NEW accepted \in BOOLEAN, NEW construction \in Constructions,
           Settle(accepted, construction),
           accepted => construction \in Accepted(Top.entry)
    PROVE  OptionsInv'
<1>1. Top \in CallSet /\ calls # <<>>
  BY InvFacts, NowFacts
<1>2. CASE accepted
  <2> DEFINE c == [Top EXCEPT !.construction = construction]
  <2>1. Go(c) /\ UNCHANGED objects
    BY <1>2 DEF Settle
  <2>2. /\ c \in CallSet /\ c.entry = Top.entry /\ c.at = Top.at
        /\ c.construction = construction /\ c.resource = Top.resource
    BY <1>1 DEF CallSet
  <2> HIDE DEF c
  <2>3. step # "build"
    BY DEF Reading
  <2> QED BY <1>2, <2>1, <2>2, <2>3, GoOptions
<1>3. CASE ~ accepted
  <2>1. Refuse
    BY <1>3 DEF Settle
  <2> QED BY <1>1, <2>1, ReturnOptions DEF Refuse
<1> QED BY <1>2, <1>3


(* Every step keeps what handles say of their graphs.                      *)
LEMMA NextOptions ==
    ASSUME OwnershipInv, OptionsInv, OwnershipInv', [Next]_vars
    PROVE  OptionsInv'
<1>1. ASSUME NEW entry, Construct(entry) PROVE OptionsInv'
  BY <1>1, BeginOptions DEF Construct
<1>2. ASSUME NEW r, ReadState(r) PROVE OptionsInv'
  BY <1>2, BeginOptions DEF ReadState
<1>3. ASSUME NEW r \in DOMAIN resources, duallity_resource_release(r) PROVE OptionsInv'
  BY <1>3, ReleaseOptions
<1>4. CASE Pass
  BY <1>4, PlainOptions DEF Pass, Checks, Reading
<1>5. ASSUME calls # <<>>, Refuse PROVE OptionsInv'
  BY <1>5, ReturnOptions DEF Refuse
<1>6. ASSUME NEW step, Now(step) PROVE calls # <<>>
  BY <1>6 DEF Now
<1>7. CASE RefuseCheck
  BY <1>5, <1>6, <1>7 DEF RefuseCheck
<1>8. CASE output
  BY <1>5, <1>6, <1>8, PlainOptions DEF output, Reading
<1>9. ASSUME NEW step, step \notin Reading \cup {"build"}, Now(step), NEW slot \in SlotSet,
             Go([Top EXCEPT !.slot = slot]), UNCHANGED objects
      PROVE  OptionsInv'
  <2> DEFINE c == [Top EXCEPT !.slot = slot]
  <2>1. Top \in CallSet
    BY <1>9, InvFacts, NowFacts
  <2>2. /\ c \in CallSet /\ c.entry = Top.entry /\ c.at = Top.at
        /\ c.construction = Top.construction /\ c.resource = Top.resource
    BY <2>1 DEF CallSet
  <2>3. Go(c)
    BY <1>9
  <2> HIDE DEF c
  <2> QED BY <1>9, <2>2, <2>3, GoOptions
<1>10. CASE owned_output
  <2>1. Slot("null", 0) \in SlotSet
    BY DEF Slot, SlotSet
  <2>2. Now("clear") /\ Go([Top EXCEPT !.slot = Slot("null", 0)]) /\ UNCHANGED objects
    BY <1>10 DEF owned_output
  <2> QED BY <1>9, <2>1, <2>2 DEF Reading
<1>11. CASE ReadSelectors
  <2>1. PICK raw \in Requests : Settle(legacy_accepts(raw), create_wfst(raw))
    BY <1>11 DEF ReadSelectors
  <2>2. /\ create_wfst(raw) \in Constructions /\ legacy_accepts(raw) \in BOOLEAN
        /\ Now("selectors") /\ "selectors" \in Reading
    BY <1>11 DEF Constructions, legacy_accepts, ReadSelectors, Reading
  <2>3. Top.entry \in Legacy
    <3>1. /\ Top \in CallSet /\ AtStep(Top) /\ Program[Top.entry][Top.at] = "selectors"
      BY <2>2, InvFacts, NowFacts
    <3> QED BY <3>1, CallFields, ReadingOrder DEF AtStep, ReadingOK
  <2>4. legacy_accepts(raw) => create_wfst(raw) \in Accepted(Top.entry)
    BY <2>3 DEF Accepted
  <2> QED BY <2>1, <2>2, <2>4, SettleOptions
<1>12. CASE ReadOptions
  <2>1. PICK raw \in Requests : Settle(parse_options(raw), into_construction(raw))
    BY <1>12 DEF ReadOptions
  <2>2. /\ into_construction(raw) \in Constructions /\ parse_options(raw) \in BOOLEAN
        /\ Now("parse") /\ "parse" \in Reading
    BY <1>12 DEF Constructions, parse_options, ReadOptions, Reading
  <2>3. Top.entry = "configured"
    <3>1. /\ Top \in CallSet /\ AtStep(Top) /\ Program[Top.entry][Top.at] = "parse"
      BY <2>2, InvFacts, NowFacts
    <3> QED BY <3>1, CallFields, ReadingOrder DEF AtStep, ReadingOK
  <2>4. parse_options(raw) => into_construction(raw) \in Accepted(Top.entry)
    BY <2>3 DEF Accepted, Legacy
  <2> QED BY <2>1, <2>2, <2>4, SettleOptions
<1>13. CASE ReadFzf
  <2>1. PICK raw \in FzfRequests :
           Settle(cache_policy(raw.selector, raw.capacity), fzf_construction(raw))
    BY <1>13 DEF ReadFzf
  <2>2. /\ fzf_construction(raw) \in Constructions
        /\ cache_policy(raw.selector, raw.capacity) \in BOOLEAN
        /\ Now("fzf") /\ "fzf" \in Reading
    BY <1>13 DEF Constructions, cache_policy, ReadFzf, Reading
  <2>3. Top.entry \in {"fzf", "rank"}
    <3>1. /\ Top \in CallSet /\ AtStep(Top) /\ Program[Top.entry][Top.at] = "fzf"
      BY <2>2, InvFacts, NowFacts
    <3> QED BY <3>1, CallFields, ReadingOrder DEF AtStep, ReadingOK
  <2>4. cache_policy(raw.selector, raw.capacity) => fzf_construction(raw) \in Accepted(Top.entry)
    BY <2>3 DEF Accepted, Legacy
  <2> QED BY <2>1, <2>2, <2>4, SettleOptions
<1>14. CASE ReadPolicy
  <2>1. PICK p \in Policies, kind \in {"WallBreaker", "Phonetic"} :
           Settle(cache_policy(p.selector, p.capacity), PolicyConstruction(p, kind))
    BY <1>14 DEF ReadPolicy, PolicyConstruction
  <2>2. /\ PolicyConstruction(p, kind) \in Constructions
        /\ cache_policy(p.selector, p.capacity) \in BOOLEAN
        /\ Now("policy") /\ "policy" \in Reading
    BY <1>14 DEF Constructions, cache_policy, ReadPolicy, Reading
  <2>3. Top.entry \notin Legacy \cup {"configured", "fzf", "rank"}
    <3>1. /\ Top \in CallSet /\ AtStep(Top) /\ Program[Top.entry][Top.at] = "policy"
      BY <2>2, InvFacts, NowFacts
    <3> QED BY <3>1, CallFields, ReadingOrder DEF AtStep, ReadingOK
  <2>4. cache_policy(p.selector, p.capacity) => PolicyConstruction(p, kind) \in Accepted(Top.entry)
    BY <2>3 DEF Accepted
  <2> QED BY <2>1, <2>2, <2>4, SettleOptions
<1>15. CASE CaptureSnapshot
  <2>0. PICK s \in Nat : s = Len(snapshots) + 1
    BY InvFacts
  <2> DEFINE c == [Top EXCEPT !.snapshot = s]
  <2>1. Now("snapshot") /\ Go(c) /\ resources' = resources /\ handles' = handles
    BY <1>15, <2>0 DEF CaptureSnapshot
  <2>2. Top \in CallSet /\ Top = calls[Len(calls)] /\ Len(calls) \in DOMAIN calls
    BY <2>1, InvFacts, NowFacts, TopIn
  <2>3. /\ c \in CallSet /\ c.entry = Top.entry /\ c.at = Top.at
        /\ c.construction = Top.construction /\ c.resource = Top.resource
    BY <2>2 DEF CallSet
  <2> HIDE DEF c
  <2>4. c.resource # 0 => resources[c.resource].graph = Graph(c.construction)
    BY <2>2, <2>3 DEF OptionsInv, CallOptions
  <2>5. "snapshot" \notin Reading \cup {"build"}
    BY DEF Reading
  <2>6. \A i \in DOMAIN calls' : CallOptions(calls'[i], resources)
    BY <2>1, <2>3, <2>4, <2>5, TopOptions
  <2> QED BY <2>1, <2>6 DEF OptionsInv
<1>16. CASE OpenScope
  BY <1>16, PlainOptions DEF OpenScope, Reading
<1>17. CASE OpenComputation
  BY <1>17, PlainOptions DEF OpenComputation, Reading
<1>18. CASE CloseComputation
  BY <1>18, PlainOptions DEF CloseComputation, Reading
<1>19. CASE Build
  <2>1. Now("build")
    BY <1>19 DEF Build
  <2>2. CASE Buildable(Top.construction) /\ Go(Top) /\ UNCHANGED objects
    <3>1. Top \in CallSet
      BY <2>1, InvFacts, NowFacts
    <3> QED BY <2>1, <2>2, <3>1, GoOptions DEF Reading
  <2>3. CASE Refuse
    BY <1>5, <1>6, <2>1, <2>3
  <2> QED BY <1>19, <2>2, <2>3 DEF Build
<1>20. CASE Walked
  BY <1>20, PlainOptions DEF Walked, Reading
<1>21. CASE CheckScope
  BY <1>5, <1>6, <1>21, PlainOptions DEF CheckScope, Reading
<1>22. CASE Export
  BY <1>22, ExportOptions
<1>23. CASE BoxHandle
  BY <1>23, BoxOptions
<1>24. CASE WriteHandle
  <2>1. Now("write") /\ Go([Top EXCEPT !.slot = Slot("handle", Top.handle)]) /\ UNCHANGED objects
    BY <1>24 DEF WriteHandle
  <2>2. Top.handle \in Nat
    BY <2>1, InvFacts, NowFacts, CallFields
  <2>3. PICK slot \in SlotSet : slot = Slot("handle", Top.handle)
    BY <2>2 DEF Slot, SlotSet
  <2> QED BY <1>9, <2>1, <2>3 DEF Reading
<1>25. CASE WriteRanking
  <2>1. Slot("ranking", 0) \in SlotSet
    BY DEF Slot, SlotSet
  <2>2. Now("write_ranking") /\ Go([Top EXCEPT !.slot = Slot("ranking", 0)]) /\ UNCHANGED objects
    BY <1>25 DEF WriteRanking
  <2> QED BY <1>9, <2>1, <2>2 DEF Reading
<1>26. CASE IntoRaw
  BY <1>26, IntoRawOptions
<1>27. CASE Done
  BY <1>27, ReturnOptions DEF Done
<1>28. ASSUME NEW h \in DOMAIN handles, duallity_wfst_free(h) PROVE OptionsInv'
  BY <1>28, FreeOptions
<1>29. ASSUME NEW h \in DOMAIN handles, duallity_wfst_resource(h) PROVE OptionsInv'
  BY <1>29, ResourceOptions
<1>30. ASSUME NEW h \in DOMAIN handles, NEW p \in Policies, duallity_wfst_cache_set_policy(h, p)
       PROVE  OptionsInv'
  BY <1>30, PolicyOptions
<1>31. ASSUME UNCHANGED <<objects, calls>> PROVE OptionsInv'
  BY <1>31 DEF OptionsInv, objects
<1>32. ASSUME NEW status, CallbackFails(status) PROVE OptionsInv'
  BY <1>31, <1>32 DEF CallbackFails
<1>33. ASSUME NEW s, UncheckedUse(s) PROVE OptionsInv'
  BY <1>31, <1>33 DEF UncheckedUse
<1>34. CASE UNCHANGED vars
  BY <1>31, <1>34 DEF vars, objects
<1> QED
  BY <1>1, <1>2, <1>3, <1>4, <1>7, <1>8, <1>10, <1>11, <1>12, <1>13, <1>14, <1>15, <1>16, <1>17,
     <1>18, <1>19, <1>20, <1>21, <1>22, <1>23, <1>24, <1>25, <1>26, <1>27, <1>28, <1>29, <1>30,
     <1>32, <1>33, <1>34 DEF Next

(* The options read back from a handle are those its graph was built from: *)
(* the configured constructor accepts them and builds the same graph under *)
(* the policy in force, whatever was set since, and whichever constructor, *)
(* request and nesting of calls the handle came from.                      *)
THEOREM OptionsAlwaysRoundTrip == Spec => []OptionsRoundTrip
<1>1. Init => OptionsInv
  BY DEF Init, OptionsInv
<1>2. (OwnershipInv /\ ScopesInv) /\ (OwnershipInv /\ ScopesInv)' /\ OptionsInv /\ [Next]_vars
         => OptionsInv'
  BY NextOptions
<1>3. OwnershipInv /\ ScopesInv /\ OptionsInv => OptionsRoundTrip
  BY OptionsFollow
<1> QED BY <1>1, <1>2, <1>3, BoundaryInvariant, PTL DEF Spec

=============================================================================
