-------------------------------- MODULE CApi --------------------------------
(***************************************************************************)
(* The C boundary on one thread: constructors that capture a revision of a *)
(* foreign dictionary and hand out handles or resources, the operations on *)
(* what was handed out, and the reading of states through a resource.      *)
(* Every callback of a provider may call the boundary again before it      *)
(* returns, so calls nest; a call can end early at any of its checks, and  *)
(* a panic ends it at the same places, caught by boundary().               *)
(*                                                                         *)
(* A call is a list of steps in the order of its code.  What it has        *)
(* captured or built and not given away is dropped when it ends, however   *)
(* it ends.                                                                *)
(***************************************************************************)
EXTENDS FaultScope, WfstOptions

CONSTANTS
    Requests,      \* options records passed to constructors
    FzfRequests,   \* fuzzy finder configurations passed to constructors
    Policies,      \* cache policies passed
    MaxCaptures,   \* bound: dictionary revisions captured
    MaxResources,  \* bound: resources built
    MaxDepth,      \* bound: calls nested
    Nothing

ASSUME RequestsAssumption ==
    /\ Requests \subseteq OptionRecords
    /\ Policies \subseteq [selector : Nat, capacity : Nat]
    /\ \A raw \in FzfRequests : raw.fzf # Nothing

VARIABLES
    snapshots,  \* releases made of each captured revision
    resources,  \* OwnedWfstResource: retains, provider and cache policy
    handles,    \* DuallityWfst: boxed, owned by the caller, or freed
    calls,      \* calls in progress, innermost last
    answer      \* what the call that returned last told its caller

objects == <<snapshots, resources, handles>>
vars == <<frames, boundary, fault, failures, snapshots, resources, handles, calls, answer>>

----------------------------------------------------------------------------
(* The steps of each call                                                  *)

(* Discovery on the live dictionary owns nothing yet; what follows the     *)
(* snapshot callback (discovery again, unit domain, root, length) does.    *)
capture == <<"snapshot", "inspect">>

create_wfst_configured == capture \o <<"scope", "build", "check", "export">>

(* Mutant: the handle is boxed before its slot is resolved (DUAL-B10).     *)
BoxBeforeSlot ==
    <<"query", "selectors">> \o create_wfst_configured \o <<"box", "slot", "write">>

duallity_wfst_new ==
    <<"query", "selectors">> \o create_wfst_configured \o <<"slot", "box", "write">>

duallity_wfst_new_ref == <<"dictionary">> \o duallity_wfst_new

(* Mutant: the slot is cleared once the arguments have been read.          *)
ClearAfterParsing ==
    <<"slot", "dictionary", "query", "parse", "clear">> \o create_wfst_configured
        \o <<"box", "write">>

duallity_wfst_new_configured_ref ==
    <<"slot", "clear", "dictionary", "query", "parse">> \o create_wfst_configured
        \o <<"box", "write">>

duallity_fzf_wfst_new_ref ==
    <<"slot", "clear", "dictionary", "query", "fzf">> \o create_wfst_configured
        \o <<"box", "write">>

duallity_wallbreaker_wfst_new_results ==
    <<"slot", "clear", "query", "policy", "records", "export", "box", "write">>

duallity_phonetic_nfa_new ==
    <<"slot", "clear", "text", "policy", "compile", "export", "into_raw">>

duallity_phonetic_product_new_ref ==
    <<"slot", "clear", "dictionary", "text", "policy", "compile">> \o capture
        \o <<"scope", "compile", "check", "export", "into_raw">>

duallity_phonetic_rewrite_new ==
    <<"slot", "clear", "records", "policy", "text", "compile", "export", "into_raw">>

duallity_phonetic_rewrite_builtin_new ==
    <<"slot", "clear", "text", "policy", "compile", "export", "into_raw">>

(* The ranking keeps copies, not the revision it was captured for.         *)
duallity_fzf_rank_ref ==
    <<"slot", "clear", "dictionary", "query", "fzf">> \o capture
        \o <<"scope", "walk", "check", "rank", "write_ranking">>

(* A state is read under with_checked; a generalized expansion opens a     *)
(* computation inside it.                                                  *)
scalar_state == <<"scope", "walk", "check">>

generalized_state == <<"scope", "computation", "walk", "check", "leave", "check">>

Program ==
    [wfst_new |-> duallity_wfst_new, wfst_new_ref |-> duallity_wfst_new_ref,
     configured |-> duallity_wfst_new_configured_ref, fzf |-> duallity_fzf_wfst_new_ref,
     wallbreaker |-> duallity_wallbreaker_wfst_new_results,
     phonetic_nfa |-> duallity_phonetic_nfa_new,
     phonetic_product |-> duallity_phonetic_product_new_ref,
     phonetic_rewrite |-> duallity_phonetic_rewrite_new,
     phonetic_builtin |-> duallity_phonetic_rewrite_builtin_new,
     rank |-> duallity_fzf_rank_ref,
     state |-> scalar_state, generalized_state |-> generalized_state]

Readers == {"state", "generalized_state"}
Legacy == {"wfst_new", "wfst_new_ref"}
Constructors == DOMAIN Program \ Readers

Top == calls[Len(calls)]

Now(step) ==
    /\ calls # <<>>
    /\ Top.at <= Len(Program[Top.entry])
    /\ Program[Top.entry][Top.at] = step

(* The call goes on with its next step.                                    *)
Go(call) ==
    /\ calls' = [calls EXCEPT ![Len(calls)] = [call EXCEPT !.at = @ + 1]]
    /\ UNCHANGED answer

----------------------------------------------------------------------------
(* Ownership                                                               *)

Slot(is, id) == [is |-> is, id |-> id]

Destroyed == [refs |-> 0, exported |-> 0, snapshot |-> 0, graph |-> Nothing, policy |-> CacheAll]

(* One retain less; the last one takes the provider and its revision.      *)
Dropped(resource) ==
    IF resource.refs = 1 THEN Destroyed ELSE [resource EXCEPT !.refs = @ - 1]

Without(r) == [resources EXCEPT ![r] = Dropped(@)]

LastOf(r) == IF resources[r].refs = 1 THEN {resources[r].snapshot} ELSE {}

release(gone) == [s \in DOMAIN snapshots |-> snapshots[s] + IF s \in gone THEN 1 ELSE 0]

Retained(r, exports) ==
    [resources EXCEPT ![r].refs = @ + 1, ![r].exported = @ + exports]

(* The call returns: it drops what it still owns and its scopes, and the   *)
(* caller owns what it finds in its slot.                                  *)
Return(ok) ==
    LET c    == Top
        rest == SubSeq(calls, 1, Len(calls) - 1)
    IN  /\ calls' = rest
        /\ answer' = [entry |-> c.entry, ok |-> ok, slot |-> c.slot]
        /\ resources' = IF c.resource = 0 THEN resources ELSE Without(c.resource)
        /\ snapshots' = release({c.snapshot} \cup
                                (IF c.resource = 0 THEN {} ELSE LastOf(c.resource)))
        /\ handles' = IF ok /\ c.slot.is = "handle"
                      THEN [handles EXCEPT ![c.slot.id].state = "owned"] ELSE handles
        /\ frames' = SubSeq(frames, 1, c.base)
        /\ IF rest = <<>> THEN boundary' = <<>> /\ fault' = <<>> /\ failures' = <<>>
           ELSE UNCHANGED <<boundary, fault, failures>>

Refuse == Return(FALSE)

----------------------------------------------------------------------------
(* Calls                                                                   *)

(* Outside every call, or from a callback of the innermost one.            *)
CanCall ==
    \/ calls = <<>>
    \/ /\ Len(calls) < MaxDepth
       /\ \E step \in {"snapshot", "inspect", "walk"} : Now(step)

Begin(entry, slot, reads) ==
    /\ CanCall
    /\ calls' = Append(calls,
                  [entry |-> entry, at |-> 1, slot |-> slot, construction |-> Nothing,
                   snapshot |-> 0, resource |-> 0, handle |-> 0, reads |-> reads,
                   base |-> Len(frames)])
    /\ answer' = Nothing
    /\ UNCHANGED <<faultVars, objects>>

Construct(entry) ==
    /\ Len(snapshots) + Len(calls) < MaxCaptures
    /\ Len(resources) + Len(calls) < MaxResources
    /\ \E is \in {"none", "stale"} : Begin(entry, Slot(is, 0), 0)

(* A state is read through an exported resource.  Only the generalized     *)
(* source can be read again from a callback it is making.                  *)
ReadState(r) ==
    /\ resources[r].exported > 0
    /\ resources[r].snapshot # 0
    /\ resources[r].graph.kind # "Generalized" => \A i \in DOMAIN calls : calls[i].reads # r
    /\ Begin(IF resources[r].graph.kind = "Generalized" THEN "generalized_state" ELSE "state",
             Slot("none", 0), r)

(* Steps that check arguments, or ask the provider or a parser.            *)
Checks == {"dictionary", "query", "text", "compile", "inspect", "records", "rank"}

Pass == (\E step \in Checks : Now(step)) /\ Go(Top) /\ UNCHANGED <<faultVars, objects>>

RefuseCheck == (\E step \in Checks \cup {"snapshot"} : Now(step)) /\ Refuse

output ==
    /\ Now("slot")
    /\ IF Top.slot.is = "none" THEN Refuse
       ELSE Go(Top) /\ UNCHANGED <<faultVars, objects>>

owned_output ==
    /\ Now("clear")
    /\ Go([Top EXCEPT !.slot = Slot("null", 0)])
    /\ UNCHANGED <<faultVars, objects>>

(* The arguments are read into a construction, or refused.                 *)
Settle(accepted, construction) ==
    IF accepted THEN Go([Top EXCEPT !.construction = construction])
                     /\ UNCHANGED <<faultVars, objects>>
    ELSE Refuse

ReadSelectors == Now("selectors") /\ \E raw \in Requests : Settle(legacy_accepts(raw), create_wfst(raw))

ReadOptions == Now("parse") /\ \E raw \in Requests : Settle(parse_options(raw), into_construction(raw))

ReadFzf ==
    Now("fzf") /\ \E raw \in FzfRequests :
        Settle(cache_policy(raw.selector, raw.capacity), fzf_construction(raw))

(* Kinds without options of their own, their policy as for Levenshtein.    *)
ReadPolicy ==
    /\ Now("policy")
    /\ \E p \in Policies :
          Settle(cache_policy(p.selector, p.capacity),
                 [kind |-> IF Top.entry = "wallbreaker" THEN "WallBreaker" ELSE "Phonetic",
                  algorithm |-> 0, distance |-> 0, limits |-> {}, operations |-> <<>>,
                  fzf |-> "default", policy |-> effective(p, "Levenshtein")])

(* The live dictionary's snapshot callback hands over a retain.            *)
CaptureSnapshot ==
    /\ Now("snapshot")
    /\ snapshots' = Append(snapshots, 0)
    /\ Go([Top EXCEPT !.snapshot = Len(snapshots) + 1])
    /\ UNCHANGED <<faultVars, resources, handles>>

Watched == IF Top.reads = 0 THEN Top.snapshot ELSE resources[Top.reads].snapshot

OpenScope == Now("scope") /\ enter(Watched) /\ Go(Top) /\ UNCHANGED objects

OpenComputation == Now("computation") /\ computation /\ Go(Top) /\ UNCHANGED objects

CloseComputation == Now("leave") /\ leave /\ Go(Top) /\ UNCHANGED objects

Build ==
    /\ Now("build")
    /\ \/ Buildable(Top.construction) /\ Go(Top) /\ UNCHANGED <<faultVars, objects>>
       \/ (~ Buildable(Top.construction) \/ MayRefuse(Top.construction)) /\ Refuse

(* A callback made by the walk fails; the walk goes on with a fallback.    *)
CallbackFails(status) ==
    Now("walk") /\ record(Watched, status) /\ UNCHANGED <<objects, calls, answer>>

Walked == Now("walk") /\ Go(Top) /\ UNCHANGED <<faultVars, objects>>

CheckScope ==
    /\ Now("check")
    /\ IF fault[frames[Len(frames)]] # NoFault THEN Refuse
       ELSE Go(Top) /\ UNCHANGED <<faultVars, objects>>

(* The provider with its cache, one retain; the scope has ended.           *)
Export ==
    /\ Now("export")
    /\ resources' = Append(resources,
                      [refs |-> 1, exported |-> 0, snapshot |-> Top.snapshot,
                       graph |-> Graph(Top.construction), policy |-> Top.construction.policy])
    /\ frames' = SubSeq(frames, 1, Top.base)
    /\ Go([Top EXCEPT !.resource = Len(resources) + 1, !.snapshot = 0])
    /\ UNCHANGED <<boundary, fault, failures, snapshots, handles>>

(* Box::into_raw(Box::new(DuallityWfst {..})): nobody owns it any more.    *)
BoxHandle ==
    /\ Now("box")
    /\ handles' = Append(handles,
                    [state |-> "boxed", resource |-> Top.resource,
                     options |-> IF Top.entry = "wallbreaker" THEN Nothing
                                 ELSE OwnedOptions(Top.construction),
                     fzf |-> IF Top.entry = "fzf" THEN Top.construction.fzf ELSE Nothing])
    /\ Go([Top EXCEPT !.handle = Len(handles) + 1, !.resource = 0])
    /\ UNCHANGED <<faultVars, snapshots, resources>>

WriteHandle ==
    /\ Now("write")
    /\ Go([Top EXCEPT !.slot = Slot("handle", Top.handle)])
    /\ UNCHANGED <<faultVars, objects>>

WriteRanking ==
    /\ Now("write_ranking")
    /\ Go([Top EXCEPT !.slot = Slot("ranking", 0)])
    /\ UNCHANGED <<faultVars, objects>>

(* The retain itself goes to the caller.                                   *)
IntoRaw ==
    /\ Now("into_raw")
    /\ resources' = [resources EXCEPT ![Top.resource].exported = @ + 1]
    /\ Go([Top EXCEPT !.slot = Slot("resource", Top.resource), !.resource = 0])
    /\ UNCHANGED <<faultVars, snapshots, handles>>

Done == calls # <<>> /\ Top.at > Len(Program[Top.entry]) /\ Return(TRUE)

----------------------------------------------------------------------------
(* Operations on what was handed out, which make no callbacks              *)

duallity_wfst_free(h) ==
    /\ CanCall
    /\ handles[h].state = "owned"
    /\ handles' = [handles EXCEPT ![h] = [state |-> "freed", resource |-> 0,
                                          options |-> Nothing, fzf |-> Nothing]]
    /\ resources' = Without(handles[h].resource)
    /\ snapshots' = release(LastOf(handles[h].resource))
    /\ answer' = Nothing
    /\ UNCHANGED <<faultVars, calls>>

(* A null out_resource is refused before the retain is taken.  Bound: one  *)
(* export of a resource at a time.                                         *)
duallity_wfst_resource(h) ==
    /\ CanCall
    /\ handles[h].state = "owned"
    /\ resources[handles[h].resource].exported = 0
    /\ resources' = Retained(handles[h].resource, 1)
    /\ answer' = Nothing
    /\ UNCHANGED <<faultVars, snapshots, handles, calls>>

(* The caller keeps a retain while it reads through it.                    *)
duallity_resource_release(r) ==
    /\ CanCall
    /\ resources[r].exported > 0
    /\ \A i \in DOMAIN calls : calls[i].reads # r
    /\ resources' = IF resources[r].refs = 1 THEN Without(r)
                    ELSE [Without(r) EXCEPT ![r].exported = @ - 1]
    /\ snapshots' = release(LastOf(r))
    /\ answer' = Nothing
    /\ UNCHANGED <<faultVars, handles, calls>>

(* An unknown policy is refused and changes nothing.                       *)
duallity_wfst_cache_set_policy(h, p) ==
    /\ CanCall
    /\ handles[h].state = "owned"
    /\ cache_policy(p.selector, p.capacity)
    /\ resources' = [resources EXCEPT ![handles[h].resource].policy =
                        effective(p, IF handles[h].options = Nothing THEN "Levenshtein"
                                     ELSE handles[h].options.kind)]
    /\ answer' = Nothing
    /\ UNCHANGED <<faultVars, snapshots, handles, calls>>

(* A Rust caller uses a captured dictionary outside every checked scope.   *)
UncheckedUse(s) ==
    /\ CanCall
    /\ snapshots[s] = 0
    /\ record_unscoped(s)
    /\ UNCHANGED <<objects, calls, answer>>

Init ==
    /\ NoScopes
    /\ snapshots = <<>>
    /\ resources = <<>>
    /\ handles = <<>>
    /\ calls = <<>>
    /\ answer = Nothing

Next ==
    \/ \E entry \in Constructors : Construct(entry)
    \/ \E r \in DOMAIN resources : ReadState(r) \/ duallity_resource_release(r)
    \/ Pass \/ RefuseCheck \/ output \/ owned_output
    \/ ReadSelectors \/ ReadOptions \/ ReadFzf \/ ReadPolicy
    \/ CaptureSnapshot \/ OpenScope \/ OpenComputation \/ CloseComputation
    \/ Build \/ Walked \/ CheckScope \/ Export
    \/ BoxHandle \/ WriteHandle \/ WriteRanking \/ IntoRaw \/ Done
    \/ \E h \in DOMAIN handles :
          \/ duallity_wfst_free(h)
          \/ duallity_wfst_resource(h)
          \/ \E p \in Policies : duallity_wfst_cache_set_policy(h, p)
    \/ \E status \in Statuses : CallbackFails(status)
    \/ \E s \in DOMAIN snapshots : UncheckedUse(s)

Spec == Init /\ [][Next]_vars

----------------------------------------------------------------------------
(* Properties                                                              *)

LiveHandles(r) == {h \in DOMAIN handles : handles[h].state # "freed" /\ handles[h].resource = r}

(* Every object has exactly the owners the code means it to have, between  *)
(* any two steps of any nesting of calls: a resource has one retain for    *)
(* each handle, export and call that holds it; a captured revision is      *)
(* released once, when its last holder is gone and not before; and a boxed *)
(* handle is on its way to a caller or has reached one (DUAL-B10).         *)
OwnersExact ==
    /\ \A r \in DOMAIN resources :
          resources[r].refs = Cardinality(LiveHandles(r)) + resources[r].exported
                              + Cardinality({i \in DOMAIN calls : calls[i].resource = r})
    /\ \A s \in DOMAIN snapshots :
          snapshots[s] = IF \/ \E i \in DOMAIN calls : calls[i].snapshot = s
                            \/ \E r \in DOMAIN resources :
                                  resources[r].refs > 0 /\ resources[r].snapshot = s
                         THEN 0 ELSE 1
    /\ \A h \in DOMAIN handles :
          handles[h].state = "boxed" => \E i \in DOMAIN calls : calls[i].handle = h

(* A caller can trust the slot: success leaves a live object in it, and a  *)
(* failure no pointer, but for the revision-2 constructors, which leave it *)
(* as it was (ffi.rs:455, "cleared on every failure after it is            *)
(* validated").                                                            *)
SlotsTruthful ==
    answer # Nothing /\ answer.entry \notin Readers =>
       IF answer.ok
       THEN CASE answer.slot.is = "handle" -> handles[answer.slot.id].state = "owned"
              [] answer.slot.is = "resource" -> resources[answer.slot.id].exported > 0
              [] OTHER -> answer.slot.is = "ranking"
       ELSE answer.slot.is \in {"none", "null"} \cup
                               (IF answer.entry \in Legacy THEN {"stale"} ELSE {})

(* The options read back from a handle, whichever constructor made it and  *)
(* whatever policy was set since, are accepted by the configured           *)
(* constructor and build the same graph with the same cache policy; those  *)
(* of a fuzzy finder handle through its own configuration.                 *)
OptionsRoundTrip ==
    \A h \in DOMAIN handles :
       handles[h].state = "owned" /\ handles[h].options # Nothing =>
          LET resource == resources[handles[h].resource]
              raw      == readback(handles[h].options, resource.policy)
              fzf      == fzf_readback(handles[h].fzf, resource.policy)
          IN  IF handles[h].fzf = Nothing
              THEN /\ parse_options(raw)
                   /\ Graph(into_construction(raw)) = resource.graph
                   /\ into_construction(raw).policy = resource.policy
              ELSE /\ cache_policy(fzf.selector, fzf.capacity)
                   /\ Graph(fzf_construction(fzf)) = resource.graph
                   /\ fzf_construction(fzf).policy = resource.policy

=============================================================================
