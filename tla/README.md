# A TLA+ verification project for duallity

duallity turns "words of a dictionary near a query" into *lazy weighted
finite-state transducers*: the product of an edit automaton with a dictionary,
whose states are computed when a consumer (lling-llang's composition and search)
asks for them. This directory holds TLA+ models of the parts of the crate that
keep state, the TLC configurations that check them on small instances, and
TLAPS proofs of what holds for every instance.

    tlc -workers 2 -config LazyCache.cfg LazyCacheRefinement   # one run
    tlapm LazyCacheProofs.tla                             # one proof module

`PROJECT.json` lists the runs, the theorems, the source lines behind every
definition, the hazards and, for each property, a mutated definition that
breaks it.

## 1. Inventory

Paths are relative to `src/` of the crate. "State" is what survives a call.

| part | state | operations | hard because | correct when |
|---|---|---|---|---|
| Lazy state cache (`lazy_cache.rs`) | entries, last-access ticks, a lazily cleaned min-heap, clock, scratch slot, policy | get, insert, touch, set_policy, set_max_lru_states, clear; expand of every wrapper | stale heap records, clock exhaustion, compaction, zero sizes | exact LRU within the limit; what was expanded last can be read |
| Generalized expansion (`generalized_computation.rs`, `generalized_expansion.rs`, `generalized_state_support.rs`) | two append-only registries behind RwLocks, shared by clones | expand a product or a continuation | clones race without locks during the walk; destructors and callbacks are user code and may re-enter; any step can fail | identities canonical, publication all or nothing, limits exact, no user code under a lock, expansions end |
| Generalized wrapper, operations, limits (`generalized_wfst.rs`, `_ops`, `_builder`, `_limits`) | prepared operations, limits, a private cache | construct, validate, expand | overflow of scaled weights, duplicated operations | only in-budget operations apply |
| Levenshtein codec (`lib.rs`, `state_source_support.rs`) | none | encode, decode | one u32 holds node, slot, position and cost; saturation | decoding inverts encoding or encoding fails |
| Levenshtein source (`state_source.rs`, `wrapper.rs`) | node registry | expand_state, final weight | ids run out in the middle of an expansion; two-step edits overlap | accepted weight = edit distance; answers repeat |
| Foreign dictionary adapter (`bindings.rs`) | snapshot, gate, edge iterator | capture, root, edges, transition, is_final | the provider is foreign code, may answer anything, and its callbacks may call back | complete enumeration or a recorded fault; a captured revision is released once |
| Fault scopes (`bindings/fault_scope.rs`) | a thread-local stack of frames | enter, computation, record, drop | nesting; an infallible trait above a fallible provider | every failure reaches its scopes and no other |
| Universal source (`universal_*.rs`) | node, depth and automaton-state registries | expand_state, final weight | two registries and two critical sections in one expansion; ids shared by nodes; the id width is an estimate | as above; no half of a pair is registered alone |
| Phonetic source (`phonetic_state_*.rs`, `phonetic_wfst.rs`, `phonetic_anchors.rs`) | node and frontier registries | expand_state, final weight, normalize anchors | frontiers arrive unordered and with duplicates; anchors inside loops; two registries in one commit | one id per frontier; accepted weight = distance to a text of the pattern |
| Phonetic NFA product (`phonetic_nfa_*.rs`) | an interning registry of NFA sets, a cache | expand, clear | look-up and registration are two critical sections | sets interned once; the language of the pattern |
| Phonetic rewrite (`phonetic_rewrite_*.rs`) | rules, continuation states, priority order, a cache | add rules, expand | ids are offsets that must survive additions; dominated arcs are pruned | the rewrites of the rules at their costs |
| Phonetic pipeline (`composed_phonetic.rs`) | none | configure | | |
| Fuzzy finder (`fzf_*.rs`) | a column per letter of the prefix, the best scores; for the WFST a registry of paths | score, rank, expand | pruning by a bound, ties, scores depend on the path while a DAWG shares nodes | best alignment; the ranking is exact; paths are kept apart |
| WallBreaker (`wallbreaker_*.rs`) | results, an arena of their letters, dense ids, a cache | build, expand, clear | the same term at several distances, the empty term, ids running out | the forest spells exactly the results at their best distances |
| Dictionary backend (`backend.rs`) | words by id and ids by word | intern, lookup | the last id is a sentinel | one id per word, never the sentinel |
| C ABI (`ffi.rs`, `ffi/*.rs`) | handles, resources, retains, cache policies, output slots | twelve constructors and readers, free, export, release, set policy, read back | every check may end a call with something captured; callbacks call the boundary again; legacy and configured constructors differ | retains balance, slots tell the truth, options rebuild the graph, faults reach their scope |
| Language bindings (`bindings/*`) | facades | | | |

How they interact: a consumer calls a *wrapper* (`expand`, `transitions`). The
wrapper asks its private cache, and on a miss calls its *source*; the source
reads and extends a *registry* shared with the wrapper's clones, and calls the
*dictionary*, which may be the foreign adapter. The adapter's trait cannot
fail, so failures are recorded in the innermost *fault scope* and looked at by
the computation when it reaches a check.

## 2. Modules

| module | models | state and actions |
|---|---|---|
| `LazyCache` | `LazyStateCache` and `ensure_cached_char_state` | `cache` is the record of entries, ticks, heap and clock; one action per public operation, `ExpandHit/Miss/Error` for expand |
| `RecencyCache` | the cache's promise: a queue in order of use | no clock, no heap |
| `GeneralizedExpansion` | one expansion transaction per activation | registries, the two write locks, `pc` and transaction data per thread; one action per step between which another activation may run |
| `ResourceEdges` | the paged iterator over foreign edges | the iterator's fields; each disjunct of `next` is a return of `Iterator::next` |
| `FaultScope` | the frame stack of one thread | operators on the stack, which `CApi` drives |
| `WfstOptions` | options records, what the parser accepts, the construction and the read-back (no state) | operators |
| `CApi` | the C boundary of one thread | a stack of calls; a call is the list of its code's steps, one action per kind of step; free, export, release, set_policy on what was handed out |
| `StateCodec` | the integer encodings (no state) | operators; "no encoding" is the empty set |
| `NodeRegistry` | `DictionaryNodeRegistry`, for all sources (no state of its own) | operators on a registry |
| `LevenshteinSource` | `LevenshteinStateSource` with its registry | `expand_state(id)` for every id in and just past the span |
| `UniversalSource` | `UniversalLevenshteinStateSource` with its registries | `CommitEdges(t, id)` and `AdvanceQuery(t)`, the two critical sections of an expansion by activation `t`; `RejectState` |
| `PhoneticSource` | `PhoneticStateSource` with its registries | `expand_state(id)`, `RejectState` |
| `FzfSource` | `FzfStateSource`, path-sensitive | `expand_state(id)`, `RejectState` |
| `CharWfst` | the four wrappers: a cached answer in front of a source, clones that expand meanwhile | one `Expand…` per kind, `clear_cache` |
| `LevenshteinSearch`, `UniversalSearch`, `PhoneticSearch` | a source and a consumer that visits everything | `Visit` |
| `Searches` | the three searches as one system, for one run | |
| `EditReference` | the edit distance by its recurrence, for the searches | |
| `PhoneticAnchors` | NFA labels and closures (external) and the treatment of anchors | operators |
| `PhoneticNfa` | `PhoneticNfaWfst` | `LookUpTargets(t, id)`, `RegisterTargets(t)`: the read and the write section; `clear_cache` |
| `RewriteRules` | `RewriteWfst` | `add_rule`, `ensure_state`, `set_allow_identity`, `clear_cache` and the rejections |
| `WallBreakerForest` | `WallBreakerWfst` over arbitrary results | `ensure_state`, `reject_state`, `clear_cache` |
| `DictionaryBackend` | the vocabulary of a lattice | `intern` |
| `Standalone` | the last four as systems of a kind: what answers from one table of ids | `Use…` |
| `FzfCore` | the scoring recurrence, bonuses and upper bound (no state) | operators |
| `FzfRanking` | `duallity_fzf_rank_ref` with `FzfScorer` as pruner | one action per event of the walk |
| `LazyCacheRefinement` | the mapping of `LazyCache` to `RecencyCache` | `Order(cache)`: the entries sorted by tick |
| `MC*` | instances for TLC | |
| `OrderLemmas` | lemmas about finite sets of positions, sequences and folds | |
| `*Proofs` | theorems, one module per component; for the expansion one for locks, registries and owners and one for answers | |

What is abstracted. Labels are model values or small integers; UTF-8 byte
positions are label positions, as segments always begin and end at character
boundaries. Cached payloads are not kept. Work and path budgets of an expansion
are one action that may fail it wherever the code charges (`Exhaust`), because
the properties must hold wherever the budget runs out. Allocation failures take
the same path. A "thread" of `GeneralizedExpansion` is any activation: another
clone's, or one made by a destructor or callback inside a waiting one. Read
locks are taken and released in one step; only write locks span steps.
`LevenshteinSource` makes an expansion one step: the registry only grows, the
dictionary is immutable, and the write lock is held for the whole edge loop.
`UniversalSource` makes each critical section one step, for the same reason;
what lies between a read of immutable entries and the first section commutes
with everything. The universal automaton belongs to liblevenshtein: a state is a
set of (offset, errors) positions without subsumed ones, for the Standard
variant; the length difference in the registry key is constant along
`transition` and left out.

A wrapper's cache is one remembered answer, chosen freely and dropped freely,
which covers every policy: a property that fails for some cached entry fails
for that one. `PhoneticSource` makes an expansion one step like
`LevenshteinSource`, as all its edges are committed under both write locks. Its
product automaton (liblevenshtein) is modelled by its transitions; costs are
whole edits and the wrapper's weights are left out. `RewriteRules` has no
threads: adding a rule takes `&mut self`. `WallBreakerForest` takes any
sequence of results, as the search is external. In `FzfCore` a character is
its class and the character it folds to. `CApi` is one thread; concurrency
inside a resource is the business of the source modules. A call refused at a
check and one that panics there end alike, as `boundary` catches both. A
callback may read only states whose source holds no lock while it calls
out (generalized sources) or that no call in progress is reading. Records are decoded
values: sizes, versions, strides and alignment, names, and text that is not
UTF-8 are not modelled.

## 3. Runs

| run | asks | bounds |
|---|---|---|
| `lazy_cache` | does the clock-and-heap cache keep its promise? | 4 states and sizes 0, 1, 3, so that eviction chooses among several; clock of 7 ticks, so it is exhausted repeatedly; compaction above 5 records |
| `expansion_alias` | are identities canonical and answers exact when two activations stage the same nodes? | a chain of 6 labels and operations of widths that stage a path in two pieces; 3 expansions |
| `expansion_limit` | is publication all or nothing, at limits one too small and with a fault anywhere, and does every expansion return? | 8 nodes against a limit of 6, 8 states; 2 expansions, 1 disturbance |
| `resource_edges` | is the enumeration complete or faulted against any provider? | pages of 3, at most 7 edges, reports up to 8 (both beyond the ceiling and beyond the page) |
| `c_api` | do owners balance, slots tell the truth, options round-trip and faults reach their scopes, for every early exit and nesting? | 2 captured revisions, 2 resources, calls nested twice, 4 scopes, 2 failures; 7 options records that every check tells apart |
| `char_wfst` | do cached answers stay true, and are emitted ids, labels and registries sound when ids run out? | Levenshtein: 41 ids against widths 6 to 48, universal: 31 against 12, 27 and a saturated one with 2 activations, phonetic: 21 against 6 and 8, fuzzy finder: 6 ids for 10 paths |
| `searches` | is the accepted weight the edit distance? | Levenshtein: all queries to 3 letters, some of 4, distances 0 to 2, all algorithms; universal: queries to 4 letters, distances 0 to 3, words longer than n + k; phonetic: two patterns, one with anchors in a loop, distances 0 to 2, against all texts to 5 letters |
| `standalone` | do tables agree with lookups, are cached answers current, are the languages exact, do ids keep their meaning? | 4 patterns with 2 activations and 4 ids; up to 3 of 7 rules with 5 ids; all sequences of up to 3 of 7 results with 6 ids; 3 words with 2 ids and the sentinel |
| `fzf_ranking` | is the ranking the exact top k for any order of edges? | 8 words over letters of five classes, 15 requests: every scheme, k to 3, ties, a work limit |
| `levenshtein_sentinel` | is `NO_STATE` ever emitted? (it is) | id space of 61 |
| `universal_radix` | is the id width a bound on the states of a search? (it is not) | 6 letters, distance 3, 288 words |
| `fzf_length` | does an `FzfWfst` keep its candidate limit? (it does not) | a limit of 2 and a word of 3 letters |

Deadlock is checked except where the system really stops: in the search runs,
in `fzf_ranking`, which ends with a ranking, and in `c_api`, whose captures,
scopes and failures are counted against bounds. In
`GeneralizedExpansion` the idle end is an explicit stuttering disjunct
(`Finished`), so that a real deadlock of two activations on the locks would
show.

Fairness. Only `GeneralizedExpansion` assumes any: weak fairness of each
activation's own steps. A step is enabled for ever only while the lock it needs
is free, and each holder releases after finitely many of its own steps, so an
operating system that runs every runnable thread suffices; requests,
cancellations and faults are not fair.

### What the runs show

Two activations of the generalized expansion may alias each other's staged
nodes, and one activation may alias itself (a path staged once below a
registered node and once below a staged one that got registered meanwhile). The
retirement loop reconciles both, at most twice per staged node. With the guard
released before retirement no user code runs under a lock, on error paths too.

The Levenshtein automaton accepts exactly the (restricted) edit distance of
each algorithm. When ids are exhausted it only loses arcs: those it emits still
spell both words and carry the cost (`ArcsDenote`), so no word is
reported below its distance.

In the universal source a pruned arc stays pruned: candidate ids only grow, so
an expansion repeated later drops exactly the arcs it dropped before, also when
other activations register between its two critical sections.

Two clones of the NFA product may both miss a set under the read lock; the
second look-up under the write lock makes the registry one entry per set, and
both answers are the same. A rewrite rule added late leaves every id
handed out before in place, since continuation states are laid out in the order of
addition and only the order of emission follows priorities.

At the C boundary nothing is leaked or released twice at any exit of any
constructor, also when a callback of the provider calls the boundary again.
The revision-2 constructors leave their slot as it was on failure; all others
clear it.

The fuzzy finder's upper bound is sound for every continuation, so the ranking
is exact with its ties in every order in which a provider may yield edges.

**Finding 1.** `try_encode` (`src/lib.rs:319`) accepts every id that fits in
`u32`. The largest one is lling-llang's `NO_STATE`, which
`docs/security/generalized-expansion-bounds.md:167` calls "reserved" and "never
allocated" and which the generalized registry filters
(`generalized_state_support.rs:157`). That document is about the generalized
transducer; the Levenshtein codec, a sibling under the same consumer, does not
exclude it. It takes an id space filled to the last state to reach.

**Finding 2.** The universal source packs ids with the width (n+1)^2(2k+1),
which `docs/architecture/03-state-encoding-and-product-space.md:212` says
"over-counts the *deduplicated* states". A state is a *set* of positions, and
sets outnumber (n+1)(2k+1) from about k = 3 and n = 6. `universal_radix` fills
all 343 ids with 288 four-letter words (never more than 7 states at one node,
although line 221 speaks of more than M "at one node") and then drops a live
edge. With `ExactDistance` as the invariant instead, the same constants show
words within distance 3 that the finished search does not accept. The automaton
is external, but the count does not hinge on its details: keeping or discarding
positions beyond the query's end gives the same number for this dictionary.

**Finding 3.** `FzfConfig::max_candidate_chars` is the "Maximum accepted
candidate length" (`src/fzf_support.rs:43`) and the guard that
`docs/security/fzf-resource-bounds.md:11` names against dictionary depth.
`FzfScorer` enforces it, `FzfWfst` does not: its source never looks at the
field (`src/fzf_state_source.rs:106`), so it registers and accepts longer words.

## 4. Proofs

All are for every value of the constants under the named assumptions, which TLC
evaluates in the runs. None of the properties below is inductive as it stands;
what is said is what had to be added.

* `LazyCacheProofs` (assumes finitely many states, fewer than the clock can
  count: ids are u32 and the clock is u64). The invariant `IInv` joins the type,
  `HeapIndexesEntries`, `WithinCapacity` and `EnsuredReadable` with what binds
  them under LRU: ticks are distinct and not above the clock, no heap record
  lies in the future, and every entry's own record is in the heap. Renumbering
  needs a counting lemma (the rank of a tick is between 1 and the number of
  entries and is injective); eviction needs that the kept set is the youngest.
  The refinement of `RecencyCache` (`CacheRefinesQueue`) adds that the entries
  can be listed by age (`IsOrder`), and that only `NoCache` uses the scratch
  slot. A cache has at most one such list, because the k-th state listed has
  rank k (`OrderUnique`), so each operation is followed on the list: a touch
  moves a state to its end, an insertion appends, an eviction drops from the
  front, and renumbering and compaction leave it alone.
* `ResourceEdgesProofs`: `IInv` adds `Progress`, which ties `offset`, `total`
  and `announced` together once a page was accepted.
* `StateCodecProofs`: division and remainder lemmas, then the slots.
* `ExpansionRegistryProofs` (assumes the dictionary is a trie, in which every
  prefix of a node is a node and edges list each child once, the query is over
  its labels, and operations consume and cost natural numbers): `LockDiscipline`
  gives the holder of each lock as a function of the program counters, and that
  callbacks run outside them follows. The invariant `ExpansionInv` says of every
  activation, by the phase it is in, what each reference it holds denotes: a
  frame or path of the walk refers to the dictionary node it was read from, an
  entry of `resolved` to a published node or an addition of the same key, a
  prepared arc to a state of the registry or of the batch. These facts must
  survive what other activations publish in between, which is why registries are
  shown to grow at the end only (`IdsKeepTheirMeaning`). While an activation is
  between the two locks its batch lies directly on the registries, so that
  publishing it keeps them canonical, whole and within their limits. `HistoryOK`
  carries the same over to answers already given. `OwnershipInv`, on top, says
  whose dictionary-node owner each staged node holds (its own, that of the first
  alias in the staging area, or the registry's) and bounds the passes of the
  commit by the owners that have moved.
* `ExpansionAnswerProofs`: `AnswerInv` follows an answer from the walk to the
  transitions returned. `EnumerationOK`: every dictionary node of a depth the
  walk must list is recorded once, or still to come under exactly one frame of
  the stack. `ArcsOK`: arcs correspond one for one to pairs of an applicable
  operation and a node it leads to. `PreparedOK`: each prepared transition means
  what its arc does, over the registries as they will be once the batch is
  published. Since ids keep their meaning, so do these facts, and `AnswersExact`
  follows for answers of any age. `ClonesAgree` (two answers to one expansion
  are equal as lists) needs the order too. `WalkOrdered`: paths of one width are
  recorded in the order in which the dictionary lists edges, and before any that
  the stack still holds. `ArcsListed`: the arcs follow the listing of the
  applicable pairs by operation and then by path, of which there is one
  (`ListingUnique`). `Shaped`: a transition has the labels and the target that
  its outcome determines, and as keys are registered once, two activations that
  give it one meaning give it one id. `NothingLeaked` rests on `BatchLedTo` (a
  state that a batch adds is the target or the continuation of one of its
  transitions) and `PublishedUsed` (the same for what is published, and every
  published node is in reach of an answered product).
* `CApiProofs` (assumes that providers are numbers, `Computation` is none, and
  `NoFault` is no status): `OwnershipInv` determines what a call owns from the
  steps it has taken, for which each program is first shown to take its steps in
  an order that makes this unambiguous (`ProgramOrder`: one capture before one
  export before one boxing, no callback after the export, the slot cleared
  first). It follows that below the innermost call nobody holds a resource or a
  handle, so that counting needs to look at one call only. `ScopesInv` says that
  the open fault scopes are those of the calls, stacked in their order;
  `SinksConcerned` is the heart of it: the search of `record` for the scopes to
  tell finds those that the failure concerns by definition, which is stated by
  what lies inside a scope and not by a search. A later scope never concerns an
  earlier failure, so attribution survives. `OptionsInv` is for
  `OptionsRoundTrip`: what a call builds is what its constructor accepted of
  some request (`ReadingOrder`: a program reads its arguments once, before it
  builds), a handle keeps the options of the graph its resource has, and the
  policy in force is one that has a name and is never the request for a default,
  whoever set it. What remains is about data: a canonical listing of the
  operations read back exists and is accepted again, with the same totals
  against the limits. The assumptions are that requests are records of the
  declared fields, that the capacity an LRU of zero stands for is not zero
  (otherwise the policy read back would ask for a default again), and that the
  two limits are natural numbers.
* `StandaloneProofs` (assumes that NFA states are numbered from 0, that the
  sides of a rule and the terms found are finite texts, costs and priorities
  integers and distances natural numbers, that the printable alphabet is finite,
  and that the id limits, `MAX_RULES` and the largest exact distance are natural
  numbers). One invariant per kind. `NfaInv`: two activations expand at the same
  time, and what one found missing under the read lock the other may have
  registered before the write lock is taken. `TaskOK` therefore does not say
  that the sets a task lists are missing, but that every successor it does not
  list is registered and its arc found; as the registry only grows, and one that
  is full registers nothing any more, the answer is the same whoever registers
  what (`GrowthKeepsTask`, `GrowthKeepsAnswer`). `RewriteInv`: the tables after
  any sequence of `add_rule` are those that `PreparedRuleMetadata::from_rules`
  lays out for all rules at once. The order of emission is the point: a rule
  inserted by `partition_point` must land where the stable sort by priority
  would put it, which follows from there being one listing of a finite set in a
  strict order (`ListingUnique`, `PrioritiesAppend`). That is also why
  `RewriteRules` states the sort by what it does (`Sorted`) and not by the
  library's `SortSeq`. `WallBreakerInv`: normalised results have distinct terms,
  and by `ArenaAll` place k of the index is position p of the term whose span
  begins at k - p, so the arithmetic of `state_id_for_position` and the index
  find the same id up to the cut. `BackendInv`: the two maps are inverse, below
  the sentinel. `TablesConsistent`, `CacheCurrent`, `TargetsKnown` and the
  action property `IdsKeepMeaning` follow.

`OrderLemmas` derives from the well-foundedness of the naturals that a set of
positions has a least member and a bounded one a greatest. That is how the
proofs reason about `CHOOSE` of an extreme, about lists of any length and about
folds: by the least counterexample, as the library's induction theorems cannot
be instantiated. Its lemmas on folds hold for any operation of two arguments,
the constant `Combine`; `StandaloneProofs` instantiates it once for each fold of
the models, the other modules leave it open.

Only model-checked: liveness (`ExpansionReturns`, which needs fairness and
ENABLED), the properties of `CharWfst`, `FzfRanking` and `Searches`, and
`LanguageExact`. `ExactDistance`, `LanguageExact`, `BoundSound` and what depends
on them need induction over words against a recursive reference definition,
which the provers cannot do; several of these modules use recursive operators
for it. `RegistriesCanonical` and `EmittedStatesValid` are of the kind proved
for the expansion and for the graphs that stand alone, but each is one statement
about four sources, which remains to be taken apart.



## 5. Plan

1. (done) cache, generalized expansion, codec, sources and searches, paged
   edges; first theorems.
2. (done) phonetic source, NFA and rewrite products, fuzzy finder, WallBreaker
   forest, dictionary backend, the C boundary composed with the fault scopes.
3. (done) proofs of the registries, owners and answers of the generalized
   expansion (nothing lost, nothing invented, nothing leaked), and
   of ownership and diagnostics at the C boundary; the refinement of
   `RecencyCache`.
4. (done) the order of answers (`ClonesAgree`), and the options of a handle
   through every constructor (`OptionsRoundTrip`).
5. (done) the tables of the graphs that stand alone, and what is cached of them.
6. Left: proofs of the registry invariants of the sources behind `CharWfst`; an
   abstract specification of interning (one atomic step publishes a
   transaction) that `GeneralizedExpansion` implements.

## 6. Not modelled

* The composed phonetic corrector and the language bindings: they pass
  arguments on and keep no state.
* The serial gate of the foreign adapter: a plain mutex around each callback.
  Whether a provider may be re-entered is its own declaration.
* Re-entry into a Levenshtein or universal source from a dictionary's
  callback or destructor, while the source holds its registries' locks: the
  critical sections are single steps here.
* Of the C boundary: cache statistics, error text, grammar inspection, and the
  binary layout of records.
* What the sibling crates do (liblevenshtein's WallBreaker search and pattern
  parser, libdictenstein's dictionaries, lling-llang's composition and provider
  cache), of which only the interface is used.
