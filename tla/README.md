# A TLA+ model of the entity-system extensions

The repository generates three extensions of an entity-system peer, *history*,
*compute* and *content*, in three languages (Python, Rust and TypeScript), and
the tools that compose, measure and compare them. This directory holds TLA+
models of their behaviour, the TLC configurations that check the models, and
proofs that TLAPS checks. Definitions are translated from the Python sources
and from the tools; where another language behaves differently in a way the
properties can see, a constant or a variable of the module selects the behaviour.

Run everything from this directory:

    tlc -workers 2 -config MCHistory.cfg MCHistory
    tlapm HistoryRecorderProofs.tla

`PROJECT.json` lists every run, its module, what it expects, the lines of
source each definition stands for, the hazards the properties are aimed at, and
the mutants. A mutant is an operator such as `AuditsDisabledToo` that stands
right before the definition it would replace and is named after the bug it stands
for. No specification uses it; putting it in the place of the definition makes
the run named there fail.

## 1. The system

### The peer

The peer (store, event bus, dispatcher) lives in another repository. The
extensions see of it:

- a *tree*: paths bound to content hashes; `Store.bind` and `Store.unbind`
  change one path under a lock, release the lock, and then call every registered
  tree consumer, synchronously and in registration order, but only if the
  binding changed;
- a *content store*: immutable entities by hash (`put_entity`, `get_by_hash`);
- one thread per connection in Python and Rust, one event loop in TypeScript.

So an extension runs *inside* the write that woke it, on the writer's thread,
without a lock. Two writes on two threads interleave at every store access; a
consumer that writes re-enters the bus. The tree outlives the process; what an
extension keeps in memory does not.

### Components

| component | state | operations | interacts with |
|---|---|---|---|
| history recorder (`history/_internal/recorder.py`, `sdk.py`) | a head pointer per path, a chain of transitions, statistics | `on_tree_change`: select a configuration, read the head, build and bind the transition | called by `Store.bind`; binds heads itself and observes that |
| history handler (`history/handler.py`) | none | `query` walks a chain, `rollback` re-installs an old value | reads what the recorder writes; rollback writes through `Store.bind` |
| configuration selection (`history/patterns.py`) | the directory `system/history/config/` | canonicalize, rank, scan | called by the recorder |
| reactive engine (`compute/_internal/reactive.py`) | dependency index and re-entrancy counter, in memory | `on_tree_change`, `register`, `re_evaluate`, `freeze`, `rebuild` | woken by `Store.bind`, writes results with it |
| compute handler and entry points (`compute/handler.py`, `__init__.py`) | subgraph metadata in the tree | `install`, `uninstall`, `eval`, native dispatch | drives engine and evaluator, under a capability and a budget |
| evaluator, subgraph audit (`compute/_internal/`) | a budget per evaluation | interpret, walk an expression | called by engine and handler |
| content handler (`content/handler.py`) | none | `get` packs a frame, `ingest` stores an envelope | content store |
| blobs and chunking (`content/sdk.py`, `chunking.py`, `reassemble.py`) | none | closure check, reassembly, chunk boundaries, storing a blob | content store |
| hosts and installation (`compositions/*/host.py`, `*/__init__.py`) | manifests, grants, types in the tree | put the extensions into a peer before it listens | writes through `Store.bind`, so history can see them |
| composition resolver (`tools/compose.py`) | `PLAN.json` | resolve contracts into a plan, or refuse | reads `SYSTEM.toml` and contracts |
| conformance gates (`tools/check-expectation.py`, `diff-arms.py`, `req-coverage.py`) | reports, baselines, pinned obligations | judge, `--bless` | read what `make conformance` and `make regression` leave |
| authored checks (`gates/ext-checks/`, recipe `ext-checks`) | report files per target and arm | emit, execute, compare | the launcher starts a host for each |
| linters and reports (`tools/check-citations.py` and others) | none | one pass over texts | |

### What is hard

- **Interleaving.** The recorder reads the head and binds a new one in two
  steps. The engine evaluates and then writes. A freeze reads metadata and
  writes it back. An installation audits, resolves, seals and commits while
  writers replace what it has looked at.
- **Order of events.** The lock is released before the consumers run, so events
  of one path can be delivered in the reverse of their commit order. A host that
  registers the recorder early records its own installation.
- **Re-entrancy.** Cascades are recursion. Two bounds end them: a cascade depth
  carried in the event's context (which error writes do not increment) and a
  counter of nested calls. A wake-up inside another evaluation runs under its own
  grant and budget, not under the caller's.
- **Restarts.** The index is rebuilt from metadata and expressions that the tree
  kept, whatever the process was doing when it ended; a host may die between any
  two of its writes and start again over the tree it left.
- **Stale checks.** A rollback target is validated and bound later; a closure
  verdict is computed over a store that is growing; a cursor pages through a
  chain that is growing; a report on disk may be that of an earlier make; a
  baseline may speak of an earlier oracle, whose checks have been renamed.
- **Limits.** Query bounds, walk bound, frame budget, cascade limit, ceilings on
  operations, of which zero is one; 64-bit integers of two kinds.
- **Partial failure.** An ingest that is refused in the middle; collections that
  contain the errors of their elements, except those of an exhausted budget;
  an evaluation that writes and then fails; a client that dies or hangs.
- **Agreement.** Peers must come to the same answer under the same budget, so the
  step at which an evaluation runs out, and what it then answers, is part of
  the protocol.

What makes each component correct is stated with its module below.

## 2. Modules

    AuditLog  <--refines--  HistoryAudit --extends--> HistoryRecorder
                               ^     ^
                       MCHistory  HistoryRecorderProofs

    Register  <--refines--  Arithmetic
                               ^
    MCEvaluation --------------+--> MCEvaluator --> EvaluatorBudgets, SubgraphAudit --> Evaluator
                            (EvaluatorProofs extends EvaluatorBudgets, SubgraphAudit and Arithmetic)

    MCCompute --> MCReactiveEngine --> ReactiveRestart --> ReactiveEngine
              |                         ^
              |                        ReactiveProofs
              --> MCComputeAuthority --> ComputeAuthority --> ComputeInstall
                                          ^                    ^
                                         ComputeAuthorityProofs  MCComputeInstall

    MCContentHistory --> ContentGet, ContentBlob, Chunking     <-- ContentProofs
                     --> HistoryPaging --> HistoryQuery,
                         HistoryPatterns, Installation         <-- ContentHistoryProofs

    MCConformance --> MCCompose --> Compose                    <-- ToolProofs
                  --> MCConformanceGates --> ConformanceGates  <-- ToolProofs
                         --> BaselineGate, CoverageGate --> ConformanceReports
                  --> MCExtChecks --> ExtChecks                <-- ToolProofs

A module of proofs covers what its component's users see together. `NaturalLemmas` holds
the facts about natural numbers, recursive functions and finite images that they share.
`MCCompute`, `MCEvaluation`, `MCContentHistory` and `MCConformance` put
components that share no state into one run: a variable `side` or `tool` says which
of them a behaviour exercises, and the others stay at rest.

### HistoryRecorder

State: `tree` (ordinary bindings), `chain[p]` (what the head of `p` reaches;
transitions are immutable, so the sequence stands for the pointer),
`commits[p]` (ghost: every change of `p` in lock order), `reported[p]`
(`recorded_transitions`), `stats` (`RecorderStats`), and for each thread the
phase of its write and the locals of the call: the event, the rows of the
directory listing not read yet, the best configuration, the head it read, the
rollback it validated.

| action | code |
|---|---|
| `Put` | a put or delete through `Store.bind`, by a caller or the peer itself |
| `Observe` | `on_tree_change` up to the directory listing, with the counters |
| `ReadConfig` | one iteration of the loop of `find_history_config` |
| `Skip` | `record_transition` returns `None` |
| `ReadHead`, `AdvanceHead` | the read of the head, and the bind of the new one, including the self-guarded event it causes; `prune_history` only reads |
| `Report` | counters and `recorded_transitions` |
| `Rollback`, `RollbackBind`, `RollbackUnchanged` | the handler's check and its bind, which fires nothing when the value is there already |

A configuration is a record: what it covers, its three specificity keys,
`enabled`, its exclusions and its events. `HistoryPatterns` models how these
follow from a pattern. The statistics are incremented in one step: the Rust
counters are atomic, and CPython does not switch threads inside an attribute
increment.

Correct means: a chain holds only changes really made to its path, with value,
event and author (`ChainSound`); no interleaving makes a rollback an unrestricted
put (`RestoresOnlyPast`).

### AuditLog and HistoryAudit

`AuditLog` is what the extension promises: a change and its log entry are one
step, made exactly if the configuration in force right after the change asks
for it; a rollback installs a value its log names. `HistoryAudit` maps the
recorder to it. Its variable `serial` says which kind of peer this is: one that
serves requests one at a time (TypeScript), or one whose threads race. The
refinement is claimed for the first kind: the log is the chain plus the change
being delivered, if the recorder is going to record it. What could be wrong is
the selection, the order of its checks (enabled, exclusion, event filter), the exact
transition and the moment at which all these are evaluated. Where threads race, no
document says which configuration should govern a change that a reconfiguration
overtakes, and nothing is claimed. `DistinctPatterns` is assumed: of two rows
with one canonical pattern the store's listing order selects.

### HistoryPatterns

Patterns and paths as sequences of segments, `canonicalize_pattern`,
`pattern_specificity`, `compare_specificity` and the scan over a directory with
every listing order. Where two patterns are equally specific the code compares their
strings whole, slashes included; `Letters` gives the bytes of a segment and `Spelling` the string. `MatchesPattern` is the peer's function, taken from how
`pattern_matches` calls it and what its tests expect. The scan selects the
dominating pattern in every order (`SelectsMostSpecific`).

### HistoryQuery and HistoryPaging

The loop of `query`, one iteration per action (`Walk`), over a chain the recorder
keeps extending (`Grow`). A transition is named by its position. Timestamps are
the recorder's clock, which may stand still or be set back, since nothing in
the code prevents it. A transition the store does not hold ends a walk without being
counted (`Break`): `Lost` is what another program's head pointer may have led to before the
recorder first extended it. `AnswerIsExact` compares the page with its definition.

`HistoryPaging` adds the callers. One query with any limit, `before`, `since` and
event filter comes first (`Other`; the handler keeps nothing between queries,
so one is as good as many). Then comes the client that the protocol suggests:
while `has_more`, it asks again with `before` set to the oldest timestamp received.
`ReadsWholeChain` promises it everything while the chain is no longer than the walk
bound, no transition is lost and the clock ticks between transitions. Two transitions of one millisecond that fall on two pages do cost
the client the second one.

### ReactiveEngine and ReactiveRestart

State: inputs and results in `tree`, metadata of subgraphs (`meta`), the root
expression of each as the tree has it (`expr`), the dependency `index`, expired
grants, the re-entrancy counters, and for each thread a **call stack**. The bus
calls its consumers inside `bind`, so a cascade is a stack of frames. Every action
runs the innermost frame for one step.

| frame | code | action |
|---|---|---|
| `event` | a bind whose event has to be delivered | `OnTreeChange`: match, backstop, counter |
| `wake`, `refuse` | the two loops of `on_tree_change` | `WakeNext`, `WakeDone`, `RefuseNext` |
| `evaluate` | `re_evaluate` up to its outcome | `ReEvaluate` |
| `publish` | the write of a result | `PublishResult` |
| `freeze`, `mark` | the two writes of `_freeze` | `FreezeResult`, `MarkFrozen` |
| `forget` | clean-up of stale registrations | `Forget` |
| `register`, `evaluate_now` | phase 4 of `install` | `Register`, `EvaluateNow` |
| `unbind` | the end of `uninstall` | `Unbind` |

Requests are `Put`, `Install`, `Uninstall` and `Edit`, which replaces, deletes or
re-creates a root expression; `Expire` is the clock. `ReactiveRestart` adds
`Restart`, at any point: index, counters and stacks are gone, and `Rebuild` reads
the metadata row by row, in any order, before the peer serves again.

Some results the engine leaves stale by design, and the ghost `cut` names them when it happens,
until they are published anew: a restart evaluates nothing, so it cuts off wake-ups and does not
see that an expression was edited; what a caller writes at a result path or a root path does not wake the subgraph of it; and where
several threads serve, an evaluation may be published after another thread has changed its inputs.
`FreshUnlessCut` speaks of all others: every active subgraph that watches all that its expression reads,
also one that goes on under an edited expression, or under the reads of an earlier one.

What is bound is an entity (`ResultEntity`): a primitive value is wrapped together with the hash of its
expression, so that the same value of another expression is another entity, and an event.

Abstractions: an evaluation reads its
inputs in one step (`ReEvaluate`), the result is written in another; metadata,
expression and process paths are read by no expression, so their events wake
nothing and are not delivered. `Compute` is a parameter: the evaluator is a pure
function of what it reads. `SharedReentry` is TRUE for the engine-wide counter
(Python) and FALSE for the thread-local one (Rust). With a single thread the two
are the same counter, so the passing run speaks for both.

### ComputeInstall and ComputeAuthority

`ComputeInstall` is `install` in its phases: `Ask` and the audit of the expression,
which is a sequence of nodes that read, refer to data, dispatch or call a builtin;
`Authorize` (the caller's capability against what the audit found and the path the result
goes to, which a request may override (`Overrides`), and the verdicts on embedded capabilities), `Seal` (data hashes, each by its hint),
`Keep` and `Commit` (grant and metadata), `Watch` (registration). Writers rebind
data and rewrite expressions meanwhile (`BindData`, `Rewrite`); `Reboot` and
`Reaudit` are the rebuild, which audits without an installer. Every refusal of
the code is a verdict here.

`ComputeAuthority` evaluates what was installed, through each door: `EvalRequest`,
`DispatchNative`, `WakeUp`, the last also from inside another evaluation that
stores where a subgraph reads. An evaluation walks its program's nodes (`LookUp`,
`Resolve`, `Apply`, `StoreAt`), is refused or exhausted, and writes its result.
It has a token, the hashes it was sealed with, and a budget that is the least of
the ceilings that apply. Correct means: `InstalledIsAuthorized`,
`NothingBeyondItsToken`, `CeilingsHold`.

### Evaluator

`evaluate` as a machine. A frame is one activation of it: the expression it is at, the
scope, the values obtained so far, and whether the current step has been charged.
`operations` and `depth` are the two counters of `Budget`.

| action | code |
|---|---|
| `Start` | the call of `evaluate_at` |
| `Charge`, `Exhaust` | the head of the loop of `evaluate` |
| `ShortCircuit` | the guards after each operand, argument and element |
| one for each arm | the arms of `_dispatch`: literals, lookups by scope, tree and hash, `if`, `let`, `lambda`, `apply`, operators, construction, values |
| collections and `store` | the builtins over arrays (map, filter, fold, assoc, group, concat, range, length), and the write through the tree |

An arm does one of four things to the innermost frame, as in the code: it hands it
a value (`Give`), ends it (`Return`), calls `evaluate` on an operand (`Call`), or goes on
in it with a tail expression (`Become`). References are content-addressed, so a
reference is the entity itself; paths of the `Tree` are the only indirection and the
only way round. `ShortCircuits` is the rule of consumed and contained positions with
the test the code makes there, `Minted` and `Stored` are the two forms of an error, and
`Fetch` and `Ask` differ as the code's two guards do: an operand of arithmetic that is a
stored error is evaluated, and charged, where all other kinds take it as it is. A
builtin that repeats an inline kind is an `alias` of it. Expressions may be malformed,
closures may be stored, loaded, or out of reach. `Combine` (what an operator makes of
its operands) is a parameter.

`construct` builds an entity of any type, so also an error, an expression or a closure. For the types in
`CodeTypes`, `Built` says what the entity is: written to the tree and looked up there, such an
expression is evaluated, and such a closure is applied like any other. A reference in a built entity to something that
was itself built on the way dangles in the model. Of an error that is
stored or constructed only its code is kept, and a bare map is not among the values.

### SubgraphAudit and EvaluatorBudgets

`SubgraphAudit` is the walk of installation and reactive registration, and then the
evaluation whose reads it is meant to find. `visited` and `pending` are where the walk has been
and what it has met; `Visit` goes to one entity, and when nothing is pending the expression
is evaluated. `ReadsAreAudited` is about graphs that hold their own code
(`SelfContained`): nothing that runs is in the tree or behind a hash lookup, and none is built (`BuildsData`).
The walk cannot know what a constructed expression will read: it need not exist yet, and the type that the
builtin form of `construct` gives it is itself computed. The evaluation of such
expressions is modelled and run all the same, since every other property of an evaluation holds of them too; what they
read without a registration is one more instance of what `EvaluatorUnauditedRead.cfg` refutes.
`EvaluatorBudgets` evaluates an expression twice, first under ample limits, then under
any others, or as the operator it is an alias of: `BudgetIsExact`,
`WritesArePrefix`, `AliasIsInline` compare the two.

### Arithmetic and Register

`Arithmetic` applies one operation after another to a value: int and uint of a
narrow width H, floats counted in halves, infinities and NaN, comparisons, casts on the spot and
through an operand. `Register` is what it promises: a register in which signed
and unsigned are two readings of one pattern. `ImplementsRegister` is the refinement.

### ContentGet, ContentBlob, Chunking

`ContentGet`: `get` as a loop over the requested hashes with the running budget; other
threads store and collect entities meanwhile; an entry that is no byte string ends it with a refusal
(`Reject`); the requester retries with `missing` as long as that brings it something.

`ContentBlob`: one manifest and its chunks in a content store; threads run `ingest`
entity by entity, `store_blob`, `ensure_closure` and `reassemble_content` read by read.
A manifest may turn out to be no blob (`NotABlob`).
`foreign` says whether the manifest came from elsewhere, in an envelope or before
the model starts: only then may it be there without its chunks. Nothing is
collected in this module: a certified blob can of course be collected.

`Chunking`: `cdc_boundaries` byte by byte. The register of the rolling hash has `Width`
bits instead of 64; the skip of the minimum, the two masks on either side of the
target and the cut at the maximum are the code's (`TakeRest`, `Roll`, `CutBehind`,
`CutAtLimit`). A file is chunked, edited at its beginning (`Edit`), and chunked again:
after one common boundary all later ones are common (`RejoinsAfterEdit`).

### Installation

The hosts: `Install` is the sequence of writes of an extension, `Configure` that of
a composition with history's policy. Each write is a step (`Bind`, `Grant`, `Sign`,
`SetBody`, `Listen`, `InstallEvaluator`); the process may end before any of them and
`StartAgain` over the tree it left. `EvaluateExpression` is what dispatch meets
afterwards, for each of the seams a peer may offer for the evaluator.
`AuditStartsEmpty` and `ReachableIsWhole` are what the order of the steps is for.

### Compose

`tools/compose.py`: `Resolve` dequeues one name of the closure, `Emit` makes the
checks in the code's order (patterns, namespaces, snapshots, profile, faces) and
writes the plan or refuses, `Rerun` is another run over edited contracts or an edited composition,
with or without `--check`.

### ConformanceReports, BaselineGate, CoverageGate, ConformanceGates

`ConformanceReports` makes the reports: `RunStems`, `Launch`, `LaunchFails`
and `Relaunch` are the recipes' loops over arms and rounds, `Repin` another build of the
oracle with other names for its checks, or another state of the extensions. A launch whose host does not
come up ends `make conformance`; an oracle that dies without a report does not, since `host-launch` runs it
under `|| true`, and the next round follows.
`BaselineGate` is `check-expectation.py` and `diff-arms.py` with `BlessBaseline`,
`CoverageGate` is `req-coverage.py` with `BlessMap`; both are operators over the
reports, since the tools only read. `--bless` writes the tallies without the absent
(`Inline`), as `_inline` does. `ConformanceGates` puts them together, and `LossIsNeverGreen` says of each
verdict what it is good for: `diff-arms.py` passes no stem in which a check that is stable on both arms is
broken by the extensions (`NothingIsBroken`), and `check-expectation.py` none in which something the baseline remembers is
lost (`NothingIsForgotten`).

### ExtChecks

The recipe `ext-checks`: `Make` validates and emits the corpus, then each arm's
client ends in one of five ways (`ClientReports`, `ClientDies`, `BootFails`,
`ClientHangs` and `TimesOut`), and `Compare` judges the files that are there.
Between makes somebody authors checks, declares faces or changes a host.

## 3. What is checked

Every property of a passing run is broken by at least one mutant of the code it is
about.

| run | states | what it shows |
|---|---|---|
| `MCHistory.cfg` | 303,973 | A peer that serves requests in turn, with three configurations that overlap, filter and shadow, and a peer whose two threads race over one configuration that comes and goes: `TypeOK`, `ChainSound`, `RestoresOnlyPast`, the refinement `ImplementsAuditLog`, `EveryRequestIsAnswered` |
| `MCCompute.cfg` | 672,588 | Two subgraphs that feed each other, installed, re-installed, edited, uninstalled, expiring and frozen, with a restart anywhere: `StackBounded`, `FreezesAreJustified`, `FreshUnlessCut`, `IndexMatchesTree`, `EveryRequestIsAnswered`. Every ending of an installation whose writers change what it has checked: `InstalledIsAuthorized`. Evaluations through every door: `NothingBeyondItsToken`, `CeilingsHold` |
| `Evaluator.cfg` | 464,100 | Expressions of every kind, evaluated under ample limits and again under every other budget and depth, or as what they are an alias of: `DepthBalanced`, `ExhaustionDecides`, `BudgetIsExact` (an evaluation of n steps gives its answer under every budget above n and `budget_exhausted` under every other), `WritesArePrefix`, `AliasIsInline`, `ReadsAreAudited`, `EvaluationEnds`. Arithmetic: `ImplementsRegister` |
| `MCConformance.cfg` | 307,032 | Sets of contracts resolved or refused: `PlanIsTheClosure`, `PlanIsSound`, `ResolutionEnds`. Reports made, renamed, spoilt, interrupted and repeated, and what the gates say of them: `LossIsNeverGreen`, `RenamesAndLossesToldApart`, `GreenCoversTheSpec`, `MeasurementEnds`. Authored checks whose clients die or hang: `GreenIsEarned` |
| `MCContentHistory.cfg` | 1,540,344 | Side by side: `get` with its requester (`PacksInOrder`, `RetriesEnd`), blobs stored and checked by two threads (`CertifiedStaysComplete`, `OwnBlobsAreWhole`), chunking before and after an edit (`ChunksAreSized`, `RejoinsAfterEdit`), history read page by page (`AnswerIsExact`, `ReadsWholeChain`), the lookup in every listing order (`SelectsMostSpecific`), every host's installation with crashes (`AuditStartsEmpty`, `ReachableIsWhole`) |

### Bounds

The bounds limit what callers ask for, never what the code does with it.

- *History* (`MaxCommits` of two for the path and one for a configuration): two events
  can be delivered in the reverse of their order, a scan can race a
  reconfiguration, a rollback can race a put.
- *Reactive engine* (`MaxRequests` 4, `MaxInstalls` 2, `MaxRestarts` 1): two subgraphs
  are installed, then an input or an expression changes, one is uninstalled or
  installed again. `CascadeLimit` is 2 instead of the code's constant: the cycle of
  the two reaches it with values, and the backstop with errors. Callers write inputs and
  expressions and leave results alone, which the proof of freshness does not ask of them. One thread: see below.
- *Installation and authority* (two requests where installations are looked at, the second of which may
  re-install, and one where evaluations are; `MaxWrites` 1,
  `MaxNesting` 2, `MaxEvaluations` 1, `DefaultBudget` 4): one writer's change between any
  two phases of an installation, and an evaluation woken inside another. The ceilings
  include zero.
- *Evaluator*: every kind over pairs of operands that succeed, fail, are missing, are
  stored errors, read, write or go round, once, and inside a collection inside
  another; lookups, literals and closures that are built as data, stored, and run. The ample limits (24 operations, depth 6) suffice for every one that ends;
  budgets up to 7 run out at each step of most. `H` is 4, so the integers of both
  kinds wrap within eleven values (-4 to 7); floats stand between and beyond them.
- *Content*: three hashes of sizes 8, 3 and 1 in a frame of 11 reach every combination of
  fitting, not fitting and running out. The largest fits no frame at all, so it is turned away on every
  retry, with all that is asked for behind it. Three calls by two threads on a blob.
- *Chunking*: a register of 6 bits and targets of 4 and 8 give cuts by either mask, at
  the maximum and at the end of the data.
- *Paging*: `MaxWalk` is 3 and `MaxChain` 4. A client that set out when the chain had one or two
  transitions reads a page, sees it grow, and reads on within the walk bound, so the promise of
  `ReadsWholeChain` stands across a recording between two pages; and a chain of four puts it out of reach.
  The walk bound, the limit, a lost transition and the end of the chain each end some walk first.
- *Hosts*: two processes over one tree (`MaxProcesses`), the first ending anywhere.
- *Tools*: three extensions that may depend on each other in any way, and between two runs a
  composition that asks for others (`Redesigns`); two runs of
  the oracle with one mishap, four assertions under five builds that rename, drop and reuse their names;
  two makes of the authored checks with one edit between them, since a stale file
  needs a make that left it and one that trusts it.

`MCCompute.cfg` and `MCConformance.cfg` do not check for deadlock: when the requests, makes
and edits of the bounds are used up, the system has stopped rightly. What must not
stop before is stated as liveness.

### Fairness

All of it is weak fairness of a program that has been called and goes on. Nothing
assumes that a request is ever made, nor that one interleaving is preferred.

- `RecorderFairness`, `PeerFairness`: a thread inside a delivery continues; a started peer
  rebuilds its index. Nothing in the code waits.
- `GetFairness`, `PagingFairness`: the handler finishes its loop, the client goes on
  with what it was told.
- The evaluator runs on its caller's thread: `BudgetNext` is weakly fair as a whole.
- `ComposeFairness`: the resolver runs on. `CheckFairness`: a launched client ends, by
  itself or because it is stopped (`TimesOut`), which the launcher's `--timeout` to the container
  runtime justifies; then the comparer runs.

*Symmetry* is used in `HistoryLostUpdate.cfg` only, over threads and values; that run
checks no liveness.

### Where the code and its documents disagree

Seven runs expect a violation: each checks one property that a comment or a
document of the repository states. `PROJECT.json` quotes the lines.

| run | statement | what happens |
|---|---|---|
| `HistoryLostUpdate.cfg` | walking from the head gives the complete history | two threads link to the same predecessor; one reported transition is unreachable (`ReportedIsReachable`) |
| `ReactiveSharedCounter.cfg` | the backstop fires only for error cascades | another thread's cascade counts (`CascadeFreezeJustified`; proved where it cannot, see below) |
| `RebuildLosesInstalled.cfg` | a rebuild registers what is installed | an expression that embeds a capability is audited without its installer and left out (`RebuildFindsInstalled`) |
| `EvaluatorValueForm.cfg` | a limit error halts a collection in either form | a stored `budget_exhausted` read by a function is contained (`LimitsHaltInAnyForm`) |
| `EvaluatorUnauditedRead.cfg` | every reachable tree lookup is registered | what an expression behind a hash lookup reads is not (`ReadsAreRegistered`) |
| `GatesSwallowedLoss.cfg` | a check reported as renamed is gone under its old name | a lost check that is still in the report is taken for renamed (`RenamedChecksAreGone`) |
| `ExtChecksStaleReport.cfg` | an arm that died is not an arm that passed | the file an earlier make left is judged in its place (`DeadArmsAreRefused`) |

The first two need two threads, so they concern Python and, the shared counter apart,
Rust. TypeScript's event loop serves one call at a time.

More statements are refuted by the same models, if one of these properties is added to a configuration:

- *Selection does not depend on enumeration order*
  (`spec-data/history-v1.10/EXTENSION-HISTORY.md`, line 756): `SelectionIgnoresListingOrder`
  in `MCContentHistory.cfg`. Two rows with one canonical pattern tie, and the first
  one listed wins.
- *`has_more` loses no reachable state* (`extension-contracts/history/EXTENSION.toml`,
  line 301): `MoreCanContinue` in `MCContentHistory.cfg`. The walk counts from the head
  again on every page, so a cursor `max_walk` transitions back gets an empty page for ever.
- *A dependency is installed before the extension that declared it* (`tools/compose.py`,
  lines 478-479): `DependenciesComeFirst` in `MCConformance.cfg`. The closure is a queue,
  whose order is the reverse. No contract of the repository declares a dependency yet.
- *When a put has answered, results are up to date* (`reactive.py`, lines 13-14), with two threads: an older
  evaluation is written over a newer one and nothing wakes the subgraph again. `FreshUnlessCut` sets such
  results aside, since `Serve` counts them in `cut`; without that disjunct of `Serve` TLC finds them.
- *The index follows the metadata* with two threads: `IndexMatchesTree`. An installation may register
  after an uninstallation that overtook it, which `Forget` repairs later; but `Forget` may also
  drop the registration that a new installation has just made. The same holds of a freeze's
  reason, which an evaluation in progress may write over: the second half of
  `FreezesAreJustified` is claimed for one thread.

### Observations made while translating

Modelled as the code has it, and no property is about them; they are noted for whoever
maintains the documents.

*Compute.*
`_eval_operand_pair` speaks of the error guard "after each of the four steps"
(`evaluator.py`, line 1720) and tests two of the four for in-flight errors only, so an
alias whose operand is a stored error costs one step more than its inline kind. The
docstring of `resolve` claims a form for errors met while reading that
`mark_encountered` does not feed. `eq` compares representations, the order operators
read bit patterns, so -1 and 2^64-1 are each at most the other and not equal.
The float remainder of an infinite dividend
raises (`math.fmod`, `evaluator.py`, line 1662), and nothing between there and the dispatcher makes an answer
of it (`Raised`). `operations_used` can be 1 under a budget of 0. An installation audits handler calls
that an evaluation always refuses.

*Content and installation.* The mask of the rolling hash is described as load-bearing
(`chunking.py`, lines 86-92); the boundaries do not depend on it. On a restored tree whose policy is bound
already, installing history before another extension records that one's installation,
although the host's comment says that the order carries no constraint.

*Gates.* `--bless` refuses unmeasured stems only, not refused ones. A pinned check that
stops publishing its reference passes. Rows of an unknown level in tables without ids
are dropped, and a dropped last row of a table with ids is not noticed. `check-expectation.py` accepts arms with unequal numbers of rounds,
which `diff-arms.py` refuses; of the two only the former exempts straddles from losses.
A refused composition leaves the plan of the previous run in place.

*Authored checks.* A bare arm full of `error`, because its peer was unreachable, is
admitted; `GreenIsEarned` excludes it by name (`unreached`). A glob that matches no
file ends the comparer with an exception. In `tools/host-launch` the wait for
readiness can run out with a live host that does not listen, and goes on to the client.

## 4. What is proved

TLAPS proves the following for every value of the constants, from the named assumptions of the
modules (which TLC evaluates in the runs) and the hypotheses written in the theorems. Each
theorem of this list states a property that a passing run checks; `FreezesAreOwn` states the
first half of one, `FreezesAreJustified`.

| module | theorems | assumptions and hypotheses |
|---|---|---|
| `HistoryRecorderProofs` | `TypeCorrect`, `ChainIsSound`, `RollbackRestoresPast` | `RuleAssumption`, `ConstantAssumption` |
| | `RecorderImplementsAuditLog` | and `DistinctPatterns` |
| `ContentHistoryProofs` | `AnswersAreExact` | `QueryAssumption` |
| | `SelectionIsMostSpecific` | `PatternAssumption`, `SpellingAssumption` |
| | `AuditStaysEmpty`, `ReachableStaysWhole` | `InstallationAssumption` |
| `ContentProofs` | `VerdictsHold`, `OwnBlobsAppearWhole` | `BlobAssumption` |
| | `ChunksAreAlwaysSized`, `ChunksRejoin` | `ChunkingAssumption` |
| | `GetPacksInOrder` | `GetAssumption` |
| `ReactiveProofs` | `StackStaysBounded`, `FreezesAreOwn` | `EngineAssumption`, `RestartAssumption`; `OwnCounters` for the second |
| | `ResultsStayFresh` | `EngineAssumption`, `RestartAssumption`, and nothing else |
| | `IndexFollowsMetadata`, `FrozenResultsTellWhy` | and `OneThread`; callers write no results for the second |
| `ComputeAuthorityProofs` | `InstallationsAreAuthorized`, `AuthorityIsNeverExceeded`, `CeilingsAlwaysHold` | `InstallAssumption`, `AuthorityAssumption` |
| `EvaluatorProofs` | `DepthIsBalanced`, `ExhaustionIsTheAnswer` | `BudgetsAreNatural` |
| | `BudgetsAreExact`, `WritesStayPrefix` | and `AmpleIsMost` |
| | `AliasesAreInline` | and `AliasesAreOperators` |
| | `ReadsStayAudited` | `BudgetsAreNatural`, `NoneIsNoCode`, `BareHoldsNoCode`, `TreeHoldsEntities`; `CombinesFlat` |
| | `ArithmeticImplementsRegister` | `ArithmeticAssumption` |
| `ToolProofs` | `PlansAreClosures`, `PlansAreSound` | `ComposeAssumption` |
| | `GreenLosesNothing`, `RenamesAreToldFromLosses`, `GreenCovers` | `ReportsAssumption`, `ContractAssumption` |
| | `GreenIsAlwaysEarned` | those of `ExtChecks` |

The assumptions are what the code's types, constants and inputs are: that a frame has a
size, a gear table has entries of the register's width, that no contract entry repeats a text. A few
separate a marker from what it marks (`Unbound` from names, `Unset` from expressions and metadata,
`Missing` from the states of faces), as `None` is distinct from values in the code.

### History

`ChainSound` is not inductive: `AdvanceHead` replaces a chain by what its thread
*read* some steps earlier plus the transition of an event it *received* some
steps earlier. `RestoresOnlyPast` is not either: `RollbackBind` writes a value
that was validated against a chain that may have been replaced since. The
invariant `IInv` adds what makes both safe whatever other threads did in
between, namely that everything a thread holds is covered by `commits`, which
only grow:

- `CommitsAreChanges`: recorded changes are changes, of their own path;
- `ChainRecorded`: every transition in a chain is the transition of some commit;
- `DeliversItsCommit`: the event in delivery is a commit of its path;
- `BaseRecorded`: so is everything in a head that was read and not yet replaced;
- `RestoreWasHeld`: a validated rollback target was held by its path.

Two lemmas carry the induction. `CommitKeepsIInv` treats the steps that commit (put
and rollback's bind) and `QuietStep` every other step; `StepIInv` has one case for
each action. `OutranksAsymmetric` and `OutranksTransitive` say that the comparison
of specificities is a strict order.

The refinement needs what a serial peer adds. `SerialInv`: one thread is busy at a time;
while it scans, `best` is a bound row that covers the path and is outranked by no row it has read,
or `Absent`; a thread that advances the head read it as it still is, and its event is one that the configuration in force
records; a thread that restores has a target the chain still names. `ScanFindsInForce` is the heart: when
no row is left, `best` is *the* configuration in force, because `Outranks` is total on
distinct patterns. Each step is then a `LoggedWrite`, a `LoggedRestore` or a stutter.

*The query.* `WalkIsExact` says what the page is in the middle of the walk: the wanted
transitions of the stretch behind the head, in order, none twice. `EndsForAReason` gives
for every ending the one of the limits that caused it; from the two follows what `has_more` admits.

*The selection.* `Below` is the lexicographic order of the specificity keys, and
`BelowIsAnOrder` that it is one; `ScanIsSound` holds whatever rows come first.

*The installation.* `Ordered` is what a list of steps must be like for a reader to be safe at every
point of it: what a reachable step needs comes before it, and the recorder listens only after what
it must not record. `InstallIsOrdered` and `ConfigureIsOrdered` show that the lists the hosts
work off are ordered, and `HostIInv` carries the order through steps, crashes and restarts over
a tree that already holds some of it.

### Content

For blobs the difficulty is that a verdict is a sum over chunks read one at a time
while the store grows. The invariant says that some running totals exist
that the readers' counts follow (`ReadersCount`), that a manifest of this peer comes after its
chunks (`ChunksFirst`), and that `Verdicts` given stay true.

For chunking, `ChunkAt(d, size)` says, by the distance `d` from the end of the file, that a scan
from there ends after `size` bytes. It does not mention the file's beginning: `ScansAgree` and
`ChunkIsDetermined` show that one scan only can end so, `ScanIsRecorded` and `EarlierIsChained` that the cuts of both
versions are chains of such chunks, and `ChainsRejoin` that two chains with a common
element agree behind it.

For `get`, `Spent` ties the running budget to the sum of the costs of the positions packed, so that
an entity is turned away exactly if it did not fit, and `PackedSoFar` ties `found` and `missing` to
the prefix of the request already looked at.

### Reactive engine

`StackBounded` relates a counter to stacks. Its invariant says that each counter equals
the number of wake-ups on the stacks that share it, and is at most the limit: an
`event` frame pushes its wake-ups only if the counter allows, and `WakeDone` gives back what its
own frame took. With a shared counter the sum runs over all threads.

`FreezesAreOwn` is the positive half of the disagreement of `ReactiveSharedCounter.cfg`. If a counter
belongs to one stack (`OwnCounters`: one per thread, or one thread), every frame that
refuses or freezes for `cascade_limit` is `Founded`: the depth of its event is at the limit, or the
wake-ups beneath it on its own stack are. Its invariant carries the reason with the frame from the decision to the write.

The next two need `OneThread`; with two, TLC refutes each of them (section 3). All
share one description of a step: `Turns` and `GoesOnAs` say what may become of the innermost call, by kind of
frame, and `Effects` what it does to tree, metadata and index. `WellFormed` says which
frames can be beneath which.

- *The index.* `IndexFollows`: a watched subgraph is installed and watched under exactly the
  paths its expression reads, and every active one is watched, except those that a `register`,
  `unbind` or `forget` on the stack, or a pending rebuild, still has to deal with (`Awaits`).
- *The reasons of freezes.* A freeze writes its reason, runs a whole cascade, and only then marks
  the metadata. `Told` says that between the two some frame beneath makes it certain that
  nothing in that cascade publishes over the reason: the event is too deep, the grant is
  expired, or the frame refuses (`Doomed`, `Spares`).
- *Freshness*, of any number of threads. `WatchedAreFresh`: whatever is active and watches all that its
  expression reads has a result that is not `Stale`, or is in `cut`, or is `Pending`: some frame of some thread `Touches` it, an
  event that it watches, a loop that has it still to wake, an evaluation or a publication. A write makes all its readers
  pending (`EventsAreHeard`, `WriteKeepsFresh`); a frame passes its obligation on to the frames it turns into,
  whatever other threads do (`TouchGoesOn`, `TouchLasts`), until a publication ends it: that
  leaves the result fresh, or overtaken by another thread and then in `cut`. No frame is left when the peer is quiet.
  `RowsAreFresh` says the same of what a restart found and a pending rebuild will register (`RebuildKeepsFresh`), and
  `PublishesNews` that on a single thread, where overtaking is no excuse, a frame that publishes carries the outcome of its
  expression over the tree as it still is.

`ResultsStayFresh` has no hypothesis on expressions, edits, inputs or threads. Subgraphs may read each
other's results in chains and circles, and callers may write over results and replace expressions by others with the
same reads. What the engine is not told of, or was cut off from, is
in `cut` from that step on (`Arrive`, `Serve`, `Restart`) until the next publication; nothing else ever is.

### Compute authority

`InstallIInv` says that a call in progress has authorized and sealed what it will commit
(`CallsSound`), whatever writers have rebound since, and that all that is installed was so
(`InstalledSound`). `AuthorityIInv` adds for every activation on the stack that it is `Lawful` (what it holds
its token may read; an installed one runs what was installed) and `Budgeted`: the steps left plus the
operations used are within every ceiling, which makes the last theorem inductive.

### Evaluator and arithmetic

`ExhaustionDecides` is about an answer that may be many frames away. Its invariant adds
`HandedExhaustion`: once operations have run out, the innermost frame, if it is charged, has
just been handed `budget_exhausted`; so it short-circuits and no arm runs. That holds
because frames below the innermost are charged, and because a frame that ends hands on
what it was handed. `ArmsMove` reduces the arms to the four moves, and there is
one lemma for each move. Expressions and values are no fixed set, so `Stacked` says only that
some sets exist over which the stack is a sequence of frames, and `Room` enlarges them.

`BudgetsAreExact` and `WritesStayPrefix` compare two evaluations, and only one is on the stack at a
time; the invariant therefore keeps the first. What the innermost frame does next is a function of the frame and
of what has been written (`Decision`, `WrittenBy`): `ArmsDecided` shows that every arm makes
the decision of its kind, and `StepsAreDetermined` that a step which does not run out of budget takes
a state to one state, `After`. `TwiceIInv` says that while the first evaluation
has budget it stands at the end of a `Trace`, a sequence of states from the empty stack
each of which is `After` the one before (`FirstRun`), and that the second stands at one of the states of
that trace until its own budget runs out, which happens only before a charge the first one paid
(`SecondRun`). The depth of the second matters only at a call it is denied; where it suffices
for every stack of the trace the two go the same way (`DepthSuffices`). `AmpleIsMost` asks that the
ample limits are limits, that no limit is above them, and that they allow a frame at all:
with no depth the answer is `depth_exceeded`, whatever the operations.

`AliasesAreInline` relates the trace of a builtin to the run of the operator it stands for. Their
stacks differ in the frame at the bottom only, which has one value more, the text (`Under`,
`AsAlias`); whatever happens above that frame happens to both (`AbreastAbove`). The builtin is
ahead by the five steps that evaluate its text (`AliasReads`), and from there one step of the
operator is one of the builtin (`AbreastGoesOn`), except where `field` has a stored error for its
operand: the operator takes it in one step, the builtin evaluates it in three (`AbreastDelays`)
and answers with the same code in the in-flight form. `AliasRun` is the invariant: the operator
stands beside a state of the builtin's trace, `NotBegun`, `Abreast` or `BothEnded`. It has always
spent less than the builtin at that state, so it cannot run out where the builtin did not
(`OperatorSpendsLess`); the property is about builtins that did not, `first.cost <
Ample.operations`, since the two may otherwise have run out at different places. `AliasesAreOperators`
asks that the aliases to evaluate are of the five operators the code has builtins of, that a field
has no more than its one operand, and that depth suffices for an operand.

`ReadsStayAudited` follows functions: an evaluation reads what its innermost frame is at, and what a
frame is at may be the body of a closure that was built, bound, captured, put in an array or a field,
written to the tree and read back. The invariant says that, once the walk is done and the graph is self-contained,
there is a set of values that is `Ground`, from which everything in scopes, frames and writes comes
(`OnTheWalk`): it holds bare values and the stored entities of the walk, its functions have
their bodies where the walk has been, and what its arrays, entities and environments are made of is in it
too. Each step needs room for one or two values more (`Grows`), and there is one lemma for each operator of the
evaluator (`ResultGrows`, `CollectedGrows`) and for each kind of decision (`DecisionsAreGood`).
Frames of collections are `Fitted`: past their first argument they have an array, past the second
a function, because a frame that waits for a value has found no fault with those it has (`UnfitEnds`).
The two hypotheses on data are that literals hold no functions (`BareHoldsNoCode`) and that
arithmetic answers numbers, truth values, texts or errors (`CombinesFlat`). Graphs that build code are outside the property
(`BuildsData`), because in the code too what they read is unknown to the walk; what is built of any other
type is followed into the tree and back like every value.

`ArithmeticImplementsRegister` maps an integer to its pattern, its remainder by 2H. Sums,
differences and products commute with the mapping (`RemaindersOperate`); quotients,
remainders, comparisons and casts do not in general, and there the two readings, the
signed and the unsigned one, are treated apart (`DivisionsAgree`, `RemaindersAgree`,
`OrderIsAnswered`, `RequestsAgree`).

### Tools

*The resolver.* `Met` (queue and resolved names together) holds what was asked for and what its members need,
and only what is needed; an empty queue makes that the closure.

*The gates.* The half of `GreenLosesNothing` about `diff-arms.py` is about reports that were all made with one oracle
and one state of the extensions (`RanWith`): a steady check then reads the same in every round, so a broken one is
stable on both arms. The half about the expectation gate needs that a baseline remembers what it was blessed for
(`BaselineRemembers`) and that the rename join, a greedy pairing, never leaves an assertion out whose obligation
nobody gained (`JoinKeepsTheLost`). `RenamesAreToldFromLosses` is about the exactness of the same
join: with as many names gained as lost of each obligation nothing is left over (`Balanced`,
`StaysBalanced`). Both directions have limits that the code has and the
properties state: a name that the oracle passes on to *another* assertion is not compared with
the obligation it was blessed for (`NameNotReused`), and the coverage gate looks for a renamed
check in its own category only (the last conjunct of `RenameIsNoLoss`).

*Authored checks.* While a make runs, every launch that has ended is accounted for by a report or
by its absence (`AllAccountedFor`); what `Compare` then accepts was carried.

### Only model-checked

- Liveness under fairness and everything else about ENABLED: `EveryRequestIsAnswered`,
  `EvaluationEnds`, `MeasurementEnds`, `ResolutionEnds`, `ReadsWholeChain`, `RetriesEnd`.

Every other invariant and action property of a passing run is the statement of a theorem.

## 5. Not modelled, and why

- *The order of texts, and the precision lost from integers to floats*: the first is the
  comparison of two constants, the second cannot be seen at a narrow width.
- *Fixed-size blobs, descriptors, hash-tree presence, the capability wrapper of content*:
  single calls without an intermediate state.
- *Garbage collection under a rollback or a certified blob*: the peer's business;
  the code answers with an error and changes nothing.
- *Capability checks of the history handler* are the set `MayRollback`: a check that
  refuses changes nothing.
- *Content of the type tables*: data.
- *Parsing of Markdown and wording of messages* in the gates, and `compose --check`,
  which compares two renderings of one plan.
- *Clients of the authored checks in other languages*: ports of the one modelled.
- *`check-expectation.py --require`*: it makes a missing measurement fail that is else reported; no property
  relies on it.
- *`max_compute_depth` of a grant*: `CeilingsHold` is about operations; what a depth limit does is in `Evaluator`.
- *Builds and containers*: outside programs. The launcher is modelled by its exits.
- *Linters and reports* (`check-citations.py`, `check-error-codes.py`, `check-spec-lists.py`,
  `scale-report.py`): one pass over files, no state and no interaction.
- *The peer*: external; modelled from how the extensions use it.

## 6. What is left

In the order of their worth: the engine with two threads as passing runs, once the code says what it promises there;
tail calls of the evaluator; `create_blob_fixed`; what the Rust and TypeScript ports do
differently beyond counters and threads.
