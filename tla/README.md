# az-capa: TLA+ models of the data-collection back end

az-capa collects Azure capacity data (reservations, virtual-machine usage,
activity logs, reference data) into storage tables and blobs and reports on it.
The collection is done by *pipelines*, each an orchestration of Durable
Functions, which one dispatcher starts on request or by timer; several workers
may run the dispatcher at once. This directory models the parts of that back
end whose correctness depends on the order of their steps, checks them with TLC
on small instances, and proves the main results with TLAPS for all instances.

Paths below are relative to the repository. `PROJECT.json` lists, for each
definition, the source lines it stands for, and for each hazard of the code the
properties that would notice it.

1. Inventory of the system
2. Plan
3. The modules and the code
4. The runs: bounds, and what each shows
5. Fairness
6. What is proved
7. What is only model-checked
8. Limits of the promises
9. What is not modelled


## 1. Inventory of the system

| Component | State | Operations | Hard behaviour |
|---|---|---|---|
| Dispatcher (`services/data_collection/dispatcher.py`, `storage/scheduler_state_store.py`, `storage/scheduler_history_store.py`, `functions/_durable.py`) | tables `SchedulerRunState` (a row per pipeline: active instance, last dispatch) and `SchedulerRunHistory` (a row per run), the Durable instances | `start`, `scope_busy`, reconciliation by gate, timer and readers, `record_outcome`, `delete_run`, `clear_terminal_runs` | read, await, write without a lock; a claim by ETag; writes without one; crashes between two writes; activities delivered twice; lost replies |
| Dispatch timer (`cadence.py`, `registry.py`, `dispatcher.tick`) | last dispatch, enablement, `LastPrunedAt` | `tick`, contention check, prune | slots and boundaries; a decision made several awaits before it is used; the cap and starvation |
| Schedule overrides (`storage/scheduler_config_store.py`) | table `SchedulerConfig`, a row per pipeline with a revision | `update_config`, `reset_config` | forms that are stale; ETag and revision; deletion row by row |
| Daily usage (`services/usage_refresh.py`, `storage/usage_store.py`, `vm_usage.py`, `cr_usage.py`) | daily rows, a read projection (a ring of 30 days), a state record that says what is loaded | `resolve_plan`, deletions, pages, state, flush | partial failure between deletions, pages and record; scope that changes; calendar that moves on |
| Business Context (`services/subscription_context.py`, `storage/subscription_context_store.py`) | definition rows with ETags, source and snapshot blobs, a manifest, an operation lease, a cache per process | save, delete, refresh, flush, read | a lease that can run out; several blobs and rows that change one after the other; readers without a lock; redelivered activities |
| Activity Log (`services/activity_log/`, `storage/activity_log_store.py`) | operation rows, spilled payloads, coverage per subscription | page fetch and assembly, reconciliation, purge, flush | the events of one operation on several pages; replacement of rows; overlapping windows |
| Zone mapping (`services/zone_mapping.py`, `storage/zone_mapping_store.py`) | a fragment per subscription, one snapshot with the state it covers, a cache | refresh with region drift, retry waves, publication, flush, lookup | fragments and snapshot change separately; a plan trusts the last snapshot's state |
| Compute SKUs, reference data (`compute_skus.py`, `reference_data.py` and their stores) | immutable snapshot, manifest, cache with ETag or time to live, indexes | publish, open, look up, flush | late readers that refill a cache; a snapshot and its indexes read under two locks |
| Application scope (`services/app_scope.py`) | none: a selection over the subscription snapshot | `resolve_app_scope` | fails closed without a snapshot |
| ODCR coverage and decisions (`odcr_coverage.py`, `odcr_coverage_decisions.py`) | one table of decisions | VM list, reconciliation of VMs and reservations, save decisions | batches that succeed in part |
| Usage views, request dimensions, authorization, HTTP routes | none between requests | | |
| Azure clients, settings, thin storage wrappers | none | one request each, classified as answer, throttle, transient or error | |
| Web front end, deployment | browser preferences | | |

How they interact. The timer (`functions/data_collection_bp.py`) and the
administrator's requests call the dispatcher. The dispatcher claims a pipeline's
row, starts its orchestration and opens a history row; `with_run_recording`
wraps each orchestration and calls back `record_outcome` when the body is over.
The pipelines share no tables with each other: they meet in the contention group
of Cost Management, and in the subscription snapshot of the reference data, of
which the application scope of every pipeline is a selection. Business Context
is written by requests as well as by its pipeline, so it has a lease of its own
beside the dispatcher's one-run-per-scope rule. Reports read snapshots and
projections that pipelines may be replacing.

What makes each correct:

- dispatcher: one run per scope at work; a claim is never lost, nor left behind;
  the history tells the truth; a claimed scope is freed again;
- timer: no slot twice, no group together, the cap holds, nobody starves;
- overrides: no edit lost, no form overwrites what its author did not see;
- usage: the record claims only what is stored, or what is missing is known and
  why; the view holds what is covered; a plan asks for what is missing and no
  more; a base changes only by a flush; the dataset catches up;
- Business Context: no edit lost; every publication is complete; readers do not
  go back; a repeated refresh publishes once; sources of live fields exist;
- Activity Log: rows converge on what a single assembly of all events would
  give; coverage never claims a page that was not stored;
- catalogues: what a process serves was published, and was current when the
  reads it overlaps began, or within one life of an entry;
- zone mapping: a snapshot has, for whom it maps, every region it knows;
- coverage report: a VM is given the one reservation that holds it, whatever
  zones are unknown; the browser shows the requirements the server judged;
- decisions: an answered change has reached every machine; transactions are whole.


## 2. Plan

Built, in this order:

1. `SchedulerStores`, `Dispatcher` (composes the stores, the calls and the
   orchestrations), `ScopeLock` as its abstract specification, `DispatcherProofs`
2. `SchedulerConfig`, `SchedulerConfigProofs`
3. `Cadence`, `DispatchTick` (one step for the claim `Dispatcher` takes apart),
   `DispatchTickProofs`
4. `UsageRefresh`, `UsageRefreshProofs`
5. `BusinessContext`, `BusinessContextProofs`
6. `ActivityLog`, with `OperationLife` (the document's table of outcomes) as the
   abstract specification of a row's life; `ActivityLogProofs`
7. `SkuCatalog`, `ReferenceCatalog`: the two ways snapshots are published and
   cached (ETag with indexes; time to live)
8. `ZoneMapping`; `SnapshotProofs`, for the three kinds of snapshot
9. `CoverageReport`, `CoverageDecisions`, `CoverageProofs`

Next:

10. A Business Context instance of three operations (a refresh overtaken by a
    save and delivered again).
11. What the invariants of Business Context say without their assumption: which
    rows an overlap of two lease holders can leave without a source.


## 3. The modules and the code

### Dispatcher, SchedulerStores, ScopeLock

A *handler* is one call of an async method of `DataCollectionDispatcher`; every
storage call and every call of the Durable client is one action, since any other
handler, run or activity may take steps between two of them. `StartGate`,
`GetStatus`, `CloseQuery`, `CloseWrite`, `ClearRead`, `ClearWrite`,
`TryClaimRead`, `TryClaimWrite`, `StartNew`, `SetActiveInstance` and `OpenRow`
are the path of one `start`; `ReconcileState`, `ReviewHistory`, `DeleteRun` and
`ClearTerminalRuns` begin the other calls and share its middle part. A run is an
instance with a phase (`body`, `ended` while the completion activity works, then
Durable's terminal states); `BodyEnds` begins the completion activity, which
takes the same steps as a reconciler.

`runState[p]` is a row of `SchedulerRunState` reduced to `ActiveInstanceId` and
`LastDispatchedAt`; a placeholder `pending:<uuid>` is named by its handler.
`etag[p]` is the set of handlers whose ETag is still the row's: a write empties
it. `history[i]` is the row of a run; `whole` marks one that has its
`InstanceId`, as a row that a MERGE upsert brought back has not. Faults are a
constant: `crash` of a handler, `die` of a run, `startError`, `lostReply` and
`redeliver`.

`ScopeLock` states the promise of the module docstring: a run of a scope starts
only when none is at work, and no run starts twice. `Dispatcher` implements it
with `working` the runs in their bodies and `finished` those past them, in the
executions of `FreshSpec`: those of the code in which no clear is *stale*
(`ClearsFresh`), that is, what `_clear_active` takes out of the row is the
instance that its caller found to be over, the caller's own claim, or nothing.
The code does not compare; the condition names what is missing from it
(finding 1).

### SchedulerConfig

A call of an administrator loads a form, submits an edit, and `patch` reads and
then writes the row; `reset` lists the rows and deletes them one by one.
`etag[p]` is as above; `accepted` and `outdated` are read by the properties only.

### Cadence, DispatchTick

`SlotStart` and `IsDue` are `cadence.py`. A tick is the loop of `tick` with one
action for each await: `Consider`, `CheckBusy`, `CheckGroup` (one other member
of the group at a time), `Gate`, `StartScheduled`, `Prune`. `scope[p]` says
whether the row of the pipeline names no run, one at work, or one that is over
(`stale`). Whoever finds a stale row clears it in a step of its own, without
comparing (`Clear`): the tick in `ClearOwn`, `ClearMember` and `ClearGate`,
everybody else (the four pages, the completion of a run, a manual start,
`delete_run`, the reconciliation at the head of a tick) in `FindOver` and, at
any later time, `ClearLate`. A run whose row is cleared under it is in `lost`.
The claim is one step here because `Dispatcher` takes it apart. Manual starts,
edits of schedules and the ends of runs happen at any point of a tick.
`deferred` counts the ticks that passed a due pipeline
over, and is read by `WaitBounded` only.

### UsageRefresh

One action per activity of `run_refresh` and `run_flush`. `resolve_plan` is the
five disjuncts of `Resolve` (initial load, refusal, rebuild of the projection,
whole profile, reconciliation). `daily` holds the rows as triples of
subscription, day and stream; `ring` is the read projection, whose slot for a
day is the day modulo its length. The pages of a unit are its days in any order,
because the query asks for none. The dispatcher's rule is used here: one
orchestration of the pipeline at a time. A deletion goes by batches of one
subscription and one day, any of which may fail: a failed one (`DeleteFails`)
leaves any part of those rows (`RemovedRows`).

Two ghosts, which no action reads, say whose coverage may be short of rows and
why: `lost` are the recorded subscriptions of which a run deleted rows, all or
part of them, since the record was written (a run that ends writes a record without them), and `short` those
that a rebuild of the projection did not load in full (`Skipped`) or that a
flush dropped without their record.

### BusinessContext

An operation acquires the lease, reads, compares, uploads sources, makes a
generation, writes the rows under their ETags, replaces the manifest, remembers
the snapshot in its process's cache and, for a delete, removes the sources.
Every remote call is a step, every step can raise (`Fails`), a process can die
with all its threads (`Dies`), and the lease can run out under its holder
(`LeaseExpires`). `Local` are the workers of the process whose cache the readers
use. The ETag of the manifest is the number of the operation that wrote it.
`overlap` remembers that a holder worked on after its lease ran out; no action
reads it.

### ActivityLog, OperationLife

An orchestration plans a window for each subscription (`Resolve`: `Fresh`,
`Drifted` or forward with the overlap); each sub-orchestration is a *unit* in a
slot that fetches a page, uploads what spills, writes the rows, and after the
last page commits the coverage; then `StartReplay` gives every planned
subscription a unit that replays at most `MaxUnits` stale rows. Pages are any
partition of what the window shows, in any order; events appear up to `Delay`
late. `Assembled` is the pure assembly of a page's events into a row, `Upserted`
the REPLACE that keeps the first sighting and the terminal time. A unit can fail
alone, be delivered again, or raise: then the orchestration is over and its
other units are left at work as orphans. `claimed`, `skipped` and `torn` are
ghosts: what a coverage claims is stored, what it spans although no plan asked
for it, and whether a flush broke or met an orphan. `OperationLife` is section 8
of `docs/specs/activity-log-history.md` as a state machine; it is instantiated
for the operations whose events arrive together (`FollowsLife`) and for all
(`TransitionsMonotonic`).

### SkuCatalog, ReferenceCatalog

Both upload an immutable generation and then the manifest that names it. In
`SkuCatalog` a reader takes one step per request or lock: the ETag, the cache,
the manifest, the snapshot, `_set_cache`, and then, for `find` and
`find_pairs`, the indexes under their own lock (`LooksUp`) or, for `get_state`,
the snapshot that was returned (`AnswersState`).
Generations are numbered, and the number is the manifest's ETag. `seen` and
`since` collect the generations that were current while a read, or one it
overlaps, was at work. In `ReferenceCatalog` the process's entry expires by
`time.monotonic()`; a thread renews it or replaces it as it left off, so late
threads overwrite newer entries; `lag` is how old an answer was.

### ZoneMapping

`ResolvePlan` compares the scope with the state in the last snapshot and the
probed regions with the known ones; then fragments are deleted, fetched in waves
(`RetryCohort` takes up what Azure put off), and `WriteState` publishes whatever
fragments there are. A fragment is the set of regions it maps. `lost` is a
ghost: the subscriptions whose fragment went in a run that published nothing.

### CoverageReport, CoverageDecisions

`CoverageReport` follows one virtual machine through a request: two queries in
two threads, reconciliation with the reservations (by physical zone where all
zones are known, else by pool), the instance views of the candidates, lifecycle
status, eligibility, and the sparse row that `vm-coverage.js` unfolds. Azure may
change between any two reads. `CoverageDecisions` is a user's change: checked as
a whole, cut into slices of one partition, each a transaction that may fail with
an unknown outcome; the user may ask again while others write.


## 4. The runs: bounds, and what each shows

| Run | Bounds | Shows |
|---|---|---|
| `dispatcher_faults` | 1 pipeline, 2 calls of any kind, 2 runs, all faults, symmetric in calls and runs | `PlaceholderOwned`: no placeholder left by a call that lives. `ClaimTakesIdleRow`, `LiveRowKept`: claims take idle rows, the running row of a live run is neither closed nor discarded |
| `dispatcher_fresh` | as above, 3 runs, crashes, deaths and failed starts; executions without a stale clear in which two calls overlap only where both are `start` (`FreshStarts`). They are of `FreshSpec`, but that a completion may clear the placeholder of a call that died; with that they include all with one call at a time | `NoDoubleLaunch`, `OutcomeFaithful`, and `Dispatcher` implements `ScopeLock`: the missing comparison is the whole cause of finding 1 |
| `dispatcher_g1` (violation) | 2 callers of `start`, 3 runs, no fault | two runs of a scope at work: finding 1 |
| `dispatcher_wedge` (violation) | a start caller and a timer, 2 runs, crashes only | a scope that stays busy for good: finding 2 |
| `tick` | *contended*: 3 pipelines, two in one group, periods 2, 3 and 1, cap 2, one pipeline also started by hand, one switched on and off, one whose rows others clear too, failures, 2 units of time. *timed*: 3 pipelines of periods 4, 5 and 2 on staggered grids, cap 1, one also started by hand, a tick in every unit, 8 units | `TickBudget`, `GroupSerial`, `OncePerSlot`; `WaitOfTimed`, which is `WaitBounded` |
| `usage` | *change*: 2 subscriptions, 1 stream, history 2, ring of 2, 3 days, one failure, any change of scope, flushes that break, old datasets without a projection. *grow*: 2 streams, history 3, 4 days, scope that grows, failed reads of the record | `GapsAreKnown`, `BlanksAreKnown`, `RefusedUntilFlush`, `RemovedGone`, `PlansExact`; `LoadedAsItGrows` (`AllStored`, at every moment, and `ViewRecent`), `CatchesUpAsItGrows` (`CatchesUp`) |
| `usage_revert` (violation) | one subscription that comes and goes, one failure, no flush | between runs, after one that completed, coverage is claimed for deleted rows: finding 3 |
| `context` | 2 fields, 2 workers, 1 reader, 1 refresh, 1 flush, 2 operations that get the lease, 2 revisions, 2 attempts | `NoLostEdit`, `SourcesExist`, `PublishesAll`, `ReadsRecent`, `RunPublishesOnce` |
| `activity` | *alone*: 1 subscription, 3 operations (two whose projection fails each time, one of which may never show, and one that spills and settles), 2 recipe versions, replays of 2 rows that may fail. *beside*: 2 subscriptions, the operation that settles, one failure, redelivery, orphan or broken flush, and a deployment after a flush that broke. Lag, overlap, history and retention 1, events up to 2 late, 3 units of time | `CoverageStored`, `SpillReachable`, `FollowsLife`, `ReplayDrains` |
| `activity_regress` (violation) | 1 subscription, 1 operation whose two stages may be on two pages, no failure | a finished operation is pending again: finding 4 |
| `side_by_side` | seven parts, of which one moves (below) | the properties of each part |
| `zones_gap` (violation) | 2 subscriptions, 2 regions, 2 moves, one fault, no flush | a covered subscription without mappings: finding 5 |

`side_by_side` and the two-part runs hold several instances that share no state;
`moving` names the one that takes steps, and the others stay in one initial
state, so that a run explores their union and not their product. The parts of
`side_by_side`:

| `moving` | Bounds | Properties |
|---|---|---|
| `overrides` | 2 administrators, 2 pipelines (one may not be disabled), 3 edits of which one is invalid, 3 revisions | `EveryEditCounted`, `NoBlindOverwrite` |
| `dispatcher` | a start caller and a timer, 2 runs; deaths, failed starts, redelivery | `ScopesAreFreed` (`ScopeIsFreed`), under fairness |
| `skus` | 2 readers, 2 generations, 1 flush, 1 retry | `CurrentIfMatched`, `AnswerRecent`, `FailsByFlushOnly` |
| `references` | 2 threads, 2 generations, life of an entry 2, an operation of the store up to 1, 4 units of time | `LagBounded` |
| `zones` | 2 subscriptions, 2 regions, 2 moves of the scope, 3 faults, 1 retry wave, flushes | `KnownCaptured`, `GapsByTornRuns`, `ZonesReconciled` (`Reconciled`, under fairness) |
| `report` | 2 pools, 2 reservations anywhere (one pinned to a pool), 2 subscriptions known or not, one change of Azure | `StatusTruthful`, `DetailsUnfold` |
| `decisions` | 2 users, 3 machines in 2 subscriptions, transactions of 2, each user asks twice | `TransactionsWhole`, `AnsweredWritten` |

The types of every module are proved (section 6) and no run repeats them. For
every property of a passing run there is a mutant of the code's own kind (a
dropped comparison, a boundary off by one, a swapped order, a write that resets
too little) that makes the run fail.

Why the bounds are enough. The dispatcher's hazards need a call that holds an
old read, a call that acts in between, and an old and a new run; the third run
of `dispatcher_fresh` allows a whole launch after two others.
The clock, which these properties do not read, moves there only when the runs
are over, and freely in the `dispatcher` part of `side_by_side`. Pipelines do not
share rows, so one is enough there; `tick` has the three that meet in a cap and
a group. A reset and two edits are the longest race over one configuration row,
and three revisions leave room for the revision to start over. Periods of 2 and
3 over the anchors 1 and 2 give slots that coincide and slots that do not;
for `WaitBounded` the anchors are such that the last pipeline can wait for the
whole four ticks its bound allows, with one dispatch of each pipeline before it
late and one on the grid. In
`UsageRefresh` a ring shorter than the history makes slots wrap in the first
load, and one failure may fall anywhere; one is also enough for each of the three
causes of a gap, and for a scope that goes back after it. In `context` two operations and one
expiry give the overlap of a holder with its successor; an operation overtaken
and then *repeated* needs a third, and is left to a later instance. In
`activity` the horizon, the overlap and the retention all pass within the time
there is. The replay's bound of two rows is below the three that can be stale;
one row that always fails leaves it room, and two fill it, so the executions
have subscriptions that meet the premise of `ReplayDrains` (`Drains`) and others
that starve for ever; so does the row whose payload a broken flush took, when a
deployment asks for its replay. A reader of the SKU catalogue that is overtaken needs an older and a
newer generation and one flush; a reference entry that is overwritten late needs
two threads and a publication. Region drift and a scope that goes back need two
subscriptions, two regions and two moves, and three faults let a run fail, its
repetition die and a flush come after. Three machines give a full slice, a rest,
and a second partition. The theorems of section 6 lift the bounds where they
apply.

States. The largest runs are `tick`, `activity`, `context`, `dispatcher_faults`,
`dispatcher_fresh`, `usage` and `side_by_side`, with one to three million
distinct states each.

`CHECK_DEADLOCK FALSE` stands in the dispatcher's, the timer's, the Activity
Log's runs, `side_by_side` and `zones_gap`: when the bounded runs, units of
time, generations, moves or questions are used up, those systems have nothing
left to do. The usage and Business Context models never stop, and deadlock is
checked there.

### Findings

1. **Two runs of one scope.** The docstring of `dispatcher.py` (lines 10-12)
   says two concurrent callers "can never both launch the same scope".
   `_reconcile_terminal` clears the row without comparing its
   `ActiveInstanceId` with the instance that was looked up. Two callers see an
   old run that is over; one heals the row, claims it and launches; the other
   then clears the row of the new run, claims it and launches again
   (`dispatcher_g1`, without any fault). Nothing else breaks the promise while
   launches are known to their calls: executions without such a clear never
   have two runs of a scope (`dispatcher_fresh`; for all instances,
   `OneRunWhileFresh` and `FreshImplementsLock`).
2. **A scope that stays busy.** `docs/specs/data-collection.md:389` says stale
   running rows self-heal after a crash. A start call that dies between its
   claim and `set_active_instance` leaves a placeholder, which the gate counts
   as busy and the timer skips; nothing else clears it (`dispatcher_wedge`).
3. **Coverage of deleted rows.** A plan's deletions run before its loads, and
   the record changes only at the end. If the run fails in its deletions or in
   between and the scope is put back, the record still claims the deleted
   subscriptions, so the next run loads their forward gap only and completes, and
   `usage_store.py:7-8` tells readers that a missing row is a genuine zero.
   `usage_revert` shows it to the end: loaded, scope reduced, refresh failed,
   scope put back, refresh completed, rows missing. While a plan is at work the
   record may be ahead of the rows in any case; `CoverageLoaded` therefore asks
   only between runs, after one that completed. `GapsAreKnown` says how far this
   goes: only days of subscriptions with a reason, this one or one of two others.
4. **A finished operation is pending again.** `docs/specs/activity-log-history.md:540-555`
   says transitions are monotonic and "out-of-order arrival is just an upsert".
   Pages are assembled one by one, and `activity_log_store.py:152` REPLACEs the
   row: a page, or an overlap window, that holds only the first stages of an
   operation turns its row from succeeded to pending and drops the rest
   (`activity_regress`, without any failure).
5. **Covered without mappings.** `docs/specs/app-scope.md:545` says a change of
   scope is "reconciled automatically by the next refresh". The plan
   (`zone_mapping.py:76`) fetches the scope less what the *last snapshot*
   covers. When a run deletes the fragment of a subscription that left, and then
   publishes nothing, and the subscription comes back, no later refresh fetches
   it, until a region opens or the data is flushed (`zones_gap`).


## 5. Fairness

`dispatcher_wedge` and the `dispatcher` part of `side_by_side` assume weak
fairness of every step of a call or activity that has begun (async code goes on
unless its worker dies, which is the fault `crash`), of an orchestration's body
and return (the loops of the bodies are bounded, and Durable replays after a
failure), and strong fairness of the timer's look at a row that names an
instance, which comes again at every tick. Nothing is assumed of requests:
nobody has to start a run or open the history page.

`usage`, for the part whose scope grows, uses weak fairness of `Step`: the timer keeps
refreshing and an orchestration goes on. Failures are finite (`MaxFails`), and
the property itself assumes that flushes and refused scopes come to an end.
Throttles are bounded by the code.

`activity` uses weak fairness of `Step`, or of a plan for the first subscription
where the scope is one: the timer dispatches the pipeline and Durable goes on
with what has begun. `ReplayDrains` states its premise itself: a subscription
that runs reach again and again, and of which, in the end, fewer than `maxUnits`
rows fail each time and no row has lost its payload (`Drains`).

The `zones` part assumes weak fairness of `ZoneSteps`, which has no fault, no
flush that begins and no move; their numbers are bounded, so `Reconciled` says
that the pipeline converges once they are over.

In `side_by_side` each fairness condition carries the conjunct `moving = ...`,
since a part that is held still owes nothing. No other property needs fairness.


## 6. What is proved

All theorems are for every value of the constants that satisfies the module's
named assumptions, which only say what the constants are: disjoint names, bounds
that are numbers, settings of the right shape, finitely many users and virtual
machines (`CoverageDecisions`), at least one version of the recipes
(`ActivityLog`), and names of refreshes that are not numbers (`BusinessContext`,
whose generations are either). What a theorem assumes beside them stands in its
row.

| Theorem | Says | Invariant behind it |
|---|---|---|
| `DispatcherProofs!TypeCorrect`, `LiveRowIsKept` | types; no step closes or discards the running row of a run at work, under any fault | `Inv`: where an actor is determines what its locals name (`LocalsOK`: whoever closes a row holds a run past its body), and rows name known runs (`RowsOK`). `LiveRowKept` is not inductive alone: it needs that no reconciler carries a live run past its `get_status` |
| `PlaceholderIsOwned`, `ClaimsTakeIdleRows` | placeholders are owned; a winning claim found the row idle | `ClaimInv` adds `ClaimOK`: a claimant with the current ETag faces an idle row. Each needs the other: without ownership a placeholder could be overwritten under its claimant |
| `OutcomesAreFaithful` | a run whose row was open while it was at work is never shown as completed if it did not complete; nothing is assumed, so readers, the gate and the timer race the run's own completion, and any call may hold a status it read before | `RecInv`: a run that is over reports its own outcome, its completion activity holds that outcome, and a start call that has yet to open the row is the only one. `Settled(r)`, which holds from the open row on: once the completion is recorded no running row is left for a later caller to close, and whoever holds `completed` in hand holds it of a run that completed, or will find no running row |
| `OneRunWhileFresh`, `FreshImplementsLock` | one run per scope; `Dispatcher` implements `ScopeLock`, step by step. Both for any calls at once, in the executions without a stale clear (`FreshSpec`); they assume that no reply of `start_new` is lost | `FreshInv`: a run at work is named by the row of its scope, or by the call that launched it and has yet to say so (`WorkersOK`); a call that launches has its claim in the row, and one that clears holds a run that is over, or none (`FreshFits`). A clear that is fresh then meets a scope in which nobody works |
| `SchedulerConfigProofs!ConfigTypeCorrect`, `EditsAreCounted` | no invalid configuration is stored; a revision counts the accepted edits | `ConfigInv`, with `WriteReady`: a write that will succeed expects the row's current revision |
| `StaleFormsRefused` | an accepted edit replaces what its author saw, unless the row was reset | `SeenInv`, with `RevisionNames`: between two resets a revision names one configuration |
| `DispatchTickProofs!TickTypeCorrect`, `BudgetHolds` | types; the cap and one start per group, for any number of workers | `BudgetInv`: room under the cap while a pipeline is considered, and nothing of its group started yet in this tick (`WithinCap`, `OnePerGroup`) |
| `ContentionHolds`, `SlotsHold` | of a group none of which is started by hand two are at work together only if one has lost its row, and no slot of a pipeline not started by hand is dispatched twice; assume `Solo` | `SoloInv`: what the tick has looked at is still so (`Timed`, `GroupClear`). `Cadence` contributes that slots are monotone and that a due pipeline's slot is later than its last dispatch, by integer division |
| `DueAtGridPoint` | a pipeline is due exactly when its schedule has a point after its last dispatch and not after now, for any anchor, frequency and start before the anchor | none: `LatestPoint`, by integer division |
| `WaitsAreBounded` | `WaitBounded`, for any cap, schedules, manual starts, edits and failures; assumes `Solo`, `Timely` | `WaitInv`: each tick that passed a pipeline over has *taken* a slot of one before it (`Taken`: dispatched in that slot since the wait began). A tick that has started something has paid for passing the rest over, and a claim on its way will take a slot that nobody took, since its pipeline is due (`Paid`). The count is of slots and not of starts, which a manual start in between would spoil |
| `UsageRefreshProofs!UsageTypeCorrect` | types, pages within units | itself, with the units a plan can hold |
| `RefusalHolds` | the base changes only by a flush; assumes `~ReadFails` | `BaseInv`: a plan in hand has the record's base |
| `RemovalsAreWhole` | the record drops a subscription only when its rows are gone; assumes `~ReadFails` | `GoneInv`: who leaves the recorded scope is among the deletions of the plan, and once those are done has no row, nor a unit that would write one |
| `GapsHold` | `GapsAreKnown`: what is missing from a claimed coverage is of subscriptions that have one of three reasons; nothing is assumed | `CoverageInv` over `PlanInv`: as long as no unit of the run failed, whatever its new record claims is stored or still pending in its units, streams and pages, but for the gaps there were and those a rebuild leaves (`Promise`) |
| `CoverageHolds` | `AllStored`: at every moment the record claims only what is stored; assumes `Grows`, `~FlushBreaks`, `~Upgrade` | from `GapsAreKnown`, since none of the three reasons arises (`GrowInv`, `WholeInv`) |
| `BlanksHold` | `BlanksAreKnown`: of the newest days the projection lacks only those of subscriptions that a run deleted and did not end; nothing is assumed | `ViewInv`: what the record, or the run's new record, claims among the newest days is shown or still to be fetched. Two days of the ring share a slot only if they are a whole ring apart, so a newer day never takes the slot of one that must be shown |
| `ViewsAreRecent` | covered days are in the projection; assumes `Grows` | from `BlanksAreKnown`, since nobody is deleted |
| `PlansAreExact` | `PlansExact`: over a current projection a run asks for exactly what its record will claim beyond the old one, and for no subscription twice; assumes `~ReadFails` | none beside the types and `PlanInv`; a case for each kind of plan (`PlansAsk`) |
| `BusinessContextProofs!ContextTypeCorrect` | types; at most `MaxTries` attempts | `TypeInv`: what a place in an operation says of its job, one worker per orchestration, what a read knows at each place |
| `EditsAreKept` | `NoLostEdit` for any expiry of leases | `EditInv`: a worker whose ETag is current has read the row as it is (`EtagsTell`), and a save writes its own field at its form's revision (`SavesOwnField`) |
| `EverySourceExists`, `EverythingIsPublished`, `ReadsAreRecent`, `RunsPublishOnce` | sources exist; what is published is the table; reads and cache keep up; a repeated refresh does not publish twice. All four properties speak of histories without an overlap (`~overlap`) | `PublishInv`: without an overlap one worker is between the lease and its release (`Alone`), its job has what it read (`JobsFit`), and a generation is loaded from a snapshot not older than the ETag that led to it (`TagsTell`) |
| `ActivityLogProofs!LogTypeCorrect` | types | itself, with what a unit of each phase holds |
| `SpillsAreFound` | spilled payloads are found | `SpillInv`: the batch in hand has its blobs before its rows, and a blob that is removed is named by no row, also not by one still to be written |
| `CoverageIsStored` | coverage claims stored events, with no assumption on the window, the delay or the retention | `PlanInv`: what the plan will claim; `PagesStored`: an event the finished pages of a sub-orchestration span has its row |
| `OutcomesFollowLife` | `ActivityLog` implements `OperationLife` for operations whose events come together | `LifeInv`: a page holds all events of such an operation or none, so every batch and row has its outcome or, while it is pending, `unknown`, which a batch has only if it replays; a replayed row stays until it is replaced |
| `SnapshotProofs!ZoneTypeCorrect`, `KnownIsCaptured`, `GapsAreByTornRuns` | types; in every snapshot whoever is mapped is mapped for all known regions; who is not was deleted by a run that published nothing | `ZoneInv`: the fragments themselves have both properties for those the snapshot covers, and for those the run covers unless they are still awaited or the run has failed (`RunKnown`, `RunLost`). It needs that regions are never withdrawn (`KnownShown`) and that a run deletes nothing of its own scope (`RunShape`) |
| `SkuTypeCorrect`, `CachedIsCurrent` | types; no old catalogue with the current ETag | `SkuInv`: a catalogue is kept with its own ETag or with an older one, and generations only grow, so an ETag once superseded is never current again (`CacheHolds`, `NotAhead`) |
| `AnswersAreRecent` | an answer was current no earlier than when the oldest overlapping read began | of `SkuInv`, `Sees` and `Overlaps`: what a reader has seen, all who overlap it count as current since they began, and the cache holds nothing else once it is newer than the reader's ETag |
| `FailureMeansFlush` | reads fail by flushes only | of `SkuInv`, `Untorn` and `RunHolds`: without a flush the manifest names an uploaded snapshot |
| `ReferenceTypeCorrect`, `LagIsBounded` | types; an answer lags less than one life of an entry and one operation | `RefInv`: what an entry, or a thread's answer in hand, names was replaced no earlier than its reading began, and entries and operations have an age |
| `CoverageProofs!DecisionTypeCorrect`, `TransactionsAreWhole`, `AnsweredIsWritten` | types; transactions show whole, or newer; an answered change has reached all its machines | `DecisionInv`: no machine ever shows anything older (`UpsertWhole`), and what a change has no longer left to write is newer than the change (`Progress`). `CountInv`, for the types, counts the writes a user has left |
| `ReportTypeCorrect`, `StatusIsTruthful`, `RowsUnfold` | types; the status names the reservation that holds the machine; rows unfold to what was judged | `ReportInv`: what the request has read is what Azure held when it read it, unless Azure changed since |

The assumptions beside the constants' shapes are not conveniences: without them
the statements are false of the code (section 8). `FreshSpec` says that no
clear is stale, `Solo` that one worker at a time runs the timer, `Timely` that its ticks keep up, `Grows` that no
subscription leaves the scope, `~ReadFails` that the state record can be read,
`~overlap` that no holder of a lease outlives it. The passing runs of section 4
have executions that meet each of them, so that none is vacuous.

Each proof module has the same layout: lemmas on the moves actors make, one
lemma or step per action, one theorem that the invariant holds, and the theorems
that follow from it. TLC checked the invariants on the instances of the runs
before they were proved.


## 7. What is only model-checked

- Liveness: `ScopeIsFreed`, `CatchesUp`, `ReplayDrains`, `Reconciled`. The
  prover does not reach fairness or `ENABLED`.
- `OutcomeFaithful` for every run, which needs that a start call has written
  before its run can be over (the constant `Prompt` of `dispatcher_fresh`). What
  is proved, without that, is about the runs whose row was open while they were
  at work. A row that opens later may be shown wrongly (section 8).

Every other safety invariant and action property that a passing run checks, and
both refinements, are proved (that of `ScopeLock` for `FreshSpec`); where a run checks properties through an instance
(`WaitOfTimed`, `LoadedAsItGrows`), the theorems are about the properties of the
module instantiated.


## 8. Limits of the promises

What the code does *not* promise, or promises only under a condition. Each point
is a behaviour of the models, excluded from a property by name.

Dispatcher

- With concurrent calls a scope can have two runs (finding 1), and also with one
  call at a time when the reply of `start_new` is lost: the claim is released
  while the run is at work. A start call that dies can block its scope (finding
  2). A comparison in `_clear_active` would end the first and widen the third:
  what now clears the placeholder of a call that died after its launch is the
  completion of the run it launched.
- If a run is over before its start call has written, `set_active_instance` and
  `open_row` still write: the scope's row names a run that is over until the
  next look at it, and the history row opened last stays `running` until a
  reader of the history looks the run up, who finds in Durable that it returned
  and shows a failure as completed. `Prompt = FALSE` has these behaviours;
  no property says the timer closes such a row, since it does not.
- `_clear_active` reads a row and replaces it without its ETag, so
  `LastDispatchedAt` can go back behind a concurrent claim.
- `close_by_instance` upserts a row it found by an earlier query; a row
  discarded in between comes back without `InstanceId` and `StartedAt`.

Timer

- The claim compares only the active instance. With two workers whose ticks
  overlap, or a manual run that begins and ends within a tick, a slot is
  dispatched twice. Manual starts ignore contention groups.
- `_reconcile_terminal` clears a row without comparing, after an awaited
  look-up, and so do the completion of a run and the four pages. If the next run
  of the pipeline is claimed in between, its row is gone while it is at work; the
  same holds of a run whose start failed only in its reply. The contention check
  then finds the pipeline idle, and the timer starts another member of its group
  beside it, although `docs/specs/data-collection.md:89` says that members must
  not run concurrently. `GroupSerial` and `ContentionHolds` say no more than that
  there is no other way to it: two members at work are never both named by their
  rows.
- Under a cap, pipelines that are due at every tick starve those after them.
  `WaitBounded` says for how long a pipeline can wait in terms of the slots of
  those before it: with the frequencies of the registry, a tick every five
  minutes and a cap of one, the last waits for 40 ticks at most (two pipelines
  of three ticks, five daily ones). A pipeline of a contention group also waits
  for the runs of the group, which nothing bounds.
- A comment in `registry.py` (lines 42-44) calls Zone Mapping manual-only with
  zero frequency; its descriptor has a daily frequency and the timer dispatches
  it like the others.

Overrides

- A reset starts revisions again at 1, so a form from before it can pass the
  comparison with the next row. `NoBlindOverwrite` excludes those calls.

Usage

- A flush that fails between two tables can leave the record without its data.
- The rebuild of an old projection records the old start of coverage also for
  subscriptions it loaded only for the newest days. These two and finding 3 are
  the only ways in which claimed coverage is not stored (`GapsAreKnown`).
- The rows of a subscription that a failed run loaded and that left the scope
  before any run recorded it are deleted by no plan.
- When the read of the record fails, the dataset looks empty, and the next
  record may have another base.
- While a refresh of a new day is under way, the day that shares its slot reads
  as zero.

Business Context

- `SourcesExist`, `PublishesAll`, `ReadsRecent` and `RunPublishesOnce` hold
  while no holder outlives its lease: `RefreshLease.renew`, which would notice,
  is not called before publication, and the manifest is replaced whoever wrote
  it last. `NoLostEdit` holds regardless.
- A save that fails after its row is written is answered as a failure although
  the row is changed; the next publication carries the change along.
  `docs/specs/business-context.md:123` promises otherwise.
- A refresh that was overtaken by a save and is delivered again overwrites its
  own generation, which the same document calls immutable.
- `_validate_save` runs before the lease, so two saves can both pass the limit
  on fields or the check for duplicate names.
- A flush interrupted after the snapshots leaves a manifest that names none.
- The lease of a worker that died lasts up to 60 seconds, longer than the three
  retries of a refresh (5, 10 and 20 seconds) wait together.

Activity Log

- A row shows what the last page with one of its events said (finding 4);
  `FollowsLife` is about operations whose events come together. A row given up
  as `unknown` is `pending` again when an overlap window collects it once more.
- After an outage longer than the history, a plan with changed recipes starts at
  the historical start; the coverage keeps its old start and so spans a gap that
  nobody loads (`skipped`). `CoverageStored` claims nothing for it.
- An activity that raises outside the handlers' `try` fails `task_all`; the
  sibling sub-orchestrations go on unowned, and a new run or a flush can overlap
  them (`torn`).
- A flush that fails between two tables leaves coverage without rows.
  `_container()` takes every 409 for "exists", the one of a container that is
  being deleted included (`activity_log_store.py:115-118`).
- Replay rebuilds the columns from the applied event alone. One spilled blob
  that cannot be read ends the replay of its subscription, and one that a broken
  flush took is never there again. Rows whose projection fails each time take
  places in every replay, in the order of their keys: `maxUnits` of them leave
  none, and the rows behind them stay stale, or pending past the horizon, for
  ever. `ReplayDrains` excludes both by name (`Drains`).
- A subscription that left the scope keeps its coverage row, and with it an old
  `coverageEnd` in `status()`.

Catalogues

- A read can answer with a catalogue that a slower reader put back, current only
  when that reader began; with the time to live, an answer can be `Ttl + Stay`
  old and "there is none" can be served after a publication.
  `docs/specs/azure-reference-data.md` (around line 207) has readers of a
  process see a publication at once and a single download at a time; the code
  has late setters and no single flight.
- `find_pairs` answers "no record" when a flush clears the indexes between its
  two locks. `delete_blobs` takes at most 256 blobs a call, and every snapshot
  is kept.

Zone mapping

- Finding 5; and fragments of a subscription added by a run that failed stay,
  and are in every later snapshot even when the subscription left again.

Coverage

- A virtual machine that is moved during the request may be reported as a
  configuration issue (`StatusTruthful` excludes `changed`).
- `request_dimensions.filter_locations` returns nothing when the requested
  locations and the configured ones have none in common; `odcr_coverage_bp.py:246`
  and `odcr_usage_bp.py:202` do not test for that, and an empty filter is no
  filter. `docs/specs/app-scope.md:256` promises the opposite. No model covers it.


## 9. What is not modelled

- Displayed fields (`LastTrigger`, summaries, labels), progress, logging,
  parsing and validation of requests beyond what guards a state change.
- Queries and mappings of rows: what Resource Graph, Cost Management and the
  Activity Log answer is a choice of the models (data, throttle, failure). The
  columns that recipes fill, the properties of a SKU and the names of locations
  are data.
- Authorization, request dimensions and application scope: each request is
  decided from its headers and one snapshot. That an empty scope raises is used
  by `UsageRefresh` and `ZoneMapping`, whose scopes are not empty.
- Time, except for the clocks of the timer, the Activity Log and the reference
  data's cache, and the days of the usage pipelines: delays of retries and
  lengths of leases become nondeterministic expiry.
- Retention of history (`prune`) deletes rows older than a horizon that no
  modelled run reaches; only when it happens is modelled.
- Zone mapping: subscriptions that see different regions (the probe asks one of
  them), the snapshot's cache, which works as `SkuCatalog`'s, orphaned fetches
  after a failed `task_all`. The plan reads the current state.
- Activity Log: `delete_subscriptions`, which no live plan calls; the recipes,
  but for their version and what they collect.
- Catalogues: a publishing activity that is delivered twice.
- Coverage: filters, options, joins of decisions, names and Business Context;
  reservations the user cannot see; VMs of scale sets; more than one row.
- Azure clients, settings, thin wrappers; the web front end and deployment.

To check everything: `tlc -config <run>.cfg <module>.tla` for each run of
`PROJECT.json`, and `tlapm` on each `*Proofs.tla`.
