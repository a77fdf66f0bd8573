----------------------------- MODULE ActivityLog -----------------------------
(***************************************************************************)
(* Activity Log collection.  An orchestration plans a window for each      *)
(* subscription; a sub-orchestration per subscription fetches it page by   *)
(* page, assembles the operations of each page, and upserts their rows;    *)
(* after the last page it advances the coverage.  When all are over, rows  *)
(* whose projection is stale are replayed from the payloads they keep.     *)
(* One step per activity, except that what upsert_operations does to the   *)
(* container and to the table is taken apart.                              *)
(***************************************************************************)
EXTENDS Integers, FiniteSets

CONSTANTS
  Subs,
  Ops,          \* operation identities: [sub, key, since, retains]
  Events,       \* source events: [op, id, at, rank, status, big, opaque]
  Whole,        \* operations whose events the source shows together, on one page
  Lag, Overlap, Historical, Retention, Horizon,     \* the settings, in time units
  MaxUnits,     \* rows a replay takes up for a subscription
  Delay,        \* the longest an event takes to show in the source
  Slots,        \* bounds the sub-orchestrations at work
  MaxTime, MaxVersion, MaxFails,                    \* bounds
  None, NoRow, NoCoverage, NoUnit

Terminal == {"succeeded", "failed", "cancelled"}
Status == Terminal \cup {"accepted", "started"}

EventsOf(o) == {e \in Events : e.op = o}

ASSUME LogAssumption ==
  /\ IsFiniteSet(Events)
  /\ Ops \subseteq [sub : Subs, key : Nat, since : Nat, retains : BOOLEAN]
  /\ Events \subseteq [op : Ops, id : Nat, at : Nat, rank : Nat, status : Status,
                       big : BOOLEAN, opaque : BOOLEAN]
  \* rank: the order of the timestamps, and of the source where they are equal
  /\ \A e, f \in Events : e.op = f.op /\ e.rank = f.rank => e = f
  /\ Whole \subseteq Ops
  /\ \A e, f \in Events : e.op = f.op /\ e.op \in Whole => e.at = f.at
  /\ {Lag, Overlap, Historical, Retention, Horizon, MaxUnits, Delay, MaxTime,
      MaxVersion, MaxFails} \subseteq Nat
  /\ MaxVersion >= 1
  \* docs/specs/activity-log-history.md 315-319: lag and overlap outlast the source
  /\ Delay <= Lag + Overlap /\ Overlap <= Retention
  /\ NoRow \notin [events : SUBSET Events, outcome : Terminal \cup {"pending", "unknown"},
                   applied : Events, version : Nat, flagged : BOOLEAN, first : Nat,
                   final : Nat \cup {None}]
  /\ None \notin Nat

VARIABLES
  now,
  version,    \* the recipe version of the deployed code
  visible,    \* the events the source can return
  rows,       \* ActivityLogOperations
  spills,     \* the spill container: events whose payloads are too large for a row
  coverage,   \* ActivityLogCollectionState
  phase,      \* of the orchestration
  units,      \* the sub-orchestrations and the activities they wait for
  claimed,    \* ghost: what the coverage of a subscription claims is stored
  skipped,    \* ghost: what it spans, but no plan asked for
  torn,       \* ghost: a flush broke, or met a sub-orchestration left at work
  fails

vars == <<now, version, visible, rows, spills, coverage, phase, units, claimed,
          skipped, torn, fails>>
stores == <<rows, spills, coverage, claimed, skipped, torn>>
world == <<now, version, visible>>

Larger(a, b) == IF a < b THEN b ELSE a
Smaller(a, b) == IF a < b THEN a ELSE b

Empty == [o \in Ops |-> NoRow]

Init ==
  /\ now = 0 /\ version = 1 /\ visible = {}
  /\ rows = Empty /\ spills = {}
  /\ coverage = [s \in Subs |-> NoCoverage]
  /\ phase = "idle"
  /\ units = [u \in Slots |-> NoUnit]
  /\ claimed = [s \in Subs |-> {}]
  /\ skipped = [s \in Subs |-> {}]
  /\ torn = FALSE
  /\ fails = 0

-----------------------------------------------------------------------------
(* assembly.py: the row that a set of events of one operation gives *)

Latest(S) == CHOOSE e \in S : \A f \in S : f.rank <= e.rank
Having(S, statuses) == {e \in S : e.status \in statuses}

\* _outcome
Outcome(S) ==
  IF Having(S, Terminal) = {} THEN "pending" ELSE Latest(Having(S, Terminal)).status

\* _select_applied: all events of an operation keep their payload, or none does
Applied(S) ==
  Latest(IF Having(S, {"accepted"}) = {} THEN S ELSE Having(S, {"accepted"}))

\* assemble_operation, and what _build_entity adds: the time it is seen, and for
\* a terminal outcome the time it is final
Built(S, outcome, applied, flagged) ==
  [events |-> S, outcome |-> outcome, applied |-> applied, version |-> version,
   flagged |-> flagged, first |-> now,
   final |-> IF outcome \in Terminal THEN now ELSE None]

Assembled(S) == Built(S, Outcome(S), Applied(S), \E e \in S : e.opaque)

\* assemble: one operation for each identity on the page
Operations(page) ==
  [o \in Ops |-> IF \E e \in page : e.op = o
                 THEN Assembled({e \in page : e.op = o}) ELSE NoRow]

LastEventTime(row) == CHOOSE t \in {e.at : e \in row.events} :
                        \A e \in row.events : e.at <= t

-----------------------------------------------------------------------------
(* activity_log_store.py *)

\* _apply_preserved_meta, before a REPLACE: the earliest sighting and the
\* earliest terminal outcome stay
Upserted(old, new) ==
  IF old = NoRow THEN new
  ELSE [new EXCEPT !.first = old.first,
                   !.final = IF old.final = None THEN new.final ELSE old.final]

\* _attach_payload
Spilled(row) == row # NoRow /\ row.applied.op.retains /\ row.applied.big

\* load_applied_payload
Payload(row) == row.applied.op.retains /\ (row.applied.big => row.applied \in spills)

-----------------------------------------------------------------------------
(* resolve_plan *)

Cutoff == now - Lag
RetentionStart == Cutoff - Retention
HistoricalStart == Larger(Cutoff - Historical, RetentionStart)

Fresh(s) == coverage[s] = NoCoverage
Drifted(s) == ~Fresh(s) /\ coverage[s].version # version

ForwardStartBare(s) == Larger(coverage[s].end, RetentionStart)
ForwardStart(s) == Larger(coverage[s].end - Overlap, RetentionStart)

Start(s) == IF Fresh(s) \/ Drifted(s) THEN HistoricalStart ELSE ForwardStart(s)
CoverageStart(s) ==
  IF Fresh(s) THEN Start(s) ELSE Smaller(coverage[s].start, Start(s))

\* server_operations, matching_recipes: the operations a version of the recipes
\* collects
Collects(v, e) == e.op.since <= v

Span(s) == {e \in Events : e.op.sub = s /\ e.at \in CoverageStart(s) .. Cutoff}

\* A plan that starts over asks for nothing before its window: neither what a
\* recipe came to match only now, nor what happened since the coverage ended
Skips(s) ==
  {e \in Span(s) : /\ e.at < Start(s)
                   /\ \/ e \in skipped[s]
                      \/ Drifted(s) /\ (\/ ~Collects(coverage[s].version, e)
                                         \/ e.at + Overlap >= coverage[s].end)}

\* What the new coverage will claim
Due(s) == {e \in Span(s) \cap visible : Collects(version, e)} \ Skips(s)

Child(s) == [sub |-> s, orphan |-> FALSE, work |-> "page", place |-> "done",
             start |-> 0, end |-> 0, from |-> 0, version |-> 1, due |-> {},
             skips |-> {}, returned |-> {}, page |-> {}, last |-> FALSE,
             batch |-> Empty]

WorkUnit(s) ==
  [Child(s) EXCEPT !.place = "fetch", !.start = Start(s), !.end = Cutoff,
                   !.from = CoverageStart(s), !.version = version, !.due = Due(s),
                   !.skips = Skips(s)]

Ended(unit) == [Child(unit.sub) EXCEPT !.orphan = unit.orphan, !.work = unit.work]

Active(u) == units[u] # NoUnit
Own(u) == Active(u) /\ ~units[u].orphan        \* a child of the orchestration
At(u, place) == Active(u) /\ units[u].place = place

\* Slots for the units, all ways of placing them being alike
Free == {u \in Slots : ~Active(u)}
Placements(scope) ==
  LET all == {p \in [scope -> Free] : \A s, t \in scope : p[s] = p[t] => s = t} IN
  IF all = {} THEN {} ELSE {CHOOSE p \in all : TRUE}

\* One unit for each subscription of the App Scope.  maxConcurrency only delays
\* some of them
Resolve(scope) ==
  /\ phase = "idle" /\ scope # {}
  /\ \E place \in Placements(scope) :
       units' = [u \in Slots |-> IF \E s \in scope : place[s] = u
                                 THEN WorkUnit(CHOOSE s \in scope : place[s] = u)
                                 ELSE units[u]]
  /\ phase' = "collect"
  /\ UNCHANGED <<world, stores, fails>>

-----------------------------------------------------------------------------
(* fetch_and_store_page *)

Window(unit) == {e \in visible : /\ e.op.sub = unit.sub /\ Collects(unit.version, e)
                                 /\ e.at \in unit.start .. unit.end}

Unsplit(page) == \A e \in page : e.op \in Whole => EventsOf(e.op) \subseteq page

\* upsert_operations: the entities are built, and their payloads uploaded, before
\* the first transaction
ToUpload(batch, there) == {o \in Ops : Spilled(batch[o]) /\ batch[o].applied \notin there}
StoringAtOnce(batch, there) == "write"
Storing(batch, there) == IF ToUpload(batch, there) = {} THEN "write" ELSE "upload"

Stores(unit, batch) ==
  [unit EXCEPT !.batch = batch, !.place = Storing(batch, spills)]

\* The source returns the window in pages of its choice.  What was visible when
\* the plan was made is on one of them; what appears meanwhile may be
FetchPage(u) ==
  /\ At(u, "fetch")
  /\ \E page \in SUBSET (Window(units[u]) \ units[u].returned), last \in BOOLEAN :
       /\ Unsplit(page)
       /\ page # {} \/ last
       /\ last => units[u].due \cap Window(units[u]) \subseteq units[u].returned \cup page
       /\ units' = [units EXCEPT ![u] = Stores([@ EXCEPT !.page = page, !.last = last],
                                              Operations(page))]
  /\ UNCHANGED <<world, stores, phase, fails>>

Upload(u, o) ==
  /\ At(u, "upload") /\ o \in ToUpload(units[u].batch, spills)
  /\ spills' = spills \cup {units[u].batch[o].applied}
  /\ units' = [units EXCEPT ![u].place = Storing(units[u].batch, spills')]
  /\ UNCHANGED <<world, rows, coverage, claimed, skipped, torn, phase, fails>>

\* A transaction for each partition; the identities hash to partitions of their own
WriteRow(u, o) ==
  /\ At(u, "write") /\ units[u].batch[o] # NoRow
  /\ rows' = [rows EXCEPT ![o] = Upserted(@, units[u].batch[o])]
  /\ units' = [units EXCEPT ![u].batch[o] = NoRow]
  /\ UNCHANGED <<world, spills, coverage, claimed, skipped, torn, phase, fails>>

\* The activity returns: activity_log_subscription_orchestrator goes on
AfterPageCommits(unit) == "commit"
AfterPage(unit) == IF unit.last THEN "commit" ELSE "fetch"

Written(u) ==
  /\ At(u, "write") /\ units[u].batch = Empty
  /\ units' = [units EXCEPT ![u] =
                 IF @.work = "replay" THEN Ended(@)
                 ELSE [@ EXCEPT !.returned = units[u].returned \cup units[u].page,
                                !.page = {}, !.last = FALSE, !.place = AfterPage(units[u])]]
  /\ UNCHANGED <<world, stores, phase, fails>>

\* write_state
Commit(u) ==
  /\ At(u, "commit")
  /\ LET unit == units[u] IN
     /\ coverage' = [coverage EXCEPT ![unit.sub] =
                       [start |-> unit.from, end |-> unit.end, version |-> unit.version]]
     /\ claimed' = [claimed EXCEPT ![unit.sub] = unit.due]
     /\ skipped' = [skipped EXCEPT ![unit.sub] = unit.skips]
  /\ units' = [units EXCEPT ![u] = Ended(@)]
  /\ UNCHANGED <<world, rows, spills, torn, phase, fails>>

-----------------------------------------------------------------------------
(* Failures *)

Fails == fails < MaxFails /\ fails' = fails + 1

Working(u) == Active(u) /\ units[u].place \notin {"commit", "done"}

\* The source answers with an error or throttles too often, or storing the page
\* fails; a replay that fails.  The other subscriptions go on
UnitFails(u) ==
  /\ Working(u) /\ Fails
  /\ units' = [units EXCEPT ![u] = Ended(@)]
  /\ UNCHANGED <<world, stores, phase>>

\* The worker dies: Durable runs the activity again
Redelivered(u) ==
  /\ Working(u) /\ Fails
  /\ units' = [units EXCEPT ![u] =
                 [@ EXCEPT !.place = IF units[u].work = "page" THEN "fetch" ELSE "replay",
                           !.batch = Empty, !.page = {}, !.last = FALSE]]
  /\ UNCHANGED <<world, stores, phase>>

\* An exception outside the handlers' try (no token, an answer that cannot be
\* read, write_state) fails the sub-orchestration, and task_all with it: the
\* orchestration is over, and its other children are left at work
Raises(u) ==
  /\ Own(u) /\ phase = "collect" /\ units[u].place \in {"fetch", "commit"}
  /\ Fails
  /\ phase' = "idle"
  /\ units' = [v \in Slots |->
                 IF v = u \/ (Own(v) /\ units[v].place = "done") THEN NoUnit
                 ELSE IF Own(v) THEN [units[v] EXCEPT !.orphan = TRUE]
                 ELSE units[v]]
  /\ UNCHANGED <<world, stores>>

OrphanEnds(u) ==
  /\ At(u, "done") /\ units[u].orphan
  /\ units' = [units EXCEPT ![u] = NoUnit]
  /\ UNCHANGED <<world, stores, phase, fails>>

-----------------------------------------------------------------------------
(* reconcile_subscription *)

AllDone == \A u \in Slots : Own(u) => units[u].place = "done"

\* Every planned subscription, whether or not its pages were stored
StartReplay ==
  /\ phase = "collect" /\ AllDone
  /\ phase' = "replay"
  /\ units' = [u \in Slots |->
                 IF Own(u) THEN [units[u] EXCEPT !.work = "replay", !.place = "replay"]
                 ELSE units[u]]
  /\ UNCHANGED <<world, stores, fails>>

AgedAny(row) == now - LastEventTime(row) > Horizon
Aged(row) == row.outcome = "pending" /\ now - LastEventTime(row) > Horizon

StaleFlagged(row) == row.applied.op.retains /\ row.flagged
Stale(row) == row.applied.op.retains /\ (row.flagged \/ row.version # version)

\* _row_needs_reconcile
NeedsReplay(s) == {o \in Ops : o.sub = s /\ rows[o] # NoRow
                                 /\ (Aged(rows[o]) \/ Stale(rows[o]))}

\* The first maxUnits of them, in the order of their keys
TargetsFewer(s) == {o \in NeedsReplay(s) :
                      Cardinality({p \in NeedsReplay(s) : p.key < o.key}) + 1 < MaxUnits}
Targets(s) == {o \in NeedsReplay(s) :
                 Cardinality({p \in NeedsReplay(s) : p.key < o.key}) < MaxUnits}

\* hydrate_operation, _reconcile_operation
Replayed(row) ==
  LET outcome == IF Aged(row) THEN "unknown" ELSE row.outcome IN
  IF Stale(row) THEN Built(row.events, outcome, row.applied, row.applied.opaque)
  ELSE [Built(row.events, outcome, row.applied, row.flagged)
          EXCEPT !.version = row.version]

Hydrate(u) ==
  /\ At(u, "replay")
  /\ LET targets == Targets(units[u].sub) IN
     units' = [units EXCEPT ![u] =
       IF \A o \in targets : Spilled(rows[o]) => Payload(rows[o])
       THEN Stores(@, [o \in Ops |-> IF o \in targets THEN Replayed(rows[o])
                                     ELSE NoRow])
       ELSE Ended(@)]
  /\ UNCHANGED <<world, stores, phase, fails>>

Finish ==
  /\ phase = "replay" /\ AllDone
  /\ phase' = "idle"
  /\ units' = [u \in Slots |-> IF Own(u) THEN NoUnit ELSE units[u]]
  /\ UNCHANGED <<world, stores, fails>>

-----------------------------------------------------------------------------
(* run_flush: delete_tables, in its order *)

FlushOperations ==
  /\ phase = "idle"
  /\ phase' = "state"
  /\ rows' = Empty /\ torn' = (\E u \in Slots : Active(u))
  /\ UNCHANGED <<world, spills, coverage, claimed, skipped, units, fails>>

FlushCoverage ==
  /\ phase = "state"
  /\ phase' = "spills"
  /\ coverage' = [s \in Subs |-> NoCoverage]
  /\ claimed' = [s \in Subs |-> {}]
  /\ skipped' = [s \in Subs |-> {}]
  /\ UNCHANGED <<world, rows, spills, torn, units, fails>>

FlushSpills ==
  /\ phase = "spills"
  /\ phase' = "idle"
  /\ spills' = {}
  /\ UNCHANGED <<world, rows, coverage, claimed, skipped, torn, units, fails>>

FlushBreaks ==
  /\ phase \in {"state", "spills"} /\ Fails
  /\ phase' = "idle"
  /\ torn' = (torn \/ phase = "state")
  /\ UNCHANGED <<world, rows, spills, coverage, claimed, skipped, units>>

-----------------------------------------------------------------------------
(* The source, the clock, deployments *)

Publish(E) ==
  /\ E # {} /\ E \cap visible = {}
  /\ \A e \in E : e.at <= now /\ now <= e.at + Delay
  /\ Unsplit(E)
  /\ visible' = visible \cup E
  /\ UNCHANGED <<now, version, stores, phase, units, fails>>

\* Events show in time, and go when they are older than what is asked for
Tick ==
  /\ now < MaxTime
  /\ \A e \in Events \ visible : now # e.at + Delay
  /\ now' = now + 1
  /\ visible' = {e \in visible : e.at >= now + 1 - Lag - Retention}
  /\ UNCHANGED <<version, stores, phase, units, fails>>

Deploy ==
  /\ version < MaxVersion
  /\ version' = version + 1
  /\ UNCHANGED <<now, visible, stores, phase, units, fails>>

Step ==
  \/ Resolve(Subs)
  \/ \E u \in Slots : \/ FetchPage(u) \/ Written(u) \/ Commit(u)
                      \/ OrphanEnds(u) \/ Hydrate(u)
                      \/ \E o \in Ops : Upload(u, o) \/ WriteRow(u, o)
  \/ StartReplay \/ Finish \/ FlushCoverage \/ FlushSpills

Appear == \/ \E e \in Events : e.op \notin Whole /\ Publish({e})
          \/ \E o \in Whole : Publish(EventsOf(o))

Next ==
  \/ Step
  \/ \E scope \in SUBSET Subs : Resolve(scope)
  \/ \E u \in Slots : UnitFails(u) \/ Redelivered(u) \/ Raises(u)
  \/ FlushOperations \/ FlushBreaks
  \/ Appear \/ Tick \/ Deploy

Spec == Init /\ [][Next]_vars

\* The timer dispatches the pipeline again and again, and Durable goes on with
\* what has begun; MaxFails ends the failures
LiveSpec == Spec /\ WF_vars(Step)

-----------------------------------------------------------------------------
(* Properties *)

Row == [events : SUBSET Events, outcome : Terminal \cup {"pending", "unknown"},
        applied : Events, version : 1 .. MaxVersion, flagged : BOOLEAN,
        first : 0 .. MaxTime, final : (0 .. MaxTime) \cup {None}]
Coverage == [start : Int, end : Int, version : 1 .. MaxVersion]
Unit == [sub : Subs, orphan : BOOLEAN, work : {"page", "replay"},
         place : {"fetch", "upload", "write", "commit", "replay", "done"},
         start : Int, end : Int, version : 1 .. MaxVersion, from : Int,
         due : SUBSET Events, skips : SUBSET Events, returned : SUBSET Events, page : SUBSET Events,
         last : BOOLEAN, batch : [Ops -> Row \cup {NoRow}]]

\* The kinds of value the variables hold; a row consists of its own events
TypeOK ==
  /\ now \in 0 .. MaxTime /\ version \in 1 .. MaxVersion /\ visible \subseteq Events
  /\ rows \in [Ops -> Row \cup {NoRow}]
  /\ \A o \in Ops : rows[o] # NoRow =>
       rows[o].events \subseteq EventsOf(o) /\ rows[o].applied \in rows[o].events
  /\ spills \subseteq Events
  /\ coverage \in [Subs -> Coverage \cup {NoCoverage}]
  /\ phase \in {"idle", "collect", "replay", "state", "spills"}
  /\ units \in [Slots -> Unit \cup {NoUnit}]
  /\ claimed \in [Subs -> SUBSET Events] /\ skipped \in [Subs -> SUBSET Events]
  /\ torn \in BOOLEAN /\ fails \in 0 .. MaxFails

\* docs/specs/activity-log-history.md 402-410: coverage claims only what was
\* upserted.  An event that the source can show, whose time the coverage of its
\* subscription spans, and that had appeared when the last committed plan was
\* made, has a row, whatever pages failed and however late it appeared within
\* Delay; not while a flush is torn
CoverageStored ==
  ~torn /\ phase # "state" => \A s \in Subs, e \in Events :
    /\ ~Fresh(s) /\ e \in visible /\ e \in claimed[s]
    => rows[e.op] # NoRow

\* activity_log_store.py 205-217, 244-249: a row that points to a spilled payload
\* finds it, though uploads and transactions fail at any point between them
SpillReachable ==
  ~torn => \A o \in Ops : Spilled(rows[o]) => rows[o].applied \in spills

OutcomeOf(o) == IF rows[o] = NoRow THEN "absent" ELSE rows[o].outcome

\* The document's table of transitions holds of operations whose events come
\* together, but for one that is assembled again after it was given up
WholeLife == INSTANCE OperationLife
               WITH Ops <- Whole, Reopens <- {<<"unknown", "pending">>},
                    outcome <- [o \in Whole |-> OutcomeOf(o)]
FollowsLife == WholeLife!Spec

\* docs/specs/activity-log-history.md 540-553: it holds of every operation, "out-of-
\* order arrival is just an upsert"
DocumentedLife == INSTANCE OperationLife
                    WITH Ops <- Ops, Reopens <- {<<"unknown", "pending">>},
                         outcome <- [o \in Ops |-> OutcomeOf(o)]
TransitionsMonotonic == DocumentedLife!Spec

\* A row whose payload no deployed version projects: replay leaves it flagged
Stuck(o) == rows[o] # NoRow /\ o.retains /\ rows[o].applied.opaque
InRun(s) == phase = "replay" /\ \E u \in Slots : Own(u) /\ units[u].sub = s

\* A replay has room for a row that it can bring up to date, and finds the payloads
Drains(s) ==
  /\ Cardinality({o \in Ops : o.sub = s /\ Stuck(o)}) < MaxUnits
  /\ \A o \in Ops : o.sub = s /\ Spilled(rows[o]) => Payload(rows[o])

\* Every retained row is at the deployed version, none is flagged that could be
\* projected, and no operation is pending past the horizon
Drained(s) ==
  \A o \in Ops : o.sub = s /\ rows[o] # NoRow =>
    /\ o.retains => rows[o].version = version /\ (rows[o].flagged => Stuck(o))
    /\ ~Aged(rows[o])

\* docs/specs/activity-log-history.md 641-652: a bounded replay drains over several
\* runs.  A subscription that stays in scope is drained in the end, if in the end fewer
\* than MaxUnits of its rows fail each time and no row has lost its payload to a flush
ReplayDrains ==
  \A s \in Subs : []<>InRun(s) /\ <>[]Drains(s) => <>[]Drained(s)

===============================================================================
