----------------------------- MODULE UsageRefresh -----------------------------
(***************************************************************************)
(* The daily-usage pipelines (VM usage, capacity-reservation usage): a     *)
(* refresh plans from the configured scope and the state record of the     *)
(* dataset, deletes what left the scope, loads work units page by page,    *)
(* and then advances the state record; a flush deletes the tables.  One    *)
(* step per activity.  The dispatcher runs one of them at a time.          *)
(***************************************************************************)
EXTENDS Integers, FiniteSets

CONSTANTS
  Subs,          \* the subscriptions of the billing profile
  Whole,         \* subs of the unfiltered profile: None in the code
  Scopes,        \* the configurations: [base, subs]
  Changes,       \* which configuration may follow which: pairs of Scopes
  NoState,
  NStreams,      \* 1: usage and cost together (MCA), 2: one stream for each (EA)
  History,       \* days of the first load
  SummaryDays,   \* slots of the read projection
  MaxDay,        \* bounds the calendar
  MaxThrottles, FlushMaxAttempts,
  MaxFails,      \* bounds the failures of activities
  ReadFails,     \* TRUE: reading the state record may fail
  Flushes,       \* TRUE: an administrator flushes the dataset
  FlushBreaks,   \* TRUE: the deletion of the tables may fail between two of them
  Upgrade        \* TRUE: the dataset is older than the read projection

Days == 1 .. MaxDay
Streams == 1 .. NStreams
SubSets == (SUBSET Subs \ {{}}) \cup {Whole}

\* per-sub always enumerates; only per-billing knows the whole profile
Scope == [base : {"per-sub", "per-billing"}, subs : SubSets]

\* What the state record says: the scope and the days that are loaded
Records == [base : {"per-sub", "per-billing"}, subs : SubSets, from : Days,
            to : Days, projected : BOOLEAN]

ASSUME UsageAssumption ==
  /\ Scopes \subseteq {s \in Scope : s.base = "per-sub" => s.subs # Whole}
  /\ Scopes # {}
  /\ Changes \subseteq Scopes \X Scopes
  /\ \A s \in SUBSET Subs : s # Whole
  /\ NStreams \in {1, 2}
  /\ History \in Nat \ {0} /\ SummaryDays \in Nat \ {0}
  /\ MaxDay \in Nat /\ History <= MaxDay
  /\ MaxThrottles \in Nat /\ FlushMaxAttempts \in Nat /\ MaxFails \in Nat
  /\ {ReadFails, Flushes, FlushBreaks, Upgrade} \subseteq BOOLEAN
  /\ NoState \notin Records

VARIABLES
  day,        \* the most recent finalized day
  config,     \* the configured scope, resolved
  state,      \* the state record: what is claimed to be loaded
  daily,      \* the daily rows stored: <<subscription, day, stream>>
  ring,       \* the read projection: the day in each slot of a subscription, or 0
  run,        \* the orchestration at work
  outcome,    \* how the last one ended
  fails,
  lost,       \* the subscriptions a run has deleted rows of since the record was
              \* written, of those it claims; properties only read it,
  short       \* and those it claims although they were not loaded, or dropped

vars == <<day, config, state, daily, ring, run, outcome, fails, lost, short>>

Larger(a, b) == IF a < b THEN b ELSE a

Members(subs) == IF subs = Whole THEN Subs ELSE subs
Slots == 0 .. SummaryDays - 1
Slot(d) == d % SummaryDays
EmptyRing == [x \in Subs |-> [s \in Streams |-> [i \in Slots |-> 0]]]

\* A work unit is a page loop over its days, for each stream
Unit == [subs : SUBSET Subs, from : Days, to : Days]
NoUnit == [subs |-> {}, from |-> 1, to |-> 1]
NoRun == [pc |-> "idle", remove |-> {}, units |-> {}, unit |-> NoUnit,
          stream |-> 1, pages |-> {}, throttles |-> 0, bad |-> 0, good |-> 0,
          new |-> NoState]

At(label) == run.pc = label

\* _new_state
Record(scope, from, to) ==
  [base |-> scope.base, subs |-> scope.subs, from |-> from, to |-> to,
   projected |-> TRUE]

Init ==
  /\ day = History
  /\ config \in Scopes
  /\ state \in IF Upgrade THEN {[Record(s, 1, History) EXCEPT !.projected = FALSE] :
                                  s \in Scopes}
               ELSE {NoState}
  /\ daily = IF Upgrade THEN Members(state.subs) \X (1 .. History) \X Streams ELSE {}
  /\ ring = EmptyRing
  /\ run = NoRun
  /\ outcome = "none"
  /\ fails = 0
  /\ lost = {}
  /\ short = {}

-----------------------------------------------------------------------------
(* resolve_plan *)

\* _work_units: per-sub yields one unit for each subscription
WorkUnits(subs, from, to) ==
  IF from > to THEN {}
  ELSE IF config.base = "per-sub"
       THEN {[subs |-> {x}, from |-> from, to |-> to] : x \in subs}
       ELSE {[subs |-> Members(subs), from |-> from, to |-> to]}

Plan(remove, units, new) ==
  /\ run' = [NoRun EXCEPT !.pc = IF remove = {} THEN "load" ELSE "delete",
                          !.remove = remove, !.units = units, !.new = new]
  /\ UNCHANGED <<day, config, state, daily, ring, outcome, fails, lost, short>>

\* The state record as resolve_plan sees it: none if reading it fails
StateRead == {state} \cup (IF ReadFails THEN {NoState} ELSE {})

\* _scope_conflict
ConflictOfBase(old) == old.base # config.base
Conflict(old) ==
  \/ old.base # config.base
  \/ (old.subs = Whole) # (config.subs = Whole)

\* Coverage never goes back
NewEnd(old) == Larger(old.to, day)

HistoricalStart == day - History + 1

InitialFull(old) ==
  /\ old = NoState
  /\ Plan({}, WorkUnits(config.subs, HistoricalStart, day),
          Record(config, HistoricalStart, day))

Refuse(old) ==
  /\ old # NoState /\ Conflict(old)
  /\ outcome' = "failed"
  /\ UNCHANGED <<day, config, state, daily, ring, run, fails, lost, short>>

ProjectionRebuild(old) ==
  /\ old # NoState /\ ~Conflict(old) /\ ~old.projected
  /\ Plan({}, WorkUnits(config.subs, Larger(old.from, day - SummaryDays + 1), day),
          Record(config, old.from, NewEnd(old)))

RefreshAll(old) ==
  /\ old # NoState /\ ~Conflict(old) /\ old.projected
  /\ old.subs = Whole
  /\ Plan({}, WorkUnits(Whole, old.to + 1, day),
          Record(config, old.from, NewEnd(old)))

GapStartLate(old) == old.to + 2
GapStartAgain(old) == old.to
GapStart(old) == old.to + 1

RemovedReversed(old) == config.subs \ old.subs
Removed(old) == old.subs \ config.subs

Reconcile(old) ==
  /\ old # NoState /\ ~Conflict(old) /\ old.projected
  /\ old.subs # Whole
  /\ LET added == config.subs \ old.subs
         kept == config.subs \cap old.subs IN
     Plan(Removed(old),
          (IF added = {} THEN {} ELSE WorkUnits(added, old.from, day))
            \cup (IF kept = {} THEN {} ELSE WorkUnits(kept, GapStart(old), day)),
          Record(config, old.from, NewEnd(old)))

Resolve ==
  /\ At("idle")
  /\ \E old \in StateRead :
       \/ InitialFull(old) \/ Refuse(old) \/ ProjectionRebuild(old)
       \/ RefreshAll(old) \/ Reconcile(old)

-----------------------------------------------------------------------------
(* run_refresh *)

\* An activity that raises ends the orchestration
Fails == fails < MaxFails /\ fails' = fails + 1

RunFails ==
  /\ Fails
  /\ run' = NoRun
  /\ outcome' = "failed"
  /\ UNCHANGED <<day, config, state, short>>

\* The scope cannot be resolved, or has no subscription
ResolveFails == At("idle") /\ RunFails /\ UNCHANGED <<daily, ring, lost>>

Without(subs) == {r \in daily : r[1] \notin subs}
Blank(subs) ==
  [x \in Subs |-> IF x \in subs THEN EmptyRing[x] ELSE ring[x]]

DeleteSubscriptions ==
  /\ At("delete")
  /\ daily' = Without(run.remove)
  /\ ring' = Blank(run.remove)
  /\ run' = [run EXCEPT !.pc = "load"]
  /\ lost' = lost \cup run.remove
  /\ UNCHANGED <<day, config, state, outcome, fails, short>>

\* The rows go in batches by resource, the projection after all the daily rows
RemovedRows == {<<r[1], r[2]>> : r \in daily \ Without(run.remove)}

DeleteFails ==
  /\ At("delete")
  /\ RunFails
  /\ \E gone \in SUBSET RemovedRows, blank \in SUBSET run.remove :
       /\ blank # {} => gone = RemovedRows
       /\ daily' = {r \in daily : <<r[1], r[2]>> \notin gone}
       /\ ring' = Blank(blank)
       /\ lost' = lost \cup {r[1] : r \in gone} \cup blank

\* Units of added subscriptions come before the forward gap of the kept ones
NextUnit(u) ==
  /\ At("load") /\ run.unit = NoUnit
  /\ u \in run.units
  /\ \A v \in run.units : u.from <= v.from
  /\ run' = [run EXCEPT !.unit = u, !.units = @ \ {u}, !.stream = 1,
                        !.pages = u.from .. u.to, !.throttles = 0]
  /\ UNCHANGED <<day, config, state, daily, ring, outcome, fails, lost, short>>

\* upsert_daily_records: MERGE, so a stream leaves the other's values alone
Rows(subs, d) == subs \X {d} \X {run.stream}
MergedReplace(subs, d) == (daily \ (subs \X {d} \X Streams)) \cup Rows(subs, d)
Merged(subs, d) == daily \cup Rows(subs, d)

InWindowAlways(d) == TRUE
InWindow(d) == d > day - SummaryDays /\ d <= day

\* _upsert_summary_records
Summarised(subs, d) ==
  [x \in Subs |-> IF x \in subs /\ InWindow(d)
                  THEN [ring[x] EXCEPT ![run.stream][Slot(d)] = d]
                  ELSE ring[x]]

\* The query asks for no order, so the days of a unit come in any
PageOf(d) == At("load") /\ run.unit # NoUnit /\ d \in run.pages

AdvanceSamePage(d) ==
  IF run.pages # {d} THEN [run EXCEPT !.throttles = 0]
  ELSE [run EXCEPT !.unit = NoUnit, !.pages = {}, !.throttles = 0, !.good = @ + 1]

\* The page loop: the next page, or the next stream, or the end of the unit
Advance(d) ==
  IF run.pages # {d} THEN [run EXCEPT !.pages = @ \ {d}, !.throttles = 0]
  ELSE IF run.stream < NStreams
       THEN [run EXCEPT !.stream = @ + 1, !.throttles = 0,
                        !.pages = run.unit.from .. run.unit.to]
       ELSE [run EXCEPT !.unit = NoUnit, !.pages = {}, !.throttles = 0, !.good = @ + 1]

FetchPage(d) ==
  /\ PageOf(d)
  /\ daily' = Merged(run.unit.subs, d)
  /\ ring' = Summarised(run.unit.subs, d)
  /\ run' = Advance(d)
  /\ UNCHANGED <<day, config, state, outcome, fails, lost, short>>

\* A failed unit is left; the units after it are still loaded
UnitFails == run' = [run EXCEPT !.unit = NoUnit, !.pages = {}, !.throttles = 0,
                                !.bad = @ + 1]

Throttled ==
  /\ At("load") /\ run.unit # NoUnit
  /\ IF run.throttles < MaxThrottles
     THEN run' = [run EXCEPT !.throttles = @ + 1] /\ UNCHANGED fails
     ELSE UnitFails /\ Fails
  /\ UNCHANGED <<day, config, state, daily, ring, outcome, lost, short>>

\* The query fails, or storing the page does: before the daily rows, or after
\* them in the transactions of the projection
PageFails(d) ==
  /\ PageOf(d)
  /\ Fails
  /\ UnitFails
  /\ \E subs \in SUBSET run.unit.subs :
       \/ subs = {} /\ UNCHANGED daily /\ UNCHANGED ring
       \/ daily' = Merged(run.unit.subs, d) /\ ring' = Summarised(subs, d)
  /\ UNCHANGED <<day, config, state, outcome, lost, short>>

Loaded == At("load") /\ run.unit = NoUnit /\ run.units = {}

\* Coverage advances only when every unit succeeded
CompleteAnyway == Loaded
Complete == Loaded /\ run.bad = 0

\* A rebuilt projection keeps the start of coverage, but loads only the newest
\* SummaryDays days: nothing older of a new subscription, nor of a longer gap
Skipped(new) ==
  LET from == Larger(state.from, new.to - SummaryDays + 1) IN
  IF state = NoState \/ state.projected THEN {}
  ELSE {x \in Members(new.subs) :
          from > IF x \in Members(state.subs) THEN state.to + 1 ELSE state.from}

WriteState ==
  /\ Complete
  /\ state' = run.new
  /\ run' = NoRun
  /\ outcome' = "completed"
  /\ lost' = lost \cap Members(run.new.subs)
  /\ short' = (short \cap Members(run.new.subs)) \cup Skipped(run.new)
  /\ UNCHANGED <<day, config, daily, ring, fails>>

WriteStateFails == Loaded /\ run.bad = 0 /\ RunFails /\ UNCHANGED <<daily, ring, lost>>

Incomplete ==
  /\ Loaded /\ run.bad > 0
  /\ run' = NoRun
  /\ outcome' = IF run.good = 0 THEN "failed" ELSE "partial"
  /\ UNCHANGED <<day, config, state, daily, ring, fails, lost, short>>

-----------------------------------------------------------------------------
(* run_flush *)

\* The data, the state record and the projection are dropped in this order
Dropped(k) ==
  /\ daily' = IF k >= 1 THEN {} ELSE daily
  /\ state' = IF k >= 2 THEN NoState ELSE state
  /\ ring' = IF k >= 3 THEN EmptyRing ELSE ring
  /\ lost' = IF k >= 2 THEN {} ELSE lost
  /\ short' = IF k >= 2 \/ state = NoState THEN {} ELSE Members(state.subs)

FlushDelete ==
  /\ Flushes /\ At("idle")
  /\ Dropped(3)
  /\ run' = [NoRun EXCEPT !.pc = "ensure"]
  /\ UNCHANGED <<day, config, outcome, fails>>

FlushDeleteFails ==
  /\ Flushes /\ FlushBreaks /\ At("idle")
  /\ Fails
  /\ \E k \in 1 .. 2 : Dropped(k)
  /\ outcome' = "failed"
  /\ UNCHANGED <<day, config, run>>

\* The names stay reserved for a while; the flush completes although they may
\* still be when the attempts are used up
FlushEnsure ==
  /\ At("ensure")
  /\ \/ run' = NoRun /\ outcome' = "completed"
     \/ /\ run.throttles + 1 < FlushMaxAttempts
        /\ run' = [run EXCEPT !.throttles = @ + 1]
        /\ UNCHANGED outcome
  /\ UNCHANGED <<day, config, state, daily, ring, fails, lost, short>>

-----------------------------------------------------------------------------

NextDay ==
  /\ day < MaxDay
  /\ day' = day + 1
  /\ UNCHANGED <<config, state, daily, ring, run, outcome, fails, lost, short>>

\* The app settings, or what the configured management groups contain, change
ChangeScope ==
  /\ \E c \in Scopes : <<config, c>> \in Changes /\ config' = c
  /\ UNCHANGED <<day, state, daily, ring, run, outcome, fails, lost, short>>

Step ==
  \/ Resolve \/ DeleteSubscriptions
  \/ \E u \in run.units : NextUnit(u)
  \/ \E d \in run.pages : FetchPage(d)
  \/ WriteState \/ Incomplete \/ FlushEnsure

Next ==
  \/ Step
  \/ ResolveFails \/ DeleteFails \/ Throttled \/ WriteStateFails
  \/ \E d \in run.pages : PageFails(d)
  \/ FlushDelete \/ FlushDeleteFails
  \/ NextDay \/ ChangeScope

Spec == Init /\ [][Next]_vars

\* The timer refreshes again and again; MaxFails ends the failures
LiveSpec == Spec /\ WF_vars(Step)

-----------------------------------------------------------------------------
(* Properties *)

Run == [pc : {"idle", "delete", "load", "ensure"}, remove : SUBSET Subs,
        units : SUBSET Unit, unit : Unit, stream : Streams, pages : SUBSET Days,
        throttles : Nat, bad : Nat, good : Nat, new : {NoState} \cup Records]

\* The kinds of value the variables hold: a page is fetched only within the
\* unit at work, and a state record is at hand whenever loading goes on
TypeOK ==
  /\ day \in History .. MaxDay
  /\ config \in Scopes
  /\ state \in {NoState} \cup Records
  /\ daily \subseteq Subs \X Days \X Streams
  /\ ring \in [Subs -> [Streams -> [Slots -> 0 .. MaxDay]]]
  /\ run \in Run
  /\ run.pages \subseteq run.unit.from .. run.unit.to
  /\ run.pc \in {"delete", "load"} => run.new # NoState
  /\ outcome \in {"none", "completed", "partial", "failed"}
  /\ fails \in 0 .. MaxFails
  /\ lost \subseteq Subs /\ short \subseteq Subs

\* At every moment, runs at work included, every day of the coverage that the record
\* claims is stored, for every subscription and every stream
AllStored ==
  state # NoState =>
    Members(state.subs) \X (state.from .. state.to) \X Streams \subseteq daily

\* usage_store.py 7-9: a missing row inside the covered window means zero usage.
\* Between runs, when the last one reported that it completed, every day that the
\* record claims is stored
CoverageLoaded == At("idle") /\ outcome = "completed" => AllStored

\* For any change of scope: what is missing from the coverage that the record claims
\* is of a subscription that has a reason.  A run deleted rows of it and did not end,
\* a rebuild of the projection did not reach it, or a flush broke after the data;
\* no other order of plans, pages, failures and changes of scope leaves a gap
GapsAreKnown ==
  /\ lost \cup short # {} => state # NoState /\ lost \cup short \subseteq Members(state.subs)
  /\ state # NoState =>
       (Members(state.subs) \ (lost \cup short)) \X (state.from .. state.to) \X Streams
         \subseteq daily

\* The state record drops a subscription only when all its rows are gone,
\* however many runs have failed halfway through their deletions.  (The record
\* of a dataset without a projection is replaced without deletions.)
RemovedGone ==
  [][state # NoState /\ state' # NoState /\ state.projected =>
       \A r \in daily' : r[1] \notin Members(state.subs) \ Members(state'.subs)]_vars

\* usage_refresh.py 295-298: the base of the dataset, and whether it is the whole
\* profile, change only by way of a flush
RefusedUntilFlush ==
  [][state # NoState /\ state' # NoState =>
       /\ state'.base = state.base
       /\ (state'.subs = Whole) = (state.subs = Whole)]_vars

Shown(x, d) == \A s \in Streams : ring[x][s][Slot(d)] = d

\* A covered day stays in the projection for as long as it is among the newest
\* SummaryDays finalized days
ViewRecent ==
  state # NoState /\ state.projected =>
    \A x \in Members(state.subs), d \in state.from .. state.to :
      d > day - SummaryDays => Shown(x, d)

\* For any change of scope: of the newest days, the projection lacks only what a run
\* deleted that did not end, whatever was rebuilt or flushed in between
BlanksAreKnown ==
  state # NoState /\ state.projected =>
    \A x \in Members(state.subs) \ lost, d \in state.from .. state.to :
      d > day - SummaryDays => Shown(x, d)

\* The days of the subscriptions that units ask for, and that a record claims
Asked(units) == UNION {u.subs \X (u.from .. u.to) : u \in units}
Covered(r) == IF r = NoState THEN {} ELSE Members(r.subs) \X (r.from .. r.to)

\* usage_refresh.py 342-353: a run over a projection that is current asks for exactly
\* what its record will claim beyond the old one, and for no subscription twice,
\* whatever has joined, left or stayed and however many days have passed
PlansExact ==
  [][At("idle") /\ run'.pc \in {"delete", "load"} /\ (state = NoState \/ state.projected) =>
       /\ Asked(run'.units) = Covered(run'.new) \ Covered(state)
       /\ \A u, v \in run'.units : u.subs \cap v.subs # {} => u = v]_vars

\* Once the flushes and the changes of scope that call for one end, and the
\* failures with them, the refreshes bring the dataset up to the last finalized
\* day of the configured scope
CatchesUp ==
  <>[](~At("ensure") /\ (state = NoState \/ ~Conflict(state))) =>
    <>[](state # NoState /\ state.to = day /\ state.subs = config.subs)

===============================================================================
