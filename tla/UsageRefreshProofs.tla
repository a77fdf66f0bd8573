-------------------------- MODULE UsageRefreshProofs ---------------------------
(***************************************************************************)
(* Proofs about UsageRefresh: the types, that the base of the dataset      *)
(* changes only by way of a flush, that who leaves the record is gone, and *)
(* that the coverage is loaded and the view holds its newest days when the *)
(* scope only grows.                                                       *)
(***************************************************************************)
EXTENDS UsageRefresh, TLAPS

-----------------------------------------------------------------------------
(* The work units of a plan *)

\* A work unit lies in the calendar, whichever base it is for
LEMMA WorkUnitsType ==
  ASSUME NEW subs, config \in Scopes, subs \in SUBSET Subs \/ subs = config.subs,
         NEW from \in Days, NEW to \in Days
  PROVE  WorkUnits(subs, from, to) \subseteq Unit
<1>1. config \in Scope /\ (config.base = "per-sub" => config.subs # Whole)
  BY UsageAssumption
<1>2. \A s \in SUBSET Subs : s # Whole
  BY UsageAssumption
<1>3. Members(subs) \subseteq Subs
  BY <1>1, <1>2 DEF Scope, SubSets, Members
<1>4. CASE config.base = "per-sub"
  <2>1. subs \subseteq Subs
    BY <1>1, <1>4 DEF Scope, SubSets
  <2> QED BY <2>1, <1>4 DEF WorkUnits, Unit
<1>5. CASE config.base # "per-sub"
  BY <1>3, <1>5 DEF WorkUnits, Unit
<1> QED BY <1>4, <1>5

\* The units of a load cover every day of it for every subscription
LEMMA WorkUnitsCover ==
  ASSUME NEW subs, config \in Scopes, subs \in SUBSET Subs \/ subs = config.subs,
         NEW from \in Int, NEW to \in Int,
         NEW x \in Members(subs), NEW d \in from .. to
  PROVE  \E u \in WorkUnits(subs, from, to) : x \in u.subs /\ d \in u.from .. u.to
<1>1. config \in Scope /\ (config.base = "per-sub" => config.subs # Whole)
  BY UsageAssumption
<1>2. \A s \in SUBSET Subs : s # Whole
  BY UsageAssumption
<1>3. ~(from > to)
  OBVIOUS
<1>4. CASE config.base = "per-sub"
  <2>1. x \in subs
    BY <1>1, <1>2, <1>4 DEF Members
  <2>2. [subs |-> {x}, from |-> from, to |-> to] \in WorkUnits(subs, from, to)
    BY <2>1, <1>3, <1>4 DEF WorkUnits
  <2> QED BY <2>2
<1>5. CASE config.base # "per-sub"
  <2>1. [subs |-> Members(subs), from |-> from, to |-> to] \in WorkUnits(subs, from, to)
    BY <1>3, <1>5 DEF WorkUnits
  <2> QED BY <2>1
<1> QED BY <1>4, <1>5

\* A state record of the configured scope
LEMMA RecordType ==
  ASSUME config \in Scopes, NEW from \in Days, NEW to \in Days
  PROVE  Record(config, from, to) \in Records /\ Record(config, from, to) # NoState
<1>1. config \in Scope
  BY UsageAssumption
<1>2. Record(config, from, to) \in Records
  BY <1>1 DEF Record, Records, Scope
<1> QED BY <1>2, UsageAssumption

-----------------------------------------------------------------------------
(* Types *)

LEMMA TypeInit == Init => TypeOK
<1> SUFFICES ASSUME Init PROVE TypeOK
  OBVIOUS
<1> USE UsageAssumption DEF Init
<1>1. History \in Days /\ 1 \in Days
  BY DEF Days
<1>2. run \in Run /\ run.pages = {} /\ run.pc = "idle"
  BY <1>1 DEF NoRun, NoUnit, Run, Unit, Streams
<1>3. ring \in [Subs -> [Streams -> [Slots -> 0 .. MaxDay]]]
  BY DEF EmptyRing
<1>4. ASSUME NEW s \in Scopes
      PROVE  [Record(s, 1, History) EXCEPT !.projected = FALSE] \in Records
  BY <1>1, <1>4 DEF Record, Records, Scope
<1>5. state \in {NoState} \cup Records
  BY <1>4
<1>6. daily \subseteq Subs \X Days \X Streams
  <2>1. CASE Upgrade
    <3>1. state \in Records
      BY <2>1, <1>4
    <3>2. Members(state.subs) \subseteq Subs
      BY <3>1 DEF Records, SubSets, Members
    <3>3. 1 .. History \subseteq Days
      BY DEF Days
    <3> QED BY <2>1, <3>2, <3>3
  <2>2. CASE ~Upgrade
    BY <2>2
  <2> QED BY <2>1, <2>2
<1>7. day \in History .. MaxDay /\ fails \in 0 .. MaxFails
  OBVIOUS
<1> QED BY <1>2, <1>3, <1>5, <1>6, <1>7 DEF TypeOK

LEMMA IdleRun == NoRun \in Run /\ NoRun.pages = {} /\ NoRun.pc = "idle"
BY UsageAssumption DEF NoRun, NoUnit, Run, Unit, Streams, Days

\* A run with some of its fields replaced
LEMMA ToUnit ==
  ASSUME NEW r \in Run, NEW unit \in Unit, NEW stream \in Streams,
         NEW pages \in SUBSET Days, NEW units \in SUBSET Unit
  PROVE  [r EXCEPT !.unit = unit, !.units = units, !.stream = stream,
                   !.pages = pages, !.throttles = 0] \in Run
<1> DEFINE r1 == [r EXCEPT !.unit = unit, !.units = units]
<1>1. r1 \in Run
  BY DEF Run
<1> HIDE DEF r1
<1>2. [r1 EXCEPT !.stream = stream, !.pages = pages, !.throttles = 0] \in Run
  BY <1>1 DEF Run
<1> QED BY <1>2 DEF r1

LEMMA ToStream ==
  ASSUME NEW r \in Run, NEW stream \in Streams, NEW pages \in SUBSET Days
  PROVE  [r EXCEPT !.stream = stream, !.throttles = 0, !.pages = pages] \in Run
BY DEF Run

LEMMA ToEnd ==
  ASSUME NEW r \in Run, NEW unit \in Unit, NEW good \in Nat
  PROVE  [r EXCEPT !.unit = unit, !.pages = {}, !.throttles = 0, !.good = good] \in Run
BY DEF Run

LEMMA ToFailure ==
  ASSUME NEW r \in Run, NEW unit \in Unit, NEW bad \in Nat
  PROVE  [r EXCEPT !.unit = unit, !.pages = {}, !.throttles = 0, !.bad = bad] \in Run
BY DEF Run

LEMMA ToWait ==
  ASSUME NEW r \in Run, NEW throttles \in Nat
  PROVE  [r EXCEPT !.throttles = throttles] \in Run
BY DEF Run

LEMMA RunFields ==
  ASSUME run \in Run
  PROVE  /\ run.stream \in Streams /\ run.throttles \in Nat /\ run.bad \in Nat
         /\ run.good \in Nat /\ run.unit \in Unit /\ run.units \in SUBSET Unit
         /\ run.pages \in SUBSET Days /\ run.remove \in SUBSET Subs
BY DEF Run

\* What a plan does to the types
LEMMA PlanType ==
  ASSUME TypeOK, NEW remove \in SUBSET Subs, NEW units \in SUBSET Unit,
         NEW new \in Records, new # NoState, Plan(remove, units, new)
  PROVE  TypeOK'
<1> USE UsageAssumption
<1> DEFINE r1 == [NoRun EXCEPT !.pc = IF remove = {} THEN "load" ELSE "delete",
                              !.remove = remove]
<1>0. r1 \in Run /\ r1.pages = {}
  BY IdleRun DEF Run
<1>1. run' \in Run /\ run'.pages = {} /\ run'.new = new
  <2>1. run' = [r1 EXCEPT !.units = units, !.new = new]
    BY DEF Plan
  <2> HIDE DEF r1
  <2> QED BY <1>0, <2>1 DEF Run
<1> QED BY <1>1 DEF TypeOK, Plan

LEMMA TypeResolve == TypeOK /\ Resolve => TypeOK'
<1> SUFFICES ASSUME TypeOK, Resolve PROVE TypeOK'
  OBVIOUS
<1> USE UsageAssumption
<1>1. day \in Days /\ config \in Scopes /\ HistoricalStart \in Days
  BY DEF TypeOK, Days, HistoricalStart
<1>2. PICK old \in StateRead :
        \/ InitialFull(old) \/ Refuse(old) \/ ProjectionRebuild(old)
        \/ RefreshAll(old) \/ Reconcile(old)
  BY DEF Resolve
<1>3. old # NoState => old \in Records /\ old = state
  BY <1>2 DEF StateRead, TypeOK
<1>4. ASSUME old # NoState
      PROVE  /\ old.from \in Days
             /\ NewEnd(old) \in Days
             /\ Record(config, old.from, NewEnd(old)) \in Records \ {NoState}
  <2>1. old.from \in Days /\ NewEnd(old) \in Days
    BY <1>1, <1>3, <1>4 DEF Records, NewEnd, Larger, Days
  <2> QED BY <1>1, <2>1, RecordType
<1>5. CASE InitialFull(old)
  <2>1. Record(config, HistoricalStart, day) \in Records \ {NoState}
    BY <1>1, RecordType
  <2>2. WorkUnits(config.subs, HistoricalStart, day) \subseteq Unit
    BY <1>1, WorkUnitsType
  <2> QED BY <2>1, <2>2, <1>5, PlanType DEF InitialFull
<1>6. CASE Refuse(old)
  BY <1>6 DEF Refuse, TypeOK
<1>7. CASE ProjectionRebuild(old)
  <2>1. old # NoState
    BY <1>7 DEF ProjectionRebuild
  <2>2. Larger(old.from, day - SummaryDays + 1) \in Days
    BY <1>1, <1>4, <2>1 DEF Larger, Days
  <2>3. WorkUnits(config.subs, Larger(old.from, day - SummaryDays + 1), day) \subseteq Unit
    BY <1>1, <2>2, WorkUnitsType
  <2> QED BY <2>1, <2>3, <1>4, <1>7, PlanType DEF ProjectionRebuild
<1>8. ASSUME NEW subs, subs \in SUBSET Subs \/ subs = config.subs, old # NoState
      PROVE  WorkUnits(subs, GapStart(old), day) \subseteq Unit
  <2>0. GapStart(old) = old.to + 1 /\ old.to \in Days
    BY <1>3, <1>8 DEF GapStart, Records
  <2>1. CASE GapStart(old) > day
    BY <2>1 DEF WorkUnits
  <2>2. CASE ~(GapStart(old) > day)
    <3>1. GapStart(old) \in Days
      BY <2>0, <2>2, <1>1 DEF Days
    <3> QED BY <3>1, <1>1, <1>8, WorkUnitsType
  <2> QED BY <2>1, <2>2
<1>9. CASE RefreshAll(old)
  <2>1. old # NoState /\ config.subs = Whole
    BY <1>9, <1>3 DEF RefreshAll, Conflict
  <2>2. WorkUnits(Whole, old.to + 1, day) \subseteq Unit
    BY <2>1, <1>8 DEF GapStart
  <2> QED BY <2>1, <2>2, <1>4, <1>9, PlanType DEF RefreshAll
<1>10. CASE Reconcile(old)
  <2> DEFINE added == config.subs \ old.subs
             kept == config.subs \cap old.subs
             units == (IF added = {} THEN {} ELSE WorkUnits(added, old.from, day))
                        \cup (IF kept = {} THEN {} ELSE WorkUnits(kept, GapStart(old), day))
  <2>1. old # NoState /\ old \in Records /\ old.subs # Whole /\ config.subs # Whole
    BY <1>10, <1>3 DEF Reconcile, Conflict
  <2>2. config.subs \subseteq Subs /\ old.subs \subseteq Subs
    BY <2>1, <1>1 DEF Records, Scope, SubSets
  <2>3. WorkUnits(added, old.from, day) \subseteq Unit
    BY <2>1, <2>2, <1>1, <1>4, WorkUnitsType
  <2>4. WorkUnits(kept, GapStart(old), day) \subseteq Unit
    BY <2>1, <2>2, <1>8
  <2>5. units \in SUBSET Unit
    BY <2>3, <2>4
  <2>6. Removed(old) \in SUBSET Subs
    BY <2>2 DEF Removed
  <2>7. Plan(Removed(old), units, Record(config, old.from, NewEnd(old)))
    BY <1>10 DEF Reconcile
  <2> HIDE DEF units
  <2> QED BY <2>1, <2>5, <2>6, <2>7, <1>4, PlanType
<1> QED BY <1>2, <1>5, <1>6, <1>7, <1>9, <1>10

\* The projection keeps its type whatever is merged into it
LEMMA SummarisedType ==
  ASSUME TypeOK, NEW subs, NEW d \in Days
  PROVE  Summarised(subs, d) \in [Subs -> [Streams -> [Slots -> 0 .. MaxDay]]]
<1>1. d \in 0 .. MaxDay
  BY UsageAssumption DEF Days
<1> QED BY <1>1 DEF TypeOK, Summarised

LEMMA BlankType ==
  ASSUME TypeOK, NEW subs
  PROVE  Blank(subs) \in [Subs -> [Streams -> [Slots -> 0 .. MaxDay]]]
BY UsageAssumption DEF TypeOK, Blank, EmptyRing

\* The rows of a page are rows of the calendar
LEMMA MergedType ==
  ASSUME TypeOK, NEW subs \in SUBSET Subs, NEW d \in Days
  PROVE  Merged(subs, d) \subseteq Subs \X Days \X Streams
<1>1. run.stream \in Streams
  BY DEF TypeOK, Run
<1> QED BY <1>1 DEF TypeOK, Merged, Rows

\* A page is of the days of its unit, in the calendar
LEMMA PageDays ==
  ASSUME TypeOK, NEW d \in run.pages
  PROVE  d \in Days /\ run.unit.subs \in SUBSET Subs
BY UsageAssumption DEF TypeOK, Run, Unit, Days

LEMMA Bounds ==
  /\ MaxFails \in Nat /\ MaxDay \in Nat /\ NStreams \in {1, 2}
  /\ History \in Nat \ {0} /\ History <= MaxDay /\ SummaryDays \in Nat \ {0}
  /\ Changes \subseteq Scopes \X Scopes
BY UsageAssumption

\* What a deletion takes are rows of the subscriptions to be removed
LEMMA GoneRows ==
  ASSUME NEW gone \in SUBSET RemovedRows
  PROVE  \A r \in gone : r[1] \in run.remove
<1> SUFFICES ASSUME NEW r \in gone PROVE r[1] \in run.remove
  OBVIOUS
<1>1. PICK q \in daily \ Without(run.remove) : r = <<q[1], q[2]>>
  BY DEF RemovedRows
<1> QED BY <1>1 DEF Without

LEMMA TypeNext == TypeOK /\ [Next]_vars => TypeOK'
<1> SUFFICES ASSUME TypeOK, [Next]_vars PROVE TypeOK'
  OBVIOUS
<1>0. run \in Run /\ 1 \in Streams
  BY UsageAssumption DEF TypeOK, Streams
<1>10. NoUnit \in Unit
  BY UsageAssumption DEF NoUnit, Unit, Days
<1>21. ASSUME run' = [run EXCEPT !.throttles = @ + 1]
       PROVE  /\ run' \in Run /\ run'.pages = run.pages /\ run'.unit = run.unit
              /\ run'.pc = run.pc /\ run'.new = run.new
  <2>1. run.throttles + 1 \in Nat
    BY <1>0, RunFields
  <2>2. run' \in Run
    BY <1>0, <1>21, <2>1, ToWait
  <2> QED BY <1>0, <1>21, <2>2 DEF Run
<1>1. CASE Resolve
  BY <1>1, TypeResolve
<1>2. CASE DeleteSubscriptions
  <2>1. run' \in Run /\ run'.pages = run.pages /\ run'.unit = run.unit /\ run'.new # NoState
    BY <1>2 DEF DeleteSubscriptions, TypeOK, Run, At
  <2>2. daily' \subseteq Subs \X Days \X Streams
    BY <1>2 DEF DeleteSubscriptions, TypeOK, Without
  <2>3. ring' \in [Subs -> [Streams -> [Slots -> 0 .. MaxDay]]]
    BY <1>2, BlankType DEF DeleteSubscriptions
  <2>4. lost' \subseteq Subs
    BY <1>0, <1>2, RunFields DEF DeleteSubscriptions, TypeOK
  <2> QED BY <1>2, <2>1, <2>2, <2>3, <2>4 DEF DeleteSubscriptions, TypeOK
<1>3. ASSUME NEW u \in run.units, NextUnit(u) PROVE TypeOK'
  <2>1. u \in Unit
    BY DEF TypeOK, Run
  <2>2. u.from .. u.to \subseteq Days
    BY <2>1, Bounds DEF Unit, Days
  <2>3. run' \in Run /\ run'.unit = u /\ run'.pages = u.from .. u.to /\ run'.new # NoState
    <3>1. run' = [run EXCEPT !.unit = u, !.units = @ \ {u}, !.stream = 1,
                             !.pages = u.from .. u.to, !.throttles = 0]
      BY <1>3 DEF NextUnit
    <3>2. run.units \ {u} \in SUBSET Unit
      BY <1>0, RunFields
    <3>3. run' \in Run
      BY <1>0, <2>1, <2>2, <3>1, <3>2, ToUnit
    <3>4. run.new # NoState
      BY <1>3 DEF NextUnit, TypeOK, At
    <3>5. run'.unit = u /\ run'.pages = u.from .. u.to /\ run'.new = run.new
      BY <1>0, <3>1 DEF Run
    <3> QED BY <3>3, <3>4, <3>5
  <2> QED BY <1>3, <2>3 DEF NextUnit, TypeOK
<1>4. ASSUME NEW d \in run.pages, FetchPage(d) PROVE TypeOK'
  <2>1. d \in Days /\ run.unit.subs \in SUBSET Subs
    BY PageDays
  <2>2. daily' \subseteq Subs \X Days \X Streams
    BY <1>4, <2>1, MergedType DEF FetchPage
  <2>3. ring' \in [Subs -> [Streams -> [Slots -> 0 .. MaxDay]]]
    BY <1>4, <2>1, SummarisedType DEF FetchPage
  <2>4. run.unit.from .. run.unit.to \subseteq Days
    BY <1>0, RunFields, Bounds DEF Unit, Days
  <2>6. run' = Advance(d) /\ run \in Run /\ run.new # NoState
    BY <1>4 DEF FetchPage, TypeOK, PageOf, At
  <2>7. run' \in Run /\ run'.pages \subseteq run'.unit.from .. run'.unit.to /\ run'.new = run.new
    <3>1. CASE run.pages # {d}
      BY <2>6, <3>1 DEF Advance, TypeOK, Run
    <3>2. CASE run.pages = {d} /\ run.stream < NStreams
      <4>1. run.stream + 1 \in Streams
        BY <2>6, <3>2, RunFields, Bounds DEF Streams
      <4>2. run' = [run EXCEPT !.stream = @ + 1, !.throttles = 0,
                               !.pages = run.unit.from .. run.unit.to]
        BY <2>6, <3>2 DEF Advance
      <4>3. run' \in Run
        BY <1>0, <4>1, <4>2, <2>4, ToStream
      <4>4. run'.pages = run.unit.from .. run.unit.to /\ run'.unit = run.unit
                /\ run'.new = run.new
        BY <1>0, <4>2 DEF Run
      <4> QED BY <4>3, <4>4
    <3>3. CASE run.pages = {d} /\ ~(run.stream < NStreams)
      <4>1. run' = [run EXCEPT !.unit = NoUnit, !.pages = {}, !.throttles = 0, !.good = @ + 1]
        BY <2>6, <3>3 DEF Advance
      <4>2. run.good + 1 \in Nat
        BY <1>0, RunFields
      <4>3. run' \in Run
        BY <1>0, <1>10, <4>1, <4>2, ToEnd
      <4>4. run'.pages = {} /\ run'.new = run.new
        BY <1>0, <4>1 DEF Run
      <4> QED BY <4>3, <4>4
    <3> QED BY <3>1, <3>2, <3>3
  <2> QED BY <1>4, <2>2, <2>3, <2>6, <2>7 DEF FetchPage, TypeOK
<1>5. CASE WriteState
  <2>1. run.new \in Records
    BY <1>0, <1>5 DEF WriteState, TypeOK, Run, Complete, Loaded, At
  <2>2. lost' \subseteq Subs /\ short' \subseteq Subs
    <3>1. Members(run.new.subs) \subseteq Subs
      BY <2>1 DEF Records, SubSets, Members
    <3>2. Skipped(run.new) \subseteq Members(run.new.subs)
      BY DEF Skipped
    <3> QED BY <1>5, <3>1, <3>2 DEF WriteState
  <2> QED BY <1>5, <2>1, <2>2, IdleRun DEF WriteState, TypeOK
<1>6. CASE Incomplete
  BY <1>6, IdleRun DEF Incomplete, TypeOK
<1>7. CASE FlushEnsure
  <2>1. run' = NoRun \/ run' = [run EXCEPT !.throttles = @ + 1]
    BY <1>7 DEF FlushEnsure
  <2>2. CASE run' = NoRun
    BY <1>7, <2>2, IdleRun DEF FlushEnsure, TypeOK
  <2>3. CASE run' = [run EXCEPT !.throttles = @ + 1]
    <3>1. run' \in Run /\ run'.pages = run.pages /\ run'.unit = run.unit
              /\ run'.pc = run.pc /\ run'.new = run.new
      BY <1>21, <2>3
    <3> QED BY <1>7, <3>1 DEF FlushEnsure, TypeOK
  <2> QED BY <2>1, <2>2, <2>3
<1>8. ASSUME Fails PROVE fails' \in 0 .. MaxFails
  BY <1>8, Bounds DEF Fails, TypeOK
<1>9. CASE DeleteFails
  <2>1. PICK gone \in SUBSET RemovedRows, blank \in SUBSET run.remove :
          /\ daily' = {r \in daily : <<r[1], r[2]>> \notin gone}
          /\ ring' = Blank(blank)
          /\ lost' = lost \cup {r[1] : r \in gone} \cup blank
    BY <1>9 DEF DeleteFails
  <2>4. lost' \subseteq Subs
    <3>1. \A r \in gone : r[1] \in run.remove
      BY GoneRows
    <3> QED BY <1>0, <2>1, <3>1, RunFields DEF TypeOK
  <2>2. daily' \subseteq Subs \X Days \X Streams
    BY <2>1 DEF TypeOK
  <2>3. ring' \in [Subs -> [Streams -> [Slots -> 0 .. MaxDay]]]
    BY <2>1, BlankType
  <2> QED BY <1>8, <1>9, <2>2, <2>3, <2>4, IdleRun DEF DeleteFails, RunFails, TypeOK
<1>11. ASSUME UnitFails
       PROVE  run' \in Run /\ run'.pages = {} /\ run'.new = run.new /\ run'.pc = run.pc
  <2>1. run' = [run EXCEPT !.unit = NoUnit, !.pages = {}, !.throttles = 0, !.bad = @ + 1]
    BY <1>11 DEF UnitFails
  <2>2. run.bad + 1 \in Nat
    BY <1>0, RunFields
  <2>3. run' \in Run
    BY <1>0, <1>10, <2>1, <2>2, ToFailure
  <2>4. run'.pages = {} /\ run'.new = run.new /\ run'.pc = run.pc
    BY <1>0, <2>1 DEF Run
  <2> QED BY <2>3, <2>4
<1>12. CASE Throttled
  <2>1. CASE UnitFails /\ Fails
    BY <1>8, <1>11, <1>12, <2>1 DEF Throttled, TypeOK
  <2>2. CASE run' = [run EXCEPT !.throttles = @ + 1] /\ UNCHANGED fails
    <3>1. run' \in Run /\ run'.pages = run.pages /\ run'.unit = run.unit
              /\ run'.pc = run.pc /\ run'.new = run.new
      BY <1>21, <2>2
    <3> QED BY <1>12, <2>2, <3>1 DEF Throttled, TypeOK
  <2> QED BY <1>12, <2>1, <2>2 DEF Throttled
<1>13. ASSUME NEW d \in run.pages, PageFails(d) PROVE TypeOK'
  <2>1. d \in Days /\ run.unit.subs \in SUBSET Subs
    BY PageDays
  <2>2. daily' \subseteq Subs \X Days \X Streams
    <3>1. daily' = daily \/ daily' = Merged(run.unit.subs, d)
      BY <1>13 DEF PageFails
    <3> QED BY <3>1, <2>1, MergedType DEF TypeOK
  <2>3. ring' \in [Subs -> [Streams -> [Slots -> 0 .. MaxDay]]]
    <3>1. ring' = ring \/ \E subs \in SUBSET run.unit.subs : ring' = Summarised(subs, d)
      BY <1>13 DEF PageFails
    <3> QED BY <3>1, <2>1, SummarisedType DEF TypeOK
  <2> QED BY <1>8, <1>11, <1>13, <2>2, <2>3 DEF PageFails, TypeOK
<1>14. CASE WriteStateFails \/ ResolveFails
  BY <1>8, <1>14, IdleRun DEF WriteStateFails, ResolveFails, RunFails, TypeOK
<1>15. EmptyRing \in [Subs -> [Streams -> [Slots -> 0 .. MaxDay]]]
  BY Bounds DEF EmptyRing
<1>22. state # NoState => Members(state.subs) \subseteq Subs
  BY DEF TypeOK, Records, SubSets, Members
<1>23. ASSUME NEW k \in 1 .. 3, Dropped(k)
       PROVE  /\ daily' \subseteq Subs \X Days \X Streams
              /\ state' \in {NoState} \cup Records
              /\ ring' \in [Subs -> [Streams -> [Slots -> 0 .. MaxDay]]]
              /\ lost' \subseteq Subs /\ short' \subseteq Subs
  BY <1>15, <1>22, <1>23 DEF Dropped, TypeOK
<1>16. CASE FlushDelete
  <2>1. run' \in Run /\ run'.pages = {} /\ run'.pc = "ensure"
    BY <1>16, IdleRun DEF FlushDelete, Run, NoRun
  <2>2. Dropped(3)
    BY <1>16 DEF FlushDelete
  <2> QED BY <1>16, <1>23, <2>1, <2>2 DEF FlushDelete, TypeOK
<1>17. CASE FlushDeleteFails
  <2>1. PICK k \in 1 .. 2 : Dropped(k)
    BY <1>17 DEF FlushDeleteFails
  <2>2. k \in 1 .. 3
    OBVIOUS
  <2> QED BY <1>8, <1>17, <1>23, <2>1, <2>2 DEF FlushDeleteFails, TypeOK
<1>18. CASE NextDay
  BY <1>18, Bounds DEF NextDay, TypeOK
<1>19. CASE ChangeScope
  BY <1>19, Bounds DEF ChangeScope, TypeOK
<1>20. CASE UNCHANGED vars
  BY <1>20 DEF vars, TypeOK
<1> QED
  BY <1>1, <1>2, <1>3, <1>4, <1>5, <1>6, <1>7, <1>9, <1>12, <1>13, <1>14, <1>16,
     <1>17, <1>18, <1>19, <1>20 DEF Next, Step

\* The variables keep their types, whatever the scopes and their changes: in
\* particular every page a run asks for lies within the calendar and its unit
THEOREM UsageTypeCorrect == Spec => []TypeOK
BY TypeInit, TypeNext, PTL DEF Spec

-----------------------------------------------------------------------------
(* The base changes only by way of a flush *)

SameBase(r, q) == r.base = q.base /\ (r.subs = Whole) = (q.subs = Whole)

\* What a run is about to record is of the base of the dataset it found
BaseInv ==
  run.pc \in {"delete", "load"} /\ state # NoState => SameBase(run.new, state)

LEMMA BaseInit == Init => BaseInv
BY DEF Init, BaseInv, NoRun

LEMMA BaseNext ==
  ASSUME ~ReadFails, TypeOK, BaseInv, [Next]_vars
  PROVE  BaseInv'
<1>1. CASE Resolve
  <2>1. PICK old \in {state} :
          \/ InitialFull(old) \/ Refuse(old) \/ ProjectionRebuild(old)
          \/ RefreshAll(old) \/ Reconcile(old)
    BY <1>1 DEF Resolve, StateRead
  <2>2. \A from, to : ~Conflict(old) => SameBase(Record(config, from, to), old)
    BY DEF Conflict, Record, SameBase
  <2>3. \A remove, units, new :
          Plan(remove, units, new) => run'.new = new /\ state' = state
    BY DEF Plan, NoRun
  <2>4. CASE InitialFull(old)
    BY <2>1, <2>3, <2>4 DEF InitialFull, BaseInv
  <2>5. CASE Refuse(old)
    BY <1>1, <2>5 DEF Refuse, BaseInv
  <2>6. CASE ProjectionRebuild(old)
    BY <2>2, <2>3, <2>6 DEF ProjectionRebuild, BaseInv
  <2>7. CASE RefreshAll(old)
    BY <2>2, <2>3, <2>7 DEF RefreshAll, BaseInv
  <2>8. CASE Reconcile(old)
    BY <2>2, <2>3, <2>8 DEF Reconcile, BaseInv
  <2> QED BY <2>1, <2>4, <2>5, <2>6, <2>7, <2>8
<1>2. CASE DeleteSubscriptions
  BY <1>2 DEF DeleteSubscriptions, BaseInv, At, TypeOK, Run
<1>3. ASSUME NEW u \in run.units, NextUnit(u) PROVE BaseInv'
  BY <1>3 DEF NextUnit, BaseInv, At, TypeOK, Run
<1>4. ASSUME NEW d \in run.pages, FetchPage(d) PROVE BaseInv'
  BY <1>4 DEF FetchPage, Advance, PageOf, BaseInv, At, TypeOK, Run
<1>5. CASE Throttled
  BY <1>5 DEF Throttled, UnitFails, BaseInv, At, TypeOK, Run
<1>6. ASSUME NEW d \in run.pages, PageFails(d) PROVE BaseInv'
  BY <1>6 DEF PageFails, UnitFails, PageOf, BaseInv, At, TypeOK, Run
<1>7. CASE WriteState \/ Incomplete \/ DeleteFails \/ WriteStateFails \/ ResolveFails
  BY <1>7 DEF WriteState, Incomplete, DeleteFails, WriteStateFails, ResolveFails, RunFails,
       NoRun, BaseInv
<1>8. CASE FlushEnsure
  BY <1>8 DEF FlushEnsure, NoRun, BaseInv, At, TypeOK, Run
<1>9. CASE FlushDelete \/ FlushDeleteFails
  BY <1>9 DEF FlushDelete, FlushDeleteFails, NoRun, BaseInv, At
<1>10. CASE NextDay \/ ChangeScope \/ UNCHANGED vars
  BY <1>10 DEF NextDay, ChangeScope, vars, BaseInv
<1> QED
  BY <1>1, <1>2, <1>3, <1>4, <1>5, <1>6, <1>7, <1>8, <1>9, <1>10 DEF Next, Step

\* Only the end of a run and a flush touch the state record
LEMMA OtherStepsKeepState ==
  ASSUME [Next]_vars, ~(WriteState \/ FlushDelete \/ FlushDeleteFails)
  PROVE  UNCHANGED <<state, short>>
<1>1. ASSUME Resolve PROVE UNCHANGED <<state, short>>
  BY <1>1 DEF Resolve, InitialFull, Refuse, ProjectionRebuild, RefreshAll, Reconcile, Plan
<1>2. ASSUME DeleteSubscriptions \/ DeleteFails \/ ResolveFails \/ WriteStateFails
      PROVE  UNCHANGED <<state, short>>
  BY <1>2 DEF DeleteSubscriptions, DeleteFails, ResolveFails, WriteStateFails, RunFails
<1>3. ASSUME \E u \in run.units : NextUnit(u) PROVE UNCHANGED <<state, short>>
  BY <1>3 DEF NextUnit
<1>4. ASSUME \E d \in run.pages : FetchPage(d) \/ PageFails(d)
      PROVE  UNCHANGED <<state, short>>
  BY <1>4 DEF FetchPage, PageFails
<1>5. ASSUME Incomplete \/ FlushEnsure \/ Throttled PROVE UNCHANGED <<state, short>>
  BY <1>5 DEF Incomplete, FlushEnsure, Throttled
<1>6. ASSUME NextDay \/ ChangeScope \/ UNCHANGED vars PROVE UNCHANGED <<state, short>>
  BY <1>6 DEF NextDay, ChangeScope, vars
<1> QED BY <1>1, <1>2, <1>3, <1>4, <1>5, <1>6 DEF Next, Step

\* A dataset keeps its base, and stays the whole profile or a subset, until it is
\* flushed, as long as the state record can be read
THEOREM RefusalHolds ==
  ASSUME ~ReadFails
  PROVE  Spec => RefusedUntilFlush
<1>1. ASSUME TypeOK, BaseInv, [Next]_vars
      PROVE  [state # NoState /\ state' # NoState =>
                /\ state'.base = state.base
                /\ (state'.subs = Whole) = (state.subs = Whole)]_vars
  <2>1. CASE WriteState
    BY <1>1, <2>1 DEF WriteState, Complete, Loaded, At, BaseInv, SameBase
  <2>2. CASE FlushDelete \/ FlushDeleteFails
    BY <2>2 DEF FlushDelete, FlushDeleteFails, Dropped
  <2>3. CASE ~(WriteState \/ FlushDelete \/ FlushDeleteFails)
    <3>1. UNCHANGED state
      BY <1>1, <2>3, OtherStepsKeepState
    <3> QED BY <3>1
  <2> QED BY <2>1, <2>2, <2>3
<1>2. TypeOK /\ BaseInv /\ [Next]_vars => TypeOK' /\ BaseInv'
  BY TypeNext, BaseNext
<1> QED BY TypeInit, BaseInit, <1>1, <1>2, PTL DEF Spec, RefusedUntilFlush

-----------------------------------------------------------------------------
(* Who leaves the record is gone *)

\* The subscriptions that the run at work will drop from the record
Leaving == Members(state.subs) \ Members(run.new.subs)

\* A run has those who leave among its deletions until these are made, and then no
\* row of theirs: its units are of subscriptions that stay
GoneInv ==
  run.pc \in {"delete", "load"} =>
    /\ \A u \in run.units : u.subs \subseteq Members(run.new.subs)
    /\ run.unit.subs \subseteq Members(run.new.subs)
    /\ state # NoState /\ state.projected =>
         /\ At("delete") => Leaving \subseteq run.remove
         /\ At("load") => \A r \in daily : r[1] \notin Leaving

\* The units of a load are of the subscriptions it is for
LEMMA WorkUnitsWithin ==
  ASSUME NEW subs, config \in Scopes, subs \in SUBSET Subs \/ subs = config.subs,
         NEW from, NEW to, NEW u \in WorkUnits(subs, from, to)
  PROVE  u.subs \subseteq Members(subs)
<1>1. config.base = "per-sub" => config.subs # Whole
  BY UsageAssumption
<1>2. \A s \in SUBSET Subs : s # Whole
  BY UsageAssumption
<1>3. CASE config.base = "per-sub"
  <2>1. PICK x \in subs : u = [subs |-> {x}, from |-> from, to |-> to]
    BY <1>3 DEF WorkUnits
  <2>2. subs # Whole
    BY <1>1, <1>2, <1>3
  <2> QED BY <2>1, <2>2 DEF Members
<1>4. CASE config.base # "per-sub"
  BY <1>4 DEF WorkUnits
<1> QED BY <1>3, <1>4

\* A plan preserves GoneInv if it deletes whoever it leaves out
LEMMA PlanGone ==
  ASSUME NEW remove, NEW units, NEW new, Plan(remove, units, new),
         \A u \in units : u.subs \subseteq Members(new.subs),
         state # NoState /\ state.projected =>
           Members(state.subs) \ Members(new.subs) \subseteq remove
  PROVE  GoneInv'
<1>1. /\ UNCHANGED <<state, daily>> /\ run'.new = new /\ run'.units = units
      /\ run'.unit = NoUnit /\ run'.remove = remove
      /\ run'.pc = IF remove = {} THEN "load" ELSE "delete"
  BY DEF Plan, NoRun
<1> QED BY <1>1 DEF GoneInv, Leaving, Members, NoUnit, At

LEMMA GoneResolve ==
  ASSUME ~ReadFails, TypeOK, GoneInv, Resolve
  PROVE  GoneInv'
<1>0. /\ config \in Scopes /\ config \in Scope
      /\ state # NoState => state \in Records
  BY UsageAssumption DEF TypeOK
<1>1. PICK old \in {state} :
        \/ InitialFull(old) \/ Refuse(old) \/ ProjectionRebuild(old)
        \/ RefreshAll(old) \/ Reconcile(old)
  BY DEF Resolve, StateRead
<1>2. \A from, to : Record(config, from, to).subs = config.subs
  BY DEF Record
<1>3. CASE InitialFull(old)
  <2>1. Plan({}, WorkUnits(config.subs, HistoricalStart, day),
             Record(config, HistoricalStart, day)) /\ state = NoState
    BY <1>1, <1>3 DEF InitialFull
  <2> QED BY <1>0, <1>2, <2>1, WorkUnitsWithin, PlanGone
<1>4. CASE Refuse(old)
  BY <1>4 DEF Refuse, GoneInv, Leaving, Members, At
<1>5. CASE ProjectionRebuild(old)
  <2> DEFINE from == Larger(old.from, day - SummaryDays + 1)
  <2>1. Plan({}, WorkUnits(config.subs, from, day), Record(config, old.from, NewEnd(old)))
          /\ ~state.projected
    BY <1>1, <1>5 DEF ProjectionRebuild
  <2> HIDE DEF from
  <2> QED BY <1>0, <1>2, <2>1, WorkUnitsWithin, PlanGone
<1>6. CASE RefreshAll(old)
  <2>1. Plan({}, WorkUnits(Whole, old.to + 1, day), Record(config, old.from, NewEnd(old)))
          /\ state.subs = Whole /\ config.subs = Whole
    BY <1>1, <1>6 DEF RefreshAll, Conflict
  <2> QED BY <1>0, <1>2, <2>1, WorkUnitsWithin, PlanGone
<1>7. CASE Reconcile(old)
  <2> DEFINE added == config.subs \ old.subs
             kept == config.subs \cap old.subs
             units == (IF added = {} THEN {} ELSE WorkUnits(added, old.from, day))
                        \cup (IF kept = {} THEN {} ELSE WorkUnits(kept, GapStart(old), day))
  <2>1. old # NoState /\ old = state /\ old.subs # Whole /\ config.subs # Whole
    BY <1>1, <1>7 DEF Reconcile, Conflict
  <2>2. config.subs \subseteq Subs /\ old.subs \subseteq Subs
    BY <1>0, <2>1 DEF Scope, Records, SubSets
  <2>3. Members(config.subs) = config.subs /\ Members(state.subs) = old.subs
    BY <2>1 DEF Members
  <2>4. added \in SUBSET Subs /\ kept \in SUBSET Subs /\ \A y \in SUBSET Subs : Members(y) = y
    BY <2>2, UsageAssumption DEF Members
  <2>5. ASSUME NEW u \in units PROVE u.subs \subseteq Members(config.subs)
    <3>1. CASE u \in WorkUnits(added, old.from, day)
      <4>1. u.subs \subseteq Members(added)
        BY <1>0, <2>4, <3>1, WorkUnitsWithin
      <4> QED BY <2>3, <2>4, <4>1
    <3>2. CASE u \in WorkUnits(kept, GapStart(old), day)
      <4>1. u.subs \subseteq Members(kept)
        BY <1>0, <2>4, <3>2, WorkUnitsWithin
      <4> QED BY <2>3, <2>4, <4>1
    <3> QED BY <3>1, <3>2
  <2>6. Plan(Removed(old), units, Record(config, old.from, NewEnd(old)))
    BY <1>7 DEF Reconcile
  <2>7. Members(state.subs) \ Members(config.subs) \subseteq Removed(old)
    BY <2>3 DEF Removed
  <2> HIDE DEF units
  <2> QED BY <1>2, <2>5, <2>6, <2>7, PlanGone
<1> QED BY <1>1, <1>3, <1>4, <1>5, <1>6, <1>7

\* A step of the load that stores rows of its unit only
LEMMA LoadGone ==
  ASSUME TypeOK, GoneInv, At("load"), run'.pc = "load", run'.new = run.new,
         UNCHANGED state,
         run'.units \subseteq run.units,
         run'.unit \in {run.unit, NoUnit} \cup run.units,
         \A r \in daily' : r \in daily \/ r[1] \in run.unit.subs
  PROVE  GoneInv'
<1>1. NoUnit.subs = {}
  BY DEF NoUnit
<1> QED BY <1>1 DEF GoneInv, Leaving, Members, At

LEMMA GoneNext ==
  ASSUME ~ReadFails, TypeOK, GoneInv, [Next]_vars
  PROVE  GoneInv'
<1>0. run \in Run
  BY DEF TypeOK
<1>1. CASE Resolve
  BY <1>1, GoneResolve
<1>2. CASE DeleteSubscriptions
  <2>1. /\ At("delete") /\ UNCHANGED state /\ daily' = {r \in daily : r[1] \notin run.remove}
        /\ run'.pc = "load" /\ run'.new = run.new /\ run'.units = run.units
        /\ run'.unit = run.unit
    BY <1>0, <1>2 DEF DeleteSubscriptions, Without, Run
  <2> QED BY <2>1 DEF GoneInv, Leaving, Members, At
<1>3. ASSUME NEW u \in run.units, NextUnit(u) PROVE GoneInv'
  <2>1. /\ At("load") /\ UNCHANGED <<state, daily>> /\ run'.pc = "load" /\ run'.new = run.new
        /\ run'.units = run.units \ {u} /\ run'.unit = u
    BY <1>0, <1>3 DEF NextUnit, At, Run
  <2> QED BY <2>1, LoadGone
<1>4. ASSUME NEW d \in run.pages, FetchPage(d) PROVE GoneInv'
  <2>1. At("load") /\ UNCHANGED state /\ daily' = daily \cup (run.unit.subs \X {d} \X {run.stream})
    BY <1>4 DEF FetchPage, PageOf, Merged, Rows
  <2>2. run'.pc = run.pc /\ run'.new = run.new /\ run'.units = run.units
          /\ run'.unit \in {run.unit, NoUnit}
    BY <1>0, <1>4 DEF FetchPage, Advance, Run
  <2> QED BY <2>1, <2>2, LoadGone DEF At
<1>5. ASSUME UnitFails
      PROVE  /\ run'.pc = run.pc /\ run'.new = run.new /\ run'.units = run.units
             /\ run'.unit = NoUnit
  BY <1>0, <1>5 DEF UnitFails, Run
<1>6. CASE Throttled
  <2>1. /\ run'.pc = run.pc /\ run'.new = run.new /\ run'.units = run.units
        /\ run'.unit \in {run.unit, NoUnit}
    BY <1>0, <1>5, <1>6 DEF Throttled, Run
  <2> QED BY <1>6, <2>1, LoadGone DEF Throttled, At
<1>7. ASSUME NEW d \in run.pages, PageFails(d) PROVE GoneInv'
  <2>1. At("load") /\ UNCHANGED state /\ UnitFails
          /\ daily' \subseteq daily \cup (run.unit.subs \X {d} \X {run.stream})
    BY <1>7 DEF PageFails, PageOf, Merged, Rows
  <2> QED BY <1>5, <2>1, LoadGone DEF At
<1>8. CASE WriteState \/ Incomplete \/ DeleteFails \/ WriteStateFails \/ ResolveFails
  BY <1>8 DEF WriteState, Incomplete, DeleteFails, WriteStateFails, ResolveFails, RunFails,
       NoRun, GoneInv
<1>9. CASE FlushEnsure
  BY <1>9 DEF FlushEnsure, NoRun, GoneInv, At, TypeOK, Run
<1>10. CASE FlushDelete \/ FlushDeleteFails
  BY <1>10 DEF FlushDelete, FlushDeleteFails, NoRun, GoneInv, At
<1>11. CASE NextDay \/ ChangeScope \/ UNCHANGED vars
  BY <1>11 DEF NextDay, ChangeScope, vars, GoneInv, Leaving, Members, At
<1> QED
  BY <1>1, <1>2, <1>3, <1>4, <1>6, <1>7, <1>8, <1>9, <1>10, <1>11 DEF Next, Step

\* A subscription leaves the record only when all its rows are gone, for any change
\* of scope and however many runs failed halfway through their deletions, as long as
\* the state record can be read: a plan made without it would delete nothing
THEOREM RemovalsAreWhole ==
  ASSUME ~ReadFails
  PROVE  Spec => RemovedGone
<1>1. ASSUME TypeOK, GoneInv, [Next]_vars
      PROVE  [state # NoState /\ state' # NoState /\ state.projected =>
                \A r \in daily' : r[1] \notin Members(state.subs) \ Members(state'.subs)]_vars
  <2>1. CASE WriteState
    BY <1>1, <2>1 DEF WriteState, Complete, Loaded, At, GoneInv, Leaving
  <2>2. CASE FlushDelete \/ FlushDeleteFails
    BY <2>2 DEF FlushDelete, FlushDeleteFails, Dropped
  <2>3. CASE ~(WriteState \/ FlushDelete \/ FlushDeleteFails)
    <3>1. UNCHANGED state
      BY <1>1, <2>3, OtherStepsKeepState
    <3> QED BY <3>1
  <2> QED BY <2>1, <2>2, <2>3
<1>2. Init => GoneInv
  BY DEF Init, GoneInv, NoRun
<1>3. TypeOK /\ GoneInv /\ [Next]_vars => TypeOK' /\ GoneInv'
  BY TypeNext, GoneNext
<1> QED BY TypeInit, <1>1, <1>2, <1>3, PTL DEF Spec, RemovedGone

-----------------------------------------------------------------------------
(* Coverage *)

\* A row that the run has yet to fetch
ToFetch(x, d, s) ==
  \/ \E u \in run.units : x \in u.subs /\ d \in u.from .. u.to
  \/ /\ x \in run.unit.subs /\ d \in run.unit.from .. run.unit.to
     /\ s > run.stream \/ (s = run.stream /\ d \in run.pages)

\* A row that is stored, or that the run has yet to fetch
Pending(x, d, s) == <<x, d, s>> \in daily \/ ToFetch(x, d, s)

\* What a run is about to record is of days gone by, and of nobody it deletes
PlanInv ==
  /\ state # NoState => state.from <= state.to /\ state.to <= day
  /\ run.pc \in {"delete", "load"} =>
       /\ run.new.from <= run.new.to /\ run.new.to <= day /\ run.new.projected
       /\ run.remove \cap Members(run.new.subs) = {}
       /\ run.remove # {} => state # NoState /\ run.remove \subseteq Members(state.subs)

\* The coverage that a run without a failure is about to claim is stored or still to
\* be fetched, but for the gaps there were and those that a rebuild leaves
Promise ==
  \A x \in Members(run.new.subs) \ (lost \cup short \cup Skipped(run.new)),
     d \in run.new.from .. run.new.to, s \in Streams :
    Pending(x, d, s)

CoverageInv ==
  /\ GapsAreKnown
  /\ run.pc \in {"delete", "load"} /\ run.bad = 0 => Promise

\* A page takes nothing but its rows out of what is still to be fetched
LEMMA FetchLeaves ==
  ASSUME TypeOK, NEW day1 \in run.pages, FetchPage(day1),
         NEW x \in Subs, NEW d \in Days, NEW s \in Streams, ToFetch(x, d, s),
         ~(x \in run.unit.subs /\ d = day1 /\ s = run.stream)
  PROVE  ToFetch(x, d, s)'
<1>0. run \in Run /\ run.stream \in Streams /\ NStreams \in Nat
  BY RunFields, Bounds DEF TypeOK
<1>1. run' = Advance(day1) /\ run'.units = run.units
  BY <1>0 DEF FetchPage, Advance, Run
<1>2. CASE \E u \in run.units : x \in u.subs /\ d \in u.from .. u.to
  BY <1>1, <1>2 DEF ToFetch
<1>3. CASE /\ x \in run.unit.subs /\ d \in run.unit.from .. run.unit.to
           /\ s > run.stream \/ (s = run.stream /\ d \in run.pages)
  <2>1. CASE run.pages # {day1}
    <3>1. run' = [run EXCEPT !.pages = @ \ {day1}, !.throttles = 0]
      BY <1>1, <2>1 DEF Advance
    <3>2. run'.pages = run.pages \ {day1} /\ run'.unit = run.unit
              /\ run'.stream = run.stream
      BY <1>0, <3>1 DEF Run
    <3> QED BY <1>3, <3>2 DEF ToFetch
  <2>2. CASE run.pages = {day1}
    <3>1. s > run.stream
      BY <1>3, <2>2
    <3>2. run.stream < NStreams
      BY <1>0, <3>1 DEF Streams
    <3>3. run' = [run EXCEPT !.stream = @ + 1, !.throttles = 0,
                             !.pages = run.unit.from .. run.unit.to]
      BY <1>1, <2>2, <3>2 DEF Advance
    <3>4. run'.pages = run.unit.from .. run.unit.to /\ run'.unit = run.unit
              /\ run'.stream = run.stream + 1
      BY <1>0, <3>3 DEF Run
    <3>5. s > run.stream + 1 \/ s = run.stream + 1
      BY <1>0, <3>1 DEF Streams
    <3> QED BY <1>3, <3>4, <3>5 DEF ToFetch
  <2> QED BY <2>1, <2>2
<1> QED BY <1>2, <1>3 DEF ToFetch

\* A unit is taken up with all its days and streams still to be fetched
LEMMA UnitLeaves ==
  ASSUME TypeOK, NEW u \in run.units, NextUnit(u),
         NEW x, NEW d, NEW s \in Streams, ToFetch(x, d, s)
  PROVE  ToFetch(x, d, s)'
<1>0. run \in Run /\ (s > 1 \/ s = 1)
  BY Bounds DEF TypeOK, Streams
<1>1. /\ run.unit.subs = {} /\ run'.units = run.units \ {u} /\ run'.unit = u
      /\ run'.stream = 1 /\ run'.pages = u.from .. u.to
  BY <1>0 DEF NextUnit, NoUnit, Run
<1>2. PICK v \in run.units : x \in v.subs /\ d \in v.from .. v.to
  BY <1>1 DEF ToFetch
<1>3. CASE v = u
  BY <1>0, <1>1, <1>2, <1>3 DEF ToFetch
<1>4. CASE v # u
  BY <1>1, <1>2, <1>4 DEF ToFetch
<1> QED BY <1>3, <1>4

\* A plan over a record with a projection removes nobody it claims; its units are
\* what the new record claims beyond the old one
LEMMA PlanReaches ==
  ASSUME NEW old \in Records, config \in Scopes, day \in Int, old.to <= day,
         RefreshAll(old) \/ Reconcile(old)
  PROVE  \E remove, units :
           /\ Plan(remove, units, Record(config, old.from, day))
           /\ remove \cap Members(config.subs) = {} /\ remove \subseteq Members(old.subs)
           /\ \A x \in Members(config.subs), d \in old.from .. day :
                \/ x \in Members(old.subs) /\ d \in old.from .. old.to
                \/ \E u \in units : x \in u.subs /\ d \in u.from .. u.to
<1>1. /\ old.from \in Int /\ old.to \in Int /\ GapStart(old) = old.to + 1
      /\ NewEnd(old) = day
  BY Bounds DEF Records, Days, NewEnd, Larger, GapStart
<1>2. CASE RefreshAll(old)
  <2>1. old.subs = Whole /\ config.subs = Whole
    BY <1>2 DEF RefreshAll, Conflict
  <2>2. ASSUME NEW x \in Members(Whole), NEW d \in old.to + 1 .. day
        PROVE  \E u \in WorkUnits(Whole, old.to + 1, day) :
                 x \in u.subs /\ d \in u.from .. u.to
    BY <1>1, <2>1, <2>2, WorkUnitsCover
  <2>3. ASSUME NEW x \in Members(config.subs), NEW d \in old.from .. day
        PROVE  \/ x \in Members(old.subs) /\ d \in old.from .. old.to
               \/ \E u \in WorkUnits(Whole, old.to + 1, day) :
                    x \in u.subs /\ d \in u.from .. u.to
    <3>1. d \in old.from .. old.to \/ d \in old.to + 1 .. day
      BY <1>1
    <3> QED BY <2>1, <2>2, <3>1
  <2>4. Plan({}, WorkUnits(Whole, old.to + 1, day), Record(config, old.from, day))
    BY <1>1, <1>2 DEF RefreshAll
  <2>5. {} \cap Members(config.subs) = {} /\ {} \subseteq Members(old.subs)
    OBVIOUS
  <2> QED BY <2>3, <2>4, <2>5
<1>3. CASE Reconcile(old)
  <2> DEFINE added == config.subs \ old.subs
             kept == config.subs \cap old.subs
             units == (IF added = {} THEN {} ELSE WorkUnits(added, old.from, day))
                        \cup (IF kept = {} THEN {} ELSE WorkUnits(kept, GapStart(old), day))
  <2>1. old.subs # Whole /\ config.subs # Whole
    BY <1>3 DEF Reconcile, Conflict
  <2>2. config.subs \subseteq Subs
    <3>1. config \in Scope
      BY UsageAssumption
    <3> QED BY <2>1, <3>1 DEF Scope, SubSets
  <2>3. /\ Removed(old) \cap Members(config.subs) = {}
        /\ Removed(old) \subseteq Members(old.subs)
    BY <2>1 DEF Removed, Members
  <2>4. Plan(Removed(old), units, Record(config, old.from, day))
    BY <1>1, <1>3 DEF Reconcile
  <2>5. added \in SUBSET Subs /\ kept \in SUBSET Subs
    BY <2>2
  <2>6. \A y \in SUBSET Subs : Members(y) = y
    BY UsageAssumption DEF Members
  <2>7. ASSUME NEW x \in added, NEW d \in old.from .. day
        PROVE  \E u \in units : x \in u.subs /\ d \in u.from .. u.to
    <3>1. x \in Members(added)
      BY <2>5, <2>6
    <3>2. \E u \in WorkUnits(added, old.from, day) : x \in u.subs /\ d \in u.from .. u.to
      BY <1>1, <2>5, <3>1, WorkUnitsCover
    <3> QED BY <3>2
  <2>8. ASSUME NEW x \in kept, NEW d \in old.to + 1 .. day
        PROVE  \E u \in units : x \in u.subs /\ d \in u.from .. u.to
    <3>1. x \in Members(kept) /\ GapStart(old) \in Int
      BY <1>1, <2>5, <2>6
    <3>2. \E u \in WorkUnits(kept, GapStart(old), day) : x \in u.subs /\ d \in u.from .. u.to
      BY <1>1, <2>5, <2>8, <3>1, WorkUnitsCover
    <3> QED BY <3>2
  <2> HIDE DEF units
  <2>9. ASSUME NEW x \in Members(config.subs), NEW d \in old.from .. day
        PROVE  \/ x \in Members(old.subs) /\ d \in old.from .. old.to
               \/ \E u \in units : x \in u.subs /\ d \in u.from .. u.to
    <3>1. x \in added \/ x \in kept
      BY <2>1 DEF Members
    <3>2. CASE x \in added
      BY <2>7, <3>2
    <3>3. CASE x \in kept
      <4>1. d \in old.from .. old.to \/ d \in old.to + 1 .. day
        BY <1>1
      <4>2. x \in Members(old.subs)
        BY <2>1, <3>3 DEF Members
      <4> QED BY <2>8, <3>3, <4>1, <4>2
    <3> QED BY <3>1, <3>2, <3>3
  <2> QED BY <2>3, <2>4, <2>9
<1> QED BY <1>2, <1>3

\* What every plan is, by the case it came from
LEMMA RecordFields ==
  ASSUME NEW from, NEW to
  PROVE  /\ Record(config, from, to).subs = config.subs
         /\ Record(config, from, to).from = from
         /\ Record(config, from, to).to = to
         /\ Record(config, from, to).projected
BY DEF Record

\* A plan over a record whose projection is to be rebuilt, or over none
LEMMA PlanRebuilds ==
  ASSUME NEW old, config \in Scopes, day \in Int,
         \/ InitialFull(old)
         \/ old \in Records /\ old.to <= day /\ ProjectionRebuild(old)
  PROVE  \E from \in Int, start \in Int :
           /\ from = IF old = NoState THEN start ELSE Larger(start, day - SummaryDays + 1)
           /\ start = IF old = NoState THEN HistoricalStart ELSE old.from
           /\ Plan({}, WorkUnits(config.subs, from, day), Record(config, start, day))
           /\ \A x \in Members(config.subs), d \in from .. day :
                \E u \in WorkUnits(config.subs, from, day) :
                  x \in u.subs /\ d \in u.from .. u.to
<1>1. CASE InitialFull(old)
  <2>1. HistoricalStart \in Int
    BY Bounds DEF HistoricalStart
  <2>2. \A x \in Members(config.subs), d \in HistoricalStart .. day :
          \E u \in WorkUnits(config.subs, HistoricalStart, day) :
            x \in u.subs /\ d \in u.from .. u.to
    BY <2>1, WorkUnitsCover
  <2> QED BY <1>1, <2>1, <2>2 DEF InitialFull
<1>2. CASE old \in Records /\ old.to <= day /\ ProjectionRebuild(old)
  <2> DEFINE from == Larger(old.from, day - SummaryDays + 1)
  <2>1. old # NoState /\ old.from \in Int /\ old.to \in Int /\ NewEnd(old) = day
    BY <1>2, Bounds DEF ProjectionRebuild, Records, Days, NewEnd, Larger
  <2>2. from \in Int
    BY <2>1, Bounds DEF Larger
  <2>3. Plan({}, WorkUnits(config.subs, from, day), Record(config, old.from, day))
    BY <1>2, <2>1 DEF ProjectionRebuild
  <2> HIDE DEF from
  <2>4. \A x \in Members(config.subs), d \in from .. day :
          \E u \in WorkUnits(config.subs, from, day) : x \in u.subs /\ d \in u.from .. u.to
    BY <2>2, WorkUnitsCover
  <2> QED BY <2>1, <2>2, <2>3, <2>4 DEF from
<1> QED BY <1>1, <1>2

-----------------------------------------------------------------------------
(* What a run is about to record *)

LEMMA PlanMakes ==
  ASSUME NEW remove, NEW units, NEW new, Plan(remove, units, new)
  PROVE  /\ UNCHANGED <<day, config, state, daily, ring, lost, short>>
         /\ run'.pc \in {"delete", "load"} /\ run'.units = units /\ run'.new = new
         /\ run'.remove = remove /\ run'.bad = 0
BY DEF Plan, NoRun

LEMMA PlanInvResolve ==
  ASSUME TypeOK, PlanInv, Resolve
  PROVE  PlanInv'
<1>0. config \in Scopes /\ day \in Int /\ (state # NoState => state \in Records)
  BY Bounds DEF TypeOK
<1>1. PICK old \in StateRead :
        \/ InitialFull(old) \/ Refuse(old) \/ ProjectionRebuild(old)
        \/ RefreshAll(old) \/ Reconcile(old)
  BY DEF Resolve
<1>2. old # NoState => /\ old = state /\ old \in Records /\ old.from <= old.to
                       /\ old.to <= day /\ old.from <= day
  <2>1. old # NoState => /\ old = state /\ old \in Records /\ old.from <= old.to
                         /\ old.to <= day
    BY <1>0, <1>1 DEF StateRead, PlanInv
  <2>2. old # NoState => old.from \in Int /\ old.to \in Int
    BY <2>1, Bounds DEF Records, Days
  <2> QED BY <1>0, <2>1, <2>2
<1>3. ASSUME NEW remove, NEW units, NEW from, from <= day, Plan(remove, units, Record(config, from, day)),
             remove \cap Members(config.subs) = {},
             remove # {} => state # NoState /\ remove \subseteq Members(state.subs)
      PROVE  PlanInv'
  <2>1. /\ UNCHANGED <<day, state>> /\ run'.pc \in {"delete", "load"}
        /\ run'.new = Record(config, from, day) /\ run'.remove = remove
    BY <1>3, PlanMakes
  <2> QED BY <1>0, <1>3, <2>1, RecordFields DEF PlanInv, Members
<1>4. CASE InitialFull(old) \/ ProjectionRebuild(old)
  <2>1. old # NoState => old \in Records /\ old.to <= day
    BY <1>2
  <2>2. \/ InitialFull(old)
        \/ old \in Records /\ old.to <= day /\ ProjectionRebuild(old)
    BY <1>4, <2>1 DEF ProjectionRebuild
  <2>3. PICK from \in Int, start \in Int :
          /\ start = IF old = NoState THEN HistoricalStart ELSE old.from
          /\ Plan({}, WorkUnits(config.subs, from, day), Record(config, start, day))
    BY <1>0, <2>2, PlanRebuilds
  <2>4. start <= day
    BY <1>0, <1>2, <2>3, Bounds DEF HistoricalStart
  <2> QED BY <1>3, <2>3, <2>4
<1>5. CASE Refuse(old)
  BY <1>5 DEF Refuse, PlanInv, Members
<1>6. CASE RefreshAll(old) \/ Reconcile(old)
  <2>1. old # NoState
    BY <1>6 DEF RefreshAll, Reconcile
  <2>2. PICK remove, units :
          /\ Plan(remove, units, Record(config, old.from, day))
          /\ remove \cap Members(config.subs) = {} /\ remove \subseteq Members(old.subs)
    BY <1>0, <1>2, <1>6, <2>1, PlanReaches
  <2> QED BY <1>2, <1>3, <2>1, <2>2
<1> QED BY <1>1, <1>4, <1>5, <1>6

\* A step of a run on the way to its record keeps what it is about to record
LEMMA RunKeeps ==
  ASSUME TypeOK, PlanInv, run.pc \in {"delete", "load"}, UNCHANGED <<day, state>>,
         run'.pc \in {"delete", "load"}, run'.new = run.new, run'.remove = run.remove
  PROVE  PlanInv'
BY DEF PlanInv, Members

LEMMA LoadFields ==
  ASSUME run \in Run
  PROVE  /\ \A d : Advance(d).pc = run.pc /\ Advance(d).new = run.new
                     /\ Advance(d).remove = run.remove /\ Advance(d).bad = run.bad
         /\ UnitFails => /\ run'.pc = run.pc /\ run'.new = run.new
                         /\ run'.remove = run.remove /\ run'.bad = run.bad + 1
                         /\ run.bad \in Nat
BY DEF Advance, UnitFails, Run

LEMMA PlanInvNext ==
  ASSUME TypeOK, PlanInv, [Next]_vars
  PROVE  PlanInv'
<1>0. run \in Run /\ day \in Int /\ (state # NoState => state \in Records)
  BY Bounds DEF TypeOK
<1>1. CASE Resolve
  BY <1>1, PlanInvResolve
<1>2. CASE DeleteSubscriptions
  <2>1. /\ run.pc = "delete" /\ UNCHANGED <<day, state>> /\ run'.pc = "load"
        /\ run'.new = run.new /\ run'.remove = run.remove
    BY <1>0, <1>2 DEF DeleteSubscriptions, At, Run
  <2> QED BY <2>1, RunKeeps
<1>3. ASSUME NEW u \in run.units, NextUnit(u) PROVE PlanInv'
  <2>1. /\ run.pc = "load" /\ UNCHANGED <<day, state>> /\ run'.pc = "load"
        /\ run'.new = run.new /\ run'.remove = run.remove
    BY <1>0, <1>3 DEF NextUnit, At, Run
  <2> QED BY <2>1, RunKeeps
<1>4. ASSUME NEW d \in run.pages, FetchPage(d) PROVE PlanInv'
  <2>1. run.pc = "load" /\ UNCHANGED <<day, state>> /\ run' = Advance(d)
    BY <1>4 DEF FetchPage, PageOf, At
  <2>2. run'.pc = run.pc /\ run'.new = run.new /\ run'.remove = run.remove
    BY <1>0, <2>1, LoadFields
  <2> QED BY <2>1, <2>2, RunKeeps
<1>5. CASE Throttled
  <2>1. run.pc = "load" /\ UNCHANGED <<day, state>>
          /\ (UnitFails \/ run' = [run EXCEPT !.throttles = @ + 1])
    BY <1>5 DEF Throttled, At
  <2>2. run'.pc = run.pc /\ run'.new = run.new /\ run'.remove = run.remove
    BY <1>0, <2>1, LoadFields DEF Run
  <2> QED BY <2>1, <2>2, RunKeeps
<1>6. ASSUME NEW d \in run.pages, PageFails(d) PROVE PlanInv'
  <2>1. run.pc = "load" /\ UNCHANGED <<day, state>> /\ UnitFails
    BY <1>6 DEF PageFails, PageOf, At
  <2>2. run'.pc = run.pc /\ run'.new = run.new /\ run'.remove = run.remove
    BY <1>0, <2>1, LoadFields
  <2> QED BY <2>1, <2>2, RunKeeps
<1>7. CASE WriteState
  <2>1. run.pc = "load" /\ UNCHANGED day /\ state' = run.new /\ run'.pc = "idle"
    BY <1>7 DEF WriteState, Complete, Loaded, At, NoRun
  <2> QED BY <2>1 DEF PlanInv
<1>8. CASE Incomplete \/ WriteStateFails \/ ResolveFails \/ DeleteFails
  <2>1. UNCHANGED <<day, state>> /\ run'.pc = "idle"
    BY <1>8 DEF Incomplete, WriteStateFails, ResolveFails, DeleteFails, RunFails, NoRun
  <2> QED BY <2>1 DEF PlanInv
<1>9. CASE FlushEnsure
  <2>1. UNCHANGED <<day, state>> /\ run'.pc \in {"idle", "ensure"}
    BY <1>0, <1>9 DEF FlushEnsure, NoRun, At, Run
  <2> QED BY <2>1 DEF PlanInv
<1>10. CASE FlushDelete \/ FlushDeleteFails
  <2>1. /\ UNCHANGED day /\ run'.pc \in {"idle", "ensure"}
        /\ state' = NoState \/ state' = state
    BY <1>10 DEF FlushDelete, FlushDeleteFails, Dropped, NoRun, At
  <2> QED BY <2>1 DEF PlanInv
<1>11. CASE NextDay
  <2>1. day' = day + 1 /\ UNCHANGED <<state, run>>
    BY <1>11 DEF NextDay
  <2>2. /\ state # NoState => state.to \in Int
        /\ run.pc \in {"delete", "load"} => run.new.to \in Int
    BY <1>0, Bounds DEF TypeOK, Run, Records, Days
  <2> QED BY <1>0, <2>1, <2>2 DEF PlanInv, Members
<1>12. CASE ChangeScope \/ UNCHANGED vars
  BY <1>12 DEF ChangeScope, vars, PlanInv, Members
<1> QED
  BY <1>1, <1>2, <1>3, <1>4, <1>5, <1>6, <1>7, <1>8, <1>9, <1>10, <1>11, <1>12
     DEF Next, Step

-----------------------------------------------------------------------------
(* The gaps of the coverage *)

\* A plan preserves CoverageInv if what it will claim is stored or in its units
LEMMA PlanCovers ==
  ASSUME CoverageInv, NEW remove, NEW units, NEW from, NEW to,
         Plan(remove, units, Record(config, from, to)),
         \A x \in Members(config.subs) \ (lost \cup short \cup Skipped(Record(config, from, to))),
            d \in from .. to, s \in Streams :
           \/ <<x, d, s>> \in daily
           \/ \E u \in units : x \in u.subs /\ d \in u.from .. u.to
  PROVE  CoverageInv'
<1> DEFINE new == Record(config, from, to)
<1>1. /\ UNCHANGED <<state, daily, lost, short>>
      /\ run'.units = units /\ run'.new = new
  BY PlanMakes
<1>2. new.subs = config.subs /\ new.from = from /\ new.to = to
  BY RecordFields
<1> HIDE DEF new
<1>3. GapsAreKnown'
  BY <1>1 DEF CoverageInv, GapsAreKnown, Members
<1>4. Skipped(run.new)' = Skipped(new)
  BY <1>1 DEF Skipped, Members, Larger
<1>5. ASSUME NEW x \in Members(new.subs) \ (lost \cup short \cup Skipped(new)),
             NEW d \in new.from .. new.to, NEW s \in Streams
      PROVE  Pending(x, d, s)'
  <2>1. <<x, d, s>> \in daily \/ \E u \in units : x \in u.subs /\ d \in u.from .. u.to
    BY <1>2 DEF new
  <2> QED BY <1>1, <2>1 DEF Pending, ToFetch
<1>6. Promise'
  BY <1>1, <1>4, <1>5 DEF Promise, Members
<1> QED BY <1>3, <1>6 DEF CoverageInv

\* Every plan covers what it claims, but for what a rebuild skips
LEMMA CoverageResolve ==
  ASSUME TypeOK, PlanInv, CoverageInv, Resolve
  PROVE  CoverageInv'
<1>0. config \in Scopes /\ day \in Int /\ (state # NoState => state \in Records)
  BY Bounds DEF TypeOK
<1>1. PICK old \in StateRead :
        \/ InitialFull(old) \/ Refuse(old) \/ ProjectionRebuild(old)
        \/ RefreshAll(old) \/ Reconcile(old)
  BY DEF Resolve
<1>2. ASSUME old # NoState
      PROVE  /\ old = state /\ old \in Records /\ old.to <= day
             /\ old.from \in Int /\ old.to \in Int
             /\ \A x \in Members(old.subs) \ (lost \cup short),
                   d \in old.from .. old.to, s \in Streams : <<x, d, s>> \in daily
  <2>1. old = state /\ old \in Records /\ old.to <= day
    BY <1>0, <1>1, <1>2 DEF StateRead, PlanInv
  <2>2. old.from \in Int /\ old.to \in Int
    BY <2>1, Bounds DEF Records, Days
  <2> QED BY <1>2, <2>1, <2>2 DEF CoverageInv, GapsAreKnown
<1>3. CASE InitialFull(old)
  <2>1. PICK from \in Int :
          /\ Plan({}, WorkUnits(config.subs, from, day), Record(config, from, day))
          /\ \A x \in Members(config.subs), d \in from .. day :
               \E u \in WorkUnits(config.subs, from, day) : x \in u.subs /\ d \in u.from .. u.to
    BY <1>0, <1>3, PlanRebuilds DEF InitialFull
  <2> QED BY <2>1, PlanCovers
<1>4. CASE Refuse(old)
  <2>1. UNCHANGED <<state, daily, run, lost, short>>
    BY <1>4 DEF Refuse
  <2> QED BY <2>1 DEF CoverageInv, GapsAreKnown, Promise, Skipped, Larger, Pending, ToFetch, Members
<1>5. CASE ProjectionRebuild(old)
  <2>1. old = state /\ old # NoState /\ ~state.projected
    BY <1>2, <1>5 DEF ProjectionRebuild
  <2>2. PICK from \in Int :
          /\ from = Larger(old.from, day - SummaryDays + 1)
          /\ Plan({}, WorkUnits(config.subs, from, day), Record(config, old.from, day))
          /\ \A x \in Members(config.subs), d \in from .. day :
               \E u \in WorkUnits(config.subs, from, day) : x \in u.subs /\ d \in u.from .. u.to
    BY <1>0, <1>2, <1>5, <2>1, PlanRebuilds
  <2>3. Skipped(Record(config, old.from, day)) =
          {x \in Members(config.subs) :
             from > IF x \in Members(old.subs) THEN old.to + 1 ELSE old.from}
    BY <2>1, <2>2, RecordFields DEF Skipped
  <2>4. ASSUME NEW x \in Members(config.subs),
               x \notin lost \cup short \cup Skipped(Record(config, old.from, day)),
               NEW d \in old.from .. day, NEW s \in Streams
        PROVE  \/ <<x, d, s>> \in daily
               \/ \E u \in WorkUnits(config.subs, from, day) :
                    x \in u.subs /\ d \in u.from .. u.to
    <3>1. CASE d \in from .. day
      BY <2>2, <3>1
    <3>2. CASE ~(d \in from .. day)
      <4>1. x \in Members(old.subs) /\ from <= old.to + 1
        BY <1>0, <1>2, <2>1, <2>3, <2>4, <3>2
      <4>2. d \in old.from .. old.to
        BY <1>0, <1>2, <2>1, <3>2, <4>1
      <4> QED BY <1>2, <2>1, <2>4, <4>1, <4>2
    <3> QED BY <3>1, <3>2
  <2> QED BY <2>2, <2>4, PlanCovers
<1>6. CASE RefreshAll(old) \/ Reconcile(old)
  <2>1. old # NoState
    BY <1>6 DEF RefreshAll, Reconcile
  <2>2. PICK remove, units :
          /\ Plan(remove, units, Record(config, old.from, day))
          /\ \A x \in Members(config.subs), d \in old.from .. day :
               \/ x \in Members(old.subs) /\ d \in old.from .. old.to
               \/ \E u \in units : x \in u.subs /\ d \in u.from .. u.to
    BY <1>0, <1>2, <1>6, <2>1, PlanReaches
  <2>3. ASSUME NEW x \in Members(config.subs) \ (lost \cup short), NEW d \in old.from .. day,
               NEW s \in Streams
        PROVE  \/ <<x, d, s>> \in daily
               \/ \E u \in units : x \in u.subs /\ d \in u.from .. u.to
    BY <1>2, <2>1, <2>2
  <2> QED BY <2>2, <2>3, PlanCovers
<1> QED BY <1>1, <1>3, <1>4, <1>5, <1>6

\* A step of the load that keeps what is stored or to be fetched
LEMMA LoadCovers ==
  ASSUME TypeOK, CoverageInv, At("load"), daily \subseteq daily',
         UNCHANGED <<state, lost, short>>, run'.new = run.new,
         run'.bad = 0 => /\ run.bad = 0
                         /\ \A x \in Subs, d \in Days, s \in Streams :
                              Pending(x, d, s) => Pending(x, d, s)'
  PROVE  CoverageInv'
<1>1. GapsAreKnown'
  BY DEF CoverageInv, GapsAreKnown, Members
<1>2. Skipped(run.new)' = Skipped(run.new)
  BY DEF Skipped, Members, Larger
<1>3. ASSUME run'.bad = 0,
             NEW x \in Members(run.new.subs) \ (lost \cup short \cup Skipped(run.new)),
             NEW d \in run.new.from .. run.new.to, NEW s \in Streams
      PROVE  Pending(x, d, s)'
  <2>1. run.new \in Records
    BY DEF TypeOK, Run, At
  <2>2. x \in Subs /\ d \in Days
    BY <2>1, Bounds DEF Records, SubSets, Members, Days
  <2>3. Pending(x, d, s)
    BY <1>3 DEF CoverageInv, Promise, At
  <2> QED BY <1>3, <2>2, <2>3
<1>4. run'.bad = 0 => Promise'
  BY <1>2, <1>3 DEF Promise, Members
<1> QED BY <1>1, <1>4 DEF CoverageInv

\* Fetching a page stores its rows: nothing that was to be fetched is lost
LEMMA FetchCovers ==
  ASSUME TypeOK, CoverageInv, NEW day1 \in run.pages, FetchPage(day1)
  PROVE  CoverageInv'
<1>0. run \in Run
  BY DEF TypeOK
<1>1. /\ At("load") /\ daily' = daily \cup (run.unit.subs \X {day1} \X {run.stream})
      /\ run' = Advance(day1) /\ UNCHANGED <<state, lost, short>>
  BY DEF FetchPage, PageOf, Merged, Rows
<1>2. run'.new = run.new /\ run'.bad = run.bad
  BY <1>0, <1>1, LoadFields
<1>3. ASSUME NEW x \in Subs, NEW d \in Days, NEW s \in Streams, Pending(x, d, s)
      PROVE  Pending(x, d, s)'
  <2>1. CASE <<x, d, s>> \in daily \/ (x \in run.unit.subs /\ d = day1 /\ s = run.stream)
    BY <1>1, <2>1 DEF Pending
  <2>2. CASE ToFetch(x, d, s) /\ ~(x \in run.unit.subs /\ d = day1 /\ s = run.stream)
    BY <2>2, FetchLeaves DEF Pending
  <2> QED BY <1>3, <2>1, <2>2 DEF Pending
<1> QED BY <1>1, <1>2, <1>3, LoadCovers

LEMMA UnitCovers ==
  ASSUME TypeOK, CoverageInv, NEW u \in run.units, NextUnit(u)
  PROVE  CoverageInv'
<1>1. /\ At("load") /\ UNCHANGED <<state, daily, lost, short>>
      /\ run'.new = run.new /\ run'.bad = run.bad
  BY DEF TypeOK, NextUnit, Run
<1>2. ASSUME NEW x \in Subs, NEW d \in Days, NEW s \in Streams, Pending(x, d, s)
      PROVE  Pending(x, d, s)'
  BY <1>1, <1>2, UnitLeaves DEF Pending
<1> QED BY <1>1, <1>2, LoadCovers

\* A unit that fails is counted, so the run no longer claims anything
LEMMA FailureCovers ==
  ASSUME TypeOK, CoverageInv, At("load"), UnitFails, daily \subseteq daily',
         UNCHANGED <<state, lost, short>>
  PROVE  CoverageInv'
<1>1. run'.new = run.new /\ run'.bad = run.bad + 1 /\ run.bad \in Nat
  BY LoadFields DEF TypeOK
<1>2. run'.bad # 0
  BY <1>1
<1> QED BY <1>1, <1>2, LoadCovers

\* The end of a run, or a step that is not a load, with the rows and the record kept
LEMMA KeepCovers ==
  ASSUME CoverageInv, UNCHANGED <<state, lost, short>>, daily \subseteq daily',
         run'.pc \in {"idle", "ensure"}
  PROVE  CoverageInv'
BY DEF CoverageInv, GapsAreKnown, Members

\* The deletions of a run are of subscriptions it leaves out of its record
LEMMA DeletionCovers ==
  ASSUME TypeOK, PlanInv, CoverageInv, DeleteSubscriptions
  PROVE  CoverageInv'
<1>1. /\ run.pc = "delete" /\ daily' = {r \in daily : r[1] \notin run.remove}
      /\ lost' = lost \cup run.remove /\ UNCHANGED <<state, short>>
      /\ run'.new = run.new /\ run'.units = run.units /\ run'.unit = run.unit
      /\ run'.stream = run.stream /\ run'.pages = run.pages /\ run'.bad = run.bad
  BY DEF DeleteSubscriptions, Without, At, TypeOK, Run
<1>2. /\ run.remove \cap Members(run.new.subs) = {}
      /\ run.remove # {} => state # NoState /\ run.remove \subseteq Members(state.subs)
  BY <1>1 DEF PlanInv
<1>3. \A x, d, s : <<x, d, s>> \in daily /\ x \notin run.remove => <<x, d, s>> \in daily'
  BY <1>1
<1>4. GapsAreKnown'
  <2>1. state # NoState =>
          \A x \in Members(state.subs) \ (lost \cup short), d \in state.from .. state.to,
             s \in Streams : <<x, d, s>> \in daily
    BY DEF CoverageInv, GapsAreKnown
  <2>2. ASSUME state # NoState, NEW x \in Members(state.subs) \ (lost' \cup short),
               NEW d \in state.from .. state.to, NEW s \in Streams
        PROVE  <<x, d, s>> \in daily'
    <3>1. x \notin lost \cup short /\ x \notin run.remove
      BY <1>1
    <3>2. <<x, d, s>> \in daily
      BY <2>1, <2>2, <3>1
    <3> QED BY <1>1, <3>1, <3>2
  <2>3. lost' \cup short # {} => state # NoState /\ lost' \cup short \subseteq Members(state.subs)
    BY <1>1, <1>2 DEF CoverageInv, GapsAreKnown
  <2> QED BY <1>1, <2>2, <2>3 DEF GapsAreKnown, Members
<1>5. Skipped(run.new)' = Skipped(run.new)
  BY <1>1 DEF Skipped, Members, Larger
<1>6. ASSUME run.bad = 0 PROVE Promise'
  <2>1. ASSUME NEW x \in Members(run.new.subs) \ (lost \cup short \cup Skipped(run.new)),
               NEW d \in run.new.from .. run.new.to, NEW s \in Streams
        PROVE  Pending(x, d, s)'
    <3>1. Pending(x, d, s) /\ x \notin run.remove
      BY <1>1, <1>2, <1>6 DEF CoverageInv, Promise
    <3> QED BY <1>1, <1>3, <3>1 DEF Pending, ToFetch
  <2> QED BY <1>1, <1>5, <2>1 DEF Promise, Members
<1> QED BY <1>1, <1>4, <1>6 DEF CoverageInv

\* Deletions that break are all remembered
LEMMA BrokenDeletionCovers ==
  ASSUME TypeOK, PlanInv, CoverageInv, DeleteFails
  PROVE  CoverageInv'
<1>1. PICK gone \in SUBSET RemovedRows, blank \in SUBSET run.remove :
        /\ daily' = {r \in daily : <<r[1], r[2]>> \notin gone}
        /\ lost' = lost \cup {r[1] : r \in gone} \cup blank
  BY DEF DeleteFails
<1>2. run.pc = "delete" /\ run'.pc = "idle" /\ UNCHANGED <<state, short>>
  BY DEF DeleteFails, RunFails, NoRun, At
<1>3. lost' # lost => state # NoState /\ lost' \subseteq lost \cup Members(state.subs)
  <2>1. \A r \in gone : r[1] \in run.remove
    BY GoneRows
  <2> QED BY <1>1, <1>2, <2>1 DEF PlanInv
<1>4. GapsAreKnown'
  <2>1. state # NoState =>
          \A x \in Members(state.subs) \ (lost \cup short), d \in state.from .. state.to,
             s \in Streams : <<x, d, s>> \in daily
    BY DEF CoverageInv, GapsAreKnown
  <2>2. ASSUME state # NoState, NEW x \in Members(state.subs) \ (lost' \cup short),
               NEW d \in state.from .. state.to, NEW s \in Streams
        PROVE  <<x, d, s>> \in daily'
    <3>1. x \notin lost \cup short /\ <<x, d>> \notin gone
      BY <1>1
    <3>2. <<x, d, s>> \in daily
      BY <2>1, <2>2, <3>1
    <3> QED BY <1>1, <3>1, <3>2
  <2>3. lost' \cup short # {} => state # NoState /\ lost' \cup short \subseteq Members(state.subs)
    BY <1>1, <1>3 DEF CoverageInv, GapsAreKnown
  <2> QED BY <1>2, <2>2, <2>3 DEF GapsAreKnown, Members
<1> QED BY <1>2, <1>4 DEF CoverageInv

\* The record claims no more than the run promised
LEMMA WriteCovers ==
  ASSUME TypeOK, CoverageInv, WriteState
  PROVE  CoverageInv'
<1>1. /\ run.pc = "load" /\ run.unit = NoUnit /\ run.units = {} /\ run.bad = 0
      /\ state' = run.new /\ run'.pc = "idle" /\ UNCHANGED daily
      /\ lost' = lost \cap Members(run.new.subs)
      /\ short' = (short \cap Members(run.new.subs)) \cup Skipped(run.new)
  BY DEF WriteState, Complete, Loaded, At, NoRun
<1>2. run.new # NoState
  BY <1>1 DEF TypeOK
<1>3. \A x, d, s : Pending(x, d, s) => <<x, d, s>> \in daily
  BY <1>1 DEF Pending, ToFetch, NoUnit
<1>4. ASSUME NEW x \in Members(run.new.subs) \ (lost' \cup short'),
             NEW d \in run.new.from .. run.new.to, NEW s \in Streams
      PROVE  <<x, d, s>> \in daily
  <2>1. x \in Members(run.new.subs) \ (lost \cup short \cup Skipped(run.new))
    BY <1>1
  <2>2. Pending(x, d, s)
    BY <1>1, <2>1 DEF CoverageInv, Promise
  <2> QED BY <1>3, <2>2
<1>5. Skipped(run.new) \subseteq Members(run.new.subs)
  BY DEF Skipped
<1>6. lost' \cup short' \subseteq Members(run.new.subs)
  BY <1>1, <1>5
<1>7. GapsAreKnown'
  BY <1>1, <1>2, <1>4, <1>6 DEF GapsAreKnown, Members
<1> QED BY <1>1, <1>7 DEF CoverageInv

LEMMA CoverageInit == Init => CoverageInv
<1> SUFFICES ASSUME Init PROVE CoverageInv
  OBVIOUS
<1>1. run.pc = "idle" /\ lost = {} /\ short = {}
  BY DEF Init, NoRun
<1>2. ASSUME state # NoState
      PROVE  Members(state.subs) \X (state.from .. state.to) \X Streams \subseteq daily
  <2>1. PICK s \in Scopes : Upgrade /\ state = [Record(s, 1, History) EXCEPT !.projected = FALSE]
    BY <1>2 DEF Init
  <2>2. state.from = 1 /\ state.to = History
    BY <2>1 DEF Record
  <2> QED BY <2>1, <2>2 DEF Init
<1> QED BY <1>1, <1>2 DEF CoverageInv, GapsAreKnown

LEMMA PlanInvInit == Init => PlanInv
<1> SUFFICES ASSUME Init PROVE PlanInv
  OBVIOUS
<1>1. run.pc = "idle" /\ day = History
  BY DEF Init, NoRun
<1>2. state # NoState => state.from = 1 /\ state.to = History
  <2>1. \A s : /\ [Record(s, 1, History) EXCEPT !.projected = FALSE].to = History
               /\ [Record(s, 1, History) EXCEPT !.projected = FALSE].from = 1
    BY DEF Record
  <2> QED BY <2>1 DEF Init
<1> QED BY <1>1, <1>2, Bounds DEF PlanInv

LEMMA CoverageNext ==
  ASSUME TypeOK, PlanInv, CoverageInv, [Next]_vars
  PROVE  CoverageInv'
<1>0. run \in Run
  BY DEF TypeOK
<1>1. CASE Resolve
  BY <1>1, CoverageResolve
<1>2. CASE DeleteSubscriptions \/ DeleteFails
  BY <1>2, DeletionCovers, BrokenDeletionCovers
<1>3. ASSUME NEW u \in run.units, NextUnit(u) PROVE CoverageInv'
  BY <1>3, UnitCovers
<1>4. ASSUME NEW d \in run.pages, FetchPage(d) PROVE CoverageInv'
  BY <1>4, FetchCovers
<1>5. CASE Throttled
  <2>0. At("load") /\ UNCHANGED <<daily, state, lost, short>>
    BY <1>5 DEF Throttled
  <2>1. CASE UnitFails
    BY <2>0, <2>1, FailureCovers
  <2>2. CASE run' = [run EXCEPT !.throttles = @ + 1]
    <3>1. /\ run'.new = run.new /\ run'.bad = run.bad
          /\ run'.units = run.units /\ run'.unit = run.unit /\ run'.stream = run.stream
          /\ run'.pages = run.pages
      BY <1>0, <2>2 DEF Run
    <3>2. \A x \in Subs, d \in Days, s \in Streams : Pending(x, d, s) => Pending(x, d, s)'
      BY <2>0, <3>1 DEF Pending, ToFetch
    <3> QED BY <2>0, <3>1, <3>2, LoadCovers
  <2> QED BY <1>5, <2>1, <2>2 DEF Throttled
<1>6. ASSUME NEW d \in run.pages, PageFails(d) PROVE CoverageInv'
  BY <1>6, FailureCovers DEF PageFails, PageOf, Merged
<1>7. CASE WriteState
  BY <1>7, WriteCovers
<1>8. CASE Incomplete \/ WriteStateFails \/ ResolveFails
  <2>1. UNCHANGED <<daily, state, lost, short>> /\ run'.pc = "idle"
    BY <1>8 DEF Incomplete, WriteStateFails, ResolveFails, RunFails, NoRun
  <2> QED BY <2>1, KeepCovers
<1>9. CASE FlushEnsure
  <2>1. run'.pc \in {"idle", "ensure"}
    BY <1>0, <1>9 DEF FlushEnsure, NoRun, At, Run
  <2> QED BY <1>9, <2>1, KeepCovers DEF FlushEnsure
<1>10. CASE FlushDelete
  <2>1. state' = NoState /\ lost' = {} /\ short' = {} /\ run'.pc = "ensure"
    BY <1>10 DEF FlushDelete, Dropped, NoRun
  <2> QED BY <2>1 DEF CoverageInv, GapsAreKnown
<1>11. CASE FlushDeleteFails
  <2>1. PICK k \in 1 .. 2 : Dropped(k) /\ run'.pc = "idle"
    BY <1>11 DEF FlushDeleteFails, At
  <2>2. CASE k = 2
    <3>1. state' = NoState /\ lost' = {} /\ short' = {}
      BY <2>1, <2>2 DEF Dropped
    <3> QED BY <2>1, <3>1 DEF CoverageInv, GapsAreKnown
  <2>3. CASE k = 1
    <3>1. /\ UNCHANGED <<state, lost>>
          /\ short' = IF state = NoState THEN {} ELSE Members(state.subs)
      BY <2>1, <2>3 DEF Dropped
    <3>2. lost # {} => state # NoState /\ lost \subseteq Members(state.subs)
      BY DEF CoverageInv, GapsAreKnown
    <3>3. GapsAreKnown'
      <4>1. state = NoState => lost' \cup short' = {}
        BY <3>1, <3>2
      <4>2. state # NoState => lost' \cup short' = Members(state.subs)
        BY <3>1, <3>2
      <4> QED BY <3>1, <4>1, <4>2 DEF GapsAreKnown, Members
    <3> QED BY <2>1, <3>3 DEF CoverageInv
  <2> QED BY <2>2, <2>3
<1>12. CASE NextDay \/ ChangeScope \/ UNCHANGED vars
  <2>1. UNCHANGED <<state, daily, run, lost, short>>
    BY <1>12 DEF NextDay, ChangeScope, vars
  <2> QED BY <2>1 DEF CoverageInv, GapsAreKnown, Promise, Skipped, Larger, Pending, ToFetch, Members
<1> QED
  BY <1>1, <1>2, <1>3, <1>4, <1>5, <1>6, <1>7, <1>8, <1>9, <1>10, <1>11, <1>12
     DEF Next, Step

\* Whatever the scope does, whatever fails, is throttled or cannot be read: a covered
\* day of a subscription is missing only if a run that never ended deleted the
\* subscription, a rebuild did not reach it, or a flush broke
THEOREM GapsHold == Spec => []GapsAreKnown
<1>1. Init => TypeOK /\ PlanInv /\ CoverageInv
  BY TypeInit, PlanInvInit, CoverageInit
<1>2. TypeOK /\ PlanInv /\ CoverageInv /\ [Next]_vars => TypeOK' /\ PlanInv' /\ CoverageInv'
  BY TypeNext, PlanInvNext, CoverageNext
<1>3. CoverageInv => GapsAreKnown
  BY DEF CoverageInv
<1> QED BY <1>1, <1>2, <1>3, PTL DEF Spec

-----------------------------------------------------------------------------
(* A scope that only grows *)

\* The configuration gives up no subscription
Grows == \A p \in Changes : Members(p[1].subs) \subseteq Members(p[2].subs)

\* Nobody is deleted, so nobody is lost
GrowInv ==
  /\ lost = {} /\ run.pc # "delete"
  /\ state # NoState /\ state.projected => Members(state.subs) \subseteq Members(config.subs)
  /\ At("load") => Members(run.new.subs) \subseteq Members(config.subs)

\* A dataset with a projection whose flushes are whole
WholeInv ==
  short = {} /\ (state # NoState => state.projected)

LEMMA GrowInit == Init => GrowInv
<1> SUFFICES ASSUME Init PROVE GrowInv
  OBVIOUS
<1>1. run.pc = "idle" /\ lost = {}
  BY DEF Init, NoRun
<1>2. state # NoState => ~state.projected
  <2>1. \A s : [Record(s, 1, History) EXCEPT !.projected = FALSE].projected = FALSE
    BY DEF Record
  <2> QED BY <2>1 DEF Init
<1> QED BY <1>1, <1>2 DEF GrowInv, At

LEMMA GrowResolve ==
  ASSUME TypeOK, GrowInv, Resolve
  PROVE  GrowInv'
<1>0. config \in Scope /\ (state # NoState => state \in Records)
  BY UsageAssumption DEF TypeOK
<1>1. PICK old \in StateRead :
        \/ InitialFull(old) \/ Refuse(old) \/ ProjectionRebuild(old)
        \/ RefreshAll(old) \/ Reconcile(old)
  BY DEF Resolve
<1>2. ASSUME NEW units, NEW from, NEW to, Plan({}, units, Record(config, from, to))
      PROVE  GrowInv'
  <2>1. /\ UNCHANGED <<config, state, lost>> /\ run'.pc = "load"
        /\ run'.new = Record(config, from, to)
    BY <1>2 DEF Plan, NoRun
  <2> QED BY <2>1, RecordFields DEF GrowInv, At, Members
<1>3. CASE InitialFull(old)
  BY <1>2, <1>3 DEF InitialFull
<1>4. CASE Refuse(old)
  BY <1>4 DEF Refuse, GrowInv, At, Members
<1>5. CASE ProjectionRebuild(old)
  BY <1>2, <1>5 DEF ProjectionRebuild
<1>6. CASE RefreshAll(old)
  BY <1>2, <1>6 DEF RefreshAll
<1>7. CASE Reconcile(old)
  <2>1. old = state /\ old # NoState /\ old.projected /\ old.subs # Whole /\ config.subs # Whole
    BY <1>1, <1>7 DEF Reconcile, Conflict, StateRead
  <2>2. Removed(old) = {}
    BY <2>1 DEF GrowInv, Members, Removed
  <2>3. \E units : Plan(Removed(old), units, Record(config, old.from, NewEnd(old)))
    BY <1>7 DEF Reconcile
  <2> QED BY <1>2, <2>2, <2>3
<1> QED BY <1>1, <1>3, <1>4, <1>5, <1>6, <1>7

LEMMA GrowNext ==
  ASSUME Grows, TypeOK, GrowInv, [Next]_vars
  PROVE  GrowInv'
<1>0. run \in Run
  BY DEF TypeOK
<1>1. CASE Resolve
  BY <1>1, GrowResolve
<1>2. CASE DeleteSubscriptions \/ DeleteFails
  BY <1>2 DEF DeleteSubscriptions, DeleteFails, At, GrowInv
<1>3. ASSUME At("load"), UNCHANGED <<config, state, lost>>, run'.pc = "load", run'.new = run.new
      PROVE  GrowInv'
  BY <1>3 DEF GrowInv, At, Members
<1>4. ASSUME NEW u \in run.units, NextUnit(u) PROVE GrowInv'
  <2>1. At("load") /\ UNCHANGED <<config, state, lost>> /\ run'.pc = "load" /\ run'.new = run.new
    BY <1>0, <1>4 DEF NextUnit, At, Run
  <2> QED BY <1>3, <2>1
<1>5. ASSUME NEW d \in run.pages, FetchPage(d) PROVE GrowInv'
  <2>1. At("load") /\ UNCHANGED <<config, state, lost>> /\ run' = Advance(d)
    BY <1>5 DEF FetchPage, PageOf
  <2> QED BY <1>0, <1>3, <2>1, LoadFields DEF At
<1>6. CASE Throttled
  <2>1. At("load") /\ UNCHANGED <<config, state, lost>>
          /\ (UnitFails \/ run' = [run EXCEPT !.throttles = @ + 1])
    BY <1>6 DEF Throttled
  <2>2. run'.pc = run.pc /\ run'.new = run.new
    BY <1>0, <2>1, LoadFields DEF Run
  <2> QED BY <1>3, <2>1, <2>2 DEF At
<1>7. ASSUME NEW d \in run.pages, PageFails(d) PROVE GrowInv'
  <2>1. At("load") /\ UNCHANGED <<config, state, lost>> /\ UnitFails
    BY <1>7 DEF PageFails, PageOf
  <2> QED BY <1>0, <1>3, <2>1, LoadFields DEF At
<1>8. CASE WriteState
  <2>1. /\ At("load") /\ state' = run.new /\ run'.pc = "idle" /\ UNCHANGED config
        /\ lost' = lost \cap Members(run.new.subs)
    BY <1>8 DEF WriteState, Complete, Loaded, NoRun
  <2> QED BY <2>1 DEF GrowInv, At, Members
<1>9. CASE Incomplete \/ WriteStateFails \/ ResolveFails
  <2>1. UNCHANGED <<config, state, lost>> /\ run'.pc = "idle"
    BY <1>9 DEF Incomplete, WriteStateFails, ResolveFails, RunFails, NoRun
  <2> QED BY <2>1 DEF GrowInv, At, Members
<1>10. CASE FlushEnsure
  <2>1. run'.pc \in {"idle", "ensure"} /\ UNCHANGED <<config, state, lost>>
    BY <1>0, <1>10 DEF FlushEnsure, NoRun, At, Run
  <2> QED BY <2>1 DEF GrowInv, At, Members
<1>11. CASE FlushDelete \/ FlushDeleteFails
  <2>1. /\ run'.pc \in {"idle", "ensure"} /\ UNCHANGED config
        /\ state' = NoState \/ state' = state
        /\ lost' = {} \/ lost' = lost
    BY <1>11 DEF FlushDelete, FlushDeleteFails, Dropped, NoRun, At
  <2> QED BY <2>1 DEF GrowInv, At, Members
<1>12. CASE NextDay \/ UNCHANGED vars
  <2>1. UNCHANGED <<config, state, run, lost>>
    BY <1>12 DEF NextDay, vars
  <2> QED BY <2>1 DEF GrowInv, At, Members
<1>13. CASE ChangeScope
  <2>1. Members(config.subs) \subseteq Members(config'.subs)
    BY <1>13 DEF ChangeScope, Grows
  <2>2. UNCHANGED <<state, run, lost>>
    BY <1>13 DEF ChangeScope
  <2> QED BY <2>1, <2>2 DEF GrowInv, At, Members
<1> QED
  BY <1>1, <1>2, <1>4, <1>5, <1>6, <1>7, <1>8, <1>9, <1>10, <1>11, <1>12, <1>13
     DEF Next, Step

\* With whole flushes and a current projection, nothing is short of its coverage
LEMMA WholeNext ==
  ASSUME ~FlushBreaks, TypeOK, PlanInv, WholeInv, [Next]_vars
  PROVE  WholeInv'
<1>1. CASE WriteState
  <2>1. /\ run.pc = "load" /\ state' = run.new
        /\ short' = (short \cap Members(run.new.subs)) \cup Skipped(run.new)
    BY <1>1 DEF WriteState, Complete, Loaded, At
  <2>2. Skipped(run.new) = {}
    BY DEF WholeInv, Skipped
  <2> QED BY <2>1, <2>2 DEF WholeInv, PlanInv
<1>2. CASE FlushDelete
  BY <1>2 DEF FlushDelete, Dropped, WholeInv
<1>3. CASE FlushDeleteFails
  BY <1>3 DEF FlushDeleteFails
<1>4. CASE ~(WriteState \/ FlushDelete \/ FlushDeleteFails)
  <2>1. UNCHANGED <<state, short>>
    BY <1>4, OtherStepsKeepState
  <2> QED BY <2>1 DEF WholeInv
<1> QED BY <1>1, <1>2, <1>3, <1>4

\* The state record tells the truth as long as the scope gives up no subscription,
\* a flush drops all its tables, and the dataset is not older than the projection,
\* whatever fails or is throttled: the three assumptions are the three ways the code
\* has to break it
THEOREM CoverageHolds ==
  ASSUME Grows, ~FlushBreaks, ~Upgrade
  PROVE  Spec => []AllStored
<1>1. Init => WholeInv
  BY DEF Init, WholeInv
<1>2. TypeOK /\ PlanInv /\ CoverageInv /\ GrowInv /\ WholeInv /\ [Next]_vars =>
        TypeOK' /\ PlanInv' /\ CoverageInv' /\ GrowInv' /\ WholeInv'
  BY TypeNext, PlanInvNext, CoverageNext, GrowNext, WholeNext
<1>3. CoverageInv /\ GrowInv /\ WholeInv => AllStored
  BY DEF CoverageInv, GapsAreKnown, GrowInv, WholeInv, AllStored
<1> QED BY TypeInit, PlanInvInit, CoverageInit, GrowInit, <1>1, <1>2, <1>3, PTL DEF Spec

-----------------------------------------------------------------------------
(* What a plan asks for *)

\* The units of a load ask for every day of it, for every subscription, and a
\* subscription is in one of them
LEMMA WorkUnitsAsk ==
  ASSUME NEW subs, config \in Scopes, subs \in SUBSET Subs \/ subs = config.subs,
         NEW from \in Int, NEW to \in Int
  PROVE  /\ Asked(WorkUnits(subs, from, to)) = Members(subs) \X (from .. to)
         /\ \A u, v \in WorkUnits(subs, from, to) : u.subs \cap v.subs # {} => u = v
<1> DEFINE units == WorkUnits(subs, from, to)
<1>1. config.base = "per-sub" => Members(subs) = subs
  BY UsageAssumption DEF Members
<1>2. CASE from > to
  <2>1. units = {} /\ from .. to = {}
    BY <1>2 DEF WorkUnits
  <2> QED BY <2>1 DEF Asked
<1>3. CASE ~(from > to) /\ config.base = "per-sub"
  <2>1. units = {[subs |-> {x}, from |-> from, to |-> to] : x \in subs}
    BY <1>3 DEF WorkUnits
  <2> HIDE DEF units
  <2>2. Asked(units) = subs \X (from .. to)
    <3>1. ASSUME NEW r \in subs \X (from .. to) PROVE r \in Asked(units)
      <4>1. PICK x \in subs, d \in from .. to : r = <<x, d>>
        BY <3>1
      <4>2. [subs |-> {x}, from |-> from, to |-> to] \in units
        BY <2>1
      <4>3. r \in {x} \X (from .. to)
        BY <4>1
      <4> QED BY <4>2, <4>3 DEF Asked
    <3>2. ASSUME NEW r \in Asked(units) PROVE r \in subs \X (from .. to)
      <4>1. PICK u \in units : r \in u.subs \X (u.from .. u.to)
        BY <3>2 DEF Asked
      <4>2. PICK x \in subs : u = [subs |-> {x}, from |-> from, to |-> to]
        BY <2>1
      <4>3. r \in {x} \X (from .. to)
        BY <4>1, <4>2
      <4> QED BY <4>3
    <3> QED BY <3>1, <3>2
  <2>3. ASSUME NEW u \in units, NEW v \in units, u.subs \cap v.subs # {} PROVE u = v
    <3>1. PICK x, y \in subs : /\ u = [subs |-> {x}, from |-> from, to |-> to]
                               /\ v = [subs |-> {y}, from |-> from, to |-> to]
      BY <2>1
    <3>2. x = y
      BY <2>3, <3>1
    <3> QED BY <3>1, <3>2
  <2> QED BY <1>1, <1>3, <2>2, <2>3 DEF units
<1>4. CASE ~(from > to) /\ config.base # "per-sub"
  <2>1. units = {[subs |-> Members(subs), from |-> from, to |-> to]}
    BY <1>4 DEF WorkUnits
  <2> HIDE DEF units
  <2>2. Asked(units) = Members(subs) \X (from .. to)
    BY <2>1 DEF Asked
  <2> QED BY <2>1, <2>2 DEF units
<1> QED BY <1>2, <1>3, <1>4

\* What a plan is to ask for, over the record as it was read
Exact(units, old, new) ==
  /\ Asked(units) = Covered(new) \ Covered(old)
  /\ \A u, v \in units : u.subs \cap v.subs # {} => u = v

LEMMA RecordCovers ==
  ASSUME config \in Scopes, NEW from \in Days, NEW to \in Days
  PROVE  Covered(Record(config, from, to)) = Members(config.subs) \X (from .. to)
BY RecordType, RecordFields DEF Covered

LEMMA PlansAsk ==
  ASSUME TypeOK, NEW old, old # NoState => old \in Records /\ old.from <= old.to /\ old.to <= day,
         InitialFull(old) \/ RefreshAll(old) \/ Reconcile(old)
  PROVE  \E remove, units, new : Plan(remove, units, new) /\ Exact(units, old, new)
<1>0. config \in Scopes /\ config \in Scope /\ day \in Days /\ HistoricalStart \in Days
        /\ Days \subseteq Int
  BY UsageAssumption DEF TypeOK, Days, HistoricalStart
<1>1. CASE InitialFull(old)
  <2> DEFINE units == WorkUnits(config.subs, HistoricalStart, day)
             new == Record(config, HistoricalStart, day)
  <2>1. old = NoState /\ Plan({}, units, new)
    BY <1>1 DEF InitialFull
  <2>2. /\ Asked(units) = Members(config.subs) \X (HistoricalStart .. day)
        /\ \A u, v \in units : u.subs \cap v.subs # {} => u = v
    BY <1>0, WorkUnitsAsk
  <2>3. Covered(new) = Members(config.subs) \X (HistoricalStart .. day)
    BY <1>0, RecordCovers
  <2>4. Covered(old) = {}
    BY <2>1 DEF Covered
  <2> HIDE DEF units, new
  <2> QED BY <2>1, <2>2, <2>3, <2>4 DEF Exact
<1>2. ASSUME old # NoState
      PROVE  /\ old.from \in Int /\ old.to \in Int /\ day \in Int
             /\ old.from <= old.to /\ old.to <= day /\ NewEnd(old) = day
             /\ Covered(old) = Members(old.subs) \X (old.from .. old.to)
             /\ Covered(Record(config, old.from, day)) = Members(config.subs) \X (old.from .. day)
  <2>1. old.from \in Days /\ old.to \in Days
    BY <1>2 DEF Records
  <2>2. /\ old.from \in Int /\ old.to \in Int /\ day \in Int
        /\ old.from <= old.to /\ old.to <= day
    BY <1>0, <1>2, <2>1
  <2>3. NewEnd(old) = day
    BY <2>2 DEF NewEnd, Larger
  <2>4. Covered(old) = Members(old.subs) \X (old.from .. old.to)
    BY <1>2 DEF Covered
  <2>5. Covered(Record(config, old.from, day)) = Members(config.subs) \X (old.from .. day)
    BY <1>0, <2>1, RecordCovers
  <2> QED BY <2>2, <2>3, <2>4, <2>5
<1>3. CASE RefreshAll(old)
  <2> DEFINE units == WorkUnits(Whole, old.to + 1, day)
  <2>1. old # NoState /\ old.subs = Whole /\ config.subs = Whole
    BY <1>3 DEF RefreshAll, Conflict
  <2>2. Plan({}, units, Record(config, old.from, day))
    BY <1>2, <1>3, <2>1 DEF RefreshAll
  <2>0. old.to \in Int
    BY <1>2, <2>1
  <2>3. old.to + 1 \in Int
    BY <2>0
  <2>4. /\ Asked(units) = Members(Whole) \X (old.to + 1 .. day)
        /\ \A u, v \in units : u.subs \cap v.subs # {} => u = v
    BY <1>0, <2>1, <2>3, WorkUnitsAsk
  <2>5. Members(Whole) \X (old.to + 1 .. day) =
          (Members(Whole) \X (old.from .. day)) \ (Members(Whole) \X (old.from .. old.to))
    <3>0. /\ old.from \in Int /\ old.to \in Int /\ day \in Int /\ old.from <= old.to
          /\ old.to <= day
      BY <1>2, <2>1
    <3>2. old.to + 1 .. day = (old.from .. day) \ (old.from .. old.to)
      BY <3>0
    <3> QED BY <3>2
  <2> HIDE DEF units
  <2> QED BY <1>2, <2>1, <2>2, <2>4, <2>5 DEF Exact
<1>4. CASE Reconcile(old)
  <2> DEFINE added == config.subs \ old.subs
             kept == config.subs \cap old.subs
             fresh == IF added = {} THEN {} ELSE WorkUnits(added, old.from, day)
             gap == IF kept = {} THEN {} ELSE WorkUnits(kept, GapStart(old), day)
  <2>1. old # NoState /\ old.subs # Whole /\ config.subs # Whole
    BY <1>4 DEF Reconcile, Conflict
  <2>2. /\ old.from \in Int /\ old.to \in Int /\ day \in Int /\ old.from <= old.to
        /\ old.to <= day /\ GapStart(old) = old.to + 1
    BY <1>0, <1>2, <2>1 DEF GapStart
  <2>3. config.subs \subseteq Subs /\ \A y \in SUBSET Subs : Members(y) = y
    BY <1>0, <2>1, UsageAssumption DEF Scope, SubSets, Members
  <2>4. Members(config.subs) = added \cup kept /\ Members(old.subs) \cap (added \cup kept) = kept
          /\ added \cap kept = {} /\ added \in SUBSET Subs /\ kept \in SUBSET Subs
    BY <2>1, <2>3 DEF Members
  <2>5. /\ Asked(fresh) = added \X (old.from .. day)
        /\ \A u, v \in fresh : u.subs \cap v.subs # {} => u = v
    <3>1. CASE added = {}
      <4>1. fresh = {}
        BY <3>1
      <4> HIDE DEF fresh
      <4> QED BY <3>1, <4>1 DEF Asked
    <3>2. CASE added # {}
      <4>1. fresh = WorkUnits(added, old.from, day) /\ Members(added) = added
        BY <2>3, <2>4, <3>2
      <4> HIDE DEF fresh, added
      <4> QED BY <1>0, <2>2, <2>4, <4>1, WorkUnitsAsk
    <3> QED BY <3>1, <3>2
  <2>6. /\ Asked(gap) = kept \X (old.to + 1 .. day)
        /\ \A u, v \in gap : u.subs \cap v.subs # {} => u = v
    <3>1. CASE kept = {}
      <4>1. gap = {}
        BY <3>1
      <4> HIDE DEF gap
      <4> QED BY <3>1, <4>1 DEF Asked
    <3>2. CASE kept # {}
      <4>1. gap = WorkUnits(kept, old.to + 1, day) /\ Members(kept) = kept
        BY <2>2, <2>3, <2>4, <3>2
      <4>2. old.to + 1 \in Int
        BY <2>2
      <4> HIDE DEF gap, kept
      <4> QED BY <1>0, <2>2, <2>4, <4>1, <4>2, WorkUnitsAsk
    <3> QED BY <3>1, <3>2
  <2>7. Plan(Removed(old), fresh \cup gap, Record(config, old.from, day))
    BY <1>2, <1>4, <2>1 DEF Reconcile
  <2>8. (\A u \in fresh : u.subs \subseteq added) /\ (\A u \in gap : u.subs \subseteq kept)
    <3>1. \A u \in fresh : u.subs \subseteq Members(added)
      BY <1>0, <2>4, WorkUnitsWithin
    <3>2. \A u \in gap : u.subs \subseteq Members(kept)
      BY <1>0, <2>4, WorkUnitsWithin
    <3> HIDE DEF fresh, gap
    <3> QED BY <2>3, <2>4, <3>1, <3>2
  <2> HIDE DEF fresh, gap, added, kept
  <2>9. ASSUME NEW u \in fresh \cup gap, NEW v \in fresh \cup gap, u.subs \cap v.subs # {}
        PROVE  u = v
    BY <2>4, <2>5, <2>6, <2>8, <2>9
  <2>10. Asked(fresh \cup gap) = (added \X (old.from .. day)) \cup (kept \X (old.to + 1 .. day))
    <3>1. Asked(fresh \cup gap) = Asked(fresh) \cup Asked(gap)
      BY DEF Asked
    <3> QED BY <2>5, <2>6, <3>1
  <2>11. old.to + 1 .. day = (old.from .. day) \ (old.from .. old.to)
    BY <2>2
  <2>12. Asked(fresh \cup gap) =
           (Members(config.subs) \X (old.from .. day)) \ (Members(old.subs) \X (old.from .. old.to))
    <3> DEFINE all == old.from .. day
               had == old.from .. old.to
    <3>1. Asked(fresh \cup gap) = (added \X all) \cup (kept \X (all \ had))
      BY <2>10, <2>11
    <3> HIDE DEF all, had
    <3>2. ((added \cup kept) \X all) \ (Members(old.subs) \X had) =
            (added \X all) \cup (kept \X (all \ had))
      BY <2>4
    <3> QED BY <2>4, <3>1, <3>2 DEF all, had
  <2> QED BY <1>2, <2>1, <2>7, <2>9, <2>12 DEF Exact
<1> QED BY <1>1, <1>3, <1>4

\* Only resolving starts a run
LEMMA RunStarts ==
  ASSUME TypeOK, At("idle"), [Next]_vars, run'.pc \in {"delete", "load"}
  PROVE  Resolve
<1>0. run.pages = {} \/ run.pages # {}
  OBVIOUS
<1>1. ~DeleteSubscriptions /\ ~DeleteFails /\ ~WriteState /\ ~WriteStateFails /\ ~Incomplete
        /\ ~Throttled /\ ~FlushEnsure
  BY DEF At, DeleteSubscriptions, DeleteFails, WriteState, Complete, WriteStateFails, Loaded,
       Incomplete, Throttled, FlushEnsure
<1>2. ~(\E u \in run.units : NextUnit(u)) /\ ~(\E d \in run.pages : FetchPage(d) \/ PageFails(d))
  BY DEF At, NextUnit, FetchPage, PageFails, PageOf
<1>3. ~ResolveFails
  BY DEF ResolveFails, RunFails, NoRun
<1>4. ~FlushDelete /\ ~FlushDeleteFails
  BY DEF At, FlushDelete, FlushDeleteFails, NoRun
<1>5. ~NextDay /\ ~ChangeScope /\ ~UNCHANGED vars
  BY DEF At, NextDay, ChangeScope, vars
<1> QED BY <1>1, <1>2, <1>3, <1>4, <1>5 DEF Next, Step

\* While the record can be read and the projection is current, a run asks for what its
\* record will claim and the old one does not, and for no subscription twice: the
\* record is never of a range that ends before it starts, and never ahead of the day
THEOREM PlansAreExact ==
  ASSUME ~ReadFails
  PROVE  Spec => PlansExact
<1>1. ASSUME TypeOK, PlanInv, [Next]_vars
      PROVE  [At("idle") /\ run'.pc \in {"delete", "load"} /\ (state = NoState \/ state.projected) =>
                /\ Asked(run'.units) = Covered(run'.new) \ Covered(state)
                /\ \A u, v \in run'.units : u.subs \cap v.subs # {} => u = v]_vars
  <2> SUFFICES ASSUME At("idle"), run'.pc \in {"delete", "load"},
                      state = NoState \/ state.projected
               PROVE  Exact(run'.units, state, run'.new)
    BY DEF Exact
  <2>1. Resolve
    BY <1>1, RunStarts
  <2>2. ~Refuse(state) /\ ~ProjectionRebuild(state)
    BY DEF Refuse, ProjectionRebuild, At
  <2>3. InitialFull(state) \/ RefreshAll(state) \/ Reconcile(state)
    BY <2>1, <2>2 DEF Resolve, StateRead
  <2>4. state # NoState => state \in Records /\ state.from <= state.to /\ state.to <= day
    BY <1>1 DEF TypeOK, PlanInv
  <2>5. PICK remove, units, new : Plan(remove, units, new) /\ Exact(units, state, new)
    BY <1>1, <2>3, <2>4, PlansAsk
  <2>6. run'.units = units /\ run'.new = new
    BY <2>5, PlanMakes
  <2> QED BY <2>5, <2>6
<1>2. TypeOK /\ PlanInv /\ [Next]_vars => TypeOK' /\ PlanInv'
  BY TypeNext, PlanInvNext
<1> QED BY TypeInit, PlanInvInit, <1>1, <1>2, PTL DEF Spec, PlansExact

-----------------------------------------------------------------------------
(* The view *)

\* Division with remainder
LEMMA Remainder ==
  ASSUME NEW c \in Int, NEW n \in Nat, n > 0, NEW r \in Int, r = c % n
  PROVE  \E q \in Int : c = q * n + r
<1>1. c % n = c - (c \div n) * n /\ c \div n \in Int
  OBVIOUS
<1>2. PICK q \in Int : r = c - q * n
  BY <1>1
<1>3. q * n \in Int
  OBVIOUS
<1> QED BY <1>2, <1>3

\* Different multiples of a number are at least that number apart
LEMMA MultiplesApart ==
  ASSUME NEW i \in Int, NEW j \in Int, NEW n \in Nat, i < j
  PROVE  i * n \in Int /\ j * n \in Int /\ j * n - i * n >= n
<1>1. PICK m \in Nat : j = i + 1 + m
  <2>1. j - i - 1 \in Nat /\ j = i + 1 + (j - i - 1)
    OBVIOUS
  <2> QED BY <2>1
<1>2. j * n = i * n + n + m * n /\ m * n >= 0
  BY <1>1
<1>3. i * n \in Int /\ j * n \in Int /\ m * n \in Int
  OBVIOUS
<1> QED BY <1>2, <1>3

\* Two days that share a slot are the same if they are less than its period apart
LEMMA SlotsApart ==
  ASSUME NEW c \in Int, NEW d \in Int, Slot(c) = Slot(d),
         c - d < SummaryDays, d - c < SummaryDays
  PROVE  c = d
<1>1. SummaryDays \in Nat /\ SummaryDays > 0
  BY Bounds
<1>2. PICK r \in Int : r = c % SummaryDays /\ r = d % SummaryDays
  BY <1>1 DEF Slot
<1>3. PICK i \in Int : c = i * SummaryDays + r
  BY <1>1, <1>2, Remainder
<1>4. PICK j \in Int : d = j * SummaryDays + r
  BY <1>1, <1>2, Remainder
<1>5. CASE i < j
  BY <1>1, <1>3, <1>4, <1>5, MultiplesApart
<1>6. CASE j < i
  BY <1>1, <1>3, <1>4, <1>6, MultiplesApart
<1>7. CASE i = j
  BY <1>3, <1>4, <1>7
<1> QED BY <1>5, <1>6, <1>7

Seen(x, d, s) == ring[x][s][Slot(d)] = d

\* What a run without a failure is about to claim of the newest days is in the
\* projection or still to be fetched, but for those a run deleted that did not end
ViewInv ==
  /\ BlanksAreKnown
  /\ run.pc \in {"delete", "load"} /\ run.bad = 0 =>
       \A x \in Members(run.new.subs) \ lost, d \in run.new.from .. run.new.to, s \in Streams :
         d > day - SummaryDays => Seen(x, d, s) \/ ToFetch(x, d, s)

\* A page of any day leaves the newest days in the projection
LEMMA SummarisedKeeps ==
  ASSUME TypeOK, NEW subs, NEW c \in Days, ring' = Summarised(subs, c),
         NEW x \in Subs, NEW d \in Days, NEW s \in Streams,
         d > day - SummaryDays, d <= day, Seen(x, d, s)
  PROVE  Seen(x, d, s)'
<1>0. /\ ring \in [Subs -> [Streams -> [Slots -> 0 .. MaxDay]]] /\ day \in Int
      /\ c \in Int /\ d \in Int /\ SummaryDays \in Int
  BY Bounds DEF TypeOK, Days
<1>1. CASE ~(x \in subs /\ InWindow(c) /\ s = run.stream)
  BY <1>0, <1>1 DEF Summarised, Seen
<1>2. CASE x \in subs /\ InWindow(c) /\ s = run.stream
  <2>1. ring'[x] = [ring[x] EXCEPT ![s][Slot(c)] = c]
    BY <1>2 DEF Summarised
  <2>2. CASE Slot(c) = Slot(d)
    <3>1. c = d
      BY <1>0, <1>2, <2>2, SlotsApart DEF InWindow
    <3> QED BY <1>0, <2>1, <2>2, <3>1 DEF Seen
  <2>3. CASE Slot(c) # Slot(d)
    BY <1>0, <2>1, <2>3 DEF Seen
  <2> QED BY <2>2, <2>3
<1> QED BY <1>1, <1>2

\* A fetched page of the newest days is in the projection
LEMMA SummarisedShows ==
  ASSUME TypeOK, NEW subs, NEW d \in Days, ring' = Summarised(subs, d),
         NEW x \in Subs, x \in subs, NEW s \in Streams, s = run.stream,
         d > day - SummaryDays, d <= day
  PROVE  Seen(x, d, s)'
<1>1. ring \in [Subs -> [Streams -> [Slots -> 0 .. MaxDay]]]
  BY DEF TypeOK
<1>2. Slot(d) \in Slots
  BY Bounds DEF Slot, Slots, Days
<1> QED BY <1>1, <1>2 DEF Summarised, InWindow, Seen

\* What the record claims is of the calendar
LEMMA Claimed ==
  ASSUME NEW r \in Records, NEW x \in Members(r.subs), NEW d \in r.from .. r.to
  PROVE  x \in Subs /\ d \in Days /\ d <= r.to
BY Bounds DEF Records, SubSets, Members, Days

\* A step that leaves the newest days of the projection as they are keeps the view
LEMMA RecordKept ==
  ASSUME TypeOK, PlanInv, ViewInv, UNCHANGED <<day, state>>, lost \subseteq lost',
         \A x \in Subs \ lost', d \in Days, s \in Streams :
           d > day - SummaryDays /\ d <= day /\ Seen(x, d, s) => Seen(x, d, s)'
  PROVE  BlanksAreKnown'
<1>1. ASSUME state # NoState, state.projected,
             NEW x \in Members(state.subs) \ lost', NEW d \in state.from .. state.to,
             d > day - SummaryDays, NEW s \in Streams
      PROVE  Seen(x, d, s)'
  <2>1. state \in Records /\ state.to <= day /\ state.to \in Int /\ day \in Int
    BY <1>1, Bounds DEF TypeOK, PlanInv, Records, Days
  <2>2. x \in Subs /\ d \in Days /\ d <= day
    BY <1>1, <2>1, Claimed, Bounds DEF Days
  <2>3. x \notin lost /\ x \notin lost'
    BY <1>1
  <2>4. Seen(x, d, s)
    BY <1>1, <2>3 DEF ViewInv, BlanksAreKnown, Shown, Seen
  <2> QED BY <1>1, <2>2, <2>3, <2>4
<1>2. SummaryDays' = SummaryDays /\ \A d : Slot(d)' = Slot(d)
  BY DEF Slot
<1> QED BY <1>1, <1>2 DEF BlanksAreKnown, Shown, Seen, Members

\* A step of the run that keeps what is shown or to be fetched
LEMMA LoadViews ==
  ASSUME TypeOK, PlanInv, ViewInv, run.pc \in {"delete", "load"}, UNCHANGED <<day, state>>,
         run'.new = run.new, lost \subseteq lost',
         \A x \in Subs \ lost', d \in Days, s \in Streams :
           d > day - SummaryDays /\ d <= day /\ Seen(x, d, s) => Seen(x, d, s)',
         run'.bad = 0 =>
           /\ run.bad = 0
           /\ \A x \in Subs, d \in Days, s \in Streams :
                d > day - SummaryDays /\ d <= day /\ ToFetch(x, d, s) =>
                  Seen(x, d, s)' \/ ToFetch(x, d, s)'
  PROVE  ViewInv'
<1>1. BlanksAreKnown'
  BY RecordKept
<1>2. ASSUME run'.bad = 0, NEW x \in Members(run.new.subs) \ lost',
             NEW d \in run.new.from .. run.new.to, NEW s \in Streams,
             d > day - SummaryDays
      PROVE  Seen(x, d, s)' \/ ToFetch(x, d, s)'
  <2>1. run.new \in Records /\ run.new.to <= day /\ run.new.to \in Int /\ day \in Int
    BY Bounds DEF TypeOK, Run, PlanInv, Records, Days
  <2>2. x \in Subs /\ d \in Days /\ d <= day
    BY <1>2, <2>1, Claimed, Bounds DEF Days
  <2>3. x \notin lost /\ x \notin lost'
    BY <1>2
  <2>4. Seen(x, d, s) \/ ToFetch(x, d, s)
    BY <1>2, <2>3 DEF ViewInv
  <2>5. CASE Seen(x, d, s)
    BY <1>2, <2>2, <2>3, <2>5
  <2>6. CASE ToFetch(x, d, s)
    BY <1>2, <2>2, <2>6
  <2> QED BY <2>4, <2>5, <2>6
<1>3. (day - SummaryDays)' = day - SummaryDays
  OBVIOUS
<1> QED BY <1>1, <1>2, <1>3 DEF ViewInv, Members

\* A plan preserves ViewInv if what it will claim is in the projection or in its units
LEMMA PlanViews ==
  ASSUME TypeOK, PlanInv, ViewInv, NEW remove, NEW units, NEW from, NEW to,
         Plan(remove, units, Record(config, from, to)),
         \A x \in Members(config.subs) \ lost, d \in from .. to, s \in Streams :
           d > day - SummaryDays =>
             \/ Seen(x, d, s)
             \/ \E u \in units : x \in u.subs /\ d \in u.from .. u.to
  PROVE  ViewInv'
<1> DEFINE new == Record(config, from, to)
<1>1. /\ UNCHANGED <<day, state, ring, lost>>
      /\ run'.units = units /\ run'.new = new
  BY PlanMakes
<1>2. new.subs = config.subs /\ new.from = from /\ new.to = to
  BY RecordFields
<1> HIDE DEF new
<1>3. \A x, d, s : Seen(x, d, s) => Seen(x, d, s)'
  BY <1>1 DEF Seen, Slot
<1>4. \A x, d, s :
        (\E u \in units : x \in u.subs /\ d \in u.from .. u.to) => ToFetch(x, d, s)'
  BY <1>1 DEF ToFetch
<1>5. BlanksAreKnown'
  BY <1>1, <1>3, RecordKept
<1>6. \A x \in Members(new.subs) \ lost, d \in new.from .. new.to, s \in Streams :
        d > day - SummaryDays => Seen(x, d, s)' \/ ToFetch(x, d, s)'
  BY <1>2, <1>3, <1>4
<1> QED BY <1>1, <1>5, <1>6 DEF ViewInv, Members

\* Every plan shows what it claims of the newest days
LEMMA ViewResolve ==
  ASSUME TypeOK, PlanInv, ViewInv, Resolve
  PROVE  ViewInv'
<1>0. config \in Scopes /\ day \in Int /\ (state # NoState => state \in Records)
  BY Bounds DEF TypeOK
<1>1. PICK old \in StateRead :
        \/ InitialFull(old) \/ Refuse(old) \/ ProjectionRebuild(old)
        \/ RefreshAll(old) \/ Reconcile(old)
  BY DEF Resolve
<1>2. ASSUME old # NoState
      PROVE  /\ old = state /\ old \in Records /\ old.to <= day
             /\ old.from \in Int /\ old.to \in Int
  <2>1. old = state /\ old \in Records /\ old.to <= day
    BY <1>0, <1>1, <1>2 DEF StateRead, PlanInv
  <2> QED BY <2>1, Bounds DEF Records, Days
<1>3. CASE InitialFull(old)
  <2>1. PICK from \in Int :
          /\ Plan({}, WorkUnits(config.subs, from, day), Record(config, from, day))
          /\ \A x \in Members(config.subs), d \in from .. day :
               \E u \in WorkUnits(config.subs, from, day) : x \in u.subs /\ d \in u.from .. u.to
    BY <1>0, <1>3, PlanRebuilds DEF InitialFull
  <2> QED BY <2>1, PlanViews
<1>4. CASE Refuse(old)
  <2>1. UNCHANGED <<day, state, ring, run, lost>>
    BY <1>4 DEF Refuse
  <2> QED BY <2>1 DEF ViewInv, BlanksAreKnown, Shown, Seen, Slot, ToFetch, Members
<1>5. CASE ProjectionRebuild(old)
  <2>1. old # NoState /\ SummaryDays \in Int
    BY <1>5, Bounds DEF ProjectionRebuild
  <2>2. PICK from \in Int :
          /\ from = Larger(old.from, day - SummaryDays + 1)
          /\ Plan({}, WorkUnits(config.subs, from, day), Record(config, old.from, day))
          /\ \A x \in Members(config.subs), d \in from .. day :
               \E u \in WorkUnits(config.subs, from, day) : x \in u.subs /\ d \in u.from .. u.to
    BY <1>0, <1>2, <1>5, <2>1, PlanRebuilds
  <2>3. ASSUME NEW x \in Members(config.subs), NEW d \in old.from .. day,
               d > day - SummaryDays
        PROVE  \E u \in WorkUnits(config.subs, from, day) :
                 x \in u.subs /\ d \in u.from .. u.to
    <3>1. d \in from .. day
      BY <1>0, <1>2, <2>1, <2>2, <2>3 DEF Larger
    <3> QED BY <2>2, <3>1
  <2> QED BY <2>2, <2>3, PlanViews
<1>6. CASE RefreshAll(old) \/ Reconcile(old)
  <2>1. old # NoState /\ old.projected
    BY <1>6 DEF RefreshAll, Reconcile
  <2>2. PICK remove, units :
          /\ Plan(remove, units, Record(config, old.from, day))
          /\ \A x \in Members(config.subs), d \in old.from .. day :
               \/ x \in Members(old.subs) /\ d \in old.from .. old.to
               \/ \E u \in units : x \in u.subs /\ d \in u.from .. u.to
    BY <1>0, <1>2, <1>6, <2>1, PlanReaches
  <2>3. ASSUME NEW x \in Members(config.subs) \ lost, NEW d \in old.from .. day,
               NEW s \in Streams, d > day - SummaryDays
        PROVE  \/ Seen(x, d, s)
               \/ \E u \in units : x \in u.subs /\ d \in u.from .. u.to
    <3>1. x \in Members(config.subs) /\ x \notin lost
      BY <2>3
    <3> QED BY <1>2, <2>1, <2>2, <2>3, <3>1 DEF ViewInv, BlanksAreKnown, Shown, Seen
  <2> QED BY <2>2, <2>3, PlanViews
<1> QED BY <1>1, <1>3, <1>4, <1>5, <1>6

\* A page of a unit shows its day or leaves it, and hides no other
LEMMA FetchViews ==
  ASSUME TypeOK, PlanInv, ViewInv, NEW day1 \in run.pages, FetchPage(day1)
  PROVE  ViewInv'
<1>0. run \in Run /\ day1 \in Days
  BY PageDays DEF TypeOK
<1>1. /\ At("load") /\ ring' = Summarised(run.unit.subs, day1) /\ run' = Advance(day1)
      /\ UNCHANGED <<day, state, lost>>
  BY DEF FetchPage, PageOf
<1>2. run'.new = run.new /\ run'.bad = run.bad
  BY <1>0, <1>1, LoadFields
<1>3. ASSUME NEW x \in Subs, NEW d \in Days, NEW s \in Streams,
             d > day - SummaryDays, d <= day, ToFetch(x, d, s)
      PROVE  Seen(x, d, s)' \/ ToFetch(x, d, s)'
  <2>1. CASE x \in run.unit.subs /\ d = day1 /\ s = run.stream
    BY <1>1, <1>3, <2>1, SummarisedShows
  <2>2. CASE ~(x \in run.unit.subs /\ d = day1 /\ s = run.stream)
    BY <1>3, <2>2, FetchLeaves
  <2> QED BY <2>1, <2>2
<1>4. \A x \in Subs, d \in Days, s \in Streams :
        d > day - SummaryDays /\ d <= day /\ Seen(x, d, s) => Seen(x, d, s)'
  BY <1>0, <1>1, SummarisedKeeps
<1> QED BY <1>1, <1>2, <1>3, <1>4, LoadViews DEF At

\* A unit that fails is counted, so the run no longer claims anything
LEMMA FailureViews ==
  ASSUME TypeOK, PlanInv, ViewInv, At("load"), UnitFails, UNCHANGED <<day, state, lost>>,
         ring' = ring \/ \E subs \in SUBSET Subs, c \in Days : ring' = Summarised(subs, c)
  PROVE  ViewInv'
<1>1. run'.new = run.new /\ run'.bad = run.bad + 1 /\ run.bad \in Nat
  BY LoadFields DEF TypeOK
<1>2. run'.bad # 0
  BY <1>1
<1>3. ASSUME NEW x \in Subs, NEW d \in Days, NEW s \in Streams,
             d > day - SummaryDays, d <= day, Seen(x, d, s)
      PROVE  Seen(x, d, s)'
  <2>1. CASE ring' = ring
    BY <1>3, <2>1 DEF Seen, Slot
  <2>2. CASE \E subs \in SUBSET Subs, c \in Days : ring' = Summarised(subs, c)
    BY <1>3, <2>2, SummarisedKeeps
  <2> QED BY <2>1, <2>2
<1> QED BY <1>1, <1>2, <1>3, LoadViews DEF At

\* The end of a run, or a step that is not a load, with projection and record kept
LEMMA KeepViews ==
  ASSUME TypeOK, PlanInv, ViewInv, UNCHANGED <<day, state, ring, lost>>,
         run'.pc \in {"idle", "ensure"}
  PROVE  ViewInv'
<1>1. \A x, d, s : Seen(x, d, s) => Seen(x, d, s)'
  BY DEF Seen, Slot
<1>2. BlanksAreKnown'
  BY <1>1, RecordKept
<1> QED BY <1>2 DEF ViewInv

\* Whoever is blanked is lost, or is not to be recorded
LEMMA BlankKeeps ==
  ASSUME TypeOK, NEW subs, ring' = Blank(subs), NEW x \in Subs \ subs, NEW d, NEW s,
         Seen(x, d, s)
  PROVE  Seen(x, d, s)'
<1>1. x \in Subs /\ x \notin subs
  OBVIOUS
<1>2. ring'[x] = ring[x]
  BY <1>1 DEF Blank
<1> QED BY <1>2 DEF Seen, Slot

LEMMA DeletionViews ==
  ASSUME TypeOK, PlanInv, ViewInv, DeleteSubscriptions \/ DeleteFails
  PROVE  ViewInv'
<1>1. CASE DeleteSubscriptions
  <2>1. /\ run.pc = "delete" /\ ring' = Blank(run.remove) /\ lost' = lost \cup run.remove
        /\ UNCHANGED <<day, state>> /\ run'.new = run.new /\ run'.bad = run.bad
        /\ run'.units = run.units /\ run'.unit = run.unit /\ run'.stream = run.stream
        /\ run'.pages = run.pages
    BY <1>1 DEF DeleteSubscriptions, At, TypeOK, Run
  <2>2. ASSUME NEW x \in Subs \ lost', NEW d \in Days, NEW s \in Streams, Seen(x, d, s)
        PROVE  Seen(x, d, s)'
    <3>1. x \in Subs \ run.remove
      BY <2>1, <2>2
    <3> QED BY <2>1, <2>2, <3>1, BlankKeeps
  <2>3. \A x, d, s : ToFetch(x, d, s) => ToFetch(x, d, s)'
    BY <2>1 DEF ToFetch
  <2> QED BY <2>1, <2>2, <2>3, LoadViews
<1>2. CASE DeleteFails
  <2>1. PICK gone \in SUBSET RemovedRows, blank \in SUBSET run.remove :
          ring' = Blank(blank) /\ lost' = lost \cup {r[1] : r \in gone} \cup blank
    BY <1>2 DEF DeleteFails
  <2>2. run'.pc = "idle" /\ UNCHANGED <<day, state>>
    BY <1>2 DEF DeleteFails, RunFails, NoRun
  <2>3. ASSUME NEW x \in Subs \ lost', NEW d \in Days, NEW s \in Streams, Seen(x, d, s)
        PROVE  Seen(x, d, s)'
    <3>1. x \in Subs \ blank
      BY <2>1, <2>3
    <3> QED BY <2>1, <2>3, <3>1, BlankKeeps
  <2>4. BlanksAreKnown'
    BY <2>1, <2>2, <2>3, RecordKept
  <2> QED BY <2>2, <2>4 DEF ViewInv
<1> QED BY <1>1, <1>2

LEMMA ViewInit == Init => ViewInv
<1> SUFFICES ASSUME Init PROVE ViewInv
  OBVIOUS
<1>1. run.pc = "idle"
  BY DEF Init, NoRun
<1>2. state = NoState \/ ~state.projected
  <2>1. \A s : [Record(s, 1, History) EXCEPT !.projected = FALSE].projected = FALSE
    BY DEF Record
  <2> QED BY <2>1 DEF Init
<1> QED BY <1>1, <1>2 DEF ViewInv, BlanksAreKnown

LEMMA ViewNext ==
  ASSUME TypeOK, PlanInv, ViewInv, [Next]_vars
  PROVE  ViewInv'
<1>0. /\ run \in Run /\ day \in Int
      /\ state # NoState => state \in Records
  BY Bounds DEF TypeOK
<1>1. CASE Resolve
  BY <1>1, ViewResolve
<1>2. CASE DeleteSubscriptions \/ DeleteFails
  BY <1>2, DeletionViews
<1>3. ASSUME NEW u \in run.units, NextUnit(u) PROVE ViewInv'
  <2>1. /\ At("load") /\ UNCHANGED <<day, state, ring, lost>>
        /\ run'.new = run.new /\ run'.bad = run.bad
    BY <1>0, <1>3 DEF NextUnit, Run
  <2>2. \A x, d, s : Seen(x, d, s) => Seen(x, d, s)'
    BY <2>1 DEF Seen, Slot
  <2>3. \A x \in Subs, d \in Days, s \in Streams : ToFetch(x, d, s) => ToFetch(x, d, s)'
    BY <1>3, UnitLeaves
  <2> QED BY <2>1, <2>2, <2>3, LoadViews DEF At
<1>4. ASSUME NEW d \in run.pages, FetchPage(d) PROVE ViewInv'
  BY <1>4, FetchViews
<1>5. CASE Throttled
  <2>0. At("load") /\ UNCHANGED <<day, state, ring, lost>>
    BY <1>5 DEF Throttled
  <2>1. CASE UnitFails
    BY <2>0, <2>1, FailureViews
  <2>2. CASE run' = [run EXCEPT !.throttles = @ + 1]
    <3>1. /\ run'.new = run.new /\ run'.bad = run.bad
          /\ run'.units = run.units /\ run'.unit = run.unit /\ run'.stream = run.stream
          /\ run'.pages = run.pages
      BY <1>0, <2>2 DEF Run
    <3>2. /\ \A x, d, s : ToFetch(x, d, s) => ToFetch(x, d, s)'
          /\ \A x, d, s : Seen(x, d, s) => Seen(x, d, s)'
      BY <2>0, <3>1 DEF ToFetch, Seen, Slot
    <3> QED BY <2>0, <3>1, <3>2, LoadViews DEF At
  <2> QED BY <1>5, <2>1, <2>2 DEF Throttled
<1>6. ASSUME NEW d \in run.pages, PageFails(d) PROVE ViewInv'
  <2>1. d \in Days /\ run.unit.subs \in SUBSET Subs
    BY PageDays
  <2>2. ring' = ring \/ \E subs \in SUBSET Subs, c \in Days : ring' = Summarised(subs, c)
    <3>1. ring' = ring \/ \E subs \in SUBSET run.unit.subs : ring' = Summarised(subs, d)
      BY <1>6 DEF PageFails
    <3> QED BY <2>1, <3>1
  <2> QED BY <1>6, <2>2, FailureViews DEF PageFails, PageOf
<1>7. CASE WriteState
  <2>1. /\ run.pc = "load" /\ run.unit = NoUnit /\ run.units = {} /\ run.bad = 0
        /\ state' = run.new /\ run'.pc = "idle" /\ UNCHANGED <<day, ring>>
        /\ lost' = lost \cap Members(run.new.subs)
    BY <1>7 DEF WriteState, Complete, Loaded, At, NoRun
  <2>2. \A x, d, s : ~ToFetch(x, d, s)
    BY <2>1 DEF ToFetch, NoUnit
  <2>3. ASSUME NEW x \in Members(run.new.subs) \ lost', NEW d \in run.new.from .. run.new.to,
               NEW s \in Streams, d > day - SummaryDays
        PROVE  ring[x][s][Slot(d)] = d
    <3>1. x \in Members(run.new.subs) /\ x \notin lost
      BY <2>1, <2>3
    <3> QED BY <2>1, <2>2, <2>3, <3>1 DEF ViewInv, Seen
  <2>4. BlanksAreKnown'
    BY <2>1, <2>3 DEF BlanksAreKnown, Shown, Slot, Members
  <2> QED BY <2>1, <2>4 DEF ViewInv
<1>8. CASE Incomplete \/ WriteStateFails \/ ResolveFails
  <2>1. UNCHANGED <<day, state, ring, lost>> /\ run'.pc = "idle"
    BY <1>8 DEF Incomplete, WriteStateFails, ResolveFails, RunFails, NoRun
  <2> QED BY <2>1, KeepViews
<1>9. CASE FlushEnsure
  <2>1. run'.pc \in {"idle", "ensure"}
    BY <1>0, <1>9 DEF FlushEnsure, NoRun, At, Run
  <2> QED BY <1>9, <2>1, KeepViews DEF FlushEnsure
<1>10. CASE FlushDelete
  <2>1. state' = NoState /\ run'.pc = "ensure"
    BY <1>10 DEF FlushDelete, Dropped, NoRun
  <2> QED BY <2>1 DEF ViewInv, BlanksAreKnown
<1>11. CASE FlushDeleteFails
  <2>1. PICK k \in 1 .. 2 : Dropped(k) /\ run'.pc = "idle" /\ UNCHANGED day
    BY <1>11 DEF FlushDeleteFails, At
  <2>2. CASE k = 2
    <3>1. state' = NoState
      BY <2>1, <2>2 DEF Dropped
    <3> QED BY <2>1, <3>1 DEF ViewInv, BlanksAreKnown
  <2>3. CASE k = 1
    BY <2>1, <2>3, KeepViews DEF Dropped
  <2> QED BY <2>2, <2>3
<1>12. CASE NextDay
  <2>1. day' = day + 1 /\ UNCHANGED <<state, ring, run, lost>>
    BY <1>12 DEF NextDay
  <2>2. run.pc \in {"delete", "load"} => run.new \in Records
    BY DEF TypeOK, Run
  <2>3. ASSUME NEW r \in Records, NEW d \in r.from .. r.to, d > (day - SummaryDays)'
        PROVE  d > day - SummaryDays
    <3>1. d \in Int /\ SummaryDays \in Int
      BY Bounds DEF Records, Days
    <3> QED BY <1>0, <2>1, <2>3, <3>1
  <2>4. BlanksAreKnown'
    BY <1>0, <2>1, <2>3 DEF ViewInv, BlanksAreKnown, Shown, Slot, Members
  <2>5. run.pc \in {"delete", "load"} /\ run.bad = 0 =>
          \A x \in Members(run.new.subs) \ lost, d \in run.new.from .. run.new.to,
             s \in Streams :
            (d > day - SummaryDays)' => Seen(x, d, s) \/ ToFetch(x, d, s)
    BY <2>2, <2>3 DEF ViewInv
  <2>6. \A x, d, s : (Seen(x, d, s) \/ ToFetch(x, d, s)) => (Seen(x, d, s) \/ ToFetch(x, d, s))'
    BY <2>1 DEF Seen, Slot, ToFetch
  <2> QED BY <2>1, <2>4, <2>5, <2>6 DEF ViewInv, Members
<1>13. CASE ChangeScope \/ UNCHANGED vars
  <2>1. UNCHANGED <<day, state, ring, run, lost>>
    BY <1>13 DEF ChangeScope, vars
  <2> QED BY <2>1 DEF ViewInv, BlanksAreKnown, Shown, Slot, Seen, ToFetch, Members
<1> QED
  BY <1>1, <1>2, <1>3, <1>4, <1>5, <1>6, <1>7, <1>8, <1>9, <1>10, <1>11, <1>12,
     <1>13 DEF Next, Step

\* For any change of scope, any period of the slots, a flush that breaks and a
\* projection that is rebuilt: a covered day among the newest is missing from the
\* projection only for a subscription that a run deleted and did not end
THEOREM BlanksHold == Spec => []BlanksAreKnown
<1>1. TypeOK /\ PlanInv /\ ViewInv /\ [Next]_vars => TypeOK' /\ PlanInv' /\ ViewInv'
  BY TypeNext, PlanInvNext, ViewNext
<1>2. ViewInv => BlanksAreKnown
  BY DEF ViewInv
<1> QED BY TypeInit, PlanInvInit, ViewInit, <1>1, <1>2, PTL DEF Spec

\* The view holds every covered day that is among the newest, for any period of its
\* slots, though pages come in any order and days pass between them, as long as the
\* scope gives up no subscription: whoever is deleted is blank before the record
\* says so
THEOREM ViewsAreRecent ==
  ASSUME Grows
  PROVE  Spec => []ViewRecent
<1>1. TypeOK /\ PlanInv /\ ViewInv /\ GrowInv /\ [Next]_vars =>
        TypeOK' /\ PlanInv' /\ ViewInv' /\ GrowInv'
  BY TypeNext, PlanInvNext, ViewNext, GrowNext
<1>2. ViewInv /\ GrowInv => ViewRecent
  BY DEF ViewInv, BlanksAreKnown, GrowInv, ViewRecent
<1> QED BY TypeInit, PlanInvInit, ViewInit, GrowInit, <1>1, <1>2, PTL DEF Spec

===============================================================================
