--------------------------- MODULE DispatcherProofs ---------------------------
(***************************************************************************)
(* Theorems of Dispatcher, for any number of pipelines, handlers and runs  *)
(* and any assignment of duties.  Types, claims, history rows and the      *)
(* outcomes they show: whatever fails and whichever calls overlap.  No     *)
(* second launch, and the lock that this makes of a scope: with any calls  *)
(* at once, in the executions without a stale clear.                       *)
(***************************************************************************)
EXTENDS Dispatcher, TLAPS

(***************************************************************************)
(* TypeOK in three parts.                                                  *)
(***************************************************************************)
ActorsOK == pc \in [Actors -> Labels] /\ loc \in [Actors -> Locals]

RunOK == run \in [Instances -> [phase : Phases, pipe : Pipelines \cup {None},
                                out : Outcomes \cup {"none"}]]

StoresOK ==
  /\ runState \in [Pipelines -> [active : {None} \cup Handlers \cup Instances,
                                 at : Time \cup {None}]]
  /\ etag \in [Pipelines -> SUBSET Handlers]
  /\ history \in [Instances -> HistoryRow]
  /\ now \in Time

LEMMA TypeParts == TypeOK <=> ActorsOK /\ RunOK /\ StoresOK
  BY DEF TypeOK, ActorsOK, RunOK, StoresOK

(***************************************************************************)
(* A move of one actor keeps pc and loc typed if the label and the locals  *)
(* it moves to are.                                                        *)
(***************************************************************************)
LEMMA GotoKeeps ==
  ASSUME ActorsOK, NEW a \in Actors, NEW l \in Labels, NEW x \in Locals,
         Goto(a, l, x)
  PROVE  ActorsOK'
  BY DEF Goto, ActorsOK

LEMMA StepKeeps ==
  ASSUME ActorsOK, NEW a \in Actors, NEW l \in Labels, Step(a, l)
  PROVE  ActorsOK'
  BY DEF Step, ActorsOK

LEMMA BeginTyped ==
  ASSUME NEW op \in Operations \cup {"release", "record", "none"},
         NEW p \in Pipelines \cup {None}, NEW i \in Instances \cup {None},
         NEW at \in Time \cup {None}
  PROVE  /\ Begin(op, p, i, at) \in Locals
         /\ Begin(op, p, i, at).op = op
         /\ Begin(op, p, i, at).p = p
         /\ Begin(op, p, i, at).i = i
  BY DEF Begin, Locals

LEMMA NoLocalsTyped == NoLocals \in Locals
  BY BeginTyped DEF NoLocals

LEMMA FinishKeeps ==
  ASSUME ActorsOK, NEW a \in Actors, Finish(a)
  PROVE  ActorsOK'
  BY GotoKeeps, NoLocalsTyped DEF Finish, Labels

(***************************************************************************)
(* The fields of well-typed locals.                                        *)
(***************************************************************************)
LEMMA LocalsFields ==
  ASSUME NEW x \in Locals
  PROVE  /\ x.op \in Operations \cup {"release", "record", "none"}
         /\ x.p \in Pipelines \cup {None}
         /\ x.i \in Instances \cup {None}
         /\ x.res \in Terminal \cup {None}
         /\ x.at \in Time \cup {None}
         /\ \A op \in Operations \cup {"release", "record", "none"} :
              [x EXCEPT !.op = op] \in Locals
         /\ \A p \in Pipelines \cup {None} : [x EXCEPT !.p = p] \in Locals
         /\ \A i \in Instances \cup {None} : [x EXCEPT !.i = i] \in Locals
         /\ \A r \in Terminal \cup {None} : [x EXCEPT !.res = r] \in Locals
         /\ \A t \in Time \cup {None} : [x EXCEPT !.at = t] \in Locals
  BY DEF Locals

LEMMA AfterClearKeeps ==
  ASSUME ActorsOK, StoresOK, NEW a \in Actors, AfterClear(a)
  PROVE  ActorsOK'
<1>1. loc[a] \in Locals /\ now \in Time
  BY DEF ActorsOK, StoresOK
<1>2. [loc[a] EXCEPT !.i = None, !.res = None, !.at = now] \in Locals
  BY <1>1 DEF Locals
<1>3. [loc[a] EXCEPT !.res = None, !.at = None] \in Locals
  BY <1>1 DEF Locals
<1>4. CASE loc[a].op = "start"
  BY <1>2, <1>4, GotoKeeps DEF AfterClear, Labels
<1>5. CASE loc[a].op = "delete"
  BY <1>3, <1>5, GotoKeeps DEF AfterClear, Labels
<1>6. CASE loc[a].op = "record"
  BY <1>6, GotoKeeps, NoLocalsTyped DEF AfterClear, Labels
<1>7. CASE loc[a].op \notin {"start", "delete", "record"}
  BY <1>7, FinishKeeps DEF AfterClear
<1> QED BY <1>4, <1>5, <1>6, <1>7

(***************************************************************************)
(* The inductive invariant, and two facts every step uses: the phase of a  *)
(* run never goes back, so the locals of an actor that does not move stay  *)
(* right; and the locals of the actor that moves have to be checked once.  *)
(***************************************************************************)
Inv == ActorsOK /\ RunOK /\ StoresOK /\ LocalsOK /\ RowsOK

PhasesAdvance == KnownRuns \subseteq KnownRuns' /\ OverRuns \subseteq OverRuns'

LEMMA FitsMonotone ==
  ASSUME NEW k1, NEW k2, NEW o1, NEW o2, k1 \subseteq k2, o1 \subseteq o2,
         NEW label, NEW l, LocalFits(k1, o1, label, l)
  PROVE  LocalFits(k2, o2, label, l)
  BY DEF LocalFits

LEMMA GotoLocals ==
  ASSUME ActorsOK, LocalsOK, PhasesAdvance,
         NEW a \in Actors, NEW l, NEW x, Goto(a, l, x),
         LocalFits(KnownRuns', OverRuns', l, x)
  PROVE  LocalsOK'
<1> SUFFICES ASSUME NEW b \in Actors
             PROVE  LocalFits(KnownRuns', OverRuns', pc'[b], loc'[b])
  BY DEF LocalsOK
<1>1. CASE b = a
  BY <1>1 DEF Goto, ActorsOK
<1>2. CASE b # a
  <2>1. pc'[b] = pc[b] /\ loc'[b] = loc[b]
    BY <1>2 DEF Goto, ActorsOK
  <2>2. LocalFits(KnownRuns, OverRuns, pc[b], loc[b])
    BY DEF LocalsOK
  <2> QED BY <2>1, <2>2, FitsMonotone DEF PhasesAdvance
<1> QED BY <1>1, <1>2

LEMMA StepLocals ==
  ASSUME ActorsOK, LocalsOK, PhasesAdvance,
         NEW a \in Actors, NEW l, Step(a, l),
         LocalFits(KnownRuns', OverRuns', l, loc[a])
  PROVE  LocalsOK'
<1>1. Goto(a, l, loc[a])
  BY DEF Goto, Step, ActorsOK
<1> QED BY <1>1, GotoLocals

(***************************************************************************)
(* Steps that move one actor and touch neither store nor run.              *)
(***************************************************************************)
LEMMA StoresUntouched ==
  ASSUME Inv, UNCHANGED <<runState, etag, history, run, now>>
  PROVE  /\ RunOK' /\ StoresOK' /\ RowsOK' /\ PhasesAdvance
         /\ KnownRuns' = KnownRuns /\ OverRuns' = OverRuns
<1>1. KnownRuns' = KnownRuns /\ OverRuns' = OverRuns
  BY DEF KnownRuns, OverRuns
<1>2. RunOK' /\ StoresOK'
  BY DEF Inv, RunOK, StoresOK
<1>3. RowsOK'
  BY <1>1 DEF Inv, RowsOK
<1> QED BY <1>1, <1>2, <1>3 DEF PhasesAdvance

LEMMA LocalGoto ==
  ASSUME Inv, UNCHANGED <<runState, etag, history, run, now>>,
         NEW a \in Actors, NEW l \in Labels, NEW x \in Locals, Goto(a, l, x),
         LocalFits(KnownRuns, OverRuns, l, x)
  PROVE  Inv'
  BY StoresUntouched, GotoKeeps, GotoLocals DEF Inv

LEMMA LocalStep ==
  ASSUME Inv, UNCHANGED <<runState, etag, history, run, now>>,
         NEW a \in Actors, NEW l \in Labels, Step(a, l),
         LocalFits(KnownRuns, OverRuns, l, loc[a])
  PROVE  Inv'
  BY StoresUntouched, StepKeeps, StepLocals DEF Inv

LEMMA RestFits ==
  ASSUME NEW k, NEW o, NEW l \in {"idle", "purge", "purgeAll", "recorded", "dead"},
         NEW x
  PROVE  LocalFits(k, o, l, x)
  BY DEF LocalFits

LEMMA LocalFinish ==
  ASSUME Inv, UNCHANGED <<runState, etag, history, run, now>>,
         NEW a \in Actors, Finish(a)
  PROVE  Inv'
  BY LocalGoto, NoLocalsTyped, RestFits DEF Finish, Labels

LEMMA AfterClearLocals ==
  ASSUME Inv, PhasesAdvance, NEW a \in Actors,
         pc[a] \in {"clearRead", "clearWrite"}, AfterClear(a)
  PROVE  ActorsOK' /\ LocalsOK'
<1>1. ActorsOK'
  BY AfterClearKeeps DEF Inv
<1>2. LocalFits(KnownRuns, OverRuns, pc[a], loc[a]) /\ loc[a] \in Locals
  BY DEF Inv, LocalsOK, ActorsOK
<1>3. loc[a].p \in Pipelines /\ (loc[a].op = "delete" => loc[a].i \in OverRuns')
  BY <1>2 DEF LocalFits, Labels, PhasesAdvance
<1>4. CASE loc[a].op = "start"
  <2> DEFINE x == [loc[a] EXCEPT !.i = None, !.res = None, !.at = now]
  <2>1. x.p = loc[a].p /\ x.op = "start"
    BY <1>2, <1>4 DEF Locals
  <2>2. LocalFits(KnownRuns', OverRuns', "claimRead", x)
    BY <1>3, <2>1 DEF LocalFits
  <2>3. Goto(a, "claimRead", x)
    BY <1>4 DEF AfterClear
  <2> QED BY <1>1, <2>2, <2>3, GotoLocals DEF Inv
<1>5. CASE loc[a].op = "delete"
  <2> DEFINE x == [loc[a] EXCEPT !.res = None, !.at = None]
  <2>1. x.p = loc[a].p /\ x.op = "delete" /\ x.i = loc[a].i
    BY <1>2, <1>5 DEF Locals
  <2>2. LocalFits(KnownRuns', OverRuns', "deleteRows", x)
    BY <1>3, <1>5, <2>1 DEF LocalFits
  <2>3. Goto(a, "deleteRows", x)
    BY <1>5 DEF AfterClear
  <2> QED BY <1>1, <2>2, <2>3, GotoLocals DEF Inv
<1>6. CASE loc[a].op = "record"
  BY <1>1, <1>6, GotoLocals, RestFits DEF AfterClear, Inv
<1>7. CASE loc[a].op \notin {"start", "delete", "record"}
  BY <1>1, <1>7, GotoLocals, RestFits DEF AfterClear, Finish, Inv
<1> QED BY <1>4, <1>5, <1>6, <1>7

(***************************************************************************)
(* Every action keeps the invariant.                                       *)
(***************************************************************************)
LEMMA RequestInv ==
  ASSUME NamesAssumption, Inv, NEW h \in Handlers, Request(h)
  PROVE  Inv'
<1> USE DEF Actors
<1>2. now \in Time /\ RowsOK
  BY DEF Inv, StoresOK
<1>3. ASSUME NEW p \in Pipelines, StartGate(h, p) PROVE Inv'
  <2>1. UNCHANGED <<runState, etag, history, run, now>>
    BY <1>3 DEF StartGate
  <2>2. CASE Goto(h, "claimRead", Begin("start", p, None, now))
    <3>1. LocalFits(KnownRuns, OverRuns, "claimRead", Begin("start", p, None, now))
      BY DEF LocalFits, Begin
    <3> QED BY BeginTyped, <1>2, <2>1, <2>2, <3>1, LocalGoto DEF Operations, Labels
  <2>3. CASE /\ runState[p].active \in Instances
             /\ Goto(h, "status", Begin("start", p, runState[p].active, None))
    <3>1. runState[p].active \in KnownRuns
      BY <1>2, <2>3 DEF RowsOK
    <3>2. LocalFits(KnownRuns, OverRuns, "status",
                    Begin("start", p, runState[p].active, None))
      BY <3>1 DEF LocalFits, Begin
    <3> QED BY BeginTyped, <2>1, <2>3, <3>2, LocalGoto DEF Operations, Labels
  <2> QED BY <1>3, <2>2, <2>3 DEF StartGate
<1>4. ASSUME NEW p \in Pipelines, NEW i \in Instances, ReconcileState(h, p, i)
      PROVE  Inv'
  <2>1. UNCHANGED <<runState, etag, history, run, now>>
    BY <1>4 DEF ReconcileState
  <2>2. i \in KnownRuns
    BY <1>2, <1>4 DEF ReconcileState, RowsOK
  <2>3. LocalFits(KnownRuns, OverRuns, "status", Begin("watch", p, i, None))
    BY <2>2 DEF LocalFits, Begin
  <2>4. Goto(h, "status", Begin("watch", p, i, None))
    BY <1>4 DEF ReconcileState
  <2> QED BY BeginTyped, <2>1, <2>3, <2>4, LocalGoto DEF Operations, Labels
<1>5. ASSUME NEW i \in Instances, ReviewHistory(h, i) PROVE Inv'
  <2>1. UNCHANGED <<runState, etag, history, run, now>>
    BY <1>5 DEF ReviewHistory
  <2>2. i \in KnownRuns /\ run[i].pipe \in Pipelines
    BY <1>2, <1>5 DEF ReviewHistory, RowsOK, IsRunning
  <2>3. LocalFits(KnownRuns, OverRuns, "status", Begin("review", run[i].pipe, i, None))
    BY <2>2 DEF LocalFits, Begin
  <2>4. Goto(h, "status", Begin("review", run[i].pipe, i, None))
    BY <1>5 DEF ReviewHistory
  <2> QED BY BeginTyped, <2>1, <2>2, <2>3, <2>4, LocalGoto DEF Operations, Labels
<1>6. ASSUME NEW i \in Instances, DeleteRun(h, i) PROVE Inv'
  <2> DEFINE l == IF IsRunning(history[i]) THEN "status" ELSE "deleteRows"
  <2>1. UNCHANGED <<runState, etag, history, run, now>>
    BY <1>6 DEF DeleteRun
  <2>2. i \in KnownRuns /\ run[i].pipe \in Pipelines
    BY <1>2, <1>6 DEF DeleteRun, RowsOK
  <2>3. ~IsRunning(history[i]) => i \in OverRuns
    <3>1. history[i].status \in {"none", "running"} \cup Terminal
      BY DEF Inv, StoresOK, HistoryRow
    <3> QED BY <1>2, <1>6, <3>1 DEF DeleteRun, RowsOK, IsRunning, IsTerminal
  <2>4. LocalFits(KnownRuns, OverRuns, l, Begin("delete", run[i].pipe, i, None))
    BY <2>2, <2>3 DEF LocalFits, Begin
  <2>5. Goto(h, l, Begin("delete", run[i].pipe, i, None))
    BY <1>6 DEF DeleteRun
  <2> QED BY BeginTyped, <2>1, <2>2, <2>4, <2>5, LocalGoto DEF Operations, Labels
<1>7. ASSUME ClearTerminalRuns(h) PROVE Inv'
  <2>1. UNCHANGED <<runState, etag, run, now>>
    BY <1>7 DEF ClearTerminalRuns
  <2>2. \A i \in Instances : history'[i] \in {NoRow, history[i]}
    BY <1>7 DEF ClearTerminalRuns
  <2>3. history' \in [Instances -> HistoryRow] /\ StoresOK'
    BY <1>7, <2>1 DEF ClearTerminalRuns, HistoryRow, NoRow, Inv, StoresOK
  <2>4. KnownRuns' = KnownRuns /\ OverRuns' = OverRuns /\ RunOK' /\ PhasesAdvance
    BY <2>1 DEF KnownRuns, OverRuns, Inv, RunOK, PhasesAdvance
  <2>5. RowsOK'
    BY <1>2, <2>1, <2>2, <2>4 DEF RowsOK, NoRow, IsTerminal, Terminal
  <2>6. Goto(h, "purgeAll", Begin("clear", None, None, None))
    BY <1>7 DEF ClearTerminalRuns
  <2>7. ActorsOK' /\ LocalsOK'
    BY BeginTyped, <2>4, <2>6, GotoKeeps, GotoLocals, RestFits DEF Inv, Operations, Labels
  <2> QED BY <2>3, <2>4, <2>5, <2>7 DEF Inv
<1> QED BY <1>3, <1>4, <1>5, <1>6, <1>7 DEF Request

LEMMA HandlerStepInv ==
  ASSUME NamesAssumption, Inv, NEW h \in Handlers, HandlerStep(h)
  PROVE  Inv'
<1> USE DEF Actors
<1>0. /\ loc[h] \in Locals
      /\ LocalFits(KnownRuns, OverRuns, pc[h], loc[h])
      /\ RowsOK /\ ActorsOK
  BY DEF Inv, ActorsOK, LocalsOK
<1>1. ASSUME GetStatus(h) PROVE Inv'
  <2> DEFINE i == loc[h].i
  <2> DEFINE x == [loc[h] EXCEPT !.res = OutcomeFromStatus(i)]
  <2>1. UNCHANGED <<runState, etag, history, run, now>>
    BY <1>1 DEF GetStatus
  <2>2. CASE Finish(h)
    BY <2>1, <2>2, LocalFinish
  <2>3. CASE ~Live(i) /\ Goto(h, "closeQuery", x)
    <3>1. i \in KnownRuns /\ loc[h].p \in Pipelines
      BY <1>0, <1>1 DEF GetStatus, At, LocalFits, Labels
    <3>2. i \in OverRuns
      BY <2>3, <3>1 DEF Live, OverRuns
    <3>3. OutcomeFromStatus(i) \in Terminal
      BY DEF OutcomeFromStatus, Terminal
    <3>4. x \in Locals /\ x.p = loc[h].p /\ x.i = i /\ x.res \in Terminal
      BY <1>0, <3>3 DEF Locals
    <3>5. LocalFits(KnownRuns, OverRuns, "closeQuery", x)
      BY <3>1, <3>2, <3>4 DEF LocalFits
    <3> QED BY <2>1, <2>3, <3>4, <3>5, LocalGoto DEF Labels
  <2> QED BY <1>1, <2>2, <2>3 DEF GetStatus
<1>2. ASSUME TryClaimRead(h) PROVE Inv'
  <2>1. UNCHANGED <<runState, history, run, now>>
    BY <1>2 DEF TryClaimRead
  <2>2. KnownRuns' = KnownRuns /\ OverRuns' = OverRuns /\ PhasesAdvance
    BY <2>1 DEF KnownRuns, OverRuns, PhasesAdvance
  <2>3. StoresOK'
    BY <1>2, <2>1 DEF TryClaimRead, Inv, StoresOK
  <2>4. RowsOK' /\ RunOK'
    BY <1>0, <2>1, <2>2 DEF Inv, RunOK, RowsOK
  <2>5. LocalFits(KnownRuns, OverRuns, "claimWrite", loc[h])
    BY <1>0, <1>2 DEF TryClaimRead, At, LocalFits, Labels
  <2>6. ActorsOK'
    BY <1>0, <1>2, StepKeeps, FinishKeeps DEF TryClaimRead, Labels
  <2>7. LocalsOK'
    BY <1>2, <2>2, <2>5, StepLocals, GotoLocals, RestFits DEF TryClaimRead, Finish, Inv
  <2> QED BY <2>3, <2>4, <2>6, <2>7 DEF Inv
<1>3. ASSUME TryClaimWrite(h) PROVE Inv'
  <2>1. UNCHANGED <<history, run, now>>
    BY <1>3 DEF TryClaimWrite
  <2>2. KnownRuns' = KnownRuns /\ OverRuns' = OverRuns /\ PhasesAdvance
    BY <2>1 DEF KnownRuns, OverRuns, PhasesAdvance
  <2>3. /\ Claimed(h, loc[h].at) \in [active : {None} \cup Handlers \cup Instances,
                                     at : Time \cup {None}]
        /\ Claimed(h, loc[h].at).active \notin Instances
    BY <1>0, LocalsFields DEF Claimed, NamesAssumption
  <2>4. StoresOK'
    BY <1>3, <2>1, <2>3 DEF TryClaimWrite, WriteState, Inv, StoresOK
  <2>5. RowsOK' /\ RunOK'
    BY <1>0, <1>3, <2>1, <2>2, <2>3
       DEF TryClaimWrite, WriteState, Inv, StoresOK, RunOK, RowsOK
  <2>6. LocalFits(KnownRuns, OverRuns, "launch", loc[h])
    BY <1>0, <1>3 DEF TryClaimWrite, At, LocalFits, Labels
  <2>7. ActorsOK'
    BY <1>0, <1>3, StepKeeps, FinishKeeps DEF TryClaimWrite, Labels
  <2>8. LocalsOK'
    BY <1>3, <2>2, <2>6, StepLocals, GotoLocals, RestFits DEF TryClaimWrite, Finish, Inv
  <2> QED BY <2>4, <2>5, <2>7, <2>8 DEF Inv
<1>4. ASSUME NEW i \in Instances, StartNew(h, i) \/ StartNewReplyLost(h, i)
      PROVE  Inv'
  <2>1. UNCHANGED <<runState, etag, history, now>> /\ Launched(h, i)
        /\ run[i].phase = "absent"
    BY <1>4 DEF StartNew, StartNewReplyLost
  <2>2. loc[h].p \in Pipelines
    BY <1>0, <1>4 DEF StartNew, StartNewReplyLost, At, LocalFits, Labels
  <2>3. RunOK'
    BY <2>1, <2>2 DEF Launched, Inv, RunOK, Phases
  <2>4. KnownRuns' = KnownRuns \cup {i} /\ OverRuns' = OverRuns /\ PhasesAdvance
    BY <2>1 DEF Launched, Inv, RunOK, KnownRuns, OverRuns, PhasesAdvance
  <2>5. \A j \in KnownRuns' : run'[j].pipe \in Pipelines
    BY <1>0, <2>1, <2>2, <2>4 DEF Launched, Inv, RunOK, RowsOK
  <2>6. RowsOK' /\ StoresOK'
    BY <1>0, <2>1, <2>4, <2>5 DEF RowsOK, Inv, StoresOK
  <2>7. CASE StartNew(h, i)
    <3> DEFINE x == [loc[h] EXCEPT !.i = i]
    <3>1. x \in Locals /\ x.p = loc[h].p /\ x.i = i /\ x.op = loc[h].op
      BY <1>0 DEF Locals
    <3>2. LocalFits(KnownRuns', OverRuns', "setActive", x)
      BY <1>0, <2>2, <2>4, <2>7, <3>1 DEF StartNew, At, LocalFits
    <3>3. ActorsOK' /\ LocalsOK'
      BY <1>0, <2>4, <2>7, <3>1, <3>2, GotoKeeps, GotoLocals DEF StartNew, Inv, Labels
    <3> QED BY <2>3, <2>6, <3>3 DEF Inv
  <2>8. CASE StartNewReplyLost(h, i)
    <3> DEFINE x == [loc[h] EXCEPT !.op = "release"]
    <3>1. x \in Locals /\ x.p = loc[h].p /\ x.op = "release"
      BY <1>0 DEF Locals
    <3>2. LocalFits(KnownRuns', OverRuns', "clearRead", x)
      BY <2>2, <3>1 DEF LocalFits
    <3>3. ActorsOK' /\ LocalsOK'
      BY <1>0, <2>4, <2>8, <3>1, <3>2, GotoKeeps, GotoLocals
         DEF StartNewReplyLost, Release, Inv, Labels
    <3> QED BY <2>3, <2>6, <3>3 DEF Inv
  <2> QED BY <1>4, <2>7, <2>8
<1>5. ASSUME StartNewFails(h) PROVE Inv'
  <2> DEFINE x == [loc[h] EXCEPT !.op = "release"]
  <2>1. UNCHANGED <<runState, etag, history, run, now>> /\ Goto(h, "clearRead", x)
    BY <1>5 DEF StartNewFails, Release
  <2>2. x \in Locals /\ x.p = loc[h].p /\ x.op = "release" /\ loc[h].p \in Pipelines
    BY <1>0, <1>5 DEF Locals, StartNewFails, At, LocalFits, Labels
  <2>3. LocalFits(KnownRuns, OverRuns, "clearRead", x)
    BY <2>2 DEF LocalFits
  <2> QED BY <2>1, <2>2, <2>3, LocalGoto DEF Labels
<1>6. ASSUME SetActiveInstance(h) PROVE Inv'
  <2>1. UNCHANGED <<history, run, now>>
    BY <1>6 DEF SetActiveInstance
  <2>2. KnownRuns' = KnownRuns /\ OverRuns' = OverRuns /\ PhasesAdvance
    BY <2>1 DEF KnownRuns, OverRuns, PhasesAdvance
  <2>3. loc[h].i \in KnownRuns /\ loc[h].p \in Pipelines /\ loc[h].op = "start"
    BY <1>0, <1>6 DEF SetActiveInstance, At, LocalFits, Labels
  <2>4. ASSUME NEW p \in Pipelines
        PROVE  /\ Activated(runState[p], loc[h].i) \in
                    [active : {None} \cup Handlers \cup Instances,
                     at : Time \cup {None}]
               /\ Activated(runState[p], loc[h].i).active = loc[h].i
    BY <2>3 DEF Activated, Inv, StoresOK, KnownRuns
  <2>5. StoresOK'
    BY <1>6, <2>1, <2>4 DEF SetActiveInstance, WriteState, Inv, StoresOK
  <2>6. RowsOK' /\ RunOK'
    BY <1>0, <1>6, <2>1, <2>2, <2>3, <2>4
       DEF SetActiveInstance, WriteState, Inv, StoresOK, RunOK, RowsOK
  <2>7. LocalFits(KnownRuns, OverRuns, "openRow", loc[h])
    BY <2>3 DEF LocalFits
  <2>8. ActorsOK' /\ LocalsOK'
    BY <1>0, <1>6, <2>2, <2>7, StepKeeps, StepLocals DEF SetActiveInstance, Inv, Labels
  <2> QED BY <2>5, <2>6, <2>8 DEF Inv
<1>7. ASSUME OpenRow(h) PROVE Inv'
  <2>1. UNCHANGED <<runState, etag, run, now>>
    BY <1>7 DEF OpenRow
  <2>2. KnownRuns' = KnownRuns /\ OverRuns' = OverRuns /\ PhasesAdvance
    BY <2>1 DEF KnownRuns, OverRuns, PhasesAdvance
  <2>3. loc[h].i \in KnownRuns
    BY <1>0, <1>7 DEF OpenRow, At, LocalFits
  <2>4. Opened \in HistoryRow /\ Opened.status = "running"
    BY DEF Opened, HistoryRow
  <2>5. StoresOK' /\ RunOK'
    BY <1>7, <2>1, <2>4 DEF OpenRow, Inv, StoresOK, RunOK
  <2>6. RowsOK'
    BY <1>0, <1>7, <2>1, <2>2, <2>3, <2>4
       DEF OpenRow, Inv, StoresOK, RowsOK, IsTerminal, Terminal
  <2>7. ActorsOK' /\ LocalsOK'
    BY <1>0, <1>7, <2>2, FinishKeeps, GotoLocals, RestFits DEF OpenRow, Finish, Inv
  <2> QED BY <2>5, <2>6, <2>7 DEF Inv
<1>8. ASSUME DeleteRows(h) PROVE Inv'
  <2>1. UNCHANGED <<runState, etag, run, now>>
    BY <1>8 DEF DeleteRows
  <2>2. KnownRuns' = KnownRuns /\ OverRuns' = OverRuns /\ PhasesAdvance
    BY <2>1 DEF KnownRuns, OverRuns, PhasesAdvance
  <2>3. NoRow \in HistoryRow /\ NoRow.status = "none"
    BY DEF NoRow, HistoryRow
  <2>4. StoresOK' /\ RunOK'
    BY <1>8, <2>1, <2>3 DEF DeleteRows, Inv, StoresOK, RunOK
  <2>5. \A i \in Instances : history'[i] \in {NoRow, history[i]}
    BY <1>8 DEF DeleteRows, Inv, StoresOK
  <2>6. RowsOK'
    BY <1>0, <2>1, <2>2, <2>3, <2>5 DEF RowsOK, IsTerminal, Terminal
  <2>7. ActorsOK' /\ LocalsOK'
    BY <1>0, <1>8, <2>2, StepKeeps, StepLocals, RestFits DEF DeleteRows, Inv, Labels
  <2> QED BY <2>4, <2>6, <2>7 DEF Inv
<1>9. ASSUME PurgeInstance(h) \/ PurgeTerminalInstances(h) PROVE Inv'
  <2>1. UNCHANGED <<runState, etag, history, now>>
    BY <1>9 DEF PurgeInstance, PurgeTerminalInstances
  <2>2. RunOK'
    BY <1>9 DEF PurgeInstance, PurgeTerminalInstances, Purged, Inv, RunOK, Phases
  <2>3. \A i \in Instances :
          /\ run'[i].pipe = run[i].pipe
          /\ \/ run'[i].phase = run[i].phase
             \/ /\ run'[i].phase = "Purged"
                /\ run[i].phase \in {"Completed", "Failed"}
    <3>1. ASSUME NEW is, run' = Purged(is)
          PROVE  \A i \in Instances :
                   /\ run'[i].pipe = run[i].pipe
                   /\ \/ run'[i].phase = run[i].phase
                      \/ /\ run'[i].phase = "Purged"
                         /\ run[i].phase \in {"Completed", "Failed"}
      BY <3>1 DEF Purged, Inv, RunOK
    <3>2. UNCHANGED run \/ \E is : run' = Purged(is)
      BY <1>9 DEF PurgeInstance, PurgeTerminalInstances
    <3> QED BY <3>1, <3>2
  <2>4. KnownRuns' = KnownRuns /\ OverRuns' = OverRuns /\ PhasesAdvance
    BY <2>3 DEF KnownRuns, OverRuns, PhasesAdvance
  <2>5. StoresOK' /\ RowsOK'
    BY <1>0, <2>1, <2>3, <2>4 DEF Inv, StoresOK, RowsOK, KnownRuns
  <2>6. ActorsOK' /\ LocalsOK'
    BY <1>0, <1>9, <2>4, FinishKeeps, GotoLocals, RestFits
       DEF PurgeInstance, PurgeTerminalInstances, Finish, Inv
  <2> QED BY <2>2, <2>5, <2>6 DEF Inv
<1> QED BY <1>1, <1>2, <1>3, <1>4, <1>5, <1>6, <1>7, <1>8, <1>9 DEF HandlerStep

LEMMA ClosingInv ==
  ASSUME Inv, NEW a \in Actors, Closing(a)
  PROVE  Inv'
<1>0. /\ loc[a] \in Locals
      /\ LocalFits(KnownRuns, OverRuns, pc[a], loc[a])
      /\ RowsOK /\ ActorsOK
  BY DEF Inv, ActorsOK, LocalsOK
<1>1. ASSUME CloseQuery(a) PROVE Inv'
  <2>1. UNCHANGED <<runState, etag, history, run, now>>
    BY <1>1 DEF CloseQuery
  <2>2. /\ LocalFits(KnownRuns, OverRuns, "closeWrite", loc[a])
        /\ LocalFits(KnownRuns, OverRuns, "clearRead", loc[a])
    BY <1>0, <1>1 DEF CloseQuery, At, LocalFits, Labels
  <2> QED BY <1>1, <2>1, <2>2, LocalStep DEF CloseQuery, Labels
<1>2. ASSUME CloseWrite(a) PROVE Inv'
  <2>1. UNCHANGED <<runState, etag, run, now>>
    BY <1>2 DEF CloseWrite
  <2>2. KnownRuns' = KnownRuns /\ OverRuns' = OverRuns /\ PhasesAdvance
    BY <2>1 DEF KnownRuns, OverRuns, PhasesAdvance
  <2>3. loc[a].i \in OverRuns /\ loc[a].res \in Terminal /\ loc[a].p \in Pipelines
    BY <1>0, <1>2 DEF CloseWrite, At, LocalFits, Labels
  <2>4. \A row \in HistoryRow : Closed(row, loc[a].res) \in HistoryRow
    BY <2>3 DEF Closed, HistoryRow
  <2>5. StoresOK' /\ RunOK'
    BY <1>2, <2>1, <2>4 DEF CloseWrite, Inv, StoresOK, RunOK
  <2>6. \A i \in Instances : i # loc[a].i => history'[i] = history[i]
    BY <1>2 DEF CloseWrite, Inv, StoresOK
  <2>7. RowsOK'
    BY <1>0, <2>1, <2>2, <2>3, <2>6 DEF RowsOK, OverRuns
  <2>8. LocalFits(KnownRuns, OverRuns, "clearRead", loc[a])
    BY <2>3 DEF LocalFits
  <2>9. ActorsOK' /\ LocalsOK'
    BY <1>0, <1>2, <2>2, <2>8, StepKeeps, StepLocals DEF CloseWrite, Inv, Labels
  <2> QED BY <2>5, <2>7, <2>9 DEF Inv
<1>3. ASSUME ClearRead(a) PROVE Inv'
  <2> DEFINE row == runState[loc[a].p]
  <2> DEFINE x == [loc[a] EXCEPT !.at = row.at]
  <2>1. UNCHANGED <<runState, etag, history, run, now>> /\ pc[a] = "clearRead"
    BY <1>3 DEF ClearRead, At
  <2>2. CASE AfterClear(a)
    BY <2>1, <2>2, StoresUntouched, AfterClearLocals DEF Inv
  <2>3. CASE Goto(a, "clearWrite", x)
    <3>1. loc[a].p \in Pipelines
      BY <1>0, <2>1 DEF LocalFits, Labels
    <3>2. row.at \in Time \cup {None}
      BY <3>1 DEF Inv, StoresOK
    <3>3. x \in Locals /\ x.p = loc[a].p /\ x.op = loc[a].op /\ x.i = loc[a].i
      BY <1>0, <3>2 DEF Locals
    <3>4. LocalFits(KnownRuns, OverRuns, "clearWrite", x)
      BY <1>0, <2>1, <3>1, <3>3 DEF LocalFits
    <3> QED BY <2>1, <2>3, <3>3, <3>4, LocalGoto DEF Labels
  <2> QED BY <1>3, <2>2, <2>3 DEF ClearRead
<1>4. ASSUME ClearWrite(a) PROVE Inv'
  <2>1. UNCHANGED <<history, run, now>> /\ pc[a] = "clearWrite"
    BY <1>4 DEF ClearWrite, At
  <2>2. KnownRuns' = KnownRuns /\ OverRuns' = OverRuns /\ PhasesAdvance
    BY <2>1 DEF KnownRuns, OverRuns, PhasesAdvance
  <2>3. /\ Cleared(loc[a].at) \in [active : {None} \cup Handlers \cup Instances,
                                  at : Time \cup {None}]
        /\ Cleared(loc[a].at).active = None
    BY <1>0, LocalsFields DEF Cleared
  <2>4. StoresOK' /\ RunOK'
    BY <1>4, <2>1, <2>3 DEF ClearWrite, WriteState, Inv, StoresOK, RunOK
  <2>5. \A p \in Pipelines : runState'[p].active \in {None, runState[p].active}
    BY <1>4, <2>3 DEF ClearWrite, WriteState, Inv, StoresOK
  <2>6. RowsOK' \/ None \in Instances
    BY <1>0, <2>1, <2>2, <2>5 DEF RowsOK
  <2>7. ActorsOK' /\ LocalsOK'
    BY <1>4, <2>1, <2>2, AfterClearLocals DEF ClearWrite
  <2> QED BY <2>4, <2>6, <2>7, NamesAssumption DEF Inv
<1> QED BY <1>1, <1>2, <1>3, <1>4 DEF Closing

(***************************************************************************)
(* The step of a run moves only the run and its own activity.              *)
(***************************************************************************)
LEMMA RunMoves ==
  ASSUME Inv, UNCHANGED <<runState, etag, history, now>>,
         NEW i \in Instances, i \in KnownRuns,
         NEW ph \in Phases \ {"absent", "body"}, NEW out \in Outcomes \cup {"none"},
         run' = [run EXCEPT ![i].phase = ph, ![i].out = out],
         NEW l \in Labels, NEW x \in Locals, Goto(i, l, x),
         LocalFits(KnownRuns, OverRuns \cup {i}, l, x)
  PROVE  Inv'
<1>1. i \in Actors
  BY DEF Actors
<1>2. RunOK'
  BY DEF Inv, RunOK
<1>3. /\ \A j \in Instances : run'[j].pipe = run[j].pipe
      /\ \A j \in Instances \ {i} : run'[j] = run[j]
      /\ run'[i].phase = ph
  BY DEF Inv, RunOK
<1>4. KnownRuns' = KnownRuns
  BY <1>3 DEF KnownRuns
<1>5. OverRuns' = OverRuns \cup {i}
  BY <1>3, <1>4 DEF OverRuns, KnownRuns
<1>6. PhasesAdvance
  BY <1>4, <1>5 DEF PhasesAdvance
<1>7. StoresOK' /\ RowsOK'
  <2>1. StoresOK'
    BY DEF Inv, StoresOK
  <2>2. \A j \in KnownRuns' : run'[j].pipe \in Pipelines
    BY <1>3, <1>4 DEF Inv, RowsOK, KnownRuns
  <2>3. RowsOK'
    BY <1>4, <1>5, <2>2 DEF Inv, RowsOK
  <2> QED BY <2>1, <2>3
<1>8. ActorsOK' /\ LocalsOK'
  BY <1>1, <1>4, <1>5, <1>6, GotoKeeps, GotoLocals DEF Inv
<1> QED BY <1>2, <1>7, <1>8 DEF Inv

LEMMA RunInv ==
  ASSUME NamesAssumption, Inv, NEW i \in Instances,
         RunStep(i) \/ Redeliver(i) \/ Die(i)
  PROVE  Inv'
<1> USE DEF Actors
<1>0. /\ run[i] \in [phase : Phases, pipe : Pipelines \cup {None},
                     out : Outcomes \cup {"none"}]
      /\ RowsOK
  BY DEF Inv, RunOK
<1> DEFINE x(out) == [Begin("record", run[i].pipe, i, None) EXCEPT !.res = Reported(out)]
<1>1. ASSUME NEW out \in Outcomes \cup {"none"}, Reported(out) \in Terminal,
             i \in KnownRuns
      PROVE  /\ x(out) \in Locals
             /\ LocalFits(KnownRuns, OverRuns \cup {i}, "closeQuery", x(out))
  <2>1. run[i].pipe \in Pipelines
    BY <1>0, <1>1 DEF RowsOK
  <2>2. /\ x(out) \in Locals
        /\ x(out).p = run[i].pipe /\ x(out).i = i /\ x(out).res \in Terminal
    BY <1>1, <2>1 DEF Begin, Locals
  <2> QED BY <2>1, <2>2 DEF LocalFits
<1>2. ASSUME NEW out \in Outcomes, BodyEnds(i, out) PROVE Inv'
  <2>1. i \in KnownRuns /\ Reported(out) \in Terminal
    BY <1>2 DEF BodyEnds, KnownRuns, Outcomes, Reported, Terminal
  <2>2. /\ x(out) \in Locals
        /\ LocalFits(KnownRuns, OverRuns \cup {i}, "closeQuery", x(out))
    BY <1>1, <2>1
  <2>3. Goto(i, "closeQuery", x(out))
    BY <1>2 DEF BodyEnds, Record
  <2>4. /\ UNCHANGED <<runState, etag, history, now>>
        /\ run' = [run EXCEPT ![i].phase = "ended", ![i].out = out]
    BY <1>2 DEF BodyEnds
  <2>5. "ended" \in Phases \ {"absent", "body"} /\ "closeQuery" \in Labels
    BY DEF Phases, Labels
  <2> HIDE DEF x
  <2> QED BY <2>1, <2>2, <2>3, <2>4, <2>5, RunMoves
<1>3. ASSUME OrchestratorReturns(i) PROVE Inv'
  <2> DEFINE ph == IF run[i].out = "raised" THEN "Failed" ELSE "Completed"
  <2>1. /\ i \in KnownRuns /\ ph \in Phases \ {"absent", "body"}
        /\ "idle" \in Labels
    BY <1>3 DEF OrchestratorReturns, KnownRuns, Phases, Labels
  <2>2. run' = [run EXCEPT ![i].phase = ph, ![i].out = run[i].out]
    BY <1>0, <1>3 DEF OrchestratorReturns, Inv, RunOK
  <2>3. UNCHANGED <<runState, etag, history, now>> /\ Goto(i, "idle", NoLocals)
    BY <1>3 DEF OrchestratorReturns, Finish
  <2>4. LocalFits(KnownRuns, OverRuns \cup {i}, "idle", NoLocals)
    BY RestFits
  <2> HIDE DEF ph
  <2> QED BY <1>0, <2>1, <2>2, <2>3, <2>4, NoLocalsTyped, RunMoves
<1>4. ASSUME Redeliver(i) PROVE Inv'
  <2>1. /\ UNCHANGED <<runState, etag, history, run, now>>
        /\ Goto(i, "closeQuery", x(run[i].out))
        /\ run[i].phase = "ended"
    BY <1>4 DEF Redeliver, Record
  <2>2. i \in KnownRuns /\ i \in OverRuns
    BY <2>1 DEF KnownRuns, OverRuns
  <2>3. x(run[i].out) \in Locals
    <3>1. Reported(run[i].out) \in Terminal
      BY DEF Reported, Terminal
    <3> QED BY <1>0, <1>1, <2>2, <3>1
  <2>4. LocalFits(KnownRuns, OverRuns, "closeQuery", x(run[i].out))
    <3>1. Reported(run[i].out) \in Terminal /\ OverRuns \cup {i} = OverRuns
      BY <2>2 DEF Reported, Terminal
    <3> QED BY <1>0, <1>1, <2>2, <3>1
  <2>5. "closeQuery" \in Labels
    BY DEF Labels
  <2> HIDE DEF x
  <2> QED BY <2>1, <2>3, <2>4, <2>5, LocalGoto
<1>5. ASSUME Die(i) PROVE Inv'
  <2>1. /\ i \in KnownRuns /\ "Failed" \in Phases \ {"absent", "body"}
        /\ "dead" \in Labels
    BY <1>5 DEF Die, Live, KnownRuns, Phases, Labels
  <2>2. run' = [run EXCEPT ![i].phase = "Failed", ![i].out = run[i].out]
    BY <1>0, <1>5 DEF Die, Inv, RunOK
  <2>3. UNCHANGED <<runState, etag, history, now>> /\ Goto(i, "dead", NoLocals)
    BY <1>5 DEF Die
  <2>4. LocalFits(KnownRuns, OverRuns \cup {i}, "dead", NoLocals)
    BY RestFits
  <2> QED BY <1>0, <2>1, <2>2, <2>3, <2>4, NoLocalsTyped, RunMoves
<1> QED BY <1>2, <1>3, <1>4, <1>5 DEF RunStep

LEMMA NextInv ==
  ASSUME NamesAssumption, Inv, [Next]_vars
  PROVE  Inv'
<1>1. ASSUME NEW h \in Handlers, Crash(h) PROVE Inv'
  <2>1. UNCHANGED <<runState, etag, history, run, now>> /\ Goto(h, "dead", NoLocals)
    BY <1>1 DEF Crash
  <2> QED BY <2>1, LocalGoto, NoLocalsTyped, RestFits DEF Actors, Labels
<1>2. ASSUME Tick PROVE Inv'
  <2>1. now' \in Time
    BY <1>2, SettingsAssumption DEF Tick, Inv, StoresOK, Time
  <2>2. StoresOK' /\ ActorsOK' /\ RunOK'
    BY <1>2, <2>1 DEF Tick, Inv, StoresOK, ActorsOK, RunOK
  <2>3. KnownRuns' = KnownRuns /\ OverRuns' = OverRuns
    BY <1>2 DEF Tick, KnownRuns, OverRuns
  <2>4. LocalsOK' /\ RowsOK'
    BY <1>2, <2>3 DEF Tick, Inv, LocalsOK, RowsOK
  <2> QED BY <2>2, <2>4 DEF Inv
<1>3. ASSUME UNCHANGED vars PROVE Inv'
  <2>1. KnownRuns' = KnownRuns /\ OverRuns' = OverRuns
    BY <1>3 DEF vars, KnownRuns, OverRuns
  <2>2. LocalsOK' /\ RowsOK'
    BY <1>3, <2>1 DEF vars, Inv, LocalsOK, RowsOK
  <2> QED BY <1>3, <2>2 DEF vars, Inv, StoresOK, ActorsOK, RunOK
<1> QED BY <1>1, <1>2, <1>3, RequestInv, HandlerStepInv, ClosingInv, RunInv DEF Next

LEMMA InitInv ==
  ASSUME NamesAssumption, Init
  PROVE  Inv
<1>1. ActorsOK
  BY NoLocalsTyped DEF Init, ActorsOK, Labels
<1>2. RunOK
  BY DEF Init, RunOK, NoRun, Phases
<1>3. 0 \in Time
  BY SettingsAssumption DEF Time
<1>4. StoresOK
  BY <1>3 DEF Init, StoresOK, NoState, NoRow, HistoryRow
<1>5. LocalsOK
  <2>1. \A a \in Actors : pc[a] = "idle"
    BY DEF Init
  <2> QED BY <2>1, RestFits DEF LocalsOK
<1>6. RowsOK
  <2>1. KnownRuns = {}
    BY DEF Init, KnownRuns, NoRun
  <2>2. \A i \in Instances : history[i].status = "none"
    BY DEF Init, NoRow
  <2>3. \A p \in Pipelines : runState[p].active = None
    BY DEF Init, NoState
  <2> QED BY <2>1, <2>2, <2>3 DEF RowsOK, IsTerminal, Terminal, NamesAssumption
<1> QED BY <1>1, <1>2, <1>4, <1>5, <1>6 DEF Inv

(***************************************************************************)
(* The inductive invariant holds of every behaviour.                       *)
(***************************************************************************)
THEOREM InvHolds == Spec => []Inv
<1>1. Init => Inv
  BY InitInv, NamesAssumption
<1>2. Inv /\ [Next]_vars => Inv'
  BY NextInv, NamesAssumption
<1> QED BY <1>1, <1>2, PTL DEF Spec

(***************************************************************************)
(* Every variable of the dispatcher keeps its type; in particular a run    *)
(* history row is closed with "completed" or "failed" and nothing else.    *)
(***************************************************************************)
THEOREM TypeCorrect == Spec => []TypeOK
<1>1. Inv => TypeOK
  BY TypeParts DEF Inv
<1> QED BY <1>1, InvHolds, PTL

(***************************************************************************)
(* The history row of a run at work is never closed or discarded.          *)
(***************************************************************************)
LEMMA StepKeepsLiveRow ==
  ASSUME Inv, [Next]_vars, NEW i \in Instances,
         IsRunning(history[i]), run'[i].phase = "body"
  PROVE  IsRunning(history'[i])
<1> USE DEF Actors
<1>1. CASE history' = history
  BY <1>1
<1>2. \A a \in Actors : LocalFits(KnownRuns, OverRuns, pc[a], loc[a])
  BY DEF Inv, LocalsOK
<1>3. ASSUME NEW h \in Handlers, ClearTerminalRuns(h) PROVE IsRunning(history'[i])
  BY <1>3 DEF ClearTerminalRuns, IsTerminal, Terminal, IsRunning
<1>4. ASSUME NEW h \in Handlers, OpenRow(h) PROVE IsRunning(history'[i])
  BY <1>4 DEF OpenRow, Opened, IsRunning, Inv, StoresOK
<1>5. ASSUME NEW h \in Handlers, DeleteRows(h) PROVE IsRunning(history'[i])
  <2>1. loc[h].i \in OverRuns /\ run' = run
    BY <1>2, <1>5 DEF DeleteRows, At, LocalFits
  <2>2. i # loc[h].i
    BY <2>1 DEF OverRuns
  <2> QED BY <1>5, <2>2 DEF DeleteRows, Inv, StoresOK
<1>6. ASSUME NEW a \in Actors, CloseWrite(a) PROVE IsRunning(history'[i])
  <2>1. loc[a].i \in OverRuns /\ run' = run
    BY <1>2, <1>6 DEF CloseWrite, At, LocalFits
  <2>2. i # loc[a].i
    BY <2>1 DEF OverRuns
  <2> QED BY <1>6, <2>2 DEF CloseWrite, Inv, StoresOK
<1>7. ASSUME NEW h \in Handlers, Request(h) PROVE IsRunning(history'[i])
  BY <1>1, <1>3, <1>7 DEF Request, StartGate, ReconcileState, ReviewHistory, DeleteRun
<1>8. ASSUME NEW h \in Handlers, HandlerStep(h) PROVE IsRunning(history'[i])
  BY <1>1, <1>4, <1>5, <1>8
     DEF HandlerStep, GetStatus, TryClaimRead, TryClaimWrite, StartNew, StartNewFails,
         StartNewReplyLost, SetActiveInstance, PurgeInstance, PurgeTerminalInstances
<1>9. ASSUME NEW a \in Actors, Closing(a) PROVE IsRunning(history'[i])
  BY <1>1, <1>6, <1>9 DEF Closing, CloseQuery, ClearRead, ClearWrite
<1>10. ASSUME NEW j \in Instances, RunStep(j) \/ Redeliver(j) \/ Die(j)
       PROVE  IsRunning(history'[i])
  BY <1>1, <1>10 DEF RunStep, BodyEnds, OrchestratorReturns, Redeliver, Die
<1>11. ASSUME NEW h \in Handlers, Crash(h) PROVE IsRunning(history'[i])
  BY <1>1, <1>11 DEF Crash
<1>12. CASE Tick \/ UNCHANGED vars
  BY <1>1, <1>12 DEF Tick, vars
<1> QED BY <1>7, <1>8, <1>9, <1>10, <1>11, <1>12 DEF Next

THEOREM LiveRowIsKept == Spec => LiveRowKept
<1>1. Inv /\ [Next]_vars =>
        [\A i \in Instances :
           IsRunning(history[i]) /\ run'[i].phase = "body" =>
             IsRunning(history'[i])]_vars
  BY StepKeepsLiveRow
<1> QED BY <1>1, InvHolds, PTL DEF Spec, LiveRowKept

(***************************************************************************)
(* Claims.  A row holds the placeholder of a start call only while that    *)
(* call owns it, and a claimant with a current ETag read an idle row; each *)
(* needs the other.                                                        *)
(***************************************************************************)
ClaimInv == Inv /\ PlaceholderOwned /\ ClaimOK

\* An actor moves and no row is written
LEMMA QuietMove ==
  ASSUME ClaimInv, UNCHANGED <<runState, etag>>,
         NEW a \in Actors, NEW l, NEW x, Goto(a, l, x), l # "claimWrite",
         \A p \in Pipelines : Owns(pc[a], loc[a], p) => Owns(l, x, p)
  PROVE  PlaceholderOwned' /\ ClaimOK'
<1>1. /\ pc'[a] = l /\ loc'[a] = x
      /\ \A b \in Actors \ {a} : pc'[b] = pc[b] /\ loc'[b] = loc[b]
  BY DEF ClaimInv, Inv, ActorsOK, Goto
<1>2. PlaceholderOwned'
  <2> SUFFICES ASSUME NEW p \in Pipelines, NEW h \in Handlers, runState'[p].active = h
               PROVE  Owns(pc'[h], loc'[h], p)
    BY DEF PlaceholderOwned
  <2>1. Owns(pc[h], loc[h], p)
    BY DEF ClaimInv, PlaceholderOwned
  <2> QED BY <1>1, <2>1 DEF Actors
<1>3. ClaimOK'
  BY <1>1 DEF ClaimInv, ClaimOK, Actors
<1> QED BY <1>2, <1>3

\* An actor moves and one row is written
LEMMA WriteMove ==
  ASSUME ClaimInv,
         NEW q \in Pipelines, NEW row, WriteState(q, row),
         NEW a \in Actors, NEW l, NEW x, Goto(a, l, x), l # "claimWrite",
         row.active \in Handlers => row.active = a /\ Owns(l, x, q),
         \A p \in Pipelines \ {q} : Owns(pc[a], loc[a], p) => Owns(l, x, p)
  PROVE  PlaceholderOwned' /\ ClaimOK'
<1>1. /\ pc'[a] = l /\ loc'[a] = x
      /\ \A b \in Actors \ {a} : pc'[b] = pc[b] /\ loc'[b] = loc[b]
  BY DEF ClaimInv, Inv, ActorsOK, Goto
<1>2. /\ runState'[q] = row /\ etag'[q] = {}
      /\ \A p \in Pipelines \ {q} : runState'[p] = runState[p] /\ etag'[p] = etag[p]
  BY DEF WriteState, ClaimInv, Inv, StoresOK
<1>3. PlaceholderOwned'
  <2> SUFFICES ASSUME NEW p \in Pipelines, NEW h \in Handlers, runState'[p].active = h
               PROVE  Owns(pc'[h], loc'[h], p)
    BY DEF PlaceholderOwned
  <2>1. CASE p = q
    BY <1>1, <1>2, <2>1
  <2>2. CASE p # q
    <3>1. Owns(pc[h], loc[h], p)
      BY <1>2, <2>2 DEF ClaimInv, PlaceholderOwned
    <3> QED BY <1>1, <2>2, <3>1 DEF Actors
  <2> QED BY <2>1, <2>2
<1>4. ClaimOK'
  BY <1>1, <1>2 DEF ClaimInv, ClaimOK, Actors
<1> QED BY <1>3, <1>4

LEMMA StepIsGoto ==
  ASSUME ActorsOK, NEW a \in Actors, NEW l, Step(a, l)
  PROVE  Goto(a, l, loc[a])
  BY DEF Goto, Step, ActorsOK

LEMMA RequestClaims ==
  ASSUME ClaimInv, NEW h \in Handlers, Request(h)
  PROVE  PlaceholderOwned' /\ ClaimOK'
<1>1. \E l, x : Goto(h, l, x) /\ l # "claimWrite"
  BY DEF Request, StartGate, ReconcileState, ReviewHistory, DeleteRun, ClearTerminalRuns
<1>2. UNCHANGED <<runState, etag>> /\ pc[h] = "idle"
  BY DEF Request, StartGate, ReconcileState, ReviewHistory, DeleteRun, ClearTerminalRuns,
         Free, At
<1>3. \A p \in Pipelines : ~Owns(pc[h], loc[h], p)
  BY <1>2 DEF Owns
<1> QED BY <1>1, <1>2, <1>3, QuietMove DEF Actors

\* What AfterClear moves to, and what it owned
LEMMA AfterClearMoves ==
  ASSUME NEW a \in Actors, pc[a] \in {"clearRead", "clearWrite"}, AfterClear(a)
  PROVE  /\ \E l, x : Goto(a, l, x) /\ l # "claimWrite"
         /\ \A p : Owns(pc[a], loc[a], p) => p = loc[a].p
  BY DEF AfterClear, Finish, Owns

LEMMA ClosingClaims ==
  ASSUME NamesAssumption, ClaimInv, NEW a \in Actors, Closing(a)
  PROVE  PlaceholderOwned' /\ ClaimOK'
<1>0. /\ loc[a] \in Locals /\ ActorsOK
      /\ LocalFits(KnownRuns, OverRuns, pc[a], loc[a])
  BY DEF ClaimInv, Inv, ActorsOK, LocalsOK
<1>1. ASSUME CloseQuery(a) PROVE PlaceholderOwned' /\ ClaimOK'
  <2>1. UNCHANGED <<runState, etag>> /\ pc[a] = "closeQuery"
    BY <1>1 DEF CloseQuery, At
  <2>2. \E l, x : Goto(a, l, x) /\ l # "claimWrite"
    BY <1>0, <1>1, StepIsGoto DEF CloseQuery
  <2>3. \A p \in Pipelines : ~Owns(pc[a], loc[a], p)
    BY <2>1 DEF Owns
  <2> QED BY <2>1, <2>2, <2>3, QuietMove
<1>2. ASSUME CloseWrite(a) PROVE PlaceholderOwned' /\ ClaimOK'
  <2>1. UNCHANGED <<runState, etag>> /\ pc[a] = "closeWrite"
    BY <1>2 DEF CloseWrite, At
  <2>2. Goto(a, "clearRead", loc[a])
    BY <1>0, <1>2, StepIsGoto DEF CloseWrite
  <2>3. \A p \in Pipelines : ~Owns(pc[a], loc[a], p)
    BY <2>1 DEF Owns
  <2> QED BY <2>1, <2>2, <2>3, QuietMove
<1>3. ASSUME ClearRead(a) PROVE PlaceholderOwned' /\ ClaimOK'
  <2> DEFINE x == [loc[a] EXCEPT !.at = runState[loc[a].p].at]
  <2>1. UNCHANGED <<runState, etag>> /\ pc[a] = "clearRead"
    BY <1>3 DEF ClearRead, At
  <2>2. CASE runState[loc[a].p] = NoState /\ AfterClear(a)
    <3>1. \E l, y : Goto(a, l, y) /\ l # "claimWrite"
      BY <2>1, <2>2, AfterClearMoves
    <3>2. PICK l, y : Goto(a, l, y) /\ l # "claimWrite"
      BY <3>1
    <3>3. /\ pc'[a] = l /\ loc'[a] = y
          /\ \A b \in Actors \ {a} : pc'[b] = pc[b] /\ loc'[b] = loc[b]
      BY <1>0, <3>2 DEF ActorsOK, Goto
    <3>4. ClaimOK'
      BY <2>1, <3>2, <3>3 DEF ClaimInv, ClaimOK, Actors
    <3>5. PlaceholderOwned'
      <4> SUFFICES ASSUME NEW p \in Pipelines, NEW h \in Handlers,
                          runState'[p].active = h
                   PROVE  Owns(pc'[h], loc'[h], p)
        BY DEF PlaceholderOwned
      <4>1. Owns(pc[h], loc[h], p)
        BY <2>1 DEF ClaimInv, PlaceholderOwned
      <4>2. h # a
        <5>1. ASSUME h = a PROVE p = loc[a].p
          BY <2>1, <2>2, <4>1, <5>1, AfterClearMoves
        <5> QED BY <2>1, <2>2, <5>1 DEF NoState, NamesAssumption
      <4> QED BY <3>3, <4>1, <4>2 DEF Actors
    <3> QED BY <3>4, <3>5
  <2>3. CASE Goto(a, "clearWrite", x)
    <3>1. x.op = loc[a].op /\ x.p = loc[a].p
      BY <1>0 DEF Locals
    <3>2. \A p \in Pipelines : Owns(pc[a], loc[a], p) => Owns("clearWrite", x, p)
      BY <2>1, <3>1 DEF Owns
    <3> QED BY <2>1, <2>3, <3>2, QuietMove
  <2> QED BY <1>3, <2>2, <2>3 DEF ClearRead
<1>4. ASSUME ClearWrite(a) PROVE PlaceholderOwned' /\ ClaimOK'
  <2>1. /\ WriteState(loc[a].p, Cleared(loc[a].at)) /\ AfterClear(a)
        /\ pc[a] = "clearWrite"
    BY <1>4 DEF ClearWrite, At
  <2>2. loc[a].p \in Pipelines
    BY <1>0, <2>1 DEF LocalFits, Labels
  <2>3. Cleared(loc[a].at).active \notin Handlers
    BY DEF Cleared, NamesAssumption
  <2>4. /\ \E l, x : Goto(a, l, x) /\ l # "claimWrite"
        /\ \A p : Owns(pc[a], loc[a], p) => p = loc[a].p
    BY <2>1, AfterClearMoves
  <2> QED BY <2>1, <2>2, <2>3, <2>4, WriteMove
<1> QED BY <1>1, <1>2, <1>3, <1>4 DEF Closing

LEMMA HandlerStepClaims ==
  ASSUME NamesAssumption, ClaimInv, NEW h \in Handlers, HandlerStep(h)
  PROVE  PlaceholderOwned' /\ ClaimOK'
<1> USE DEF Actors
<1>0. /\ loc[h] \in Locals /\ ActorsOK
      /\ LocalFits(KnownRuns, OverRuns, pc[h], loc[h])
  BY DEF ClaimInv, Inv, ActorsOK, LocalsOK
<1>1. ASSUME GetStatus(h) PROVE PlaceholderOwned' /\ ClaimOK'
  <2>1. UNCHANGED <<runState, etag>> /\ pc[h] = "status"
    BY <1>1 DEF GetStatus, At
  <2>2. \E l, x : Goto(h, l, x) /\ l # "claimWrite"
    BY <1>1 DEF GetStatus, Finish
  <2>3. \A p \in Pipelines : ~Owns(pc[h], loc[h], p)
    BY <2>1 DEF Owns
  <2> QED BY <2>1, <2>2, <2>3, QuietMove
<1>2. ASSUME TryClaimRead(h) PROVE PlaceholderOwned' /\ ClaimOK'
  <2>1. /\ UNCHANGED runState /\ pc[h] = "claimRead"
        /\ \A g \in Handlers \ {h} : pc'[g] = pc[g] /\ loc'[g] = loc[g]
    BY <1>0, <1>2 DEF TryClaimRead, At, Finish, Step, Goto, ActorsOK
  <2>2. PlaceholderOwned'
    <3> SUFFICES ASSUME NEW p \in Pipelines, NEW g \in Handlers, runState'[p].active = g
                 PROVE  Owns(pc'[g], loc'[g], p)
      BY DEF PlaceholderOwned
    <3>1. Owns(pc[g], loc[g], p)
      BY <2>1 DEF ClaimInv, PlaceholderOwned
    <3>2. g # h
      BY <2>1, <3>1 DEF Owns
    <3> QED BY <2>1, <3>1, <3>2
  <2>3. CASE UNCHANGED etag /\ Finish(h)
    <3>1. pc'[h] = "idle"
      BY <1>0, <2>3 DEF Finish, Goto, ActorsOK
    <3>2. ClaimOK'
      BY <2>1, <2>3, <3>1 DEF ClaimInv, ClaimOK
    <3> QED BY <2>2, <3>2
  <2>4. CASE /\ runState[loc[h].p].active = None
             /\ etag' = [etag EXCEPT ![loc[h].p] = @ \cup {h}]
             /\ Step(h, "claimWrite")
    <3>1. loc' = loc
      BY <2>4 DEF Step
    <3>2. ClaimOK'
      <4> SUFFICES ASSUME NEW p \in Pipelines, NEW g \in Handlers,
                          g \in etag'[p], pc'[g] = "claimWrite", loc[g].p = p
                   PROVE  runState[p].active = None
        BY <2>1, <3>1 DEF ClaimOK
      <4>1. CASE g = h
        BY <2>4, <4>1
      <4>2. CASE g # h
        <5>1. g \in etag[p]
          BY <2>4, <4>2 DEF ClaimInv, Inv, StoresOK
        <5> QED BY <2>1, <4>2, <5>1 DEF ClaimInv, ClaimOK
      <4> QED BY <4>1, <4>2
    <3> QED BY <2>2, <3>2
  <2> QED BY <1>2, <2>3, <2>4 DEF TryClaimRead
<1>3. ASSUME TryClaimWrite(h) PROVE PlaceholderOwned' /\ ClaimOK'
  <2>1. pc[h] = "claimWrite" /\ loc[h].p \in Pipelines
    BY <1>0, <1>3 DEF TryClaimWrite, At, LocalFits, Labels
  <2>2. \A p \in Pipelines : ~Owns(pc[h], loc[h], p)
    BY <2>1 DEF Owns
  <2>3. CASE UNCHANGED <<runState, etag>> /\ Finish(h)
    BY <2>2, <2>3, QuietMove DEF Finish
  <2>4. CASE WriteState(loc[h].p, Claimed(h, loc[h].at)) /\ Step(h, "launch")
    <3>1. Goto(h, "launch", loc[h])
      BY <1>0, <2>4, StepIsGoto
    <3>2. Claimed(h, loc[h].at).active = h /\ Owns("launch", loc[h], loc[h].p)
      BY DEF Claimed, Owns
    <3> QED BY <2>1, <2>2, <2>4, <3>1, <3>2, WriteMove
  <2> QED BY <1>3, <2>3, <2>4 DEF TryClaimWrite
<1>4. ASSUME NEW i \in Instances, StartNew(h, i) PROVE PlaceholderOwned' /\ ClaimOK'
  <2> DEFINE x == [loc[h] EXCEPT !.i = i]
  <2>1. UNCHANGED <<runState, etag>> /\ pc[h] = "launch" /\ Goto(h, "setActive", x)
    BY <1>4 DEF StartNew, At
  <2>2. x.p = loc[h].p
    BY <1>0 DEF Locals
  <2>3. \A p \in Pipelines : Owns(pc[h], loc[h], p) => Owns("setActive", x, p)
    BY <2>1, <2>2 DEF Owns
  <2> QED BY <2>1, <2>3, QuietMove
<1>5. ASSUME StartNewFails(h) \/ \E i \in Instances : StartNewReplyLost(h, i)
      PROVE  PlaceholderOwned' /\ ClaimOK'
  <2> DEFINE x == [loc[h] EXCEPT !.op = "release"]
  <2>1. UNCHANGED <<runState, etag>> /\ pc[h] = "launch" /\ Goto(h, "clearRead", x)
    BY <1>5 DEF StartNewFails, StartNewReplyLost, Release, At
  <2>2. x.p = loc[h].p /\ x.op = "release"
    BY <1>0 DEF Locals
  <2>3. \A p \in Pipelines : Owns(pc[h], loc[h], p) => Owns("clearRead", x, p)
    BY <2>1, <2>2 DEF Owns
  <2> QED BY <2>1, <2>3, QuietMove
<1>6. ASSUME SetActiveInstance(h) PROVE PlaceholderOwned' /\ ClaimOK'
  <2> DEFINE row == Activated(runState[loc[h].p], loc[h].i)
  <2>1. /\ pc[h] = "setActive" /\ WriteState(loc[h].p, row)
        /\ Goto(h, "openRow", loc[h])
    BY <1>0, <1>6, StepIsGoto DEF SetActiveInstance, At
  <2>2. loc[h].p \in Pipelines /\ loc[h].i \in Instances
    BY <1>0, <2>1 DEF LocalFits, Labels, KnownRuns
  <2>3. row.active = loc[h].i
    BY <2>2 DEF Activated, ClaimInv, Inv, StoresOK
  <2>4. row.active \notin Handlers
    BY <2>2, <2>3 DEF NamesAssumption
  <2>5. \A p \in Pipelines : Owns(pc[h], loc[h], p) => p = loc[h].p
    BY <2>1 DEF Owns
  <2> HIDE DEF row
  <2> QED BY <2>1, <2>2, <2>4, <2>5, WriteMove
<1>7. ASSUME OpenRow(h) \/ PurgeInstance(h) \/ PurgeTerminalInstances(h)
      PROVE  PlaceholderOwned' /\ ClaimOK'
  <2>1. UNCHANGED <<runState, etag>> /\ pc[h] \in {"openRow", "purge", "purgeAll"}
    BY <1>7 DEF OpenRow, PurgeInstance, PurgeTerminalInstances, At
  <2>2. Goto(h, "idle", NoLocals)
    BY <1>7 DEF OpenRow, PurgeInstance, PurgeTerminalInstances, Finish
  <2>3. \A p \in Pipelines : ~Owns(pc[h], loc[h], p)
    BY <2>1 DEF Owns
  <2> QED BY <2>1, <2>2, <2>3, QuietMove
<1>8. ASSUME DeleteRows(h) PROVE PlaceholderOwned' /\ ClaimOK'
  <2>1. UNCHANGED <<runState, etag>> /\ pc[h] = "deleteRows"
    BY <1>8 DEF DeleteRows, At
  <2>2. Goto(h, "purge", loc[h])
    BY <1>0, <1>8, StepIsGoto DEF DeleteRows
  <2>3. \A p \in Pipelines : ~Owns(pc[h], loc[h], p)
    BY <2>1 DEF Owns
  <2> QED BY <2>1, <2>2, <2>3, QuietMove
<1> QED BY <1>1, <1>2, <1>3, <1>4, <1>5, <1>6, <1>7, <1>8 DEF HandlerStep

LEMMA NextClaims ==
  ASSUME NamesAssumption, ClaimInv, [Next]_vars
  PROVE  ClaimInv'
<1> USE DEF Actors
<1>1. ASSUME NEW i \in Instances, RunStep(i) \/ Redeliver(i) \/ Die(i)
      PROVE  PlaceholderOwned' /\ ClaimOK'
  <2>1. UNCHANGED <<runState, etag>>
    BY <1>1 DEF RunStep, BodyEnds, OrchestratorReturns, Redeliver, Die
  <2>2. \A h \in Handlers : pc'[h] = pc[h] /\ loc'[h] = loc[h]
    BY <1>1 DEF RunStep, BodyEnds, OrchestratorReturns, Redeliver, Die, Record, Finish,
                Goto, ClaimInv, Inv, ActorsOK, NamesAssumption
  <2> QED BY <2>1, <2>2 DEF ClaimInv, PlaceholderOwned, ClaimOK
<1>2. ASSUME NEW h \in Handlers, Crash(h) PROVE PlaceholderOwned' /\ ClaimOK'
  <2>1. UNCHANGED <<runState, etag>> /\ Goto(h, "dead", NoLocals)
    BY <1>2 DEF Crash
  <2>2. \A p \in Pipelines : Owns("dead", NoLocals, p)
    BY DEF Owns
  <2> QED BY <2>1, <2>2, QuietMove
<1>3. ASSUME Tick \/ UNCHANGED vars PROVE PlaceholderOwned' /\ ClaimOK'
  BY <1>3 DEF Tick, vars, ClaimInv, PlaceholderOwned, ClaimOK
<1>4. Inv'
  BY NextInv DEF ClaimInv
<1> QED BY <1>1, <1>2, <1>3, <1>4, RequestClaims, HandlerStepClaims, ClosingClaims
        DEF Next, ClaimInv

THEOREM ClaimsHold == Spec => []ClaimInv
<1>1. Init => ClaimInv
  <2>1. Init => Inv
    BY InitInv, NamesAssumption
  <2>2. Init => PlaceholderOwned /\ ClaimOK
    BY NamesAssumption DEF Init, NoState, PlaceholderOwned, ClaimOK
  <2> QED BY <2>1, <2>2 DEF ClaimInv
<1>2. ClaimInv /\ [Next]_vars => ClaimInv'
  BY NextClaims, NamesAssumption
<1> QED BY <1>1, <1>2, PTL DEF Spec

(***************************************************************************)
(* No ordering of the calls leaves a claim placeholder behind without a    *)
(* start call that will replace or release it, unless that call died.      *)
(***************************************************************************)
THEOREM PlaceholderIsOwned == Spec => []PlaceholderOwned
<1>1. ClaimInv => PlaceholderOwned
  BY DEF ClaimInv
<1> QED BY <1>1, ClaimsHold, PTL

(***************************************************************************)
(* A claim takes a scope only from the idle state that it read.            *)
(***************************************************************************)
LEMMA StepTakesIdleRow ==
  ASSUME NamesAssumption, ClaimInv, [Next]_vars,
         NEW p \in Pipelines, NEW h \in Handlers,
         At(h, "claimWrite"), runState'[p].active = h
  PROVE  runState[p].active = None
<1> USE DEF Actors
<1>1. runState[p].active # h
  BY DEF ClaimInv, PlaceholderOwned, Owns, At
<1>2. runState' # runState
  BY <1>1
<1>3. \A a \in Actors : LocalFits(KnownRuns, OverRuns, pc[a], loc[a])
  BY DEF ClaimInv, Inv, LocalsOK
<1>4. ASSUME NEW g \in Handlers, TryClaimWrite(g) PROVE runState[p].active = None
  <2>1. /\ EtagMatches(g, loc[g].p) /\ pc[g] = "claimWrite"
        /\ WriteState(loc[g].p, Claimed(g, loc[g].at))
    BY <1>2, <1>4 DEF TryClaimWrite, At
  <2>2. p = loc[g].p
    BY <1>1, <2>1 DEF WriteState, ClaimInv, Inv, StoresOK
  <2> QED BY <2>1, <2>2 DEF EtagMatches, ClaimInv, ClaimOK
<1>5. ASSUME NEW g \in Handlers, SetActiveInstance(g) PROVE FALSE
  <2>1. /\ loc[g].i \in Instances
        /\ WriteState(loc[g].p, Activated(runState[loc[g].p], loc[g].i))
    BY <1>3, <1>5 DEF SetActiveInstance, At, LocalFits, KnownRuns
  <2>2. runState'[p].active \in {runState[p].active, loc[g].i}
    BY <2>1 DEF WriteState, Activated, ClaimInv, Inv, StoresOK
  <2> QED BY <1>1, <2>1, <2>2 DEF NamesAssumption
<1>6. ASSUME NEW a \in Actors, ClearWrite(a) PROVE FALSE
  <2>1. runState'[p].active \in {runState[p].active, None}
    BY <1>6 DEF ClearWrite, WriteState, Cleared, ClaimInv, Inv, StoresOK
  <2> QED BY <1>1, <2>1 DEF NamesAssumption
<1>7. ASSUME NEW g \in Handlers, Request(g) \/ Crash(g) PROVE FALSE
  BY <1>2, <1>7 DEF Request, StartGate, ReconcileState, ReviewHistory, DeleteRun,
                    ClearTerminalRuns, Crash
<1>8. ASSUME NEW g \in Handlers, HandlerStep(g) PROVE runState[p].active = None
  BY <1>2, <1>4, <1>5, <1>8
     DEF HandlerStep, GetStatus, TryClaimRead, StartNew, StartNewFails,
         StartNewReplyLost, OpenRow, DeleteRows, PurgeInstance, PurgeTerminalInstances
<1>9. ASSUME NEW a \in Actors, Closing(a) PROVE FALSE
  BY <1>2, <1>6, <1>9 DEF Closing, CloseQuery, CloseWrite, ClearRead
<1>10. ASSUME NEW j \in Instances, RunStep(j) \/ Redeliver(j) \/ Die(j) PROVE FALSE
  BY <1>2, <1>10 DEF RunStep, BodyEnds, OrchestratorReturns, Redeliver, Die
<1>11. CASE Tick \/ UNCHANGED vars
  BY <1>2, <1>11 DEF Tick, vars
<1> QED BY <1>7, <1>8, <1>9, <1>10, <1>11 DEF Next

THEOREM ClaimsTakeIdleRows == Spec => ClaimTakesIdleRow
<1>1. ClaimInv /\ [Next]_vars =>
        [\A p \in Pipelines, h \in Handlers :
           At(h, "claimWrite") /\ runState'[p].active = h =>
             runState[p].active = None]_vars
  BY StepTakesIdleRow, NamesAssumption
<1> QED BY <1>1, ClaimsHold, PTL DEF Spec, ClaimTakesIdleRow

-----------------------------------------------------------------------------
(***************************************************************************)
(* Outcomes.  A run whose row was open while it was at work: its start     *)
(* call has written all it has to write, so the row is closed before       *)
(* Durable knows the outcome, and whoever looks later finds no running row *)
(* to close.                                                               *)
(***************************************************************************)
ClosingLabels == {"closeQuery", "closeWrite", "clearRead", "clearWrite"}
OpeningLabels == {"setActive", "openRow"}

\* The body's outcome is known when it is over
OutsOK ==
  \A i \in Instances :
    /\ run[i].phase \in {"absent", "body"} => run[i].out = "none"
    /\ run[i].phase \in {"ended", "Completed"} => run[i].out # "none"

\* The completion activity of a run works on that run, with what the body returned
RecordersOK ==
  \A i \in Instances :
    /\ pc[i] \in ClosingLabels \cup {"recorded", "idle", "dead"}
    /\ pc[i] \in ClosingLabels \cup {"recorded"} => run[i].phase = "ended"
    /\ pc[i] \in ClosingLabels =>
         loc[i].op = "record" /\ loc[i].i = i /\ loc[i].p = run[i].pipe
    /\ pc[i] \in {"closeQuery", "closeWrite"} => loc[i].res = Reported(run[i].out)

\* A start call that has yet to open the row of its run is the only one, and
\* the row is neither there nor about to be written by somebody else
OpeningFits(l) ==
  /\ history[l.i].status = "none"
  /\ \A a \in Actors : ~(pc[a] = "closeWrite" /\ loc[a].i = l.i)

OpeningOK ==
  \A h \in Handlers : pc[h] \in OpeningLabels =>
    /\ OpeningFits(loc[h])
    /\ \A g \in Handlers : pc[g] \in OpeningLabels /\ loc[g].i = loc[h].i => g = h

RecInv == OutsOK /\ RecordersOK /\ OpeningOK

\* Once the completion of the run is recorded it has no running row
RecordedOK(r) ==
  pc[r] \in {"clearRead", "clearWrite", "recorded"} \/ run[r].phase = "Completed" =>
    ~IsRunning(history[r])

\* Nobody opens the row of the run any more; a call that closes it as completed
\* does so for a run that completed, or will find no running row
OutcomeFits(r, label, l) ==
  l.i = r =>
    /\ label \notin OpeningLabels
    /\ label \in {"closeQuery", "closeWrite"} /\ l.res = "completed" =>
         /\ run[r].out # "none"
         /\ \/ run[r].out = "completed"
            \/ label = "closeQuery" /\ ~IsRunning(history[r])

CallsOK(r) == \A a \in Actors : OutcomeFits(r, pc[a], loc[a])

Settled(r) ==
  /\ run[r].phase # "absent"
  /\ RecordedOK(r)
  /\ CallsOK(r)
  /\ Faithful(r)

LEMMA Moves ==
  ASSUME ActorsOK, NEW a \in Actors, NEW l, NEW x, Goto(a, l, x)
  PROVE  /\ pc'[a] = l /\ loc'[a] = x
         /\ \A b \in Actors \ {a} : pc'[b] = pc[b] /\ loc'[b] = loc[b]
  BY DEF ActorsOK, Goto

LEMMA FreeLabelFits ==
  ASSUME NEW r, NEW l, l \notin OpeningLabels \cup {"closeQuery", "closeWrite"}, NEW x
  PROVE  OutcomeFits(r, l, x) /\ OutcomeFits(r, l, x)'
  BY DEF OutcomeFits

\* The calls that do not move stay right when the outcome stays and the row does
\* not open
LEMMA CallsKept ==
  ASSUME Inv, NEW r \in Instances, CallsOK(r), NEW a \in Actors, NEW l, NEW x, Goto(a, l, x),
         OutcomeFits(r, l, x)',
         run'[r].out = run[r].out,
         IsRunning(history'[r]) => IsRunning(history[r])
  PROVE  CallsOK(r)'
<1>1. /\ pc'[a] = l /\ loc'[a] = x
      /\ \A b \in Actors \ {a} : pc'[b] = pc[b] /\ loc'[b] = loc[b]
  BY Moves DEF Inv
<1> SUFFICES ASSUME NEW b \in Actors PROVE OutcomeFits(r, pc[b], loc[b])'
  BY DEF CallsOK
<1>2. CASE b = a
  BY <1>1, <1>2 DEF OutcomeFits
<1>3. CASE b # a
  <2>1. OutcomeFits(r, pc[b], loc[b])
    BY DEF CallsOK
  <2> QED BY <1>1, <1>3, <2>1 DEF OutcomeFits
<1> QED BY <1>2, <1>3

\* The invariants of the recording, kept by a move of one actor

LEMMA OpeningKept ==
  ASSUME Inv, OpeningOK, NEW a \in Actors, NEW l, NEW x, Goto(a, l, x),
         \A g \in Handlers : pc[g] \in OpeningLabels /\ g # a =>
           history'[loc[g].i].status = "none",
         l \in OpeningLabels => pc[a] = "setActive" /\ x = loc[a] /\ history' = history,
         l = "closeWrite" => IsRunning(history[x.i])
  PROVE  OpeningOK'
<1>1. /\ pc'[a] = l /\ loc'[a] = x
      /\ \A b \in Actors \ {a} : pc'[b] = pc[b] /\ loc'[b] = loc[b]
  BY Moves DEF Inv
<1>2. \A g \in Handlers : g \in Actors
  BY DEF Actors
<1>3. \A g \in Handlers : (pc[g] \in OpeningLabels)' =>
        pc[g] \in OpeningLabels /\ loc'[g] = loc[g] /\ history'[loc[g].i].status = "none"
  BY <1>1, <1>2 DEF OpeningOK, OpeningFits, OpeningLabels
<1>4. ASSUME NEW g \in Handlers, (pc[g] \in OpeningLabels)', NEW b \in Actors,
             (pc[b] = "closeWrite" /\ loc[b].i = loc[g].i)'
      PROVE  FALSE
  <2>1. CASE b = a
    BY <1>1, <1>3, <1>4, <2>1 DEF OpeningOK, OpeningFits, IsRunning
  <2>2. CASE b # a
    BY <1>1, <1>3, <1>4, <2>2 DEF OpeningOK, OpeningFits
  <2> QED BY <2>1, <2>2
<1> QED BY <1>3, <1>4 DEF OpeningOK, OpeningFits

LEMMA RecordersRest ==
  ASSUME NamesAssumption, Inv, RecordersOK, NEW h \in Handlers, NEW l, NEW x, Goto(h, l, x),
         \A i \in Instances : run[i].phase = "ended" => run'[i] = run[i]
  PROVE  RecordersOK'
<1>1. \A i \in Instances : pc'[i] = pc[i] /\ loc'[i] = loc[i]
  BY Moves DEF Inv, Actors, NamesAssumption
<1> QED BY <1>1 DEF RecordersOK, ClosingLabels

LEMMA HandlerStepRec ==
  ASSUME NamesAssumption, Inv, RecInv, NEW h \in Handlers, HandlerStep(h)
  PROVE  RecInv'
<1>0. /\ ActorsOK /\ h \in Actors /\ loc[h] \in Locals /\ RunOK /\ StoresOK
      /\ LocalFits(KnownRuns, OverRuns, pc[h], loc[h])
      /\ OutsOK /\ RecordersOK /\ OpeningOK
  BY DEF Inv, Actors, ActorsOK, LocalsOK, RecInv
<1>1. ASSUME UNCHANGED run, NEW l, NEW x, Goto(h, l, x),
             \A g \in Handlers : pc[g] \in OpeningLabels /\ g # h =>
               history'[loc[g].i].status = "none",
             l \in OpeningLabels => pc[h] = "setActive" /\ x = loc[h] /\ history' = history,
             l # "closeWrite"
      PROVE  RecInv'
  BY <1>0, <1>1, OpeningKept, RecordersRest DEF RecInv, OutsOK
<1>2. \A g \in Handlers : pc[g] \in OpeningLabels => history[loc[g].i].status = "none"
  BY <1>0 DEF OpeningOK, OpeningFits
<1>3. ASSUME GetStatus(h) \/ TryClaimRead(h) \/ TryClaimWrite(h) \/ StartNewFails(h)
      PROVE  RecInv'
  <2>1. UNCHANGED <<run, history>>
    BY <1>3 DEF GetStatus, TryClaimRead, TryClaimWrite, StartNewFails
  <2>2. \E x : \E l \in {"idle", "closeQuery", "claimWrite", "launch", "clearRead"} :
          Goto(h, l, x)
    BY <1>0, <1>3, StepIsGoto
       DEF GetStatus, TryClaimRead, TryClaimWrite, StartNewFails, Finish, Release
  <2> QED BY <1>1, <1>2, <2>1, <2>2 DEF OpeningLabels
<1>4. ASSUME SetActiveInstance(h) PROVE RecInv'
  <2>1. UNCHANGED <<run, history>> /\ pc[h] = "setActive" /\ Goto(h, "openRow", loc[h])
    BY <1>0, <1>4, StepIsGoto DEF SetActiveInstance, At
  <2> QED BY <1>1, <1>2, <2>1
\* a launch
<1>5. ASSUME NEW i \in Instances, run[i].phase = "absent", Launched(h, i), history' = history,
             NEW l \in {"setActive", "clearRead"}, NEW x, Goto(h, l, x),
             l = "setActive" => x.i = i
      PROVE  RecInv'
  <2>1. /\ run'[i].phase = "body" /\ run'[i].out = "none"
        /\ \A j \in Instances \ {i} : run'[j] = run[j]
    BY <1>0, <1>5 DEF Launched, RunOK
  <2>2. OutsOK' /\ RecordersOK'
    BY <1>0, <1>5, <2>1, RecordersRest DEF OutsOK
  <2>3. CASE l = "clearRead"
    BY <1>0, <1>2, <1>5, <2>2, <2>3, OpeningKept DEF RecInv, OpeningLabels
  <2>4. CASE l = "setActive"
    <3>1. /\ pc'[h] = "setActive" /\ loc'[h] = x /\ x.i = i
          /\ \A b \in Actors \ {h} : pc'[b] = pc[b] /\ loc'[b] = loc[b]
      BY <1>0, <1>5, <2>4, Moves
    <3>2. history[i].status = "none"
      BY <1>5 DEF Inv, RowsOK, KnownRuns
    <3>3. \A b \in Actors : pc[b] \in OpeningLabels \cup {"closeWrite"} => loc[b].i # i
      BY <1>5 DEF Inv, LocalsOK, LocalFits, KnownRuns, OverRuns, OpeningLabels
    <3>4. OpeningOK'
      BY <1>0, <1>5, <3>1, <3>2, <3>3 DEF OpeningOK, OpeningFits, OpeningLabels, Actors
    <3> QED BY <2>2, <3>4 DEF RecInv
  <2> QED BY <2>3, <2>4
<1>6. ASSUME NEW i \in Instances, StartNew(h, i) \/ StartNewReplyLost(h, i)
      PROVE  RecInv'
  <2>1. [loc[h] EXCEPT !.i = i].i = i
    BY <1>0 DEF Locals
  <2> QED BY <1>5, <1>6, <2>1 DEF StartNew, StartNewReplyLost, Release
\* a write of the history
<1>7. ASSUME OpenRow(h) PROVE RecInv'
  <2>1. run' = run /\ Goto(h, "idle", NoLocals) /\ pc[h] = "openRow"
    BY <1>7 DEF OpenRow, Finish, At
  <2>2. \A g \in Handlers : pc[g] \in OpeningLabels /\ g # h => loc[g].i # loc[h].i
    BY <1>0, <2>1 DEF OpeningOK, OpeningLabels
  <2>3. \A i \in Instances \ {loc[h].i} : history'[i] = history[i]
    BY <1>0, <1>7 DEF OpenRow, StoresOK
  <2>4. \A g \in Handlers : pc[g] \in OpeningLabels => loc[g].i \in Instances
    BY DEF Inv, LocalsOK, LocalFits, KnownRuns, OpeningLabels, Actors
  <2>5. \A g \in Handlers : pc[g] \in OpeningLabels /\ g # h =>
          history'[loc[g].i].status = "none"
    BY <1>2, <2>2, <2>3, <2>4
  <2> QED BY <1>1, <2>1, <2>5 DEF OpeningLabels
<1>8. ASSUME DeleteRows(h) PROVE RecInv'
  <2>1. run' = run /\ Goto(h, "purge", loc[h])
    BY <1>0, <1>8, StepIsGoto DEF DeleteRows
  <2>2. \A i \in Instances : history'[i] \in {history[i], NoRow}
    BY <1>0, <1>8 DEF DeleteRows, StoresOK
  <2>3. \A g \in Handlers : pc[g] \in OpeningLabels => loc[g].i \in Instances
    BY DEF Inv, LocalsOK, LocalFits, KnownRuns, OpeningLabels, Actors
  <2>4. \A g \in Handlers : pc[g] \in OpeningLabels => history'[loc[g].i].status = "none"
    BY <1>2, <2>2, <2>3 DEF NoRow
  <2> QED BY <1>1, <2>1, <2>4 DEF OpeningLabels
\* a purge of runs that are over
<1>9. ASSUME PurgeInstance(h) \/ PurgeTerminalInstances(h) PROVE RecInv'
  <2>1. history' = history /\ Goto(h, "idle", NoLocals)
    BY <1>9 DEF PurgeInstance, PurgeTerminalInstances, Finish
  <2>2. \A i \in Instances :
          \/ run'[i] = run[i]
          \/ /\ run[i].phase \in {"Completed", "Failed"} /\ run'[i].phase = "Purged"
             /\ run'[i].out = run[i].out
    BY <1>0, <1>9 DEF PurgeInstance, PurgeTerminalInstances, Purged, RunOK
  <2>3. OutsOK'
    BY <1>0, <2>2 DEF OutsOK
  <2>4. RecordersOK'
    BY <1>0, <2>1, <2>2, RecordersRest
  <2>5. OpeningOK'
    BY <1>0, <1>2, <2>1, OpeningKept DEF OpeningLabels
  <2> QED BY <2>3, <2>4, <2>5 DEF RecInv
<1> QED BY <1>3, <1>4, <1>6, <1>7, <1>8, <1>9 DEF HandlerStep

LEMMA RequestRec ==
  ASSUME NamesAssumption, Inv, RecInv, NEW h \in Handlers, Request(h)
  PROVE  RecInv'
<1>1. run' = run
  BY DEF Request, StartGate, ReconcileState, ReviewHistory, DeleteRun, ClearTerminalRuns
<1>2. \A i \in Instances : history[i].status = "none" => history'[i].status = "none"
  BY DEF Request, StartGate, ReconcileState, ReviewHistory, DeleteRun, ClearTerminalRuns, NoRow
<1>3. \A g \in Handlers : pc[g] \in OpeningLabels => history'[loc[g].i].status = "none"
  BY <1>2 DEF RecInv, OpeningOK, OpeningFits, Inv, LocalsOK, LocalFits, KnownRuns,
              OpeningLabels, Actors
<1>4. \E x : \E l \in {"claimRead", "status", "deleteRows", "purgeAll"} : Goto(h, l, x)
  BY DEF Request, StartGate, ReconcileState, ReviewHistory, DeleteRun, ClearTerminalRuns
<1>5. OpeningOK'
  BY <1>3, <1>4, OpeningKept DEF RecInv, OpeningLabels, Actors
<1>6. RecordersOK'
  BY <1>1, <1>4, RecordersRest DEF RecInv
<1> QED BY <1>1, <1>5, <1>6 DEF RecInv, OutsOK

LEMMA RunStepRec ==
  ASSUME NamesAssumption, Inv, RecInv,
         NEW i \in Instances, RunStep(i) \/ Redeliver(i) \/ Die(i)
  PROVE  RecInv'
<1>0. ActorsOK /\ i \in Actors /\ RunOK /\ history' = history
      /\ OutsOK /\ RecordersOK /\ OpeningOK
  BY DEF Inv, Actors, RecInv, RunStep, BodyEnds, OrchestratorReturns, Redeliver, Die
<1>1. \A g \in Handlers : pc[g] \in OpeningLabels => history[loc[g].i].status = "none"
  BY <1>0 DEF OpeningOK, OpeningFits
<1>2. \A j \in Instances \ {i} : run'[j] = run[j]
  BY <1>0 DEF RunStep, BodyEnds, OrchestratorReturns, Redeliver, Die, RunOK
<1>3. PICK l, x :
        /\ Goto(i, l, x)
        /\ \/ /\ l = "closeQuery" /\ run'[i].phase = "ended" /\ run'[i].out \in Outcomes
              /\ x.op = "record" /\ x.i = i /\ x.p = run'[i].pipe
              /\ x.res = Reported(run'[i].out)
           \/ /\ l \in {"idle", "dead"} /\ run'[i].phase \in {"Failed", "Completed"}
              /\ run'[i].out = run[i].out
              /\ run'[i].phase = "Completed" => run[i].phase = "ended"
  <2>1. ASSUME NEW out \in Outcomes, BodyEnds(i, out) \/ (Redeliver(i) /\ out = run[i].out)
        PROVE  \E l, x :
                 /\ Goto(i, l, x)
                 /\ l = "closeQuery" /\ run'[i].phase = "ended" /\ run'[i].out \in Outcomes
                 /\ x.op = "record" /\ x.i = i /\ x.p = run'[i].pipe
                 /\ x.res = Reported(run'[i].out)
    <3>1. PICK x : x = [Begin("record", run[i].pipe, i, None) EXCEPT !.res = Reported(out)]
      OBVIOUS
    <3>2. Goto(i, "closeQuery", x)
      BY <2>1, <3>1 DEF BodyEnds, Redeliver, Record
    <3>3. run'[i].phase = "ended" /\ run'[i].out = out /\ run'[i].pipe = run[i].pipe
      BY <1>0, <2>1 DEF BodyEnds, Redeliver, RunOK
    <3>4. x.op = "record" /\ x.p = run[i].pipe /\ x.i = i /\ x.res = Reported(out)
      BY <3>1 DEF Begin
    <3> QED BY <3>2, <3>3, <3>4
  <2>2. Redeliver(i) => run[i].out \in Outcomes
    BY <1>0 DEF Redeliver, OutsOK, RunOK
  <2>3. CASE OrchestratorReturns(i) \/ Die(i)
    BY <1>0, <2>3 DEF OrchestratorReturns, Die, Finish, RunOK
  <2> QED BY <2>1, <2>2, <2>3 DEF RunStep
<1>4. /\ pc'[i] = l /\ loc'[i] = x
      /\ \A b \in Actors \ {i} : pc'[b] = pc[b] /\ loc'[b] = loc[b]
  BY <1>0, <1>3, Moves
<1>5. OutsOK'
  BY <1>0, <1>2, <1>3 DEF OutsOK, Outcomes
<1>6. RecordersOK'
  BY <1>0, <1>2, <1>3, <1>4 DEF RecordersOK, ClosingLabels, Actors
<1>7. OpeningOK'
  BY <1>0, <1>1, <1>3, OpeningKept DEF OpeningLabels
<1> QED BY <1>5, <1>6, <1>7 DEF RecInv

LEMMA ClosingRec ==
  ASSUME NamesAssumption, Inv, RecInv, NEW a \in Actors, Closing(a)
  PROVE  RecInv'
<1>0. /\ ActorsOK /\ StoresOK /\ loc[a] \in Locals /\ run' = run
      /\ LocalFits(KnownRuns, OverRuns, pc[a], loc[a])
      /\ OutsOK /\ RecordersOK /\ OpeningOK
  BY DEF Inv, ActorsOK, LocalsOK, RecInv, Closing, CloseQuery, CloseWrite, ClearRead, ClearWrite
<1>1. PICK l, x :
        /\ Goto(a, l, x)
        /\ pc[a] \in ClosingLabels
        /\ l \in {"closeWrite", "clearRead", "clearWrite", "claimRead", "deleteRows",
                  "recorded", "idle"}
        /\ l \in {"claimRead", "deleteRows", "idle"} => loc[a].op # "record"
        /\ l \in {"closeWrite", "clearRead", "clearWrite"} =>
             x.op = loc[a].op /\ x.i = loc[a].i /\ x.p = loc[a].p
        /\ l = "closeWrite" =>
             pc[a] = "closeQuery" /\ x = loc[a] /\ IsRunning(history[x.i])
  <2>1. CASE CloseQuery(a) \/ CloseWrite(a)
    BY <1>0, <2>1, StepIsGoto DEF CloseQuery, CloseWrite, At, ClosingLabels
  <2>2. CASE ClearRead(a) \/ ClearWrite(a)
    BY <1>0, <2>2 DEF ClearRead, ClearWrite, AfterClear, Finish, Locals, At, ClosingLabels
  <2> QED BY <2>1, <2>2 DEF Closing
<1>2. /\ pc'[a] = l /\ loc'[a] = x
      /\ \A b \in Actors \ {a} : pc'[b] = pc[b] /\ loc'[b] = loc[b]
  BY <1>0, <1>1, Moves
<1>3. OutsOK'
  BY <1>0 DEF OutsOK
<1>4. RecordersOK'
  BY <1>0, <1>1, <1>2 DEF RecordersOK, ClosingLabels, Actors
<1>5. \A g \in Handlers : pc[g] \in OpeningLabels =>
        loc[g].i \in Instances /\ history[loc[g].i].status = "none"
  BY <1>0 DEF Inv, LocalsOK, LocalFits, KnownRuns, OpeningOK, OpeningFits, OpeningLabels, Actors
<1>6. \A g \in Handlers : pc[g] \in OpeningLabels => history'[loc[g].i].status = "none"
  <2>1. CASE history' = history
    BY <1>5, <2>1
  <2>2. CASE CloseWrite(a)
    <3>1. \A i \in Instances \ {loc[a].i} : history'[i] = history[i]
      BY <1>0, <2>2 DEF CloseWrite, StoresOK
    <3>2. \A g \in Handlers : pc[g] \in OpeningLabels => loc[g].i # loc[a].i
      BY <1>0, <2>2 DEF CloseWrite, At, OpeningOK, OpeningFits
    <3> QED BY <1>5, <3>1, <3>2
  <2> QED BY <2>1, <2>2 DEF Closing, CloseQuery, ClearRead, ClearWrite
<1>7. OpeningOK'
  BY <1>0, <1>1, <1>6, OpeningKept DEF OpeningLabels
<1> QED BY <1>3, <1>4, <1>7 DEF RecInv

LEMMA NextRec ==
  ASSUME NamesAssumption, Inv, RecInv, [Next]_vars
  PROVE  RecInv'
<1>1. ASSUME NEW h \in Handlers, Crash(h) PROVE RecInv'
  <2>1. UNCHANGED <<run, history>> /\ Goto(h, "dead", NoLocals) /\ h \in Actors
    BY <1>1 DEF Crash, Actors
  <2>2. \A g \in Handlers : pc[g] \in OpeningLabels => history[loc[g].i].status = "none"
    BY DEF RecInv, OpeningOK, OpeningFits
  <2>3. OpeningOK'
    BY <2>1, <2>2, OpeningKept DEF RecInv, OpeningLabels
  <2>4. RecordersOK'
    BY <2>1, RecordersRest DEF RecInv
  <2> QED BY <2>1, <2>3, <2>4 DEF RecInv, OutsOK
<1>2. CASE Tick \/ UNCHANGED vars
  <2>1. UNCHANGED <<run, history, pc, loc>>
    BY <1>2 DEF Tick, vars
  <2> QED BY <2>1 DEF RecInv, OutsOK, RecordersOK, OpeningOK, OpeningFits
<1> QED BY <1>1, <1>2, RequestRec, HandlerStepRec, ClosingRec, RunStepRec DEF Next

LEMMA RecHolds == Spec => []RecInv
<1>1. Init => RecInv
  <2> SUFFICES ASSUME Init PROVE RecInv
    OBVIOUS
  <2>1. /\ \A a \in Actors : pc[a] = "idle"
        /\ \A i \in Instances : run[i] = NoRun /\ i \in Actors
        /\ \A h \in Handlers : h \in Actors
    BY DEF Init, Actors
  <2> QED BY <2>1 DEF RecInv, OutsOK, RecordersOK, OpeningOK, NoRun, ClosingLabels, OpeningLabels
<1>2. Inv /\ RecInv /\ [Next]_vars => RecInv'
  BY NextRec, NamesAssumption
<1> QED BY <1>1, <1>2, InvHolds, PTL DEF Spec

\* What is settled about a run stays so

LEMMA SettledKept ==
  ASSUME NamesAssumption, Inv, NEW r \in Instances, Settled(r),
         NEW h \in Handlers, NEW l, NEW x, Goto(h, l, x), OutcomeFits(r, l, x)',
         run'[r].out = run[r].out, run'[r].phase \in {run[r].phase, "Purged"},
         history'[r] \in {history[r], NoRow}
  PROVE  Settled(r)'
<1>1. pc'[r] = pc[r] /\ r # h
  BY Moves DEF Inv, Actors, NamesAssumption
<1>2. IsRunning(history'[r]) => IsRunning(history[r])
  BY DEF IsRunning, NoRow
<1>3. CallsOK(r)'
  BY <1>2, CallsKept DEF Settled, Actors
<1>4. RecordedOK(r)'
  BY <1>1, <1>2 DEF Settled, RecordedOK
<1>5. Faithful(r)'
  BY DEF Settled, Faithful, NoRow
<1> QED BY <1>3, <1>4, <1>5 DEF Settled

LEMMA RequestSettled ==
  ASSUME NamesAssumption, Inv, NEW r \in Instances, Settled(r),
         NEW h \in Handlers, Request(h)
  PROVE  Settled(r)'
<1>1. run' = run
  BY DEF Request, StartGate, ReconcileState, ReviewHistory, DeleteRun, ClearTerminalRuns
<1>2. history'[r] \in {history[r], NoRow}
  BY DEF Request, StartGate, ReconcileState, ReviewHistory, DeleteRun, ClearTerminalRuns
<1>3. \E x : \E l \in {"claimRead", "status", "deleteRows", "purgeAll"} : Goto(h, l, x)
  BY DEF Request, StartGate, ReconcileState, ReviewHistory, DeleteRun, ClearTerminalRuns
<1> QED BY <1>1, <1>2, <1>3, FreeLabelFits, SettledKept DEF OpeningLabels

LEMMA HandlerStepSettled ==
  ASSUME NamesAssumption, Inv, RecInv, NEW r \in Instances, Settled(r),
         NEW h \in Handlers, HandlerStep(h)
  PROVE  Settled(r)'
<1>0. /\ ActorsOK /\ h \in Actors /\ loc[h] \in Locals /\ RunOK /\ StoresOK
      /\ OutcomeFits(r, pc[h], loc[h]) /\ LocalFits(KnownRuns, OverRuns, pc[h], loc[h])
      /\ OutsOK
  BY DEF Inv, Actors, ActorsOK, LocalsOK, RecInv, Settled, CallsOK
\* a call that is not at the status of the run, nor opens a row
<1>1. ASSUME NEW l, NEW x, Goto(h, l, x), l \notin OpeningLabels \cup {"closeQuery", "closeWrite"},
             run'[r].out = run[r].out, run'[r].phase \in {run[r].phase, "Purged"},
             history'[r] \in {history[r], NoRow}
      PROVE  Settled(r)'
  BY <1>1, FreeLabelFits, SettledKept
<1>2. ASSUME TryClaimRead(h) \/ TryClaimWrite(h) \/ StartNewFails(h) \/ DeleteRows(h)
      PROVE  Settled(r)'
  <2>1. run' = run /\ history'[r] \in {history[r], NoRow}
    BY <1>0, <1>2 DEF TryClaimRead, TryClaimWrite, StartNewFails, DeleteRows, StoresOK
  <2>2. \E x : \E l \in {"idle", "claimWrite", "launch", "clearRead", "purge"} : Goto(h, l, x)
    BY <1>0, <1>2, StepIsGoto
       DEF TryClaimRead, TryClaimWrite, StartNewFails, DeleteRows, Finish, Release
  <2> QED BY <1>1, <2>1, <2>2 DEF OpeningLabels
<1>3. ASSUME GetStatus(h) PROVE Settled(r)'
  <2>1. UNCHANGED <<run, history>> /\ pc[h] = "status"
    BY <1>3 DEF GetStatus, At
  <2>2. CASE Finish(h)
    BY <1>1, <2>1, <2>2 DEF Finish, OpeningLabels
  <2>3. CASE /\ ~Live(loc[h].i)
             /\ Goto(h, "closeQuery", [loc[h] EXCEPT !.res = OutcomeFromStatus(loc[h].i)])
    <3>0. PICK x : /\ x = [loc[h] EXCEPT !.res = OutcomeFromStatus(loc[h].i)]
                   /\ Goto(h, "closeQuery", x)
      BY <2>3
    <3>1. x.i = loc[h].i /\ x.res = OutcomeFromStatus(loc[h].i)
      BY <1>0, <3>0 DEF Locals
    <3>2. OutcomeFits(r, "closeQuery", x)'
      BY <1>0, <2>1, <3>1
         DEF OutcomeFits, OutcomeFromStatus, OutsOK, Settled, RecordedOK, OpeningLabels
    <3> QED BY <2>1, <3>0, <3>2, SettledKept
  <2> QED BY <1>3, <2>2, <2>3 DEF GetStatus
<1>4. ASSUME SetActiveInstance(h) PROVE Settled(r)'
  <2>1. UNCHANGED <<run, history>> /\ pc[h] = "setActive"
    BY <1>4 DEF SetActiveInstance, At
  <2>2. PICK x : x = loc[h] /\ Goto(h, "openRow", x)
    BY <1>0, <1>4, StepIsGoto DEF SetActiveInstance
  <2>3. OutcomeFits(r, "openRow", x)'
    <3>1. x.i # r
      BY <1>0, <2>1, <2>2 DEF OutcomeFits, OpeningLabels
    <3> QED BY <3>1 DEF OutcomeFits
  <2>4. /\ run'[r].out = run[r].out /\ run'[r].phase \in {run[r].phase, "Purged"}
        /\ history'[r] \in {history[r], NoRow} /\ Goto(h, "openRow", x)
    BY <2>1, <2>2
  <2> QED BY <2>3, <2>4, SettledKept
\* a launch: the run itself was launched before
<1>5. ASSUME NEW i \in Instances, StartNew(h, i) \/ StartNewReplyLost(h, i)
      PROVE  Settled(r)'
  <2>1. i # r /\ run'[r] = run[r] /\ history' = history
    BY <1>0, <1>5 DEF StartNew, StartNewReplyLost, Launched, Settled, RunOK
  <2>2. PICK l, x : /\ Goto(h, l, x)
                    /\ l = "clearRead" \/ (l = "setActive" /\ x.i = i)
    <3>1. [loc[h] EXCEPT !.i = i].i = i
      BY <1>0 DEF Locals
    <3> QED BY <1>5, <3>1 DEF StartNew, StartNewReplyLost, Release
  <2>3. OutcomeFits(r, l, x)'
    BY <2>1, <2>2 DEF OutcomeFits, OpeningLabels
  <2> QED BY <2>1, <2>2, <2>3, SettledKept
<1>6. ASSUME OpenRow(h) PROVE Settled(r)'
  <2>1. run' = run /\ Goto(h, "idle", NoLocals) /\ pc[h] = "openRow"
    BY <1>6 DEF OpenRow, Finish, At
  <2>2. loc[h].i # r
    BY <1>0, <2>1 DEF OutcomeFits, OpeningLabels
  <2>3. history'[r] = history[r]
    BY <1>0, <1>6, <2>2 DEF OpenRow, StoresOK
  <2> QED BY <1>1, <2>1, <2>3 DEF OpeningLabels
<1>7. ASSUME PurgeInstance(h) \/ PurgeTerminalInstances(h) PROVE Settled(r)'
  <2>1. history' = history /\ Goto(h, "idle", NoLocals)
    BY <1>7 DEF PurgeInstance, PurgeTerminalInstances, Finish
  <2>2. run'[r].out = run[r].out /\ run'[r].phase \in {run[r].phase, "Purged"}
    BY <1>0, <1>7 DEF PurgeInstance, PurgeTerminalInstances, Purged, RunOK
  <2> QED BY <1>1, <2>1, <2>2 DEF OpeningLabels
<1> QED BY <1>2, <1>3, <1>4, <1>5, <1>6, <1>7 DEF HandlerStep

LEMMA RunStepSettled ==
  ASSUME NamesAssumption, Inv, RecInv, NEW r \in Instances, Settled(r),
         NEW i \in Instances, RunStep(i) \/ Redeliver(i) \/ Die(i)
  PROVE  Settled(r)'
<1>0. /\ ActorsOK /\ i \in Actors /\ r \in Actors /\ RunOK /\ history' = history
      /\ OutsOK /\ RecordersOK
  BY DEF Inv, Actors, RecInv, RunStep, BodyEnds, OrchestratorReturns, Redeliver, Die
<1>1. ASSUME NEW out \in Outcomes, BodyEnds(i, out) \/ (Redeliver(i) /\ out = run[i].out)
      PROVE  Settled(r)'
  <2>0. PICK x : x = [Begin("record", run[i].pipe, i, None) EXCEPT !.res = Reported(out)]
    OBVIOUS
  <2>1. Goto(i, "closeQuery", x)
    BY <1>1, <2>0 DEF BodyEnds, Redeliver, Record
  <2>2. /\ run'[i].phase = "ended" /\ run'[i].out = out
        /\ \A j \in Instances \ {i} : run'[j] = run[j]
    BY <1>0, <1>1 DEF BodyEnds, Redeliver, RunOK
  <2>3. x.i = i /\ x.res = Reported(out)
    BY <2>0 DEF Begin
  <2>4. /\ pc'[i] = "closeQuery" /\ loc'[i] = x
        /\ \A b \in Actors \ {i} : pc'[b] = pc[b] /\ loc'[b] = loc[b]
    BY <1>0, <2>1, Moves
  <2>5. OutcomeFits(r, "closeQuery", x)'
    BY <2>2, <2>3 DEF OutcomeFits, OpeningLabels, Reported, Outcomes
  <2>6. RecordedOK(r)'
    BY <1>0, <2>2, <2>4 DEF Settled, RecordedOK
  <2>7. CASE run'[r].out = run[r].out
    <3>1. CallsOK(r)'
      BY <1>0, <2>1, <2>5, <2>7, CallsKept DEF Settled
    <3> QED BY <1>0, <2>2, <2>6, <2>7, <3>1 DEF Settled, Faithful
  <2>8. CASE run'[r].out # run[r].out
    <3>1. i = r /\ run[r].phase = "body" /\ run[r].out = "none"
      BY <1>0, <1>1, <2>2, <2>8 DEF BodyEnds, OutsOK
    <3>2. CallsOK(r)'
      <4> SUFFICES ASSUME NEW b \in Actors PROVE OutcomeFits(r, pc[b], loc[b])'
        BY DEF CallsOK
      <4>1. CASE b = i
        BY <2>4, <2>5, <4>1 DEF OutcomeFits
      <4>2. CASE b # i
        <5>1. OutcomeFits(r, pc[b], loc[b]) /\ LocalFits(KnownRuns, OverRuns, pc[b], loc[b])
          BY DEF Settled, CallsOK, Inv, LocalsOK
        <5>2. pc[b] \in {"closeQuery", "closeWrite"} => loc[b].i # r
          BY <3>1, <5>1 DEF LocalFits, OverRuns
        <5> QED BY <2>4, <4>2, <5>1, <5>2 DEF OutcomeFits
      <4> QED BY <4>1, <4>2
    <3>3. Faithful(r)'
      BY <1>0, <3>1 DEF Settled, Faithful
    <3> QED BY <2>2, <2>6, <3>1, <3>2, <3>3 DEF Settled
  <2> QED BY <2>7, <2>8
<1>2. ASSUME OrchestratorReturns(i) \/ Die(i) PROVE Settled(r)'
  <2>1. PICK l : l \in {"idle", "dead"} /\ Goto(i, l, NoLocals)
    BY <1>2 DEF OrchestratorReturns, Die, Finish
  <2>2. /\ run'[i].phase \in {"Failed", "Completed"} /\ run'[i].out = run[i].out
        /\ run'[i].phase = "Completed" => pc[i] = "recorded"
        /\ \A j \in Instances \ {i} : run'[j] = run[j]
    BY <1>0, <1>2 DEF OrchestratorReturns, Die, RunOK, At
  <2>3. /\ pc'[i] = l
        /\ \A b \in Actors \ {i} : pc'[b] = pc[b] /\ loc'[b] = loc[b]
    BY <1>0, <2>1, Moves
  <2>4. run'[r].out = run[r].out /\ run'[r].phase # "absent"
    BY <2>2 DEF Settled
  <2>5. RecordedOK(r)'
    BY <1>0, <2>1, <2>2, <2>3 DEF Settled, RecordedOK
  <2>6. CallsOK(r)'
    BY <1>0, <2>1, <2>4, FreeLabelFits, CallsKept DEF Settled, OpeningLabels
  <2> QED BY <1>0, <2>4, <2>5, <2>6 DEF Settled, Faithful
<1>3. Redeliver(i) => run[i].out \in Outcomes
  BY <1>0 DEF Redeliver, OutsOK, RunOK
<1> QED BY <1>1, <1>2, <1>3 DEF RunStep

LEMMA ClosingSettled ==
  ASSUME NamesAssumption, Inv, RecInv, NEW r \in Instances, Settled(r),
         NEW a \in Actors, Closing(a)
  PROVE  Settled(r)'
<1>0. /\ ActorsOK /\ StoresOK /\ loc[a] \in Locals /\ run' = run /\ r \in Actors
      /\ OutcomeFits(r, pc[a], loc[a]) /\ LocalFits(KnownRuns, OverRuns, pc[a], loc[a])
      /\ RecordersOK /\ RecordedOK(r) /\ CallsOK(r) /\ Faithful(r) /\ run[r].phase # "absent"
  BY DEF Inv, ActorsOK, LocalsOK, RecInv, Settled, CallsOK, Actors,
         Closing, CloseQuery, CloseWrite, ClearRead, ClearWrite
<1>1. ASSUME CloseQuery(a) PROVE Settled(r)'
  <2>0. PICK l, x : /\ l = IF IsRunning(history[loc[a].i]) THEN "closeWrite" ELSE "clearRead"
                    /\ x = loc[a]
    OBVIOUS
  <2>1. history' = history /\ pc[a] = "closeQuery" /\ Goto(a, l, x)
    BY <1>0, <1>1, <2>0, StepIsGoto DEF CloseQuery, At
  <2>2. OutcomeFits(r, l, x)'
    BY <1>0, <2>0, <2>1 DEF OutcomeFits, OpeningLabels
  <2>3. CallsOK(r)'
    BY <1>0, <2>1, <2>2, CallsKept
  <2>4. RecordedOK(r)'
    <3>1. /\ pc'[a] = l
          /\ \A b \in Actors \ {a} : pc'[b] = pc[b] /\ loc'[b] = loc[b]
      BY <1>0, <2>1, Moves
    <3>2. a = r => loc[a].i = r /\ run[r].phase = "ended"
      BY <1>0, <2>1 DEF RecordersOK, ClosingLabels
    <3> QED BY <1>0, <2>0, <2>1, <3>1, <3>2 DEF RecordedOK
  <2> QED BY <1>0, <2>1, <2>3, <2>4 DEF Settled, Faithful
<1>2. ASSUME CloseWrite(a) PROVE Settled(r)'
  <2>1. pc[a] = "closeWrite" /\ Goto(a, "clearRead", loc[a])
    BY <1>0, <1>2, StepIsGoto DEF CloseWrite, At
  <2>2. loc[a].i \in Instances /\ loc[a].res \in Terminal
    BY <1>0, <2>1 DEF LocalFits, OverRuns, KnownRuns
  <2>3. /\ history'[loc[a].i].status = loc[a].res
        /\ \A i \in Instances \ {loc[a].i} : history'[i] = history[i]
    BY <1>0, <1>2, <2>2 DEF CloseWrite, Closed, StoresOK, HistoryRow
  <2>4. IsRunning(history'[r]) => IsRunning(history[r]) /\ loc[a].i # r
    BY <2>2, <2>3 DEF IsRunning, Terminal
  <2>5. Faithful(r)'
    BY <1>0, <2>1, <2>2, <2>3 DEF Faithful, OutcomeFits
  <2>6. RecordedOK(r)'
    <3>1. /\ pc'[a] = "clearRead"
          /\ \A b \in Actors \ {a} : pc'[b] = pc[b] /\ loc'[b] = loc[b]
      BY <1>0, <2>1, Moves
    <3>2. a = r => loc[a].i = r
      BY <1>0, <2>1 DEF RecordersOK, ClosingLabels
    <3> QED BY <1>0, <2>4, <3>1, <3>2 DEF RecordedOK
  <2>7. CallsOK(r)'
    BY <1>0, <2>1, <2>4, FreeLabelFits, CallsKept DEF OpeningLabels
  <2> QED BY <1>0, <2>5, <2>6, <2>7 DEF Settled
<1>3. ASSUME ClearRead(a) \/ ClearWrite(a) PROVE Settled(r)'
  <2>1. history' = history /\ pc[a] \in {"clearRead", "clearWrite"}
    BY <1>3 DEF ClearRead, ClearWrite, At
  <2>2. PICK l, x :
          Goto(a, l, x) /\ l \in {"claimRead", "deleteRows", "recorded", "idle", "clearWrite"}
    BY <1>0, <1>3 DEF ClearRead, ClearWrite, AfterClear, Finish
  <2>3. /\ pc'[a] = l
        /\ \A b \in Actors \ {a} : pc'[b] = pc[b] /\ loc'[b] = loc[b]
    BY <1>0, <2>2, Moves
  <2>4. RecordedOK(r)'
    BY <1>0, <2>1, <2>2, <2>3 DEF RecordedOK
  <2>5. CallsOK(r)'
    BY <1>0, <2>1, <2>2, FreeLabelFits, CallsKept DEF OpeningLabels
  <2> QED BY <1>0, <2>1, <2>4, <2>5 DEF Settled, Faithful
<1> QED BY <1>1, <1>2, <1>3 DEF Closing

LEMMA NextSettled ==
  ASSUME NamesAssumption, Inv, RecInv, NEW r \in Instances, Settled(r), [Next]_vars
  PROVE  Settled(r)'
<1>1. ASSUME NEW h \in Handlers, Crash(h) PROVE Settled(r)'
  BY <1>1, FreeLabelFits, SettledKept DEF Crash, OpeningLabels
<1>2. CASE Tick \/ UNCHANGED vars
  <2>1. UNCHANGED <<run, history, pc, loc>>
    BY <1>2 DEF Tick, vars
  <2> QED BY <2>1 DEF Settled, RecordedOK, CallsOK, OutcomeFits, Faithful
<1> QED BY <1>1, <1>2, RequestSettled, HandlerStepSettled, ClosingSettled, RunStepSettled DEF Next

\* A run at work whose row is open is settled
LEMMA OpenIsSettled ==
  ASSUME NamesAssumption, Inv, RecInv, NEW r \in Instances,
         IsRunning(history[r]), run[r].phase = "body"
  PROVE  Settled(r)
<1>1. RecordedOK(r) /\ Faithful(r)
  BY DEF RecInv, RecordersOK, ClosingLabels, RecordedOK, Faithful, IsRunning
<1>2. ASSUME NEW a \in Actors, loc[a].i = r PROVE OutcomeFits(r, pc[a], loc[a])
  <2>1. LocalFits(KnownRuns, OverRuns, pc[a], loc[a])
    BY DEF Inv, LocalsOK
  <2>2. pc[a] \notin {"closeQuery", "closeWrite"}
    BY <1>2, <2>1 DEF LocalFits, OverRuns
  <2>3. pc[a] \notin OpeningLabels
    <3>1. a \in Instances => pc[a] \notin OpeningLabels
      BY DEF RecInv, RecordersOK, ClosingLabels, OpeningLabels
    <3>2. a \in Handlers => pc[a] \notin OpeningLabels
      BY <1>2 DEF RecInv, OpeningOK, OpeningFits, IsRunning
    <3> QED BY <3>1, <3>2 DEF Actors
  <2> QED BY <2>2, <2>3 DEF OutcomeFits
<1>3. CallsOK(r)
  BY <1>2 DEF CallsOK, OutcomeFits
<1> QED BY <1>1, <1>3 DEF Settled

(***************************************************************************)
(* A run whose history row was open while it was at work is never shown as *)
(* completed if it did not complete, whatever fails, is lost or comes      *)
(* twice, whichever calls overlap, and whichever of the completion         *)
(* activity, the gate, the timer and the readers closes its row.           *)
(***************************************************************************)
THEOREM OutcomesAreFaithful ==
  ASSUME NEW r \in Instances
  PROVE  Spec => [](IsRunning(history[r]) /\ run[r].phase = "body" => []Faithful(r))
<1>1. Inv /\ RecInv /\ IsRunning(history[r]) /\ run[r].phase = "body" => Settled(r)
  BY OpenIsSettled, NamesAssumption
<1>2. Inv /\ RecInv /\ Settled(r) /\ [Next]_vars => Settled(r)'
  BY NextSettled, NamesAssumption
<1>3. Settled(r) => Faithful(r)
  BY DEF Settled
<1> QED BY <1>1, <1>2, <1>3, InvHolds, RecHolds, PTL DEF Spec

-----------------------------------------------------------------------------
(***************************************************************************)
(* Any calls at once, as long as no clear is stale.  A run at work is      *)
(* named by the row of its scope, or by the call that launched it and has  *)
(* yet to say so; who clears the row takes out a run that is over, or a    *)
(* claim that launched nothing.                                            *)
(***************************************************************************)
\* The row names the run, or the call that launched it and has yet to say so
Names(p, i) ==
  \/ runState[p].active = i
  \/ \E h \in Handlers :
       /\ runState[p].active = h
       /\ pc[h] = "dead" \/ (pc[h] = "setActive" /\ loc[h].i = i)

WorkersOK ==
  \A p \in Pipelines : \A i \in Working(p) :
    /\ Names(p, i)
    /\ \A j \in Working(p) : i = j

\* A call that claims has launched nothing; one that launches has its claim in
\* the row; one that clears holds a run that is over, or none
FreshFits(a, label, l) ==
  /\ label \in {"claimRead", "claimWrite", "launch"} => l.i = None
  /\ label \in {"launch", "setActive"} => runState[l.p].active = a
  /\ label = "setActive" => run[l.i].pipe = l.p
  /\ label \in {"clearRead", "clearWrite"} => l.i \in OverRuns \cup {None}
  /\ a \in Instances =>
       /\ label \in ClosingLabels \cup {"idle", "recorded", "dead"}
       /\ label \in ClosingLabels => l.op = "record" /\ l.i = a

FreshCallsOK == \A a \in Actors : FreshFits(a, pc[a], loc[a])

FreshInv == WorkersOK /\ FreshCallsOK

\* A run that has begun stays in its scope, and none begins
NoneBegins ==
  /\ PhasesAdvance /\ KnownRuns' = KnownRuns
  /\ \A i \in Instances : run'[i].pipe = run[i].pipe
  /\ \A p : Working(p)' \subseteq Working(p)

LEMMA RunsRest ==
  ASSUME run' = run
  PROVE  /\ NoneBegins /\ PhasesAdvance
         /\ \A i \in KnownRuns : run'[i].pipe = run[i].pipe
  BY DEF NoneBegins, PhasesAdvance, KnownRuns, OverRuns, Working

\* The calls that do not move stay right when their claims do
LEMMA FreshCalls ==
  ASSUME Inv, FreshInv, PhasesAdvance,
         \A i \in KnownRuns : run'[i].pipe = run[i].pipe,
         NEW a \in Actors, NEW l, NEW x, Goto(a, l, x), FreshFits(a, l, x)',
         \A b \in Actors \ {a} :
           pc[b] \in {"launch", "setActive"} => runState'[loc[b].p].active = b
  PROVE  FreshCallsOK'
<1>1. /\ pc'[a] = l /\ loc'[a] = x
      /\ \A b \in Actors \ {a} : pc'[b] = pc[b] /\ loc'[b] = loc[b]
  BY Moves DEF Inv
<1> SUFFICES ASSUME NEW b \in Actors PROVE FreshFits(b, pc[b], loc[b])'
  BY DEF FreshCallsOK
<1>2. CASE b = a
  BY <1>1, <1>2 DEF FreshFits
<1>3. CASE b # a
  <2>1. /\ FreshFits(b, pc[b], loc[b])
        /\ LocalFits(KnownRuns, OverRuns, pc[b], loc[b])
    BY DEF FreshInv, FreshCallsOK, Inv, LocalsOK
  <2>2. pc[b] = "setActive" => run'[loc[b].i].pipe = loc[b].p
    BY <2>1 DEF FreshFits, LocalFits
  <2> QED BY <1>1, <1>3, <2>1, <2>2 DEF FreshFits, PhasesAdvance
<1> QED BY <1>2, <1>3

\* An actor moves, no row changes and no run begins
LEMMA FreshQuiet ==
  ASSUME NamesAssumption, Inv, FreshInv, UNCHANGED runState, NoneBegins,
         NEW a \in Actors, NEW l, NEW x, Goto(a, l, x), FreshFits(a, l, x)',
         a \in Handlers => pc[a] \notin {"setActive", "dead"} \/ l = "dead"
  PROVE  FreshInv'
<1>1. /\ pc'[a] = l /\ loc'[a] = x
      /\ \A b \in Actors \ {a} : pc'[b] = pc[b] /\ loc'[b] = loc[b]
  BY Moves DEF Inv
<1>2. \A p \in Pipelines, i \in Instances : Names(p, i) => Names(p, i)'
  BY <1>1 DEF Names, Actors
<1>3. WorkersOK'
  <2>1. \A p : Working(p)' \subseteq Working(p) /\ Working(p) \subseteq Instances
    BY DEF NoneBegins, Working
  <2> QED BY <1>2, <2>1 DEF WorkersOK, FreshInv
<1>4. FreshCallsOK'
  <2>1. \A b \in Actors :
          pc[b] \in {"launch", "setActive"} => runState[loc[b].p].active = b
    BY DEF FreshInv, FreshCallsOK, FreshFits
  <2>2. PhasesAdvance /\ \A i \in KnownRuns : run'[i].pipe = run[i].pipe
    BY DEF NoneBegins, KnownRuns
  <2> QED BY <2>1, <2>2, FreshCalls
<1> QED BY <1>3, <1>4 DEF FreshInv

LEMMA FreshRest ==
  ASSUME NEW a, NEW x, NEW l \in {"idle", "dead", "recorded"}
  PROVE  FreshFits(a, l, x)'
  BY DEF FreshFits, ClosingLabels

\* A call that neither launches nor says what it launched
LEMMA FreshHandler ==
  ASSUME NamesAssumption, NEW h \in Handlers, NEW l, NEW x,
         l \in {"claimRead", "claimWrite"} => x.i = None,
         l \in {"clearRead", "clearWrite"} => x.i \in OverRuns' \cup {None},
         l \notin {"launch", "setActive"}
  PROVE  FreshFits(h, l, x)'
  BY DEF FreshFits, NamesAssumption

LEMMA RequestFresh ==
  ASSUME NamesAssumption, Inv, FreshInv, NEW h \in Handlers, Request(h)
  PROVE  FreshInv'
<1>1. /\ pc[h] = "idle" /\ UNCHANGED <<runState, run>>
  BY DEF Request, StartGate, ReconcileState, ReviewHistory, DeleteRun, ClearTerminalRuns,
         Free, At
<1>2. PICK l, x :
        /\ Goto(h, l, x)
        /\ l \in {"status", "deleteRows", "purgeAll", "claimRead"}
        /\ l = "claimRead" => x.i = None
  <2>1. ASSUME NEW p \in Pipelines, StartGate(h, p)
        PROVE  \E l, x : /\ Goto(h, l, x) /\ l \in {"status", "claimRead"}
                         /\ l = "claimRead" => x.i = None
    <3>1. Begin("start", p, None, now).i = None
      BY DEF Begin
    <3> QED BY <2>1, <3>1 DEF StartGate
  <2>2. \/ \E p \in Pipelines : StartGate(h, p)
        \/ \E l, x : Goto(h, l, x) /\ l \in {"status", "deleteRows", "purgeAll"}
    BY DEF Request, ReconcileState, ReviewHistory, DeleteRun, ClearTerminalRuns
  <2> QED BY <2>1, <2>2
<1>3. FreshFits(h, l, x)'
  BY <1>2, FreshHandler
<1> QED BY <1>1, <1>2, <1>3, RunsRest, FreshQuiet DEF Actors

\* _clear_active, and what comes before it
LEMMA ClosingFresh ==
  ASSUME NamesAssumption, ClaimInv, FreshInv, NEW a \in Actors, Closing(a),
         ClearWrite(a) => ClearsOwn(a)
  PROVE  FreshInv'
<1>0. /\ Inv /\ ActorsOK /\ loc[a] \in Locals /\ run' = run
      /\ LocalFits(KnownRuns, OverRuns, pc[a], loc[a]) /\ FreshFits(a, pc[a], loc[a])
      /\ OverRuns' = OverRuns
  BY DEF ClaimInv, Inv, ActorsOK, LocalsOK, FreshInv, FreshCallsOK, Closing, CloseQuery,
         CloseWrite, ClearRead, ClearWrite, OverRuns, KnownRuns
<1>1. ASSUME CloseQuery(a) \/ CloseWrite(a) PROVE FreshInv'
  <2>1. /\ UNCHANGED runState /\ pc[a] \in {"closeQuery", "closeWrite"}
    BY <1>1 DEF CloseQuery, CloseWrite, At
  <2>2. PICK l, x : l \in {"closeWrite", "clearRead"} /\ Goto(a, l, x) /\ x = loc[a]
    BY <1>0, <1>1, StepIsGoto DEF CloseQuery, CloseWrite
  <2>3. loc[a].i \in OverRuns /\ (a \in Instances => loc[a].op = "record" /\ loc[a].i = a)
    BY <1>0, <2>1 DEF LocalFits, FreshFits, ClosingLabels
  <2>4. FreshFits(a, l, x)'
    BY <1>0, <2>2, <2>3 DEF FreshFits, ClosingLabels
  <2>5. pc[a] \notin {"setActive", "dead"}
    BY <2>1
  <2> QED BY <1>0, <2>1, <2>2, <2>4, <2>5, RunsRest, FreshQuiet
<1>2. ASSUME AfterClear(a), pc[a] \in {"clearRead", "clearWrite"}
      PROVE  \E l, x : Goto(a, l, x) /\ FreshFits(a, l, x)'
  <2>1. a \in Instances => loc[a].op = "record"
    BY <1>0, <1>2 DEF FreshFits, ClosingLabels
  <2>2. CASE loc[a].op = "start"
    <3>1. PICK x : Goto(a, "claimRead", x) /\ x = [loc[a] EXCEPT !.i = None, !.res = None,
                                                                 !.at = now]
      BY <1>2, <2>2 DEF AfterClear
    <3>2. x.i = None
      BY <1>0, <3>1 DEF Locals
    <3>3. FreshFits(a, "claimRead", x)'
      BY <2>1, <2>2, <3>2 DEF FreshFits, Actors
    <3> QED BY <3>1, <3>3
  <2>3. CASE loc[a].op = "delete"
    <3>1. PICK x : Goto(a, "deleteRows", x)
      BY <1>2, <2>3 DEF AfterClear
    <3>2. FreshFits(a, "deleteRows", x)'
      BY <2>1, <2>3 DEF FreshFits, Actors
    <3> QED BY <3>1, <3>2
  <2>4. CASE loc[a].op \notin {"start", "delete"}
    <3>1. \E l, x : Goto(a, l, x) /\ l \in {"idle", "recorded"}
      BY <1>2, <2>4 DEF AfterClear, Finish
    <3> QED BY <3>1, FreshRest
  <2> QED BY <2>2, <2>3, <2>4
<1>3. ASSUME ClearRead(a) PROVE FreshInv'
  <2>1. UNCHANGED runState /\ pc[a] = "clearRead"
    BY <1>3 DEF ClearRead, At
  <2>2. PICK l, x : Goto(a, l, x) /\ FreshFits(a, l, x)'
    <3>1. CASE AfterClear(a)
      BY <1>2, <2>1, <3>1
    <3>2. CASE Goto(a, "clearWrite", [loc[a] EXCEPT !.at = runState[loc[a].p].at])
      <4>1. PICK x : /\ Goto(a, "clearWrite", x)
                     /\ x = [loc[a] EXCEPT !.at = runState[loc[a].p].at]
        BY <3>2
      <4>2. x.i = loc[a].i /\ x.op = loc[a].op
        BY <1>0, <4>1 DEF Locals
      <4>3. FreshFits(a, "clearWrite", x)'
        BY <1>0, <2>1, <4>2 DEF FreshFits, ClosingLabels
      <4> QED BY <4>1, <4>3
    <3> QED BY <1>3, <3>1, <3>2 DEF ClearRead
  <2> QED BY <1>0, <2>1, <2>2, RunsRest, FreshQuiet
<1>4. ASSUME ClearWrite(a) PROVE FreshInv'
  <2>1. PICK p : p = loc[a].p
    OBVIOUS
  <2>2. pc[a] = "clearWrite" /\ p \in Pipelines
    BY <1>0, <1>4, <2>1 DEF ClearWrite, At, LocalFits, Labels
  <2>3. /\ runState'[p].active = None
        /\ \A q \in Pipelines \ {p} : runState'[q] = runState[q]
    BY <1>0, <1>4, <2>1, <2>2 DEF ClearWrite, WriteState, Cleared, Inv, StoresOK
  <2>4. PICK l, x : Goto(a, l, x) /\ FreshFits(a, l, x)'
    BY <1>2, <1>4, <2>2 DEF ClearWrite
  <2>5. \A b \in Actors \ {a} : pc'[b] = pc[b] /\ loc'[b] = loc[b]
    BY <1>0, <2>4, Moves
  <2>6. runState[p].active \in {None, a} \cup OverRuns
    BY <1>0, <1>4, <2>1, <2>2 DEF ClearsOwn, FreshFits
  <2>7. a \in Instances => a \in OverRuns
    BY <1>0, <2>2, NamesAssumption DEF FreshFits, ClosingLabels, NamesAssumption
  \* nobody is at work in the scope that is cleared
  <2>8. Working(p) = {}
    <3> SUFFICES ASSUME NEW i \in Working(p) PROVE FALSE
      OBVIOUS
    <3>1. Names(p, i) /\ i \in Instances \ OverRuns
      BY <2>2 DEF FreshInv, WorkersOK, Working, OverRuns, KnownRuns
    <3>2. runState[p].active # i
      BY <2>6, <2>7, <3>1 DEF NamesAssumption
    <3>3. PICK h \in Handlers :
            /\ runState[p].active = h
            /\ pc[h] = "dead" \/ pc[h] = "setActive"
      BY <3>1, <3>2 DEF Names
    <3> QED BY <2>2, <2>6, <3>3 DEF NamesAssumption, OverRuns, KnownRuns
  <2>9. \A q : Working(q)' = Working(q)
    BY <1>0 DEF Working
  <2>10. \A q \in Pipelines, i \in Instances : q # p /\ Names(q, i) => Names(q, i)'
    BY <2>2, <2>3, <2>5 DEF Names, Actors
  <2>11. WorkersOK'
    BY <2>8, <2>9, <2>10 DEF FreshInv, WorkersOK, Working
  <2>12. \A b \in Actors \ {a} :
           pc[b] \in {"launch", "setActive"} => runState'[loc[b].p].active = b
    <3> SUFFICES ASSUME NEW b \in Actors \ {a}, pc[b] \in {"launch", "setActive"}
                 PROVE  runState'[loc[b].p].active = b
      OBVIOUS
    <3>1. /\ runState[loc[b].p].active = b /\ loc[b].p \in Pipelines
          /\ b \in Handlers
      BY <1>0 DEF FreshInv, FreshCallsOK, FreshFits, Inv, LocalsOK, LocalFits, Labels,
                  ClosingLabels, Actors
    <3>2. loc[b].p # p
      BY <2>6, <3>1 DEF NamesAssumption, Actors, OverRuns, KnownRuns
    <3> QED BY <2>3, <3>1, <3>2
  <2>13. FreshCallsOK'
    BY <1>0, <2>4, <2>12, RunsRest, FreshCalls
  <2> QED BY <2>11, <2>13 DEF FreshInv
<1> QED BY <1>1, <1>3, <1>4 DEF Closing

LEMMA HandlerStepFresh ==
  ASSUME NamesAssumption, "lostReply" \notin Faults, ClaimInv, FreshInv,
         NEW h \in Handlers, HandlerStep(h)
  PROVE  FreshInv'
<1>0. /\ Inv /\ ActorsOK /\ RunOK /\ StoresOK /\ h \in Actors /\ loc[h] \in Locals
      /\ LocalFits(KnownRuns, OverRuns, pc[h], loc[h]) /\ FreshFits(h, pc[h], loc[h])
      /\ WorkersOK /\ FreshCallsOK
  BY DEF ClaimInv, Inv, Actors, ActorsOK, LocalsOK, FreshInv, FreshCallsOK
<1>1. \A b \in Actors :
        pc[b] \in {"launch", "setActive"} =>
          runState[loc[b].p].active = b /\ loc[b].p \in Pipelines /\ b \in Handlers
  BY <1>0 DEF FreshCallsOK, FreshFits, Inv, LocalsOK, LocalFits, Labels, ClosingLabels, Actors
\* moves without a write of a row
<1>2. ASSUME UNCHANGED runState, NoneBegins, pc[h] # "setActive", pc[h] # "dead",
             NEW l, NEW x, Goto(h, l, x),
             l \in {"claimRead", "claimWrite"} => x.i = None,
             l \in {"clearRead", "clearWrite"} => x.i \in OverRuns' \cup {None},
             l \notin {"launch", "setActive"}
      PROVE  FreshInv'
  BY <1>0, <1>2, FreshHandler, FreshQuiet
<1>3. ASSUME GetStatus(h) PROVE FreshInv'
  <2>1. UNCHANGED <<runState, run>> /\ pc[h] = "status"
    BY <1>3 DEF GetStatus, At
  <2>2. \E l, x : Goto(h, l, x) /\ l \in {"idle", "closeQuery"}
    BY <1>3 DEF GetStatus, Finish
  <2> QED BY <1>2, <2>1, <2>2, RunsRest
<1>4. ASSUME TryClaimRead(h) PROVE FreshInv'
  <2>1. UNCHANGED <<runState, run>> /\ pc[h] = "claimRead" /\ loc[h].i = None
    BY <1>0, <1>4 DEF TryClaimRead, At, FreshFits
  <2>2. PICK l, x : /\ Goto(h, l, x) /\ l \in {"idle", "claimWrite"}
                    /\ l = "claimWrite" => x = loc[h]
    BY <1>0, <1>4, StepIsGoto DEF TryClaimRead, Finish
  <2> QED BY <1>2, <2>1, <2>2, RunsRest
<1>5. ASSUME StartNewFails(h) PROVE FreshInv'
  <2>1. UNCHANGED <<runState, run>> /\ pc[h] = "launch" /\ loc[h].i = None
    BY <1>0, <1>5 DEF StartNewFails, At, FreshFits
  <2>2. PICK x : Goto(h, "clearRead", x) /\ x = [loc[h] EXCEPT !.op = "release"]
    BY <1>5 DEF StartNewFails, Release
  <2>3. FreshFits(h, "clearRead", x)'
    <3>1. x.i = None
      BY <1>0, <2>1, <2>2 DEF Locals
    <3> QED BY <3>1, FreshHandler
  <2>4. NoneBegins
    BY <2>1, RunsRest
  <2> QED BY <1>0, <2>1, <2>2, <2>3, <2>4, FreshQuiet
<1>6. ASSUME OpenRow(h) \/ DeleteRows(h) PROVE FreshInv'
  <2>1. UNCHANGED <<runState, run>> /\ pc[h] \in {"openRow", "deleteRows"}
    BY <1>6 DEF OpenRow, DeleteRows, At
  <2>2. \E l, x : Goto(h, l, x) /\ l \in {"idle", "purge"}
    BY <1>0, <1>6, StepIsGoto DEF OpenRow, DeleteRows, Finish
  <2> QED BY <1>2, <2>1, <2>2, RunsRest
<1>7. ASSUME PurgeInstance(h) \/ PurgeTerminalInstances(h) PROVE FreshInv'
  <2>1. /\ UNCHANGED runState /\ Goto(h, "idle", NoLocals)
        /\ pc[h] \in {"purge", "purgeAll"}
    BY <1>7 DEF PurgeInstance, PurgeTerminalInstances, Finish, At
  <2>2. \A i \in Instances :
          \/ run'[i] = run[i]
          \/ /\ run[i].phase \in {"Completed", "Failed"} /\ run'[i].phase = "Purged"
             /\ run'[i].pipe = run[i].pipe
    BY <1>0, <1>7 DEF PurgeInstance, PurgeTerminalInstances, Purged, RunOK
  <2>3. NoneBegins
    BY <2>2 DEF NoneBegins, PhasesAdvance, KnownRuns, OverRuns, Working
  <2> QED BY <1>2, <2>1, <2>3
\* the claim
<1>8. ASSUME TryClaimWrite(h) PROVE FreshInv'
  <2>1. PICK p : p = loc[h].p
    OBVIOUS
  <2>2. run' = run /\ pc[h] = "claimWrite" /\ p \in Pipelines /\ loc[h].i = None
    BY <1>0, <1>8, <2>1 DEF TryClaimWrite, At, LocalFits, Labels, FreshFits
  <2>3. CASE Finish(h) /\ UNCHANGED runState
    BY <1>2, <2>2, <2>3, RunsRest DEF Finish
  <2>4. CASE /\ EtagMatches(h, p)
             /\ WriteState(p, Claimed(h, loc[h].at)) /\ Step(h, "launch")
    <3>1. runState[p].active = None
      BY <2>1, <2>2, <2>4 DEF ClaimInv, ClaimOK, EtagMatches
    <3>2. /\ runState'[p].active = h
          /\ \A q \in Pipelines \ {p} : runState'[q] = runState[q]
      BY <1>0, <2>2, <2>4 DEF WriteState, Claimed, StoresOK
    <3>3. PICK x : x = loc[h] /\ Goto(h, "launch", x)
      BY <1>0, <2>4, StepIsGoto
    <3>4. \A b \in Actors \ {h} : pc'[b] = pc[b] /\ loc'[b] = loc[b]
      BY <1>0, <3>3, Moves
    <3>5. \A q : Working(q)' = Working(q) /\ Working(q) \subseteq Instances
      BY <2>2 DEF Working
    <3>6. Working(p) = {}
      BY <1>0, <2>2, <3>1, <3>5 DEF WorkersOK, Names, NamesAssumption
    <3>7. \A q \in Pipelines, i \in Instances : q # p /\ Names(q, i) => Names(q, i)'
      BY <2>2, <3>2, <3>4 DEF Names, Actors
    <3>8. WorkersOK'
      BY <1>0, <3>5, <3>6, <3>7 DEF WorkersOK
    <3>9. FreshFits(h, "launch", x)'
      BY <1>0, <2>1, <2>2, <3>2, <3>3 DEF FreshFits, NamesAssumption
    <3>10. \A b \in Actors \ {h} :
             pc[b] \in {"launch", "setActive"} => runState'[loc[b].p].active = b
      BY <1>1, <3>1, <3>2 DEF NamesAssumption
    <3>11. FreshCallsOK'
      BY <1>0, <2>2, <3>3, <3>9, <3>10, RunsRest, FreshCalls
    <3> QED BY <3>8, <3>11 DEF FreshInv
  <2> QED BY <1>8, <2>1, <2>3, <2>4 DEF TryClaimWrite
\* the launch
<1>9. ASSUME NEW i \in Instances, StartNew(h, i) PROVE FreshInv'
  <2>1. PICK p : p = loc[h].p
    OBVIOUS
  <2>2. /\ UNCHANGED runState /\ pc[h] = "launch" /\ run[i].phase = "absent"
        /\ p \in Pipelines /\ runState[p].active = h
    BY <1>0, <1>9, <2>1 DEF StartNew, At, LocalFits, Labels, FreshFits
  <2>3. /\ run'[i].phase = "body" /\ run'[i].pipe = p
        /\ \A j \in Instances \ {i} : run'[j] = run[j]
    BY <1>0, <1>9, <2>1 DEF StartNew, Launched, RunOK
  <2>4. PICK x : x = [loc[h] EXCEPT !.i = i] /\ Goto(h, "setActive", x)
    BY <1>9 DEF StartNew
  <2>5. x.i = i /\ x.p = p
    BY <1>0, <2>1, <2>4 DEF Locals
  <2>6. /\ pc'[h] = "setActive" /\ loc'[h] = x
        /\ \A b \in Actors \ {h} : pc'[b] = pc[b] /\ loc'[b] = loc[b]
    BY <1>0, <2>4, Moves
  <2>7. Working(p) = {}
    BY <1>0, <2>2 DEF WorkersOK, Names, Working, NamesAssumption
  <2>8. \A q : Working(q)' = IF q = p THEN {i} ELSE Working(q)
    BY <2>2, <2>3, <2>7 DEF Working
  <2>9. \A q \in Pipelines, j \in Instances : Names(q, j) => Names(q, j)'
    BY <2>2, <2>6 DEF Names, Actors
  <2>10. Names(p, i)'
    BY <2>2, <2>5, <2>6 DEF Names
  <2>11. WorkersOK'
    <3> SUFFICES ASSUME NEW q \in Pipelines, NEW j \in Working(q)'
                 PROVE  Names(q, j)' /\ \A k \in Working(q)' : j = k
      BY DEF WorkersOK
    <3>1. CASE q = p
      BY <2>8, <2>10, <3>1
    <3>2. CASE q # p
      <4>1. Working(q)' = Working(q) /\ j \in Instances
        BY <2>8, <3>2 DEF Working
      <4> QED BY <1>0, <2>9, <4>1 DEF WorkersOK
    <3> QED BY <3>1, <3>2
  <2>12. FreshFits(h, "setActive", x)'
    BY <1>0, <2>2, <2>3, <2>5 DEF FreshFits, ClosingLabels, NamesAssumption
  <2>13. PhasesAdvance /\ \A j \in KnownRuns : run'[j].pipe = run[j].pipe
    BY <2>2, <2>3 DEF PhasesAdvance, KnownRuns, OverRuns
  <2>14. FreshCallsOK'
    BY <1>0, <1>1, <2>2, <2>4, <2>12, <2>13, FreshCalls
  <2> QED BY <2>11, <2>14 DEF FreshInv
<1>10. ASSUME NEW i \in Instances, StartNewReplyLost(h, i) PROVE FreshInv'
  BY <1>10 DEF StartNewReplyLost
\* the row names the run that was launched
<1>11. ASSUME SetActiveInstance(h) PROVE FreshInv'
  <2>1. PICK p : p = loc[h].p
    OBVIOUS
  <2>2. /\ run' = run /\ pc[h] = "setActive" /\ p \in Pipelines
        /\ runState[p].active = h /\ loc[h].i \in Instances
    BY <1>0, <1>11, <2>1 DEF SetActiveInstance, At, LocalFits, Labels, FreshFits, KnownRuns
  <2>3. /\ runState'[p].active = loc[h].i
        /\ \A q \in Pipelines \ {p} : runState'[q] = runState[q]
    BY <1>0, <1>11, <2>1, <2>2 DEF SetActiveInstance, WriteState, Activated, StoresOK
  <2>4. PICK x : Goto(h, "openRow", x)
    BY <1>0, <1>11, StepIsGoto DEF SetActiveInstance
  <2>5. \A b \in Actors \ {h} : pc'[b] = pc[b] /\ loc'[b] = loc[b]
    BY <1>0, <2>4, Moves
  <2>6. \A q : Working(q)' = Working(q) /\ Working(q) \subseteq Instances
    BY <2>2 DEF Working
  <2>7. \A q \in Pipelines, i \in Instances : Names(q, i) => Names(q, i)'
    <3> SUFFICES ASSUME NEW q \in Pipelines, NEW i \in Instances, Names(q, i)
                 PROVE  Names(q, i)'
      OBVIOUS
    <3>1. CASE q = p
      <4>1. i = loc[h].i
        BY <2>2, <3>1 DEF Names, NamesAssumption
      <4> QED BY <2>3, <3>1, <4>1 DEF Names
    <3>2. CASE q # p
      <4>1. runState[q].active # h
        BY <2>1, <2>2, <3>2 DEF ClaimInv, PlaceholderOwned, Owns
      <4> QED BY <2>3, <2>5, <3>2, <4>1 DEF Names, Actors
    <3> QED BY <3>1, <3>2
  <2>8. WorkersOK'
    BY <1>0, <2>6, <2>7 DEF WorkersOK
  <2>9. FreshFits(h, "openRow", x)'
    BY FreshHandler
  <2>10. \A b \in Actors \ {h} :
           pc[b] \in {"launch", "setActive"} => runState'[loc[b].p].active = b
    BY <1>1, <2>2, <2>3
  <2>11. FreshCallsOK'
    BY <1>0, <2>2, <2>4, <2>9, <2>10, RunsRest, FreshCalls
  <2> QED BY <2>8, <2>11 DEF FreshInv
<1> QED BY <1>3, <1>4, <1>5, <1>6, <1>7, <1>8, <1>9, <1>10, <1>11 DEF HandlerStep

LEMMA RunStepFresh ==
  ASSUME NamesAssumption, Inv, FreshInv,
         NEW i \in Instances, RunStep(i) \/ Redeliver(i) \/ Die(i)
  PROVE  FreshInv'
<1>0. i \in Actors /\ i \notin Handlers /\ RunOK /\ UNCHANGED runState
  BY DEF Inv, Actors, NamesAssumption, RunStep, BodyEnds, OrchestratorReturns, Redeliver, Die
<1>1. /\ run[i].phase \in {"body", "ended"}
      /\ run'[i].pipe = run[i].pipe /\ run'[i].phase \in {"ended", "Failed", "Completed"}
      /\ \A j \in Instances \ {i} : run'[j] = run[j]
  BY <1>0 DEF RunStep, BodyEnds, OrchestratorReturns, Redeliver, Die, Live, RunOK
<1>2. NoneBegins
  BY <1>1 DEF NoneBegins, PhasesAdvance, KnownRuns, OverRuns, Working
<1>3. \E l, x : Goto(i, l, x) /\ FreshFits(i, l, x)'
  <2>1. ASSUME NEW out, Record(i, out) PROVE \E l, x : Goto(i, l, x) /\ FreshFits(i, l, x)'
    <3>1. PICK x : /\ Goto(i, "closeQuery", x)
                   /\ x = [Begin("record", run[i].pipe, i, None) EXCEPT !.res = Reported(out)]
      BY <2>1 DEF Record
    <3>2. x.op = "record" /\ x.i = i
      BY <3>1 DEF Begin
    <3>3. FreshFits(i, "closeQuery", x)'
      BY <3>2 DEF FreshFits, ClosingLabels
    <3> QED BY <3>1, <3>3
  <2>2. CASE OrchestratorReturns(i) \/ Die(i)
    BY <2>2, FreshRest DEF OrchestratorReturns, Die, Finish
  <2> QED BY <2>1, <2>2 DEF RunStep, BodyEnds, Redeliver
<1> QED BY <1>0, <1>2, <1>3, FreshQuiet

LEMMA NextFresh ==
  ASSUME NamesAssumption, "lostReply" \notin Faults, ClaimInv, FreshInv,
         [Next /\ ClearsFresh]_vars
  PROVE  FreshInv'
<1>0. Inv
  BY DEF ClaimInv
<1>1. ASSUME NEW h \in Handlers, Crash(h) PROVE FreshInv'
  <2>1. UNCHANGED <<runState, run>> /\ Goto(h, "dead", NoLocals) /\ h \in Actors
    BY <1>1 DEF Crash, Actors
  <2> QED BY <1>0, <2>1, RunsRest, FreshRest, FreshQuiet
<1>2. CASE Tick \/ UNCHANGED vars
  <2>1. UNCHANGED <<runState, run, pc, loc>>
    BY <1>2 DEF Tick, vars
  <2>2. \A p : Working(p)' = Working(p) /\ \A i : Names(p, i)' = Names(p, i)
    BY <2>1 DEF Working, Names
  <2>3. OverRuns' = OverRuns
    BY <2>1 DEF OverRuns, KnownRuns
  <2>4. WorkersOK'
    BY <2>2 DEF FreshInv, WorkersOK
  <2>5. FreshCallsOK'
    BY <2>1, <2>3 DEF FreshInv, FreshCallsOK, FreshFits
  <2> QED BY <2>4, <2>5 DEF FreshInv
<1>3. ASSUME NEW h \in Handlers, Request(h) PROVE FreshInv'
  BY <1>0, <1>3, RequestFresh
<1>4. ASSUME NEW a \in Actors, Closing(a), ClearsFresh PROVE FreshInv'
  BY <1>4, ClosingFresh DEF ClearsFresh
<1>5. ASSUME NEW i \in Instances, RunStep(i) \/ Redeliver(i) \/ Die(i) PROVE FreshInv'
  BY <1>0, <1>5, RunStepFresh
<1> QED BY <1>1, <1>2, <1>3, <1>4, <1>5, HandlerStepFresh DEF Next

LEMMA FreshHolds ==
  ASSUME "lostReply" \notin Faults
  PROVE  FreshSpec => [](ClaimInv /\ FreshInv)
<1>1. Init => FreshInv
  <2> SUFFICES ASSUME Init PROVE FreshInv
    OBVIOUS
  <2>1. \A p : Working(p) = {}
    BY DEF Init, Working, NoRun
  <2>2. \A a \in Actors : pc[a] = "idle"
    BY DEF Init
  <2> QED BY <2>1, <2>2 DEF FreshInv, WorkersOK, FreshCallsOK, FreshFits, ClosingLabels
<1>2. ClaimInv /\ FreshInv /\ [Next /\ ClearsFresh]_vars => FreshInv'
  BY NextFresh, NamesAssumption
<1>3. [Next /\ ClearsFresh]_vars => [Next]_vars
  OBVIOUS
<1> QED BY <1>1, <1>2, <1>3, ClaimsHold, PTL DEF Spec, FreshSpec

(***************************************************************************)
(* Stale clears are the whole cause of a double launch: in every execution *)
(* in which no clear takes out more than its caller found to be over, at   *)
(* most one run of a scope is at work, whichever calls overlap, crash or   *)
(* are delivered twice, as long as no reply of start_new is lost.          *)
(***************************************************************************)
THEOREM OneRunWhileFresh ==
  ASSUME "lostReply" \notin Faults
  PROVE  FreshSpec => []NoDoubleLaunch
<1>1. FreshInv => NoDoubleLaunch
  BY DEF FreshInv, WorkersOK, NoDoubleLaunch
<1> QED BY <1>1, FreshHolds, PTL

-----------------------------------------------------------------------------
(***************************************************************************)
(* The refinement: start_new is the launch of the scope, the end of the    *)
(* body, or the death of a run at work, is its end, and every other step   *)
(* leaves the runs at work and the runs that are over as they are.         *)
(***************************************************************************)
Over(i) == run[i].phase \notin {"absent", "body"}

LockUnchanged == UNCHANGED Lock!vars

LEMMA LockStutters ==
  ASSUME \A i \in Instances :
           run'[i] = run[i] \/ (Over(i) /\ Over(i)')
  PROVE  LockUnchanged
<1>1. \A p : Working(p)' = Working(p)
  BY DEF Working, Over
<1>2. {i \in Instances : run[i].phase \notin {"absent", "body"}}'
        = {i \in Instances : run[i].phase \notin {"absent", "body"}}
  BY DEF Over
<1> QED BY <1>1, <1>2 DEF LockUnchanged, Lock!vars

LEMMA LockLaunches ==
  ASSUME Inv, NEW h \in Handlers, NEW i \in Instances, StartNew(h, i),
         Working(loc[h].p) = {}
  PROVE  Lock!Next
<1>0. PICK p : p = loc[h].p
  OBVIOUS
<1>1. p \in Pipelines /\ RunOK /\ run[i].phase = "absent" /\ h \in Actors
  BY <1>0 DEF StartNew, At, Inv, LocalsOK, LocalFits, Labels, Actors
<1>2. /\ run'[i].phase = "body" /\ run'[i].pipe = p
      /\ \A j \in Instances \ {i} : run'[j] = run[j]
  BY <1>0, <1>1 DEF StartNew, Launched, RunOK
<1>3. Working(p) = {}
  BY <1>0
<1>4. \A q \in Pipelines : i \notin Working(q)
  BY <1>1 DEF Working
<1>5. \A q \in Pipelines : Working(q)' = IF q = p THEN {i} ELSE Working(q)
  BY <1>1, <1>2, <1>3 DEF Working
<1>6. /\ i \notin {j \in Instances : run[j].phase \notin {"absent", "body"}}
      /\ {j \in Instances : run'[j].phase \notin {"absent", "body"}}
           = {j \in Instances : run[j].phase \notin {"absent", "body"}}
  BY <1>1, <1>2
<1>7. Lock!Launch(p, i)
  BY <1>1, <1>3, <1>4, <1>5, <1>6 DEF Lock!Launch
<1> QED BY <1>1, <1>7 DEF Lock!Next

LEMMA LockEnds ==
  ASSUME Inv, NEW i \in Instances, run[i].phase = "body",
         RunStep(i) \/ Die(i)
  PROVE  Lock!Next
<1>0. PICK p : p = run[i].pipe
  OBVIOUS
<1>1. p \in Pipelines /\ RunOK
  BY <1>0 DEF Inv, RowsOK, KnownRuns
<1>2. /\ run'[i].phase \in {"ended", "Failed"}
      /\ \A j \in Instances \ {i} : run'[j] = run[j]
  BY <1>1 DEF RunStep, BodyEnds, OrchestratorReturns, Die, RunOK
<1>3. i \in Working(p) /\ \A q \in Pipelines \ {p} : i \notin Working(q)
  BY <1>0 DEF Working
<1>4. \A q \in Pipelines : Working(q)' = IF q = p THEN Working(p) \ {i} ELSE Working(q)
  BY <1>2, <1>3 DEF Working
<1>5. {j \in Instances : run'[j].phase \notin {"absent", "body"}}
        = {j \in Instances : run[j].phase \notin {"absent", "body"}} \cup {i}
  BY <1>2
<1>6. Lock!End(p, i)
  BY <1>1, <1>3, <1>4, <1>5 DEF Lock!End
<1> QED BY <1>1, <1>6 DEF Lock!Next

LEMMA LockStep ==
  ASSUME NamesAssumption, "lostReply" \notin Faults, Inv, [Next]_vars,
         \A h \in Handlers : pc[h] = "launch" => Working(loc[h].p) = {}
  PROVE  [Lock!Next]_(Lock!vars)
<1>0. RunOK
  BY DEF Inv
<1>1. ASSUME NEW h \in Handlers, Request(h) \/ Crash(h) PROVE run' = run
  BY <1>1 DEF Request, StartGate, ReconcileState, ReviewHistory, DeleteRun, ClearTerminalRuns,
              Crash
<1>2. ASSUME NEW h \in Handlers, HandlerStep(h)
      PROVE  (\E i \in Instances : StartNew(h, i)) \/ LockUnchanged
  <2>1. CASE PurgeInstance(h) \/ PurgeTerminalInstances(h)
    BY <1>0, <2>1, LockStutters DEF PurgeInstance, PurgeTerminalInstances, Purged, RunOK, Over
  <2>2. ASSUME NEW i \in Instances PROVE ~StartNewReplyLost(h, i)
    BY DEF StartNewReplyLost
  <2>3. CASE run' = run
    BY <2>3, LockStutters
  <2> QED BY <1>2, <2>1, <2>2, <2>3
     DEF HandlerStep, GetStatus, TryClaimRead, TryClaimWrite, StartNewFails, SetActiveInstance,
         OpenRow, DeleteRows
<1>3. ASSUME NEW a \in Actors, Closing(a) PROVE run' = run
  BY <1>3 DEF Closing, CloseQuery, CloseWrite, ClearRead, ClearWrite
<1>4. ASSUME NEW i \in Instances, RunStep(i) \/ Die(i) PROVE Lock!Next \/ LockUnchanged
  <2>1. CASE run[i].phase = "body"
    BY <1>4, <2>1, LockEnds
  <2>2. CASE run[i].phase # "body"
    <3>1. run[i].phase = "ended"
      BY <1>4, <2>2 DEF RunStep, BodyEnds, OrchestratorReturns, Die, Live
    <3> QED BY <1>0, <1>4, <3>1, LockStutters
       DEF RunStep, BodyEnds, OrchestratorReturns, Die, RunOK, Over
  <2> QED BY <2>1, <2>2
<1>5. ASSUME NEW i \in Instances, Redeliver(i) PROVE run' = run
  BY <1>5 DEF Redeliver
<1>6. CASE Tick \/ UNCHANGED vars
  BY <1>6, LockStutters DEF Tick, vars, LockUnchanged
<1>7. run' = run => LockUnchanged
  BY LockStutters
<1>8. ASSUME NEW h \in Handlers, NEW i \in Instances, StartNew(h, i) PROVE Lock!Next
  BY <1>8, LockLaunches DEF StartNew, At
<1> QED BY <1>1, <1>2, <1>3, <1>4, <1>5, <1>6, <1>7, <1>8 DEF Next, LockUnchanged

(***************************************************************************)
(* The dispatcher implements the lock of a scope, ScopeLock: one operation *)
(* at a time, each run once, the next only after the end of the last.  Any *)
(* calls at once do, in the executions without a stale clear and without a *)
(* lost reply.                                                             *)
(***************************************************************************)
THEOREM FreshImplementsLock ==
  ASSUME "lostReply" \notin Faults
  PROVE  FreshSpec => ImplementsScopeLock
<1>1. Init => Lock!Init
  BY DEF Init, Lock!Init, Working, NoRun
<1>2. ClaimInv /\ FreshInv /\ [Next /\ ClearsFresh]_vars => [Lock!Next]_(Lock!vars)
  <2>1. ASSUME ClaimInv, FreshInv, NEW h \in Handlers, pc[h] = "launch"
        PROVE  Working(loc[h].p) = {}
    <3>1. loc[h].p \in Pipelines /\ runState[loc[h].p].active = h
      BY <2>1 DEF ClaimInv, Inv, LocalsOK, LocalFits, Labels, Actors, FreshInv,
                  FreshCallsOK, FreshFits
    <3> QED BY <2>1, <3>1, NamesAssumption
       DEF FreshInv, WorkersOK, Working, Names, NamesAssumption
  <2> QED BY <2>1, LockStep, NamesAssumption DEF ClaimInv
<1> QED BY <1>1, <1>2, FreshHolds, PTL DEF FreshSpec, Lock!Spec, ImplementsScopeLock

=============================================================================
