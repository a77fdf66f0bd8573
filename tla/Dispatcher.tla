------------------------------ MODULE Dispatcher ------------------------------
(***************************************************************************)
(* The data-collection dispatcher as several workers run it: start, the    *)
(* concurrency gate, reconciliation, run history, discarding, and the      *)
(* completion activity of every run.  Each storage call and each call of   *)
(* the Durable client is a step of its own; between two steps of a handler *)
(* any other handler, run or activity may take steps.                      *)
(*                                                                         *)
(* A handler is one call of an async method of DataCollectionDispatcher:   *)
(* a request or the timer.  A claim placeholder "pending:<uuid>" is named  *)
(* by the handler that wrote it.                                           *)
(***************************************************************************)
EXTENDS SchedulerStores, Naturals, FiniteSets

CONSTANTS
  Pipelines,    \* pipeline ids, which are also the scopes
  Handlers,     \* the calls that may be in flight at once
  Duties,       \* the operations each handler may be asked for
  Instances,    \* the orchestration instances: bounds the launches
  Faults,       \* what may go wrong
  Prompt,       \* TRUE: a run outlasts the two writes its start call makes
                \* after start_new
  MaxTime       \* bounds the clock

Operations == {"start", "watch", "review", "delete", "clear"}
FaultKinds == {"crash", "die", "startError", "lostReply", "redeliver"}

ASSUME NamesAssumption ==
  /\ None \notin Handlers \cup Instances
  /\ Handlers \cap Instances = {}

ASSUME SettingsAssumption ==
  /\ Duties \in [Handlers -> SUBSET Operations]
  /\ Faults \subseteq FaultKinds
  /\ Prompt \in BOOLEAN
  /\ MaxTime \in Nat

VARIABLES
  runState,     \* SchedulerRunState
  etag,         \* per row, the handlers whose last read of it is still current
  history,      \* SchedulerRunHistory, the row of each run
  run,          \* the orchestration instances
  pc,           \* where a handler, or the completion activity of a run, is
  loc,          \* its local variables
  now           \* the clock

vars == <<runState, etag, history, run, pc, loc, now>>

Actors == Handlers \cup Instances
Time == 0 .. MaxTime

Labels == {"idle", "status", "closeQuery", "closeWrite", "clearRead",
           "clearWrite", "claimRead", "claimWrite", "launch", "setActive",
           "openRow", "deleteRows", "purge", "purgeAll", "recorded", "dead"}

\* The local variables: operation, pipeline, instance, outcome, a time read
Locals == [op  : Operations \cup {"release", "record", "none"},
           p   : Pipelines \cup {None},
           i   : Instances \cup {None},
           res : Terminal \cup {None},
           at  : Time \cup {None}]

Begin(op, p, i, at) == [op |-> op, p |-> p, i |-> i, res |-> None, at |-> at]

NoLocals == Begin("none", None, None, None)

\* A run: at work in its body, over but not yet returned to Durable, or
\* in a terminal runtime status, or purged from Durable
Phases == {"absent", "body", "ended", "Completed", "Failed", "Purged"}
Outcomes == {"completed", "failed", "raised"}

NoRun == [phase |-> "absent", pipe |-> None, out |-> "none"]

Init ==
  /\ runState = [p \in Pipelines |-> NoState]
  /\ etag = [p \in Pipelines |-> {}]
  /\ history = [i \in Instances |-> NoRow]
  /\ run = [i \in Instances |-> NoRun]
  /\ pc = [a \in Actors |-> "idle"]
  /\ loc = [a \in Actors |-> NoLocals]
  /\ now = 0

-----------------------------------------------------------------------------
(* Helpers *)

At(a, label) == pc[a] = label

Goto(a, label, locals) == /\ pc' = [pc EXCEPT ![a] = label]
                          /\ loc' = [loc EXCEPT ![a] = locals]

Step(a, label) == /\ pc' = [pc EXCEPT ![a] = label]
                  /\ UNCHANGED loc

Finish(a) == Goto(a, "idle", NoLocals)

\* Every write of a row of SchedulerRunState changes its ETag
WriteState(p, row) == /\ runState' = [runState EXCEPT ![p] = row]
                      /\ etag' = [etag EXCEPT ![p] = {}]

\* A handler takes up an operation
Free(h, op) == At(h, "idle") /\ op \in Duties[h]

Starting(h) == loc[h].op = "start"

\* Bounds the launches by the instances: a start is taken up only when an
\* instance is left for it
LaunchLeft == Cardinality({h \in Handlers : Starting(h)})
                < Cardinality({i \in Instances : run[i].phase = "absent"})

\* RunStatus.is_terminal, and None for an instance Durable does not know
LiveAlwaysFalse(i) == FALSE
Live(i) == run[i].phase \in {"body", "ended"}

OutcomeFromStatusOptimistic(i) ==
  IF run[i].phase = "Purged" THEN "failed" ELSE "completed"
OutcomeFromStatus(i) ==
  IF run[i].phase = "Completed" THEN "completed" ELSE "failed"

\* The completion activity reports the status the body returned, and a raised
\* exception as "failed"
Reported(out) == IF out = "completed" THEN "completed" ELSE "failed"

-----------------------------------------------------------------------------
(* The gate, and the readers that heal a stale row *)

\* scope_busy reads the row.  A placeholder is busy (no step); an instance is
\* looked up; without either the gate is passed and the dispatch time taken.
StartGate(h, p) ==
  /\ Free(h, "start")
  /\ LaunchLeft
  /\ \/ /\ runState[p].active = None
        /\ Goto(h, "claimRead", Begin("start", p, None, now))
     \/ /\ runState[p].active \in Instances
        /\ Goto(h, "status", Begin("start", p, runState[p].active, None))
  /\ UNCHANGED <<runState, etag, history, run, now>>

\* list_pipelines, pipeline_status, active_operation and the timer's
\* _reconcile_state look up the instance a row names; placeholders are skipped
ReconcileState(h, p, i) ==
  /\ Free(h, "watch")
  /\ runState[p].active = i
  /\ Goto(h, "status", Begin("watch", p, i, None))
  /\ UNCHANGED <<runState, etag, history, run, now>>

\* run_history and notifications look up the instance of a running history row
ReviewHistory(h, i) ==
  /\ Free(h, "review")
  /\ IsRunning(history[i])
  /\ Goto(h, "status", Begin("review", run[i].pipe, i, None))
  /\ UNCHANGED <<runState, etag, history, run, now>>

\* delete_run reads the rows of an instance
DeleteRunUnchecked(h, i) ==
  /\ Free(h, "delete")
  /\ history[i].status # "none" /\ history[i].whole
  /\ Goto(h, "deleteRows",
          Begin("delete", run[i].pipe, i, None))
  /\ UNCHANGED <<runState, etag, history, run, now>>
DeleteRun(h, i) ==
  /\ Free(h, "delete")
  /\ history[i].status # "none" /\ history[i].whole
  /\ Goto(h, IF IsRunning(history[i]) THEN "status" ELSE "deleteRows",
          Begin("delete", run[i].pipe, i, None))
  /\ UNCHANGED <<runState, etag, history, run, now>>

\* get_status: a live run is busy, still running, or refuses to be deleted
GetStatus(h) ==
  /\ At(h, "status")
  /\ LET i == loc[h].i IN
     \/ Live(i) /\ Finish(h)
     \/ ~Live(i) /\ Goto(h, "closeQuery",
                         [loc[h] EXCEPT !.res = OutcomeFromStatus(i)])
  /\ UNCHANGED <<runState, etag, history, run, now>>

-----------------------------------------------------------------------------
(* _reconcile_terminal and record_outcome: close_by_instance, close_run.   *)
(* release_claim ends in the same two calls of _clear_active.              *)

\* close_by_instance: the query for the running row of the instance
CloseQuery(a) ==
  /\ At(a, "closeQuery")
  /\ Step(a, IF IsRunning(history[loc[a].i]) THEN "closeWrite" ELSE "clearRead")
  /\ UNCHANGED <<runState, etag, history, run, now>>

\* close_by_instance: the MERGE upsert of the row found by the query
CloseWrite(a) ==
  /\ At(a, "closeWrite")
  /\ history' = [history EXCEPT ![loc[a].i] = Closed(@, loc[a].res)]
  /\ Step(a, "clearRead")
  /\ UNCHANGED <<runState, etag, run, now>>

\* What follows close_run in the calling method
AfterClear(a) ==
  CASE loc[a].op = "start"  -> Goto(a, "claimRead",
                                    [loc[a] EXCEPT !.i = None, !.res = None,
                                                   !.at = now])
    [] loc[a].op = "delete" -> Goto(a, "deleteRows",
                                    [loc[a] EXCEPT !.res = None, !.at = None])
    [] loc[a].op = "record" -> Goto(a, "recorded", NoLocals)
    [] OTHER                -> Finish(a)

\* _clear_active: the read of the row, and nothing more when there is none
ClearRead(a) ==
  /\ At(a, "clearRead")
  /\ LET row == runState[loc[a].p] IN
     IF row = NoState THEN AfterClear(a)
     ELSE Goto(a, "clearWrite", [loc[a] EXCEPT !.at = row.at])
  /\ UNCHANGED <<runState, etag, history, run, now>>

\* _clear_active: the REPLACE upsert, without the ETag of the read
ClearWriteKeepsActive(a) ==
  /\ At(a, "clearWrite")
  /\ WriteState(loc[a].p, runState[loc[a].p])
  /\ AfterClear(a)
  /\ UNCHANGED <<history, run, now>>
ClearWrite(a) ==
  /\ At(a, "clearWrite")
  /\ WriteState(loc[a].p, Cleared(loc[a].at))
  /\ AfterClear(a)
  /\ UNCHANGED <<history, run, now>>

-----------------------------------------------------------------------------
(* start: claim, launch, bookkeeping *)

\* try_claim: the read of the row; another claim or run makes it busy
TryClaimRead(h) ==
  /\ At(h, "claimRead")
  /\ LET p == loc[h].p IN
     IF runState[p].active # None
     THEN Finish(h) /\ UNCHANGED etag
     ELSE Step(h, "claimWrite") /\ etag' = [etag EXCEPT ![p] = @ \cup {h}]
  /\ UNCHANGED <<runState, history, run, now>>

EtagNotCompared(h, p) == TRUE
EtagMatches(h, p) == h \in etag[p]

\* try_claim: create if absent, or REPLACE if the ETag still matches
TryClaimWrite(h) ==
  /\ At(h, "claimWrite")
  /\ LET p == loc[h].p IN
     IF EtagMatches(h, p)
     THEN WriteState(p, Claimed(h, loc[h].at)) /\ Step(h, "launch")
     ELSE Finish(h) /\ UNCHANGED <<runState, etag>>
  /\ UNCHANGED <<history, run, now>>

Launched(h, i) ==
  run' = [run EXCEPT ![i] = [phase |-> "body", pipe |-> loc[h].p, out |-> "none"]]

\* start_new
StartNew(h, i) ==
  /\ At(h, "launch")
  /\ run[i].phase = "absent"
  /\ Launched(h, i)
  /\ Goto(h, "setActive", [loc[h] EXCEPT !.i = i])
  /\ UNCHANGED <<runState, etag, history, now>>

\* start_new raises: the claim is released, the exception goes to the caller
Release(h) == Goto(h, "clearRead", [loc[h] EXCEPT !.op = "release"])

StartNewFailsUnreleased(h) ==
  /\ "startError" \in Faults
  /\ At(h, "launch")
  /\ Finish(h)
  /\ UNCHANGED <<runState, etag, history, run, now>>
StartNewFails(h) ==
  /\ "startError" \in Faults
  /\ At(h, "launch")
  /\ Release(h)
  /\ UNCHANGED <<runState, etag, history, run, now>>

\* start_new raises although the run was created: only the reply was lost
StartNewReplyLost(h, i) ==
  /\ "lostReply" \in Faults
  /\ At(h, "launch")
  /\ run[i].phase = "absent"
  /\ Launched(h, i)
  /\ Release(h)
  /\ UNCHANGED <<runState, etag, history, now>>

\* set_active_instance: a MERGE upsert, whatever the row holds by now
SetActiveInstance(h) ==
  /\ At(h, "setActive")
  /\ LET p == loc[h].p IN WriteState(p, Activated(runState[p], loc[h].i))
  /\ Step(h, "openRow")
  /\ UNCHANGED <<history, run, now>>

\* open_row
OpenRow(h) ==
  /\ At(h, "openRow")
  /\ history' = [history EXCEPT ![loc[h].i] = Opened]
  /\ Finish(h)
  /\ UNCHANGED <<runState, etag, run, now>>

-----------------------------------------------------------------------------
(* Discarding runs *)

\* delete_by_instance: a row without an InstanceId is not found by it
DeleteRows(h) ==
  /\ At(h, "deleteRows")
  /\ LET i == loc[h].i IN
     history' = [history EXCEPT ![i] = IF @.whole THEN NoRow ELSE @]
  /\ Step(h, "purge")
  /\ UNCHANGED <<runState, etag, run, now>>

Purged(is) == [i \in Instances |->
  IF i \in is /\ run[i].phase \in {"Completed", "Failed"}
  THEN [run[i] EXCEPT !.phase = "Purged"] ELSE run[i]]

\* The route then purges the instance from Durable, or logs that it could not
PurgeInstance(h) ==
  /\ At(h, "purge")
  /\ \/ run' = Purged({loc[h].i})
     \/ UNCHANGED run
  /\ Finish(h)
  /\ UNCHANGED <<runState, etag, history, now>>

\* clear_terminal_runs: delete_terminal discards every row that is not running
ClearTerminalRuns(h) ==
  /\ Free(h, "clear")
  /\ \E i \in Instances : IsTerminal(history[i])
  /\ history' = [i \in Instances |->
                   IF IsTerminal(history[i]) THEN NoRow ELSE history[i]]
  /\ Goto(h, "purgeAll", Begin("clear", None, None, None))
  /\ UNCHANGED <<runState, etag, run, now>>

\* and the route purges every terminal instance from Durable
PurgeTerminalInstances(h) ==
  /\ At(h, "purgeAll")
  /\ \/ run' = Purged(Instances)
     \/ UNCHANGED run
  /\ Finish(h)
  /\ UNCHANGED <<runState, etag, history, now>>

-----------------------------------------------------------------------------
(* The orchestrations (with_run_recording) and the clock *)

\* record_outcome
Record(i, out) ==
  Goto(i, "closeQuery",
       [Begin("record", run[i].pipe, i, None) EXCEPT !.res = Reported(out)])

\* The body returns a status or raises; the completion activity is called
BodyEnds(i, out) ==
  /\ run[i].phase = "body"
  /\ Prompt => \A h \in Handlers :
                 loc[h].i = i => pc[h] \notin {"setActive", "openRow"}
  /\ run' = [run EXCEPT ![i].phase = "ended", ![i].out = out]
  /\ Record(i, out)
  /\ UNCHANGED <<runState, etag, history, now>>

\* The orchestrator returns the result, or raises again
OrchestratorRetries(i) ==
  /\ run[i].phase = "ended" /\ At(i, "recorded")
  /\ run' = [run EXCEPT ![i].phase =
               IF run[i].out = "raised" THEN "body" ELSE "Completed"]
  /\ Finish(i)
  /\ UNCHANGED <<runState, etag, history, now>>
OrchestratorReturns(i) ==
  /\ run[i].phase = "ended" /\ At(i, "recorded")
  /\ run' = [run EXCEPT ![i].phase =
               IF run[i].out = "raised" THEN "Failed" ELSE "Completed"]
  /\ Finish(i)
  /\ UNCHANGED <<runState, etag, history, now>>

\* Durable runs an activity at least once
Redeliver(i) ==
  /\ "redeliver" \in Faults
  /\ run[i].phase = "ended" /\ At(i, "recorded")
  /\ Record(i, run[i].out)
  /\ UNCHANGED <<runState, etag, history, run, now>>

\* A run is terminated, or its worker or its completion activity fails
Die(i) ==
  /\ "die" \in Faults
  /\ Live(i)
  /\ run' = [run EXCEPT ![i].phase = "Failed"]
  /\ Goto(i, "dead", NoLocals)
  /\ UNCHANGED <<runState, etag, history, now>>

\* A handler stops between two calls: its worker is gone or a call raised
Crash(h) ==
  /\ "crash" \in Faults
  /\ ~At(h, "idle") /\ ~At(h, "dead")
  /\ Goto(h, "dead", NoLocals)
  /\ UNCHANGED <<runState, etag, history, run, now>>

Tick ==
  /\ now < MaxTime
  /\ now' = now + 1
  /\ UNCHANGED <<runState, etag, history, run, pc, loc>>

-----------------------------------------------------------------------------

HandlerStep(h) ==
  \/ GetStatus(h)
  \/ TryClaimRead(h) \/ TryClaimWrite(h)
  \/ \E i \in Instances : StartNew(h, i)
  \/ StartNewFails(h)
  \/ \E i \in Instances : StartNewReplyLost(h, i)
  \/ SetActiveInstance(h) \/ OpenRow(h)
  \/ DeleteRows(h) \/ PurgeInstance(h) \/ PurgeTerminalInstances(h)

Closing(a) == CloseQuery(a) \/ CloseWrite(a) \/ ClearRead(a) \/ ClearWrite(a)

Request(h) ==
  \/ \E p \in Pipelines : StartGate(h, p)
  \/ \E p \in Pipelines, i \in Instances : ReconcileState(h, p, i)
  \/ \E i \in Instances : ReviewHistory(h, i) \/ DeleteRun(h, i)
  \/ ClearTerminalRuns(h)

RunStep(i) ==
  \/ \E out \in Outcomes : BodyEnds(i, out)
  \/ OrchestratorReturns(i)

Next ==
  \/ \E h \in Handlers : Request(h) \/ HandlerStep(h) \/ Crash(h)
  \/ \E a \in Actors : Closing(a)
  \/ \E i \in Instances : RunStep(i) \/ Redeliver(i) \/ Die(i)
  \/ Tick

Spec == Init /\ [][Next]_vars

(***************************************************************************)
(* Fairness: a handler and an activity that have begun go on, an           *)
(* orchestration body comes to its end (its loops are bounded), and the    *)
(* timer keeps visiting the rows of SchedulerRunState.  Nobody is bound to *)
(* read the run history or to ask for a start.                             *)
(***************************************************************************)
Fairness ==
  /\ \A a \in Actors : WF_vars(Closing(a))
  /\ \A h \in Handlers : WF_vars(HandlerStep(h))
  /\ \A i \in Instances : WF_vars(RunStep(i))
  /\ \A p \in Pipelines, i \in Instances :
       SF_vars(\E h \in Handlers : ReconcileState(h, p, i))

FairSpec == Spec /\ Fairness

(***************************************************************************)
(* The behaviours in which no clear is stale: what _clear_active takes out *)
(* of the row is the instance its caller found to be over, or the caller's *)
(* own claim, or nothing.  The code does not compare; these are the        *)
(* executions that a comparison would leave.  (It would also leave alone   *)
(* the placeholder of a call that died, which the completion of the run    *)
(* that the call had launched clears now.)                                 *)
(***************************************************************************)
ClearsOwn(a) == runState[loc[a].p].active \in {None, a, loc[a].i}

ClearsFresh == \A a \in Actors : ClearWrite(a) => ClearsOwn(a)

FreshSpec == Init /\ [][Next /\ ClearsFresh]_vars

-----------------------------------------------------------------------------
(* Properties *)

(***************************************************************************)
(* The rows, the runs and the locals of the calls hold what the stores,    *)
(* Durable and dispatcher.py put there.                                    *)
(***************************************************************************)
TypeOK ==
  /\ runState \in [Pipelines -> [active : {None} \cup Handlers \cup Instances,
                                 at : Time \cup {None}]]
  /\ etag \in [Pipelines -> SUBSET Handlers]
  /\ history \in [Instances -> HistoryRow]
  /\ run \in [Instances -> [phase : Phases, pipe : Pipelines \cup {None},
                            out : Outcomes \cup {"none"}]]
  /\ pc \in [Actors -> Labels]
  /\ loc \in [Actors -> Locals]
  /\ now \in Time

Working(p) == {i \in Instances : run[i].phase = "body" /\ run[i].pipe = p}

(***************************************************************************)
(* The inductive invariant behind the safety theorems: what an actor's     *)
(* position says of its locals, and what a row says of its run.            *)
(***************************************************************************)
KnownRuns == {i \in Instances : run[i].phase # "absent"}

OverRuns == {i \in KnownRuns : run[i].phase # "body"}

LocalFits(known, over, label, l) ==
  /\ label \in Labels \ {"idle", "purge", "purgeAll", "recorded", "dead"} =>
       l.p \in Pipelines
  /\ label \in {"status", "setActive", "openRow"} => l.i \in known
  /\ label \in {"closeQuery", "closeWrite"} => l.i \in over /\ l.res \in Terminal
  /\ label \in {"clearRead", "clearWrite"} /\ l.op = "delete" => l.i \in over
  /\ label = "deleteRows" => l.i \in over /\ l.op = "delete"
  /\ label \in {"claimRead", "claimWrite", "launch", "setActive", "openRow"} =>
       l.op = "start"

LocalsOK == \A a \in Actors : LocalFits(KnownRuns, OverRuns, pc[a], loc[a])

RowsOK ==
  /\ \A i \in KnownRuns : run[i].pipe \in Pipelines
  /\ \A i \in Instances :
       /\ history[i].status # "none" => i \in KnownRuns
       /\ IsTerminal(history[i]) => i \in OverRuns
  /\ \A p \in Pipelines :
       runState[p].active \in Instances => runState[p].active \in KnownRuns

\* A claimant that holds the current ETag read an idle row
ClaimOK ==
  \A p \in Pipelines, h \in Handlers :
    h \in etag[p] /\ pc[h] = "claimWrite" /\ loc[h].p = p =>
      runState[p].active = None

(***************************************************************************)
(* A claim placeholder found in a row belongs to a start call that is      *)
(* still between its claim and set_active_instance, or is about to release *)
(* the claim, unless that call died: no ordering of the calls leaves a     *)
(* placeholder behind.  The gate and the timer skip placeholders, so one   *)
(* left behind would block its scope for good.                             *)
(***************************************************************************)
Owns(label, l, p) ==
  \/ label \in {"launch", "setActive"} /\ l.p = p
  \/ label \in {"clearRead", "clearWrite"} /\ l.op = "release" /\ l.p = p
  \/ label = "dead"

PlaceholderOwned ==
  \A p \in Pipelines, h \in Handlers :
    runState[p].active = h => Owns(pc[h], loc[h], p)

(***************************************************************************)
(* The running history row of a run at work is never closed or discarded:  *)
(* neither a reconciler acting on an old read, nor a discard that looked   *)
(* before the run was launched, nor another run's completion activity      *)
(* takes the row that notifications shows and delete_run consults.         *)
(***************************************************************************)
LiveRowKept ==
  [][\A i \in Instances :
       IsRunning(history[i]) /\ run'[i].phase = "body" =>
         IsRunning(history'[i])]_vars

(***************************************************************************)
(* try_claim takes a scope only from the idle state it read: between the   *)
(* read and the write of a winning claim no other call wrote the row.      *)
(***************************************************************************)
ClaimTakesIdleRow ==
  [][\A p \in Pipelines, h \in Handlers :
       At(h, "claimWrite") /\ runState'[p].active = h =>
         runState[p].active = None]_vars

(***************************************************************************)
(* G1: at most one run of a scope is at work.                              *)
(***************************************************************************)
NoDoubleLaunch ==
  \A p \in Pipelines : \A i, j \in Working(p) : i = j

(***************************************************************************)
(* The history never shows a run as completed that did not complete,       *)
(* whichever of the completion activity, the gate, the timer and the       *)
(* readers closed its row.                                                 *)
(***************************************************************************)
Faithful(i) == history[i].status = "completed" => run[i].out = "completed"

OutcomeFaithful == \A i \in Instances : Faithful(i)

(***************************************************************************)
(* The dispatcher implements the promise of one operation per scope.       *)
(***************************************************************************)
Lock == INSTANCE ScopeLock WITH
          working  <- [p \in Pipelines |-> Working(p)],
          finished <- {i \in Instances :
                         run[i].phase \notin {"absent", "body"}}
ImplementsScopeLock == Lock!Spec

(***************************************************************************)
(* A claimed scope is freed again and again.                               *)
(***************************************************************************)
ScopeIsFreed ==
  \A p \in Pipelines : []<>(runState[p].active = None)

=============================================================================
