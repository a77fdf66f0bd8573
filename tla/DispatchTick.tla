----------------------------- MODULE DispatchTick -----------------------------
(***************************************************************************)
(* The timer of the dispatcher: reconciliation, the due-based dispatch in  *)
(* the order of priority under the cap and the contention groups, and the  *)
(* retention prune.  A step ends where the code awaits the Durable client; *)
(* other workers, manual starts, runs and administrators take steps in     *)
(* between.  A look-up of a run and the clear of the row that follows it   *)
(* are two steps, and the clear takes out whatever the row holds by then.  *)
(* The claim and the launch of one start call are one step here;           *)
(* Dispatcher takes them apart.                                            *)
(***************************************************************************)
EXTENDS Cadence, FiniteSets

CONSTANTS
  N,             \* the pipelines 1 .. N, in the order of priority
  Group,         \* the contention group of each, or NoGroup
  NoGroup,
  Frequency, Anchor,
  Workers,       \* the workers on which the timer fires
  Cap,           \* starts per tick, 0 for no bound
  Manual,        \* the pipelines administrators also start by hand
  Edited,        \* those whose schedule they switch on and off
  Watched,       \* those whose runs anybody but the dispatching tick looks up
  Failures,      \* TRUE: start_new, and other calls of a tick, may fail
  Timely,        \* TRUE: one tick in every unit of time, done before the next
  Day,           \* the time between two prunes
  MaxTime        \* bounds the clock

Pipelines == 1 .. N

ASSUME TickAssumption ==
  /\ N \in Nat
  /\ Frequency \in [Pipelines -> Nat]
  /\ Anchor \in [Pipelines -> Nat]
  /\ Cap \in Nat /\ Day \in Nat /\ MaxTime \in Nat
  /\ Manual \subseteq Pipelines /\ Edited \subseteq Pipelines /\ Watched \subseteq Pipelines
  /\ Failures \in BOOLEAN /\ Timely \in BOOLEAN
  /\ Never \notin Int

VARIABLES
  scope,      \* the row of a pipeline: it names no run, a run at work, or a run
              \* which is over
  lost,       \* the pipelines with a run at work that no row names
  late,       \* those a run of which somebody found to be over: their rows will
              \* be cleared
  lastAt,     \* LastDispatchedAt
  enabled,
  tick,       \* the local state of each worker's tick: the pipeline k whose turn
              \* it is, the time it began, what it started, and the members of
              \* k's group it has not looked at yet
  ticked,     \* where there is one in every unit of time, this unit's tick is done
  pruned,     \* LastPrunedAt
  deferred,   \* the ticks in a row that passed a due pipeline over, see below
  now

rowVars == <<scope, lost, late>>
vars == <<scope, lost, late, lastAt, enabled, tick, ticked, pruned, deferred, now>>

Time == 0 .. MaxTime
\* Where a tick is; ahead of a claim it has a pipeline whose turn it is
Ahead == {"busy", "clear", "group", "clearMember", "start", "clearGate", "claim"}
Labels == {"idle", "next", "prune"} \cup Ahead

NoTick == [pc |-> "idle", k |-> 1, at |-> 0, started |-> {}, left |-> {}]

Init ==
  /\ scope = [p \in Pipelines |-> "idle"]
  /\ lost = {} /\ late = {}
  /\ lastAt = [p \in Pipelines |-> Never]
  /\ enabled = [p \in Pipelines |-> TRUE]
  /\ tick = [w \in Workers |-> NoTick]
  /\ ticked = FALSE
  /\ pruned = Never
  /\ deferred = [p \in Pipelines |-> 0]
  /\ now = 0

At(w, label) == tick[w].pc = label
K(w) == tick[w].k

\* The row of p names a run at work
Busy(p) == scope[p] = "running"
AtWork(p) == Busy(p) \/ p \in lost

\* _reconcile_terminal, record_outcome: close_run does not compare.  A run at work
\* that the row names by now goes on without a row
Clear(p) ==
  /\ scope' = [scope EXCEPT ![p] = "idle"]
  /\ lost' = IF Busy(p) THEN lost \cup {p} ELSE lost

Slot(p, t) == SlotStart(t, Anchor[p], Frequency[p])
Due(p, t) == IsDue(t, lastAt[p], Anchor[p], Frequency[p])

\* Members of p's contention group other than p
Others(p) == {q \in Pipelines \ {p} : Group[q] = Group[p]}

\* Counts the ticks that passed a pipeline over, where there is one in every unit of
\* time
Later(n) == IF Timely /\ n <= MaxTime THEN n + 1 ELSE n

-----------------------------------------------------------------------------
(* One tick *)

\* The tick takes its time.  What it reconciles before its loop is looked up and
\* cleared like the rows that others look up, see below
TickBegin(w) ==
  /\ At(w, "idle")
  /\ Timely => ~ticked
  /\ tick' = [tick EXCEPT ![w] = [NoTick EXCEPT !.pc = "next", !.at = now]]
  /\ UNCHANGED <<rowVars, lastAt, enabled, ticked, pruned, deferred, now>>

Capped(w) == Cap > 0 /\ Cardinality(tick[w].started) >= Cap

GroupForgotten(w, p) == FALSE
GroupStarted(w, p) == \E q \in tick[w].started : Group[q] = Group[p]

\* The loop of the tick: the pipeline whose turn it is goes on if it is enabled
\* and due; the cap ends the loop and passes over the due pipelines that are left
Passed(p, t) == enabled[p] /\ Due(p, t) /\ ~Busy(p)

Consider(w) ==
  /\ At(w, "next") /\ K(w) \in Pipelines /\ ~Capped(w)
  /\ IF enabled[K(w)] /\ Due(K(w), tick[w].at)
     THEN /\ tick' = [tick EXCEPT ![w].pc = "busy"]
          /\ UNCHANGED deferred
     ELSE /\ tick' = [tick EXCEPT ![w].k = @ + 1]
          /\ deferred' = [deferred EXCEPT ![K(w)] = 0]
  /\ UNCHANGED <<rowVars, lastAt, enabled, ticked, pruned, now>>

EndLoop(w) ==
  /\ At(w, "next") /\ (K(w) \notin Pipelines \/ Capped(w))
  /\ tick' = [tick EXCEPT ![w].pc = "prune"]
  /\ deferred' = [p \in Pipelines |->
                    IF p < K(w) THEN deferred[p]
                    ELSE IF Passed(p, tick[w].at) THEN Later(deferred[p]) ELSE 0]
  /\ UNCHANGED <<rowVars, lastAt, enabled, ticked, pruned, now>>

Skip(w) ==
  tick' = [tick EXCEPT ![w].pc = "next", ![w].k = @ + 1, ![w].left = {}]

\* Past scope_busy of the pipeline: nothing of its contention group has started in
\* this tick, and the other members are looked at next
GoOn(w) ==
  LET p == K(w) IN
  \/ /\ Group[p] = NoGroup
     /\ tick' = [tick EXCEPT ![w].pc = "start"]
     /\ UNCHANGED deferred
  \/ /\ Group[p] # NoGroup /\ ~GroupStarted(w, p)
     /\ tick' = [tick EXCEPT ![w].pc = "group", ![w].left = Others(p)]
     /\ UNCHANGED deferred
  \/ /\ Group[p] # NoGroup /\ GroupStarted(w, p)
     /\ Skip(w)
     /\ deferred' = [deferred EXCEPT ![p] = Later(@)]

\* scope_busy of the pipeline: its row, and the status of the run this names
CheckBusy(w) ==
  /\ At(w, "busy")
  /\ \/ /\ scope[K(w)] = "running"
        /\ Skip(w)
        /\ deferred' = [deferred EXCEPT ![K(w)] = 0]
     \/ /\ scope[K(w)] = "stale"
        /\ tick' = [tick EXCEPT ![w].pc = "clear"]
        /\ UNCHANGED deferred
     \/ /\ scope[K(w)] = "idle"
        /\ GoOn(w)
  /\ UNCHANGED <<rowVars, lastAt, enabled, ticked, pruned, now>>

ClearOwn(w) ==
  /\ At(w, "clear")
  /\ Clear(K(w))
  /\ GoOn(w)
  /\ UNCHANGED <<late, lastAt, enabled, ticked, pruned, now>>

\* _contention_blocked: scope_busy of one other member of the group
Looks(w, q) == q \in tick[w].left /\ \A r \in tick[w].left : q <= r

CheckGroupFirstOnly(w) ==
  /\ At(w, "group")
  /\ tick' = [tick EXCEPT ![w].pc = "start", ![w].left = {}]
  /\ UNCHANGED <<rowVars, lastAt, enabled, ticked, pruned, deferred, now>>
CheckGroup(w) ==
  /\ At(w, "group")
  /\ \/ /\ tick[w].left = {}
        /\ tick' = [tick EXCEPT ![w].pc = "start"]
        /\ UNCHANGED deferred
     \/ \E q \in tick[w].left :
          /\ Looks(w, q)
          /\ \/ /\ scope[q] = "running"
                /\ Skip(w)
                /\ deferred' = [deferred EXCEPT ![K(w)] = Later(@)]
             \/ /\ scope[q] = "stale"
                /\ tick' = [tick EXCEPT ![w].pc = "clearMember"]
                /\ UNCHANGED deferred
             \/ /\ scope[q] = "idle"
                /\ tick' = [tick EXCEPT ![w].left = @ \ {q}]
                /\ UNCHANGED deferred
  /\ UNCHANGED <<rowVars, lastAt, enabled, ticked, pruned, now>>

ClearMember(w) ==
  /\ At(w, "clearMember")
  /\ \E q \in tick[w].left :
       /\ Looks(w, q)
       /\ Clear(q)
       /\ tick' = [tick EXCEPT ![w].pc = "group", ![w].left = @ \ {q}]
  /\ UNCHANGED <<late, lastAt, enabled, ticked, pruned, deferred, now>>

\* start: a scheduled refresh honours enablement, then passes scope_busy again
Gate(w) ==
  /\ At(w, "start")
  /\ \/ /\ ~enabled[K(w)] \/ scope[K(w)] = "running"
        /\ Skip(w)
        /\ deferred' = [deferred EXCEPT ![K(w)] = 0]
     \/ /\ enabled[K(w)] /\ scope[K(w)] = "stale"
        /\ tick' = [tick EXCEPT ![w].pc = "clearGate"]
        /\ UNCHANGED deferred
     \/ /\ enabled[K(w)] /\ scope[K(w)] = "idle"
        /\ tick' = [tick EXCEPT ![w].pc = "claim"]
        /\ UNCHANGED deferred
  /\ UNCHANGED <<rowVars, lastAt, enabled, ticked, pruned, now>>

ClearGate(w) ==
  /\ At(w, "clearGate")
  /\ Clear(K(w))
  /\ tick' = [tick EXCEPT ![w].pc = "claim"]
  /\ UNCHANGED <<late, lastAt, enabled, ticked, pruned, deferred, now>>

ClaimTime(p) == now

\* start: the row is taken by now, or the run started, or start_new failed: that
\* releases the scope and keeps LastDispatchedAt, and the run may be at work all the
\* same when only the reply was lost
StartScheduled(w) ==
  /\ At(w, "claim")
  /\ LET p == K(w) IN
     \/ scope[p] # "idle" /\ Skip(w) /\ UNCHANGED <<scope, lost, lastAt>>
     \/ /\ scope[p] = "idle"
        /\ lastAt' = [lastAt EXCEPT ![p] = ClaimTime(p)]
        /\ \/ /\ scope' = [scope EXCEPT ![p] = "running"]
              /\ tick' = [tick EXCEPT ![w].pc = "next", ![w].k = p + 1,
                            ![w].started = @ \cup {p}]
              /\ UNCHANGED lost
           \/ /\ Failures
              /\ lost' \in {lost, lost \cup {p}}
              /\ Skip(w)
              /\ UNCHANGED scope
  /\ deferred' = [deferred EXCEPT ![K(w)] = 0]
  /\ UNCHANGED <<late, enabled, ticked, pruned, now>>

\* A call that fails on the way to the claim costs its pipeline this tick
Isolated(w) ==
  /\ Failures
  /\ \/ At(w, "next") /\ K(w) \in Pipelines /\ ~Capped(w)
     \/ tick[w].pc \in Ahead
  /\ Skip(w)
  /\ deferred' = [deferred EXCEPT ![K(w)] = 0]
  /\ UNCHANGED <<rowVars, lastAt, enabled, ticked, pruned, now>>

PruneDue(w) == pruned \in {Never} \cup 0 .. tick[w].at - Day

\* _maybe_prune, which may fail, and record_tick
Prune(w) ==
  /\ At(w, "prune")
  /\ \/ PruneDue(w) /\ pruned' = tick[w].at
     \/ (PruneDue(w) => Failures) /\ UNCHANGED pruned
  /\ tick' = [tick EXCEPT ![w] = NoTick]
  /\ ticked' = Timely
  /\ UNCHANGED <<rowVars, lastAt, enabled, deferred, now>>

-----------------------------------------------------------------------------
(* What happens beside the tick *)

\* A manual start knows neither the schedule nor the contention groups; what its
\* gate clears is among the late clears
StartManual(p) ==
  /\ p \in Manual
  /\ scope[p] = "idle"
  /\ scope' = [scope EXCEPT ![p] = "running"]
  /\ lastAt' = [lastAt EXCEPT ![p] = now]
  /\ UNCHANGED <<lost, late, enabled, tick, ticked, pruned, deferred, now>>

\* update_config
SetEnabled(p) ==
  /\ p \in Edited
  /\ enabled' = [enabled EXCEPT ![p] = ~@]
  /\ UNCHANGED <<rowVars, lastAt, tick, ticked, pruned, deferred, now>>

\* A run is over: its row names it still, or names it no more (more than one such
\* run may be at work).  The completion of an unnamed run may clear the row as well
RunEnds(p) ==
  /\ Busy(p)
  /\ scope' = [scope EXCEPT ![p] = "stale"]
  /\ UNCHANGED <<lost, late, lastAt, enabled, tick, ticked, pruned, deferred, now>>

LostRunEnds(p) ==
  /\ p \in lost
  /\ lost' \in {lost, lost \ {p}}
  /\ late' \in {late, late \cup ({p} \cap Watched)}
  /\ UNCHANGED <<scope, lastAt, enabled, tick, ticked, pruned, deferred, now>>

\* The run's completion, a page (pipeline table, status, history, notifications), a
\* manual start, delete_run, or a tick that reconciles: it finds that the run is over
FindOver(p) ==
  /\ p \in Watched \ late
  /\ scope[p] = "stale"
  /\ late' = late \cup {p}
  /\ UNCHANGED <<scope, lost, lastAt, enabled, tick, ticked, pruned, deferred, now>>

\* and clears the row later, if its call is not cut off; another may have found it too
ClearLate(p) ==
  /\ p \in late
  /\ \/ Clear(p)
     \/ UNCHANGED <<scope, lost>>
  /\ late' \in {late, late \ {p}}
  /\ UNCHANGED <<lastAt, enabled, tick, ticked, pruned, deferred, now>>

Advance ==
  /\ now < MaxTime
  /\ Timely => ticked
  /\ now' = now + 1
  /\ ticked' = FALSE
  /\ UNCHANGED <<rowVars, lastAt, enabled, tick, pruned, deferred>>

Worker(w) ==
  \/ TickBegin(w) \/ Consider(w) \/ EndLoop(w)
  \/ CheckBusy(w) \/ ClearOwn(w) \/ CheckGroup(w) \/ ClearMember(w)
  \/ Gate(w) \/ ClearGate(w) \/ StartScheduled(w) \/ Isolated(w) \/ Prune(w)

Next ==
  \/ \E w \in Workers : Worker(w)
  \/ \E p \in Pipelines : \/ StartManual(p) \/ SetEnabled(p)
                          \/ RunEnds(p) \/ LostRunEnds(p) \/ FindOver(p) \/ ClearLate(p)
  \/ Advance

Spec == Init /\ [][Next]_vars

-----------------------------------------------------------------------------

(***************************************************************************)
(* The local state of a tick, the rows and the clock hold what tick puts   *)
(* there.                                                                  *)
(***************************************************************************)
TypeOK ==
  /\ scope \in [Pipelines -> {"idle", "running", "stale"}]
  /\ lost \subseteq Pipelines /\ late \subseteq Pipelines
  /\ lastAt \in [Pipelines -> Time \cup {Never}]
  /\ enabled \in [Pipelines -> BOOLEAN]
  /\ tick \in [Workers -> [pc : Labels, k : 1 .. N + 1, at : Time,
                           started : SUBSET Pipelines, left : SUBSET Pipelines]]
  /\ ticked \in BOOLEAN
  /\ pruned \in Time \cup {Never}
  /\ deferred \in [Pipelines -> 0 .. MaxTime + 1]
  /\ now \in Time

\* w starts p
Starts(w, p) == At(w, "claim") /\ p \in tick'[w].started \ tick[w].started

(***************************************************************************)
(* Whatever manual starts, schedule edits and other workers do meanwhile,  *)
(* a tick starts no more pipelines than the cap and one of each contention *)
(* group, as far as start_new has told it.                                 *)
(***************************************************************************)
TickBudget ==
  \A w \in Workers :
    /\ Cap > 0 => Cardinality(tick[w].started) <= Cap
    /\ \A p, q \in tick[w].started :
         p # q => Group[p] = NoGroup \/ Group[p] # Group[q]

(***************************************************************************)
(* Two pipelines of one contention group, no member of which anybody       *)
(* starts by hand, are at work together only if one of them has lost its   *)
(* row: a call that had found an earlier run of it over cleared the row of *)
(* the later one, or the reply of start_new was lost.  The timer looks at  *)
(* the row of every other member before it starts one, and while it awaits *)
(* their runs' status no row comes to name another run at work.            *)
(***************************************************************************)
ByTimer(p) == ({p} \cup Others(p)) \cap Manual = {}

GroupSerial ==
  \A p, q \in Pipelines :
    /\ p # q /\ Group[p] = Group[q] /\ Group[p] # NoGroup /\ ByTimer(p)
    /\ AtWork(p) /\ AtWork(q)
    => ~Busy(p) \/ ~Busy(q)

(***************************************************************************)
(* A slot is dispatched once: the timer starts a pipeline that is not also *)
(* started by hand only in a slot later than the slot of its last dispatch.*)
(***************************************************************************)
OncePerSlot ==
  [][\A w \in Workers, p \in Pipelines \ Manual :
       Starts(w, p) /\ lastAt[p] # Never => Slot(p, lastAt[p]) < Slot(p, now)]_vars

(***************************************************************************)
(* The cap never starves a due pipeline for longer than those before it    *)
(* have slots: when every tick is in time, a pipeline outside the          *)
(* contention groups is passed over at most once for each slot of a        *)
(* pipeline before it that its wait meets; and if those come back no       *)
(* sooner than the bound, at most twice for each of them, for a dispatch   *)
(* that is late and one on the grid.                                       *)
(***************************************************************************)
Alone(p) == Group[p] = NoGroup \/ Others(p) = {}

Before(p) == {q \in 1 .. p - 1 : Frequency[q] > 0}
SlotsIn(p, t, u) == UNION {{<<q, Slot(q, x)>> : x \in t .. u} : q \in Before(p)}

Spaced(p) == \A q \in Before(p) : Frequency[q] >= 2 * (p - 1)

WaitBounded ==
  \A p \in Pipelines : Alone(p) =>
    /\ deferred[p] <= Cardinality(SlotsIn(p, now - deferred[p], now))
    /\ Spaced(p) => deferred[p] <= 2 * (p - 1)

================================================================================
