-------------------------- MODULE DispatchTickProofs --------------------------
(***************************************************************************)
(* Theorems of DispatchTick, for any pipelines, groups, schedules and cap. *)
(***************************************************************************)
EXTENDS DispatchTick, FiniteSetTheorems, TLAPS

-----------------------------------------------------------------------------
(* The grid of slots *)

LEMMA Multiples ==
  ASSUME NEW a \in Int, NEW b \in Int, NEW f \in Nat, f > 0, a < b
  PROVE  a * f + f <= b * f
<1>1. PICK c \in Nat : b = a + 1 + c
  <2>1. b - a - 1 \in Nat /\ b = a + 1 + (b - a - 1)
    OBVIOUS
  <2> QED BY <2>1
<1>2. b * f = a * f + f + c * f
  BY <1>1
<1>3. c * f >= 0
  BY <1>1
<1>4. a * f \in Int /\ c * f \in Int
  OBVIOUS
<1> QED BY <1>2, <1>3, <1>4

(***************************************************************************)
(* A time lies in its slot, which is freq long.                            *)
(***************************************************************************)
LEMMA SlotBounds ==
  ASSUME NEW t \in Int, NEW a \in Int, NEW f \in Nat, f > 0
  PROVE  /\ SlotStart(t, a, f) \in Int
         /\ SlotStart(t, a, f) <= t
         /\ t < SlotStart(t, a, f) + f
<1> DEFINE x == t - a
<1>1. (x \div f) \in Int /\ (x \div f) * f \in Int
  OBVIOUS
<1>2. (x \div f) * f <= x
  OBVIOUS
<1>3. x < (x \div f) * f + f
  OBVIOUS
<1> QED BY <1>1, <1>2, <1>3 DEF SlotStart

(***************************************************************************)
(* Slots follow one another as their times do.                             *)
(***************************************************************************)
LEMMA SlotMonotone ==
  ASSUME NEW s \in Int, NEW t \in Int, NEW a \in Int, NEW f \in Nat, f > 0, s <= t
  PROVE  SlotStart(s, a, f) <= SlotStart(t, a, f)
<1> DEFINE i == (s - a) \div f
           j == (t - a) \div f
<1>0. i \in Int /\ j \in Int /\ i * f \in Int /\ j * f \in Int
  OBVIOUS
<1>1. i * f <= s - a /\ t - a < j * f + f
  OBVIOUS
<1>2. CASE j < i
  <2>1. j * f + f <= i * f
    BY <1>0, <1>2, Multiples
  <2> QED BY <1>0, <1>1, <2>1
<1>3. CASE j = i
  BY <1>0, <1>3 DEF SlotStart
<1>4. CASE i < j
  <2>1. i * f + f <= j * f
    BY <1>0, <1>4, Multiples
  <2> QED BY <1>0, <2>1 DEF SlotStart
<1> QED BY <1>0, <1>2, <1>3, <1>4

(***************************************************************************)
(* A pipeline that is due was last dispatched in an earlier slot.          *)
(***************************************************************************)
LEMMA DueInLaterSlot ==
  ASSUME NEW t \in Int, NEW last \in Int, NEW a \in Int, NEW f \in Nat,
         last # Never, IsDue(t, last, a, f)
  PROVE  f > 0 /\ SlotStart(last, a, f) < SlotStart(t, a, f)
<1>1. f > 0 /\ last < SlotStart(t, a, f)
  BY DEF IsDue
<1>2. SlotStart(last, a, f) \in Int /\ SlotStart(last, a, f) <= last
      /\ SlotStart(t, a, f) \in Int
  BY <1>1, SlotBounds
<1> QED BY <1>1, <1>2

\* The points of the grid
OnGrid(g, a, f) == \E n \in Int : g = n * f + a

(***************************************************************************)
(* The start of the slot of a time is the latest point of the grid that is *)
(* not after it, on either side of the anchor.                             *)
(***************************************************************************)
LEMMA LatestPoint ==
  ASSUME NEW t \in Int, NEW a \in Int, NEW f \in Nat, f > 0
  PROVE  /\ OnGrid(SlotStart(t, a, f), a, f)
         /\ \A g \in Int : OnGrid(g, a, f) /\ g <= t => g <= SlotStart(t, a, f)
<1> DEFINE i == (t - a) \div f
<1>1. i \in Int /\ i * f \in Int /\ SlotStart(t, a, f) = i * f + a
  BY DEF SlotStart
<1>2. t < i * f + a + f
  BY <1>1, SlotBounds
<1> HIDE DEF i
<1>3. ASSUME NEW n \in Int, n * f + a <= t
      PROVE  n * f <= i * f
  <2>1. n * f \in Int
    OBVIOUS
  <2>2. ~(i < n)
    <3>1. ASSUME i < n PROVE FALSE
      <4>1. i * f + f <= n * f
        BY <1>1, <3>1, Multiples
      <4> QED BY <1>1, <1>2, <1>3, <2>1, <4>1
    <3> QED BY <3>1
  <2>3. CASE n < i
    <3>1. n * f + f <= i * f
      BY <1>1, <2>3, Multiples
    <3> QED BY <1>1, <2>1, <3>1
  <2>4. CASE n = i
    BY <1>1, <2>4
  <2> QED BY <1>1, <2>2, <2>3, <2>4
<1>4. ASSUME NEW g \in Int, OnGrid(g, a, f), g <= t
      PROVE  g <= SlotStart(t, a, f)
  <2>1. PICK n \in Int : g = n * f + a
    BY <1>4 DEF OnGrid
  <2>2. n * f <= i * f /\ n * f \in Int
    BY <1>3, <1>4, <2>1
  <2> QED BY <1>1, <2>1, <2>2
<1> QED BY <1>1, <1>4 DEF OnGrid

(***************************************************************************)
(* cadence.py 28-42: a pipeline is due exactly when its schedule has a     *)
(* point after its last dispatch and not after now.  However many points a *)
(* stopped timer has missed they are made up for once, none is skipped for *)
(* a late dispatch, and a start before the anchor counts no differently.   *)
(***************************************************************************)
THEOREM DueAtGridPoint ==
  ASSUME NEW t \in Int, NEW last \in Int \cup {Never}, NEW a \in Int, NEW f \in Nat
  PROVE  IsDue(t, last, a, f) <=>
           f > 0 /\ (last = Never \/ \E g \in last + 1 .. t : OnGrid(g, a, f))
<1>1. CASE f > 0 /\ last # Never
  <2>1. last \in Int /\ SlotStart(t, a, f) \in Int /\ SlotStart(t, a, f) <= t
    BY <1>1, SlotBounds
  <2>2. ASSUME last < SlotStart(t, a, f) PROVE \E g \in last + 1 .. t : OnGrid(g, a, f)
    <3>1. SlotStart(t, a, f) \in last + 1 .. t
      BY <2>1, <2>2
    <3> QED BY <1>1, <3>1, LatestPoint
  <2>3. ASSUME NEW g \in last + 1 .. t, OnGrid(g, a, f) PROVE last < SlotStart(t, a, f)
    <3>1. g \in Int /\ g <= t /\ last < g
      BY <2>1
    <3>2. g <= SlotStart(t, a, f)
      BY <1>1, <2>3, <3>1, LatestPoint
    <3> QED BY <2>1, <3>1, <3>2
  <2> QED BY <1>1, <2>2, <2>3 DEF IsDue
<1>2. CASE ~(f > 0) \/ last = Never
  BY <1>2 DEF IsDue
<1> QED BY <1>1, <1>2

-----------------------------------------------------------------------------
(* Types, and the place of a tick in its loop *)

USE DEF rowVars

InLoop == \A w \in Workers : tick[w].pc \in Ahead => K(w) \in Pipelines

Typed == TypeOK /\ InLoop

TickRecord == [pc : Labels, k : 1 .. N + 1, at : Time,
               started : SUBSET Pipelines, left : SUBSET Pipelines]

LEMMA TickFields ==
  ASSUME TypeOK, NEW w \in Workers
  PROVE  /\ tick[w].pc \in Labels /\ tick[w].k \in 1 .. N + 1 /\ tick[w].at \in Time
         /\ tick[w].started \in SUBSET Pipelines /\ tick[w].left \in SUBSET Pipelines
         /\ tick \in [Workers -> TickRecord]
  BY DEF TypeOK, TickRecord

(***************************************************************************)
(* What a step of a worker may leave in its tick.                          *)
(***************************************************************************)
LEMMA TickStep ==
  ASSUME Typed, NEW w \in Workers, NEW t \in TickRecord,
         tick' = [tick EXCEPT ![w] = t], t.pc \in Ahead => t.k \in Pipelines
  PROVE  /\ tick' \in [Workers -> TickRecord] /\ InLoop'
         /\ tick'[w] = t /\ \A v \in Workers \ {w} : tick'[v] = tick[v]
  BY DEF Typed, TypeOK, TickRecord, InLoop, K

LEMMA SkipTyped ==
  ASSUME TickAssumption, Typed, NEW w \in Workers, K(w) \in Pipelines, Skip(w)
  PROVE  tick' \in [Workers -> TickRecord] /\ InLoop'
<1> DEFINE t == [tick[w] EXCEPT !.pc = "next", !.k = @ + 1, !.left = {}]
<1>1. tick' = [tick EXCEPT ![w] = t]
  BY DEF Skip
<1>2. tick[w] \in TickRecord
  BY TickFields DEF Typed
<1>3. tick[w].k + 1 \in 1 .. N + 1
  BY DEF K, Pipelines, TickAssumption
<1>4. t \in TickRecord /\ t.pc \notin Ahead
  BY <1>2, <1>3 DEF TickRecord, Labels, Ahead
<1> QED BY <1>1, <1>4, TickStep

(***************************************************************************)
(* A clear of a row starts nothing.                                        *)
(***************************************************************************)
LEMMA ClearTyped ==
  ASSUME TypeOK, NEW q \in Pipelines, Clear(q)
  PROVE  /\ scope' \in [Pipelines -> {"idle", "running", "stale"}]
         /\ lost' \subseteq Pipelines
         /\ \A p \in Pipelines : Busy(p)' => Busy(p)
  BY DEF TypeOK, Clear, Busy

LEMMA LabelTyped ==
  ASSUME Typed, NEW w \in Workers, K(w) \in Pipelines, NEW l \in Labels,
         tick' = [tick EXCEPT ![w].pc = l]
  PROVE  tick' \in [Workers -> TickRecord] /\ InLoop'
<1> DEFINE t == [tick[w] EXCEPT !.pc = l]
<1>1. tick' = [tick EXCEPT ![w] = t]
  OBVIOUS
<1>2. t \in TickRecord /\ t.k \in Pipelines
  BY TickFields DEF Typed, TickRecord, K
<1> QED BY <1>1, <1>2, TickStep

LEMMA LaterTyped ==
  ASSUME TickAssumption, NEW n \in 0 .. MaxTime + 1
  PROVE  Later(n) \in 0 .. MaxTime + 1 /\ 0 \in 0 .. MaxTime + 1
  BY DEF TickAssumption, Later

LEMMA GoOnTyped ==
  ASSUME TickAssumption, Typed, NEW w \in Workers, K(w) \in Pipelines, GoOn(w)
  PROVE  /\ tick' \in [Workers -> TickRecord] /\ InLoop'
         /\ deferred' \in [Pipelines -> 0 .. MaxTime + 1]
<1>1. deferred' \in [Pipelines -> 0 .. MaxTime + 1]
  BY LaterTyped DEF GoOn, Typed, TypeOK
<1>2. CASE tick' = [tick EXCEPT ![w].pc = "start"]
  <2>1. "start" \in Labels
    BY DEF Labels, Ahead
  <2> QED BY <1>1, <1>2, <2>1, LabelTyped
<1>3. CASE tick' = [tick EXCEPT ![w].pc = "group", ![w].left = Others(K(w))]
  <2> DEFINE t == [tick[w] EXCEPT !.pc = "group", !.left = Others(K(w))]
  <2>1. tick' = [tick EXCEPT ![w] = t]
    BY <1>3
  <2>2. t \in TickRecord /\ t.k \in Pipelines
    <3>1. tick[w] \in TickRecord /\ Others(K(w)) \subseteq Pipelines
      BY TickFields DEF Typed, Others
    <3> QED BY <3>1 DEF TickRecord, Labels, Ahead, K
  <2> QED BY <1>1, <2>1, <2>2, TickStep
<1>4. CASE Skip(w)
  BY <1>1, <1>4, SkipTyped
<1> QED BY <1>2, <1>3, <1>4 DEF GoOn

LEMMA InitTyped ==
  ASSUME TickAssumption, Init
  PROVE  Typed
<1>1. NoTick \in TickRecord
  BY DEF NoTick, TickRecord, Labels, Time, TickAssumption
<1>2. 0 \in Time /\ 0 \in 0 .. MaxTime + 1
  BY DEF Time, TickAssumption
<1> QED BY <1>1, <1>2 DEF Init, Typed, TypeOK, InLoop, TickRecord, NoTick, Ahead

\* What happens to a pipeline beside the tick
Beside(p) ==
  \/ StartManual(p) \/ SetEnabled(p)
  \/ RunEnds(p) \/ LostRunEnds(p) \/ FindOver(p) \/ ClearLate(p)

LEMMA NextTyped ==
  ASSUME TickAssumption, Typed, [Next]_vars
  PROVE  Typed'
<1> USE DEF Typed
<1> DEFINE TickOK == tick' \in [Workers -> TickRecord] /\ InLoop'
           RestOK == /\ scope' \in [Pipelines -> {"idle", "running", "stale"}]
                     /\ lost' \subseteq Pipelines /\ late' \subseteq Pipelines
                     /\ lastAt' \in [Pipelines -> Time \cup {Never}]
                     /\ enabled' \in [Pipelines -> BOOLEAN]
                     /\ ticked' \in BOOLEAN /\ pruned' \in Time \cup {Never}
                     /\ deferred' \in [Pipelines -> 0 .. MaxTime + 1] /\ now' \in Time
<1>0. SUFFICES TickOK /\ RestOK
  BY DEF TypeOK, TickRecord
<1>a. ASSUME UNCHANGED tick PROVE TickOK
  BY <1>a DEF TypeOK, TickRecord, InLoop, K
<1>b. deferred \in [Pipelines -> 0 .. MaxTime + 1] /\ 0 \in 0 .. MaxTime + 1
      /\ \A p \in Pipelines : Later(deferred[p]) \in 0 .. MaxTime + 1
  BY LaterTyped DEF TypeOK, TickAssumption
<1>1. ASSUME NEW w \in Workers, TickBegin(w) PROVE TickOK /\ RestOK
  <2> DEFINE t == [NoTick EXCEPT !.pc = "next", !.at = now]
  <2>1. tick' = [tick EXCEPT ![w] = t]
    BY <1>1 DEF TickBegin
  <2>a. now \in Time /\ NoTick \in TickRecord
    BY DEF TypeOK, NoTick, TickRecord, Labels, Time, TickAssumption
  <2>2. t \in TickRecord /\ t.pc \notin Ahead
    BY <2>a DEF TickRecord, Labels, Ahead
  <2>3. TickOK
    BY <2>1, <2>2, TickStep
  <2>4. RestOK
    BY <1>1 DEF TickBegin, TypeOK
  <2> QED BY <2>3, <2>4
<1>2. ASSUME NEW w \in Workers, Consider(w) PROVE TickOK /\ RestOK
  <2>1. tick[w] \in TickRecord /\ K(w) \in Pipelines /\ tick[w].k + 1 \in 1 .. N + 1
    BY <1>2, TickFields DEF Consider, K, Pipelines, TickAssumption
  <2>2. CASE enabled[K(w)] /\ Due(K(w), tick[w].at)
    <3> DEFINE t == [tick[w] EXCEPT !.pc = "busy"]
    <3>1. tick' = [tick EXCEPT ![w] = t]
      BY <1>2, <2>2 DEF Consider
    <3>2. t \in TickRecord /\ t.k = K(w)
      BY <2>1 DEF TickRecord, Labels, Ahead, K
    <3>3. TickOK
      BY <2>1, <3>1, <3>2, TickStep
    <3> QED BY <1>2, <2>2, <3>3 DEF Consider, TypeOK
  <2>3. CASE ~(enabled[K(w)] /\ Due(K(w), tick[w].at))
    <3> DEFINE t == [tick[w] EXCEPT !.k = @ + 1]
    <3>1. tick' = [tick EXCEPT ![w] = t]
      BY <1>2, <2>3 DEF Consider
    <3>2. t \in TickRecord /\ t.pc = "next"
      BY <1>2, <2>1 DEF TickRecord, Labels, Consider, At
    <3>3. TickOK
      BY <3>1, <3>2, TickStep DEF Ahead
    <3> QED BY <1>2, <2>1, <2>3, <3>3, <1>b DEF Consider, TypeOK
  <2> QED BY <2>2, <2>3
<1>3. ASSUME NEW w \in Workers, EndLoop(w) PROVE TickOK /\ RestOK
  <2> DEFINE t == [tick[w] EXCEPT !.pc = "prune"]
  <2>1. tick' = [tick EXCEPT ![w] = t]
    BY <1>3 DEF EndLoop
  <2>2. t \in TickRecord /\ t.pc \notin Ahead
    BY TickFields DEF TickRecord, Labels, Ahead
  <2>3. TickOK
    BY <2>1, <2>2, TickStep
  <2>4. deferred' \in [Pipelines -> 0 .. MaxTime + 1]
    BY <1>3, <1>b DEF EndLoop
  <2> QED BY <1>3, <2>3, <2>4 DEF EndLoop, TypeOK
<1>l. Ahead \subseteq Labels
  BY DEF Labels
<1>4. ASSUME NEW w \in Workers, CheckBusy(w) PROVE TickOK /\ RestOK
  <2>1. K(w) \in Pipelines
    BY <1>4 DEF CheckBusy, InLoop, At, Ahead
  <2>2. CASE Skip(w) /\ deferred' = [deferred EXCEPT ![K(w)] = 0]
    <3>1. deferred' \in [Pipelines -> 0 .. MaxTime + 1]
      BY <2>1, <2>2, <1>b
    <3> QED BY <1>4, <2>1, <2>2, <3>1, SkipTyped DEF CheckBusy, TypeOK
  <2>3. CASE tick' = [tick EXCEPT ![w].pc = "clear"] /\ UNCHANGED deferred
    <3>1. "clear" \in Labels
      BY DEF Labels, Ahead
    <3> QED BY <1>4, <2>1, <2>3, <3>1, LabelTyped DEF CheckBusy, TypeOK
  <2>4. CASE GoOn(w)
    BY <1>4, <2>1, <2>4, GoOnTyped DEF CheckBusy, TypeOK
  <2> QED BY <1>4, <2>2, <2>3, <2>4 DEF CheckBusy
<1>5. ASSUME NEW w \in Workers, ClearOwn(w) PROVE TickOK /\ RestOK
  <2>1. K(w) \in Pipelines /\ Clear(K(w)) /\ GoOn(w)
    BY <1>5 DEF ClearOwn, InLoop, At, Ahead
  <2> QED BY <1>5, <2>1, GoOnTyped, ClearTyped DEF ClearOwn, TypeOK
<1>6. ASSUME NEW w \in Workers, CheckGroup(w) PROVE TickOK /\ RestOK
  <2>1. K(w) \in Pipelines /\ tick[w] \in TickRecord
    BY <1>6, TickFields DEF CheckGroup, InLoop, At, Ahead
  <2>2. RestOK
    <3>1. deferred' \in [Pipelines -> 0 .. MaxTime + 1]
      BY <1>6, <2>1, <1>b DEF CheckGroup
    <3> QED BY <1>6, <3>1 DEF CheckGroup, TypeOK
  <2>3. CASE Skip(w)
    BY <2>1, <2>2, <2>3, SkipTyped
  <2>4. ASSUME NEW l \in {"start", "clearMember"}, tick' = [tick EXCEPT ![w].pc = l]
        PROVE  TickOK /\ RestOK
    BY <2>1, <2>2, <2>4, LabelTyped DEF Labels, Ahead
  <2>5. ASSUME NEW q, tick' = [tick EXCEPT ![w].left = @ \ {q}] PROVE TickOK /\ RestOK
    <3> DEFINE t == [tick[w] EXCEPT !.left = @ \ {q}]
    <3>1. t \in TickRecord /\ t.k \in Pipelines
      BY <2>1 DEF TickRecord, K
    <3> QED BY <2>2, <2>5, <3>1, TickStep
  <2> QED BY <1>6, <2>3, <2>4, <2>5 DEF CheckGroup
<1>13. ASSUME NEW w \in Workers, ClearMember(w) PROVE TickOK /\ RestOK
  <2>1. K(w) \in Pipelines /\ tick[w] \in TickRecord
    BY <1>13, TickFields DEF ClearMember, InLoop, At, Ahead
  <2>2. PICK q \in tick[w].left :
          Clear(q) /\ tick' = [tick EXCEPT ![w].pc = "group", ![w].left = @ \ {q}]
    BY <1>13 DEF ClearMember
  <2> DEFINE t == [tick[w] EXCEPT !.pc = "group", !.left = @ \ {q}]
  <2>3. tick' = [tick EXCEPT ![w] = t]
    BY <2>2
  <2>4. q \in Pipelines /\ t \in TickRecord /\ t.k \in Pipelines
    BY <2>1 DEF TickRecord, Labels, Ahead, K
  <2>5. TickOK
    BY <2>3, <2>4, TickStep
  <2> QED BY <1>13, <2>2, <2>4, <2>5, ClearTyped DEF ClearMember, TypeOK
<1>14. ASSUME NEW w \in Workers, Gate(w) PROVE TickOK /\ RestOK
  <2>1. K(w) \in Pipelines
    BY <1>14 DEF Gate, InLoop, At, Ahead
  <2>2. RestOK
    <3>1. deferred' \in [Pipelines -> 0 .. MaxTime + 1]
      BY <1>14, <2>1, <1>b DEF Gate
    <3> QED BY <1>14, <3>1 DEF Gate, TypeOK
  <2>3. CASE Skip(w)
    BY <2>1, <2>2, <2>3, SkipTyped
  <2>4. ASSUME NEW l \in {"clearGate", "claim"}, tick' = [tick EXCEPT ![w].pc = l]
        PROVE  TickOK /\ RestOK
    BY <2>1, <2>2, <2>4, LabelTyped DEF Labels, Ahead
  <2> QED BY <1>14, <2>3, <2>4 DEF Gate
<1>15. ASSUME NEW w \in Workers, ClearGate(w) PROVE TickOK /\ RestOK
  <2>1. K(w) \in Pipelines /\ "claim" \in Labels
    BY <1>15 DEF ClearGate, InLoop, At, Ahead, Labels
  <2>2. TickOK
    BY <1>15, <2>1, LabelTyped DEF ClearGate
  <2> QED BY <1>15, <2>1, <2>2, ClearTyped DEF ClearGate, TypeOK
<1>7. ASSUME NEW w \in Workers, StartScheduled(w) PROVE TickOK /\ RestOK
  <2>1. K(w) \in Pipelines /\ tick[w] \in TickRecord /\ K(w) + 1 \in 1 .. N + 1
    BY <1>7, TickFields DEF StartScheduled, InLoop, At, Ahead, Pipelines, TickAssumption
  <2>2. RestOK
    <3>1. deferred' \in [Pipelines -> 0 .. MaxTime + 1]
      BY <1>7, <2>1, <1>b DEF StartScheduled
    <3>2. lastAt' \in [Pipelines -> Time \cup {Never}]
      BY <1>7 DEF StartScheduled, TypeOK, ClaimTime
    <3>3. scope' \in [Pipelines -> {"idle", "running", "stale"}] /\ lost' \subseteq Pipelines
      BY <1>7, <2>1 DEF StartScheduled, TypeOK
    <3> QED BY <1>7, <3>1, <3>2, <3>3 DEF StartScheduled, TypeOK
  <2>3. CASE Skip(w)
    BY <2>1, <2>2, <2>3, SkipTyped
  <2>4. CASE tick' = [tick EXCEPT ![w].pc = "next", ![w].k = K(w) + 1,
                        ![w].started = @ \cup {K(w)}]
    <3> DEFINE t == [tick[w] EXCEPT !.pc = "next", !.k = K(w) + 1,
                       !.started = @ \cup {K(w)}]
    <3>1. tick' = [tick EXCEPT ![w] = t]
      BY <2>4
    <3>2. t \in TickRecord /\ t.pc \notin Ahead
      BY <2>1 DEF TickRecord, Labels, Ahead
    <3> QED BY <2>2, <3>1, <3>2, TickStep
  <2> QED BY <1>7, <2>3, <2>4 DEF StartScheduled
<1>8. ASSUME NEW w \in Workers, Isolated(w) PROVE TickOK /\ RestOK
  <2>1. K(w) \in Pipelines
    BY <1>8 DEF Isolated, InLoop, Ahead
  <2>2. RestOK
    BY <1>8, <2>1, <1>b DEF Isolated, TypeOK
  <2> QED BY <1>8, <2>1, <2>2, SkipTyped DEF Isolated
<1>9. ASSUME NEW w \in Workers, Prune(w) PROVE TickOK /\ RestOK
  <2>1. NoTick \in TickRecord /\ NoTick.pc \notin Ahead
    BY DEF NoTick, TickRecord, Labels, Ahead, Time, TickAssumption
  <2>2. TickOK
    BY <1>9, <2>1, TickStep DEF Prune
  <2>3. RestOK
    BY <1>9, TickFields DEF Prune, PruneDue, TypeOK, TickAssumption
  <2> QED BY <2>2, <2>3
<1>10. ASSUME NEW p \in Pipelines, Beside(p)
       PROVE  TickOK /\ RestOK
  <2>1. UNCHANGED tick
    BY <1>10 DEF Beside, StartManual, SetEnabled, RunEnds, LostRunEnds, FindOver, ClearLate
  <2>2. CASE StartManual(p)
    BY <2>1, <2>2, <1>a DEF StartManual, TypeOK
  <2>3. CASE SetEnabled(p)
    <3>1. enabled' \in [Pipelines -> BOOLEAN]
      BY <2>3, Zenon DEF SetEnabled, TypeOK
    <3> QED BY <2>1, <2>3, <3>1, <1>a DEF SetEnabled, TypeOK
  <2>4. CASE RunEnds(p) \/ LostRunEnds(p) \/ FindOver(p)
    BY <2>1, <2>4, <1>a DEF RunEnds, LostRunEnds, FindOver, TypeOK
  <2>5. CASE ClearLate(p)
    <3>1. /\ scope' \in [Pipelines -> {"idle", "running", "stale"}]
          /\ lost' \subseteq Pipelines
      BY <2>5, ClearTyped DEF ClearLate, TypeOK
    <3> QED BY <2>1, <2>5, <3>1, <1>a DEF ClearLate, TypeOK
  <2> QED BY <1>10, <2>2, <2>3, <2>4, <2>5 DEF Beside
<1>11. CASE Advance
  <2>1. now + 1 \in Time
    BY <1>11 DEF Advance, Time, TypeOK, TickAssumption
  <2> QED BY <1>11, <2>1, <1>a DEF Advance, TypeOK
<1>12. CASE UNCHANGED vars
  BY <1>12, <1>a DEF vars, TypeOK
<1> QED BY <1>1, <1>2, <1>3, <1>4, <1>5, <1>6, <1>13, <1>14, <1>15, <1>7, <1>8, <1>9,
           <1>10, <1>11, <1>12 DEF Next, Worker, Beside

(***************************************************************************)
(* The types of the tick, in every behaviour.                              *)
(***************************************************************************)
THEOREM TickTypeCorrect == Spec => []TypeOK
<1>1. Init => Typed
  BY InitTyped, TickAssumption
<1>2. Typed /\ [Next]_vars => Typed'
  BY NextTyped, TickAssumption
<1>3. Typed => TypeOK
  BY DEF Typed
<1> QED BY <1>1, <1>2, <1>3, PTL DEF Spec

-----------------------------------------------------------------------------
(* What one tick starts *)

(***************************************************************************)
(* TickBudget becomes inductive with what the checks on the way to a claim *)
(* have established: there is room under the cap, and nothing of the       *)
(* pipeline's contention group has started in this tick.                   *)
(***************************************************************************)
WithinCap(w) ==
  Cap > 0 => /\ Cardinality(tick[w].started) <= Cap
             /\ tick[w].pc \in Ahead => Cardinality(tick[w].started) < Cap

OnePerGroup(w) ==
  /\ \A p, q \in tick[w].started : p # q => Group[p] = NoGroup \/ Group[p] # Group[q]
  /\ tick[w].pc \in Ahead \ {"busy", "clear"} /\ Group[K(w)] # NoGroup =>
       ~GroupStarted(w, K(w))

BudgetInv == \A w \in Workers : WithinCap(w) /\ OnePerGroup(w)

LEMMA StartedFinite ==
  ASSUME TickAssumption, NEW S \in SUBSET Pipelines
  PROVE  IsFiniteSet(S) /\ Cardinality(S) \in Nat
<1>1. IsFiniteSet(Pipelines)
  BY FS_Interval DEF Pipelines, TickAssumption
<1> QED BY <1>1, FS_Subset, FS_CardinalityType

LEMMA OthersKeepTick ==
  ASSUME TypeOK, NEW w \in Workers, Worker(w), NEW v \in Workers \ {w}
  PROVE  tick'[v] = tick[v]
<1>1. ASSUME GoOn(w) PROVE tick'[v] = tick[v]
  BY <1>1 DEF TypeOK, GoOn, Skip
<1>2. CASE CheckBusy(w) \/ ClearOwn(w)
  BY <1>1, <1>2 DEF TypeOK, CheckBusy, ClearOwn, Skip
<1>3. CASE CheckGroup(w) \/ ClearMember(w)
  BY <1>3 DEF TypeOK, CheckGroup, ClearMember, Skip
<1> QED BY <1>2, <1>3 DEF TypeOK, Worker, TickBegin, Consider, EndLoop, Gate, ClearGate,
                         StartScheduled, Isolated, Prune, Skip

(***************************************************************************)
(* The moves of a tick.  A tick goes on towards a claim or to the next     *)
(* pipeline with what it started so far, or starts one pipeline more, or   *)
(* begins, or is over.                                                     *)
(***************************************************************************)
GoesOn(w) == tick'[w].started = tick[w].started /\ tick'[w].k = tick[w].k
PassesOn(w) == tick'[w].started = tick[w].started /\ tick'[w].pc \in {"next", "prune"}
StartsOne(w) ==
  /\ At(w, "claim") /\ ~Busy(K(w))
  /\ tick'[w].started = tick[w].started \cup {K(w)} /\ tick'[w].pc = "next"
Anew(w) == tick'[w].started = {} /\ tick'[w].pc \in {"idle", "next"}

Move(w) ==
  \/ PassesOn(w)
  \/ Anew(w)
  \/ StartsOne(w)
  \/ GoesOn(w) /\ tick'[w].pc = "busy" /\ ~Capped(w)
  \/ GoesOn(w) /\ tick[w].pc = "busy" /\ tick'[w].pc = "clear"
  \/ /\ GoesOn(w) /\ tick[w].pc \in {"busy", "clear"} /\ tick'[w].pc \in {"group", "start"}
     /\ Group[K(w)] # NoGroup => ~GroupStarted(w, K(w))
  \/ /\ GoesOn(w) /\ tick[w].pc \in Ahead \ {"busy", "clear"}
     /\ tick'[w].pc \in Ahead \ {"busy", "clear"}

LEMMA WorkerMoves ==
  ASSUME TickAssumption, Typed, NEW w \in Workers, Worker(w)
  PROVE  Move(w)
<1> USE DEF Typed, TypeOK, Move, At, K
<1>0. ASSUME Skip(w) PROVE PassesOn(w)
  BY <1>0 DEF Skip, PassesOn
<1>1. CASE TickBegin(w) \/ Prune(w)
  <2> DEFINE t == [NoTick EXCEPT !.pc = "next", !.at = now]
  <2>1. tick'[w] = t \/ tick'[w] = NoTick
    BY <1>1 DEF TickBegin, Prune
  <2>2. t.started = {} /\ t.pc = "next" /\ NoTick.started = {} /\ NoTick.pc = "idle"
    BY DEF NoTick
  <2> HIDE DEF t
  <2>3. Anew(w)
    BY <2>1, <2>2 DEF Anew
  <2> QED BY <2>3
<1>2. CASE Consider(w)
  BY <1>2 DEF Consider, PassesOn, GoesOn
<1>3. CASE EndLoop(w)
  BY <1>3 DEF EndLoop, PassesOn
<1>4. ASSUME tick[w].pc \in {"busy", "clear"}, GoOn(w) PROVE Move(w)
  <2>1. CASE tick' = [tick EXCEPT ![w].pc = "start"] /\ Group[K(w)] = NoGroup
    BY <1>4, <2>1 DEF GoesOn
  <2>2. CASE /\ tick' = [tick EXCEPT ![w].pc = "group", ![w].left = Others(K(w))]
             /\ ~GroupStarted(w, K(w))
    BY <1>4, <2>2 DEF GoesOn
  <2> QED BY <1>4, <1>0, <2>1, <2>2 DEF GoOn
<1>5. CASE CheckBusy(w) \/ ClearOwn(w)
  <2>1. CASE tick[w].pc = "busy" /\ tick' = [tick EXCEPT ![w].pc = "clear"]
    BY <2>1 DEF GoesOn
  <2> QED BY <1>5, <1>0, <1>4, <2>1 DEF CheckBusy, ClearOwn
<1>6. CASE CheckGroup(w) \/ ClearMember(w)
  <2>1. tick[w].pc \in {"group", "clearMember"}
    BY <1>6 DEF CheckGroup, ClearMember
  <2>2. ASSUME NEW l \in {"start", "clearMember"}, tick' = [tick EXCEPT ![w].pc = l]
        PROVE  Move(w)
    BY <2>1, <2>2 DEF GoesOn, Ahead
  <2>3. ASSUME NEW q, tick' = [tick EXCEPT ![w].left = @ \ {q}] PROVE Move(w)
    BY <2>1, <2>3 DEF GoesOn, Ahead
  <2>4. ASSUME NEW q, tick' = [tick EXCEPT ![w].pc = "group", ![w].left = @ \ {q}] PROVE Move(w)
    BY <2>1, <2>4 DEF GoesOn, Ahead
  <2> QED BY <1>6, <1>0, <2>2, <2>3, <2>4 DEF CheckGroup, ClearMember
<1>9. CASE Gate(w) \/ ClearGate(w)
  <2>1. tick[w].pc \in {"start", "clearGate"}
    BY <1>9 DEF Gate, ClearGate
  <2>2. ASSUME NEW l \in {"clearGate", "claim"}, tick' = [tick EXCEPT ![w].pc = l]
        PROVE  Move(w)
    BY <2>1, <2>2 DEF GoesOn, Ahead
  <2> QED BY <1>9, <1>0, <2>2 DEF Gate, ClearGate
<1>7. CASE StartScheduled(w)
  BY <1>7, <1>0 DEF StartScheduled, PassesOn, StartsOne, Busy
<1>8. CASE Isolated(w)
  BY <1>8, <1>0 DEF Isolated, PassesOn
<1> QED BY <1>1, <1>2, <1>3, <1>5, <1>6, <1>7, <1>8, <1>9 DEF Worker

LEMMA MoveKeepsBudget ==
  ASSUME TickAssumption, Typed, NEW w \in Workers, WithinCap(w), OnePerGroup(w), Move(w)
  PROVE  WithinCap(w)' /\ OnePerGroup(w)'
<1>0. /\ tick[w].started \in SUBSET Pipelines /\ Cap \in Nat
      /\ IsFiniteSet(tick[w].started) /\ Cardinality(tick[w].started) \in Nat
  BY TickFields, StartedFinite DEF Typed, TickAssumption
<1>1. CASE PassesOn(w)
  BY <1>0, <1>1 DEF PassesOn, WithinCap, OnePerGroup, Ahead
<1>2. CASE Anew(w)
  <2>1. Cardinality(tick'[w].started) = 0
    BY <1>2, FS_EmptySet DEF Anew
  <2> QED BY <1>0, <1>2, <2>1 DEF Anew, WithinCap, OnePerGroup, Ahead
<1>3. CASE StartsOne(w)
  <2>1. Cardinality(tick'[w].started) <= Cardinality(tick[w].started) + 1
        /\ Cardinality(tick'[w].started) \in Nat
    <3>1. Cardinality(tick[w].started \cup {K(w)})
            = IF K(w) \in tick[w].started THEN Cardinality(tick[w].started)
              ELSE Cardinality(tick[w].started) + 1
      BY <1>0, FS_AddElement
    <3> QED BY <1>0, <1>3, <3>1 DEF StartsOne
  <2>2. WithinCap(w)'
    BY <1>0, <1>3, <2>1 DEF StartsOne, WithinCap, Ahead, At
  <2>3. OnePerGroup(w)'
    BY <1>3 DEF StartsOne, OnePerGroup, At, GroupStarted, Ahead
  <2> QED BY <2>2, <2>3
<1>4. CASE GoesOn(w) /\ tick'[w].pc = "busy" /\ ~Capped(w)
  BY <1>0, <1>4 DEF GoesOn, Capped, WithinCap, OnePerGroup, Ahead
<1>5. CASE GoesOn(w) /\ tick[w].pc = "busy" /\ tick'[w].pc = "clear"
  BY <1>0, <1>5 DEF GoesOn, WithinCap, OnePerGroup, Ahead
<1>6. CASE /\ GoesOn(w) /\ tick[w].pc \in {"busy", "clear"} /\ tick'[w].pc \in {"group", "start"}
           /\ Group[K(w)] # NoGroup => ~GroupStarted(w, K(w))
  BY <1>0, <1>6 DEF GoesOn, WithinCap, OnePerGroup, Ahead, GroupStarted, K
<1>7. CASE /\ GoesOn(w) /\ tick[w].pc \in Ahead \ {"busy", "clear"}
           /\ tick'[w].pc \in Ahead \ {"busy", "clear"}
  BY <1>0, <1>7 DEF GoesOn, WithinCap, OnePerGroup, Ahead, GroupStarted, K
<1> QED BY <1>1, <1>2, <1>3, <1>4, <1>5, <1>6, <1>7 DEF Move

LEMMA NextBudget ==
  ASSUME TickAssumption, Typed, BudgetInv, [Next]_vars
  PROVE  BudgetInv'
<1>1. ASSUME NEW v \in Workers, tick'[v] = tick[v] PROVE WithinCap(v)' /\ OnePerGroup(v)'
  BY <1>1 DEF BudgetInv, WithinCap, OnePerGroup, GroupStarted, K
<1>2. ASSUME NEW w \in Workers, Worker(w) PROVE BudgetInv'
  <2>1. WithinCap(w)' /\ OnePerGroup(w)'
    BY <1>2, WorkerMoves, MoveKeepsBudget DEF BudgetInv
  <2>2. \A v \in Workers \ {w} : WithinCap(v)' /\ OnePerGroup(v)'
    BY <1>1, <1>2, OthersKeepTick DEF Typed
  <2> QED BY <2>1, <2>2 DEF BudgetInv
<1>3. CASE UNCHANGED tick
  BY <1>1, <1>3 DEF BudgetInv
<1> QED BY <1>2, <1>3 DEF Next, vars, StartManual, SetEnabled, RunEnds, LostRunEnds, FindOver,
                         ClearLate, Advance

(***************************************************************************)
(* A tick never starts more pipelines than the cap, nor two of one         *)
(* contention group, whatever else happens while it awaits.                *)
(***************************************************************************)
THEOREM BudgetHolds == Spec => []TickBudget
<1>1. Init => Typed /\ BudgetInv
  <2> SUFFICES ASSUME Init PROVE Typed /\ BudgetInv
    OBVIOUS
  <2>1. Cardinality({}) = 0 /\ Cap \in Nat
    BY FS_EmptySet, TickAssumption DEF TickAssumption
  <2>2. \A w \in Workers : tick[w].started = {} /\ tick[w].pc = "idle"
    BY DEF Init, NoTick
  <2>3. ASSUME NEW w \in Workers PROVE WithinCap(w) /\ OnePerGroup(w)
    BY <2>1, <2>2 DEF WithinCap, OnePerGroup, Ahead
  <2> QED BY <2>3, InitTyped, TickAssumption DEF BudgetInv
<1>2. Typed /\ BudgetInv /\ [Next]_vars => (Typed /\ BudgetInv)'
  BY NextTyped, NextBudget, TickAssumption
<1>3. BudgetInv => TickBudget
  BY DEF BudgetInv, TickBudget, WithinCap, OnePerGroup
<1> QED BY <1>1, <1>2, <1>3, PTL DEF Spec

-----------------------------------------------------------------------------
(* One timer, and pipelines that are not started by hand *)

(***************************************************************************)
(* While nobody but this tick starts a pipeline or the members of its      *)
(* group, what it found on its way to a claim stays true: the pipeline is  *)
(* due, and the members it has looked at are not at work.                  *)
(***************************************************************************)
Timed(w) ==
  /\ tick[w].at <= now
  /\ tick[w].pc \in Ahead /\ K(w) \notin Manual => Due(K(w), tick[w].at)

GroupClear(w) == ByTimer(K(w)) =>
  /\ tick[w].pc \in {"group", "clearMember"} =>
       \A q \in Others(K(w)) \ tick[w].left : ~Busy(q)
  /\ tick[w].pc \in {"start", "clearGate", "claim"} /\ Group[K(w)] # NoGroup =>
       \A q \in Others(K(w)) : ~Busy(q)

SoloInv == GroupSerial /\ \A w \in Workers : Timed(w) /\ GroupClear(w)

Solo == \A v, w \in Workers : v = w

LEMMA OnlyStartsMakeBusy ==
  ASSUME Typed, Solo, [Next]_vars, NEW p \in Pipelines \ Manual, Busy(p)', ~Busy(p)
  PROVE  \E w \in Workers : StartsOne(w) /\ Worker(w) /\ p = K(w)
<1> USE DEF Typed, Busy
<1>1. ASSUME NEW q \in Pipelines, Clear(q) PROVE FALSE
  BY <1>1, ClearTyped
<1>2. scope'[p] = "running" /\ scope[p] # "running"
  OBVIOUS
<1>3. PICK w \in Workers : StartScheduled(w)
  <2>1. CASE UNCHANGED scope
    BY <1>2, <2>1
  <2>2. ASSUME NEW q \in Pipelines, RunEnds(q) \/ StartManual(q) PROVE FALSE
    BY <1>2, <2>2 DEF RunEnds, StartManual, TypeOK
  <2>3. ASSUME NEW q \in Pipelines, ClearLate(q) PROVE UNCHANGED scope
    BY <1>1, <2>3 DEF ClearLate
  <2>4. ASSUME NEW w \in Workers, ClearOwn(w) \/ ClearMember(w) \/ ClearGate(w) PROVE FALSE
    <3>1. tick[w].pc \in Ahead
      BY <2>4 DEF ClearOwn, ClearMember, ClearGate, At, Ahead
    <3>2. K(w) \in Pipelines /\ tick[w].left \subseteq Pipelines
      BY <3>1, TickFields DEF InLoop
    <3> QED BY <1>1, <2>4, <3>2 DEF ClearOwn, ClearMember, ClearGate
  <2> QED BY <2>1, <2>2, <2>3, <2>4
          DEF Next, Worker, vars, TickBegin, Consider, EndLoop, CheckBusy, CheckGroup, Gate,
              Isolated, Prune, SetEnabled, LostRunEnds, FindOver, Advance
<1>4. K(w) = p
  BY <1>2, <1>3 DEF StartScheduled, TypeOK
<1>5. StartsOne(w)
  BY <1>2, <1>3, <1>4 DEF StartScheduled, StartsOne, TypeOK
<1> QED BY <1>3, <1>4, <1>5 DEF Worker

LEMMA NextSerial ==
  ASSUME Typed, Solo, SoloInv, [Next]_vars
  PROVE  GroupSerial'
<1> SUFFICES ASSUME NEW p \in Pipelines, NEW q \in Pipelines, p # q,
                    Group[p] = Group[q], Group[p] # NoGroup, ByTimer(p), Busy(p)', Busy(q)'
             PROVE  FALSE
  BY DEF GroupSerial, ByTimer, Others
<1>1. ASSUME NEW r \in Pipelines, NEW s \in Pipelines, r # s, Group[r] = Group[s],
             Group[r] # NoGroup, ByTimer(r), ~Busy(r), Busy(r)', Busy(s)'
      PROVE  FALSE
  <2>0. r \notin Manual /\ s \notin Manual
    BY <1>1 DEF ByTimer, Others
  <2>1. PICK w \in Workers : StartsOne(w) /\ r = K(w)
    BY <1>1, <2>0, OnlyStartsMakeBusy
  <2>2. s \in Others(K(w)) /\ ~Busy(s)
    BY <1>1, <2>1 DEF Others, SoloInv, GroupClear, StartsOne, At
  <2>3. PICK v \in Workers : s = K(v)
    BY <1>1, <2>0, <2>2, OnlyStartsMakeBusy
  <2> QED BY <1>1, <2>1, <2>3 DEF Solo
<1>2. ~Busy(p) \/ ~Busy(q)
  BY DEF SoloInv, GroupSerial, AtWork
<1>3. ByTimer(q)
  BY DEF ByTimer, Others
<1> QED BY <1>1, <1>2, <1>3

(***************************************************************************)
(* A step that starts no run and leaves a tick where it is.                *)
(***************************************************************************)
LEMMA TickUndisturbed ==
  ASSUME Typed, NEW w \in Workers, Timed(w), GroupClear(w), tick'[w] = tick[w],
         now <= now', now' \in Int,
         \A p \in Pipelines \ Manual : (Busy(p)' => Busy(p)) /\ lastAt'[p] = lastAt[p]
  PROVE  Timed(w)' /\ GroupClear(w)'
<1>1. tick[w].at \in Int /\ now \in Int /\ Others(K(w)) \subseteq Pipelines
  BY TickFields DEF Typed, TypeOK, Time, Others
<1>2. ASSUME ByTimer(K(w)), K(w) \in Pipelines PROVE \A q \in Others(K(w)) : q \in Pipelines \ Manual
  BY <1>2 DEF ByTimer, Others
<1>3. tick[w].pc \in Ahead => K(w) \in Pipelines
  BY DEF Typed, InLoop
<1>4. Timed(w)'
  BY <1>1, <1>3 DEF Timed, Due, K
<1>5. GroupClear(w)'
  BY <1>1, <1>2, <1>3 DEF GroupClear, ByTimer, K, Others, Ahead
<1> QED BY <1>4, <1>5

LEMMA NextTimed ==
  ASSUME TickAssumption, Typed, NEW w \in Workers, Timed(w), Worker(w)
  PROVE  Timed(w)'
<1> DEFINE Stays == /\ tick'[w].k = tick[w].k /\ tick'[w].at = tick[w].at
                    /\ UNCHANGED <<lastAt, now>>
           Leaves == /\ tick'[w].at = tick[w].at /\ tick'[w].pc \notin Ahead
                     /\ UNCHANGED now
<1>0. /\ (Stays /\ (tick[w].pc \in Ahead \/ Due(K(w), tick[w].at))) \/ Leaves => Timed(w)'
      /\ tick[w].at \in Int /\ now \in Int /\ 0 <= now
  BY TickFields DEF Timed, Due, K, Typed, TypeOK, Time
<1> USE DEF Typed, TypeOK, At, Ahead
<1>1. ASSUME Skip(w), UNCHANGED now PROVE Leaves
  BY <1>1 DEF Skip
<1>2. CASE TickBegin(w)
  <2> DEFINE t == [NoTick EXCEPT !.pc = "next", !.at = now]
  <2>1. tick'[w] = t /\ UNCHANGED now
    BY <1>2 DEF TickBegin
  <2>2. t.at = now /\ t.pc = "next"
    BY DEF NoTick
  <2> HIDE DEF t
  <2> QED BY <1>0, <2>1, <2>2 DEF Timed
<1>3. CASE Prune(w)
  <2>1. tick'[w] = NoTick /\ UNCHANGED now
    BY <1>3 DEF Prune
  <2>2. NoTick.at = 0 /\ NoTick.pc = "idle"
    BY DEF NoTick
  <2> QED BY <1>0, <2>1, <2>2 DEF Timed
<1>4. CASE Consider(w)
  <2>1. CASE Due(K(w), tick[w].at)
    BY <1>0, <1>4, <2>1 DEF Consider
  <2>2. CASE ~Due(K(w), tick[w].at)
    BY <1>0, <1>4, <2>2 DEF Consider
  <2> QED BY <2>1, <2>2
<1>5. CASE EndLoop(w)
  <2>1. Leaves
    BY <1>5 DEF EndLoop
  <2> QED BY <1>0, <2>1
<1>11. ASSUME GoOn(w), UNCHANGED <<lastAt, now>> PROVE Stays \/ Leaves
  BY <1>11, <1>1 DEF GoOn
<1>6. CASE CheckBusy(w) \/ ClearOwn(w)
  <2>1. CASE tick' = [tick EXCEPT ![w].pc = "clear"] /\ UNCHANGED <<lastAt, now>>
    BY <1>0, <1>6, <2>1 DEF CheckBusy, ClearOwn
  <2>2. CASE Skip(w) \/ GoOn(w)
    <3>1. Stays \/ Leaves
      BY <1>1, <1>6, <1>11, <2>2 DEF CheckBusy, ClearOwn
    <3> QED BY <1>0, <1>6, <3>1 DEF CheckBusy, ClearOwn
  <2> QED BY <1>6, <2>1, <2>2 DEF CheckBusy, ClearOwn
<1>7. CASE CheckGroup(w) \/ ClearMember(w)
  <2>1. Stays \/ Leaves
    <3>1. ASSUME NEW l, tick' = [tick EXCEPT ![w].pc = l] PROVE
            tick'[w].k = tick[w].k /\ tick'[w].at = tick[w].at
      BY <3>1
    <3>2. ASSUME NEW q, tick' = [tick EXCEPT ![w].left = @ \ {q}] PROVE
            tick'[w].k = tick[w].k /\ tick'[w].at = tick[w].at
      BY <3>2
    <3>3. ASSUME NEW q, tick' = [tick EXCEPT ![w].pc = "group", ![w].left = @ \ {q}] PROVE
            tick'[w].k = tick[w].k /\ tick'[w].at = tick[w].at
      BY <3>3
    <3> QED BY <1>7, <1>1, <3>1, <3>2, <3>3 DEF CheckGroup, ClearMember
  <2> QED BY <1>0, <1>7, <2>1 DEF CheckGroup, ClearMember
<1>8. CASE Gate(w) \/ ClearGate(w)
  <2>1. Stays \/ Leaves
    BY <1>8, <1>1 DEF Gate, ClearGate
  <2> QED BY <1>0, <1>8, <2>1 DEF Gate, ClearGate
<1>9. CASE StartScheduled(w)
  <2>1. Leaves
    BY <1>9, <1>1 DEF StartScheduled
  <2> QED BY <1>0, <2>1
<1>10. CASE Isolated(w)
  <2>1. Leaves
    BY <1>10, <1>1 DEF Isolated
  <2> QED BY <1>0, <2>1
<1> QED BY <1>2, <1>3, <1>4, <1>5, <1>6, <1>7, <1>8, <1>9, <1>10 DEF Worker

LEMMA NextGroupClear ==
  ASSUME TickAssumption, Typed, NEW w \in Workers, GroupClear(w), Worker(w)
  PROVE  GroupClear(w)'
<1> USE DEF Typed, TypeOK, At
<1>0. ASSUME tick'[w].pc \notin Ahead \ {"busy", "clear"} PROVE GroupClear(w)'
  BY <1>0 DEF GroupClear, Ahead
<1>1. ASSUME Skip(w) PROVE GroupClear(w)'
  BY <1>0, <1>1 DEF Skip, Ahead
<1>2. CASE TickBegin(w) \/ Prune(w)
  <2>1. Move(w) /\ tick[w].pc \in {"idle", "prune"}
    BY <1>2, WorkerMoves DEF TickBegin, Prune, Worker
  <2> QED BY <1>0, <1>2, <2>1 DEF Move, Anew, PassesOn, StartsOne, GoesOn, Ahead
<1>3. CASE Consider(w) \/ EndLoop(w)
  BY <1>0, <1>3 DEF Consider, EndLoop, Ahead
<1>4. ASSUME GoOn(w) PROVE GroupClear(w)'
  <2>1. CASE tick' = [tick EXCEPT ![w].pc = "start"] /\ Group[K(w)] = NoGroup
    BY <2>1 DEF GroupClear, K
  <2>2. CASE tick' = [tick EXCEPT ![w].pc = "group", ![w].left = Others(K(w))]
    <3>1. tick'[w].pc = "group" /\ tick'[w].k = tick[w].k /\ tick'[w].left = Others(K(w))
      BY <2>2
    <3> QED BY <3>1 DEF GroupClear, K, Others
  <2> QED BY <1>1, <1>4, <2>1, <2>2 DEF GoOn
<1>5. CASE CheckBusy(w) \/ ClearOwn(w)
  <2>1. CASE tick' = [tick EXCEPT ![w].pc = "clear"]
    BY <1>0, <2>1 DEF Ahead
  <2> QED BY <1>1, <1>4, <1>5, <2>1 DEF CheckBusy, ClearOwn
<1>6. CASE CheckGroup(w)
  <2>0. tick[w].pc = "group" /\ Others(K(w)) \subseteq Pipelines /\ UNCHANGED scope
    BY <1>6 DEF CheckGroup, Others
  <2>1. CASE tick[w].left = {} /\ tick' = [tick EXCEPT ![w].pc = "start"]
    BY <2>0, <2>1 DEF GroupClear, K, Busy, Others
  <2>2. CASE tick' = [tick EXCEPT ![w].pc = "clearMember"]
    <3>1. /\ tick'[w].pc = "clearMember" /\ tick'[w].k = tick[w].k
          /\ tick'[w].left = tick[w].left
      BY <2>2
    <3> QED BY <2>0, <3>1 DEF GroupClear, K, Busy, Others
  <2>3. ASSUME NEW q, scope[q] = "idle", tick' = [tick EXCEPT ![w].left = @ \ {q}]
        PROVE  GroupClear(w)'
    <3>1. /\ tick'[w].pc = "group" /\ tick'[w].k = tick[w].k
          /\ tick'[w].left = tick[w].left \ {q}
      BY <2>0, <2>3
    <3> QED BY <2>0, <2>3, <3>1 DEF GroupClear, K, Busy, Others
  <2> QED BY <1>1, <1>6, <2>1, <2>2, <2>3 DEF CheckGroup
<1>7. CASE ClearMember(w)
  <2>1. PICK q \in tick[w].left :
          Clear(q) /\ tick' = [tick EXCEPT ![w].pc = "group", ![w].left = @ \ {q}]
    BY <1>7 DEF ClearMember
  <2>2. q \in Pipelines /\ tick[w].pc = "clearMember" /\ Others(K(w)) \subseteq Pipelines
    BY <1>7, TickFields DEF ClearMember, Others
  <2>3. (\A p \in Pipelines : Busy(p)' => Busy(p)) /\ ~Busy(q)'
    BY <2>1, <2>2, ClearTyped DEF Clear, Busy
  <2>4. /\ tick'[w].pc = "group" /\ tick'[w].k = tick[w].k
        /\ tick'[w].left = tick[w].left \ {q}
    BY <2>1
  <2> QED BY <2>2, <2>3, <2>4 DEF GroupClear, K, Others, ByTimer
<1>8. CASE Gate(w)
  <2>1. ASSUME NEW l \in {"clearGate", "claim"}, tick' = [tick EXCEPT ![w].pc = l]
        PROVE  GroupClear(w)'
    <3>1. /\ tick[w].pc = "start" /\ tick'[w].pc = l /\ tick'[w].k = tick[w].k
          /\ UNCHANGED scope
      BY <1>8, <2>1 DEF Gate
    <3> QED BY <3>1 DEF GroupClear, K, Busy, Others
  <2> QED BY <1>1, <1>8, <2>1 DEF Gate
<1>9. CASE ClearGate(w)
  <2>1. /\ tick[w].pc = "clearGate" /\ tick'[w].pc = "claim" /\ tick'[w].k = tick[w].k
        /\ Clear(K(w)) /\ K(w) \in Pipelines
    BY <1>9 DEF ClearGate, InLoop, Ahead
  <2>2. \A p \in Pipelines : Busy(p)' => Busy(p)
    BY <2>1, ClearTyped
  <2>3. Others(K(w)) \subseteq Pipelines
    BY DEF Others
  <2> QED BY <2>1, <2>2, <2>3 DEF GroupClear, K, Others, ByTimer
<1>10. CASE StartScheduled(w)
  BY <1>0, <1>1, <1>10 DEF StartScheduled, Ahead
<1>11. CASE Isolated(w)
  BY <1>1, <1>11 DEF Isolated
<1> QED BY <1>2, <1>3, <1>5, <1>6, <1>7, <1>8, <1>9, <1>10, <1>11 DEF Worker

LEMMA NextSolo ==
  ASSUME TickAssumption, Typed, Solo, SoloInv, [Next]_vars
  PROVE  SoloInv'
<1>1. ASSUME NEW w \in Workers, Worker(w) PROVE \A v \in Workers : Timed(v)' /\ GroupClear(v)'
  BY <1>1, NextTimed, NextGroupClear DEF Solo, SoloInv
<1>2. ASSUME UNCHANGED tick, now <= now', now' \in Int,
             \A p \in Pipelines \ Manual : (Busy(p)' => Busy(p)) /\ lastAt'[p] = lastAt[p]
      PROVE  \A v \in Workers : Timed(v)' /\ GroupClear(v)'
  BY <1>2, TickUndisturbed DEF SoloInv
<1>3. now \in Int
  BY DEF Typed, TypeOK, Time
<1>4. ASSUME NEW p \in Pipelines, Beside(p)
      PROVE  \A v \in Workers : Timed(v)' /\ GroupClear(v)'
  <2>1. CASE ClearLate(p)
    <3>1. (\A q \in Pipelines : Busy(q)' => Busy(q)) /\ UNCHANGED <<tick, lastAt, now>>
      BY <2>1, ClearTyped DEF ClearLate, Busy, Typed
    <3> QED BY <1>2, <1>3, <3>1
  <2> QED BY <1>2, <1>3, <1>4, <2>1
          DEF Beside, StartManual, SetEnabled, RunEnds, LostRunEnds, FindOver, Busy, Typed, TypeOK
<1>5. ASSUME Advance \/ UNCHANGED vars
      PROVE  \A v \in Workers : Timed(v)' /\ GroupClear(v)'
  BY <1>2, <1>3, <1>5 DEF Advance, vars, Busy
<1> QED BY <1>1, <1>4, <1>5, NextSerial DEF Next, SoloInv, Beside

LEMMA InitSolo ==
  ASSUME TickAssumption, Init
  PROVE  Typed /\ SoloInv
<1>1. \A w \in Workers : tick[w].pc = "idle" /\ tick[w].at = 0 /\ now = 0
  BY DEF Init, NoTick
<1>2. \A p \in Pipelines : ~Busy(p)
  BY DEF Init, Busy
<1> QED BY <1>1, <1>2, InitTyped DEF SoloInv, Timed, GroupClear, GroupSerial, Ahead

(***************************************************************************)
(* With one timer, of the pipelines of a contention group none of which is *)
(* started by hand two are at work together only if one of them has lost   *)
(* its row, whoever else looks up their runs and clears their rows.        *)
(***************************************************************************)
THEOREM ContentionHolds ==
  ASSUME Solo
  PROVE  Spec => []GroupSerial
<1>1. Init => Typed /\ SoloInv
  BY InitSolo, TickAssumption
<1>2. Typed /\ SoloInv /\ [Next]_vars => (Typed /\ SoloInv)'
  BY NextTyped, NextSolo, TickAssumption
<1>3. SoloInv => GroupSerial
  BY DEF SoloInv
<1> QED BY <1>1, <1>2, <1>3, PTL DEF Spec

(***************************************************************************)
(* With one timer, no slot of a pipeline that is not started by hand is    *)
(* dispatched twice, for every frequency and every anchor.                 *)
(***************************************************************************)
THEOREM SlotsHold ==
  ASSUME Solo
  PROVE  Spec => OncePerSlot
<1> DEFINE Body == \A w \in Workers, p \in Pipelines \ Manual :
             Starts(w, p) /\ lastAt[p] # Never => Slot(p, lastAt[p]) < Slot(p, now)
<1>1. Init => Typed /\ SoloInv
  BY InitSolo, TickAssumption
<1>2. Typed /\ SoloInv /\ [Next]_vars => (Typed /\ SoloInv)'
  BY NextTyped, NextSolo, TickAssumption
<1>3. Typed /\ SoloInv /\ [Next]_vars => [Body]_vars
  <2> SUFFICES ASSUME Typed, SoloInv, Next, NEW w \in Workers,
                      NEW p \in Pipelines \ Manual, Starts(w, p), lastAt[p] # Never
               PROVE  Slot(p, lastAt[p]) < Slot(p, now)
    OBVIOUS
  <2>1. Worker(w)
    BY DEF Next, Starts, StartManual, SetEnabled, RunEnds, LostRunEnds, FindOver, ClearLate,
           Advance, Solo
  <2>2. p = K(w)
    BY <2>1, WorkerMoves, TickAssumption
       DEF Starts, Move, PassesOn, Anew, StartsOne, GoesOn
  <2>3. Due(p, tick[w].at) /\ tick[w].at <= now
    BY <2>2 DEF SoloInv, Timed, Starts, At, Ahead
  <2>4. /\ tick[w].at \in Int /\ now \in Int /\ lastAt[p] \in Int
        /\ Frequency[p] \in Nat /\ Anchor[p] \in Int
    BY TickFields, TickAssumption DEF Typed, TypeOK, Time, TickAssumption
  <2>5. Frequency[p] > 0 /\ Slot(p, lastAt[p]) < Slot(p, tick[w].at)
    BY <2>3, <2>4, DueInLaterSlot DEF Due, Slot
  <2>6. Slot(p, tick[w].at) <= Slot(p, now)
    BY <2>3, <2>4, <2>5, SlotMonotone DEF Slot
  <2>7. /\ Slot(p, lastAt[p]) \in Int /\ Slot(p, tick[w].at) \in Int
        /\ Slot(p, now) \in Int
    BY <2>4, <2>5, SlotBounds DEF Slot
  <2> QED BY <2>5, <2>6, <2>7
<1> QED BY <1>1, <1>2, <1>3, PTL DEF Spec, OncePerSlot

-----------------------------------------------------------------------------
(* How long the cap keeps a pipeline waiting *)

(***************************************************************************)
(* What bounds a wait: the slots of the pipelines before p in which one of *)
(* them was dispatched since p was first passed over.  last is a           *)
(* LastDispatchedAt of each pipeline, b the beginning of the wait, t now.  *)
(***************************************************************************)
Taken(p, last, b, t) ==
  {x \in SlotsIn(p, b, t) : /\ last[x[1]] # Never
                            /\ b <= last[x[1]] /\ x[2] <= last[x[1]]}

LEMMA ImageFinite ==
  ASSUME NEW S, IsFiniteSet(S), NEW T, NEW f,
         f = [x \in S |-> f[x]], \A y \in T : \E x \in S : y = f[x]
  PROVE  IsFiniteSet(T) /\ Cardinality(T) <= Cardinality(S)
<1> DEFINE R == {f[x] : x \in S}
<1>1. f \in Surjection(S, R)
  BY DEF Surjection
<1>2. IsFiniteSet(R) /\ Cardinality(R) <= Cardinality(S)
  BY <1>1, FS_Surjection
<1>3. T \in SUBSET R
  OBVIOUS
<1> HIDE DEF R
<1>4. Cardinality(R) \in Nat /\ Cardinality(S) \in Nat
  BY <1>2, FS_CardinalityType
<1>5. IsFiniteSet(T) /\ Cardinality(T) <= Cardinality(R) /\ Cardinality(T) \in Nat
  BY <1>2, <1>3, FS_Subset, FS_CardinalityType
<1> QED BY <1>2, <1>4, <1>5

LEMMA SlotsFinite ==
  ASSUME TickAssumption, NEW p \in Pipelines, NEW b \in Int, NEW t \in Int
  PROVE  IsFiniteSet(SlotsIn(p, b, t))
<1> DEFINE D == (1 .. p - 1) \X (b .. t)
           f == [d \in D |-> <<d[1], Slot(d[1], d[2])>>]
<1>1. IsFiniteSet(1 .. p - 1) /\ IsFiniteSet(b .. t)
  BY FS_Interval DEF Pipelines, TickAssumption
<1>2. IsFiniteSet(D)
  BY <1>1, FS_Product
<1>3. \A y \in SlotsIn(p, b, t) : \E d \in D : y = f[d]
  <2> SUFFICES ASSUME NEW q \in Before(p), NEW x \in b .. t
               PROVE  \E d \in D : <<q, Slot(q, x)>> = f[d]
    BY DEF SlotsIn
  <2>1. <<q, x>> \in D
    BY DEF Before
  <2>2. f[<<q, x>>] = <<q, Slot(q, x)>>
    BY <2>1
  <2> QED BY <2>1, <2>2
<1>4. f = [d \in D |-> f[d]]
  OBVIOUS
<1> HIDE DEF f, D
<1> QED BY <1>2, <1>3, <1>4, ImageFinite

LEMMA TakenFinite ==
  ASSUME TickAssumption, NEW p \in Pipelines, NEW last, NEW b \in Int, NEW t \in Int
  PROVE  /\ IsFiniteSet(Taken(p, last, b, t))
         /\ Cardinality(Taken(p, last, b, t)) \in Nat
         /\ Cardinality(SlotsIn(p, b, t)) \in Nat
         /\ Cardinality(Taken(p, last, b, t)) <= Cardinality(SlotsIn(p, b, t))
<1>1. Taken(p, last, b, t) \in SUBSET SlotsIn(p, b, t)
  BY DEF Taken
<1> QED BY <1>1, SlotsFinite, FS_Subset, FS_CardinalityType

(***************************************************************************)
(* A later look at the same wait.                                          *)
(***************************************************************************)
LEMMA SlotsGrow ==
  ASSUME TickAssumption, NEW p \in Pipelines, NEW b \in Int, NEW c \in Int, NEW t \in Int,
         NEW u \in Int, c <= b, t <= u
  PROVE  /\ SlotsIn(p, b, t) \subseteq SlotsIn(p, c, u)
         /\ Cardinality(SlotsIn(p, b, t)) <= Cardinality(SlotsIn(p, c, u))
<1>1. b .. t \subseteq c .. u
  OBVIOUS
<1>2. SlotsIn(p, b, t) \subseteq SlotsIn(p, c, u)
  BY <1>1 DEF SlotsIn
<1> QED BY <1>2, SlotsFinite, FS_Subset

LEMMA TakenGrows ==
  ASSUME TickAssumption, NEW p \in Pipelines, NEW b \in Int, NEW t \in Int, NEW u \in Int, t <= u,
         NEW last, NEW more,
         \A q \in Pipelines : last[q] \in Int \cup {Never} /\ more[q] \in Int \cup {Never},
         \A q \in Pipelines : last[q] # Never => more[q] # Never /\ last[q] <= more[q]
  PROVE  Cardinality(Taken(p, last, b, t)) <= Cardinality(Taken(p, more, b, u))
<1>1. Taken(p, last, b, t) \subseteq Taken(p, more, b, u)
  <2> SUFFICES ASSUME NEW x \in Taken(p, last, b, t) PROVE x \in Taken(p, more, b, u)
    OBVIOUS
  <2>1. x \in SlotsIn(p, b, u) /\ x \in SlotsIn(p, b, t)
    BY SlotsGrow DEF Taken
  <2>2. PICK q \in Before(p), y \in b .. t : x = <<q, Slot(q, y)>>
    BY <2>1 DEF SlotsIn
  <2>3. q \in Pipelines /\ Frequency[q] \in Nat /\ Frequency[q] > 0 /\ Anchor[q] \in Nat
    BY DEF Before, Pipelines, TickAssumption
  <2>a. Slot(q, y) \in Int
    BY <2>3, SlotBounds DEF Slot
  <2>4. x[1] = q /\ x[2] = Slot(q, y) /\ x[2] \in Int
    BY <2>2, <2>a
  <2>5. last[q] # Never /\ b <= last[q] /\ x[2] <= last[q]
    BY <2>4 DEF Taken
  <2>6. last[q] \in Int /\ more[q] \in Int /\ more[q] # Never /\ last[q] <= more[q]
    BY <2>3, <2>5
  <2>7. b <= more[q] /\ x[2] <= more[q]
    BY <2>4, <2>5, <2>6
  <2> QED BY <2>1, <2>4, <2>6, <2>7 DEF Taken
<1> QED BY <1>1, TakenFinite, FS_Subset

(***************************************************************************)
(* Who is dispatched when it is due takes a slot that was not taken.       *)
(***************************************************************************)
LEMMA TakenGains ==
  ASSUME TickAssumption, NEW p \in Pipelines, NEW b \in Int, NEW t \in Int, b <= t,
         NEW last \in [Pipelines -> Int \cup {Never}],
         \A q \in Pipelines : last[q] # Never => last[q] <= t,
         NEW q \in Pipelines, q < p, IsDue(t, last[q], Anchor[q], Frequency[q])
  PROVE  Cardinality(Taken(p, last, b, t)) + 1
           <= Cardinality(Taken(p, [last EXCEPT ![q] = t], b, t))
<1> DEFINE more == [last EXCEPT ![q] = t]
           x == <<q, Slot(q, t)>>
<1>1. /\ Frequency[q] \in Nat /\ Frequency[q] > 0 /\ Anchor[q] \in Nat
      /\ t # Never /\ q \in Before(p)
  BY DEF IsDue, TickAssumption, Before, Pipelines
<1>2. Slot(q, t) \in Int /\ Slot(q, t) <= t
  BY <1>1, SlotBounds DEF Slot
<1>3. x \in SlotsIn(p, b, t)
  BY <1>1 DEF SlotsIn
<1>4. x \in Taken(p, more, b, t)
  BY <1>1, <1>2, <1>3 DEF Taken
<1>5. x \notin Taken(p, last, b, t)
  <2>1. CASE last[q] = Never
    BY <2>1 DEF Taken
  <2>2. CASE last[q] # Never
    <3>1. last[q] \in Int /\ last[q] < Slot(q, t)
      BY <2>2 DEF IsDue, Slot
    <3> QED BY <1>2, <3>1 DEF Taken
  <2> QED BY <2>1, <2>2
<1>6. \A r \in Pipelines : more[r] \in Int \cup {Never}
  OBVIOUS
<1>7. \A r \in Pipelines : last[r] # Never => more[r] # Never /\ last[r] <= more[r]
  BY <1>1
<1>8. Taken(p, last, b, t) \subseteq Taken(p, more, b, t)
  <2> SUFFICES ASSUME NEW y \in Taken(p, last, b, t) PROVE y \in Taken(p, more, b, t)
    OBVIOUS
  <2>1. PICK r \in Before(p), z \in b .. t : y = <<r, Slot(r, z)>>
    BY DEF SlotsIn, Taken
  <2>2. r \in Pipelines /\ Frequency[r] \in Nat /\ Frequency[r] > 0 /\ Anchor[r] \in Nat
    BY DEF Before, Pipelines, TickAssumption
  <2>a. Slot(r, z) \in Int
    BY <2>2, SlotBounds DEF Slot
  <2>3. y[1] = r /\ y[2] \in Int
    BY <2>1, <2>a
  <2>4. last[r] # Never /\ b <= last[r] /\ y[2] <= last[r] /\ y \in SlotsIn(p, b, t)
    BY <2>3 DEF Taken
  <2>5. last[r] \in Int /\ more[r] \in Int /\ more[r] # Never /\ last[r] <= more[r]
    BY <1>6, <1>7, <2>2, <2>4
  <2> QED BY <2>3, <2>4, <2>5 DEF Taken
<1> HIDE DEF x, more
<1>9. /\ IsFiniteSet(Taken(p, last, b, t)) /\ IsFiniteSet(Taken(p, more, b, t))
      /\ Cardinality(Taken(p, last, b, t)) \in Nat /\ Cardinality(Taken(p, more, b, t)) \in Nat
  BY TakenFinite
<1>10. Cardinality(Taken(p, last, b, t) \cup {x}) = Cardinality(Taken(p, last, b, t)) + 1
  BY <1>5, <1>9, FS_AddElement
<1>11. Taken(p, last, b, t) \cup {x} \in SUBSET Taken(p, more, b, t)
  BY <1>4, <1>8
<1>12. Cardinality(Taken(p, last, b, t) \cup {x}) <= Cardinality(Taken(p, more, b, t))
  BY <1>9, <1>11, FS_Subset
<1> QED BY <1>9, <1>10, <1>12 DEF more

(***************************************************************************)
(* A time no longer than a pipeline's period meets two of its slots.       *)
(***************************************************************************)
LEMMA TwoSlots ==
  ASSUME NEW s \in Int, NEW t \in Int, NEW a \in Int, NEW f \in Nat, f > 0,
         s <= t, t <= s + f
  PROVE  SlotStart(t, a, f) \in {SlotStart(s, a, f), SlotStart(s, a, f) + f}
<1> DEFINE i == (s - a) \div f
           j == (t - a) \div f
<1>0. i \in Int /\ j \in Int /\ i * f \in Int /\ j * f \in Int
  OBVIOUS
<1>1. s - a < i * f + f /\ j * f <= t - a /\ i * f <= s - a /\ t - a < j * f + f
  OBVIOUS
<1>d. SlotStart(s, a, f) = i * f + a /\ SlotStart(t, a, f) = j * f + a
  BY DEF SlotStart
<1> HIDE DEF i, j
<1>2. ~(j < i)
  <2> SUFFICES ASSUME j < i PROVE FALSE
    OBVIOUS
  <2>1. j * f + f <= i * f
    BY <1>0, Multiples
  <2> QED BY <1>0, <1>1, <2>1
<1>3. ~(i + 1 < j)
  <2> SUFFICES ASSUME i + 1 < j PROVE FALSE
    OBVIOUS
  <2>1. (i + 1) * f + f <= j * f
    BY <1>0, Multiples
  <2>2. (i + 1) * f = i * f + f
    BY <1>0
  <2> QED BY <1>0, <1>1, <2>1, <2>2
<1>4. j = i \/ j = i + 1
  BY <1>0, <1>2, <1>3
<1>5. CASE j = i
  BY <1>5, <1>d
<1>6. CASE j = i + 1
  <2>1. j * f = i * f + f
    BY <1>0, <1>6
  <2> QED BY <2>1, <1>0, <1>d
<1> QED BY <1>4, <1>5, <1>6

LEMMA TwoSlotsEach ==
  ASSUME TickAssumption, NEW p \in Pipelines, Spaced(p), NEW b \in Int, NEW t \in Int,
         b <= t, t - b <= 2 * (p - 1)
  PROVE  Cardinality(SlotsIn(p, b, t)) <= 2 * (p - 1)
<1> DEFINE D == (1 .. p - 1) \X (0 .. 1)
           f == [d \in D |-> <<d[1], Slot(d[1], b) + d[2] * Frequency[d[1]]>>]
<1>0. p \in Int /\ 1 <= p
  BY DEF Pipelines, TickAssumption
<1>1. /\ IsFiniteSet(1 .. p - 1) /\ Cardinality(1 .. p - 1) = p - 1
      /\ IsFiniteSet(0 .. 1) /\ Cardinality(0 .. 1) = 2
  <2>1. 1 \in Int /\ 0 \in Int /\ p - 1 \in Int
    BY <1>0
  <2>2. /\ IsFiniteSet(1 .. p - 1)
        /\ Cardinality(1 .. p - 1) = IF 1 > p - 1 THEN 0 ELSE (p - 1) - 1 + 1
        /\ IsFiniteSet(0 .. 1) /\ Cardinality(0 .. 1) = IF 0 > 1 THEN 0 ELSE 1 - 0 + 1
    BY <2>1, FS_Interval
  <2> QED BY <1>0, <2>2
<1>2. IsFiniteSet(D) /\ Cardinality(D) = (p - 1) * 2
  <2>1. /\ IsFiniteSet((1 .. p - 1) \X (0 .. 1))
        /\ Cardinality((1 .. p - 1) \X (0 .. 1)) = Cardinality(1 .. p - 1) * Cardinality(0 .. 1)
    BY <1>1, FS_Product, Zenon
  <2>2. Cardinality(1 .. p - 1) * Cardinality(0 .. 1) = (p - 1) * 2
    BY <1>1
  <2> QED BY <2>1, <2>2, Zenon
<1>3. \A y \in SlotsIn(p, b, t) : \E d \in D : y = f[d]
  <2> SUFFICES ASSUME NEW y \in SlotsIn(p, b, t) PROVE \E d \in D : y = f[d]
    OBVIOUS
  <2>0. PICK q \in Before(p), x \in b .. t : y = <<q, Slot(q, x)>>
    BY DEF SlotsIn
  <2>1. /\ q \in 1 .. p - 1 /\ q \in Pipelines /\ Frequency[q] \in Nat /\ Frequency[q] > 0
        /\ Anchor[q] \in Nat /\ Frequency[q] >= 2 * (p - 1)
    BY DEF Before, Spaced, Pipelines, TickAssumption
  <2>2. x \in Int /\ b <= x /\ x <= b + Frequency[q]
    BY <1>0, <2>1
  <2>3. Slot(q, x) \in {Slot(q, b), Slot(q, b) + Frequency[q]} /\ Slot(q, b) \in Int
    <3>1. SlotStart(b, Anchor[q], Frequency[q]) \in Int
      BY <2>1, SlotBounds
    <3>2. SlotStart(x, Anchor[q], Frequency[q])
            \in {SlotStart(b, Anchor[q], Frequency[q]),
                 SlotStart(b, Anchor[q], Frequency[q]) + Frequency[q]}
      BY <2>1, <2>2, TwoSlots
    <3> QED BY <3>1, <3>2 DEF Slot
  <2>4. <<q, 0>> \in D /\ <<q, 1>> \in D
    BY <2>1
  <2>5. f[<<q, 0>>] = <<q, Slot(q, b) + 0 * Frequency[q]>>
        /\ f[<<q, 1>>] = <<q, Slot(q, b) + 1 * Frequency[q]>>
    BY <2>4
  <2>6. Slot(q, b) + 0 * Frequency[q] = Slot(q, b)
        /\ Slot(q, b) + 1 * Frequency[q] = Slot(q, b) + Frequency[q]
    BY <2>1, <2>3
  <2> QED BY <2>0, <2>3, <2>4, <2>5, <2>6
<1>4. f = [d \in D |-> f[d]]
  OBVIOUS
<1> HIDE DEF f, D
<1>5. Cardinality(SlotsIn(p, b, t)) <= Cardinality(D)
  BY <1>2, <1>3, <1>4, ImageFinite
<1>6. Cardinality(SlotsIn(p, b, t)) \in Nat
  BY SlotsFinite, FS_CardinalityType
<1>7. (p - 1) * 2 = 2 * (p - 1)
  BY <1>0
<1> QED BY <1>0, <1>2, <1>5, <1>6, <1>7

(***************************************************************************)
(* What a tick does to a wait.  Everything it starts comes before the      *)
(* pipeline whose turn it is, and it is over before its unit of time is.   *)
(***************************************************************************)
Active(w) == tick[w].pc # "idle"

TickShape(w) ==
  /\ Active(w) => ~ticked /\ tick[w].at = now
  /\ Active(w) => \A q \in tick[w].started : q < K(w)
  /\ tick[w].pc \in {"group", "clearMember"} =>
       Group[K(w)] # NoGroup /\ tick[w].left \subseteq Others(K(w))

\* The tick of this unit of time has dealt with p
DoneWith(p) ==
  ticked \/ \E w \in Workers : tick[w].pc = "prune" \/ (Active(w) /\ p < K(w))

\* When p began to wait
Since(p) == now - deferred[p] + (IF DoneWith(p) THEN 1 ELSE 0)

(***************************************************************************)
(* Every tick that passed p over took a slot; so did the one that is about *)
(* to, which has started something; and so will the claim it is on its way *)
(* to.                                                                     *)
(***************************************************************************)
Waited(p) ==
  /\ 0 <= Since(p)
  /\ deferred[p] <= Cardinality(Taken(p, lastAt, Since(p), now))
  /\ Spaced(p) => deferred[p] <= 2 * (p - 1)

Claimed(w) == [lastAt EXCEPT ![K(w)] = now]

Paid(w, p) == tick[w].pc \notin {"idle", "prune"} /\ K(w) <= p =>
  LET b == now - deferred[p] IN
  /\ tick[w].started # {} =>
       deferred[p] + 1 <= Cardinality(Taken(p, lastAt, b, now))
  /\ tick[w].pc \in Ahead /\ K(w) < p =>
       deferred[p] + 1 <= Cardinality(Taken(p, Claimed(w), b, now))

WaitInv ==
  /\ \A q \in Pipelines : lastAt[q] # Never => lastAt[q] <= now
  /\ \A w \in Workers : TickShape(w)
  /\ \A p \in Pipelines : Alone(p) => Waited(p) /\ \A w \in Workers : Paid(w, p)

Grown == \A q \in Pipelines :
  lastAt[q] # Never => lastAt'[q] # Never /\ lastAt[q] <= lastAt'[q]

LEMMA WaitTypes ==
  ASSUME TickAssumption, Typed, NEW p \in Pipelines
  PROVE  /\ deferred[p] \in Nat /\ now \in Nat /\ Since(p) \in Int
         /\ now - deferred[p] \in Int /\ p \in Int /\ 1 <= p
         /\ lastAt \in [Pipelines -> Int \cup {Never}]
         /\ \A q \in Pipelines : lastAt[q] \in Int \cup {Never}
  BY DEF Typed, TypeOK, Time, Since, TickAssumption, Pipelines

LEMMA DoneOf ==
  ASSUME Solo, NEW w \in Workers, NEW p \in Pipelines
  PROVE  DoneWith(p) <=> ticked \/ tick[w].pc = "prune" \/ (Active(w) /\ p < K(w))
  BY DEF Solo, DoneWith

LEMMA TakenKept ==
  ASSUME TickAssumption, Typed, Typed', Grown, now <= now', NEW p \in Pipelines, NEW b \in Int
  PROVE  /\ Cardinality(Taken(p, lastAt, b, now)) <= Cardinality(Taken(p, lastAt', b, now'))
         /\ Cardinality(Taken(p, lastAt, b, now)) \in Nat
         /\ Cardinality(Taken(p, lastAt', b, now')) \in Nat
<1>1. PICK last : last = lastAt
  OBVIOUS
<1>2. PICK more : more = lastAt'
  OBVIOUS
<1>3. PICK t : t = now
  OBVIOUS
<1>4. PICK u : u = now'
  OBVIOUS
<1>5. t \in Int /\ u \in Int /\ t <= u
  BY <1>3, <1>4 DEF Typed, TypeOK, Time, TickAssumption
<1>6. \A q \in Pipelines : last[q] \in Int \cup {Never} /\ more[q] \in Int \cup {Never}
  BY <1>1, <1>2 DEF Typed, TypeOK, Time
<1>7. \A q \in Pipelines : last[q] # Never => more[q] # Never /\ last[q] <= more[q]
  BY <1>1, <1>2 DEF Grown
<1>8. Cardinality(Taken(p, last, b, t)) <= Cardinality(Taken(p, more, b, u))
  BY <1>5, <1>6, <1>7, TakenGrows
<1>9. Cardinality(Taken(p, last, b, t)) \in Nat /\ Cardinality(Taken(p, more, b, u)) \in Nat
  BY <1>5, TakenFinite
<1> QED BY <1>1, <1>2, <1>3, <1>4, <1>8, <1>9

LEMMA ClaimedKept ==
  ASSUME TickAssumption, Typed, Typed', Grown, UNCHANGED now, NEW p \in Pipelines, NEW b \in Int,
         NEW w \in Workers, K(w) \in Pipelines, tick'[w].k = tick[w].k
  PROVE  /\ Cardinality(Taken(p, Claimed(w), b, now))
              <= Cardinality(Taken(p, Claimed(w)', b, now'))
         /\ Cardinality(Taken(p, Claimed(w), b, now)) \in Nat
         /\ Cardinality(Taken(p, Claimed(w)', b, now')) \in Nat
<1>1. PICK last : last = Claimed(w)
  OBVIOUS
<1>2. PICK more : more = Claimed(w)'
  OBVIOUS
<1>3. PICK t : t = now
  OBVIOUS
<1>4. t = now' /\ t \in Int
  BY <1>3 DEF Typed, TypeOK, Time
<1>5. last = [lastAt EXCEPT ![K(w)] = now] /\ more = [lastAt' EXCEPT ![K(w)] = now]
  BY <1>1, <1>2 DEF Claimed, K
<1>6. \A q \in Pipelines : last[q] \in Int \cup {Never} /\ more[q] \in Int \cup {Never}
  BY <1>3, <1>4, <1>5 DEF Typed, TypeOK, Time
<1>7. \A q \in Pipelines : last[q] # Never => more[q] # Never /\ last[q] <= more[q]
  BY <1>3, <1>4, <1>5 DEF Grown, Typed, TypeOK, Time
<1>8. Cardinality(Taken(p, last, b, t)) <= Cardinality(Taken(p, more, b, t))
  <2>1. t \in Int /\ t <= t
    BY <1>4
  <2> QED BY <1>6, <1>7, <2>1, TakenGrows
<1>9. Cardinality(Taken(p, last, b, t)) \in Nat /\ Cardinality(Taken(p, more, b, t)) \in Nat
  BY <1>4, TakenFinite
<1> QED BY <1>1, <1>2, <1>3, <1>4, <1>8, <1>9

(***************************************************************************)
(* A wait goes on, ends, is counted, or passes into the next unit of time. *)
(***************************************************************************)
LEMMA WaitGoesOn ==
  ASSUME TickAssumption, Typed, Typed', NEW p \in Pipelines, Waited(p), Grown,
         deferred'[p] = deferred[p],
         \/ UNCHANGED now /\ (DoneWith(p)' <=> DoneWith(p))
         \/ now' = now + 1 /\ DoneWith(p) /\ ~DoneWith(p)'
  PROVE  Waited(p)'
<1>1. PICK b : b = Since(p)
  OBVIOUS
<1>2. Since(p)' = b /\ now <= now' /\ b \in Int
  BY <1>1, WaitTypes DEF Since
<1>3. /\ Cardinality(Taken(p, lastAt, b, now)) <= Cardinality(Taken(p, lastAt', b, now'))
      /\ Cardinality(Taken(p, lastAt, b, now)) \in Nat
      /\ Cardinality(Taken(p, lastAt', b, now')) \in Nat
  BY <1>2, TakenKept
<1>4. 0 <= b /\ deferred[p] <= Cardinality(Taken(p, lastAt, b, now))
      /\ (Spaced(p) => deferred[p] <= 2 * (p - 1))
  BY <1>1 DEF Waited
<1>5. deferred[p] \in Nat
  BY WaitTypes
<1> QED BY <1>2, <1>3, <1>4, <1>5 DEF Waited

LEMMA WaitEnds ==
  ASSUME TickAssumption, Typed', NEW p \in Pipelines, deferred'[p] = 0, DoneWith(p)'
  PROVE  Waited(p)'
<1>1. PICK b : b = Since(p)'
  OBVIOUS
<1>2. PICK last : last = lastAt'
  OBVIOUS
<1>3. PICK t : t = now'
  OBVIOUS
<1>4. t \in Nat /\ b = t + 1 /\ 0 <= 2 * (p - 1)
  BY <1>1, <1>3 DEF Since, Typed, TypeOK, Time, TickAssumption, Pipelines
<1>5. Cardinality(Taken(p, last, b, t)) \in Nat
  BY <1>4, TakenFinite
<1>6. Cardinality(Taken(p, lastAt', Since(p)', now')) \in Nat
  BY <1>1, <1>2, <1>3, <1>5
<1>7. 0 <= Since(p)'
  BY <1>1, <1>4
<1> QED BY <1>4, <1>6, <1>7 DEF Waited

LEMMA WaitCounts ==
  ASSUME TickAssumption, Timely, Typed, Typed', NEW p \in Pipelines, Waited(p),
         ~DoneWith(p), DoneWith(p)', deferred'[p] = Later(deferred[p]), UNCHANGED <<lastAt, now>>,
         deferred[p] + 1 <= Cardinality(Taken(p, lastAt, now - deferred[p], now))
  PROVE  Waited(p)'
<1>1. PICK b : b = now - deferred[p]
  OBVIOUS
<1>2. PICK last : last = lastAt
  OBVIOUS
<1>3. PICK t : t = now
  OBVIOUS
<1>4. PICK d : d = deferred[p]
  OBVIOUS
<1>5. t \in Nat /\ d \in Nat /\ b = t - d /\ 0 <= b /\ t <= MaxTime /\ MaxTime \in Nat
  BY <1>1, <1>3, <1>4, WaitTypes DEF Waited, Since, Typed, TypeOK, Time, TickAssumption
<1>6. deferred'[p] = d + 1
  BY <1>4, <1>5 DEF Later
<1>7. Since(p)' = b
  BY <1>3, <1>5, <1>6 DEF Since
<1>8. d + 1 <= Cardinality(Taken(p, last, b, t))
  BY <1>1, <1>2, <1>3, <1>4
<1>9. ASSUME Spaced(p) PROVE d + 1 <= 2 * (p - 1)
  <2>1. d <= 2 * (p - 1)
    BY <1>4, <1>9 DEF Waited
  <2>2. b \in Int /\ t \in Int /\ b <= t /\ t - b <= 2 * (p - 1)
    BY <1>5, <2>1
  <2>3. Cardinality(SlotsIn(p, b, t)) <= 2 * (p - 1)
    BY <1>9, <2>2, TwoSlotsEach
  <2>4. /\ Cardinality(Taken(p, last, b, t)) \in Nat /\ Cardinality(SlotsIn(p, b, t)) \in Nat
        /\ Cardinality(Taken(p, last, b, t)) <= Cardinality(SlotsIn(p, b, t))
    BY <2>2, TakenFinite
  <2>5. 2 * (p - 1) \in Int
    BY DEF Pipelines
  <2> QED BY <1>5, <1>8, <2>3, <2>4, <2>5
<1> QED BY <1>2, <1>3, <1>5, <1>6, <1>7, <1>8, <1>9 DEF Waited

WaitsOn(w, p) == Waited(p) /\ Paid(w, p)

(***************************************************************************)
(* The turn passes to the next pipeline.                                   *)
(***************************************************************************)
LEMMA TurnPasses ==
  ASSUME TickAssumption, Solo, Typed, Typed', NEW w \in Workers, NEW p \in Pipelines,
         WaitsOn(w, p), TickShape(w), tick[w].pc \notin {"idle", "prune"}, K(w) \in Pipelines,
         tick'[w].pc = "next", tick'[w].k = K(w) + 1, UNCHANGED <<now, ticked>>, Grown,
         p # K(w) => deferred'[p] = deferred[p], p = K(w) => deferred'[p] = 0,
         \/ tick'[w].started = tick[w].started
         \/ K(w) < p => deferred[p] + 1
                          <= Cardinality(Taken(p, lastAt', now - deferred[p], now))
  PROVE  WaitsOn(w, p)'
<1>0. K(w) \in Int /\ p \in Int
  BY DEF Pipelines
<1>1. DoneWith(p) <=> p < K(w)
  BY DoneOf DEF TickShape, Active
<1>2. DoneWith(p)' <=> ticked' \/ tick'[w].pc = "prune" \/ (tick'[w].pc # "idle" /\ p < tick'[w].k)
  BY DEF Solo, DoneWith, Active, K
<1>3. ~ticked'
  BY DEF TickShape, Active
<1>4. DoneWith(p)' <=> p < K(w) + 1
  BY <1>2, <1>3
<1>5. CASE p < K(w)
  <2>1. Waited(p)'
    BY <1>0, <1>1, <1>4, <1>5, WaitGoesOn DEF WaitsOn
  <2>2. Paid(w, p)'
    BY <1>0, <1>5 DEF Paid, K
  <2> QED BY <2>1, <2>2 DEF WaitsOn
<1>6. CASE p = K(w)
  <2>1. Waited(p)'
    BY <1>0, <1>4, <1>6, WaitEnds
  <2>2. Paid(w, p)'
    BY <1>0, <1>6 DEF Paid, K
  <2> QED BY <2>1, <2>2 DEF WaitsOn
<1>7. CASE K(w) < p
  <2>0. deferred'[p] = deferred[p]
    BY <1>0, <1>7
  <2>1. Waited(p)'
    BY <1>0, <1>1, <1>4, <1>7, <2>0, WaitGoesOn DEF WaitsOn
  <2>2. PICK b : b = now - deferred[p]
    OBVIOUS
  <2>3. b \in Int /\ deferred[p] \in Nat /\ now' = now /\ now <= now' /\ (now - deferred[p])' = b
    BY <2>0, <2>2, WaitTypes
  <2>4. /\ Cardinality(Taken(p, lastAt, b, now)) <= Cardinality(Taken(p, lastAt', b, now'))
        /\ Cardinality(Taken(p, lastAt, b, now)) \in Nat
        /\ Cardinality(Taken(p, lastAt', b, now')) \in Nat
    BY <2>3, TakenKept
  <2>5. ASSUME tick'[w].started # {}
        PROVE  deferred[p] + 1 <= Cardinality(Taken(p, lastAt', b, now'))
    <3>1. CASE tick'[w].started = tick[w].started
      <4>1. deferred[p] + 1 <= Cardinality(Taken(p, lastAt, b, now))
        BY <1>0, <1>7, <2>2, <2>5, <3>1 DEF WaitsOn, Paid
      <4> QED BY <2>3, <2>4, <4>1
    <3>2. CASE deferred[p] + 1 <= Cardinality(Taken(p, lastAt', now - deferred[p], now))
      BY <2>2, <2>3, <3>2
    <3> QED BY <1>7, <3>1, <3>2
  <2>6. Paid(w, p)'
    BY <2>0, <2>3, <2>5 DEF Paid, Ahead
  <2> QED BY <2>1, <2>6 DEF WaitsOn
<1> QED BY <1>0, <1>5, <1>6, <1>7

(***************************************************************************)
(* A step on the way to a claim, or beside the tick.                       *)
(***************************************************************************)
LEMMA TurnStays ==
  ASSUME TickAssumption, Solo, Typed, Typed', NEW w \in Workers, NEW p \in Pipelines,
         WaitsOn(w, p), TickShape(w), UNCHANGED <<now, ticked>>, Grown,
         K(w) \in Pipelines \/ tick'[w].pc \notin Ahead,
         tick'[w].pc = tick[w].pc
           \/ {tick[w].pc, tick'[w].pc} \subseteq {"next"} \cup Ahead,
         tick'[w].k = K(w), tick'[w].started = tick[w].started,
         deferred'[p] = deferred[p],
         tick'[w].pc \in Ahead => tick[w].pc \in Ahead \/
           deferred[p] + 1 <= Cardinality(Taken(p, Claimed(w), now - deferred[p], now))
           \/ ~(K(w) < p)
  PROVE  WaitsOn(w, p)'
<1>1. DoneWith(p) <=> ticked \/ tick[w].pc = "prune" \/ (tick[w].pc # "idle" /\ p < tick[w].k)
  BY DoneOf DEF Active, K
<1>2. DoneWith(p)' <=> ticked' \/ tick'[w].pc = "prune" \/ (tick'[w].pc # "idle" /\ p < tick'[w].k)
  BY DEF Solo, DoneWith, Active, K
<1>3. DoneWith(p)' <=> DoneWith(p)
  BY <1>1, <1>2 DEF K, Ahead
<1>4. Waited(p)'
  BY <1>3, WaitGoesOn DEF WaitsOn
<1>5. PICK b : b = now - deferred[p]
  OBVIOUS
<1>6. b \in Int /\ deferred[p] \in Nat /\ now' = now /\ now <= now' /\ (now - deferred[p])' = b
  BY <1>5, WaitTypes
<1>7. /\ Cardinality(Taken(p, lastAt, b, now)) <= Cardinality(Taken(p, lastAt', b, now'))
      /\ Cardinality(Taken(p, lastAt, b, now)) \in Nat
      /\ Cardinality(Taken(p, lastAt', b, now')) \in Nat
  BY <1>6, TakenKept
<1>8. ASSUME tick'[w].pc \notin {"idle", "prune"}, tick'[w].k <= p
      PROVE  /\ tick'[w].started # {} =>
                  deferred[p] + 1 <= Cardinality(Taken(p, lastAt', b, now'))
             /\ tick'[w].pc \in Ahead /\ tick'[w].k < p =>
                  deferred[p] + 1 <= Cardinality(Taken(p, Claimed(w)', b, now'))
  <2>0. tick[w].pc \notin {"idle", "prune"} /\ K(w) <= p
    BY <1>8 DEF Ahead
  <2>1. ASSUME tick'[w].started # {}
        PROVE  deferred[p] + 1 <= Cardinality(Taken(p, lastAt', b, now'))
    <3>1. deferred[p] + 1 <= Cardinality(Taken(p, lastAt, b, now))
      BY <2>0, <2>1, <1>5 DEF WaitsOn, Paid
    <3> QED BY <1>6, <1>7, <3>1
  <2>2. ASSUME tick'[w].pc \in Ahead, tick'[w].k < p
        PROVE  deferred[p] + 1 <= Cardinality(Taken(p, Claimed(w)', b, now'))
    <3>1. deferred[p] + 1 <= Cardinality(Taken(p, Claimed(w), b, now))
      BY <2>0, <2>2, <1>5 DEF WaitsOn, Paid
    <3>2. K(w) \in Pipelines /\ tick'[w].k = tick[w].k
      BY <2>2 DEF K
    <3>3. /\ Cardinality(Taken(p, Claimed(w), b, now))
               <= Cardinality(Taken(p, Claimed(w)', b, now'))
          /\ Cardinality(Taken(p, Claimed(w), b, now)) \in Nat
          /\ Cardinality(Taken(p, Claimed(w)', b, now')) \in Nat
      BY <1>6, <3>2, ClaimedKept
    <3> QED BY <1>6, <3>1, <3>3
  <2> QED BY <2>1, <2>2
<1>9. Paid(w, p)'
  BY <1>6, <1>8 DEF Paid, K
<1> QED BY <1>4, <1>9 DEF WaitsOn

(***************************************************************************)
(* Nobody is on the way to a claim before or after.                        *)
(***************************************************************************)
LEMMA TurnRests ==
  ASSUME TickAssumption, Solo, Typed, Typed', NEW w \in Workers, NEW p \in Pipelines,
         WaitsOn(w, p), tick'[w].started = {}, tick'[w].pc \notin Ahead,
         deferred'[p] = deferred[p], Grown,
         \/ UNCHANGED now /\ (DoneWith(p)' <=> DoneWith(p))
         \/ now' = now + 1 /\ DoneWith(p) /\ ~DoneWith(p)'
  PROVE  WaitsOn(w, p)'
<1>1. Waited(p)'
  BY WaitGoesOn DEF WaitsOn
<1>2. Paid(w, p)'
  BY DEF Paid
<1> QED BY <1>1, <1>2 DEF WaitsOn

LEMMA WorkerWaits ==
  ASSUME TickAssumption, Solo, Timely, Typed, Typed', WaitInv, NEW w \in Workers, Worker(w),
         NEW p \in Pipelines, Alone(p)
  PROVE  WaitsOn(w, p)'
<1> USE DEF At
<1>0. /\ WaitsOn(w, p) /\ TickShape(w) /\ tick \in [Workers -> TickRecord]
      /\ tick[w].started \in SUBSET Pipelines /\ tick[w].k \in 1 .. N + 1
      /\ tick[w].at = now \/ tick[w].pc = "idle"
  BY TickFields DEF WaitInv, WaitsOn, TickShape, Active, Typed
<1>g. UNCHANGED lastAt => Grown
  BY WaitTypes DEF Grown
<1>n. now' = now /\ tick'[w].pc \in Ahead => K(w)' \in Pipelines
  BY DEF Typed, InLoop
<1>a. tick[w].pc \in Ahead => K(w) \in Pipelines
  BY DEF Typed, InLoop
<1>s. ASSUME Skip(w), K(w) \in Pipelines, tick[w].pc \notin {"idle", "prune"},
             UNCHANGED <<now, ticked>>, Grown,
             p # K(w) => deferred'[p] = deferred[p], p = K(w) => deferred'[p] = 0
      PROVE  WaitsOn(w, p)'
  <2>1. /\ tick'[w].pc = "next" /\ tick'[w].k = K(w) + 1 /\ tick'[w].at = tick[w].at
        /\ tick'[w].started = tick[w].started
    BY <1>0, <1>s DEF Skip, K
  <2> QED BY <1>0, <1>s, <2>1, TurnPasses
<1>1. CASE TickBegin(w)
  <2> DEFINE t == [NoTick EXCEPT !.pc = "next", !.at = now]
  <2>1. /\ tick'[w] = t /\ UNCHANGED <<now, ticked, lastAt, deferred>>
        /\ tick[w].pc = "idle" /\ ~ticked
    BY <1>0, <1>1 DEF TickBegin
  <2>2. t.pc = "next" /\ t.k = 1 /\ t.started = {} /\ t.at = now
    BY DEF NoTick
  <2> HIDE DEF t
  <2>3. DoneWith(p)' <=> ticked' \/ tick'[w].pc = "prune" \/ (tick'[w].pc # "idle" /\ p < tick'[w].k)
    BY DEF Solo, DoneWith, Active, K
  <2>4. DoneWith(p)' <=> DoneWith(p)
    BY <2>1, <2>2, <2>3, DoneOf DEF Active, Pipelines
  <2> QED BY <1>0, <1>g, <2>1, <2>2, <2>4, TurnRests DEF Ahead
<1>2. CASE Consider(w)
  <2>0. /\ tick[w].pc = "next" /\ K(w) \in Pipelines /\ UNCHANGED <<now, ticked, lastAt>>
        /\ tick[w].at = now
    BY <1>0, <1>2 DEF Consider
  <2>1. CASE enabled[K(w)] /\ Due(K(w), tick[w].at)
    <3>1. /\ tick'[w].pc = "busy" /\ tick'[w].k = tick[w].k /\ tick'[w].at = tick[w].at
          /\ tick'[w].started = tick[w].started /\ UNCHANGED deferred
      <4>1. tick' = [tick EXCEPT ![w].pc = "busy"] /\ UNCHANGED deferred
        BY <1>2, <2>1 DEF Consider
      <4> QED BY <1>0, <4>1
    <3>2. ASSUME K(w) < p
          PROVE  deferred[p] + 1 <= Cardinality(Taken(p, Claimed(w), now - deferred[p], now))
      <4>1. PICK last : last = lastAt
        OBVIOUS
      <4>2. PICK t : t = now
        OBVIOUS
      <4>3. PICK q : q = K(w)
        OBVIOUS
      <4>4. PICK b : b = now - deferred[p]
        OBVIOUS
      <4>5. b \in Int /\ t \in Int /\ b <= t /\ deferred[p] \in Nat
        BY <4>2, <4>4, WaitTypes
      <4>6. last \in [Pipelines -> Int \cup {Never}]
            /\ \A r \in Pipelines : last[r] # Never => last[r] <= t
        BY <4>1, <4>2, WaitTypes DEF WaitInv
      <4>7. q \in Pipelines /\ q < p /\ IsDue(t, last[q], Anchor[q], Frequency[q])
        BY <2>0, <2>1, <3>2, <4>1, <4>2, <4>3 DEF Due
      <4>8. Cardinality(Taken(p, last, b, t)) + 1
              <= Cardinality(Taken(p, [last EXCEPT ![q] = t], b, t))
        BY <4>5, <4>6, <4>7, TakenGains
      <4>9. ~DoneWith(p)
        <5>1. DoneWith(p) <=> p < K(w)
          BY <1>0, <2>0, DoneOf DEF TickShape, Active
        <5>2. p \in Int /\ K(w) \in Int
          BY <2>0, WaitTypes DEF Pipelines
        <5> QED BY <3>2, <5>1, <5>2
      <4>10. deferred[p] <= Cardinality(Taken(p, last, b, t))
        BY <1>0, <4>1, <4>2, <4>4, <4>9, <4>5 DEF WaitsOn, Waited, Since
      <4>11. Cardinality(Taken(p, last, b, t)) \in Nat
             /\ Cardinality(Taken(p, [last EXCEPT ![q] = t], b, t)) \in Nat
        BY <4>5, TakenFinite
      <4>12. Claimed(w) = [last EXCEPT ![q] = t]
        BY <4>1, <4>2, <4>3 DEF Claimed
      <4> QED BY <4>2, <4>4, <4>5, <4>8, <4>10, <4>11, <4>12
    <3> QED BY <1>0, <1>g, <2>0, <3>1, <3>2, TurnStays DEF K, Ahead
  <2>2. CASE ~(enabled[K(w)] /\ Due(K(w), tick[w].at))
    <3>1. /\ tick'[w].pc = "next" /\ tick'[w].k = K(w) + 1 /\ tick'[w].at = tick[w].at
          /\ tick'[w].started = tick[w].started
      <4>1. tick' = [tick EXCEPT ![w].k = @ + 1]
        BY <1>2, <2>2 DEF Consider
      <4> QED BY <1>0, <2>0, <4>1 DEF K
    <3>2. (p # K(w) => deferred'[p] = deferred[p]) /\ (p = K(w) => deferred'[p] = 0)
      BY <1>2, <2>2 DEF Consider, Typed, TypeOK
    <3> QED BY <1>0, <1>g, <2>0, <3>1, <3>2, TurnPasses
  <2> QED BY <2>1, <2>2
<1>3. CASE EndLoop(w)
  <2>0. /\ tick[w].pc = "next" /\ UNCHANGED <<now, ticked, lastAt>> /\ tick[w].at = now
        /\ tick'[w].pc = "prune" /\ tick'[w].k = tick[w].k /\ tick'[w].at = tick[w].at
        /\ tick'[w].started = tick[w].started
    BY <1>0, <1>3 DEF EndLoop
  <2>2. Paid(w, p)'
    BY <2>0 DEF Paid
  <2>3. DoneWith(p)'
    BY <2>0 DEF DoneWith
  <2>4. DoneWith(p) <=> p < K(w)
    BY <1>0, <2>0, DoneOf DEF TickShape, Active
  <2>5. CASE p < K(w)
    <3>1. deferred'[p] = deferred[p]
      BY <1>3, <2>5 DEF EndLoop
    <3> QED BY <1>0, <1>g, <2>0, <2>2, <2>3, <2>4, <2>5, <3>1, WaitGoesOn DEF WaitsOn
  <2>6. CASE ~(p < K(w)) /\ Passed(p, tick[w].at)
    <3>1. deferred'[p] = Later(deferred[p])
      BY <1>3, <2>6 DEF EndLoop
    <3>2. K(w) \in Pipelines /\ K(w) <= p
      BY <1>0, <2>6 DEF K, Pipelines, TickAssumption
    <3>3. tick[w].started # {}
      <4>1. Cap > 0 /\ Cardinality(tick[w].started) >= Cap
        BY <1>3, <3>2 DEF EndLoop, Capped
      <4> QED BY <4>1, FS_EmptySet DEF TickAssumption
    <3>4. deferred[p] + 1 <= Cardinality(Taken(p, lastAt, now - deferred[p], now))
      BY <1>0, <2>0, <3>2, <3>3 DEF WaitsOn, Paid
    <3>5. Waited(p)'
      BY <1>0, <2>0, <2>3, <2>4, <2>6, <3>1, <3>4, WaitCounts DEF WaitsOn
    <3> QED BY <2>2, <3>5 DEF WaitsOn
  <2>7. CASE ~(p < K(w)) /\ ~Passed(p, tick[w].at)
    <3>1. deferred'[p] = 0
      BY <1>3, <2>7 DEF EndLoop
    <3> QED BY <2>2, <2>3, <3>1, WaitEnds DEF WaitsOn
  <2> QED BY <2>5, <2>6, <2>7
<1>l. ASSUME NEW l \in Ahead, tick' = [tick EXCEPT ![w].pc = l], tick[w].pc \in Ahead,
             UNCHANGED <<now, ticked, lastAt, deferred>>
      PROVE  WaitsOn(w, p)'
  <2>1. /\ tick'[w].pc = l /\ tick'[w].k = tick[w].k /\ tick'[w].started = tick[w].started
        /\ K(w) \in Pipelines
    BY <1>0, <1>a, <1>l
  <2> QED BY <1>0, <1>g, <1>l, <2>1, TurnStays DEF K
<1>d. ASSUME Skip(w), K(w) \in Pipelines, tick[w].pc \in Ahead, UNCHANGED <<now, ticked, lastAt>>,
             deferred' = [deferred EXCEPT ![K(w)] = 0]
      PROVE  WaitsOn(w, p)'
  <2>1. (p # K(w) => deferred'[p] = deferred[p]) /\ (p = K(w) => deferred'[p] = 0)
    BY <1>d DEF Typed, TypeOK
  <2> QED BY <1>d, <1>g, <1>s, <2>1 DEF Ahead
<1>4. CASE CheckBusy(w) \/ ClearOwn(w)
  <2>0. tick[w].pc \in {"busy", "clear"} /\ K(w) \in Pipelines /\ UNCHANGED <<now, ticked, lastAt>>
    BY <1>4, <1>a DEF CheckBusy, ClearOwn, Ahead
  <2>1. CASE Skip(w) /\ deferred' = [deferred EXCEPT ![K(w)] = 0]
    BY <1>d, <2>0, <2>1 DEF Ahead
  <2>2. ASSUME NEW l \in {"clear", "start"}, tick' = [tick EXCEPT ![w].pc = l], UNCHANGED deferred
        PROVE  WaitsOn(w, p)'
    BY <1>l, <2>0, <2>2 DEF Ahead
  <2>3. CASE /\ Group[K(w)] # NoGroup
             /\ tick' = [tick EXCEPT ![w].pc = "group", ![w].left = Others(K(w))]
             /\ UNCHANGED deferred
    <3>1. /\ tick'[w].pc = "group" /\ tick'[w].k = tick[w].k /\ tick'[w].at = tick[w].at
          /\ tick'[w].started = tick[w].started /\ tick'[w].left = Others(K(w))
      BY <1>0, <2>3
    <3> QED BY <1>0, <1>g, <2>0, <2>3, <3>1, TurnStays DEF K, Ahead
  <2>4. CASE /\ Group[K(w)] # NoGroup /\ GroupStarted(w, K(w)) /\ Skip(w)
             /\ deferred' = [deferred EXCEPT ![K(w)] = Later(@)]
    <3>1. p # K(w)
      <4>1. PICK q \in tick[w].started : Group[q] = Group[K(w)]
        BY <2>4 DEF GroupStarted
      <4>2. q \in Pipelines /\ q # K(w)
        BY <1>0, <2>0, <4>1 DEF TickShape, Active, Pipelines
      <4>3. q \in Others(K(w))
        BY <4>1, <4>2 DEF Others
      <4> QED BY <2>4, <4>3 DEF Alone
    <3>2. deferred'[p] = deferred[p]
      BY <2>4, <3>1 DEF Typed, TypeOK
    <3> QED BY <1>g, <1>s, <2>0, <2>4, <3>1, <3>2
  <2>5. CASE GoOn(w)
    BY <2>2, <2>3, <2>4, <2>5 DEF GoOn
  <2> QED BY <1>4, <2>1, <2>2, <2>5 DEF CheckBusy, ClearOwn
<1>5. CASE CheckGroup(w) \/ ClearMember(w)
  <2>0. /\ tick[w].pc \in {"group", "clearMember"} /\ K(w) \in Pipelines
        /\ UNCHANGED <<now, ticked, lastAt>>
    BY <1>5, <1>a DEF CheckGroup, ClearMember, Ahead
  <2>1. ASSUME NEW l \in {"start", "clearMember"}, tick' = [tick EXCEPT ![w].pc = l],
               UNCHANGED deferred
        PROVE  WaitsOn(w, p)'
    BY <1>l, <2>0, <2>1 DEF Ahead
  <2>2. ASSUME NEW q \in tick[w].left, Skip(w), deferred' = [deferred EXCEPT ![K(w)] = Later(@)]
        PROVE  WaitsOn(w, p)'
    <3>1. p # K(w)
      BY <1>0, <2>0, <2>2 DEF TickShape, Alone
    <3>2. deferred'[p] = deferred[p]
      BY <2>2, <3>1 DEF Typed, TypeOK
    <3> QED BY <1>g, <1>s, <2>0, <2>2, <3>1, <3>2
  <2>3. ASSUME NEW q, UNCHANGED deferred,
               \/ tick' = [tick EXCEPT ![w].left = @ \ {q}] /\ tick[w].pc = "group"
               \/ tick' = [tick EXCEPT ![w].pc = "group", ![w].left = @ \ {q}]
        PROVE  WaitsOn(w, p)'
    <3>1. /\ tick'[w].pc = "group" /\ tick'[w].k = tick[w].k /\ tick'[w].at = tick[w].at
          /\ tick'[w].started = tick[w].started /\ tick'[w].left = tick[w].left \ {q}
      <4>1. CASE tick' = [tick EXCEPT ![w].left = @ \ {q}] /\ tick[w].pc = "group"
        BY <1>0, <4>1
      <4>2. CASE tick' = [tick EXCEPT ![w].pc = "group", ![w].left = @ \ {q}]
        BY <1>0, <4>2
      <4> QED BY <2>3, <4>1, <4>2
    <3> QED BY <1>0, <1>g, <2>0, <2>3, <3>1, TurnStays DEF K, Ahead
  <2>4. CASE CheckGroup(w)
    BY <2>1, <2>2, <2>3, <2>4 DEF CheckGroup
  <2>5. CASE ClearMember(w)
    BY <2>3, <2>5 DEF ClearMember
  <2> QED BY <1>5, <2>4, <2>5
<1>6. CASE Gate(w) \/ ClearGate(w)
  <2>0. /\ tick[w].pc \in {"start", "clearGate"} /\ K(w) \in Pipelines
        /\ UNCHANGED <<now, ticked, lastAt>>
    BY <1>6, <1>a DEF Gate, ClearGate, Ahead
  <2>1. ASSUME NEW l \in {"clearGate", "claim"}, tick' = [tick EXCEPT ![w].pc = l],
               UNCHANGED deferred
        PROVE  WaitsOn(w, p)'
    BY <1>l, <2>0, <2>1 DEF Ahead
  <2>2. CASE Skip(w) /\ deferred' = [deferred EXCEPT ![K(w)] = 0]
    BY <1>d, <2>0, <2>2 DEF Ahead
  <2> QED BY <1>6, <2>1, <2>2 DEF Gate, ClearGate
<1>7. CASE StartScheduled(w)
  <2>0. /\ tick[w].pc = "claim" /\ K(w) \in Pipelines /\ UNCHANGED <<now, ticked>>
        /\ deferred' = [deferred EXCEPT ![K(w)] = 0]
    BY <1>7, <1>a DEF StartScheduled, Ahead
  <2>1. (p # K(w) => deferred'[p] = deferred[p]) /\ (p = K(w) => deferred'[p] = 0)
    BY <2>0 DEF Typed, TypeOK
  <2>2. CASE Skip(w) /\ UNCHANGED lastAt
    BY <1>g, <1>s, <2>0, <2>1, <2>2
  <2>3. CASE lastAt' = [lastAt EXCEPT ![K(w)] = ClaimTime(K(w))]
    <3>1. lastAt' = Claimed(w)
      BY <2>3 DEF ClaimTime, Claimed
    <3>2. Grown
      <4>1. now # Never /\ now \in Int
        BY DEF Typed, TypeOK, Time, TickAssumption
      <4> QED BY <2>3, <4>1, WaitTypes DEF Grown, ClaimTime, WaitInv, Typed, TypeOK
    <3>3. CASE Skip(w)
      BY <1>s, <2>0, <2>1, <3>2, <3>3
    <3>4. CASE tick' = [tick EXCEPT ![w].pc = "next", ![w].k = K(w) + 1,
                          ![w].started = @ \cup {K(w)}]
      <4>1. /\ tick'[w].pc = "next" /\ tick'[w].k = K(w) + 1 /\ tick'[w].at = tick[w].at
            /\ tick'[w].started = tick[w].started \cup {K(w)}
        BY <1>0, <3>4
      <4>2. K(w) < p => deferred[p] + 1
                          <= Cardinality(Taken(p, lastAt', now - deferred[p], now))
        BY <1>0, <2>0, <3>1 DEF WaitsOn, Paid, Ahead, Pipelines
      <4> QED BY <1>0, <2>0, <2>1, <3>2, <4>1, <4>2, TurnPasses
    <3> QED BY <1>7, <2>3, <3>3, <3>4 DEF StartScheduled
  <2> QED BY <1>7, <2>2, <2>3 DEF StartScheduled
<1>8. CASE Isolated(w)
  <2>0. /\ tick[w].pc \notin {"idle", "prune"} /\ K(w) \in Pipelines
        /\ UNCHANGED <<now, ticked, lastAt>> /\ Skip(w)
        /\ deferred' = [deferred EXCEPT ![K(w)] = 0]
    BY <1>8, <1>a DEF Isolated, Ahead
  <2>1. (p # K(w) => deferred'[p] = deferred[p]) /\ (p = K(w) => deferred'[p] = 0)
    BY <2>0 DEF Typed, TypeOK
  <2> QED BY <1>g, <1>s, <2>0, <2>1
<1>9. CASE Prune(w)
  <2>1. tick'[w] = NoTick /\ ticked' /\ UNCHANGED <<now, lastAt, deferred>> /\ tick[w].pc = "prune"
    BY <1>0, <1>9 DEF Prune
  <2>2. NoTick.pc = "idle" /\ NoTick.started = {}
    BY DEF NoTick
  <2>3. DoneWith(p)' /\ DoneWith(p)
    BY <2>1 DEF DoneWith
  <2> QED BY <1>0, <1>g, <2>1, <2>2, <2>3, TurnRests DEF Ahead
<1> QED BY <1>1, <1>2, <1>3, <1>4, <1>5, <1>6, <1>7, <1>8, <1>9 DEF Worker

LEMMA WorkerShape ==
  ASSUME TickAssumption, Timely, Typed, NEW w \in Workers, TickShape(w), Worker(w)
  PROVE  TickShape(w)'
<1> USE DEF At, TickShape, Active, K
<1>0. /\ tick \in [Workers -> TickRecord] /\ tick[w].started \in SUBSET Pipelines
      /\ tick[w].k \in Nat
  BY TickFields, TickAssumption DEF Typed, TickAssumption
<1>a. tick[w].pc \in Ahead => tick[w].k \in Pipelines
  BY DEF Typed, InLoop
<1>s. ASSUME tick'[w].k = tick[w].k + 1, tick'[w].at = tick[w].at, tick'[w].pc = "next",
             tick'[w].started \subseteq tick[w].started \cup {tick[w].k},
             tick[w].pc # "idle", UNCHANGED <<now, ticked>>
      PROVE  TickShape(w)'
  <2>1. ticked' = FALSE /\ tick'[w].at = now'
    BY <1>s
  <2>2. ASSUME NEW q \in tick'[w].started PROVE q < tick'[w].k
    <3>1. q \in Int /\ (q = tick[w].k \/ q < tick[w].k)
      BY <1>0, <1>s, TickAssumption DEF Pipelines, TickAssumption
    <3> QED BY <1>0, <1>s, <3>1
  <2> QED BY <1>s, <2>1, <2>2
<1>g. ASSUME tick'[w].k = tick[w].k, tick'[w].at = tick[w].at,
             tick'[w].started = tick[w].started, tick[w].pc # "idle",
             UNCHANGED <<now, ticked>>,
             tick'[w].pc \in {"group", "clearMember"} =>
               Group[tick[w].k] # NoGroup /\ tick'[w].left \subseteq Others(tick[w].k)
      PROVE  TickShape(w)'
  BY <1>0, <1>g DEF Others
<1>k. ASSUME Skip(w), tick[w].pc # "idle", UNCHANGED <<now, ticked>> PROVE TickShape(w)'
  BY <1>0, <1>k, <1>s DEF Skip
<1>1. CASE TickBegin(w)
  <2> DEFINE t == [NoTick EXCEPT !.pc = "next", !.at = now]
  <2>1. tick'[w] = t /\ UNCHANGED <<now, ticked>> /\ ~ticked
    BY <1>0, <1>1 DEF TickBegin
  <2>2. t.pc = "next" /\ t.started = {} /\ t.at = now
    BY DEF NoTick
  <2> HIDE DEF t
  <2> QED BY <2>1, <2>2
<1>2. CASE Consider(w)
  <2>0. tick[w].pc = "next" /\ UNCHANGED <<now, ticked>>
    BY <1>2 DEF Consider
  <2>1. CASE tick' = [tick EXCEPT ![w].pc = "busy"]
    BY <1>0, <1>g, <2>0, <2>1
  <2>2. CASE tick' = [tick EXCEPT ![w].k = @ + 1]
    BY <1>0, <1>s, <2>0, <2>2
  <2> QED BY <1>2, <2>1, <2>2 DEF Consider
<1>3. CASE EndLoop(w)
  BY <1>0, <1>g, <1>3 DEF EndLoop
<1>l. ASSUME NEW l \in Ahead \ {"group", "clearMember"}, tick' = [tick EXCEPT ![w].pc = l],
             tick[w].pc # "idle", UNCHANGED <<now, ticked>>
      PROVE  TickShape(w)'
  <2>1. /\ tick'[w].pc = l /\ tick'[w].k = tick[w].k /\ tick'[w].at = tick[w].at
        /\ tick'[w].started = tick[w].started
    BY <1>0, <1>l
  <2> QED BY <1>g, <1>l, <2>1
<1>4. CASE CheckBusy(w) \/ ClearOwn(w)
  <2>0. tick[w].pc \in {"busy", "clear"} /\ UNCHANGED <<now, ticked>>
    BY <1>4 DEF CheckBusy, ClearOwn
  <2>1. ASSUME NEW l \in {"clear", "start"}, tick' = [tick EXCEPT ![w].pc = l]
        PROVE  TickShape(w)'
    BY <1>l, <2>0, <2>1 DEF Ahead
  <2>2. CASE /\ Group[K(w)] # NoGroup
             /\ tick' = [tick EXCEPT ![w].pc = "group", ![w].left = Others(K(w))]
    BY <1>0, <1>g, <2>0, <2>2
  <2>3. CASE GoOn(w)
    BY <1>k, <2>0, <2>1, <2>2, <2>3 DEF GoOn
  <2> QED BY <1>k, <1>4, <2>0, <2>1, <2>3 DEF CheckBusy, ClearOwn
<1>5. CASE CheckGroup(w) \/ ClearMember(w)
  <2>0. tick[w].pc \in {"group", "clearMember"} /\ UNCHANGED <<now, ticked>>
    BY <1>5 DEF CheckGroup, ClearMember
  <2>1. CASE tick' = [tick EXCEPT ![w].pc = "start"]
    BY <1>l, <2>0, <2>1 DEF Ahead
  <2>2. ASSUME NEW q, \/ tick' = [tick EXCEPT ![w].left = @ \ {q}]
                      \/ tick' = [tick EXCEPT ![w].pc = "group", ![w].left = @ \ {q}]
        PROVE  TickShape(w)'
    <3>1. /\ tick'[w].pc \in {"group", "clearMember"}
          /\ tick'[w].k = tick[w].k /\ tick'[w].at = tick[w].at
          /\ tick'[w].started = tick[w].started /\ tick'[w].left = tick[w].left \ {q}
      <4>1. CASE tick' = [tick EXCEPT ![w].left = @ \ {q}]
        BY <1>0, <2>0, <4>1
      <4>2. CASE tick' = [tick EXCEPT ![w].pc = "group", ![w].left = @ \ {q}]
        BY <1>0, <4>2
      <4> QED BY <2>2, <4>1, <4>2
    <3> QED BY <1>g, <2>0, <3>1
  <2>3. CASE tick' = [tick EXCEPT ![w].pc = "clearMember"]
    <3>1. /\ tick'[w].k = tick[w].k /\ tick'[w].at = tick[w].at
          /\ tick'[w].started = tick[w].started /\ tick'[w].left = tick[w].left
      BY <1>0, <2>3
    <3> QED BY <1>g, <2>0, <3>1
  <2>4. CASE CheckGroup(w)
    BY <1>k, <2>0, <2>1, <2>2, <2>3, <2>4 DEF CheckGroup
  <2>5. CASE ClearMember(w)
    BY <2>2, <2>5 DEF ClearMember
  <2> QED BY <1>5, <2>4, <2>5
<1>6. CASE Gate(w) \/ ClearGate(w)
  <2>0. tick[w].pc \in {"start", "clearGate"} /\ UNCHANGED <<now, ticked>>
    BY <1>6 DEF Gate, ClearGate
  <2>1. ASSUME NEW l \in {"clearGate", "claim"}, tick' = [tick EXCEPT ![w].pc = l]
        PROVE  TickShape(w)'
    BY <1>l, <2>0, <2>1 DEF Ahead
  <2> QED BY <1>k, <1>6, <2>0, <2>1 DEF Gate, ClearGate
<1>7. CASE StartScheduled(w)
  <2>0. tick[w].pc = "claim" /\ UNCHANGED <<now, ticked>>
    BY <1>7 DEF StartScheduled
  <2>1. CASE tick' = [tick EXCEPT ![w].pc = "next", ![w].k = K(w) + 1,
                        ![w].started = @ \cup {K(w)}]
    BY <1>0, <1>s, <2>0, <2>1
  <2> QED BY <1>k, <1>7, <2>0, <2>1 DEF StartScheduled
<1>8. CASE Isolated(w)
  BY <1>k, <1>8 DEF Isolated, Ahead
<1>9. CASE Prune(w)
  BY <1>0, <1>9 DEF Prune, NoTick
<1> QED BY <1>1, <1>2, <1>3, <1>4, <1>5, <1>6, <1>7, <1>8, <1>9 DEF Worker

LEMMA LastKept ==
  ASSUME TickAssumption, Typed, Typed', [Next]_vars,
         \A q \in Pipelines : lastAt[q] # Never => lastAt[q] <= now
  PROVE  /\ Grown /\ now <= now'
         /\ \A q \in Pipelines : lastAt'[q] # Never => lastAt'[q] <= now'
<1>0. now \in Int /\ now # Never /\ lastAt \in [Pipelines -> Int \cup {Never}]
  BY DEF Typed, TypeOK, Time, TickAssumption
<1>1. UNCHANGED <<lastAt, now>> \/ (now' = now + 1 /\ UNCHANGED lastAt)
        \/ (UNCHANGED now /\ \E q \in Pipelines : lastAt' = [lastAt EXCEPT ![q] = now])
  <2>1. ASSUME NEW w \in Workers, StartScheduled(w)
        PROVE  UNCHANGED now /\ (UNCHANGED lastAt
                 \/ \E q \in Pipelines : lastAt' = [lastAt EXCEPT ![q] = now])
    BY <2>1 DEF StartScheduled, ClaimTime, Typed, InLoop, At, Ahead
  <2>2. ASSUME NEW w \in Workers, Worker(w), ~StartScheduled(w)
        PROVE  UNCHANGED <<lastAt, now>>
    BY <2>2 DEF Worker, TickBegin, Consider, EndLoop, CheckBusy, ClearOwn, CheckGroup,
                ClearMember, Gate, ClearGate, Isolated, Prune
  <2>3. ASSUME NEW p \in Pipelines, Beside(p)
        PROVE  UNCHANGED now /\ (UNCHANGED lastAt
                 \/ \E q \in Pipelines : lastAt' = [lastAt EXCEPT ![q] = now])
    BY <2>3 DEF Beside, StartManual, SetEnabled, RunEnds, LostRunEnds, FindOver, ClearLate
  <2>4. CASE Advance
    BY <2>4 DEF Advance
  <2>5. CASE UNCHANGED vars
    BY <2>5 DEF vars
  <2> QED BY <2>1, <2>2, <2>3, <2>4, <2>5 DEF Next, Beside
<1>2. CASE UNCHANGED <<lastAt, now>>
  BY <1>0, <1>2 DEF Grown
<1>3. CASE now' = now + 1 /\ UNCHANGED lastAt
  BY <1>0, <1>3 DEF Grown
<1>4. ASSUME UNCHANGED now, NEW q \in Pipelines, lastAt' = [lastAt EXCEPT ![q] = now]
      PROVE  /\ Grown /\ now <= now'
             /\ \A r \in Pipelines : lastAt'[r] # Never => lastAt'[r] <= now'
  BY <1>0, <1>4 DEF Grown
<1> QED BY <1>1, <1>2, <1>3, <1>4

LEMMA NextWaits ==
  ASSUME TickAssumption, Solo, Timely, Typed, WaitInv, [Next]_vars
  PROVE  WaitInv'
<1>0. Typed'
  BY NextTyped
<1>1. /\ Grown /\ now <= now'
      /\ \A q \in Pipelines : lastAt'[q] # Never => lastAt'[q] <= now'
  BY <1>0, LastKept DEF WaitInv
<1>2. /\ \A w \in Workers : TickShape(w)
      /\ \A p \in Pipelines : Alone(p) => Waited(p) /\ \A w \in Workers : Paid(w, p)
  BY DEF WaitInv
<1>3. ASSUME NEW w \in Workers, Worker(w) PROVE WaitInv'
  <2>1. \A v \in Workers : v = w
    BY DEF Solo
  <2>2. TickShape(w)'
    BY <1>2, <1>3, WorkerShape
  <2>3. \A p \in Pipelines : Alone(p) => WaitsOn(w, p)'
    BY <1>0, <1>3, WorkerWaits
  <2> QED BY <1>1, <2>1, <2>2, <2>3 DEF WaitInv, WaitsOn
<1>4. CASE UNCHANGED <<tick, ticked, deferred, now>>
  <2>1. \A w \in Workers : TickShape(w)'
    BY <1>2, <1>4 DEF TickShape, Active, K, Others
  <2>2. ASSUME NEW p \in Pipelines, Alone(p) PROVE Waited(p)' /\ \A w \in Workers : Paid(w, p)'
    <3>1. DoneWith(p)' <=> DoneWith(p)
      BY <1>4 DEF DoneWith, Active, K
    <3>2. Waited(p)'
      BY <1>0, <1>1, <1>2, <1>4, <2>2, <3>1, WaitGoesOn
    <3>3. ASSUME NEW w \in Workers PROVE Paid(w, p)'
      <4>1. K(w) \in Pipelines \/ tick'[w].pc \notin Ahead
        BY <1>4 DEF Typed, InLoop, K
      <4>2. WaitsOn(w, p)'
        BY <1>0, <1>1, <1>2, <1>4, <2>2, <4>1, TurnStays DEF WaitsOn, K
      <4> QED BY <4>2 DEF WaitsOn
    <3> QED BY <3>2, <3>3
  <2> QED BY <1>1, <2>1, <2>2 DEF WaitInv
<1>5. CASE Advance
  <2>1. ticked /\ ticked' = FALSE /\ UNCHANGED <<tick, deferred, lastAt>> /\ now' = now + 1
    BY <1>5 DEF Advance
  <2>2. \A w \in Workers : tick[w].pc = "idle"
    BY <1>2, <2>1 DEF TickShape, Active
  <2>3. \A w \in Workers : TickShape(w)'
    BY <2>1, <2>2 DEF TickShape, Active
  <2>4. ASSUME NEW p \in Pipelines, Alone(p) PROVE Waited(p)' /\ \A w \in Workers : Paid(w, p)'
    <3>1. DoneWith(p) /\ ~DoneWith(p)'
      BY <2>1, <2>2 DEF DoneWith, Active
    <3>2. Waited(p)'
      BY <1>0, <1>1, <1>2, <2>1, <2>4, <3>1, WaitGoesOn
    <3>3. \A w \in Workers : Paid(w, p)'
      BY <2>1, <2>2 DEF Paid
    <3> QED BY <3>2, <3>3
  <2> QED BY <1>1, <2>3, <2>4 DEF WaitInv
<1> QED BY <1>3, <1>4, <1>5 DEF Next, vars, StartManual, SetEnabled, RunEnds, LostRunEnds,
                               FindOver, ClearLate

LEMMA InitWaits ==
  ASSUME TickAssumption, Init
  PROVE  WaitInv
<1>1. \A w \in Workers : tick[w].pc = "idle" /\ tick[w] = NoTick
  BY DEF Init, NoTick
<1>2. \A w \in Workers : TickShape(w)
  BY <1>1 DEF TickShape, Active
<1>3. ASSUME NEW p \in Pipelines PROVE Waited(p) /\ \A w \in Workers : Paid(w, p)
  <2>1. ~DoneWith(p)
    BY <1>1 DEF DoneWith, Active, Init
  <2>2. PICK last : last = lastAt
    OBVIOUS
  <2>3. Cardinality(Taken(p, last, 0, 0)) \in Nat
    BY TakenFinite
  <2>4. Since(p) = 0 /\ deferred[p] = 0 /\ now = 0
    BY <2>1 DEF Since, Init
  <2>5. 0 <= 2 * (p - 1)
    BY DEF Pipelines, TickAssumption
  <2>6. Waited(p)
    BY <2>2, <2>3, <2>4, <2>5 DEF Waited
  <2> QED BY <1>1, <2>6 DEF Paid
<1> QED BY <1>2, <1>3 DEF WaitInv, Init

(***************************************************************************)
(* With one timer, ticks in time and any cap, the tick passes over a due   *)
(* pipeline outside the contention groups at most once for each slot of a  *)
(* pipeline before it that the wait meets, whatever is started by hand or  *)
(* fails meanwhile; twice for each of them if they come back no sooner     *)
(* than that.                                                              *)
(***************************************************************************)
THEOREM WaitsAreBounded ==
  ASSUME Solo, Timely
  PROVE  Spec => []WaitBounded
<1>1. Init => Typed /\ WaitInv
  BY InitTyped, InitWaits, TickAssumption
<1>2. Typed /\ WaitInv /\ [Next]_vars => (Typed /\ WaitInv)'
  BY NextTyped, NextWaits, TickAssumption
<1>3. Typed /\ WaitInv => WaitBounded
  <2> SUFFICES ASSUME Typed, WaitInv, NEW p \in Pipelines, Alone(p)
               PROVE  /\ deferred[p] <= Cardinality(SlotsIn(p, now - deferred[p], now))
                      /\ Spaced(p) => deferred[p] <= 2 * (p - 1)
    BY DEF WaitBounded
  <2>1. Waited(p)
    BY DEF WaitInv
  <2>2. PICK b : b = Since(p)
    OBVIOUS
  <2>3. PICK c : c = now - deferred[p]
    OBVIOUS
  <2>4. PICK t : t = now
    OBVIOUS
  <2>5. PICK last : last = lastAt
    OBVIOUS
  <2>6. b \in Int /\ c \in Int /\ t \in Int /\ c <= b /\ t <= t /\ deferred[p] \in Nat
    BY <2>2, <2>3, <2>4, WaitTypes, TickAssumption DEF Since
  <2>7. Cardinality(SlotsIn(p, b, t)) <= Cardinality(SlotsIn(p, c, t))
    BY <2>6, SlotsGrow, TickAssumption
  <2>8. /\ Cardinality(Taken(p, last, b, t)) <= Cardinality(SlotsIn(p, b, t))
        /\ Cardinality(Taken(p, last, b, t)) \in Nat
        /\ Cardinality(SlotsIn(p, b, t)) \in Nat
    BY <2>6, TakenFinite, TickAssumption
  <2>9. Cardinality(SlotsIn(p, c, t)) \in Nat
    BY <2>6, TakenFinite, TickAssumption
  <2>10. deferred[p] <= Cardinality(Taken(p, last, b, t))
    BY <2>1, <2>2, <2>4, <2>5 DEF Waited
  <2>11. deferred[p] <= Cardinality(SlotsIn(p, c, t))
    BY <2>6, <2>7, <2>8, <2>9, <2>10
  <2> QED BY <2>1, <2>3, <2>4, <2>11 DEF Waited
<1> QED BY <1>1, <1>2, <1>3, PTL DEF Spec

===============================================================================
