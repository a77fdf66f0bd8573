--------------------------- MODULE ActivityLogProofs ---------------------------
(***************************************************************************)
(* Theorems of ActivityLog, for any subscriptions, operations, events,     *)
(* settings and slots: types, spilled payloads, what coverage claims, and  *)
(* the life of an operation whose events come together.                    *)
(***************************************************************************)
EXTENDS ActivityLog, FiniteSetTheorems, TLAPS

LEMMA LogNumbers ==
  /\ Lag \in Nat /\ Overlap \in Nat /\ Historical \in Nat /\ Retention \in Nat
  /\ Horizon \in Nat /\ MaxUnits \in Nat /\ Delay \in Nat /\ MaxTime \in Nat
  /\ MaxVersion \in Nat /\ MaxVersion >= 1 /\ MaxFails \in Nat
  /\ Delay <= Lag + Overlap /\ Overlap <= Retention
  BY LogAssumption

LEMMA EventFacts ==
  ASSUME NEW e \in Events
  PROVE  /\ e.op \in Ops /\ e.rank \in Nat /\ e.at \in Nat /\ e.status \in Status
         /\ e.big \in BOOLEAN /\ e.opaque \in BOOLEAN
         /\ e.op.sub \in Subs /\ e.op.since \in Nat /\ e.op.retains \in BOOLEAN
  BY LogAssumption

\* Among some events one is the latest (Events is finite)
LEMMA LatestIn ==
  ASSUME NEW S \in SUBSET Events, S # {}
  PROVE  Latest(S) \in S
<1> DEFINE After(e) == {f \in S : f.rank > e.rank}
           All == {After(e) : e \in S}
<1>1. FiniteSubsetsOf(S) = SUBSET S
  BY LogAssumption, FS_Subset, FS_FiniteSubsetsOfFinite
<1>2. IsWellFoundedOn(StrictSubsetOrdering(S), SUBSET S)
  BY <1>1, FS_StrictSubsetOrderingWellFounded
<1>3. All \subseteq SUBSET S /\ All # {}
  OBVIOUS
<1>4. PICK T \in All : \A U \in All : <<U, T>> \notin StrictSubsetOrdering(S)
  <2> HIDE DEF All
  <2> QED BY <1>2, <1>3, WFMin
<1>5. PICK e \in S : T = After(e)
  BY <1>4
<1>6. \A f \in S : f.rank \in Nat
  BY EventFacts
<1>7. \A f \in S : f.rank <= e.rank
  <2> SUFFICES ASSUME NEW f \in S, ~(f.rank <= e.rank) PROVE FALSE
    OBVIOUS
  <2>1. f \in After(e) /\ f \notin After(f) /\ After(f) \subseteq After(e)
    BY <1>6
  <2>2. After(f) \in SUBSET S /\ After(e) \in SUBSET S
    OBVIOUS
  <2>3. After(f) \in All
    OBVIOUS
  <2> HIDE DEF After, All
  <2>4. <<After(f), After(e)>> \in StrictSubsetOrdering(S)
    BY <2>1, <2>2 DEF StrictSubsetOrdering
  <2> QED BY <1>4, <1>5, <2>3, <2>4
<1> QED BY <1>7 DEF Latest

-----------------------------------------------------------------------------
(***************************************************************************)
(* Types.                                                                  *)
(***************************************************************************)
\* The rows of a batch are rows of their operations
RowOK(o, row) == row \in Row /\ row.events \subseteq EventsOf(o) /\ row.applied \in row.events
BatchOK(batch) == \A o \in Ops : batch[o] # NoRow => RowOK(o, batch[o])

UnitOK(unit) ==
  /\ unit \in Unit /\ BatchOK(unit.batch)
  /\ unit.place \in {"fetch", "commit"} => unit.work = "page"
  /\ unit.place = "replay" => unit.work = "replay"
  /\ unit.place = "done" => unit.batch = Empty

LogTypes == TypeOK /\ \A u \in Slots : Active(u) => UnitOK(units[u])

\* What a plan says of a unit, and what of it no activity changes
Kin(a, b) == a.work = b.work /\ a.orphan = b.orphan
Plan(unit) == <<unit.sub, unit.start, unit.end, unit.from, unit.version, unit.due, unit.skips>>
SamePlan(a, b) == Kin(a, b) /\ Plan(a) = Plan(b)

Same(a, b) ==
  SamePlan(a, b) /\ a.returned = b.returned /\ a.page = b.page /\ a.last = b.last

LEMMA RowIsSome == \A row \in Row : row # NoRow
<1>1. 1 .. MaxVersion \subseteq Nat /\ 0 .. MaxTime \subseteq Nat
  BY LogNumbers
<1>2. Row \subseteq [events : SUBSET Events, outcome : Terminal \cup {"pending", "unknown"},
                     applied : Events, version : Nat, flagged : BOOLEAN, first : Nat,
                     final : Nat \cup {None}]
  BY <1>1 DEF Row
<1> QED BY <1>2, LogAssumption

LEMMA OutcomeIn ==
  ASSUME NEW S \in SUBSET Events
  PROVE  Outcome(S) \in Terminal \cup {"pending"}
<1>1. CASE Having(S, Terminal) = {}
  BY <1>1 DEF Outcome
<1>2. CASE Having(S, Terminal) # {}
  <2>1. Having(S, Terminal) \in SUBSET Events
    BY DEF Having
  <2>2. Latest(Having(S, Terminal)) \in Having(S, Terminal)
    BY <1>2, <2>1, LatestIn
  <2> QED BY <1>2, <2>2 DEF Outcome, Having
<1> QED BY <1>1, <1>2

LEMMA AppliedIn ==
  ASSUME NEW S \in SUBSET Events, S # {}
  PROVE  Applied(S) \in S
<1>1. Having(S, {"accepted"}) \in SUBSET Events
  BY DEF Having
<1>2. CASE Having(S, {"accepted"}) = {}
  BY <1>2, LatestIn DEF Applied
<1>3. CASE Having(S, {"accepted"}) # {}
  <2>1. Latest(Having(S, {"accepted"})) \in Having(S, {"accepted"})
    BY <1>1, <1>3, LatestIn
  <2> QED BY <1>3, <2>1 DEF Applied, Having
<1> QED BY <1>2, <1>3

\* What _build_entity makes of events, an outcome and the payload among them
LEMMA BuiltOK ==
  ASSUME LogTypes, NEW o \in Ops, NEW S \in SUBSET EventsOf(o), NEW applied \in S,
         NEW outcome \in Terminal \cup {"pending", "unknown"}, NEW flagged \in BOOLEAN
  PROVE  /\ RowOK(o, Built(S, outcome, applied, flagged))
         /\ Built(S, outcome, applied, flagged).outcome = outcome
         /\ Built(S, outcome, applied, flagged).applied = applied
<1>1. now \in 0 .. MaxTime /\ version \in 1 .. MaxVersion
  BY DEF LogTypes, TypeOK
<1>2. S \subseteq Events /\ applied \in Events
  BY DEF EventsOf
<1> QED BY <1>1, <1>2 DEF Built, RowOK, Row

LEMMA AssembledOK ==
  ASSUME LogTypes, NEW o \in Ops, NEW S \in SUBSET EventsOf(o), S # {}
  PROVE  RowOK(o, Assembled(S)) /\ Assembled(S).outcome = Outcome(S)
<1>1. S \in SUBSET Events
  BY DEF EventsOf
<1>2. PICK applied \in S, outcome \in Terminal \cup {"pending", "unknown"}, flagged \in BOOLEAN :
        applied = Applied(S) /\ outcome = Outcome(S) /\ flagged = (\E e \in S : e.opaque)
  BY <1>1, AppliedIn, OutcomeIn
<1>3. Assembled(S) = Built(S, outcome, applied, flagged)
  BY <1>2 DEF Assembled
<1>4. /\ RowOK(o, Built(S, outcome, applied, flagged))
      /\ Built(S, outcome, applied, flagged).outcome = outcome
  BY BuiltOK
<1> QED BY <1>2, <1>3, <1>4

LEMMA OperationsOK ==
  ASSUME LogTypes, NEW page \in SUBSET Events
  PROVE  /\ Operations(page) \in [Ops -> Row \cup {NoRow}] /\ BatchOK(Operations(page))
         /\ \A o \in Ops : Operations(page)[o] # NoRow <=> \E e \in page : e.op = o
         /\ \A o \in Ops : Operations(page)[o] # NoRow =>
              Operations(page)[o].outcome = Outcome({e \in page : e.op = o})
<1>1. ASSUME NEW o \in Ops
      PROVE  IF \E e \in page : e.op = o
             THEN /\ Operations(page)[o] # NoRow /\ RowOK(o, Operations(page)[o])
                  /\ Operations(page)[o].outcome = Outcome({e \in page : e.op = o})
             ELSE Operations(page)[o] = NoRow
  <2>1. CASE \E e \in page : e.op = o
    <3>1. PICK S \in SUBSET EventsOf(o) : S = {e \in page : e.op = o}
      BY DEF EventsOf
    <3>2. S # {}
      BY <2>1, <3>1
    <3>3. Operations(page)[o] = Assembled(S)
      BY <2>1, <3>1 DEF Operations
    <3>4. RowOK(o, Assembled(S)) /\ Assembled(S).outcome = Outcome(S)
      BY <3>2, AssembledOK
    <3> QED BY <2>1, <3>1, <3>3, <3>4, RowIsSome DEF RowOK
  <2>2. CASE ~\E e \in page : e.op = o
    BY <2>2 DEF Operations
  <2> QED BY <2>1, <2>2
<1>2. Operations(page) = [o \in Ops |-> Operations(page)[o]]
  BY DEF Operations
<1>3. \A o \in Ops : Operations(page)[o] \in Row \cup {NoRow}
  BY <1>1 DEF RowOK
<1>4. Operations(page) \in [Ops -> Row \cup {NoRow}]
  BY <1>2, <1>3
<1> QED BY <1>1, <1>4 DEF BatchOK

\* hydrate_operation keeps the events and the payload
LEMMA ReplayedOK ==
  ASSUME LogTypes, NEW o \in Ops, rows[o] # NoRow
  PROVE  /\ RowOK(o, Replayed(rows[o]))
         /\ Replayed(rows[o]).outcome = IF Aged(rows[o]) THEN "unknown" ELSE rows[o].outcome
         /\ Replayed(rows[o]).applied = rows[o].applied
<1>1. PICK row : row = rows[o]
  OBVIOUS
<1>2. /\ row \in Row /\ row.events \subseteq EventsOf(o) /\ row.applied \in row.events
      /\ row.version \in 1 .. MaxVersion
  BY <1>1 DEF LogTypes, TypeOK, Row
<1>3. PICK outcome \in Terminal \cup {"pending", "unknown"} :
        outcome = IF Aged(row) THEN "unknown" ELSE row.outcome
  BY <1>2 DEF Row
<1>4. row.events \in SUBSET EventsOf(o) /\ row.flagged \in BOOLEAN /\ row.applied.opaque \in BOOLEAN
  BY <1>2, EventFacts DEF Row
<1>5. PICK kept : kept = Built(row.events, outcome, row.applied, row.flagged)
  OBVIOUS
<1>6. PICK stale : stale = Built(row.events, outcome, row.applied, row.applied.opaque)
  OBVIOUS
<1>7. /\ RowOK(o, kept) /\ kept.outcome = outcome /\ kept.applied = row.applied
      /\ RowOK(o, stale) /\ stale.outcome = outcome /\ stale.applied = row.applied
  BY <1>2, <1>4, <1>5, <1>6, BuiltOK
<1>8. PICK same : same = [kept EXCEPT !.version = row.version]
  OBVIOUS
<1>9. RowOK(o, same) /\ same.outcome = outcome /\ same.applied = row.applied
  BY <1>2, <1>7, <1>8 DEF RowOK, Row
<1>10. Replayed(row) = IF Stale(row) THEN stale ELSE same
  BY <1>3, <1>5, <1>6, <1>8 DEF Replayed
<1>11. Replayed(row) \in {stale, same}
  BY <1>10
<1>12. RowOK(o, Replayed(row)) /\ Replayed(row).outcome = outcome /\ Replayed(row).applied = row.applied
  BY <1>7, <1>9, <1>11
<1> QED BY <1>1, <1>3, <1>12

LEMMA UpsertedOK ==
  ASSUME NEW o \in Ops, NEW old, old = NoRow \/ RowOK(o, old), NEW new, RowOK(o, new)
  PROVE  /\ RowOK(o, Upserted(old, new)) /\ Upserted(old, new) # NoRow
         /\ Upserted(old, new).applied = new.applied
         /\ Upserted(old, new).outcome = new.outcome
<1>1. CASE old = NoRow
  BY <1>1, RowIsSome DEF Upserted, RowOK
<1>2. CASE old # NoRow
  <2>1. old.first \in 0 .. MaxTime /\ old.final \in (0 .. MaxTime) \cup {None}
        /\ new.final \in (0 .. MaxTime) \cup {None}
    BY <1>2 DEF RowOK, Row
  <2>2. PICK final \in (0 .. MaxTime) \cup {None} :
          final = IF old.final = None THEN new.final ELSE old.final
    BY <2>1
  <2>3. Upserted(old, new) = [new EXCEPT !.first = old.first, !.final = final]
    BY <1>2, <2>2 DEF Upserted
  <2>4. PICK up : up = [new EXCEPT !.first = old.first, !.final = final]
    OBVIOUS
  <2>5. RowOK(o, up) /\ up.applied = new.applied /\ up.outcome = new.outcome
    BY <2>1, <2>4 DEF RowOK, Row
  <2> QED BY <2>3, <2>4, <2>5, RowIsSome DEF RowOK
<1> QED BY <1>1, <1>2


-----------------------------------------------------------------------------
(***************************************************************************)
(* What the actions make of the units.                                     *)
(***************************************************************************)
\* All units but u stay as they are
Others(u) ==
  /\ units' = [v \in Slots |-> units'[v]]
  /\ \A v \in Slots : v # u => units'[v] = units[v]

LEMMA EmptyOK == Empty \in [Ops -> Row \cup {NoRow}] /\ BatchOK(Empty)
                 /\ \A o \in Ops : Empty[o] = NoRow
BY DEF Empty, BatchOK

LEMMA EndedOK ==
  ASSUME NEW unit, UnitOK(unit)
  PROVE  UnitOK(Ended(unit)) /\ Ended(unit).place = "done" /\ Kin(Ended(unit), unit)
<1>1. PICK child : child = Child(unit.sub)
  OBVIOUS
<1>2. child \in Unit /\ child.place = "done" /\ child.batch = Empty
  BY <1>1, EmptyOK, LogNumbers DEF Child, Unit, UnitOK
<1>3. PICK ended : ended = [child EXCEPT !.orphan = unit.orphan, !.work = unit.work]
  OBVIOUS
<1>4. ended \in Unit /\ ended.place = "done" /\ ended.batch = Empty
      /\ ended.work = unit.work /\ ended.orphan = unit.orphan
  BY <1>2, <1>3 DEF Unit, UnitOK
<1>5. Ended(unit) = ended
  BY <1>1, <1>3 DEF Ended
<1>6. UnitOK(ended)
  BY <1>4, EmptyOK DEF UnitOK
<1> QED BY <1>4, <1>5, <1>6 DEF Kin

\* A unit of which one activity changes some fields
LEMMA MovesOne ==
  ASSUME LogTypes, NEW u \in Slots, NEW new, units' = [units EXCEPT ![u] = new]
  PROVE  Others(u) /\ units'[u] = new
BY DEF LogTypes, TypeOK, Others

LEMMA UnitHere ==
  ASSUME LogTypes, NEW u \in Slots, Active(u)
  PROVE  UnitOK(units[u]) /\ units[u] \in Unit
BY DEF LogTypes, UnitOK

LEMMA FetchMoves ==
  ASSUME LogTypes, NEW u \in Slots, FetchPage(u)
  PROVE  /\ Others(u) /\ UnitOK(units'[u]) /\ SamePlan(units'[u], units[u])
         /\ units'[u].returned = units[u].returned
         /\ units'[u].page \subseteq Window(units[u]) /\ Unsplit(units'[u].page)
         /\ units'[u].last =>
              units[u].due \cap Window(units[u]) \subseteq units[u].returned \cup units'[u].page
         /\ units'[u].batch = Operations(units'[u].page)
         /\ units'[u].place = Storing(units'[u].batch, spills)
         /\ units'[u].place \in {"write", "upload"}
<1>1. PICK unit : unit = units[u]
  OBVIOUS
<1>2. unit \in Unit /\ Active(u) /\ unit.place = "fetch" /\ UnitOK(unit)
  BY <1>1, UnitHere DEF FetchPage, At
<1>3. PICK page \in SUBSET (Window(unit) \ unit.returned), last \in BOOLEAN :
        /\ Unsplit(page)
        /\ last => unit.due \cap Window(unit) \subseteq unit.returned \cup page
        /\ units' = [units EXCEPT ![u] = Stores([unit EXCEPT !.page = page, !.last = last],
                                               Operations(page))]
  BY <1>1 DEF FetchPage
<1>4. PICK batch : batch = Operations(page)
  OBVIOUS
<1>5. visible \subseteq Events
  BY DEF LogTypes, TypeOK
<1>6. page \in SUBSET Events /\ page \subseteq Window(unit)
  BY <1>5 DEF Window
<1>7. batch \in [Ops -> Row \cup {NoRow}] /\ BatchOK(batch)
  BY <1>4, <1>6, OperationsOK
<1>8. PICK place : place = Storing(batch, spills)
  OBVIOUS
<1>9. place \in {"write", "upload"}
  BY <1>8 DEF Storing
<1>10. PICK new : new = [unit EXCEPT !.page = page, !.last = last, !.batch = batch, !.place = place]
  OBVIOUS
<1>11. new \in Unit /\ SamePlan(new, unit) /\ new.returned = unit.returned /\ new.page = page
       /\ new.last = last /\ new.batch = batch /\ new.place = place /\ new.work = unit.work
  BY <1>2, <1>6, <1>7, <1>9, <1>10 DEF Unit, SamePlan, Plan, Kin
<1>12. UnitOK(new)
  BY <1>2, <1>7, <1>9, <1>11 DEF UnitOK
<1>13. Stores([unit EXCEPT !.page = page, !.last = last], batch) = new
  BY <1>2, <1>8, <1>10 DEF Stores, Unit
<1>14. Others(u) /\ units'[u] = new
  BY <1>3, <1>4, <1>13, MovesOne
<1> QED BY <1>1, <1>3, <1>4, <1>6, <1>8, <1>9, <1>11, <1>12, <1>14

LEMMA UploadMoves ==
  ASSUME LogTypes, NEW u \in Slots, NEW o \in Ops, Upload(u, o)
  PROVE  /\ Others(u) /\ UnitOK(units'[u]) /\ Same(units'[u], units[u])
         /\ units'[u].batch = units[u].batch
         /\ units'[u].place = Storing(units'[u].batch, spills')
         /\ units'[u].place \in {"write", "upload"} /\ units[u].place = "upload"
         /\ spills \subseteq spills' /\ spills' \subseteq Events
<1>1. PICK unit : unit = units[u]
  OBVIOUS
<1>2. unit \in Unit /\ Active(u) /\ unit.place = "upload" /\ UnitOK(unit)
  BY <1>1, UnitHere DEF Upload, At
<1>3. PICK place : place = Storing(unit.batch, spills')
  OBVIOUS
<1>4. place \in {"write", "upload"}
  BY <1>3 DEF Storing
<1>5. PICK new : new = [unit EXCEPT !.place = place]
  OBVIOUS
<1>6. new \in Unit /\ Same(new, unit) /\ new.batch = unit.batch /\ new.place = place
      /\ new.work = unit.work
  BY <1>2, <1>4, <1>5 DEF Unit, Same, SamePlan, Plan, Kin
<1>7. UnitOK(new)
  BY <1>2, <1>4, <1>6 DEF UnitOK
<1>8. units' = [units EXCEPT ![u] = new]
  BY <1>1, <1>3, <1>5 DEF Upload
<1>9. Others(u) /\ units'[u] = new
  BY <1>8, MovesOne
<1>10. unit.batch[o] # NoRow /\ spills' = spills \cup {unit.batch[o].applied}
  BY <1>1 DEF Upload, ToUpload, Spilled
<1>11. unit.batch[o].applied \in Events
  BY <1>2, <1>10 DEF UnitOK, BatchOK, RowOK, Row
<1>12. spills \subseteq Events
  BY DEF LogTypes, TypeOK
<1> QED BY <1>1, <1>2, <1>3, <1>4, <1>6, <1>7, <1>9, <1>10, <1>11, <1>12

LEMMA WriteMoves ==
  ASSUME LogTypes, NEW u \in Slots, NEW o \in Ops, WriteRow(u, o)
  PROVE  /\ Others(u) /\ UnitOK(units'[u]) /\ Same(units'[u], units[u])
         /\ units'[u].batch = [units[u].batch EXCEPT ![o] = NoRow]
         /\ units'[u].place = "write" /\ units[u].place = "write"
         /\ RowOK(o, units[u].batch[o])
         /\ RowOK(o, rows'[o]) /\ rows'[o] # NoRow
         /\ rows'[o].applied = units[u].batch[o].applied
         /\ rows'[o].outcome = units[u].batch[o].outcome
         /\ rows' = [rows EXCEPT ![o] = rows'[o]]
         /\ \A p \in Ops : p # o => rows'[p] = rows[p]
         /\ rows' \in [Ops -> Row \cup {NoRow}]
<1>1. PICK unit : unit = units[u]
  OBVIOUS
<1>2. unit \in Unit /\ Active(u) /\ unit.place = "write" /\ UnitOK(unit) /\ unit.batch[o] # NoRow
  BY <1>1, UnitHere DEF WriteRow, At
<1>3. PICK batch : batch = [unit.batch EXCEPT ![o] = NoRow]
  OBVIOUS
<1>4. unit.batch \in [Ops -> Row \cup {NoRow}] /\ BatchOK(unit.batch)
  BY <1>2 DEF UnitOK, Unit
<1>5. batch \in [Ops -> Row \cup {NoRow}] /\ BatchOK(batch)
  BY <1>3, <1>4 DEF BatchOK
<1>6. PICK new : new = [unit EXCEPT !.batch = batch]
  OBVIOUS
<1>7. new \in Unit /\ Same(new, unit) /\ new.batch = batch /\ new.place = "write"
      /\ new.work = unit.work
  BY <1>2, <1>5, <1>6 DEF Unit, Same, SamePlan, Plan, Kin
<1>8. UnitOK(new)
  BY <1>2, <1>5, <1>7 DEF UnitOK
<1>9. units' = [units EXCEPT ![u] = new]
  BY <1>1, <1>3, <1>6 DEF WriteRow
<1>10. Others(u) /\ units'[u] = new
  BY <1>9, MovesOne
<1>11. RowOK(o, unit.batch[o])
  BY <1>2, <1>4 DEF BatchOK
<1>12. rows \in [Ops -> Row \cup {NoRow}] /\ (rows[o] = NoRow \/ RowOK(o, rows[o]))
  BY DEF LogTypes, TypeOK, RowOK
<1>13. PICK old, more, up : old = rows[o] /\ more = unit.batch[o] /\ up = Upserted(old, more)
  OBVIOUS
<1>14. RowOK(o, Upserted(old, more)) /\ Upserted(old, more) # NoRow
       /\ Upserted(old, more).applied = more.applied /\ Upserted(old, more).outcome = more.outcome
  BY <1>11, <1>12, <1>13, UpsertedOK
<1>15. rows' = [rows EXCEPT ![o] = up]
  BY <1>1, <1>13 DEF WriteRow
<1>16. rows'[o] = up /\ rows' \in [Ops -> Row \cup {NoRow}]
  BY <1>12, <1>13, <1>14, <1>15 DEF RowOK
<1> QED BY <1>1, <1>2, <1>3, <1>7, <1>8, <1>10, <1>11, <1>12, <1>13, <1>14, <1>15, <1>16

LEMMA WrittenMoves ==
  ASSUME LogTypes, NEW u \in Slots, Written(u)
  PROVE  /\ Others(u) /\ UnitOK(units'[u])
         /\ Kin(units'[u], units[u])
         /\ units[u].work = "replay" => units'[u].place = "done"
         /\ units[u].work = "page" =>
              /\ SamePlan(units'[u], units[u])
              /\ units'[u].returned = units[u].returned \cup units[u].page
              /\ units'[u].place = AfterPage(units[u])
         /\ units'[u].place # "write"
         /\ units[u].place = "write" /\ units[u].batch = Empty /\ units'[u].batch = Empty
<1>1. PICK unit : unit = units[u]
  OBVIOUS
<1>2. unit \in Unit /\ Active(u) /\ unit.place = "write" /\ UnitOK(unit) /\ unit.batch = Empty
  BY <1>1, UnitHere DEF Written, At
<1>3. CASE unit.work = "replay"
  <2>1. units' = [units EXCEPT ![u] = Ended(unit)]
    BY <1>1, <1>3 DEF Written
  <2>2. Others(u) /\ units'[u] = Ended(unit)
    BY <2>1, MovesOne
  <2>3. UnitOK(Ended(unit)) /\ Ended(unit).place = "done" /\ Kin(Ended(unit), unit)
    BY <1>2, EndedOK
  <2>4. UnitOK(units'[u]) /\ units'[u].batch = Empty
    BY <2>2, <2>3 DEF UnitOK
  <2> QED BY <1>1, <1>2, <1>3, <2>2, <2>3, <2>4
<1>4. CASE unit.work # "replay"
  <2>1. unit.work = "page"
    BY <1>2, <1>4 DEF Unit
  <2>2. PICK new : new = [unit EXCEPT !.returned = unit.returned \cup unit.page, !.page = {},
                                      !.last = FALSE, !.place = AfterPage(unit)]
    OBVIOUS
  <2>3. AfterPage(unit) \in {"commit", "fetch"}
    BY DEF AfterPage
  <2>4. /\ new \in Unit /\ SamePlan(new, unit) /\ new.returned = unit.returned \cup unit.page
        /\ new.place = AfterPage(unit) /\ new.batch = Empty /\ new.work = "page"
        /\ Kin(new, unit)
    BY <1>2, <2>1, <2>2, <2>3 DEF Unit, SamePlan, Plan, Kin
  <2>5. UnitOK(new)
    BY <2>3, <2>4, EmptyOK DEF UnitOK
  <2>6. units' = [units EXCEPT ![u] = new]
    BY <1>1, <1>4, <2>2 DEF Written
  <2>7. Others(u) /\ units'[u] = new
    BY <2>6, MovesOne
  <2> QED BY <1>1, <1>2, <2>1, <2>3, <2>4, <2>5, <2>7
<1> QED BY <1>3, <1>4

\* Done: what is left of a unit that commits or fails
LEMMA EndMoves ==
  ASSUME LogTypes, NEW u \in Slots, Commit(u) \/ UnitFails(u)
  PROVE  /\ Active(u) /\ Others(u) /\ UnitOK(units'[u]) /\ Kin(units'[u], units[u])
         /\ units'[u].place = "done" /\ units'[u].batch = Empty
<1>1. PICK unit : unit = units[u]
  OBVIOUS
<1>2. Active(u) /\ UnitOK(unit)
  BY <1>1, UnitHere DEF Commit, UnitFails, Working, At
<1>3. units' = [units EXCEPT ![u] = Ended(unit)]
  BY <1>1 DEF Commit, UnitFails
<1>4. Others(u) /\ units'[u] = Ended(unit)
  BY <1>3, MovesOne
<1>5. UnitOK(Ended(unit)) /\ Ended(unit).place = "done" /\ Kin(Ended(unit), unit)
  BY <1>2, EndedOK
<1>6. Ended(unit).batch = Empty
  BY <1>5 DEF UnitOK
<1> QED BY <1>1, <1>2, <1>4, <1>5, <1>6

LEMMA AgainMoves ==
  ASSUME LogTypes, NEW u \in Slots, Redelivered(u)
  PROVE  /\ Active(u) /\ Others(u) /\ UnitOK(units'[u]) /\ SamePlan(units'[u], units[u])
         /\ units[u].place # "done" /\ units'[u].place \in {"fetch", "replay"}
         /\ units'[u].returned = units[u].returned /\ units'[u].batch = Empty
<1>1. PICK unit : unit = units[u]
  OBVIOUS
<1>2. Active(u) /\ unit \in Unit /\ UnitOK(unit) /\ unit.place # "done"
  BY <1>1, UnitHere DEF Redelivered, Working
<1>3. PICK place \in {"fetch", "replay"} : place = IF unit.work = "page" THEN "fetch" ELSE "replay"
  OBVIOUS
<1>4. PICK new : new = [unit EXCEPT !.place = place, !.batch = Empty, !.page = {}, !.last = FALSE]
  OBVIOUS
<1>5. /\ new \in Unit /\ SamePlan(new, unit) /\ new.place = place /\ new.batch = Empty
      /\ new.returned = unit.returned /\ new.work = unit.work
  BY <1>2, <1>3, <1>4, EmptyOK DEF Unit, SamePlan, Plan, Kin
<1>6. UnitOK(new)
  BY <1>2, <1>3, <1>5, EmptyOK DEF UnitOK, Unit
<1>7. units' = [units EXCEPT ![u] = new]
  BY <1>1, <1>3, <1>4 DEF Redelivered
<1>8. Others(u) /\ units'[u] = new
  BY <1>7, MovesOne
<1> QED BY <1>1, <1>2, <1>3, <1>5, <1>6, <1>8

LEMMA HydrateMoves ==
  ASSUME LogTypes, NEW u \in Slots, Hydrate(u)
  PROVE  /\ Active(u) /\ Others(u) /\ UnitOK(units'[u]) /\ Kin(units'[u], units[u])
         /\ units[u].work = "replay"
         /\ units'[u].place \in {"done", "write", "upload"}
         /\ units'[u].place # "done" => units'[u].place = Storing(units'[u].batch, spills)
         /\ \A o \in Ops : units'[u].batch[o] # NoRow =>
              rows[o] # NoRow /\ units'[u].batch[o].outcome \in {"unknown", rows[o].outcome}
         /\ \A o \in Ops : units'[u].batch[o] # NoRow /\ units'[u].batch[o].outcome = "unknown" =>
              rows[o].outcome \in {"pending", "unknown"}
<1>1. PICK unit : unit = units[u]
  OBVIOUS
<1>2. Active(u) /\ unit \in Unit /\ UnitOK(unit) /\ unit.place = "replay" /\ unit.work = "replay"
  BY <1>1, UnitHere DEF Hydrate, At, UnitOK
<1>3. PICK targets : targets = Targets(unit.sub)
  OBVIOUS
<1>4. targets \subseteq Ops /\ \A o \in targets : rows[o] # NoRow
  BY <1>3 DEF Targets, NeedsReplay
<1>5. CASE units' = [units EXCEPT ![u] = Ended(unit)]
  <2>1. Others(u) /\ units'[u] = Ended(unit)
    BY <1>5, MovesOne
  <2>2. UnitOK(Ended(unit)) /\ Ended(unit).place = "done" /\ Kin(Ended(unit), unit)
    BY <1>2, EndedOK
  <2>3. Ended(unit).batch = Empty
    BY <2>2 DEF UnitOK
  <2> QED BY <1>1, <1>2, <2>1, <2>2, <2>3, EmptyOK
<1>6. CASE units' = [units EXCEPT ![u] = Stores(unit, [o \in Ops |->
                       IF o \in targets THEN Replayed(rows[o]) ELSE NoRow])]
  <2>1. PICK batch : batch = [o \in Ops |-> IF o \in targets THEN Replayed(rows[o]) ELSE NoRow]
    OBVIOUS
  <2>2. ASSUME NEW o \in Ops, batch[o] # NoRow
        PROVE  /\ rows[o] # NoRow /\ RowOK(o, batch[o])
               /\ batch[o].outcome = IF Aged(rows[o]) THEN "unknown" ELSE rows[o].outcome
    <3>1. o \in targets /\ batch[o] = Replayed(rows[o])
      BY <2>1, <2>2
    <3>2. rows[o] # NoRow
      BY <1>4, <3>1
    <3> QED BY <3>1, <3>2, ReplayedOK
  <2>3. batch \in [Ops -> Row \cup {NoRow}] /\ BatchOK(batch)
    <3>1. \A o \in Ops : batch[o] \in Row \cup {NoRow}
      BY <2>2 DEF RowOK
    <3> QED BY <2>1, <2>2, <3>1 DEF BatchOK
  <2>4. PICK place : place = Storing(batch, spills)
    OBVIOUS
  <2>5. place \in {"write", "upload"}
    BY <2>4 DEF Storing
  <2>6. PICK new : new = [unit EXCEPT !.batch = batch, !.place = place]
    OBVIOUS
  <2>7. new \in Unit /\ Kin(new, unit) /\ new.batch = batch /\ new.place = place
    BY <1>2, <2>3, <2>5, <2>6 DEF Unit, Kin
  <2>8. UnitOK(new)
    BY <1>2, <2>3, <2>5, <2>7 DEF UnitOK
  <2>9. units' = [units EXCEPT ![u] = new]
    BY <1>6, <2>1, <2>4, <2>6 DEF Stores
  <2>10. Others(u) /\ units'[u] = new
    BY <2>9, MovesOne
  <2>11. ASSUME NEW o \in Ops, batch[o] # NoRow
         PROVE  /\ batch[o].outcome \in {"unknown", rows[o].outcome}
                /\ batch[o].outcome = "unknown" => rows[o].outcome \in {"pending", "unknown"}
    <3>1. batch[o].outcome = IF Aged(rows[o]) THEN "unknown" ELSE rows[o].outcome
      BY <2>2, <2>11
    <3>2. Aged(rows[o]) => rows[o].outcome = "pending"
      BY DEF Aged
    <3> QED BY <3>1, <3>2
  <2> QED BY <1>1, <1>2, <2>2, <2>4, <2>5, <2>7, <2>8, <2>10, <2>11
<1> QED BY <1>1, <1>3, <1>5, <1>6 DEF Hydrate

\* A raising child ends its orchestration; the children at work go on as orphans
LEMMA RaiseMoves ==
  ASSUME LogTypes, NEW u \in Slots, Raises(u)
  PROVE  /\ units' = [v \in Slots |-> units'[v]]
         /\ \A v \in Slots : units'[v] # NoUnit =>
              /\ Active(v) /\ UnitOK(units'[v])
              /\ units'[v] = units[v] \/ units'[v] = [units[v] EXCEPT !.orphan = TRUE]
<1>1. /\ units' = [v \in Slots |-> units'[v]]
      /\ \A v \in Slots : units'[v] # NoUnit =>
           /\ Active(v)
           /\ units'[v] = units[v] \/ units'[v] = [units[v] EXCEPT !.orphan = TRUE]
  BY DEF Raises, Own, Active
<1>2. ASSUME NEW v \in Slots, units'[v] # NoUnit
      PROVE  UnitOK(units'[v])
  <2>1. PICK unit : unit = units[v]
    OBVIOUS
  <2>2. UnitOK(unit) /\ unit \in Unit
    BY <1>1, <1>2, <2>1, UnitHere
  <2>3. PICK new : new = [unit EXCEPT !.orphan = TRUE]
    OBVIOUS
  <2>4. UnitOK(new)
    BY <2>2, <2>3 DEF UnitOK, Unit
  <2> QED BY <1>1, <1>2, <2>1, <2>2, <2>3, <2>4
<1> QED BY <1>1, <1>2

\* Children that are over take up the replay
LEMMA ReplayMoves ==
  ASSUME LogTypes, StartReplay
  PROVE  /\ units' = [v \in Slots |-> units'[v]]
         /\ \A v \in Slots : units'[v] # NoUnit =>
              /\ Active(v) /\ UnitOK(units'[v])
              /\ \/ units'[v] = units[v] /\ units[v].orphan
                 \/ /\ units'[v].work = "replay" /\ units'[v].place = "replay"
                    /\ ~units'[v].orphan /\ units'[v].batch = Empty
<1>1. /\ units' = [v \in Slots |-> units'[v]]
      /\ \A v \in Slots : Own(v) => units[v].place = "done"
      /\ \A v \in Slots : units'[v] = IF Own(v) THEN [units[v] EXCEPT !.work = "replay", !.place = "replay"]
                                      ELSE units[v]
  BY DEF StartReplay, AllDone
<1>2. ASSUME NEW v \in Slots, units'[v] # NoUnit
      PROVE  /\ Active(v) /\ UnitOK(units'[v])
             /\ \/ units'[v] = units[v] /\ units[v].orphan
                \/ /\ units'[v].work = "replay" /\ units'[v].place = "replay"
                   /\ ~units'[v].orphan /\ units'[v].batch = Empty
  <2>1. Active(v)
    BY <1>1, <1>2 DEF Own, Active
  <2>2. PICK unit : unit = units[v]
    OBVIOUS
  <2>3. UnitOK(unit) /\ unit \in Unit
    BY <2>1, <2>2, UnitHere
  <2>4. CASE Own(v)
    <3>1. unit.place = "done" /\ ~unit.orphan
      BY <1>1, <2>2, <2>4 DEF Own
    <3>2. PICK new : new = [unit EXCEPT !.work = "replay", !.place = "replay"]
      OBVIOUS
    <3>3. /\ new \in Unit /\ new.work = "replay" /\ new.place = "replay"
          /\ ~new.orphan /\ new.batch = unit.batch
      BY <2>3, <3>1, <3>2 DEF Unit
    <3>4. unit.batch = Empty
      BY <2>3, <3>1 DEF UnitOK
    <3>5. UnitOK(new)
      BY <3>3, <3>4, EmptyOK DEF UnitOK
    <3>6. units'[v] = new
      BY <1>1, <2>2, <2>4, <3>2
    <3> QED BY <2>1, <3>3, <3>4, <3>5, <3>6
  <2>5. CASE ~Own(v)
    <3>1. units'[v] = unit /\ unit.orphan
      BY <1>1, <2>1, <2>2, <2>5 DEF Own
    <3> QED BY <2>1, <2>2, <2>3, <3>1
  <2> QED BY <2>4, <2>5
<1> QED BY <1>1, <1>2

\* Those that are over leave
LEMMA LeaveMoves ==
  ASSUME LogTypes, Finish \/ \E u \in Slots : OrphanEnds(u)
  PROVE  /\ units' = [v \in Slots |-> units'[v]]
         /\ \A v \in Slots : units'[v] # NoUnit =>
              Active(v) /\ units'[v] = units[v] /\ UnitOK(units[v])
         /\ Finish => \A v \in Slots : units'[v] # NoUnit => units[v].orphan
<1>1. units = [v \in Slots |-> units[v]]
  BY DEF LogTypes, TypeOK
<1>2. CASE Finish
  BY <1>1, <1>2, UnitHere DEF Finish, Own, Active
<1>3. ASSUME NEW u \in Slots, OrphanEnds(u), ~Finish
      PROVE  /\ units' = [v \in Slots |-> units'[v]]
             /\ \A v \in Slots : units'[v] # NoUnit =>
                  Active(v) /\ units'[v] = units[v] /\ UnitOK(units[v])
  <2>1. units' = [units EXCEPT ![u] = NoUnit]
    BY <1>3 DEF OrphanEnds
  <2>2. /\ units' = [v \in Slots |-> units'[v]]
        /\ \A v \in Slots : units'[v] # NoUnit => units'[v] = units[v]
    BY <1>1, <2>1
  <2> QED BY <2>2, UnitHere DEF Active
<1> QED BY <1>2, <1>3

LEMMA CoverageHere ==
  ASSUME LogTypes, NEW s \in Subs, ~Fresh(s)
  PROVE  coverage[s].start \in Int /\ coverage[s].end \in Int
BY DEF LogTypes, TypeOK, Coverage, Fresh

LEMMA WindowNumbers ==
  ASSUME LogTypes, NEW s \in Subs
  PROVE  /\ now \in Nat /\ Cutoff \in Int /\ RetentionStart \in Int
         /\ Start(s) \in Int /\ CoverageStart(s) \in Int
<1>1. now \in Nat /\ Cutoff \in Int /\ RetentionStart \in Int /\ HistoricalStart \in Int
  BY LogNumbers DEF LogTypes, TypeOK, Cutoff, RetentionStart, HistoricalStart, Larger
<1>2. CASE Fresh(s)
  BY <1>1, <1>2 DEF Start, CoverageStart
<1>3. CASE ~Fresh(s)
  BY <1>1, <1>3, CoverageHere, LogNumbers DEF Start, CoverageStart, ForwardStart, Larger, Smaller
<1> QED BY <1>1, <1>2, <1>3

LEMMA WorkUnitOK ==
  ASSUME LogTypes, NEW s \in Subs
  PROVE  /\ UnitOK(WorkUnit(s)) /\ WorkUnit(s).sub = s /\ WorkUnit(s).orphan = FALSE
         /\ WorkUnit(s).work = "page" /\ WorkUnit(s).place = "fetch"
         /\ WorkUnit(s).start = Start(s) /\ WorkUnit(s).end = Cutoff
         /\ WorkUnit(s).from = CoverageStart(s) /\ WorkUnit(s).version = version
         /\ WorkUnit(s).due = Due(s) /\ WorkUnit(s).skips = Skips(s)
         /\ WorkUnit(s).returned = {} /\ WorkUnit(s).batch = Empty
<1>1. PICK child : child = Child(s)
  OBVIOUS
<1>2. child \in Unit /\ child.sub = s /\ child.orphan = FALSE /\ child.work = "page"
      /\ child.returned = {} /\ child.batch = Empty
  BY <1>1, EmptyOK, LogNumbers DEF Child, Unit
<1>3. PICK start \in Int, end \in Int, from \in Int, v \in 1 .. MaxVersion :
        start = Start(s) /\ end = Cutoff /\ from = CoverageStart(s) /\ v = version
  BY WindowNumbers DEF LogTypes, TypeOK
<1>4. PICK due \in SUBSET Events, skips \in SUBSET Events : due = Due(s) /\ skips = Skips(s)
  BY DEF Due, Skips, Span
<1>5. PICK unit : unit = [child EXCEPT !.place = "fetch", !.start = start, !.end = end,
                            !.from = from, !.version = v, !.due = due, !.skips = skips]
  OBVIOUS
<1>6. WorkUnit(s) = unit
  BY <1>1, <1>3, <1>4, <1>5 DEF WorkUnit
<1>7. /\ unit \in Unit /\ unit.sub = s /\ unit.orphan = FALSE /\ unit.work = "page"
      /\ unit.place = "fetch" /\ unit.start = start /\ unit.end = end /\ unit.from = from
      /\ unit.version = v /\ unit.due = due /\ unit.skips = skips
      /\ unit.returned = {} /\ unit.batch = Empty
  BY <1>2, <1>5 DEF Unit
<1>8. UnitOK(unit)
  BY <1>7, EmptyOK DEF UnitOK
<1> QED BY <1>3, <1>4, <1>6, <1>7, <1>8

\* A run takes up free slots for the subscriptions it plans
LEMMA ResolveMoves ==
  ASSUME LogTypes, NEW scope \in SUBSET Subs, Resolve(scope)
  PROVE  /\ units' = [v \in Slots |-> units'[v]]
         /\ \A v \in Slots : units'[v] # NoUnit =>
              /\ UnitOK(units'[v])
              /\ \/ units'[v] = units[v] /\ Active(v)
                 \/ \E s \in scope : units'[v] = WorkUnit(s)
<1>1. PICK place \in Placements(scope) :
        units' = [u \in Slots |-> IF \E s \in scope : place[s] = u
                                  THEN WorkUnit(CHOOSE s \in scope : place[s] = u)
                                  ELSE units[u]]
  BY DEF Resolve
<1>2. ASSUME NEW v \in Slots, units'[v] # NoUnit
      PROVE  /\ UnitOK(units'[v])
             /\ \/ units'[v] = units[v] /\ Active(v)
                \/ \E s \in scope : units'[v] = WorkUnit(s)
  <2>1. CASE \E s \in scope : place[s] = v
    <3>1. PICK t \in scope : t = CHOOSE s \in scope : place[s] = v
      BY <2>1
    <3>2. units'[v] = WorkUnit(t)
      BY <1>1, <2>1, <3>1
    <3>3. t \in Subs
      OBVIOUS
    <3> QED BY <3>2, <3>3, WorkUnitOK
  <2>2. CASE ~\E s \in scope : place[s] = v
    <3>1. units'[v] = units[v]
      BY <1>1, <2>2
    <3>2. Active(v)
      BY <1>2, <3>1 DEF Active
    <3> QED BY <3>1, <3>2, UnitHere
  <2> QED BY <2>1, <2>2
<1> QED BY <1>1, <1>2

-----------------------------------------------------------------------------
(***************************************************************************)
(* The type invariant.                                                     *)
(***************************************************************************)
\* Each unit is as it was, a new one, or one that an activity changed
LEMMA UnitsStay ==
  ASSUME LogTypes, [Next]_vars
  PROVE  /\ units' = [v \in Slots |-> units'[v]]
         /\ \A v \in Slots : units'[v] # NoUnit => UnitOK(units'[v])
<1> DEFINE Goal == /\ units' = [v \in Slots |-> units'[v]]
                   /\ \A v \in Slots : units'[v] # NoUnit => UnitOK(units'[v])
<1>1. ASSUME NEW u \in Slots, Others(u), UnitOK(units'[u])
      PROVE  Goal
  BY <1>1, UnitHere DEF Others, Active
<1>2. ASSUME units' = units
      PROVE  Goal
  BY <1>2, UnitHere DEF Active, LogTypes, TypeOK
<1>3. ASSUME NEW u \in Slots, FetchPage(u) PROVE Goal
  BY <1>1, <1>3, FetchMoves
<1>4. ASSUME NEW u \in Slots, NEW o \in Ops, Upload(u, o) PROVE Goal
  BY <1>1, <1>4, UploadMoves
<1>5. ASSUME NEW u \in Slots, NEW o \in Ops, WriteRow(u, o) PROVE Goal
  BY <1>1, <1>5, WriteMoves
<1>6. ASSUME NEW u \in Slots, Written(u) PROVE Goal
  BY <1>1, <1>6, WrittenMoves
<1>7. ASSUME NEW u \in Slots, Commit(u) \/ UnitFails(u) PROVE Goal
  BY <1>1, <1>7, EndMoves
<1>8. ASSUME NEW u \in Slots, Redelivered(u) PROVE Goal
  BY <1>1, <1>8, AgainMoves
<1>9. ASSUME NEW u \in Slots, Hydrate(u) PROVE Goal
  BY <1>1, <1>9, HydrateMoves
<1>10. ASSUME NEW u \in Slots, Raises(u) PROVE Goal
  BY <1>10, RaiseMoves
<1>11. ASSUME StartReplay PROVE Goal
  BY <1>11, ReplayMoves
<1>12. ASSUME Finish \/ \E u \in Slots : OrphanEnds(u) PROVE Goal
  BY <1>12, LeaveMoves
<1>13. ASSUME NEW scope \in SUBSET Subs, Resolve(scope) PROVE Goal
  BY <1>13, ResolveMoves
<1>14. ASSUME FlushOperations \/ FlushCoverage \/ FlushSpills \/ FlushBreaks PROVE Goal
  BY <1>2, <1>14 DEF FlushOperations, FlushCoverage, FlushSpills, FlushBreaks
<1>15. ASSUME Appear \/ Tick \/ Deploy PROVE Goal
  BY <1>2, <1>15 DEF Appear, Publish, Tick, Deploy
<1>16. ASSUME UNCHANGED vars PROVE Goal
  BY <1>2, <1>16 DEF vars
<1> HIDE DEF Goal
<1>17. Subs \in SUBSET Subs
  OBVIOUS
<1>18. ASSUME Step PROVE Goal
  BY <1>3, <1>4, <1>5, <1>6, <1>7, <1>9, <1>11, <1>12, <1>13, <1>14, <1>17, <1>18 DEF Step
<1> QED BY <1>7, <1>8, <1>10, <1>13, <1>14, <1>15, <1>16, <1>18 DEF Next, Goal

\* TypeOK without the units
StoreTypes ==
  /\ now \in 0 .. MaxTime /\ version \in 1 .. MaxVersion /\ visible \subseteq Events
  /\ rows \in [Ops -> Row \cup {NoRow}]
  /\ \A o \in Ops : rows[o] # NoRow => RowOK(o, rows[o])
  /\ spills \subseteq Events
  /\ coverage \in [Subs -> Coverage \cup {NoCoverage}]
  /\ phase \in {"idle", "collect", "replay", "state", "spills"}
  /\ claimed \in [Subs -> SUBSET Events] /\ skipped \in [Subs -> SUBSET Events]
  /\ torn \in BOOLEAN /\ fails \in 0 .. MaxFails

LEMMA TypeParts ==
  LogTypes <=> /\ StoreTypes
               /\ units = [v \in Slots |-> units[v]]
               /\ \A v \in Slots : units[v] # NoUnit => UnitOK(units[v])
<1>1. (\A o \in Ops : rows[o] # NoRow => RowOK(o, rows[o]))
        <=> \A o \in Ops : rows[o] # NoRow =>
              rows[o] \in Row /\ rows[o].events \subseteq EventsOf(o)
              /\ rows[o].applied \in rows[o].events
  BY DEF RowOK
<1>2. units \in [Slots -> Unit \cup {NoUnit}]
        <=> /\ units = [v \in Slots |-> units[v]]
            /\ \A v \in Slots : units[v] # NoUnit => units[v] \in Unit
  OBVIOUS
<1>3. \A v \in Slots : UnitOK(units[v]) => units[v] \in Unit
  BY DEF UnitOK
<1> QED BY <1>1, <1>2, <1>3 DEF LogTypes, TypeOK, StoreTypes, Active

LEMMA FailsStay == ASSUME StoreTypes, Fails PROVE fails' \in 0 .. MaxFails
BY LogNumbers DEF StoreTypes, Fails

\* The actions that touch no store
LEMMA UnitsOnly ==
  ASSUME StoreTypes, UNCHANGED <<world, stores>>,
         phase' \in {"idle", "collect", "replay", "state", "spills"},
         fails' \in 0 .. MaxFails
  PROVE  StoreTypes'
BY DEF StoreTypes, world, stores

LEMMA StoresStay ==
  ASSUME LogTypes, [Next]_vars
  PROVE  StoreTypes'
<1> USE TypeParts
<1>1. ASSUME NEW u \in Slots, FetchPage(u) \/ Written(u) \/ OrphanEnds(u) \/ Hydrate(u)
      PROVE  StoreTypes'
  <2>1. UNCHANGED <<world, stores, phase, fails>>
    BY <1>1 DEF FetchPage, Written, OrphanEnds, Hydrate
  <2> QED BY <2>1 DEF StoreTypes, world, stores
<1>2. ASSUME NEW u \in Slots, NEW o \in Ops, Upload(u, o) PROVE StoreTypes'
  <2>1. spills' \subseteq Events
    BY <1>2, UploadMoves
  <2> QED BY <1>2, <2>1 DEF Upload, StoreTypes, world
<1>3. ASSUME NEW u \in Slots, NEW o \in Ops, WriteRow(u, o) PROVE StoreTypes'
  <2>1. /\ RowOK(o, rows'[o]) /\ rows' \in [Ops -> Row \cup {NoRow}]
        /\ \A p \in Ops : p # o => rows'[p] = rows[p]
    BY <1>3, WriteMoves
  <2> QED BY <1>3, <2>1 DEF WriteRow, StoreTypes, world
<1>4. ASSUME NEW u \in Slots, Commit(u) PROVE StoreTypes'
  <2>1. PICK unit : unit = units[u]
    OBVIOUS
  <2>2. unit \in Unit
    BY <1>4, <2>1, UnitHere DEF Commit, At
  <2>3. PICK cover : cover = [start |-> unit.from, end |-> unit.end, version |-> unit.version]
    OBVIOUS
  <2>4. cover \in Coverage /\ unit.due \in SUBSET Events /\ unit.skips \in SUBSET Events
    BY <2>2, <2>3 DEF Unit, Coverage
  <2>5. /\ coverage' = [coverage EXCEPT ![unit.sub] = cover]
        /\ claimed' = [claimed EXCEPT ![unit.sub] = unit.due]
        /\ skipped' = [skipped EXCEPT ![unit.sub] = unit.skips]
        /\ UNCHANGED <<world, rows, spills, torn, phase, fails>>
    BY <1>4, <2>1, <2>3 DEF Commit
  <2>6. /\ coverage' \in [Subs -> Coverage \cup {NoCoverage}]
        /\ claimed' \in [Subs -> SUBSET Events] /\ skipped' \in [Subs -> SUBSET Events]
    BY <2>4, <2>5 DEF StoreTypes
  <2> QED BY <2>5, <2>6 DEF StoreTypes, world
<1>5. ASSUME NEW u \in Slots, UnitFails(u) \/ Redelivered(u) \/ Raises(u) PROVE StoreTypes'
  <2>1. Fails /\ UNCHANGED <<world, stores>> /\ (phase' = phase \/ phase' = "idle")
    BY <1>5 DEF UnitFails, Redelivered, Raises
  <2> QED BY <2>1, FailsStay, UnitsOnly DEF StoreTypes
<1>6. ASSUME StartReplay \/ Finish \/ \E scope \in SUBSET Subs : Resolve(scope)
      PROVE  StoreTypes'
  <2>1. UNCHANGED <<world, stores, fails>> /\ phase' \in {"idle", "collect", "replay"}
    BY <1>6 DEF StartReplay, Finish, Resolve
  <2> QED BY <2>1, UnitsOnly DEF StoreTypes
<1>7. ASSUME FlushOperations PROVE StoreTypes'
  BY <1>7, EmptyOK DEF FlushOperations, StoreTypes, world
<1>8. ASSUME FlushCoverage PROVE StoreTypes'
  BY <1>8 DEF FlushCoverage, StoreTypes, world
<1>9. ASSUME FlushSpills PROVE StoreTypes'
  BY <1>9 DEF FlushSpills, StoreTypes, world
<1>10. ASSUME FlushBreaks PROVE StoreTypes'
  <2>1. fails' \in 0 .. MaxFails
    BY <1>10, FailsStay DEF FlushBreaks
  <2> QED BY <1>10, <2>1 DEF FlushBreaks, StoreTypes, world
<1>11. ASSUME Appear PROVE StoreTypes'
  <2>1. PICK E \in SUBSET Events : Publish(E)
    BY <1>11 DEF Appear, EventsOf
  <2> QED BY <2>1 DEF Publish, StoreTypes, stores
<1>12. ASSUME Tick PROVE StoreTypes'
  BY <1>12, LogNumbers DEF Tick, StoreTypes, stores
<1>13. ASSUME Deploy PROVE StoreTypes'
  BY <1>13, LogNumbers DEF Deploy, StoreTypes, stores
<1>14. ASSUME UNCHANGED vars PROVE StoreTypes'
  BY <1>14 DEF vars, StoreTypes
<1>15. ASSUME Step PROVE StoreTypes'
  <2>1. Subs \in SUBSET Subs
    OBVIOUS
  <2> QED BY <1>1, <1>2, <1>3, <1>4, <1>6, <1>8, <1>9, <1>15, <2>1 DEF Step
<1> QED BY <1>5, <1>6, <1>7, <1>10, <1>11, <1>12, <1>13, <1>14, <1>15 DEF Next

LEMMA TypesNext == ASSUME LogTypes, [Next]_vars PROVE LogTypes'
<1>1. StoreTypes' /\ units' = [v \in Slots |-> units'[v]]
      /\ \A v \in Slots : units'[v] # NoUnit => UnitOK(units'[v])
  BY UnitsStay, StoresStay
<1>2. units' \in [Slots -> Unit \cup {NoUnit}]
  BY <1>1 DEF UnitOK
<1>3. \A o \in Ops : rows'[o] # NoRow =>
        rows'[o].events \subseteq EventsOf(o) /\ rows'[o].applied \in rows'[o].events
  BY <1>1 DEF StoreTypes, RowOK
<1> QED BY <1>1, <1>2, <1>3 DEF LogTypes, TypeOK, StoreTypes, Active

LEMMA InitTypes == ASSUME Init PROVE LogTypes
<1>1. now \in 0 .. MaxTime /\ version \in 1 .. MaxVersion /\ fails \in 0 .. MaxFails
  BY LogNumbers DEF Init
<1>2. StoreTypes
  BY <1>1, EmptyOK DEF Init, StoreTypes
<1>3. units = [v \in Slots |-> units[v]] /\ \A v \in Slots : units[v] = NoUnit
  BY DEF Init
<1> QED BY <1>2, <1>3, TypeParts

\* The variables hold the kinds of value they are meant to (pipeline.py,
\* activity_log_store.py): in a row an outcome, a payload and a version of the
\* recipes, and a row consists of events of its own operation
THEOREM LogTypeCorrect == Spec => []TypeOK
<1>1. Init => LogTypes
  BY InitTypes
<1>2. LogTypes /\ [Next]_vars => LogTypes'
  BY TypesNext
<1>3. LogTypes => TypeOK
  BY DEF LogTypes
<1> QED BY <1>1, <1>2, <1>3, PTL DEF Spec

-----------------------------------------------------------------------------
(***************************************************************************)
(* Spilled payloads are found.  A batch is written only when all that it   *)
(* spills is in the container, and while a flush is at work no unit is: it *)
(* is torn where one is.                                                   *)
(***************************************************************************)
BatchesThere ==
  ~torn => \A u \in Slots : At(u, "write") =>
             \A o \in Ops : Spilled(units[u].batch[o]) => units[u].batch[o].applied \in spills
FlushedAlone ==
  ~torn /\ phase \in {"state", "spills"} => rows = Empty /\ \A u \in Slots : ~Active(u)

SpillInv == SpillReachable /\ BatchesThere /\ FlushedAlone

LEMMA StoringAll ==
  ASSUME NEW batch, NEW there, Storing(batch, there) = "write"
  PROVE  \A o \in Ops : Spilled(batch[o]) => batch[o].applied \in there
BY DEF Storing, ToUpload

LEMMA EmptySpillsNone == \A o \in Ops : ~Spilled(Empty[o])
BY EmptyOK DEF Spilled

\* One unit changes, in a state that no flush left torn
LEMMA SpillOne ==
  ASSUME LogTypes, SpillInv, NEW u \in Slots, Active(u), Others(u),
         spills \subseteq spills', torn' = torn, phase' = phase,
         torn \/ \A o \in Ops : Spilled(rows'[o]) => rows'[o].applied \in spills',
         torn \/ units'[u].place # "write"
           \/ \A o \in Ops : Spilled(units'[u].batch[o]) => units'[u].batch[o].applied \in spills'
  PROVE  SpillInv'
<1>1. SpillReachable'
  BY DEF SpillReachable
<1>2. BatchesThere'
  <2> SUFFICES ASSUME ~torn', NEW v \in Slots, units'[v] # NoUnit, units'[v].place = "write",
                      NEW o \in Ops, Spilled(units'[v].batch[o])
               PROVE  units'[v].batch[o].applied \in spills'
    BY DEF BatchesThere, At, Active
  <2>1. CASE v = u
    BY <2>1
  <2>2. CASE v # u
    <3>1. units'[v] = units[v]
      BY <2>2 DEF Others
    <3> QED BY <3>1 DEF SpillInv, BatchesThere, At, Active
  <2> QED BY <2>1, <2>2
<1>3. FlushedAlone'
  BY DEF SpillInv, FlushedAlone
<1> QED BY <1>1, <1>2, <1>3 DEF SpillInv

\* Units leave or begin; nothing is written, and the tables stay
LEMMA SpillMany ==
  ASSUME LogTypes, SpillInv, UNCHANGED <<rows, spills, torn>>,
         torn' \/ phase' \notin {"state", "spills"},
         \A v \in Slots : units'[v] # NoUnit =>
           \/ units'[v].place # "write"
           \/ Active(v) /\ units[v].place = "write" /\ units'[v].batch = units[v].batch
  PROVE  SpillInv'
<1>1. SpillReachable'
  BY DEF SpillInv, SpillReachable
<1>2. BatchesThere'
  BY DEF SpillInv, BatchesThere, At, Active
<1>3. FlushedAlone'
  BY DEF FlushedAlone
<1> QED BY <1>1, <1>2, <1>3 DEF SpillInv

LEMMA SpillNext == ASSUME LogTypes, SpillInv, [Next]_vars PROVE SpillInv'
<1>1. ASSUME NEW u \in Slots, FetchPage(u) PROVE SpillInv'
  <2>1. Others(u) /\ units'[u].place = Storing(units'[u].batch, spills)
    BY <1>1, FetchMoves
  <2>2. Active(u) /\ UNCHANGED <<rows, spills, torn, phase>>
    BY <1>1 DEF FetchPage, At, stores
  <2> QED BY <2>1, <2>2, StoringAll, SpillOne DEF SpillInv, SpillReachable
<1>2. ASSUME NEW u \in Slots, NEW o \in Ops, Upload(u, o) PROVE SpillInv'
  <2>1. Others(u) /\ units'[u].place = Storing(units'[u].batch, spills') /\ spills \subseteq spills'
    BY <1>2, UploadMoves
  <2>2. Active(u) /\ UNCHANGED <<rows, torn, phase>>
    BY <1>2 DEF Upload, At
  <2> QED BY <2>1, <2>2, StoringAll, SpillOne DEF SpillInv, SpillReachable
<1>3. ASSUME NEW u \in Slots, NEW o \in Ops, WriteRow(u, o) PROVE SpillInv'
  <2>1. /\ Others(u) /\ units'[u].batch = [units[u].batch EXCEPT ![o] = NoRow]
        /\ units[u].place = "write" /\ RowOK(o, rows'[o])
        /\ rows'[o].applied = units[u].batch[o].applied
        /\ \A p \in Ops : p # o => rows'[p] = rows[p]
    BY <1>3, WriteMoves
  <2>2. Active(u) /\ At(u, "write") /\ units[u].batch[o] # NoRow
        /\ UNCHANGED <<spills, torn, phase>>
    BY <1>3 DEF WriteRow, At
  <2>3. units[u].batch \in [Ops -> Row \cup {NoRow}]
    BY <2>2, UnitHere DEF Unit
  <2>4. CASE ~torn
    <3>1. \A p \in Ops : Spilled(units[u].batch[p]) => units[u].batch[p].applied \in spills
      BY <2>2, <2>4 DEF SpillInv, BatchesThere
    <3>2. Spilled(rows'[o]) => rows'[o].applied \in spills
      BY <2>1, <2>2, <3>1 DEF Spilled
    <3>3. \A p \in Ops : Spilled(rows'[p]) => rows'[p].applied \in spills'
      BY <2>1, <2>2, <2>4, <3>2 DEF SpillInv, SpillReachable
    <3>4. \A p \in Ops : Spilled(units'[u].batch[p]) => units'[u].batch[p].applied \in spills'
      BY <2>1, <2>2, <2>3, <3>1 DEF Spilled
    <3> QED BY <2>1, <2>2, <3>3, <3>4, SpillOne
  <2>5. CASE torn
    BY <2>1, <2>2, <2>5, SpillOne
  <2> QED BY <2>4, <2>5
<1>4. ASSUME NEW u \in Slots, Written(u) \/ Commit(u) \/ UnitFails(u) \/ Redelivered(u)
      PROVE  SpillInv'
  <2>1. Others(u) /\ units'[u].place # "write"
    BY <1>4, WrittenMoves, EndMoves, AgainMoves
  <2>2. Active(u)
    BY <1>4, EndMoves, AgainMoves DEF Written, At
  <2>3. UNCHANGED <<rows, spills, torn, phase>>
    BY <1>4 DEF Written, Commit, UnitFails, Redelivered, stores
  <2> QED BY <2>1, <2>2, <2>3, SpillOne DEF SpillInv, SpillReachable
<1>5. ASSUME NEW u \in Slots, Hydrate(u) PROVE SpillInv'
  <2>1. /\ Others(u) /\ Active(u)
        /\ units'[u].place # "done" => units'[u].place = Storing(units'[u].batch, spills)
    BY <1>5, HydrateMoves
  <2>2. UNCHANGED <<rows, spills, torn, phase>>
    BY <1>5 DEF Hydrate, stores
  <2> QED BY <2>1, <2>2, StoringAll, SpillOne DEF SpillInv, SpillReachable
<1>6. ASSUME NEW u \in Slots, Raises(u) PROVE SpillInv'
  <2>1. ASSUME NEW v \in Slots, units'[v] # NoUnit
        PROVE  Active(v) /\ units'[v].batch = units[v].batch /\ units'[v].place = units[v].place
    <3>1. Active(v) /\ (units'[v] = units[v] \/ units'[v] = [units[v] EXCEPT !.orphan = TRUE])
      BY <1>6, <2>1, RaiseMoves
    <3>2. units[v] \in Unit
      BY <3>1, UnitHere
    <3> QED BY <3>1, <3>2 DEF Unit
  <2>2. UNCHANGED <<rows, spills, torn>> /\ phase' = "idle"
    BY <1>6 DEF Raises, stores
  <2> QED BY <2>1, <2>2, SpillMany
<1>7. ASSUME StartReplay PROVE SpillInv'
  <2>1. UNCHANGED <<rows, spills, torn>> /\ phase' = "replay"
    BY <1>7 DEF StartReplay, stores
  <2>2. \A v \in Slots : units'[v] # NoUnit =>
          Active(v) /\ (units'[v] = units[v] \/ units'[v].place = "replay")
    BY <1>7, ReplayMoves
  <2> QED BY <2>1, <2>2, SpillMany
<1>8. ASSUME Finish PROVE SpillInv'
  <2>1. UNCHANGED <<rows, spills, torn>> /\ phase' = "idle"
    BY <1>8 DEF Finish, stores
  <2>2. \A v \in Slots : units'[v] # NoUnit => Active(v) /\ units'[v] = units[v]
    BY <1>8, LeaveMoves
  <2> QED BY <2>1, <2>2, SpillMany
<1>9. ASSUME NEW u \in Slots, OrphanEnds(u) PROVE SpillInv'
  <2>1. UNCHANGED <<rows, spills, torn, phase>> /\ Active(u)
    BY <1>9 DEF OrphanEnds, stores, At
  <2>2. \A v \in Slots : units'[v] # NoUnit => Active(v) /\ units'[v] = units[v]
    BY <1>9, LeaveMoves
  <2>3. torn' \/ phase' \notin {"state", "spills"}
    BY <2>1 DEF SpillInv, FlushedAlone
  <2> QED BY <2>1, <2>2, <2>3, SpillMany
<1>10. ASSUME NEW scope \in SUBSET Subs, Resolve(scope) PROVE SpillInv'
  <2>1. UNCHANGED <<rows, spills, torn>> /\ phase' = "collect"
    BY <1>10 DEF Resolve, stores
  <2>2. ASSUME NEW v \in Slots, units'[v] # NoUnit
        PROVE  (units'[v] = units[v] /\ Active(v)) \/ units'[v].place = "fetch"
    <3>1. \/ units'[v] = units[v] /\ Active(v)
          \/ \E s \in scope : units'[v] = WorkUnit(s)
      BY <1>10, <2>2, ResolveMoves
    <3>2. \A s \in scope : WorkUnit(s).place = "fetch"
      BY WorkUnitOK
    <3> QED BY <3>1, <3>2
  <2> QED BY <2>1, <2>2, SpillMany
<1>11. ASSUME FlushOperations PROVE SpillInv'
  BY <1>11, EmptySpillsNone
     DEF FlushOperations, SpillInv, SpillReachable, BatchesThere, FlushedAlone, At, Active
<1>12. ASSUME FlushCoverage PROVE SpillInv'
  BY <1>12 DEF FlushCoverage, SpillInv, SpillReachable, BatchesThere, FlushedAlone, At, Active
<1>13. ASSUME FlushSpills PROVE SpillInv'
  BY <1>13, EmptySpillsNone
     DEF FlushSpills, SpillInv, SpillReachable, BatchesThere, FlushedAlone, At, Active
<1>14. ASSUME FlushBreaks PROVE SpillInv'
  BY <1>14 DEF FlushBreaks, SpillInv, SpillReachable, BatchesThere, FlushedAlone, At, Active
<1>15. ASSUME UNCHANGED <<rows, spills, torn, phase, units>> PROVE SpillInv'
  BY <1>15 DEF SpillInv, SpillReachable, BatchesThere, FlushedAlone, At, Active
<1>16. ASSUME Appear \/ Tick \/ Deploy \/ UNCHANGED vars PROVE SpillInv'
  BY <1>15, <1>16 DEF Appear, Publish, Tick, Deploy, vars, stores
<1>17. ASSUME Step PROVE SpillInv'
  <2>1. Subs \in SUBSET Subs
    OBVIOUS
  <2> QED BY <1>1, <1>2, <1>3, <1>4, <1>5, <1>7, <1>8, <1>9, <1>10, <1>12, <1>13, <1>17, <2>1
             DEF Step
<1> QED BY <1>4, <1>6, <1>10, <1>11, <1>14, <1>16, <1>17 DEF Next

\* A row whose payload was spilled finds it, whatever uploads, transactions and
\* activities fail (activity_log_store.py _attach_payload before the first
\* transaction), unless a flush was torn (delete_tables)
THEOREM SpillsAreFound == Spec => []SpillReachable
<1>1. Init => LogTypes /\ SpillInv
  <2>1. Init => SpillInv
    BY EmptySpillsNone DEF Init, SpillInv, SpillReachable, BatchesThere, FlushedAlone, At, Active
  <2> QED BY <2>1, InitTypes
<1>2. LogTypes /\ SpillInv /\ [Next]_vars => LogTypes' /\ SpillInv'
  BY TypesNext, SpillNext
<1>3. SpillInv => SpillReachable
  BY DEF SpillInv
<1> QED BY <1>1, <1>2, <1>3, PTL DEF Spec

-----------------------------------------------------------------------------
(***************************************************************************)
(* Coverage.  First what holds of plans and coverage while the source      *)
(* shows events and drops them; then what of it is stored.                 *)
(***************************************************************************)
Planned(unit) == unit # NoUnit /\ unit.work = "page" /\ unit.place # "done"

\* An activity changes no plan: what is planned was, or begins with Resolve
LEMMA PlansKept ==
  ASSUME LogTypes, [Next]_vars, NEW v \in Slots, Planned(units'[v])
  PROVE  \/ Planned(units[v]) /\ Plan(units'[v]) = Plan(units[v])
         \/ \E scope \in SUBSET Subs : Resolve(scope) /\ \E s \in scope : units'[v] = WorkUnit(s)
<1> DEFINE Kept == Planned(units[v]) /\ Plan(units'[v]) = Plan(units[v])
           Goal == Kept \/ \E scope \in SUBSET Subs :
                             Resolve(scope) /\ \E s \in scope : units'[v] = WorkUnit(s)
<1>1. ASSUME units'[v] = units[v] PROVE Goal
  BY <1>1
<1>2. ASSUME NEW u \in Slots, Others(u), units[u] # NoUnit,
             units[u].place # "done", SamePlan(units'[u], units[u])
      PROVE  Goal
  BY <1>1, <1>2 DEF Others, SamePlan, Kin, Planned
<1>3. ASSUME NEW u \in Slots, Others(u), Kin(units'[u], units[u]),
             units'[u].place = "done" \/ units[u].work = "replay"
      PROVE  Goal
  BY <1>1, <1>3 DEF Others, Kin, Planned
<1>4. ASSUME NEW u \in Slots, FetchPage(u) PROVE Goal
  BY <1>2, <1>4, FetchMoves DEF FetchPage, At, Active
<1>5. ASSUME NEW u \in Slots, NEW o \in Ops, Upload(u, o) \/ WriteRow(u, o) PROVE Goal
  <2>1. Others(u) /\ Same(units'[u], units[u]) /\ units[u].place \in {"upload", "write"}
    BY <1>5, UploadMoves, WriteMoves
  <2>2. units[u] # NoUnit
    BY <1>5 DEF Upload, WriteRow, At, Active
  <2> QED BY <1>2, <2>1, <2>2 DEF Same
<1>6. ASSUME NEW u \in Slots, Written(u) PROVE Goal
  <2>1. units[u].work \in {"page", "replay"} /\ At(u, "write")
    BY <1>6, UnitHere DEF Written, At, Unit
  <2>2. CASE units[u].work = "page"
    BY <1>2, <1>6, <2>1, <2>2, WrittenMoves DEF At, Active
  <2>3. CASE units[u].work = "replay"
    BY <1>3, <1>6, <2>3, WrittenMoves
  <2> QED BY <2>1, <2>2, <2>3
<1>7. ASSUME NEW u \in Slots, Commit(u) \/ UnitFails(u) PROVE Goal
  BY <1>3, <1>7, EndMoves
<1>8. ASSUME NEW u \in Slots, Redelivered(u) PROVE Goal
  BY <1>2, <1>8, AgainMoves DEF Active
<1>9. ASSUME NEW u \in Slots, Hydrate(u) PROVE Goal
  BY <1>3, <1>9, HydrateMoves
<1>10. ASSUME NEW u \in Slots, Raises(u) PROVE Goal
  <2>1. Active(v) /\ (units'[v] = units[v] \/ units'[v] = [units[v] EXCEPT !.orphan = TRUE])
    BY <1>10, RaiseMoves DEF Planned
  <2>2. units[v] \in Unit
    BY <2>1, UnitHere
  <2> QED BY <2>1, <2>2 DEF Unit, Plan, Planned, Active
<1>11. ASSUME StartReplay PROVE Goal
  <2>1. units'[v] = units[v] \/ units'[v].work = "replay"
    BY <1>11, ReplayMoves DEF Planned
  <2> QED BY <1>1, <2>1 DEF Planned
<1>12. ASSUME Finish \/ \E u \in Slots : OrphanEnds(u) PROVE Goal
  BY <1>1, <1>12, LeaveMoves DEF Planned
<1>13. ASSUME NEW scope \in SUBSET Subs, Resolve(scope) PROVE Goal
  BY <1>1, <1>13, ResolveMoves DEF Planned
<1>14. ASSUME units' = units PROVE Goal
  BY <1>1, <1>14
<1> HIDE DEF Goal
<1>15. ASSUME FlushOperations \/ FlushCoverage \/ FlushSpills \/ FlushBreaks PROVE Goal
  BY <1>14, <1>15 DEF FlushOperations, FlushCoverage, FlushSpills, FlushBreaks
<1>16. ASSUME Appear \/ Tick \/ Deploy \/ UNCHANGED vars PROVE Goal
  BY <1>14, <1>16 DEF Appear, Publish, Tick, Deploy, vars
<1>17. Subs \in SUBSET Subs
  OBVIOUS
<1>18. ASSUME Step PROVE Goal
  BY <1>4, <1>5, <1>6, <1>7, <1>9, <1>11, <1>12, <1>13, <1>15, <1>17, <1>18 DEF Step
<1> QED BY <1>7, <1>8, <1>10, <1>13, <1>15, <1>16, <1>18 DEF Next, Goal

\* Coverage is what it was, what a unit commits, or nothing
LEMMA CoverageKept ==
  ASSUME LogTypes, [Next]_vars, NEW s \in Subs
  PROVE  \/ /\ coverage'[s] = coverage[s] /\ claimed'[s] = claimed[s]
            /\ skipped'[s] = skipped[s]
         \/ /\ \E u \in Slots :
                 /\ Commit(u) /\ Planned(units[u]) /\ units[u].sub = s
                 /\ coverage'[s] = [start |-> units[u].from, end |-> units[u].end,
                                    version |-> units[u].version]
                 /\ claimed'[s] = units[u].due /\ skipped'[s] = units[u].skips
         \/ FlushCoverage /\ coverage'[s] = NoCoverage /\ claimed'[s] = {}
<1> DEFINE Kept == coverage'[s] = coverage[s] /\ claimed'[s] = claimed[s] /\ skipped'[s] = skipped[s]
           Goal == \/ Kept
                   \/ \E u \in Slots :
                        /\ Commit(u) /\ Planned(units[u]) /\ units[u].sub = s
                        /\ coverage'[s] = [start |-> units[u].from, end |-> units[u].end,
                                           version |-> units[u].version]
                        /\ claimed'[s] = units[u].due /\ skipped'[s] = units[u].skips
                   \/ FlushCoverage /\ coverage'[s] = NoCoverage /\ claimed'[s] = {}
<1>1. ASSUME NEW u \in Slots, Commit(u) PROVE Goal
  <2>1. units[u] \in Unit /\ UnitOK(units[u]) /\ At(u, "commit")
    BY <1>1, UnitHere DEF Commit, At
  <2>2. Planned(units[u])
    BY <2>1 DEF UnitOK, Planned, At, Active
  <2>3. coverage \in [Subs -> Coverage \cup {NoCoverage}]
        /\ claimed \in [Subs -> SUBSET Events] /\ skipped \in [Subs -> SUBSET Events]
    BY DEF LogTypes, TypeOK
  <2>4. /\ coverage' = [coverage EXCEPT ![units[u].sub] =
               [start |-> units[u].from, end |-> units[u].end, version |-> units[u].version]]
        /\ claimed' = [claimed EXCEPT ![units[u].sub] = units[u].due]
        /\ skipped' = [skipped EXCEPT ![units[u].sub] = units[u].skips]
    BY <1>1 DEF Commit
  <2>5. CASE units[u].sub = s
    BY <1>1, <2>2, <2>3, <2>4, <2>5
  <2>6. CASE units[u].sub # s
    BY <2>3, <2>4, <2>6
  <2> QED BY <2>5, <2>6
<1>2. ASSUME FlushCoverage PROVE Goal
  BY <1>2 DEF FlushCoverage
<1>3. ASSUME UNCHANGED <<coverage, claimed, skipped>> PROVE Goal
  BY <1>3
<1> HIDE DEF Goal
<1>4. ASSUME NEW u \in Slots,
             FetchPage(u) \/ Written(u) \/ OrphanEnds(u) \/ Hydrate(u) \/ UnitFails(u)
               \/ Redelivered(u) \/ Raises(u) \/ \E o \in Ops : Upload(u, o) \/ WriteRow(u, o)
      PROVE  Goal
  BY <1>3, <1>4 DEF FetchPage, Written, OrphanEnds, Hydrate, UnitFails, Redelivered, Raises,
                    Upload, WriteRow, stores
<1>5. ASSUME StartReplay \/ Finish \/ FlushSpills \/ FlushOperations \/ FlushBreaks
               \/ Tick \/ Deploy \/ UNCHANGED vars \/ \E scope \in SUBSET Subs : Resolve(scope)
      PROVE  Goal
  BY <1>3, <1>5 DEF StartReplay, Finish, FlushSpills, FlushOperations, FlushBreaks, Tick, Deploy,
                    vars, Resolve, stores
<1>6. ASSUME Appear PROVE Goal
  BY <1>3, <1>6 DEF Appear, Publish, stores
<1>7. ASSUME Step PROVE Goal
  <2>1. Subs \in SUBSET Subs
    OBVIOUS
  <2> QED BY <1>1, <1>2, <1>4, <1>5, <1>7, <2>1 DEF Step
<1> QED BY <1>1, <1>4, <1>5, <1>6, <1>7 DEF Next, Goal

\* Time passes; the source shows events within Delay and drops them with age
SourceShows == \A e \in visible : e.at >= now - Lag - Retention
Gone(e) == e \notin visible => e.at + Delay < now

LEMMA TimePasses ==
  ASSUME LogTypes, [Next]_vars, SourceShows
  PROVE  /\ now \in Int /\ now' \in Int /\ now <= now' /\ visible' \subseteq Events
         /\ SourceShows'
         /\ \A e \in Events : Gone(e) => Gone(e)'
         /\ \A e \in visible' : e \in visible \/ (now' = now /\ now <= e.at + Delay)
<1> DEFINE Goal == /\ now <= now' /\ SourceShows'
                   /\ \A e \in Events : Gone(e) => Gone(e)'
                   /\ \A e \in visible' : e \in visible \/ (now' = now /\ now <= e.at + Delay)
<1>1. now \in Int /\ now' \in Int /\ visible \subseteq Events /\ visible' \subseteq Events
  BY TypesNext DEF LogTypes, TypeOK
<1>2. ASSUME UNCHANGED <<now, visible>> PROVE Goal
  BY <1>1, <1>2 DEF SourceShows, Gone
<1>3. ASSUME NEW E \in SUBSET Events, Publish(E) PROVE Goal
  <2>1. /\ now' = now /\ visible' = visible \cup E
        /\ \A e \in E : e.at <= now /\ now <= e.at + Delay
    BY <1>3 DEF Publish
  <2>2. \A e \in E : e.at \in Nat
    BY EventFacts
  <2>3. \A e \in E : e.at >= now - Lag - Retention
    BY <1>1, <2>1, <2>2, LogNumbers
  <2> QED BY <1>1, <2>1, <2>3 DEF SourceShows, Gone
<1>4. ASSUME Tick PROVE Goal
  <2>1. now' = now + 1 /\ visible' = {e \in visible : e.at >= now + 1 - Lag - Retention}
    BY <1>4 DEF Tick
  <2>2. \A e \in Events : e.at \in Nat
    BY EventFacts
  <2>3. \A e \in Events : Gone(e) => Gone(e)'
    BY <1>1, <2>1, <2>2, LogNumbers DEF Gone
  <2> QED BY <1>1, <2>1, <2>3, LogNumbers DEF SourceShows
<1> HIDE DEF Goal
<1>5. ASSUME Appear PROVE Goal
  <2>1. PICK E \in SUBSET Events : Publish(E)
    BY <1>5 DEF Appear, EventsOf
  <2> QED BY <1>3, <2>1
<1>6. ASSUME \E u \in Slots :
               \/ FetchPage(u) \/ Written(u) \/ Commit(u) \/ OrphanEnds(u) \/ Hydrate(u)
               \/ UnitFails(u) \/ Redelivered(u) \/ Raises(u)
               \/ \E o \in Ops : Upload(u, o) \/ WriteRow(u, o)
      PROVE  Goal
  BY <1>2, <1>6 DEF FetchPage, Written, Commit, OrphanEnds, Hydrate, UnitFails, Redelivered,
                    Raises, Upload, WriteRow, world
<1>7. ASSUME StartReplay \/ Finish \/ FlushCoverage \/ FlushSpills \/ FlushOperations
               \/ FlushBreaks \/ Deploy \/ UNCHANGED vars
               \/ \E scope \in SUBSET Subs : Resolve(scope)
      PROVE  Goal
  BY <1>2, <1>7 DEF StartReplay, Finish, FlushCoverage, FlushSpills, FlushOperations,
                    FlushBreaks, Deploy, vars, Resolve, world
<1>8. ASSUME Step PROVE Goal
  <2>1. Subs \in SUBSET Subs
    OBVIOUS
  <2> QED BY <1>6, <1>7, <1>8, <2>1 DEF Step
<1>9. Goal
  BY <1>4, <1>5, <1>6, <1>7, <1>8 DEF Next
<1> QED BY <1>1, <1>9 DEF Goal

\* Coverage and plans end a lag before the present
Behind ==
  /\ \A s \in Subs : ~Fresh(s) => coverage[s].end + Lag <= now
  /\ \A u \in Slots : Planned(units[u]) => units[u].end + Lag <= now

\* A visible event within the coverage, but for the overlap that is asked for
\* again, is claimed, or a plan passed it over
Tells(start, end, v, skips, due, s, e) ==
  /\ e.op.sub = s /\ start <= e.at /\ e.at + Overlap < end
  /\ Collects(v, e) /\ e \notin skips
  => e \in due
ClaimsTell ==
  \A s \in Subs : ~Fresh(s) => \A e \in visible :
    Tells(coverage[s].start, coverage[s].end, coverage[s].version, skipped[s], claimed[s], s, e)
PlansTell ==
  \A u \in Slots : Planned(units[u]) => \A e \in visible :
    Tells(units[u].from, units[u].end, units[u].version, units[u].skips, units[u].due,
          units[u].sub, e)

\* What is claimed and not visible does not appear again
GoneIsOld ==
  /\ \A s \in Subs : \A e \in claimed[s] : Gone(e)
  /\ \A u \in Slots : Planned(units[u]) => \A e \in units[u].due : Gone(e)

PlanInv == SourceShows /\ Behind /\ ClaimsTell /\ PlansTell /\ GoneIsOld

\* What appears is too late for the coverage and the plans of its time, so that
\* the next window asks for it
LEMMA TooLate ==
  ASSUME LogTypes, [Next]_vars, SourceShows, NEW e \in visible', e \notin visible,
         NEW end \in Int, end + Lag <= now
  PROVE  ~(e.at + Overlap < end)
<1>1. e \in Events /\ now \in Int /\ now <= e.at + Delay
  BY TimePasses
<1>2. e.at \in Nat
  BY <1>1, EventFacts
<1> QED BY <1>1, <1>2, LogNumbers

LEMMA PlannedHere ==
  ASSUME LogTypes, NEW u \in Slots, Planned(units[u])
  PROVE  /\ Active(u) /\ UnitOK(units[u]) /\ units[u] \in Unit
         /\ units[u].sub \in Subs /\ units[u].end \in Int /\ units[u].due \subseteq Events
<1>1. Active(u)
  BY DEF Planned, Active
<1>2. UnitOK(units[u]) /\ units[u] \in Unit
  BY <1>1, UnitHere
<1> QED BY <1>1, <1>2 DEF Unit

LEMMA SamePlanFields ==
  ASSUME NEW a, NEW b, Plan(a) = Plan(b)
  PROVE  /\ a.sub = b.sub /\ a.start = b.start /\ a.end = b.end /\ a.from = b.from
         /\ a.version = b.version /\ a.due = b.due /\ a.skips = b.skips
BY DEF Plan

LEMMA PlanNext == ASSUME LogTypes, PlanInv, [Next]_vars PROVE PlanInv'
<1> USE DEF PlanInv
<1>1. /\ now \in Int /\ now' \in Int /\ now <= now' /\ visible' \subseteq Events /\ SourceShows'
      /\ \A e \in Events : Gone(e) => Gone(e)'
  BY TimePasses
<1>2. visible \subseteq Events /\ claimed \in [Subs -> SUBSET Events]
  BY DEF LogTypes, TypeOK
\* A new plan
<1>3. ASSUME NEW scope \in SUBSET Subs, NEW s \in scope, Resolve(scope), NEW v \in Slots,
             units'[v] = WorkUnit(s)
      PROVE  /\ units'[v].end + Lag <= now'
             /\ \A e \in visible' : Tells(units'[v].from, units'[v].end, units'[v].version,
                                          units'[v].skips, units'[v].due, units'[v].sub, e)
             /\ \A e \in units'[v].due : Gone(e)'
  <2>1. s \in Subs /\ now' = now /\ visible' = visible
    BY <1>3 DEF Resolve, world
  <2>2. /\ units'[v].sub = s /\ units'[v].end = Cutoff /\ units'[v].from = CoverageStart(s)
        /\ units'[v].version = version /\ units'[v].due = Due(s) /\ units'[v].skips = Skips(s)
    BY <1>3, <2>1, WorkUnitOK
  <2>3. now \in Nat /\ Cutoff \in Int /\ CoverageStart(s) \in Int
    BY <2>1, WindowNumbers
  <2>4. Cutoff + Lag <= now
    BY <2>3, LogNumbers DEF Cutoff
  <2>5. ASSUME NEW e \in visible, e.op.sub = s, CoverageStart(s) <= e.at,
               e.at + Overlap < Cutoff, Collects(version, e), e \notin Skips(s)
        PROVE  e \in Due(s)
    <3>1. e.at \in Nat
      BY <1>2, EventFacts
    <3>2. e.at \in CoverageStart(s) .. Cutoff
      BY <2>3, <2>5, <3>1, LogNumbers
    <3> QED BY <1>2, <2>5, <3>2 DEF Due, Span
  <2>6. Due(s) \subseteq visible
    BY DEF Due
  <2> QED BY <2>1, <2>2, <2>4, <2>5, <2>6 DEF Tells, Gone
<1>4. ASSUME NEW v \in Slots, Planned(units'[v])
      PROVE  /\ units'[v].end + Lag <= now'
             /\ \A e \in visible' : Tells(units'[v].from, units'[v].end, units'[v].version,
                                          units'[v].skips, units'[v].due, units'[v].sub, e)
             /\ \A e \in units'[v].due : Gone(e)'
  <2>1. CASE Planned(units[v]) /\ Plan(units'[v]) = Plan(units[v])
    <3>1. /\ units'[v].sub = units[v].sub /\ units'[v].end = units[v].end
          /\ units'[v].from = units[v].from /\ units'[v].version = units[v].version
          /\ units'[v].due = units[v].due /\ units'[v].skips = units[v].skips
      BY <2>1, SamePlanFields
    <3>2. units[v].end \in Int /\ units[v].due \subseteq Events /\ units[v].end + Lag <= now
      BY <2>1, PlannedHere DEF Behind
    <3>3. ASSUME NEW e \in visible'
          PROVE  Tells(units[v].from, units[v].end, units[v].version, units[v].skips,
                       units[v].due, units[v].sub, e)
      <4>1. CASE e \in visible
        BY <2>1, <4>1 DEF PlansTell
      <4>2. CASE e \notin visible
        BY <3>2, <4>2, TooLate DEF Tells
      <4> QED BY <4>1, <4>2
    <3>4. units[v].end + Lag <= now'
      BY <1>1, <3>2, LogNumbers
    <3>5. \A e \in units[v].due : Gone(e)'
      BY <1>1, <2>1, <3>2 DEF GoneIsOld
    <3> QED BY <3>1, <3>3, <3>4, <3>5
  <2>2. CASE \E scope \in SUBSET Subs : Resolve(scope) /\ \E s \in scope : units'[v] = WorkUnit(s)
    BY <1>3, <2>2
  <2> QED BY <1>4, <2>1, <2>2, PlansKept
<1>5. ASSUME NEW s \in Subs
      PROVE  /\ coverage'[s] # NoCoverage =>
                  /\ coverage'[s].end + Lag <= now'
                  /\ \A e \in visible' : Tells(coverage'[s].start, coverage'[s].end,
                        coverage'[s].version, skipped'[s], claimed'[s], s, e)
             /\ \A e \in claimed'[s] : Gone(e)'
  <2>1. CASE /\ coverage'[s] = coverage[s] /\ claimed'[s] = claimed[s]
             /\ skipped'[s] = skipped[s]
    <3>1. \A e \in claimed[s] : Gone(e)'
      BY <1>1, <1>2 DEF GoneIsOld
    <3>2. CASE ~Fresh(s)
      <4>1. coverage[s].end \in Int /\ coverage[s].end + Lag <= now
        BY <3>2, CoverageHere DEF Behind
      <4>2. ASSUME NEW e \in visible'
            PROVE  Tells(coverage[s].start, coverage[s].end, coverage[s].version, skipped[s],
                         claimed[s], s, e)
        <5>1. CASE e \in visible
          BY <3>2, <5>1 DEF ClaimsTell
        <5>2. CASE e \notin visible
          BY <4>1, <5>2, TooLate DEF Tells
        <5> QED BY <5>1, <5>2
      <4>3. coverage[s].end + Lag <= now'
        BY <1>1, <4>1, LogNumbers
      <4> QED BY <2>1, <3>1, <4>2, <4>3
    <3>3. CASE Fresh(s)
      BY <2>1, <3>1, <3>3 DEF Fresh
    <3> QED BY <3>2, <3>3
  <2>2. CASE \E u \in Slots :
               /\ Commit(u) /\ Planned(units[u]) /\ units[u].sub = s
               /\ coverage'[s] = [start |-> units[u].from, end |-> units[u].end,
                                  version |-> units[u].version]
               /\ claimed'[s] = units[u].due /\ skipped'[s] = units[u].skips
    <3>1. PICK u \in Slots :
               /\ Commit(u) /\ Planned(units[u]) /\ units[u].sub = s
               /\ coverage'[s] = [start |-> units[u].from, end |-> units[u].end,
                                  version |-> units[u].version]
               /\ claimed'[s] = units[u].due /\ skipped'[s] = units[u].skips
      BY <2>2
    <3>2. now' = now /\ visible' = visible
      BY <3>1 DEF Commit, world
    <3>3. /\ coverage'[s].start = units[u].from /\ coverage'[s].end = units[u].end
          /\ coverage'[s].version = units[u].version
      BY <3>1
    <3>4. units[u].end + Lag <= now /\ \A e \in units[u].due : Gone(e)
      BY <3>1 DEF Behind, GoneIsOld
    <3>5. \A e \in visible : Tells(units[u].from, units[u].end, units[u].version, units[u].skips,
                                   units[u].due, s, e)
      BY <3>1 DEF PlansTell
    <3> QED BY <3>1, <3>2, <3>3, <3>4, <3>5 DEF Gone
  <2>3. CASE coverage'[s] = NoCoverage /\ claimed'[s] = {}
    BY <2>3
  <2> QED BY <2>1, <2>2, <2>3, CoverageKept
<1>6. Behind' /\ ClaimsTell' /\ PlansTell' /\ GoneIsOld'
  BY <1>4, <1>5 DEF Behind, ClaimsTell, PlansTell, GoneIsOld, Fresh
<1> QED BY <1>1, <1>6

-----------------------------------------------------------------------------
\* What a unit's plan claims is stored already, or on a page still to come
HasRow(e) == rows[e.op] # NoRow
Asked(unit, e) ==
  e.op.sub = unit.sub /\ Collects(unit.version, e) /\ unit.start <= e.at /\ e.at <= unit.end

Storable(unit) ==
  /\ \A e \in unit.due \cap visible : HasRow(e) \/ Asked(unit, e)
  /\ \A e \in unit.returned : HasRow(e)
  /\ unit.place \in {"upload", "write"} =>
       /\ \A e \in unit.page : HasRow(e) \/ unit.batch[e.op] # NoRow
       /\ unit.last => \A e \in unit.due \cap visible :
                         Asked(unit, e) => e \in unit.returned \cup unit.page
  /\ unit.place = "commit" => \A e \in unit.due \cap visible : HasRow(e)

PagesStored == ~torn => \A u \in Slots : Planned(units[u]) => Storable(units[u])

\* What a plan claims, though it does not ask for it, an earlier one claimed
LEMMA NewPlanStorable ==
  ASSUME LogTypes, PlanInv, CoverageStored, ~torn, phase = "idle", NEW s \in Subs
  PROVE  \A e \in Due(s) \cap visible : HasRow(e) \/ Asked(WorkUnit(s), e)
<1> SUFFICES ASSUME NEW e \in Due(s), e \in visible PROVE HasRow(e) \/ Asked(WorkUnit(s), e)
  OBVIOUS
<1>1. /\ e \in Events /\ e.op.sub = s /\ e.at \in CoverageStart(s) .. Cutoff
      /\ Collects(version, e) /\ e \notin Skips(s) /\ e \in Span(s)
  BY DEF Due, Span
<1>2. /\ now \in Nat /\ Cutoff \in Int /\ RetentionStart \in Int /\ Start(s) \in Int
      /\ CoverageStart(s) \in Int /\ e.at \in Nat
  BY <1>1, WindowNumbers, EventFacts
<1>3. CASE Start(s) <= e.at
  <2>1. /\ WorkUnit(s).sub = s /\ WorkUnit(s).start = Start(s) /\ WorkUnit(s).end = Cutoff
        /\ WorkUnit(s).version = version
    BY WorkUnitOK
  <2>2. e.at <= Cutoff
    BY <1>1, <1>2
  <2> QED BY <1>1, <1>3, <2>1, <2>2 DEF Asked
<1>4. CASE ~(Start(s) <= e.at)
  <2>1. ~Fresh(s)
    <3> SUFFICES ASSUME Fresh(s) PROVE FALSE
      OBVIOUS
    <3>1. CoverageStart(s) = Start(s)
      BY DEF CoverageStart
    <3> QED BY <1>1, <1>2, <1>4, <3>1
  <2>2. coverage[s].start \in Int /\ coverage[s].end \in Int
    BY <2>1, CoverageHere
  <2>3. coverage[s].start <= e.at
    <3>1. CoverageStart(s) = Smaller(coverage[s].start, Start(s))
      BY <2>1 DEF CoverageStart
    <3> QED BY <1>1, <1>2, <1>4, <2>2, <3>1 DEF Smaller
  <2>4. /\ e \notin skipped[s]
        /\ Drifted(s) => Collects(coverage[s].version, e) /\ ~(e.at + Overlap >= coverage[s].end)
    BY <1>1, <1>2, <1>4 DEF Skips
  <2>5. Collects(coverage[s].version, e) /\ e.at + Overlap < coverage[s].end
    <3>1. CASE Drifted(s)
      BY <1>2, <2>2, <2>4, <3>1, LogNumbers
    <3>2. CASE ~Drifted(s)
      <4>1. coverage[s].version = version
        BY <2>1, <3>2 DEF Drifted
      <4>2. Start(s) = Larger(coverage[s].end - Overlap, RetentionStart)
        BY <2>1, <3>2 DEF Start, ForwardStart
      <4>3. e.at >= RetentionStart
        BY <1>2, LogNumbers DEF PlanInv, SourceShows, RetentionStart, Cutoff
      <4>4. e.at < coverage[s].end - Overlap
        BY <1>2, <1>4, <2>2, <4>2, <4>3, LogNumbers DEF Larger
      <4> QED BY <1>1, <1>2, <2>2, <4>1, <4>4, LogNumbers
    <3> QED BY <3>1, <3>2
  <2>6. e \in claimed[s]
    BY <1>1, <2>1, <2>3, <2>4, <2>5 DEF PlanInv, ClaimsTell, Tells
  <2> QED BY <1>1, <2>1, <2>6 DEF CoverageStored, HasRow
<1> QED BY <1>3, <1>4

\* Outside a flush rows stay, and torn is what it was
LEMMA RowsStay ==
  ASSUME LogTypes, [Next]_vars, ~torn', ~FlushOperations
  PROVE  ~torn /\ \A o \in Ops : rows[o] # NoRow => rows'[o] # NoRow
<1> DEFINE Goal == ~torn /\ \A o \in Ops : rows[o] # NoRow => rows'[o] # NoRow
<1>1. ASSUME UNCHANGED <<rows, torn>> PROVE Goal
  BY <1>1
<1>2. ASSUME NEW u \in Slots, NEW o \in Ops, WriteRow(u, o) PROVE Goal
  <2>1. rows'[o] # NoRow /\ \A p \in Ops : p # o => rows'[p] = rows[p]
    BY <1>2, WriteMoves
  <2>2. torn' = torn
    BY <1>2 DEF WriteRow
  <2> QED BY <2>1, <2>2
<1>3. ASSUME FlushBreaks PROVE Goal
  BY <1>3 DEF FlushBreaks, LogTypes, TypeOK
<1> HIDE DEF Goal
<1>4. ASSUME \E u \in Slots :
               \/ FetchPage(u) \/ Written(u) \/ Commit(u) \/ OrphanEnds(u) \/ Hydrate(u)
               \/ UnitFails(u) \/ Redelivered(u) \/ Raises(u) \/ \E o \in Ops : Upload(u, o)
      PROVE  Goal
  BY <1>1, <1>4 DEF FetchPage, Written, Commit, OrphanEnds, Hydrate, UnitFails, Redelivered,
                    Raises, Upload, stores
<1>5. ASSUME StartReplay \/ Finish \/ FlushCoverage \/ FlushSpills \/ Tick \/ Deploy
               \/ UNCHANGED vars \/ \E scope \in SUBSET Subs : Resolve(scope)
      PROVE  Goal
  BY <1>1, <1>5 DEF StartReplay, Finish, FlushCoverage, FlushSpills, Tick, Deploy, vars, Resolve,
                    stores
<1>6. ASSUME Appear PROVE Goal
  BY <1>1, <1>6 DEF Appear, Publish, stores
<1>7. ASSUME Step PROVE Goal
  <2>1. Subs \in SUBSET Subs
    OBVIOUS
  <2> QED BY <1>2, <1>4, <1>5, <1>7, <2>1 DEF Step
<1>8. Goal
  BY <1>3, <1>4, <1>5, <1>6, <1>7 DEF Next
<1> QED BY <1>8 DEF Goal

\* A unit that goes on with its plan, and has stored what it says it has
LEMMA GoesOn ==
  ASSUME LogTypes, PlanInv, [Next]_vars, NEW v \in Slots, Planned(units[v]), Storable(units[v]),
         \A o \in Ops : rows[o] # NoRow => rows'[o] # NoRow,
         Plan(units'[v]) = Plan(units[v]),
         \A e \in units'[v].returned : e \in units[v].returned \/ rows'[e.op] # NoRow,
         units[v].returned \subseteq Events,
         units'[v].place \in {"upload", "write"} =>
           /\ \A e \in units'[v].page : rows'[e.op] # NoRow \/ units'[v].batch[e.op] # NoRow
           /\ units'[v].last => \A e \in units[v].due \cap visible :
                Asked(units[v], e) => e \in units'[v].returned \cup units'[v].page,
         units'[v].place = "commit" => \A e \in units[v].due \cap visible : rows'[e.op] # NoRow
  PROVE  Storable(units[v])'
<1>1. /\ units'[v].sub = units[v].sub /\ units'[v].start = units[v].start
      /\ units'[v].end = units[v].end /\ units'[v].version = units[v].version
      /\ units'[v].due = units[v].due
  BY SamePlanFields
<1>2. units[v].due \subseteq Events
  BY PlannedHere
<1>3. \A e \in units[v].due : Gone(e)
  BY DEF PlanInv, GoneIsOld
<1>4. \A e \in units[v].due \cap visible' : e \in visible /\ e \in Events
  <2> SUFFICES ASSUME NEW e \in units[v].due, e \in visible', e \notin visible PROVE FALSE
    BY <1>2
  <2>1. e.at + Delay < now /\ now <= e.at + Delay /\ now \in Int /\ e \in Events
    BY <1>2, <1>3, TimePasses DEF Gone, PlanInv
  <2>2. e.at \in Nat
    BY <2>1, EventFacts
  <2> QED BY <2>1, <2>2, LogNumbers
<1>5. \A e \in Events : rows[e.op] # NoRow => rows'[e.op] # NoRow
  BY EventFacts
<1>6. \A e \in units[v].due \cap visible' : rows'[e.op] # NoRow \/ Asked(units[v], e)
  BY <1>4, <1>5 DEF Storable, HasRow
<1>7. \A e \in units'[v].returned : rows'[e.op] # NoRow
  BY <1>5 DEF Storable, HasRow
<1>8. \A e : Asked(units[v], e) <=> Asked(units'[v], e)
  BY <1>1 DEF Asked
<1>9. units'[v].place \in {"upload", "write"} /\ units'[v].last =>
        \A e \in units'[v].due \cap visible' :
          Asked(units'[v], e) => e \in units'[v].returned \cup units'[v].page
  BY <1>1, <1>4, <1>8
<1>10. units'[v].place = "commit" => \A e \in units'[v].due \cap visible' : rows'[e.op] # NoRow
  BY <1>1, <1>4
<1>11. \A e \in units'[v].due \cap visible' : rows'[e.op] # NoRow \/ Asked(units'[v], e)
  BY <1>1, <1>6, <1>8
<1> QED BY <1>7, <1>9, <1>10, <1>11 DEF Storable, HasRow, Asked, Collects

\* One unit moves; the others are planned as they were
LEMMA PagesNext ==
  ASSUME LogTypes, SpillInv, PlanInv, CoverageStored, PagesStored, [Next]_vars, ~torn',
         NEW v \in Slots, Planned(units'[v])
  PROVE  Storable(units[v])'
<1>1. ~FlushOperations
  BY DEF FlushOperations, Active, Planned
<1>2. ~torn /\ \A o \in Ops : rows[o] # NoRow => rows'[o] # NoRow
  BY <1>1, RowsStay
<1>3. CASE \E scope \in SUBSET Subs : Resolve(scope) /\ \E s \in scope : units'[v] = WorkUnit(s)
  <2>1. PICK scope \in SUBSET Subs :
               Resolve(scope) /\ \E s \in scope : units'[v] = WorkUnit(s)
    BY <1>3
  <2>2. PICK s \in scope : units'[v] = WorkUnit(s)
    BY <2>1
  <2>3. s \in Subs /\ phase = "idle" /\ UNCHANGED <<rows, visible>>
    BY <2>1 DEF Resolve, stores, world
  <2>4. units'[v].due = Due(s) /\ units'[v].returned = {} /\ units'[v].place = "fetch"
    BY <2>2, <2>3, WorkUnitOK
  <2>5. \A e \in Due(s) \cap visible : HasRow(e) \/ Asked(WorkUnit(s), e)
    BY <1>2, <2>3, NewPlanStorable
  <2>6. \A e \in units'[v].due \cap visible' : rows'[e.op] # NoRow \/ Asked(units'[v], e)
    BY <2>2, <2>3, <2>4, <2>5 DEF HasRow, Asked
  <2> QED BY <2>4, <2>6 DEF Storable, HasRow, Asked, Collects
<1>4. CASE Planned(units[v]) /\ Plan(units'[v]) = Plan(units[v])
  <2>1. Storable(units[v])
    BY <1>2, <1>4 DEF PagesStored
  <2>2. /\ Active(v) /\ units[v] \in Unit /\ UnitOK(units[v])
        /\ units[v].returned \subseteq Events /\ units[v].page \subseteq Events
    BY <1>4, PlannedHere DEF Unit
  <2>3. \A e \in Events : e.op \in Ops
    BY EventFacts
  \* A unit at the same place, with the same page and no less of its batch
  <2>4. ASSUME units'[v].returned = units[v].returned, units'[v].page = units[v].page,
               units'[v].last = units[v].last,
               \/ units'[v].place = units[v].place
               \/ {units[v].place, units'[v].place} \subseteq {"upload", "write"},
               \A o \in Ops : units[v].batch[o] # NoRow =>
                 units'[v].batch[o] # NoRow \/ rows'[o] # NoRow
        PROVE  Storable(units[v])'
    <3>1. units'[v].place \in {"upload", "write"} => units[v].place \in {"upload", "write"}
      BY <2>4
    <3>2. units'[v].place \in {"upload", "write"} =>
            /\ \A e \in units'[v].page : rows'[e.op] # NoRow \/ units'[v].batch[e.op] # NoRow
            /\ units'[v].last => \A e \in units[v].due \cap visible :
                 Asked(units[v], e) => e \in units'[v].returned \cup units'[v].page
      BY <1>2, <2>1, <2>2, <2>3, <2>4, <3>1 DEF Storable, HasRow
    <3>3. units'[v].place = "commit" => \A e \in units[v].due \cap visible : rows'[e.op] # NoRow
      <4>1. units'[v].place = "commit" => units[v].place = "commit"
        BY <2>4
      <4>2. units[v].due \subseteq Events
        BY <1>4, PlannedHere
      <4> QED BY <1>2, <2>1, <2>3, <4>1, <4>2 DEF Storable, HasRow
    <3> QED BY <1>2, <1>4, <2>1, <2>2, <2>4, <3>2, <3>3, GoesOn
  <2>5. ASSUME units'[v] = units[v] PROVE Storable(units[v])'
    BY <2>4, <2>5
  <2>6. ASSUME NEW u \in Slots, Others(u), v # u PROVE Storable(units[v])'
    BY <2>5, <2>6 DEF Others
  <2>7. ASSUME FetchPage(v) PROVE Storable(units[v])'
    <3>1. /\ units'[v].returned = units[v].returned
          /\ units'[v].page \subseteq Window(units[v])
          /\ units'[v].last => units[v].due \cap Window(units[v])
                                 \subseteq units[v].returned \cup units'[v].page
          /\ units'[v].batch = Operations(units'[v].page)
          /\ units'[v].place \in {"write", "upload"}
      BY <2>7, FetchMoves
    <3>2. visible \subseteq Events /\ units[v].start \in Int /\ units[v].end \in Int
      BY <2>2 DEF LogTypes, TypeOK, Unit
    <3>3. units'[v].page \in SUBSET Events
      BY <3>1, <3>2 DEF Window
    <3>4. \A e \in units'[v].page : units'[v].batch[e.op] # NoRow
      BY <2>3, <3>1, <3>3, OperationsOK
    <3>5. \A e \in units[v].due \cap visible : Asked(units[v], e) => e \in Window(units[v])
      <4> SUFFICES ASSUME NEW e \in units[v].due, e \in visible, Asked(units[v], e)
                   PROVE  e \in Window(units[v])
        OBVIOUS
      <4>1. e.at \in Nat
        BY <3>2, EventFacts
      <4>2. e.at \in units[v].start .. units[v].end
        BY <3>2, <4>1 DEF Asked
      <4> QED BY <4>2 DEF Asked, Window
    <3>6. units'[v].place # "commit"
      BY <3>1
    <3>7. units'[v].last => \A e \in units[v].due \cap visible :
            Asked(units[v], e) => e \in units'[v].returned \cup units'[v].page
      BY <3>1, <3>5
    <3> QED BY <1>2, <1>4, <2>1, <2>2, <3>1, <3>4, <3>6, <3>7, GoesOn
  <2>8. ASSUME NEW o \in Ops, Upload(v, o) PROVE Storable(units[v])'
    <3>1. Same(units'[v], units[v]) /\ units'[v].batch = units[v].batch
          /\ units'[v].place \in {"write", "upload"} /\ units[v].place = "upload"
      BY <2>8, UploadMoves
    <3> QED BY <2>4, <3>1 DEF Same
  <2>9. ASSUME NEW o \in Ops, WriteRow(v, o) PROVE Storable(units[v])'
    <3>1. Same(units'[v], units[v]) /\ units'[v].batch = [units[v].batch EXCEPT ![o] = NoRow]
          /\ units'[v].place = "write" /\ units[v].place = "write" /\ rows'[o] # NoRow
      BY <2>9, WriteMoves
    <3>2. units[v].batch \in [Ops -> Row \cup {NoRow}]
      BY <2>2 DEF Unit
    <3>3. \A p \in Ops : units[v].batch[p] # NoRow => units'[v].batch[p] # NoRow \/ rows'[p] # NoRow
      BY <3>1, <3>2
    <3> QED BY <2>4, <3>1, <3>3 DEF Same
  <2>10. ASSUME Written(v) PROVE Storable(units[v])'
    <3>1. units[v].work = "page"
      BY <1>4 DEF Planned
    <3>2. /\ units'[v].returned = units[v].returned \cup units[v].page
          /\ units'[v].place = AfterPage(units[v])
          /\ units[v].place = "write" /\ units[v].batch = Empty
      BY <2>10, <3>1, WrittenMoves
    <3>3. \A e \in units[v].page : rows[e.op] # NoRow
      BY <2>1, <2>2, <2>3, <3>2, EmptyOK DEF Storable, HasRow
    <3>4. \A e \in units'[v].returned : e \in units[v].returned \/ rows'[e.op] # NoRow
      BY <1>2, <2>2, <2>3, <3>2, <3>3
    <3>5. units'[v].place = "commit" => \A e \in units[v].due \cap visible : rows'[e.op] # NoRow
      <4> SUFFICES ASSUME units'[v].place = "commit", NEW e \in units[v].due, e \in visible
                   PROVE  rows'[e.op] # NoRow
        OBVIOUS
      <4>1. units[v].last
        BY <3>2 DEF AfterPage
      <4>2. HasRow(e) \/ Asked(units[v], e)
        BY <2>1 DEF Storable
      <4>3. Asked(units[v], e) => e \in units[v].returned \cup units[v].page
        BY <2>1, <3>2, <4>1 DEF Storable
      <4>4. rows[e.op] # NoRow
        BY <2>1, <3>3, <4>2, <4>3 DEF Storable, HasRow
      <4>5. e \in Events
        BY DEF LogTypes, TypeOK
      <4> QED BY <1>2, <2>3, <4>4, <4>5
    <3>6. units'[v].place \notin {"upload", "write"}
      BY <3>2 DEF AfterPage
    <3> QED BY <1>2, <1>4, <2>1, <2>2, <3>4, <3>5, <3>6, GoesOn
  <2>11. ASSUME Commit(v) \/ UnitFails(v) PROVE FALSE
    BY <2>11, EndMoves DEF Planned
  <2>12. ASSUME Redelivered(v) PROVE Storable(units[v])'
    <3>1. units'[v].returned = units[v].returned /\ units'[v].place \in {"fetch", "replay"}
      BY <2>12, AgainMoves
    <3>2. units'[v].place \notin {"upload", "write", "commit"}
      BY <3>1
    <3> QED BY <1>2, <1>4, <2>1, <2>2, <3>1, <3>2, GoesOn
  <2>13. ASSUME Hydrate(v) PROVE FALSE
    BY <1>4, <2>13, HydrateMoves DEF Planned
  <2>14. ASSUME NEW u \in Slots, Raises(u) PROVE Storable(units[v])'
    <3>1. units'[v] = units[v] \/ units'[v] = [units[v] EXCEPT !.orphan = TRUE]
      BY <2>14, RaiseMoves DEF Planned
    <3>2. /\ units'[v].returned = units[v].returned /\ units'[v].page = units[v].page
          /\ units'[v].last = units[v].last /\ units'[v].place = units[v].place
          /\ units'[v].batch = units[v].batch
      BY <2>2, <3>1 DEF Unit
    <3> QED BY <2>4, <3>2
  <2>15. ASSUME StartReplay \/ Finish \/ \E u \in Slots : OrphanEnds(u)
         PROVE  Storable(units[v])'
    <3>1. units'[v] = units[v]
      BY <1>4, <2>15, ReplayMoves, LeaveMoves DEF Planned
    <3> QED BY <2>5, <3>1
  <2>16. ASSUME NEW scope \in SUBSET Subs, Resolve(scope) PROVE Storable(units[v])'
    <3>1. units'[v] = units[v] \/ \E s \in scope : units'[v] = WorkUnit(s)
      BY <2>16, ResolveMoves DEF Planned
    <3> QED BY <1>3, <2>5, <2>16, <3>1
  <2>17. ASSUME units' = units PROVE Storable(units[v])'
    BY <2>5, <2>17
  <2>18. ASSUME NEW u \in Slots, Others(u),
                \/ FetchPage(u) \/ Written(u) \/ Commit(u) \/ UnitFails(u) \/ Redelivered(u)
                \/ Hydrate(u) \/ \E o \in Ops : Upload(u, o) \/ WriteRow(u, o)
         PROVE  Storable(units[v])'
    BY <2>6, <2>7, <2>8, <2>9, <2>10, <2>11, <2>12, <2>13, <2>18
  <2>19. ASSUME NEW u \in Slots,
                \/ FetchPage(u) \/ Written(u) \/ Commit(u) \/ UnitFails(u) \/ Redelivered(u)
                \/ Hydrate(u) \/ \E o \in Ops : Upload(u, o) \/ WriteRow(u, o)
         PROVE  Others(u)
    BY <2>19, FetchMoves, WrittenMoves, EndMoves, AgainMoves, HydrateMoves, UploadMoves, WriteMoves
  <2>20. ASSUME FlushCoverage \/ FlushSpills \/ FlushBreaks PROVE Storable(units[v])'
    BY <2>17, <2>20 DEF FlushCoverage, FlushSpills, FlushBreaks
  <2>21. ASSUME Appear \/ Tick \/ Deploy \/ UNCHANGED vars PROVE Storable(units[v])'
    BY <2>17, <2>21 DEF Appear, Publish, Tick, Deploy, vars
  <2>22. ASSUME Step PROVE Storable(units[v])'
    <3>1. Subs \in SUBSET Subs
      OBVIOUS
    <3> QED BY <2>15, <2>16, <2>18, <2>19, <2>20, <2>22, <3>1 DEF Step
  <2> QED BY <1>1, <2>14, <2>16, <2>18, <2>19, <2>20, <2>21, <2>22 DEF Next
<1> QED BY <1>3, <1>4, PlansKept

\* Between the flush of the operations and that of the coverage no unit is at work
LEMMA StateStays ==
  ASSUME LogTypes, SpillInv, [Next]_vars, ~torn, ~torn', phase = "state", phase' # "state"
  PROVE  FlushCoverage
<1>1. \A u \in Slots : ~Active(u)
  BY DEF SpillInv, FlushedAlone
<1>2. ~FlushBreaks
  BY DEF FlushBreaks
<1>3. ~StartReplay /\ ~Finish /\ ~FlushSpills /\ ~FlushOperations
      /\ ~\E scope \in SUBSET Subs : Resolve(scope)
  BY DEF StartReplay, Finish, FlushSpills, FlushOperations, Resolve
<1>4. \A u \in Slots : ~UnitFails(u) /\ ~Redelivered(u) /\ ~Raises(u)
  BY <1>1 DEF UnitFails, Redelivered, Raises, Working, Own
<1>5. \A u \in Slots : /\ ~FetchPage(u) /\ ~Written(u) /\ ~Commit(u) /\ ~OrphanEnds(u)
                       /\ ~Hydrate(u) /\ \A o \in Ops : ~Upload(u, o) /\ ~WriteRow(u, o)
  BY <1>1 DEF FetchPage, Written, Commit, OrphanEnds, Hydrate, Upload, WriteRow, At
<1>6. ~Appear /\ ~Tick /\ ~Deploy /\ ~UNCHANGED vars
  BY DEF Appear, Publish, Tick, Deploy, vars
<1>7. Subs \in SUBSET Subs
  OBVIOUS
<1> QED BY <1>2, <1>3, <1>4, <1>5, <1>6, <1>7 DEF Next, Step

LEMMA CoverageNext ==
  ASSUME LogTypes, SpillInv, PlanInv, CoverageStored, PagesStored, [Next]_vars
  PROVE  CoverageStored'
<1> SUFFICES ASSUME ~torn', phase' # "state", NEW s \in Subs, NEW e \in Events,
                    coverage'[s] # NoCoverage, e \in visible', e \in claimed'[s]
             PROVE  rows'[e.op] # NoRow
  BY DEF CoverageStored, Fresh
<1>1. ~FlushOperations
  BY DEF FlushOperations
<1>2. ~torn /\ \A o \in Ops : rows[o] # NoRow => rows'[o] # NoRow
  BY <1>1, RowsStay
<1>3. e.op \in Ops /\ e.at \in Nat
  BY EventFacts
<1>4. ASSUME Gone(e) PROVE e \in visible
  <2> SUFFICES ASSUME e \notin visible PROVE FALSE
    OBVIOUS
  <2>1. e.at + Delay < now /\ now <= e.at + Delay /\ now \in Int
    BY <1>4, TimePasses DEF Gone, PlanInv
  <2> QED BY <1>3, <2>1, LogNumbers
<1>5. CASE coverage'[s] = coverage[s] /\ claimed'[s] = claimed[s] /\ ~FlushCoverage
  <2>1. e \in visible
    BY <1>4, <1>5 DEF PlanInv, GoneIsOld
  <2>2. phase # "state"
    BY <1>2, <1>5, StateStays
  <2> QED BY <1>2, <1>3, <1>5, <2>1, <2>2 DEF CoverageStored, Fresh
<1>6. CASE \E u \in Slots : Commit(u) /\ Planned(units[u]) /\ claimed'[s] = units[u].due
  <2>1. PICK u \in Slots : Commit(u) /\ Planned(units[u]) /\ claimed'[s] = units[u].due
    BY <1>6
  <2>2. e \in visible
    BY <1>4, <2>1 DEF PlanInv, GoneIsOld
  <2>3. units[u].place = "commit" /\ Storable(units[u])
    BY <1>2, <2>1 DEF Commit, At, PagesStored
  <2> QED BY <1>2, <1>3, <2>1, <2>2, <2>3 DEF Storable, HasRow
<1>7. CASE FlushCoverage
  BY <1>7 DEF FlushCoverage
<1> QED BY <1>5, <1>6, <1>7, CoverageKept

\* Coverage claims only what was upserted (pipeline.py resolve_plan and write_state;
\* docs/specs/activity-log-history.md 402-410): an event in the source that the
\* coverage of its subscription claims has a row
THEOREM CoverageIsStored == Spec => []CoverageStored
<1> DEFINE Inv == LogTypes /\ SpillInv /\ PlanInv /\ CoverageStored /\ PagesStored
<1>1. Init => Inv
  <2> SUFFICES ASSUME Init PROVE Inv
    OBVIOUS
  <2>1. LogTypes /\ visible = {} /\ units = [u \in Slots |-> NoUnit]
        /\ coverage = [s \in Subs |-> NoCoverage] /\ claimed = [s \in Subs |-> {}]
        /\ rows = Empty /\ phase = "idle"
    BY InitTypes DEF Init
  <2>2. SpillInv
    BY <2>1, EmptySpillsNone
       DEF SpillInv, SpillReachable, BatchesThere, FlushedAlone, At, Active
  <2>3. PlanInv
    BY <2>1 DEF PlanInv, SourceShows, Behind, ClaimsTell, PlansTell, GoneIsOld, Planned, Fresh
  <2>4. CoverageStored /\ PagesStored
    BY <2>1 DEF CoverageStored, PagesStored, Planned, Fresh
  <2> QED BY <2>1, <2>2, <2>3, <2>4
<1>2. Inv /\ [Next]_vars => Inv'
  <2> SUFFICES ASSUME Inv, [Next]_vars PROVE Inv'
    OBVIOUS
  <2>1. LogTypes' /\ SpillInv' /\ PlanInv' /\ CoverageStored'
    BY TypesNext, SpillNext, PlanNext, CoverageNext
  <2>2. PagesStored'
    <3> SUFFICES ASSUME ~torn', NEW v \in Slots, Planned(units'[v]) PROVE Storable(units[v])'
      BY DEF PagesStored, Planned
    <3> QED BY PagesNext
  <2> QED BY <2>1, <2>2
<1>3. Inv => CoverageStored
  OBVIOUS
<1> HIDE DEF Inv
<1> QED BY <1>1, <1>2, <1>3, PTL DEF Spec

-----------------------------------------------------------------------------
(***************************************************************************)
(* Outcomes.  The events of a whole operation are all on a page or none    *)
(* is, so that every assembly of it says the same.                         *)
(***************************************************************************)
Lives(o) == {Outcome(EventsOf(o))}
              \cup IF Outcome(EventsOf(o)) = "pending" THEN {"unknown"} ELSE {}
RowsLive == \A o \in Whole : rows[o] # NoRow => rows[o].outcome \in Lives(o)
BatchesLive ==
  \A u \in Slots : Active(u) => \A o \in Whole : units[u].batch[o] # NoRow =>
    /\ units[u].batch[o].outcome \in Lives(o)
    /\ units[u].batch[o].outcome = "unknown" => units[u].work = "replay"

\* A replay is no orphan, and what it replays is not flushed meanwhile
ReplaysOwn ==
  \A u \in Slots : Active(u) /\ units[u].work = "replay" =>
    /\ phase = "replay" /\ ~units[u].orphan
    /\ \A o \in Ops : units[u].batch[o] # NoRow => rows[o] # NoRow

LifeInv == RowsLive /\ BatchesLive /\ ReplaysOwn

LEMMA WholeOps == Whole \subseteq Ops
BY LogAssumption

LEMMA WholePage ==
  ASSUME NEW page \in SUBSET Events, Unsplit(page), NEW o \in Whole, NEW f \in page, f.op = o
  PROVE  {e \in page : e.op = o} = EventsOf(o)
BY DEF Unsplit, EventsOf

LEMMA LivesTo ==
  ASSUME NEW o \in Whole
  PROVE  /\ Outcome(EventsOf(o)) \in Terminal \cup {"pending"} /\ Outcome(EventsOf(o)) \in Lives(o)
         /\ "unknown" \in Lives(o) => Outcome(EventsOf(o)) = "pending"
         /\ \A x \in Lives(o) : x = Outcome(EventsOf(o)) \/ x = "unknown"
         /\ "pending" \in Lives(o) => "unknown" \in Lives(o)
<1>1. EventsOf(o) \in SUBSET Events
  BY DEF EventsOf
<1>2. PICK out \in Terminal \cup {"pending"} : out = Outcome(EventsOf(o))
  BY <1>1, OutcomeIn
<1>3. out # "unknown"
  BY <1>2 DEF Terminal
<1>4. Lives(o) = {out} \cup IF out = "pending" THEN {"unknown"} ELSE {}
  BY <1>2 DEF Lives
<1> QED BY <1>2, <1>3, <1>4

\* One unit changes
LEMMA LifeOne ==
  ASSUME LogTypes, LifeInv, NEW u \in Slots, Active(u), Others(u), phase' = phase,
         \A o \in Ops : rows[o] # NoRow => rows'[o] # NoRow,
         RowsLive', Kin(units'[u], units[u]),
         \A o \in Ops : units'[u].batch[o] # NoRow =>
           /\ o \in Whole =>
                /\ units'[u].batch[o].outcome \in Lives(o)
                /\ units'[u].batch[o].outcome = "unknown" => units[u].work = "replay"
           /\ units[u].work = "replay" => rows'[o] # NoRow
  PROVE  LifeInv'
<1>1. BatchesLive'
  <2> SUFFICES ASSUME NEW v \in Slots, units'[v] # NoUnit, NEW o \in Whole,
                      units'[v].batch[o] # NoRow
               PROVE  /\ units'[v].batch[o].outcome \in Lives(o)
                      /\ units'[v].batch[o].outcome = "unknown" => units'[v].work = "replay"
    BY DEF BatchesLive, Active, Lives
  <2>1. CASE v = u
    BY <2>1, WholeOps DEF Kin
  <2>2. CASE v # u
    <3>1. units'[v] = units[v]
      BY <2>2 DEF Others
    <3> QED BY <3>1 DEF LifeInv, BatchesLive, Active
  <2> QED BY <2>1, <2>2
<1>2. ReplaysOwn'
  <2> SUFFICES ASSUME NEW v \in Slots, units'[v] # NoUnit, units'[v].work = "replay"
               PROVE  /\ phase' = "replay" /\ ~units'[v].orphan
                      /\ \A o \in Ops : units'[v].batch[o] # NoRow => rows'[o] # NoRow
    BY DEF ReplaysOwn, Active
  <2>1. CASE v = u
    BY <2>1 DEF Kin, LifeInv, ReplaysOwn
  <2>2. CASE v # u
    <3>1. units'[v] = units[v]
      BY <2>2 DEF Others
    <3> QED BY <3>1 DEF LifeInv, ReplaysOwn, Active
  <2> QED BY <2>1, <2>2
<1> QED BY <1>1, <1>2 DEF LifeInv

\* Units leave or begin
LEMMA LifeMany ==
  ASSUME LogTypes, LifeInv, rows' = rows,
         \A v \in Slots : units'[v] # NoUnit =>
           \/ /\ Active(v) /\ units'[v].batch = units[v].batch /\ units'[v].work = units[v].work
              /\ units[v].work = "replay" => phase' = phase /\ units'[v].orphan = units[v].orphan
           \/ /\ units'[v].batch = Empty
              /\ units'[v].work = "replay" => phase' = "replay" /\ ~units'[v].orphan
  PROVE  LifeInv'
<1>1. RowsLive'
  BY DEF LifeInv, RowsLive, Lives
<1>2. BatchesLive'
  <2> SUFFICES ASSUME NEW v \in Slots, units'[v] # NoUnit, NEW o \in Whole,
                      units'[v].batch[o] # NoRow
               PROVE  /\ units'[v].batch[o].outcome \in Lives(o)
                      /\ units'[v].batch[o].outcome = "unknown" => units'[v].work = "replay"
    BY DEF BatchesLive, Active, Lives
  <2>1. Active(v) /\ units'[v].batch = units[v].batch /\ units'[v].work = units[v].work
    BY EmptyOK, WholeOps
  <2> QED BY <2>1 DEF LifeInv, BatchesLive
<1>3. ReplaysOwn'
  <2> SUFFICES ASSUME NEW v \in Slots, units'[v] # NoUnit, units'[v].work = "replay"
               PROVE  /\ phase' = "replay" /\ ~units'[v].orphan
                      /\ \A o \in Ops : units'[v].batch[o] # NoRow => rows'[o] # NoRow
    BY DEF ReplaysOwn, Active
  <2> QED BY EmptyOK DEF LifeInv, ReplaysOwn
<1> QED BY <1>1, <1>2, <1>3 DEF LifeInv

LEMMA RowsLiveStay == ASSUME LifeInv, rows' = rows PROVE RowsLive'
BY DEF LifeInv, RowsLive, Lives

LEMMA LifeNext == ASSUME LogTypes, LifeInv, [Next]_vars PROVE LifeInv'
<1>1. ASSUME NEW u \in Slots, FetchPage(u) PROVE LifeInv'
  <2>1. /\ Others(u) /\ Kin(units'[u], units[u]) /\ units'[u].batch = Operations(units'[u].page)
        /\ units'[u].page \subseteq Window(units[u]) /\ Unsplit(units'[u].page)
    BY <1>1, FetchMoves DEF SamePlan
  <2>2. Active(u) /\ At(u, "fetch") /\ phase' = phase /\ rows' = rows
    BY <1>1 DEF FetchPage, At, stores
  <2>3. units[u].work = "page"
    BY <2>2, UnitHere DEF UnitOK, At
  <2>4. PICK page \in SUBSET Events : page = units'[u].page
    BY <2>1 DEF Window, LogTypes, TypeOK
  <2>5. ASSUME NEW o \in Whole, units'[u].batch[o] # NoRow
        PROVE  /\ units'[u].batch[o].outcome \in Lives(o)
               /\ units'[u].batch[o].outcome # "unknown"
    <3>1. o \in Ops /\ Operations(page)[o] # NoRow
      BY <2>1, <2>4, <2>5, WholeOps
    <3>2. /\ \E e \in page : e.op = o
          /\ Operations(page)[o].outcome = Outcome({e \in page : e.op = o})
      BY <3>1, OperationsOK
    <3>3. {e \in page : e.op = o} = EventsOf(o)
      BY <2>1, <2>4, <3>2, WholePage
    <3>4. units'[u].batch[o].outcome = Outcome(EventsOf(o))
      BY <2>1, <2>4, <3>2, <3>3
    <3> QED BY <3>4, LivesTo DEF Terminal
  <2> QED BY <2>1, <2>2, <2>3, <2>5, LifeOne, RowsLiveStay
<1>2. ASSUME NEW u \in Slots, NEW o \in Ops, Upload(u, o) PROVE LifeInv'
  <2>1. Others(u) /\ Kin(units'[u], units[u]) /\ units'[u].batch = units[u].batch
    BY <1>2, UploadMoves DEF Same, SamePlan
  <2>2. Active(u) /\ phase' = phase /\ rows' = rows
    BY <1>2 DEF Upload, At
  <2> QED BY <2>1, <2>2, LifeOne, RowsLiveStay DEF LifeInv, BatchesLive, ReplaysOwn
<1>3. ASSUME NEW u \in Slots, NEW o \in Ops, WriteRow(u, o) PROVE LifeInv'
  <2>1. /\ Others(u) /\ Kin(units'[u], units[u])
        /\ units'[u].batch = [units[u].batch EXCEPT ![o] = NoRow]
        /\ rows'[o] # NoRow /\ rows'[o].outcome = units[u].batch[o].outcome
        /\ \A p \in Ops : p # o => rows'[p] = rows[p]
    BY <1>3, WriteMoves DEF Same, SamePlan
  <2>2. Active(u) /\ units[u].batch[o] # NoRow /\ phase' = phase
    BY <1>3 DEF WriteRow, At
  <2>3. units[u].batch \in [Ops -> Row \cup {NoRow}]
    BY <2>2, UnitHere DEF Unit
  <2>4. RowsLive'
    <3> SUFFICES ASSUME NEW p \in Whole, rows'[p] # NoRow PROVE rows'[p].outcome \in Lives(p)
      BY DEF RowsLive, Lives
    <3>1. CASE p = o
      BY <2>1, <2>2, <3>1 DEF LifeInv, BatchesLive
    <3>2. CASE p # o
      BY <2>1, <3>2, WholeOps DEF LifeInv, RowsLive
    <3> QED BY <3>1, <3>2
  <2>5. \A p \in Ops : units'[u].batch[p] # NoRow =>
          units[u].batch[p] # NoRow /\ units'[u].batch[p] = units[u].batch[p]
    BY <2>1, <2>3
  <2>6. \A p \in Ops : rows[p] # NoRow => rows'[p] # NoRow
    BY <2>1
  <2>7. \A p \in Ops : units'[u].batch[p] # NoRow =>
           /\ p \in Whole =>
                /\ units'[u].batch[p].outcome \in Lives(p)
                /\ units'[u].batch[p].outcome = "unknown" => units[u].work = "replay"
           /\ units[u].work = "replay" => rows'[p] # NoRow
    BY <2>2, <2>5, <2>6 DEF LifeInv, BatchesLive, ReplaysOwn
  <2> QED BY <2>1, <2>2, <2>4, <2>6, <2>7, LifeOne
<1>4. ASSUME NEW u \in Slots, Written(u) \/ Commit(u) \/ UnitFails(u) \/ Redelivered(u)
      PROVE  LifeInv'
  <2>1. Others(u) /\ Kin(units'[u], units[u]) /\ units'[u].batch = Empty
    BY <1>4, WrittenMoves, EndMoves, AgainMoves DEF SamePlan
  <2>2. Active(u)
    BY <1>4, EndMoves, AgainMoves DEF Written, At
  <2>3. rows' = rows /\ phase' = phase
    BY <1>4 DEF Written, Commit, UnitFails, Redelivered, stores
  <2> QED BY <2>1, <2>2, <2>3, LifeOne, RowsLiveStay, EmptyOK
<1>5. ASSUME NEW u \in Slots, Hydrate(u) PROVE LifeInv'
  <2>1. /\ Others(u) /\ Active(u) /\ Kin(units'[u], units[u]) /\ units[u].work = "replay"
        /\ \A o \in Ops : units'[u].batch[o] # NoRow =>
             /\ rows[o] # NoRow /\ units'[u].batch[o].outcome \in {"unknown", rows[o].outcome}
             /\ units'[u].batch[o].outcome = "unknown" =>
                  rows[o].outcome \in {"pending", "unknown"}
    BY <1>5, HydrateMoves
  <2>2. rows' = rows /\ phase' = phase
    BY <1>5 DEF Hydrate, stores
  <2>3. ASSUME NEW o \in Whole, units'[u].batch[o] # NoRow
        PROVE  units'[u].batch[o].outcome \in Lives(o)
    <3>1. rows[o].outcome \in Lives(o) /\ o \in Ops
      BY <2>1, <2>3, WholeOps DEF LifeInv, RowsLive
    <3> QED BY <2>1, <2>3, <3>1, LivesTo
  <2> QED BY <2>1, <2>2, <2>3, LifeOne, RowsLiveStay
<1>6. ASSUME NEW u \in Slots, Raises(u) PROVE LifeInv'
  <2>1. phase = "collect" /\ rows' = rows
    BY <1>6 DEF Raises, stores
  <2>2. ASSUME NEW v \in Slots, units'[v] # NoUnit
        PROVE  /\ Active(v) /\ units'[v].batch = units[v].batch /\ units'[v].work = units[v].work
               /\ units[v].work # "replay"
    <3>1. Active(v) /\ (units'[v] = units[v] \/ units'[v] = [units[v] EXCEPT !.orphan = TRUE])
      BY <1>6, <2>2, RaiseMoves
    <3>2. units[v] \in Unit
      BY <3>1, UnitHere
    <3>3. units[v].work # "replay"
      BY <2>1, <3>1 DEF LifeInv, ReplaysOwn
    <3> QED BY <3>1, <3>2, <3>3 DEF Unit
  <2> QED BY <2>1, <2>2, LifeMany
<1>7. ASSUME StartReplay PROVE LifeInv'
  <2>1. phase = "collect" /\ phase' = "replay" /\ rows' = rows
    BY <1>7 DEF StartReplay, stores
  <2>2. ASSUME NEW v \in Slots, units'[v] # NoUnit
        PROVE  \/ /\ Active(v) /\ units'[v].batch = units[v].batch /\ units'[v].work = units[v].work
                  /\ units[v].work # "replay"
               \/ units'[v].batch = Empty /\ ~units'[v].orphan
    <3>1. Active(v) => units[v].work # "replay"
      BY <2>1 DEF LifeInv, ReplaysOwn
    <3> QED BY <1>7, <2>2, <3>1, ReplayMoves
  <2> QED BY <2>1, <2>2, LifeMany
<1>8. ASSUME Finish PROVE LifeInv'
  <2>1. rows' = rows
    BY <1>8 DEF Finish, stores
  <2>2. ASSUME NEW v \in Slots, units'[v] # NoUnit
        PROVE  Active(v) /\ units'[v] = units[v] /\ units[v].work # "replay"
    <3>1. Active(v) /\ units'[v] = units[v] /\ units[v].orphan
      BY <1>8, <2>2, LeaveMoves
    <3> QED BY <3>1 DEF LifeInv, ReplaysOwn
  <2> QED BY <2>1, <2>2, LifeMany
<1>9. ASSUME NEW u \in Slots, OrphanEnds(u) PROVE LifeInv'
  <2>1. rows' = rows /\ phase' = phase
    BY <1>9 DEF OrphanEnds, stores
  <2>2. \A v \in Slots : units'[v] # NoUnit => Active(v) /\ units'[v] = units[v]
    BY <1>9, LeaveMoves
  <2> QED BY <2>1, <2>2, LifeMany
<1>10. ASSUME NEW scope \in SUBSET Subs, Resolve(scope) PROVE LifeInv'
  <2>1. phase = "idle" /\ rows' = rows
    BY <1>10 DEF Resolve, stores
  <2>2. ASSUME NEW v \in Slots, units'[v] # NoUnit
        PROVE  \/ Active(v) /\ units'[v] = units[v] /\ units[v].work # "replay"
               \/ units'[v].batch = Empty /\ units'[v].work = "page"
    <3>1. \/ units'[v] = units[v] /\ Active(v)
          \/ \E s \in scope : units'[v] = WorkUnit(s)
      BY <1>10, <2>2, ResolveMoves
    <3>2. \A s \in scope : WorkUnit(s).batch = Empty /\ WorkUnit(s).work = "page"
      BY WorkUnitOK
    <3>3. Active(v) => units[v].work # "replay"
      BY <2>1 DEF LifeInv, ReplaysOwn
    <3> QED BY <3>1, <3>2, <3>3
  <2> QED BY <2>1, <2>2, LifeMany
<1>11. ASSUME FlushOperations PROVE LifeInv'
  <2>1. rows' = Empty /\ units' = units /\ phase = "idle"
    BY <1>11 DEF FlushOperations
  <2>2. \A u \in Slots : Active(u) => units[u].work # "replay"
    BY <2>1 DEF LifeInv, ReplaysOwn
  <2>3. RowsLive'
    BY <2>1, EmptyOK, WholeOps DEF RowsLive
  <2>4. BatchesLive'
    BY <2>1 DEF LifeInv, BatchesLive, Active, Lives
  <2>5. ReplaysOwn'
    BY <2>1, <2>2 DEF ReplaysOwn, Active
  <2> QED BY <2>3, <2>4, <2>5 DEF LifeInv
<1>12. ASSUME FlushCoverage \/ FlushSpills \/ FlushBreaks PROVE LifeInv'
  <2>1. rows' = rows /\ units' = units /\ phase # "replay"
    BY <1>12 DEF FlushCoverage, FlushSpills, FlushBreaks
  <2>2. \A v \in Slots : units'[v] # NoUnit =>
          Active(v) /\ units'[v] = units[v] /\ units[v].work # "replay"
    BY <2>1 DEF LifeInv, ReplaysOwn, Active
  <2> QED BY <2>1, <2>2, LifeMany
<1>13. ASSUME UNCHANGED <<rows, units, phase>> PROVE LifeInv'
  <2>1. \A v \in Slots : units'[v] # NoUnit => Active(v) /\ units'[v] = units[v]
    BY <1>13 DEF Active
  <2> QED BY <1>13, <2>1, LifeMany
<1>14. ASSUME Appear \/ Tick \/ Deploy \/ UNCHANGED vars PROVE LifeInv'
  BY <1>13, <1>14 DEF Appear, Publish, Tick, Deploy, vars, stores
<1>15. ASSUME Step PROVE LifeInv'
  <2>1. Subs \in SUBSET Subs
    OBVIOUS
  <2> QED BY <1>1, <1>2, <1>3, <1>4, <1>5, <1>7, <1>8, <1>9, <1>10, <1>12, <1>15, <2>1 DEF Step
<1> QED BY <1>4, <1>6, <1>10, <1>11, <1>12, <1>14, <1>15 DEF Next

\* Outside a flush and the write of a row no outcome changes
LEMMA OutcomesKept ==
  ASSUME LogTypes, [Next]_vars
  PROVE  \/ rows' = rows \/ FlushOperations
         \/ \E u \in Slots, o \in Ops : WriteRow(u, o)
<1> DEFINE Goal == rows' = rows \/ FlushOperations \/ \E u \in Slots, o \in Ops : WriteRow(u, o)
<1>1. ASSUME \E u \in Slots :
               \/ FetchPage(u) \/ Written(u) \/ Commit(u) \/ OrphanEnds(u) \/ Hydrate(u)
               \/ UnitFails(u) \/ Redelivered(u) \/ Raises(u) \/ \E o \in Ops : Upload(u, o)
      PROVE  rows' = rows
  BY <1>1 DEF FetchPage, Written, Commit, OrphanEnds, Hydrate, UnitFails, Redelivered,
              Raises, Upload, stores
<1>2. ASSUME StartReplay \/ Finish \/ FlushCoverage \/ FlushSpills \/ FlushBreaks \/ Tick \/ Deploy
               \/ UNCHANGED vars \/ \E scope \in SUBSET Subs : Resolve(scope)
      PROVE  rows' = rows
  BY <1>2 DEF StartReplay, Finish, FlushCoverage, FlushSpills, FlushBreaks, Tick, Deploy, vars,
              Resolve, stores
<1>3. ASSUME Appear PROVE rows' = rows
  BY <1>3 DEF Appear, Publish, stores
<1>4. ASSUME Step PROVE Goal
  <2>1. Subs \in SUBSET Subs
    OBVIOUS
  <2> QED BY <1>1, <1>2, <1>4, <2>1 DEF Step
<1> QED BY <1>1, <1>2, <1>3, <1>4 DEF Next

LEMMA LifeStep ==
  ASSUME LogTypes, LifeInv, [Next]_vars
  PROVE  [WholeLife!Next]_([o \in Whole |-> OutcomeOf(o)])
<1> DEFINE outcome == [o \in Whole |-> OutcomeOf(o)]
<1>1. CASE rows' = rows
  BY <1>1 DEF OutcomeOf
<1>2. CASE FlushOperations
  <2>1. \A o \in Whole : rows'[o] = NoRow
    BY <1>2, EmptyOK, WholeOps DEF FlushOperations
  <2>2. WholeLife!Flush
    BY <2>1 DEF WholeLife!Flush, OutcomeOf
  <2> QED BY <2>2 DEF WholeLife!Next
<1>3. CASE \E u \in Slots, o \in Ops : WriteRow(u, o)
  <2>1. PICK u \in Slots, o \in Ops : WriteRow(u, o)
    BY <1>3
  <2>2. /\ rows'[o] # NoRow /\ rows'[o].outcome = units[u].batch[o].outcome
        /\ \A p \in Ops : p # o => rows'[p] = rows[p]
    BY <2>1, WriteMoves
  <2>3. \A p \in Whole : p # o => OutcomeOf(p)' = OutcomeOf(p)
    BY <2>2, WholeOps DEF OutcomeOf
  <2>4. CASE o \notin Whole
    <3>1. outcome' = outcome
      BY <2>3, <2>4
    <3> QED BY <3>1
  <2>5. CASE o \in Whole
    <3>1. PICK before, after : before = OutcomeOf(o) /\ after = OutcomeOf(o)'
      OBVIOUS
    <3>2. outcome' = [outcome EXCEPT ![o] = after] /\ outcome[o] = before
      BY <2>3, <2>5, <3>1
    <3>3. Active(u) /\ units[u].batch[o] # NoRow
      BY <2>1 DEF WriteRow, At
    <3>4. /\ after \in Lives(o) /\ after = units[u].batch[o].outcome
          /\ after = "unknown" => rows[o] # NoRow
      BY <2>2, <2>5, <3>1, <3>3 DEF LifeInv, BatchesLive, ReplaysOwn, OutcomeOf
    <3>5. (before = "absent" /\ rows[o] = NoRow) \/ before \in Lives(o)
      BY <2>5, <3>1 DEF LifeInv, RowsLive, OutcomeOf
    <3>6. PICK final \in Terminal \cup {"pending"} : final = Outcome(EventsOf(o))
      BY <2>5, LivesTo
    <3>7. after = final \/ (after = "unknown" /\ final = "pending")
      BY <2>5, <3>4, <3>6, LivesTo
    <3>8. before = "absent" \/ before = final \/ (before = "unknown" /\ final = "pending")
      BY <2>5, <3>5, <3>6, LivesTo
    <3>9. before = "absent" => after = final
      <4>1. final # "absent"
        BY <3>6 DEF Terminal
      <4> QED BY <3>4, <3>5, <3>6, <3>7, <4>1, <2>5, LivesTo
    <3>10. after = before \/ <<before, after>> \in WholeLife!Transitions
      BY <3>6, <3>7, <3>8, <3>9 DEF WholeLife!Transitions, WholeLife!Terminals, Terminal
    <3>11. after \in WholeLife!Outcomes
      BY <3>6, <3>7 DEF WholeLife!Outcomes, WholeLife!Terminals, Terminal
    <3>12. CASE after = before
      BY <3>2, <3>12
    <3>13. CASE <<before, after>> \in WholeLife!Transitions
      <4>1. WholeLife!Become(o, after)
        BY <3>2, <3>13 DEF WholeLife!Become
      <4> QED BY <2>5, <3>11, <4>1 DEF WholeLife!Next
    <3> QED BY <3>10, <3>12, <3>13
  <2> QED BY <2>4, <2>5
<1> QED BY <1>1, <1>2, <1>3, OutcomesKept

\* The outcomes of operations whose events come together follow the document's
\* table of transitions (docs/specs/activity-log-history.md, section 8; assembly.py
\* _outcome, pipeline.py _reconcile_operation), but for an operation that is
\* assembled again after it was given up
THEOREM OutcomesFollowLife == Spec => FollowsLife
<1>1. Init => LogTypes /\ LifeInv
  <2> SUFFICES ASSUME Init PROVE LogTypes /\ LifeInv
    OBVIOUS
  <2>1. LogTypes /\ rows = Empty /\ units = [u \in Slots |-> NoUnit]
    BY InitTypes DEF Init
  <2> QED BY <2>1, EmptyOK, WholeOps DEF LifeInv, RowsLive, BatchesLive, ReplaysOwn, Active
<1>2. Init => WholeLife!Init
  BY EmptyOK, WholeOps DEF Init, WholeLife!Init, OutcomeOf
<1>3. LogTypes /\ LifeInv /\ [Next]_vars => LogTypes' /\ LifeInv'
  BY TypesNext, LifeNext
<1>4. LogTypes /\ LifeInv /\ [Next]_vars => [WholeLife!Next]_([o \in Whole |-> OutcomeOf(o)])
  BY LifeStep
<1> QED BY <1>1, <1>2, <1>3, <1>4, PTL DEF Spec, FollowsLife, WholeLife!Spec

=============================================================================
