----------------------------- MODULE CoverageProofs -----------------------------
(***************************************************************************)
(* Theorems of CoverageDecisions, for any users, machines, subscriptions,  *)
(* size of transaction and number of attempts, and of CoverageReport, for  *)
(* any pools, reservations and flags.                                      *)
(***************************************************************************)
EXTENDS CoverageDecisions, CoverageReport, FiniteSetTheorems, TLAPS

\* Types, without the bounds that the constants put on what is numbered
RowsHold ==
  /\ written \in Nat
  /\ decisions \in [Vms -> [by : Users \cup {Nobody}, order : Nat, with : SUBSET Vms]]
  /\ \A v \in Vms : decisions[v].order <= written

ChangesHold ==
  /\ change \in [Users -> [pc : {"idle", "check", "write", "ok", "failed"}, vms : SUBSET Vms,
                           left : SUBSET Vms, asked : Nat, since : Nat]]
  /\ \A u \in Users : change[u].since <= written

\* What is no longer left to write has been written since the change was asked for
Progress(u) ==
  /\ change[u].pc = "check" => change[u].left = change[u].vms
  /\ change[u].pc = "ok" => change[u].left = {}
  /\ change[u].pc \in {"write", "ok"} =>
       \A v \in change[u].vms \ change[u].left : decisions[v].order > change[u].since

DecisionInv == RowsHold /\ ChangesHold /\ TransactionsWhole /\ \A u \in Users : Progress(u)

-------------------------------------------------------------------------------
LEMMA DecisionInitInv == DecisionInit => DecisionInv
BY DEF DecisionInit, DecisionInv, RowsHold, ChangesHold, TransactionsWhole, Progress

\* A transaction, whether or not it was applied, leaves whole what was whole and
\* makes no machine show anything older
LEMMA UpsertWhole ==
  ASSUME RowsHold, TransactionsWhole, NEW u \in Users, NEW batch \in SUBSET Vms,
         NEW applied \in AllOrNone(batch), Upsert(u, batch, applied)
  PROVE  /\ RowsHold' /\ TransactionsWhole' /\ written <= written'
         /\ \A v \in Vms : decisions[v].order <= decisions'[v].order
         /\ \A v \in applied : decisions'[v].order > written
<1>1. /\ written \in Nat /\ \A v \in Vms : decisions[v].order \in Nat /\ decisions[v].with \subseteq Vms
      /\ \A v \in Vms : decisions[v].order <= written
  BY DEF RowsHold
<1>2. CASE applied = {}
  <2>1. written' = written /\ decisions' = [v \in Vms |-> decisions[v]]
    BY <1>2 DEF Upsert
  <2>2. decisions' = decisions
    BY <2>1 DEF RowsHold
  <2> QED BY <1>1, <1>2, <2>1, <2>2 DEF RowsHold, TransactionsWhole
<1>3. CASE applied = batch /\ applied # {}
  <2>1. written' = written + 1
    BY <1>3 DEF Upsert
  <2>2. ASSUME NEW v \in Vms
        PROVE  /\ v \in batch => decisions'[v] = [by |-> u, order |-> written + 1, with |-> batch]
               /\ v \notin batch => decisions'[v] = decisions[v]
    BY <1>3 DEF Upsert
  <2>3. RowsHold'
    <3>1. decisions' \in [Vms -> [by : Users \cup {Nobody}, order : Nat, with : SUBSET Vms]]
      <4>1. written + 1 \in Nat /\ DOMAIN decisions' = Vms
        BY <1>1 DEF Upsert
      <4>2. \A v \in Vms : decisions'[v] \in [by : Users \cup {Nobody}, order : Nat, with : SUBSET Vms]
        BY <2>2, <4>1 DEF RowsHold
      <4>3. decisions' = [v \in Vms |-> decisions'[v]]
        BY DEF Upsert
      <4> QED BY <4>2, <4>3
    <3> QED BY <1>1, <2>1, <2>2, <3>1 DEF RowsHold
  <2>4. TransactionsWhole'
    <3> SUFFICES ASSUME NEW v \in Vms, NEW w \in decisions'[v].with
                 PROVE  decisions'[w].order >= decisions'[v].order
      BY DEF TransactionsWhole
    <3>1. CASE v \in batch
      BY <1>1, <2>2, <3>1
    <3>2. CASE v \notin batch
      BY <1>1, <2>2, <3>2 DEF TransactionsWhole
    <3> QED BY <3>1, <3>2
  <2>5. \A v \in Vms : decisions[v].order <= decisions'[v].order
    BY <1>1, <2>2
  <2>6. \A v \in applied : decisions'[v].order > written
    BY <1>1, <1>3, <2>2
  <2> QED BY <1>1, <2>1, <2>3, <2>4, <2>5, <2>6
<1> QED BY <1>2, <1>3 DEF AllOrNone

\* What others write does not undo the progress of a change
LEMMA OthersProgress ==
  ASSUME DecisionInv, NEW u \in Users, change'[u] = change[u], RowsHold',
         \A v \in Vms : decisions[v].order <= decisions'[v].order
  PROVE  Progress(u)'
<1>1. /\ change[u].vms \subseteq Vms /\ change[u].since \in Nat
      /\ \A v \in Vms : decisions[v].order \in Nat /\ decisions'[v].order \in Nat
  BY DEF DecisionInv, RowsHold, ChangesHold
<1> QED BY <1>1 DEF DecisionInv, Progress

-------------------------------------------------------------------------------
LEMMA AsksInv == ASSUME DecisionInv, NEW u \in Users, Asks(u) PROVE DecisionInv'
<1>1. /\ change' = [change EXCEPT ![u].pc = "check", ![u].left = change[u].vms,
                              ![u].asked = @ + 1, ![u].since = written]
      /\ UNCHANGED <<decisions, written>>
  BY DEF Asks
<1>2. RowsHold' /\ TransactionsWhole'
  BY <1>1 DEF DecisionInv, RowsHold, TransactionsWhole
<1>3. ChangesHold'
  BY <1>1 DEF DecisionInv, RowsHold, ChangesHold
<1>4. change'[u].pc = "check" /\ change'[u].left = change'[u].vms
  BY <1>1 DEF DecisionInv, ChangesHold
<1>5. Progress(u)'
  BY <1>4 DEF Progress
<1>6. ASSUME NEW o \in Users, o # u PROVE Progress(o)'
  <2>1. change'[o] = change[o]
    BY <1>1, <1>6 DEF DecisionInv, ChangesHold
  <2> QED BY <1>1, <2>1 DEF DecisionInv, Progress
<1> QED BY <1>2, <1>3, <1>5, <1>6 DEF DecisionInv

LEMMA ChecksInv == ASSUME DecisionInv, NEW u \in Users, Checks(u) PROVE DecisionInv'
<1>0. PICK pc \in {"write", "failed"} : change' = [change EXCEPT ![u].pc = pc]
  BY DEF Checks
<1>1. change[u].pc = "check" /\ UNCHANGED <<decisions, written>>
  BY DEF Checks
<1>2. RowsHold' /\ TransactionsWhole'
  BY <1>1 DEF DecisionInv, RowsHold, TransactionsWhole
<1>3. ChangesHold'
  BY <1>0, <1>1 DEF DecisionInv, ChangesHold
<1>4. /\ change'[u].pc \in {"write", "failed"} /\ change'[u].left = change[u].left
      /\ change'[u].vms = change[u].vms /\ change[u].left = change[u].vms
  BY <1>0, <1>1 DEF DecisionInv, ChangesHold, Progress
<1>5. Progress(u)'
  BY <1>4 DEF Progress
<1>6. ASSUME NEW o \in Users, o # u PROVE Progress(o)'
  <2>1. change'[o] = change[o]
    BY <1>0, <1>6 DEF DecisionInv, ChangesHold
  <2> QED BY <1>1, <2>1 DEF DecisionInv, Progress
<1> QED BY <1>2, <1>3, <1>5, <1>6 DEF DecisionInv

LEMMA SubmitInv == ASSUME DecisionInv, NEW u \in Users, SubmitTransaction(u) PROVE DecisionInv'
<1>0. PICK batch \in Batches(change[u].left) :
        /\ Upsert(u, batch, batch)
        /\ LET left == change[u].left \ batch
           IN  change' = [change EXCEPT ![u].left = left,
                                        ![u].pc = IF AllSlices(left) THEN "ok" ELSE "write"]
  BY DEF SubmitTransaction
<1> DEFINE left == change[u].left \ batch
           pc == IF AllSlices(left) THEN "ok" ELSE "write"
<1>1. /\ change[u].pc = "write" /\ change[u].left \subseteq Vms /\ change[u].vms \subseteq Vms
      /\ change[u].since \in Nat /\ change[u].since <= written
  BY DEF SubmitTransaction, DecisionInv, ChangesHold
<1>2. batch \in SUBSET Vms /\ batch \in AllOrNone(batch) /\ batch \subseteq change[u].left
  BY <1>1 DEF Batches, AllOrNone
<1>3. /\ RowsHold' /\ TransactionsWhole' /\ written <= written'
      /\ \A v \in Vms : decisions[v].order <= decisions'[v].order
      /\ \A v \in batch : decisions'[v].order > written
  BY <1>0, <1>2, UpsertWhole DEF DecisionInv
<1>4. pc \in {"ok", "write"} /\ (pc = "ok" => left = {})
  BY DEF AllSlices
<1>5. left \in SUBSET Vms /\ change' = [change EXCEPT ![u].left = left, ![u].pc = pc]
  BY <1>0, <1>1
<1> HIDE DEF pc
<1>6. /\ change'[u].pc = pc /\ change'[u].left = left /\ change'[u].vms = change[u].vms
      /\ change'[u].since = change[u].since
  BY <1>5 DEF DecisionInv, ChangesHold
<1>7. ChangesHold'
  <2>1. change' \in [Users -> [pc : {"idle", "check", "write", "ok", "failed"}, vms : SUBSET Vms,
                               left : SUBSET Vms, asked : Nat, since : Nat]]
    BY <1>4, <1>5 DEF DecisionInv, ChangesHold
  <2>2. ASSUME NEW o \in Users PROVE change'[o].since = change[o].since
    BY <1>5, <1>6 DEF DecisionInv, ChangesHold
  <2> QED BY <1>3, <2>1, <2>2 DEF DecisionInv, RowsHold, ChangesHold
<1>8. Progress(u)'
  <2>1. ASSUME NEW v \in change[u].vms \ left PROVE decisions'[v].order > change[u].since
    <3>1. /\ decisions[v].order \in Nat /\ decisions'[v].order \in Nat /\ written \in Nat
          /\ decisions[v].order <= decisions'[v].order
      BY <1>1, <1>3 DEF DecisionInv, RowsHold
    <3>2. CASE v \in batch
      BY <1>1, <1>3, <3>1, <3>2
    <3>3. CASE v \notin batch
      BY <1>1, <3>1, <3>3 DEF DecisionInv, Progress
    <3> QED BY <3>2, <3>3
  <2> QED BY <1>4, <1>6, <2>1 DEF Progress
<1>9. ASSUME NEW o \in Users, o # u PROVE Progress(o)'
  <2>1. change'[o] = change[o]
    BY <1>5, <1>9 DEF DecisionInv, ChangesHold
  <2> QED BY <1>3, <2>1, OthersProgress
<1> QED BY <1>3, <1>7, <1>8, <1>9 DEF DecisionInv

LEMMA FailsInv == ASSUME DecisionInv, NEW u \in Users, TransactionFails(u) PROVE DecisionInv'
<1>0. PICK batch \in Batches(change[u].left) : \E applied \in AllOrNone(batch) :
        Upsert(u, batch, applied)
  BY DEF TransactionFails
<1>1. PICK applied \in AllOrNone(batch) : Upsert(u, batch, applied)
  BY <1>0
<1>2. /\ change' = [change EXCEPT ![u].pc = "failed", ![u].left = {}]
      /\ change[u].left \subseteq Vms
  BY DEF TransactionFails, DecisionInv, ChangesHold
<1>3. batch \in SUBSET Vms
  BY <1>2 DEF Batches
<1>4. /\ RowsHold' /\ TransactionsWhole' /\ written <= written'
      /\ \A v \in Vms : decisions[v].order <= decisions'[v].order
  BY <1>1, <1>3, UpsertWhole DEF DecisionInv
<1>5. ChangesHold'
  <2>1. change' \in [Users -> [pc : {"idle", "check", "write", "ok", "failed"}, vms : SUBSET Vms,
                               left : SUBSET Vms, asked : Nat, since : Nat]]
    BY <1>2 DEF DecisionInv, ChangesHold
  <2>2. ASSUME NEW o \in Users PROVE change'[o].since = change[o].since
    BY <1>2 DEF DecisionInv, ChangesHold
  <2> QED BY <1>4, <2>1, <2>2 DEF DecisionInv, RowsHold, ChangesHold
<1>6. Progress(u)'
  <2>1. change'[u].pc = "failed"
    BY <1>2 DEF DecisionInv, ChangesHold
  <2> QED BY <2>1 DEF Progress
<1>7. ASSUME NEW o \in Users, o # u PROVE Progress(o)'
  <2>1. change'[o] = change[o]
    BY <1>2, <1>7 DEF DecisionInv, ChangesHold
  <2> QED BY <1>4, <2>1, OthersProgress
<1> QED BY <1>4, <1>5, <1>6, <1>7 DEF DecisionInv

LEMMA DecisionStepInv == ASSUME DecisionInv, [DecisionNext]_decisionVars PROVE DecisionInv'
<1>1. CASE UNCHANGED decisionVars
  BY <1>1 DEF decisionVars, DecisionInv, RowsHold, ChangesHold, TransactionsWhole, Progress
<1>2. ASSUME NEW u \in Users, Asks(u) \/ Checks(u) \/ SubmitTransaction(u) \/ TransactionFails(u)
      PROVE  DecisionInv'
  BY <1>2, AsksInv, ChecksInv, SubmitInv, FailsInv
<1> QED BY <1>1, <1>2 DEF DecisionNext

LEMMA DecisionInvariant == DecisionSpec => []DecisionInv
<1>1. DecisionInv /\ [DecisionNext]_decisionVars => DecisionInv'
  BY DecisionStepInv
<1> QED BY <1>1, DecisionInitInv, PTL DEF DecisionSpec

\* odcr_coverage_store.py 63-84: however users and failures alternate, the machines
\* of one transaction show all of it, or what was written later
THEOREM TransactionsAreWhole == DecisionSpec => []TransactionsWhole
<1>1. DecisionInv => TransactionsWhole
  BY DEF DecisionInv
<1> QED BY <1>1, DecisionInvariant, PTL

\* odcr_coverage_store.py 63-69: a change that is answered for has reached all its
\* machines, in whatever slices and after whatever failures
THEOREM AnsweredIsWritten == DecisionSpec => []AnsweredWritten
<1>1. DecisionInv => AnsweredWritten
  <2> SUFFICES ASSUME DecisionInv, NEW u \in Users, change[u].pc = "ok", NEW v \in change[u].vms
               PROVE  decisions[v].order > change[u].since
    BY DEF AnsweredWritten
  <2> QED BY DEF DecisionInv, Progress
<1> QED BY <1>1, DecisionInvariant, PTL

-------------------------------------------------------------------------------
(***************************************************************************)
(* How many transactions there can be.                                     *)
(***************************************************************************)
\* A machine that an attempt has no longer to write is spent for that attempt: it
\* was written, it was never asked for, or the attempt has failed
Spent == {t \in Users \X ((1 .. MaxAsked) \X Vms) :
            \/ t[2][1] < change[t[1]].asked
            \/ t[2][1] = change[t[1]].asked /\ t[2][2] \notin change[t[1]].left}

CountInv ==
  /\ \A u \in Users : /\ change[u].asked <= MaxAsked
                      /\ change[u].pc # "idle" => change[u].asked >= 1
  /\ written <= Cardinality(Spent)

LEMMA SpentBound ==
  ASSUME NEW S \in SUBSET (Users \X ((1 .. MaxAsked) \X Vms))
  PROVE  /\ IsFiniteSet(S) /\ Cardinality(S) \in Nat /\ MaxWritten \in Nat
         /\ Cardinality(S) <= MaxWritten
<1> DEFINE All == Users \X ((1 .. MaxAsked) \X Vms)
<1>1. IsFiniteSet(1 .. MaxAsked) /\ Cardinality(1 .. MaxAsked) = MaxAsked
  BY FS_Interval, DecisionAssumption
<1>2. /\ IsFiniteSet((1 .. MaxAsked) \X Vms)
      /\ Cardinality((1 .. MaxAsked) \X Vms) = MaxAsked * Cardinality(Vms)
  BY <1>1, FS_Product, DecisionAssumption
<1>3. IsFiniteSet(All) /\ Cardinality(All) = Cardinality(Users) * (MaxAsked * Cardinality(Vms))
  BY <1>2, FS_Product, DecisionAssumption
<1>4. Cardinality(Users) \in Nat /\ Cardinality(Vms) \in Nat /\ MaxAsked \in Nat
  BY FS_CardinalityType, DecisionAssumption
<1>5. Cardinality(All) = MaxWritten /\ MaxWritten \in Nat
  <2> HIDE DEF All
  <2> QED BY <1>3, <1>4 DEF MaxWritten
<1>6. IsFiniteSet(S) /\ Cardinality(S) <= Cardinality(All)
  BY <1>3, FS_Subset
<1> QED BY <1>5, <1>6, FS_CardinalityType

LEMMA OneMore ==
  ASSUME NEW S, NEW T, IsFiniteSet(T), S \subseteq T
  PROVE  /\ Cardinality(S) <= Cardinality(T)
         /\ \A x \in T \ S : Cardinality(S) + 1 <= Cardinality(T)
<1>1. IsFiniteSet(S) /\ Cardinality(S) <= Cardinality(T)
  BY FS_Subset
<1>2. ASSUME NEW x \in T \ S PROVE Cardinality(S) + 1 <= Cardinality(T)
  <2>1. Cardinality(S \cup {x}) = Cardinality(S) + 1
    BY <1>1, <1>2, FS_AddElement
  <2>2. S \cup {x} \in SUBSET T
    BY <1>2
  <2>3. Cardinality(S \cup {x}) <= Cardinality(T)
    BY <2>2, FS_Subset
  <2> QED BY <2>1, <2>3
<1> QED BY <1>1, <1>2

\* A transaction that is written spends what its batch has left
LEMMA CountGrows ==
  ASSUME CountInv, Spent \subseteq Spent', written \in Nat,
         written' = written \/ (written' = written + 1 /\ \E x \in Spent' : x \notin Spent)
  PROVE  written' <= Cardinality(Spent)'
<1>1. PICK S : S = Spent
  OBVIOUS
<1>2. PICK T : T = Spent'
  OBVIOUS
<1>3. S \in SUBSET (Users \X ((1 .. MaxAsked) \X Vms)) /\ T \in SUBSET (Users \X ((1 .. MaxAsked) \X Vms))
  BY <1>1, <1>2 DEF Spent
<1>4. IsFiniteSet(T) /\ Cardinality(S) \in Nat /\ Cardinality(T) \in Nat
  BY <1>3, SpentBound
<1>5. written <= Cardinality(S) /\ S \subseteq T
  BY <1>1, <1>2 DEF CountInv
<1>6. /\ Cardinality(S) <= Cardinality(T)
      /\ \A x \in T \ S : Cardinality(S) + 1 <= Cardinality(T)
  BY <1>4, <1>5, OneMore
<1>7. written' <= Cardinality(T)
  BY <1>1, <1>2, <1>4, <1>5, <1>6
<1> QED BY <1>2, <1>7

LEMMA AttemptsCount ==
  ASSUME DecisionInv, CountInv, NEW u \in Users,
         NEW asked \in Nat, NEW left \in SUBSET Vms, NEW pc,
         change'[u].asked = asked, change'[u].left = left, change'[u].pc = pc,
         \A o \in Users : o # u => change'[o] = change[o],
         asked = change[u].asked + 1 \/ (asked = change[u].asked /\ left \subseteq change[u].left),
         1 <= asked, asked <= MaxAsked
  PROVE  /\ Spent \subseteq Spent'
         /\ \A o \in Users : /\ change'[o].asked <= MaxAsked
                             /\ change'[o].pc # "idle" => change'[o].asked >= 1
<1>1. \A o \in Users : change[o].asked \in Nat
  BY DEF DecisionInv, ChangesHold
<1>2. ASSUME NEW t \in Spent PROVE t \in Spent'
  <2>1. PICK o \in Users, n \in 1 .. MaxAsked, v \in Vms :
          /\ t = <<o, <<n, v>>>>
          /\ n < change[o].asked \/ (n = change[o].asked /\ v \notin change[o].left)
    BY DEF Spent
  <2>2. n < change'[o].asked \/ (n = change'[o].asked /\ v \notin change'[o].left)
    BY <1>1, <2>1
  <2> QED BY <2>1, <2>2 DEF Spent
<1> QED BY <1>1, <1>2 DEF CountInv

LEMMA CountInitInv == DecisionInit => CountInv
<1> SUFFICES ASSUME DecisionInit PROVE CountInv
  OBVIOUS
<1>1. PICK S : S = Spent
  OBVIOUS
<1>2. Cardinality(S) \in Nat
  BY <1>1, SpentBound DEF Spent
<1>3. \A u \in Users : change[u].asked = 0 /\ change[u].pc = "idle"
  BY DEF DecisionInit
<1> QED BY <1>1, <1>2, <1>3, DecisionAssumption DEF DecisionInit, CountInv

LEMMA CountStep ==
  ASSUME DecisionInv, CountInv, NEW u \in Users,
         Asks(u) \/ Checks(u) \/ SubmitTransaction(u) \/ TransactionFails(u)
  PROVE  CountInv'
<1>1. /\ change[u].asked \in Nat /\ change[u].left \subseteq Vms /\ change[u].vms \subseteq Vms
      /\ written \in Nat /\ change[u].asked <= MaxAsked
      /\ change[u].pc # "idle" => change[u].asked >= 1
  BY DEF DecisionInv, RowsHold, ChangesHold, CountInv
<1>2. CASE Asks(u)
  <2>1. /\ change' = [change EXCEPT ![u].pc = "check", ![u].left = change[u].vms,
                              ![u].asked = @ + 1, ![u].since = written]
        /\ change[u].asked < MaxAsked /\ written' = written
    BY <1>2 DEF Asks
  <2>2. /\ change'[u].asked = change[u].asked + 1 /\ change'[u].left = change[u].vms
        /\ change'[u].pc = "check" /\ \A o \in Users : o # u => change'[o] = change[o]
    BY <2>1 DEF DecisionInv, ChangesHold
  <2>3. change[u].asked + 1 \in Nat /\ 1 <= change[u].asked + 1 /\ change[u].asked + 1 <= MaxAsked
    BY <1>1, <2>1, DecisionAssumption
  <2>4. PICK asked \in Nat, left \in SUBSET Vms : asked = change[u].asked + 1 /\ left = change[u].vms
    BY <1>1, <2>3
  <2>5. /\ Spent \subseteq Spent'
        /\ \A o \in Users : /\ change'[o].asked <= MaxAsked
                            /\ change'[o].pc # "idle" => change'[o].asked >= 1
    BY <2>2, <2>3, <2>4, AttemptsCount
  <2>6. written' <= Cardinality(Spent)'
    BY <1>1, <2>1, <2>5, CountGrows
  <2> QED BY <2>5, <2>6 DEF CountInv
<1>3. ASSUME NEW pc, NEW gone \in SUBSET change[u].left,
             change[u].pc # "idle", change' = [change EXCEPT ![u].pc = pc, ![u].left = @ \ gone],
             \/ written' = written
             \/ written' = written + 1 /\ \E v \in gone : TRUE
      PROVE  CountInv'
  <2>1. /\ change'[u].asked = change[u].asked /\ change'[u].left = change[u].left \ gone
        /\ change'[u].pc = pc /\ \A o \in Users : o # u => change'[o] = change[o]
    BY <1>3 DEF DecisionInv, ChangesHold
  <2>2. PICK asked \in Nat, left \in SUBSET Vms :
          asked = change[u].asked /\ left = change[u].left \ gone
    BY <1>1
  <2>3. /\ Spent \subseteq Spent'
        /\ \A o \in Users : /\ change'[o].asked <= MaxAsked
                            /\ change'[o].pc # "idle" => change'[o].asked >= 1
    BY <1>1, <1>3, <2>1, <2>2, AttemptsCount
  <2>4. ASSUME NEW v \in gone PROVE \E x \in Spent' : x \notin Spent
    <3>1. PICK w \in Vms : w = v
      BY <1>1, <2>4
    <3>2. <<u, <<asked, w>>>> \in Users \X ((1 .. MaxAsked) \X Vms)
      BY <1>1, <1>3, <2>2, DecisionAssumption
    <3>3. w \in change[u].left /\ w \notin change'[u].left
      BY <1>3, <2>1, <2>4, <3>1
    <3>4. <<u, <<asked, w>>>> \in Spent'
      BY <2>1, <2>2, <3>2, <3>3 DEF Spent
    <3>5. <<u, <<asked, w>>>> \notin Spent
      BY <1>1, <2>2, <3>3 DEF Spent
    <3> QED BY <3>4, <3>5
  <2>5. written' <= Cardinality(Spent)'
    BY <1>1, <1>3, <2>3, <2>4, CountGrows
  <2> QED BY <2>3, <2>5 DEF CountInv
<1>4. CASE Checks(u)
  <2>1. PICK pc \in {"write", "failed"} : change' = [change EXCEPT ![u].pc = pc]
    BY <1>4 DEF Checks
  <2>2. change[u].pc = "check" /\ written' = written
    BY <1>4 DEF Checks
  <2>3. PICK none \in SUBSET change[u].left : none = {}
    OBVIOUS
  <2>4. change' = [change EXCEPT ![u].pc = pc, ![u].left = @ \ none]
    BY <2>1, <2>3 DEF DecisionInv, ChangesHold
  <2> QED BY <1>3, <2>2, <2>4
<1>5. CASE SubmitTransaction(u)
  <2>1. PICK batch \in Batches(change[u].left) :
          /\ Upsert(u, batch, batch)
          /\ LET left == change[u].left \ batch
             IN  change' = [change EXCEPT ![u].left = left,
                                          ![u].pc = IF AllSlices(left) THEN "ok" ELSE "write"]
    BY <1>5 DEF SubmitTransaction
  <2>2. change[u].pc = "write" /\ batch # {} /\ batch \subseteq change[u].left
    BY <1>5 DEF SubmitTransaction, Batches
  <2>3. PICK pc : pc = IF AllSlices(change[u].left \ batch) THEN "ok" ELSE "write"
    OBVIOUS
  <2>4. change' = [change EXCEPT ![u].pc = pc, ![u].left = @ \ batch]
    BY <2>1, <2>3 DEF DecisionInv, ChangesHold
  <2>5. written' = written + 1
    BY <2>1, <2>2 DEF Upsert
  <2> QED BY <1>3, <2>2, <2>4, <2>5
<1>6. CASE TransactionFails(u)
  <2>1. PICK batch \in Batches(change[u].left) : \E applied \in AllOrNone(batch) :
          Upsert(u, batch, applied)
    BY <1>6 DEF TransactionFails
  <2>2. /\ change[u].pc = "write" /\ batch # {} /\ batch \subseteq change[u].left
        /\ change' = [change EXCEPT ![u].pc = "failed", ![u].left = {}]
    BY <1>6 DEF TransactionFails, Batches
  <2>3. change' = [change EXCEPT ![u].pc = "failed", ![u].left = @ \ change[u].left]
    BY <2>2 DEF DecisionInv, ChangesHold
  <2>4. written' \in {written, written + 1}
    BY <2>1 DEF Upsert
  <2>5. PICK all \in SUBSET change[u].left : all = change[u].left
    OBVIOUS
  <2>6. \E v \in all : TRUE
    BY <2>2, <2>5
  <2> QED BY <1>3, <2>2, <2>3, <2>4, <2>5, <2>6
<1> QED BY <1>2, <1>4, <1>5, <1>6

\* The rows, requests and the number of transactions keep their types: no attempt
\* makes more transactions than it has machines (upsert_change)
THEOREM DecisionTypeCorrect == DecisionSpec => []DecisionTypeOK
<1>1. DecisionInv /\ CountInv /\ [DecisionNext]_decisionVars => CountInv'
  <2>1. ASSUME DecisionInv, CountInv, UNCHANGED decisionVars PROVE CountInv'
    BY <2>1 DEF decisionVars, CountInv, Spent
  <2> QED BY <2>1, CountStep DEF DecisionNext
<1>2. DecisionInv /\ CountInv => DecisionTypeOK
  <2> SUFFICES ASSUME DecisionInv, CountInv PROVE DecisionTypeOK
    OBVIOUS
  <2>1. PICK S : S = Spent
    OBVIOUS
  <2>2. Cardinality(S) \in Nat /\ MaxWritten \in Nat /\ Cardinality(S) <= MaxWritten
    BY <2>1, SpentBound DEF Spent
  <2>3. written \in Orders
    BY <2>1, <2>2 DEF DecisionInv, RowsHold, CountInv, Orders
  <2>4. \A v \in Vms : decisions[v].order \in Orders
    BY <2>3, <2>2 DEF DecisionInv, RowsHold, Orders
  <2>5. \A u \in Users : change[u].since \in Orders /\ change[u].asked \in 0 .. MaxAsked
    BY <2>3, <2>2, DecisionAssumption DEF DecisionInv, RowsHold, ChangesHold, CountInv, Orders
  <2> HIDE DEF Orders
  <2>6. decisions \in [Vms -> DecisionRow]
    BY <2>4 DEF DecisionInv, RowsHold, DecisionRow
  <2>7. change \in [Users -> DecisionChange]
    BY <2>5 DEF DecisionInv, ChangesHold, DecisionChange
  <2> QED BY <2>3, <2>6, <2>7 DEF DecisionTypeOK
<1> QED BY <1>1, <1>2, CountInitInv, DecisionInvariant, PTL DEF DecisionSpec

-------------------------------------------------------------------------------
(***************************************************************************)
(* The report.                                                             *)
(***************************************************************************)
\* What the request has read is what was there: reservations never change here,
\* and of the VM only the group it is associated with
RowsFaithful ==
  /\ vmRow # Nothing => /\ vmRow.zone = azure.vm.zone /\ vmRow.subscription = azure.vm.subscription
                        /\ ~changed => vmRow = azure.vm
  /\ reservationRows # Nothing => reservationRows = azure.reservations
  /\ stage \in {"views", "sku"} => vmRow # Nothing /\ reservationRows # Nothing
  /\ stage = "views" => candidates = IF vmRow.pool = Nothing THEN {} ELSE Candidates(vmRow.pool)

\* A view lists the VM as its reservation fits it, or fitted it before
ViewsTell ==
  /\ stage = "query" => views = NoViews
  /\ stage = "views" => \A r \in candidates : views[r] # Nothing =>
       /\ ~changed => views[r].listed = Fits(r)
       /\ views[r].listed => Physical(azure.vm) = Physical(azure.reservations[r])

\* The report is filled in two steps, of which the second writes the requirements
ReportTells ==
  /\ report = [status |-> report.status, reservation |-> report.reservation,
               verdict |-> report.verdict, requirements |-> report.requirements,
               sparse |-> report.sparse]
  /\ stage \in {"query", "views"} => report = NoReport
  /\ stage = "done" =>
       \E blocked \in SUBSET Flags, sku \in {TRUE, FALSE, Nothing} :
         /\ report.requirements = Requirements(blocked, sku)
         /\ report.verdict = Verdict(Requirements(blocked, sku))
         /\ report.sparse = Projected(Requirements(blocked, sku))

ReportInv == ReportTypeOK /\ RowsFaithful /\ ViewsTell /\ ReportTells /\ StatusTruthful

-------------------------------------------------------------------------------
LEMMA ReportInitInv == ReportInit => ReportInv
<1> SUFFICES ASSUME ReportInit PROVE ReportInv
  OBVIOUS
<1>1. azure \in [vm : VirtualMachine, reservations : [Reservations -> Reservation]]
  BY DEF ReportInit
<1>2. /\ stage = "query" /\ vmRow = Nothing /\ reservationRows = Nothing /\ candidates = {}
      /\ views = NoViews /\ report = NoReport /\ changed = FALSE
      /\ known \in SUBSET ReportSubscriptions
  BY DEF ReportInit
<1>3. ReportTypeOK
  BY <1>1, <1>2 DEF ReportTypeOK, NoViews, NoReport, Statuses
<1>4. RowsFaithful /\ ViewsTell /\ StatusTruthful
  BY <1>2 DEF RowsFaithful, ViewsTell, StatusTruthful
<1>5. ReportTells
  BY <1>2 DEF ReportTells, NoReport
<1> QED BY <1>3, <1>4, <1>5 DEF ReportInv

\* Association with another group: nothing else of Azure changes
LEMMA ChangesReport == ASSUME ReportInv, AzureChanges PROVE ReportInv'
<1>1. PICK pool \in Pools \cup {Nothing} : azure' = [azure EXCEPT !.vm.pool = pool]
  BY DEF AzureChanges
<1>2. /\ changed' = TRUE /\ stage # "done"
      /\ UNCHANGED <<known, stage, vmRow, reservationRows, candidates, views, report>>
  BY DEF AzureChanges
<1>3. azure \in [vm : VirtualMachine, reservations : [Reservations -> Reservation]]
  BY DEF ReportInv, ReportTypeOK
<1>4. /\ azure' \in [vm : VirtualMachine, reservations : [Reservations -> Reservation]]
      /\ azure'.reservations = azure.reservations
      /\ azure'.vm.zone = azure.vm.zone /\ azure'.vm.subscription = azure.vm.subscription
  BY <1>1, <1>3 DEF VirtualMachine
<1>5. ReportTypeOK'
  BY <1>2, <1>4 DEF ReportInv, ReportTypeOK
<1>6. RowsFaithful'
  BY <1>2, <1>4 DEF ReportInv, RowsFaithful, Candidates, Broad, Strict, Resolved, Physical
<1>7. ViewsTell'
  BY <1>2, <1>4 DEF ReportInv, ViewsTell, Physical
<1>8. ReportTells'
  BY <1>2 DEF ReportInv, ReportTells
<1>9. StatusTruthful'
  BY <1>2, <1>4 DEF ReportInv, StatusTruthful, Physical
<1> QED BY <1>5, <1>6, <1>7, <1>8, <1>9 DEF ReportInv

LEMMA QueriesReport == ASSUME ReportInv, QueryVms \/ QueryReservations PROVE ReportInv'
<1>1. /\ UNCHANGED <<azure, known, stage, candidates, views, report, changed>>
      /\ stage = "query"
      /\ vmRow' \in {vmRow, azure.vm}
      /\ reservationRows' \in {reservationRows, azure.reservations}
  BY DEF QueryVms, QueryReservations
<1>2. ReportTypeOK'
  BY <1>1 DEF ReportInv, ReportTypeOK
<1>3. RowsFaithful' /\ ViewsTell' /\ StatusTruthful'
  BY <1>1 DEF ReportInv, RowsFaithful, ViewsTell, StatusTruthful
<1>4. ReportTells'
  BY <1>1 DEF ReportInv, ReportTells
<1> QED BY <1>2, <1>3, <1>4 DEF ReportInv

LEMMA CandidatesReserve == ASSUME NEW pool PROVE Candidates(pool) \in SUBSET Reservations
  BY DEF Candidates, Broad, Strict

LEMMA ReconcileReport == ASSUME ReportInv, Reconcile PROVE ReportInv'
<1>1. /\ UNCHANGED <<azure, known, vmRow, reservationRows, views, report, changed>>
      /\ stage = "query" /\ stage' = "views" /\ vmRow # Nothing /\ reservationRows # Nothing
      /\ candidates' = IF vmRow.pool = Nothing THEN {} ELSE Candidates(vmRow.pool)
  BY DEF Reconcile
<1>2. candidates' \in SUBSET Reservations
  BY <1>1, CandidatesReserve
<1>3. ReportTypeOK'
  BY <1>1, <1>2 DEF ReportInv, ReportTypeOK
<1>4. RowsFaithful'
  BY <1>1 DEF ReportInv, RowsFaithful, Candidates, Broad, Strict, Resolved, Physical
<1>5. ViewsTell' /\ StatusTruthful' /\ ReportTells'
  BY <1>1, <1>2 DEF ReportInv, ViewsTell, StatusTruthful, ReportTells, NoViews
<1> QED BY <1>3, <1>4, <1>5 DEF ReportInv

LEMMA FetchReport == ASSUME ReportInv, NEW r \in Reservations, FetchInstanceView(r) PROVE ReportInv'
<1>1. PICK v \in View : v.listed = Fits(r) /\ views' = [views EXCEPT ![r] = v]
  BY DEF FetchInstanceView
<1>2. /\ stage = "views" /\ r \in candidates
      /\ UNCHANGED <<azure, known, vmRow, reservationRows, stage, candidates, report, changed>>
  BY DEF FetchInstanceView
<1>3. ReportTypeOK'
  BY <1>1, <1>2 DEF ReportInv, ReportTypeOK
<1>4. RowsFaithful' /\ StatusTruthful' /\ ReportTells'
  BY <1>2 DEF ReportInv, RowsFaithful, StatusTruthful, ReportTells, Candidates, Broad, Strict, Resolved, Physical
<1>5. ViewsTell'
  <2>1. ASSUME NEW s \in candidates
        PROVE  views'[s] = IF s = r THEN v ELSE views[s]
    BY <1>1 DEF ReportInv, ReportTypeOK
  <2>2. v.listed => Physical(azure.vm) = Physical(azure.reservations[r])
    BY <1>1 DEF Fits
  <2>3. Fits(r)' = Fits(r) /\ \A s \in Reservations : Fits(s)' = Fits(s)
    BY <1>2 DEF Fits, Physical
  <2> QED BY <1>1, <1>2, <2>1, <2>2, <2>3 DEF ReportInv, ReportTypeOK, ViewsTell, Physical
<1> QED BY <1>3, <1>4, <1>5 DEF ReportInv

LEMMA FailsReport == ASSUME ReportInv, ViewFails PROVE ReportInv'
<1>1. /\ stage = "views" /\ stage' = "failed"
      /\ UNCHANGED <<azure, known, vmRow, reservationRows, candidates, views, report, changed>>
  BY DEF ViewFails
<1>2. ReportTypeOK'
  BY <1>1 DEF ReportInv, ReportTypeOK
<1>3. RowsFaithful' /\ ViewsTell' /\ ReportTells' /\ StatusTruthful'
  BY <1>1 DEF ReportInv, RowsFaithful, ViewsTell, ReportTells, StatusTruthful
<1> QED BY <1>2, <1>3 DEF ReportInv

\* Whichever zones are known, what holds the VM is among its candidates, and what
\* lists it among them has its zone
LEMMA HoldersAreCandidates ==
  ASSUME ReportInv, stage = "views", NEW r \in Reservations
  PROVE  /\ r \in candidates => reservationRows[r].pool = vmRow.pool
         /\ ~changed /\ Fits(r) /\ azure.vm.pool # Nothing => r \in candidates
  BY DEF ReportInv, RowsFaithful, Candidates, Broad, Strict, Fits, Physical

LEMMA EnrichReport == ASSUME ReportInv, EnrichLifecycle PROVE ReportInv'
<1>1. /\ stage = "views" /\ stage' = "sku" /\ \A r \in candidates : views[r] # Nothing
      /\ UNCHANGED <<azure, known, vmRow, reservationRows, candidates, changed>>
      /\ views' = NoViews
  BY DEF EnrichLifecycle
<1>2. /\ candidates \in SUBSET Reservations /\ vmRow # Nothing
      /\ vmRow = azure.vm \/ changed
      /\ vmRow.zone = azure.vm.zone /\ vmRow.subscription = azure.vm.subscription
      /\ reservationRows = azure.reservations
      /\ report = NoReport
  BY <1>1 DEF ReportInv, ReportTypeOK, RowsFaithful, ReportTells
<1> DEFINE One == Cardinality(Listing) = 1
<1>0. PICK named : named = CHOOSE r \in Listing : TRUE
  OBVIOUS
<1>3. One => named \in Listing
  BY <1>0, FS_EmptySet
<1>4. One => /\ named \in Reservations /\ views[named] \in View
             /\ reservationRows[named].pool = vmRow.pool
             /\ Physical(azure.vm) = Physical(azure.reservations[named])
  <2> SUFFICES ASSUME One
               PROVE  /\ named \in Reservations /\ views[named] \in View
                      /\ reservationRows[named].pool = vmRow.pool
                      /\ Physical(azure.vm) = Physical(azure.reservations[named])
    OBVIOUS
  <2>1. named \in candidates /\ views[named].listed
    BY <1>3 DEF Listing
  <2>2. named \in Reservations /\ views[named] \in View
    BY <1>1, <1>2, <2>1 DEF ReportInv, ReportTypeOK
  <2> QED BY <1>1, <2>1, <2>2, HoldersAreCandidates DEF ReportInv, ViewsTell
<1>5. CASE vmRow.pool = Nothing
  <2>1. report' = [NoReport EXCEPT !.status = "Not associated"]
    BY <1>2, <1>5 DEF EnrichLifecycle
  <2>2. /\ report' = [status |-> "Not associated", reservation |-> Nothing,
                      verdict |-> Nothing, requirements |-> Nothing, sparse |-> {}]
    BY <2>1 DEF NoReport
  <2>3. StatusTruthful'
    BY <1>1, <1>2, <1>5, <2>2 DEF StatusTruthful
  <2> QED BY <2>2, <2>3, <1>1, <1>2
    DEF ReportInv, ReportTypeOK, RowsFaithful, ViewsTell, ReportTells, Statuses, NoViews
<1>6. CASE vmRow.pool # Nothing /\ One
  <2>1. report' = [NoReport EXCEPT !.status = StatusOf(views[named]), !.reservation = named]
    BY <1>0, <1>2, <1>6 DEF EnrichLifecycle
  <2>2. /\ report' = [status |-> StatusOf(views[named]), reservation |-> named,
                      verdict |-> Nothing, requirements |-> Nothing, sparse |-> {}]
    BY <2>1 DEF NoReport
  <2>3. StatusOf(views[named]) \in Statuses
    BY DEF StatusOf, Statuses
  <2>4. ~changed => {r \in Reservations : Fits(r)} = Listing
    BY <1>1, <1>2, <1>6, HoldersAreCandidates DEF ReportInv, ViewsTell, Listing
  <2>5. StatusTruthful'
    <3>1. \A r \in Reservations : Fits(r)' = Fits(r)
      BY <1>1 DEF Fits, Physical
    <3>2. Physical(reservationRows[named])' = Physical(vmRow)'
      BY <1>1, <1>2, <1>4, <1>6 DEF Physical
    <3>3. ~changed => {r \in Reservations : Fits(r)}' = Listing
      BY <1>1, <2>4, <3>1
    <3> QED BY <1>1, <1>2, <1>3, <1>4, <1>6, <2>2, <3>2, <3>3 DEF StatusTruthful, Physical
  <2> QED BY <1>4, <1>6, <2>2, <2>3, <2>5, <1>1, <1>2
    DEF ReportInv, ReportTypeOK, RowsFaithful, ViewsTell, ReportTells, NoViews
<1>7. CASE vmRow.pool # Nothing /\ ~One
  <2>1. report' = [NoReport EXCEPT !.status = "Configuration issue"]
    BY <1>2, <1>7 DEF EnrichLifecycle
  <2>2. /\ report' = [status |-> "Configuration issue", reservation |-> Nothing,
                      verdict |-> Nothing, requirements |-> Nothing, sparse |-> {}]
    BY <2>1 DEF NoReport
  <2>4. ~changed => {r \in Reservations : Fits(r)} = Listing
    BY <1>1, <1>2, <1>7, HoldersAreCandidates DEF ReportInv, ViewsTell, Listing
  <2>5. StatusTruthful'
    <3>1. \A r \in Reservations : Fits(r)' = Fits(r)
      BY <1>1 DEF Fits, Physical
    <3>3. ~changed => {r \in Reservations : Fits(r)}' = Listing
      BY <1>1, <2>4, <3>1
    <3> QED BY <1>1, <1>2, <1>7, <2>2, <3>3 DEF StatusTruthful
  <2> QED BY <2>2, <2>5, <1>1, <1>2
    DEF ReportInv, ReportTypeOK, RowsFaithful, ViewsTell, ReportTells, Statuses, NoViews
<1> QED BY <1>5, <1>6, <1>7

LEMMA EligibilityReport == ASSUME ReportInv, Eligibility PROVE ReportInv'
<1>1. PICK blocked \in SUBSET Flags, sku \in {TRUE, FALSE, Nothing} :
        report' = [report EXCEPT !.verdict = Verdict(Requirements(blocked, sku)),
                                 !.requirements = Requirements(blocked, sku),
                                 !.sparse = Projected(Requirements(blocked, sku))]
  BY DEF Eligibility
<1>2. /\ stage' = "done" /\ vmRow' = Nothing /\ reservationRows' = Nothing /\ candidates' = {}
      /\ UNCHANGED <<azure, known, views, changed>>
  BY DEF Eligibility
<1>3. report' = [status |-> report.status, reservation |-> report.reservation,
                 verdict |-> Verdict(Requirements(blocked, sku)),
                 requirements |-> Requirements(blocked, sku),
                 sparse |-> Projected(Requirements(blocked, sku))]
  BY <1>1 DEF ReportInv, ReportTells
<1>4. ReportTypeOK'
  <2>1. Requirements(blocked, sku) \in [Keys -> Results]
    BY DEF Requirements, Results
  <2>2. Verdict(Requirements(blocked, sku)) \in {"Unsupported", "Unknown", "Supported"}
    BY DEF Verdict
  <2> QED BY <1>2, <1>3, <2>1, <2>2 DEF ReportInv, ReportTypeOK
<1>5. ReportTells'
  BY <1>2, <1>3 DEF ReportTells
<1>6. RowsFaithful' /\ ViewsTell' /\ StatusTruthful'
  BY <1>2 DEF RowsFaithful, ViewsTell, StatusTruthful
<1> QED BY <1>4, <1>5, <1>6 DEF ReportInv

LEMMA ReportStepInv == ASSUME ReportInv, [ReportNext]_reportVars PROVE ReportInv'
<1>1. CASE UNCHANGED reportVars
  <2>1. ReportTypeOK'
    BY <1>1 DEF reportVars, ReportInv, ReportTypeOK
  <2>4. ReportTells'
    BY <1>1 DEF reportVars, ReportInv, ReportTells
  <2>2. RowsFaithful' /\ ViewsTell'
    BY <1>1 DEF reportVars, ReportInv, RowsFaithful, ViewsTell, Candidates, Broad, Strict,
                Resolved, Physical, Fits
  <2>3. StatusTruthful'
    <3>1. \A r \in Reservations : Fits(r)' = Fits(r)
      BY <1>1 DEF reportVars, Fits, Physical
    <3>2. {r \in Reservations : Fits(r)}' = {r \in Reservations : Fits(r)}
      BY <3>1
    <3> QED BY <1>1, <3>2 DEF reportVars, ReportInv, StatusTruthful, Physical
  <2> QED BY <2>1, <2>2, <2>3, <2>4 DEF ReportInv
<1> QED BY <1>1, ChangesReport, QueriesReport, ReconcileReport, FetchReport, FailsReport,
           EnrichReport, EligibilityReport DEF ReportNext

LEMMA ReportInvariant == ReportSpec => []ReportInv
  BY ReportInitInv, ReportStepInv, PTL DEF ReportSpec

\* The request's state keeps its types
THEOREM ReportTypeCorrect == ReportSpec => []ReportTypeOK
<1>1. ReportInv => ReportTypeOK
  BY DEF ReportInv
<1> QED BY <1>1, ReportInvariant, PTL

\* Whatever zones are not known, and wherever the reservations are, a status is
\* that of the reservation that holds the machine (reconcile_vm_reservations and
\* enrich_vm_reservation_lifecycle)
THEOREM StatusIsTruthful == ReportSpec => []StatusTruthful
<1>1. ReportInv => StatusTruthful
  BY DEF ReportInv
<1> QED BY <1>1, ReportInvariant, PTL

\* What the projected row tells of one key, and leaves out, is all there was
LEMMA NothingTold ==
  ASSUME NEW key, {t \in report.sparse : t.key = key} = {}
  PROVE  Unfolded(key) = [status |-> "Passed", reason |-> Nothing]
  BY Zenon DEF Unfolded

LEMMA OneTold ==
  ASSUME NEW key, NEW told, {t \in report.sparse : t.key = key} = {told}
  PROVE  Unfolded(key) = [status |-> told.status,
            reason |-> IF told.reason = Nothing /\ told.status = "Failed" THEN "definition" ELSE told.reason]
<1> DEFINE all == {t \in report.sparse : t.key = key}
<1>1. all # {} /\ (CHOOSE t \in all : TRUE) = told
  OBVIOUS
<1> QED BY <1>1, Zenon DEF Unfolded

LEMMA KeyUnfolds ==
  ASSUME NEW blocked \in SUBSET Flags, NEW sku \in {TRUE, FALSE, Nothing}, NEW key \in Keys,
         report.sparse = Projected(Requirements(blocked, sku))
  PROVE  Unfolded(key) = Requirements(blocked, sku)[key]
<1>1. PICK found : found = Requirements(blocked, sku)[key]
  OBVIOUS
<1> DEFINE This == [key |-> key, status |-> found.status,
                    reason |-> IF found.reason = "definition" THEN Nothing ELSE found.reason]
<1>2. {t \in report.sparse : t.key = key} = IF found.status # "Passed" THEN {This} ELSE {}
  BY <1>1 DEF Projected, Told
<1>3. \/ found = [status |-> "Passed", reason |-> Nothing]
      \/ found = [status |-> "Failed", reason |-> "definition"]
      \/ found = [status |-> "Unknown", reason |-> "lookup"]
      \/ found = [status |-> "Not applicable", reason |-> Nothing]
  BY <1>1 DEF Requirements
<1>4. ASSUME found = [status |-> "Passed", reason |-> Nothing] PROVE Unfolded(key) = found
  <2>1. found.status = "Passed"
    BY <1>4
  <2> QED BY <1>2, <1>4, <2>1, NothingTold, Zenon
<1>5. ASSUME NEW status, NEW reason, NEW shown,
             status # "Passed", found = [status |-> status, reason |-> reason],
             shown = IF reason = "definition" THEN Nothing ELSE reason,
             reason = IF shown = Nothing /\ status = "Failed" THEN "definition" ELSE shown
      PROVE  Unfolded(key) = found
  <2>1. PICK told : told = [key |-> key, status |-> status, reason |-> shown]
    OBVIOUS
  <2>2. {t \in report.sparse : t.key = key} = {told}
    BY <1>2, <1>5, <2>1
  <2>3. Unfolded(key) = [status |-> told.status,
            reason |-> IF told.reason = Nothing /\ told.status = "Failed" THEN "definition" ELSE told.reason]
    BY <2>2, OneTold
  <2>4. told.status = status /\ told.reason = shown
    BY <2>1
  <2> QED BY <1>5, <2>3, <2>4
<1>6. Unfolded(key) = found
  <2>1. CASE found = [status |-> "Failed", reason |-> "definition"]
    BY <1>5, <2>1
  <2>2. CASE found = [status |-> "Unknown", reason |-> "lookup"]
    BY <1>5, <2>2
  <2>3. CASE found = [status |-> "Not applicable", reason |-> Nothing]
    BY <1>5, <2>3
  <2> QED BY <1>3, <1>4, <2>1, <2>2, <2>3
<1> QED BY <1>1, <1>6

\* The browser shows the requirements that the verdict was made from, for any
\* flags (project_vm_list_row and openOdcrDetails)
THEOREM RowsUnfold == ReportSpec => []DetailsUnfold
<1>1. ReportInv => DetailsUnfold
  <2> SUFFICES ASSUME ReportInv, stage = "done"
               PROVE  /\ \A key \in Keys : Unfolded(key) = report.requirements[key]
                      /\ report.verdict = Verdict([key \in Keys |-> Unfolded(key)])
    BY DEF DetailsUnfold
  <2>1. PICK blocked \in SUBSET Flags, sku \in {TRUE, FALSE, Nothing} :
          /\ report.requirements = Requirements(blocked, sku)
          /\ report.verdict = Verdict(Requirements(blocked, sku))
          /\ report.sparse = Projected(Requirements(blocked, sku))
    BY DEF ReportInv, ReportTells
  <2>2. \A key \in Keys : Unfolded(key) = Requirements(blocked, sku)[key]
    BY <2>1, KeyUnfolds
  <2>3. Requirements(blocked, sku) = [key \in Keys |-> Unfolded(key)]
    BY <2>2 DEF Requirements
  <2> QED BY <2>1, <2>2, <2>3
<1> QED BY <1>1, ReportInvariant, PTL

=============================================================================
