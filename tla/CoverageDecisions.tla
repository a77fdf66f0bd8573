--------------------------- MODULE CoverageDecisions ---------------------------
(***************************************************************************)
(* The shared ODCR decisions (services/odcr_coverage_decisions.py, its     *)
(* route in functions/odcr_coverage_bp.py, storage/odcr_coverage_store.py).*)
(* A change gives many virtual machines one decision.  Checked as a whole, *)
(* it is written transaction by transaction, each for some machines of one *)
(* subscription, over whatever others wrote; where one fails the rest is   *)
(* not written, and the user may ask again.                                *)
(*                                                                         *)
(* A decision stands for its author.  written numbers the transactions.    *)
(***************************************************************************)
EXTENDS Naturals, FiniteSets

CONSTANTS
  Users, Vms,
  SubscriptionOf,   \* of a virtual machine: the partition of its row
  MaxBatch,         \* MAX_TRANSACTION_OPERATIONS
  MaxAsked,         \* bound: attempts of one user
  Nobody

ASSUME DecisionAssumption ==
  /\ IsFiniteSet(Users) /\ IsFiniteSet(Vms) /\ Nobody \notin Users
  /\ MaxBatch \in Nat \ {0} /\ MaxAsked \in Nat

VARIABLES
  decisions,   \* the rows; with: the machines written in the same transaction
  change,      \* the request of each user
  written      \* transactions so far

decisionVars == <<decisions, change, written>>

-------------------------------------------------------------------------------
MaxWritten == Cardinality(Users) * MaxAsked * Cardinality(Vms)
Orders == 0 .. MaxWritten
DecisionRow == [by : Users \cup {Nobody}, order : Orders, with : SUBSET Vms]
DecisionChange == [pc : {"idle", "check", "write", "ok", "failed"}, vms : SUBSET Vms, left : SUBSET Vms,
           asked : 0 .. MaxAsked, since : Orders]

DecisionInit ==
  /\ decisions = [v \in Vms |-> [by |-> Nobody, order |-> 0, with |-> {}]]
  /\ change \in [Users -> {[pc |-> "idle", vms |-> vms, left |-> {}, asked |-> 0, since |-> 0]
                             : vms \in (SUBSET Vms) \ {{}}}]
  /\ written = 0

\* The first time, and again after a failure
Asks(u) ==
  /\ change[u].pc \in {"idle", "failed"}
  /\ change[u].asked < MaxAsked
  /\ change' = [change EXCEPT ![u].pc = "check", ![u].left = change[u].vms,
                              ![u].asked = @ + 1, ![u].since = written]
  /\ UNCHANGED <<decisions, written>>

\* Every machine is in scope and visible, or nothing is written
Checks(u) ==
  /\ change[u].pc = "check"
  /\ \E pc \in {"write", "failed"} : change' = [change EXCEPT ![u].pc = pc]
  /\ UNCHANGED <<decisions, written>>

\* The slices of one partition: full ones, and what remains
Batches(left) ==
  {batch \in (SUBSET left) \ {{}} :
     LET s == SubscriptionOf[CHOOSE v \in batch : TRUE]
         partition == {v \in left : SubscriptionOf[v] = s}
     IN  /\ batch \subseteq partition
         /\ \/ Cardinality(batch) = MaxBatch
            \/ batch = partition /\ Cardinality(partition) < MaxBatch}

FullSlices(left) == Cardinality(left) < MaxBatch
AllSlices(left) == left = {}

Upsert(u, batch, applied) ==
  /\ decisions' = [v \in Vms |-> IF v \in applied
                                 THEN [by |-> u, order |-> written + 1, with |-> batch]
                                 ELSE decisions[v]]
  /\ written' = IF applied = {} THEN written ELSE written + 1

SubmitTransaction(u) ==
  /\ change[u].pc = "write"
  /\ \E batch \in Batches(change[u].left) :
       /\ Upsert(u, batch, batch)
       /\ LET left == change[u].left \ batch
          IN  change' = [change EXCEPT ![u].left = left,
                                       ![u].pc = IF AllSlices(left) THEN "ok" ELSE "write"]

\* No answer came: all of it was written or none of it
EachRow(batch) == SUBSET batch
AllOrNone(batch) == {{}, batch}

TransactionFails(u) ==
  /\ change[u].pc = "write"
  /\ \E batch \in Batches(change[u].left) : \E applied \in AllOrNone(batch) :
       Upsert(u, batch, applied)
  /\ change' = [change EXCEPT ![u].pc = "failed", ![u].left = {}]

DecisionNext == \E u \in Users : Asks(u) \/ Checks(u) \/ SubmitTransaction(u) \/ TransactionFails(u)

DecisionSpec == DecisionInit /\ [][DecisionNext]_decisionVars

-------------------------------------------------------------------------------
DecisionTypeOK ==
  /\ decisions \in [Vms -> DecisionRow]
  /\ change \in [Users -> DecisionChange]
  /\ written \in Orders

\* docs/specs/odcr-coverage-decisions.md 27, "a transaction is atomic": whoever
\* writes what and whatever fails, the machines that one transaction covered
\* show it all, or what came after it
TransactionsWhole ==
  \A v \in Vms : \A w \in decisions[v].with : decisions[w].order >= decisions[v].order

\* odcr_coverage_store.py 63-69: a change that is answered for has reached all
\* its machines, of every subscription and every slice, also when it was asked
\* for again; each shows it, or what somebody wrote after it
AnsweredWritten ==
  \A u \in Users : change[u].pc = "ok" =>
    \A v \in change[u].vms : decisions[v].order > change[u].since

===============================================================================
