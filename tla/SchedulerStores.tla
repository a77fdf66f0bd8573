--------------------------- MODULE SchedulerStores ---------------------------
(***************************************************************************)
(* The rows of the two scheduler tables of the dispatcher and what one     *)
(* storage call does to one row.                                           *)
(*                                                                         *)
(*   SchedulerRunState    one row per pipeline scope                       *)
(*   SchedulerRunHistory  one row per dispatched run                       *)
(*                                                                         *)
(* LastTrigger, LastOutcome, LastCompletedAt, the action and the summary   *)
(* are only displayed and are left out.  A history row is keyed by         *)
(* (pipeline, inverted start time, uuid); open_row is called once per run, *)
(* so the row of a run is named by its instance.                           *)
(***************************************************************************)

CONSTANT None                  \* an absent property, an absent row

Terminal == {"completed", "failed"}

(***************************************************************************)
(* SchedulerRunState.  `active` is ActiveInstanceId: None, the instance of *)
(* a run, or a claim placeholder "pending:<uuid>"; `at` is LastDispatchedAt*)
(***************************************************************************)
NoState == [active |-> None, at |-> None]

Claimed(placeholder, at) == [active |-> placeholder, at |-> at]

Activated(row, instance) == [row EXCEPT !.active = instance]

\* _clear_active rebuilds the row from an earlier read, without the active run
Cleared(at) == [active |-> None, at |-> at]

(***************************************************************************)
(* SchedulerRunHistory.  `whole` is FALSE for a row that a MERGE upsert    *)
(* created: it has a Status but neither an InstanceId nor a StartedAt.     *)
(***************************************************************************)
NoRow == [status |-> "none", whole |-> FALSE]

Opened == [status |-> "running", whole |-> TRUE]

Closed(row, outcome) == [row EXCEPT !.status = outcome]

IsRunning(row) == row.status = "running"

IsTerminal(row) == row.status \in Terminal

HistoryRow == [status : {"none", "running"} \cup Terminal, whole : BOOLEAN]

==============================================================================
