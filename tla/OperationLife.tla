---------------------------- MODULE OperationLife ----------------------------
(***************************************************************************)
(* What section 8 of docs/specs/activity-log-history.md promises of the    *)
(* outcome of a collected operation: a table of transitions, in which a    *)
(* terminal outcome is final.  A flush forgets every operation.            *)
(***************************************************************************)
CONSTANTS
  Ops,
  Reopens     \* transitions granted beside those of the document

VARIABLE outcome

Terminals == {"succeeded", "failed", "cancelled"}
Outcomes == Terminals \cup {"absent", "pending", "unknown"}

Transitions ==
  ({"absent", "pending", "unknown"} \X Terminals)
    \cup {<<"absent", "pending">>, <<"pending", "unknown">>} \cup Reopens

Init == outcome = [o \in Ops |-> "absent"]

Become(o, to) ==
  /\ <<outcome[o], to>> \in Transitions
  /\ outcome' = [outcome EXCEPT ![o] = to]

Flush == outcome' = [o \in Ops |-> "absent"]

Next == Flush \/ \E o \in Ops, to \in Outcomes : Become(o, to)

Spec == Init /\ [][Next]_outcome

===============================================================================
