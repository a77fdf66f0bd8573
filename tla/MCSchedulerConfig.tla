--------------------------- MODULE MCSchedulerConfig ---------------------------
(***************************************************************************)
(* Values for the constants of SchedulerConfig: one pipeline that may be   *)
(* disabled and one that may not, and edits of which one is out of bounds. *)
(***************************************************************************)
EXTENDS SchedulerConfig

CONSTANTS p1, p2

TwoPipelines == {p1, p2}

Setting(enabled, freq, anchor) ==
  [enabled |-> enabled, freq |-> freq, anchor |-> anchor]

SomeEdits == {Setting(TRUE, 3, 0), Setting(FALSE, 2, 1), Setting(TRUE, 1, 0)}
SomeDefaults == [p \in Pipelines |-> Setting(TRUE, 2, 0)]

===============================================================================
