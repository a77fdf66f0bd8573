---------------------------- MODULE MCDispatchTick ----------------------------
(***************************************************************************)
(* Values for the constants of DispatchTick: which pipelines contend, and  *)
(* when they are due.                                                      *)
(***************************************************************************)
EXTENDS DispatchTick

CONSTANTS cost            \* the contention group of the cost pipelines

ThreeIndependent == <<NoGroup, NoGroup, NoGroup>>
ContendedAndOther == <<cost, cost, NoGroup>>

UnevenFrequencies == <<2, 3, 1>>
UnevenAnchors == <<1, 2, 0>>

\* Whoever comes before another is due in every fourth unit at most, and the grids
\* let each of them be dispatched twice in a row of four units
SparseFrequencies == <<4, 5, 2>>
SparseAnchors == <<2, 3, 0>>

===============================================================================
