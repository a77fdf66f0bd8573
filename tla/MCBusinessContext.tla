------------------------- MODULE MCBusinessContext -------------------------
(* A small instance of BusinessContext.  One field exists from the start,  *)
(* another may come.  w1 shares the readers' process.                      *)
EXTENDS BusinessContext

CONSTANTS f1, f2, w1, w2, q1, r1, x1

MCFields == {f1, f2}
MCSaved == {f1}
MCWorkers == {w1, w2}
MCLocal == {w1}
MCReaders == {q1}
MCRefreshes == {r1}
MCScheduled == {}
MCFlushes == {x1}
MCKinds == {"manual"}
=============================================================================
