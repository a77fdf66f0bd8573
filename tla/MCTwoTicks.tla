------------------------------ MODULE MCTwoTicks ------------------------------
(***************************************************************************)
(* Two schedulers side by side, of which one moves: one whose pipelines    *)
(* contend, as the constants say, and one whose ticks come in time.        *)
(***************************************************************************)
EXTENDS MCDispatchTick

VARIABLES moving, scope2, lost2, late2, lastAt2, enabled2, tick2, ticked2, pruned2, deferred2, now2

Timed == INSTANCE DispatchTick
           WITH Group <- ThreeIndependent, Frequency <- SparseFrequencies,
                Anchor <- SparseAnchors, Cap <- 1, Manual <- {2}, Edited <- {},
                Watched <- {}, Failures <- FALSE, Timely <- TRUE, Day <- 3, MaxTime <- 8,
                scope <- scope2, lost <- lost2, late <- late2, lastAt <- lastAt2,
                enabled <- enabled2, tick <- tick2, ticked <- ticked2, pruned <- pruned2,
                deferred <- deferred2, now <- now2

others == <<scope2, lost2, late2, lastAt2, enabled2, tick2, ticked2, pruned2, deferred2, now2>>

MCInit == Init /\ Timed!Init /\ moving \in {"contended", "timed"}

MCNext ==
  \/ moving = "contended" /\ Next /\ UNCHANGED <<moving, others>>
  \/ moving = "timed" /\ Timed!Next /\ UNCHANGED <<moving, vars>>

MCSpec == MCInit /\ [][MCNext]_<<moving, vars, others>>

\* Under a cap of one start, when every tick is in time, the pipelines before a due
\* one keep it waiting for one tick per slot of theirs, and two each as they are sparse
WaitOfTimed == Timed!WaitBounded

===============================================================================
