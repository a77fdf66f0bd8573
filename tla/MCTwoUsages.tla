----------------------------- MODULE MCTwoUsages ------------------------------
(***************************************************************************)
(* Two pipelines side by side, of which one moves: one whose scope changes *)
(* in any way, as the constants say, and one whose scope only grows.       *)
(***************************************************************************)
EXTENDS MCUsageRefresh

VARIABLES moving, day2, config2, state2, daily2, ring2, run2, outcome2, fails2, lost2,
          short2

Grow == INSTANCE UsageRefresh
          WITH Scopes <- SomeScopes, Changes <- Growing, NStreams <- 2, History <- 3,
               MaxDay <- 4, ReadFails <- TRUE, FlushBreaks <- FALSE, Upgrade <- FALSE,
               day <- day2, config <- config2, state <- state2, daily <- daily2,
               ring <- ring2, run <- run2, outcome <- outcome2, fails <- fails2,
               lost <- lost2, short <- short2

others == <<day2, config2, state2, daily2, ring2, run2, outcome2, fails2, lost2, short2>>

MCInit ==
  /\ Init /\ Grow!Init
  /\ \/ moving = "change" /\ config2 = PerSub({a})
     \/ moving = "grow" /\ config = PerSub({a}) /\ state.base = "per-sub" /\ state.subs = {a}

MCNext ==
  \/ moving = "change" /\ Next /\ UNCHANGED <<moving, others>>
  \/ moving = "grow" /\ Grow!Next /\ UNCHANGED <<moving, vars>>

\* Where the second one is held still, nothing is asked of its progress: such
\* behaviours are not fair
MCSpec == MCInit /\ [][MCNext]_<<moving, vars, others>> /\ WF_others(Grow!Step)

\* usage_store.py 7-9, for a scope that only grows: at every moment what the record
\* claims is stored, and its newest days are in the projection
LoadedAsItGrows == Grow!AllStored /\ Grow!ViewRecent

\* For a scope that only grows, with two streams and failed reads of the record: the
\* dataset catches up with the calendar and the scope
CatchesUpAsItGrows == Grow!CatchesUp

===============================================================================
