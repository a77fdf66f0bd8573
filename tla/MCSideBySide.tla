----------------------------- MODULE MCSideBySide -----------------------------
(***************************************************************************)
(* Parts of the system that share no state, of which one moves: the        *)
(* overrides that administrators edit, the catalogues and the zone mapping *)
(* with their readers, a request for the coverage report, the shared       *)
(* decisions, as the constants say; and the dispatcher, a start request    *)
(* beside the timer that visits every scope.                               *)
(***************************************************************************)
EXTENDS MCSchedulerConfig, SkuCatalog, ReferenceCatalog, ZoneMapping, CoverageReport,
        CoverageDecisions, TLC

CONSTANTS None, scope, request, timer, i1, i2, t1, t2, s1, s2, g1, g2, r1, r2, v1, v2, v3
VARIABLES moving, runState, rowTag, history, run, at, locals, now

Timed == INSTANCE Dispatcher
           WITH Pipelines <- {scope}, Handlers <- {request, timer},
                Duties <- request :> {"start"} @@ timer :> {"watch"},
                Instances <- {i1, i2}, Faults <- {"die", "startError", "redeliver"},
                Prompt <- TRUE, MaxTime <- 1,
                etag <- rowTag, pc <- at, loc <- locals

\* Two machines of one subscription and one of another
TwoSubscriptions == v1 :> s1 @@ v2 :> s1 @@ v3 :> s2

dispatcher == <<runState, rowTag, history, run, at, locals, now>>

-------------------------------------------------------------------------------
\* What does not move starts in one of its initial states
MCInit ==
  /\ moving \in {"overrides", "skus", "references", "zones", "report", "decisions", "dispatcher"}
  /\ Init /\ (moving # "overrides" => \A e \in Admins : loc[e].p = p1)
  /\ ZoneInit /\ (moving # "zones" => zoneScope = Subs /\ shown = Regions)
  /\ Timed!Init /\ SkuInit /\ RefInit
  /\ DecisionInit
  /\ \A u \in Users : (change[u].vms = Vms \/ (u = t2 /\ moving = "decisions" /\ v1 \in change[u].vms))
  /\ ReportInit
  /\ azure.reservations[r1].pool = g1 /\ azure.vm.pool # g2
  /\ moving # "report" =>
       /\ known = {} /\ azure.vm = [pool |-> Nothing, zone |-> 0, subscription |-> "own"]
       /\ \A r \in Reservations : azure.reservations[r] = [azure.vm EXCEPT !.pool = g1]

MCNext ==
  /\ moving' = moving
  /\ IF moving = "overrides" THEN Next ELSE UNCHANGED vars
  /\ IF moving = "skus" THEN SkuNext ELSE UNCHANGED skuVars
  /\ IF moving = "references" THEN RefNext ELSE UNCHANGED refVars
  /\ IF moving = "zones" THEN ZoneNext ELSE UNCHANGED zoneVars
  /\ IF moving = "report" THEN ReportNext ELSE UNCHANGED reportVars
  /\ IF moving = "decisions" THEN DecisionNext ELSE UNCHANGED decisionVars
  /\ IF moving = "dispatcher" THEN Timed!Next ELSE UNCHANGED dispatcher

MCVars == <<moving, vars, skuVars, refVars, zoneVars, reportVars, decisionVars, dispatcher>>

\* The fairness of the two that need it, of each while it moves
MCSpec ==
  /\ MCInit /\ [][MCNext]_MCVars
  /\ \A x \in Timed!Actors : WF_dispatcher(moving = "dispatcher" /\ Timed!Closing(x))
  /\ \A h \in {request, timer} : WF_dispatcher(moving = "dispatcher" /\ Timed!HandlerStep(h))
  /\ \A i \in {i1, i2} :
       /\ WF_dispatcher(moving = "dispatcher" /\ Timed!RunStep(i))
       /\ SF_dispatcher(/\ moving = "dispatcher"
                        /\ \E h \in {request, timer} : Timed!ReconcileState(h, scope, i))
  /\ WF_zoneVars(moving = "zones" /\ ZoneSteps)

-------------------------------------------------------------------------------
\* dispatcher.py 595-619: where runs die, start calls fail and completions are
\* delivered twice, a claimed scope is freed again and again
ScopesAreFreed == Timed!ScopeIsFreed

\* Reconciled of ZoneMapping, when the pipeline moves
ZonesReconciled == moving = "zones" => Reconciled

===============================================================================
