------------------------------ MODULE ZoneMapping ------------------------------
(***************************************************************************)
(* The Zone Mapping pipeline (services/zone_mapping.py, its orchestrators  *)
(* in functions/zone_mapping_bp.py, storage/zone_mapping_store.py).  A     *)
(* refresh compares what it should cover with the state kept in the last   *)
(* snapshot, deletes and fetches one fragment per subscription, in waves   *)
(* while Azure throttles, and assembles a new snapshot from whatever       *)
(* fragments there are.  A failed fetch leaves the old snapshot and the    *)
(* new fragments.                                                          *)
(*                                                                         *)
(* A fragment is the set of regions it maps, {} where there is no blob, as *)
(* Azure shows every subscription some region; it shows them all the same  *)
(* regions here.  Refresh and flush are runs of one scope, of which the    *)
(* dispatcher lets one live (Dispatcher, ScopeLock).                       *)
(***************************************************************************)
EXTENDS Naturals

CONSTANTS
  Subs, Regions,
  MaxThrottles,   \* MAX_PAGE_THROTTLES
  MaxMoves,       \* bound: changes of the application's scope
  MaxFaults,      \* bound: fetches that fail or are put off, runs that die, flushes
  MayFlush        \* do administrators flush?

ASSUME ZoneAssumption ==
  MaxThrottles \in Nat /\ MaxMoves \in Nat /\ MaxFaults \in Nat /\ MayFlush \in BOOLEAN

VARIABLES
  zoneScope,   \* the subscriptions in the application's scope
  shown,       \* the regions that Azure shows
  fragments,   \* subscriptions/<id>.json.gz
  mapping,     \* current.json.gz: its state (subs, knownRegions) and its mappings
  zoneRun,     \* the refresh or flush under way
  lost,        \* subscriptions whose fragment went in a run that published nothing
  moves, faults

zoneVars == <<zoneScope, shown, fragments, mapping, zoneRun, lost, moves, faults>>

-------------------------------------------------------------------------------
Fragments == [Subs -> SUBSET Regions]
NoFragments == [s \in Subs |-> {}]

\* subs is {} where there is no snapshot: the scope of a refresh is never empty
NoMapping == [subs |-> {}, known |-> {}, maps |-> NoFragments]

\* A run: the plan (what to delete, the work units not yet answered, the state
\* to write), the units to retry, the retries so far, whether a unit failed; gone: what
\* it deleted so far.  A flush deletes the snapshot as well
ZoneIdle == [pc |-> "idle", delete |-> {}, pending |-> {}, retry |-> {}, attempt |-> 0,
         subs |-> {}, known |-> {}, failed |-> FALSE, gone |-> {}]
ZoneRun == [pc : {"idle", "refresh", "flush"}, delete : SUBSET Subs, pending : SUBSET Subs,
            retry : SUBSET Subs, attempt : 0 .. MaxThrottles, subs : SUBSET Subs,
            known : SUBSET Regions, failed : BOOLEAN, gone : SUBSET Subs]

ZoneInit ==
  /\ zoneScope \in (SUBSET Subs) \ {{}}
  /\ shown \in (SUBSET Regions) \ {{}}
  /\ fragments = NoFragments
  /\ mapping = NoMapping
  /\ zoneRun = ZoneIdle
  /\ lost = {}
  /\ moves = 0 /\ faults = 0

ZoneFault == faults < MaxFaults /\ faults' = faults + 1

-------------------------------------------------------------------------------
(* What the pipeline does not decide                                       *)

ScopeChanges ==
  /\ moves < MaxMoves
  /\ moves' = moves + 1
  /\ zoneScope' \in (SUBSET Subs) \ {{}, zoneScope}
  /\ UNCHANGED <<shown, fragments, mapping, zoneRun, lost, faults>>

RegionOpens ==
  /\ \E r \in Regions \ shown : shown' = shown \cup {r}
  /\ UNCHANGED <<zoneScope, fragments, mapping, zoneRun, lost, moves, faults>>

-------------------------------------------------------------------------------
(* The refresh                                                             *)

\* resolve_plan: without a state, or when a region is new, everything is
\* fetched, else what came into the scope.  A plan that fails changes nothing
KnownBefore == mapping.known
KnownAndProbed == mapping.known \cup shown

FullAtFirst == mapping.subs = {}
FullRefresh == mapping.subs = {} \/ ~(shown \subseteq mapping.known)
Targets == IF FullRefresh THEN zoneScope ELSE zoneScope \ mapping.subs

ResolvePlan ==
  /\ zoneRun.pc = "idle"
  /\ zoneRun' = [ZoneIdle EXCEPT !.pc = "refresh",
                             !.delete = mapping.subs \ zoneScope, !.pending = Targets,
                             !.subs = zoneScope, !.known = KnownAndProbed]
  /\ UNCHANGED <<zoneScope, shown, fragments, mapping, lost, moves, faults>>

DeleteFragment ==
  /\ zoneRun.pc \in {"refresh", "flush"}
  /\ \E s \in zoneRun.delete :
       /\ fragments' = [fragments EXCEPT ![s] = {}]
       /\ zoneRun' = [zoneRun EXCEPT !.delete = @ \ {s}, !.gone = @ \cup {s}]
  /\ UNCHANGED <<zoneScope, shown, mapping, lost, moves, faults>>

Fetching(s) == zoneRun.pc = "refresh" /\ zoneRun.delete = {} /\ s \in zoneRun.pending

\* fetch_and_store: the fragment is replaced as a whole
FetchSubscription(s) ==
  /\ Fetching(s)
  /\ fragments' = [fragments EXCEPT ![s] = shown]
  /\ zoneRun' = [zoneRun EXCEPT !.pending = @ \ {s}]
  /\ UNCHANGED <<zoneScope, shown, mapping, lost, moves, faults>>

\* throttled or transient, until the attempts are used up; or an error, of
\* Azure's or of the fragment's upload
FetchPutOff(s) ==
  /\ Fetching(s)
  /\ ZoneFault
  /\ zoneRun' = [zoneRun EXCEPT !.pending = @ \ {s},
                   !.retry = IF zoneRun.attempt < MaxThrottles THEN @ \cup {s} ELSE @,
                   !.failed = @ \/ zoneRun.attempt >= MaxThrottles]
  /\ UNCHANGED <<zoneScope, shown, fragments, mapping, lost, moves>>

Dropped(s) == [zoneRun EXCEPT !.pending = @ \ {s}]
Failed(s) == [zoneRun EXCEPT !.pending = @ \ {s}, !.failed = TRUE]

FetchFails(s) ==
  /\ Fetching(s)
  /\ ZoneFault
  /\ zoneRun' = Failed(s)
  /\ UNCHANGED <<zoneScope, shown, fragments, mapping, lost, moves>>

WaveEnds == zoneRun.pc = "refresh" /\ zoneRun.delete = {} /\ zoneRun.pending = {}

\* The cohort that Azure put off, after a timer
RetryCohort ==
  /\ WaveEnds /\ zoneRun.retry # {}
  /\ zoneRun' = [zoneRun EXCEPT !.pending = zoneRun.retry, !.retry = {}, !.attempt = @ + 1]
  /\ UNCHANGED <<zoneScope, shown, fragments, mapping, lost, moves, faults>>

\* publish_snapshot reads every fragment, and not those of the plan alone
WriteState ==
  /\ WaveEnds /\ zoneRun.retry = {} /\ ~zoneRun.failed
  /\ mapping' = [subs |-> zoneRun.subs, known |-> zoneRun.known, maps |-> fragments]
  /\ lost' = {s \in lost : fragments[s] = {}}
  /\ zoneRun' = ZoneIdle
  /\ UNCHANGED <<zoneScope, shown, fragments, moves, faults>>

EndsUnpublished ==
  /\ zoneRun' = ZoneIdle
  /\ lost' = lost \cup zoneRun.gone
  /\ UNCHANGED <<zoneScope, shown, fragments, mapping, moves>>

EndsPartial == WaveEnds /\ zoneRun.retry = {} /\ zoneRun.failed /\ EndsUnpublished /\ UNCHANGED faults

\* An activity raises, or the instance is terminated: also in the middle of a flush
RunDies == zoneRun.pc # "idle" /\ ZoneFault /\ EndsUnpublished

-------------------------------------------------------------------------------
(* delete_snapshot_data: one batch over every blob of the container        *)

ZoneFlushBegins ==
  /\ zoneRun.pc = "idle" /\ MayFlush
  /\ ZoneFault
  /\ zoneRun' = [ZoneIdle EXCEPT !.pc = "flush", !.delete = {s \in Subs : fragments[s] # {}}]
  /\ UNCHANGED <<zoneScope, shown, fragments, mapping, lost, moves>>

ZoneFlushDeletes ==
  /\ zoneRun.pc = "flush" /\ mapping # NoMapping
  /\ mapping' = NoMapping
  /\ UNCHANGED <<zoneScope, shown, fragments, zoneRun, lost, moves, faults>>

ZoneFlushEnds ==
  /\ zoneRun.pc = "flush" /\ zoneRun.delete = {} /\ mapping = NoMapping
  /\ zoneRun' = ZoneIdle
  /\ lost' = {}
  /\ UNCHANGED <<zoneScope, shown, fragments, mapping, moves, faults>>

-------------------------------------------------------------------------------
ZoneSteps ==
  \/ ResolvePlan \/ DeleteFragment
  \/ \E s \in Subs : FetchSubscription(s)
  \/ RetryCohort \/ WriteState \/ EndsPartial
  \/ ZoneFlushDeletes \/ ZoneFlushEnds

ZoneNext ==
  \/ ResolvePlan \/ DeleteFragment
  \/ \E s \in Subs : FetchSubscription(s) \/ FetchPutOff(s) \/ FetchFails(s)
  \/ RetryCohort \/ WriteState \/ EndsPartial \/ RunDies
  \/ ZoneFlushBegins \/ ZoneFlushDeletes \/ ZoneFlushEnds
  \/ ScopeChanges \/ RegionOpens

\* The dispatcher starts the pipeline again and again, and Durable Functions
\* carries a run on
ZoneFairness == WF_zoneVars(ZoneSteps)

ZoneSpec == ZoneInit /\ [][ZoneNext]_zoneVars /\ ZoneFairness

-------------------------------------------------------------------------------
ZoneTypeOK ==
  /\ zoneScope \in SUBSET Subs /\ shown \in SUBSET Regions
  /\ fragments \in Fragments
  /\ mapping \in [subs : SUBSET Subs, known : SUBSET Regions, maps : Fragments]
  /\ zoneRun \in ZoneRun
  /\ lost \in SUBSET Subs
  /\ moves \in 0 .. MaxMoves /\ faults \in 0 .. MaxFaults

\* zone_mapping.py 62-79, "so every subscription captures the new mapping": in
\* a snapshot, whoever is covered and mapped at all is mapped for every region
\* known, however many refreshes failed or fetched only what was added since
KnownCaptured ==
  \A s \in mapping.subs : mapping.maps[s] # {} => mapping.known \subseteq mapping.maps[s]

\* zone_mapping_bp.py 38-94: a snapshot lacks the mappings of a subscription
\* that it covers only where a run deleted them and then published nothing
GapsByTornRuns == \A s \in mapping.subs : mapping.maps[s] = {} => s \in lost

\* docs/specs/app-scope.md 545, "Reconciled automatically by the next refresh":
\* a snapshot has mappings for every subscription that its state covers
SnapshotComplete == \A s \in mapping.subs : mapping.maps[s] # {}

\* zone_mapping.py 53-103: once the scope and the regions stay as they are and
\* runs fail no more, the snapshot covers that scope and knows those regions
Reconciled == <>[](mapping.subs = zoneScope /\ mapping.known = shown)

===============================================================================
