---------------------------- MODULE CoverageReport -----------------------------
(***************************************************************************)
(* One request for the ODCR coverage report (vm_list in functions/odcr_    *)
(* coverage_bp.py over services/odcr_coverage.py): virtual machines and    *)
(* capacity reservations from Azure Resource Graph, physical zones from    *)
(* the Zone Mapping snapshot, the candidates of a virtual machine, their   *)
(* instance views, the catalogue's word on the size, the requirements, and *)
(* the compact row that the browser unfolds with the response's metadata.  *)
(* Azure is read piece by piece, and may change between two pieces.        *)
(*                                                                         *)
(* One row is followed.  A pool is a reservation group and a VM size, the  *)
(* broad key of the matching.  Reservations are the VM's subscription's,   *)
(* or another's, in which the logical zones have each other's numbers.     *)
(***************************************************************************)
EXTENDS Naturals, FiniteSets

CONSTANTS
  Pools,          \* a reservation group and a VM size
  Reservations,
  Flags,          \* what a VM must not be: Spot, on a dedicated host, ...
  Nothing

VARIABLES
  azure,       \* what Azure has: the VM's pool and zone, the reservations
  known,       \* the subscriptions that the Zone Mapping snapshot has
  stage,       \* how far the request is
  vmRow, reservationRows,  \* what Resource Graph answered, Nothing before
  candidates,  \* matchingCapacityReservationIds
  views,       \* the instance views fetched
  report,      \* the row: its status, its reservation, its requirements
  changed      \* has Azure changed since the request came? (properties only)

reportVars == <<azure, known, stage, vmRow, reservationRows, candidates, views, report, changed>>

-------------------------------------------------------------------------------
ReportSubscriptions == {"own", "other"}
Zones == 0 .. 2   \* 0 for regional
VirtualMachine == [pool : Pools \cup {Nothing}, zone : {0, 1}, subscription : {"own"}]   \* or zone 2, by symmetry
Reservation == [pool : Pools, zone : Zones, subscription : ReportSubscriptions]

\* What an instance view tells: whether it lists the VM, whether as allocated,
\* how many are allocated, and the capacity; these are read only of a view that
\* lists the VM
View == {v \in [listed : BOOLEAN, allocated : BOOLEAN, used : 0 .. 2, capacity : 0 .. 1] :
           IF v.listed THEN v.allocated => v.used > 0
           ELSE ~v.allocated /\ v.used = 0 /\ v.capacity = 0}

Statuses == {"Not associated", "Configuration issue", "Associated, no capacity",
             "Allocated, within capacity", "Allocated, overallocated",
             "Associated, capacity available", "Associated, capacity fully used"}
Keys == Flags \cup {"vmssPlacementModel", "vmSkuSupport"}
Results == [status : {"Passed", "Failed", "Unknown", "Not applicable"},
            reason : {Nothing, "definition", "lookup"}]

\* Two subscriptions see the zones of a region under different numbers
Physical(row) == IF row.subscription = "own" \/ row.zone = 0 THEN row.zone ELSE 3 - row.zone

\* Azure lists a VM in the reservations of its pool and of its zone
Fits(r) == azure.vm.pool = azure.reservations[r].pool
           /\ Physical(azure.vm) = Physical(azure.reservations[r])

NoViews == [r \in Reservations |-> Nothing]
NoReport == [status |-> Nothing, reservation |-> Nothing,
             verdict |-> Nothing, requirements |-> Nothing, sparse |-> {}]

ReportInit ==
  /\ \E vm \in VirtualMachine, rs \in [Reservations -> Reservation] :
       azure = [vm |-> vm, reservations |-> rs]
  /\ known \in SUBSET ReportSubscriptions
  /\ stage = "query"
  /\ vmRow = Nothing /\ reservationRows = Nothing
  /\ candidates = {}
  /\ views = NoViews
  /\ report = NoReport
  /\ changed = FALSE

\* The VM is associated with a group, or no longer
AzureChanges ==
  /\ stage # "done" /\ ~changed
  /\ \E pool \in (Pools \cup {Nothing}) \ {azure.vm.pool} : azure' = [azure EXCEPT !.vm.pool = pool]
  /\ changed' = TRUE
  /\ UNCHANGED <<known, stage, vmRow, reservationRows, candidates, views, report>>

-------------------------------------------------------------------------------
\* The two queries run in two threads
QueryVms ==
  /\ stage = "query" /\ vmRow = Nothing
  /\ vmRow' = azure.vm
  /\ UNCHANGED <<azure, known, stage, reservationRows, candidates, views, report, changed>>

QueryReservations ==
  /\ stage = "query" /\ reservationRows = Nothing
  /\ reservationRows' = azure.reservations
  /\ UNCHANGED <<azure, known, stage, vmRow, candidates, views, report, changed>>

\* apply_physical_zones: what is regional has no zone, and that is known
Resolved(row) == row.zone = 0 \/ row.subscription \in known

\* reconcile_vm_reservations: where the VM's zone, or that of one reservation
\* of its pool, is not known, every reservation of the pool is a candidate
Broad(pool) == {r \in Reservations : reservationRows[r].pool = pool}
Strict(pool) == {r \in Broad(pool) : /\ Resolved(reservationRows[r])
                                     /\ Physical(reservationRows[r]) = Physical(vmRow)}
Candidates(pool) ==
  IF Resolved(vmRow) /\ \A r \in Broad(pool) : Resolved(reservationRows[r])
  THEN Strict(pool) ELSE Broad(pool)

Reconcile ==
  /\ stage = "query" /\ vmRow # Nothing /\ reservationRows # Nothing
  /\ candidates' = IF vmRow.pool = Nothing THEN {} ELSE Candidates(vmRow.pool)
  /\ stage' = "views"
  /\ UNCHANGED <<azure, known, vmRow, reservationRows, views, report, changed>>

\* enrich_vm_reservation_lifecycle fetches the views in threads
FetchInstanceView(r) ==
  /\ stage = "views" /\ r \in candidates /\ views[r] = Nothing
  /\ \E v \in View : v.listed = Fits(r) /\ views' = [views EXCEPT ![r] = v]
  /\ UNCHANGED <<azure, known, stage, vmRow, reservationRows, candidates, report, changed>>

\* A view that cannot be had, after its retries, fails the request
ViewFails ==
  /\ stage = "views" /\ \E r \in candidates : views[r] = Nothing
  /\ stage' = "failed"
  /\ UNCHANGED <<azure, known, vmRow, reservationRows, candidates, views, report, changed>>

StatusOf(v) ==
  IF v.capacity = 0 THEN "Associated, no capacity"
  ELSE IF v.allocated THEN IF v.used <= v.capacity THEN "Allocated, within capacity"
                           ELSE "Allocated, overallocated"
  ELSE IF v.used < v.capacity THEN "Associated, capacity available"
  ELSE "Associated, capacity fully used"

AnyCandidate == candidates
Listing == {r \in candidates : views[r].listed}

EnrichLifecycle ==
  /\ stage = "views" /\ \A r \in candidates : views[r] # Nothing
  /\ report' = IF vmRow.pool = Nothing THEN [report EXCEPT !.status = "Not associated"]
               ELSE IF Cardinality(Listing) # 1 THEN [report EXCEPT !.status = "Configuration issue"]
               ELSE LET r == CHOOSE r \in Listing : TRUE
                    IN  [report EXCEPT !.status = StatusOf(views[r]), !.reservation = r]
  /\ stage' = "sku"
  /\ views' = NoViews
  /\ UNCHANGED <<azure, known, vmRow, reservationRows, candidates, changed>>

-------------------------------------------------------------------------------
\* apply_odcr_eligibility, after what the catalogue said: TRUE, FALSE, or Nothing
\* where it fails or has no record, or the record does not say
Requirements(blocked, sku) ==
  [key \in Keys |->
     CASE key = "vmSkuSupport" ->
            [status |-> IF sku = Nothing THEN "Unknown" ELSE IF sku THEN "Passed" ELSE "Failed",
             reason |-> IF sku = Nothing THEN "lookup" ELSE IF sku THEN Nothing ELSE "definition"]
       [] key = "vmssPlacementModel" -> [status |-> "Not applicable", reason |-> Nothing]
       [] OTHER -> IF key \in blocked THEN [status |-> "Failed", reason |-> "definition"]
                   ELSE [status |-> "Passed", reason |-> Nothing]]

Verdict(requirements) ==
  LET found == {requirements[key].status : key \in Keys}
  IN  IF "Failed" \in found THEN "Unsupported" ELSE IF "Unknown" \in found THEN "Unknown"
      ELSE "Supported"

\* project_vm_list_row: what did not pass, without the reason the metadata has
FailedOnly(row) == {key \in Keys : row[key].status = "Failed"}
Told(row) == {key \in Keys : row[key].status # "Passed"}
Projected(row) ==
  {[key |-> key, status |-> row[key].status,
    reason |-> IF row[key].reason = "definition" THEN Nothing ELSE row[key].reason] : key \in Told(row)}

Eligibility ==
  /\ stage = "sku"
  /\ \E blocked \in SUBSET Flags, sku \in {TRUE, FALSE, Nothing} :
       LET row == Requirements(blocked, sku)
       IN  report' = [report EXCEPT !.verdict = Verdict(row), !.requirements = row,
                                    !.sparse = Projected(row)]
  /\ stage' = "done"
  /\ vmRow' = Nothing /\ reservationRows' = Nothing /\ candidates' = {}
  /\ UNCHANGED <<azure, known, views, changed>>

\* openOdcrDetails: what the row tells of a key of the metadata, "Passed" where
\* it tells nothing, and the reason that the metadata has for a failure
Unfolded(key) ==
  LET told == {t \in report.sparse : t.key = key}
  IN  IF told = {} THEN [status |-> "Passed", reason |-> Nothing]
      ELSE LET t == CHOOSE t \in told : TRUE
           IN  [status |-> t.status,
                reason |-> IF t.reason = Nothing /\ t.status = "Failed" THEN "definition" ELSE t.reason]

ReportNext ==
  \/ AzureChanges
  \/ QueryVms \/ QueryReservations \/ Reconcile
  \/ \E r \in Reservations : FetchInstanceView(r)
  \/ ViewFails \/ EnrichLifecycle \/ Eligibility

ReportSpec == ReportInit /\ [][ReportNext]_reportVars

-------------------------------------------------------------------------------
ReportTypeOK ==
  /\ azure \in [vm : VirtualMachine, reservations : [Reservations -> Reservation]]
  /\ known \in SUBSET ReportSubscriptions
  /\ stage \in {"query", "views", "sku", "done", "failed"}
  /\ vmRow \in VirtualMachine \cup {Nothing}
  /\ reservationRows \in [Reservations -> Reservation] \cup {Nothing}
  /\ candidates \in SUBSET Reservations
  /\ views \in [Reservations -> View \cup {Nothing}]
  /\ report.status \in Statuses \cup {Nothing} /\ report.reservation \in Reservations \cup {Nothing}
  /\ report.verdict \in {"Unsupported", "Unknown", "Supported", Nothing}
  /\ report.requirements \in [Keys -> Results] \cup {Nothing}
  /\ changed \in BOOLEAN

\* odcr_coverage.py 341-380 and 471-497, "preserving unresolved zonal rows as
\* unknown": whichever zones are not known, and with zones that have different
\* numbers in the subscriptions, a VM that stays where it is is given the one
\* reservation that holds it, and a configuration issue only without such a one.
\* Where it is associated or dissociated between the queries and the instance
\* views, a reservation named is one of the pool and of the zone of its row
StatusTruthful ==
  stage = "sku" =>
    /\ report.reservation # Nothing =>
         LET r == reservationRows[report.reservation]
         IN  r.pool = vmRow.pool /\ Physical(r) = Physical(vmRow)
    /\ ~changed =>
         LET holding == {r \in Reservations : Fits(r)}
         IN  IF azure.vm.pool = Nothing THEN report.status = "Not associated"
             ELSE IF Cardinality(holding) = 1 THEN report.reservation \in holding
             ELSE report.status = "Configuration issue"

\* odcr_coverage.py 96-120 and vm-coverage.js 690-712: what the row leaves out, the
\* browser puts back: the requirements it shows are those the verdict came from
DetailsUnfold ==
  stage = "done" =>
    /\ \A key \in Keys : Unfolded(key) = report.requirements[key]
    /\ report.verdict = Verdict([key \in Keys |-> Unfolded(key)])

===============================================================================
