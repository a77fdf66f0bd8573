--------------------------- MODULE ReferenceCatalog ----------------------------
(***************************************************************************)
(* One kind of Azure Reference Data, subscriptions or locations (services/ *)
(* reference_data.py over storage/reference_data_store.py).  Its refresh   *)
(* publishes whole generations, and nothing deletes them.  A process keeps *)
(* one entry, a generation or the fact that there is none, and serves it   *)
(* without a look at the manifest until it expires; then it compares the   *)
(* manifest's ETag and renews the entry or downloads the new generation.   *)
(* Any thread may do so at any time: the entry is the last writer's.       *)
(*                                                                         *)
(* As in SkuCatalog a generation's number is its manifest's ETag too, 0    *)
(* stands for a manifest that is not there, and a generation's content is  *)
(* left out.  No manifest names a snapshot before its upload is done, so a *)
(* publication is the upload of its manifest.                              *)
(***************************************************************************)
EXTENDS Integers

CONSTANTS
  Askers,          \* threads of one process that open the catalogue
  Ttl,             \* azure_reference_data_l1_ttl_seconds
  Stay,            \* how long an operation of the store may take
  MaxAttempts,     \* max_attempts of run_catalogue_refresh
  MaxPublished,    \* bound: generations
  MaxClock         \* bound: time

ASSUME ReferenceAssumption ==
  /\ Ttl \in Nat \ {0} /\ Stay \in Nat
  /\ MaxAttempts \in Nat \ {0} /\ MaxPublished \in Nat /\ MaxClock \in Nat

VARIABLES
  refManifest,  \* the generation the manifest names
  refEntry,     \* _cache[kind]
  refRun,       \* the refresh
  opened,       \* where each thread is that opens the catalogue
  clock,        \* time.monotonic()
  replaced      \* when each generation was replaced (read by the property only)

refVars == <<refManifest, refEntry, refRun, opened, clock, replaced>>

-------------------------------------------------------------------------------
RefGenerations == 0 .. MaxPublished
RefTimes == 0 .. MaxClock

\* What a thread knows: when it began, the ETag and the generation it found; at
\* the end how long ago, when it began, its answer had last been current
RefOpening == [pc : {"idle", "tag", "compare", "download", "keep"},
            began : RefTimes, tag : RefGenerations, gen : RefGenerations, lag : Int]
Unopened == [pc |-> "idle", began |-> 0, tag |-> 0, gen |-> 0, lag |-> 0]

RefInit ==
  /\ refManifest = 0
  /\ refEntry = [gen |-> 0, tag |-> 0, until |-> 0]
  /\ refRun = [pc |-> "idle", attempt |-> 0, gen |-> 0, began |-> 0]
  /\ opened = [a \in Askers |-> Unopened]
  /\ clock = 0
  /\ replaced = [g \in RefGenerations |-> 0]

-------------------------------------------------------------------------------
(* run_catalogue_refresh over the refresh activity of the pipeline         *)

RefRefreshBegins ==
  /\ refRun.pc = "idle"
  /\ refRun.gen < MaxPublished
  /\ refRun' = [refRun EXCEPT !.pc = "fetch"]
  /\ UNCHANGED <<refManifest, refEntry, opened, clock, replaced>>

\* retry, while attempts are left
AttemptsLeft == refRun.attempt + 1 < MaxAttempts

RefThrottled ==
  /\ refRun.pc = "fetch"
  /\ refRun' = IF AttemptsLeft THEN [refRun EXCEPT !.attempt = @ + 1]
               ELSE [refRun EXCEPT !.pc = "idle", !.attempt = 0]
  /\ UNCHANGED <<refManifest, refEntry, opened, clock, replaced>>

\* The inventory does not come, or names one thing twice and differently
RefRefreshFails ==
  /\ refRun.pc = "fetch"
  /\ refRun' = [refRun EXCEPT !.pc = "idle", !.attempt = 0]
  /\ UNCHANGED <<refManifest, refEntry, opened, clock, replaced>>

\* A whole new generation, in the readers' process or in another
RefPublishes ==
  /\ refRun.pc = "fetch"
  /\ \E here \in BOOLEAN :
       refRun' = [refRun EXCEPT !.pc = IF here THEN "remember" ELSE "idle", !.attempt = 0,
                                !.gen = @ + 1, !.began = IF here THEN clock ELSE 0]
  /\ refManifest' = refRun.gen + 1
  /\ replaced' = [replaced EXCEPT ![refManifest] = clock]
  /\ UNCHANGED <<refEntry, opened, clock>>

\* _set_cache: an entry lives from the moment it is set
RefEntry(gen, tag) == [gen |-> gen, tag |-> tag, until |-> clock + Ttl]

RefRemembers ==
  /\ refRun.pc = "remember"
  /\ refEntry' = RefEntry(refRun.gen, refRun.gen)
  /\ refRun' = [refRun EXCEPT !.pc = "idle", !.began = 0]
  /\ UNCHANGED <<refManifest, opened, clock, replaced>>

-------------------------------------------------------------------------------
(* open_snapshot                                                           *)

Lag(gen, began) == IF gen = refManifest THEN 0 ELSE began - replaced[gen]
Answers(a, gen, began) ==
  opened' = [opened EXCEPT ![a] = [Unopened EXCEPT !.lag = Lag(gen, began)]]

\* An entry that has not expired answers at once, "there is none" included
RefLive == refEntry.until > clock
AnswersAtOnce(a) ==
  /\ opened[a].pc = "idle"
  /\ RefLive
  /\ Answers(a, refEntry.gen, clock)
  /\ UNCHANGED <<refManifest, refEntry, refRun, clock, replaced>>

Opens(a) ==
  /\ opened[a].pc = "idle"
  /\ ~RefLive
  /\ opened' = [opened EXCEPT ![a] = [Unopened EXCEPT !.pc = "tag", !.began = clock]]
  /\ UNCHANGED <<refManifest, refEntry, refRun, clock, replaced>>

\* get_blob_properties: ETag, or 404, which _set_cache keeps as well
RefReadsTag(a) ==
  /\ opened[a].pc = "tag"
  /\ opened' = [opened EXCEPT ![a].pc = IF refManifest = 0 THEN "keep" ELSE "compare",
                              ![a].tag = refManifest]
  /\ UNCHANGED <<refManifest, refEntry, refRun, clock, replaced>>

\* The entry whose ETag is still the manifest's is renewed, from when the thread began
RenewableAny(a) == refEntry.gen # 0
Renewable(a) == refEntry.gen # 0 /\ refEntry.tag = opened[a].tag

Renews(a) ==
  /\ opened[a].pc = "compare" /\ Renewable(a)
  /\ refEntry' = [refEntry EXCEPT !.tag = opened[a].tag, !.until = opened[a].began + Ttl]
  /\ Answers(a, refEntry.gen, opened[a].began)
  /\ UNCHANGED <<refManifest, refRun, clock, replaced>>

Differs(a) ==
  /\ opened[a].pc = "compare" /\ ~Renewable(a)
  /\ opened' = [opened EXCEPT ![a].pc = "download"]
  /\ UNCHANGED <<refManifest, refEntry, refRun, clock, replaced>>

Downloads(a) ==
  /\ opened[a].pc = "download"
  /\ opened' = [opened EXCEPT ![a].pc = "keep", ![a].gen = refManifest]
  /\ UNCHANGED <<refManifest, refEntry, refRun, clock, replaced>>

FetchedWithTagNow(a) == RefEntry(opened[a].gen, refManifest)
Fetched(a) == RefEntry(opened[a].gen, opened[a].tag)

Keeps(a) ==
  /\ opened[a].pc = "keep"
  /\ refEntry' = Fetched(a)
  /\ Answers(a, opened[a].gen, opened[a].began)
  /\ UNCHANGED <<refManifest, refRun, clock, replaced>>

\* Nobody is at work in the store for longer than Stay
RefClock ==
  /\ clock < MaxClock
  /\ \A a \in Askers : opened[a].pc # "idle" => clock < opened[a].began + Stay
  /\ refRun.pc = "remember" => clock < refRun.began + Stay
  /\ clock' = clock + 1
  /\ UNCHANGED <<refManifest, refEntry, refRun, opened, replaced>>

RefNext ==
  \/ RefRefreshBegins \/ RefThrottled \/ RefRefreshFails \/ RefPublishes \/ RefRemembers \/ RefClock
  \/ \E a \in Askers :
       \/ AnswersAtOnce(a) \/ Opens(a) \/ RefReadsTag(a) \/ Renews(a) \/ Differs(a)
       \/ Downloads(a) \/ Keeps(a)

RefSpec == RefInit /\ [][RefNext]_refVars

-------------------------------------------------------------------------------
RefTypeOK ==
  /\ refManifest \in RefGenerations
  /\ refEntry \in [gen : RefGenerations, tag : RefGenerations, until : 0 .. MaxClock + Ttl]
  /\ refRun \in [pc : {"idle", "fetch", "remember"}, attempt : 0 .. MaxAttempts - 1,
                 gen : RefGenerations, began : RefTimes]
  /\ opened \in [Askers -> RefOpening]
  /\ clock \in RefTimes
  /\ replaced \in [RefGenerations -> RefTimes]

\* reference_data_store.py 111-146: a late thread may put an old generation, or
\* "there is none", over what was published meanwhile, and others then renew
\* what is there.  All the same an answer was current less than one life of an
\* entry and one operation of the store before the thread that gives it began
LagBounded == \A a \in Askers : opened[a].lag < Ttl + Stay

===============================================================================
