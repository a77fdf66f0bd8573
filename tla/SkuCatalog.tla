----------------------------- MODULE SkuCatalog -------------------------------
(***************************************************************************)
(* The Compute SKU catalogue (services/compute_skus.py over storage/       *)
(* compute_sku_store.py).  A refresh uploads the whole catalogue as one    *)
(* immutable snapshot and then points the manifest blob at it.  A process  *)
(* keeps the snapshot and the indexes over it with the manifest's ETag;    *)
(* a read compares that ETag, loads what is new and looks pairs up in the  *)
(* indexes, which another thread may have replaced meanwhile.              *)
(*                                                                         *)
(* A generation stands for its catalogue.  The manifest is written once    *)
(* for each, so the generation's number is the manifest's ETag as well.    *)
(* Refresh and flush are runs of one scope, of which the dispatcher lets   *)
(* one live (Dispatcher, ScopeLock).                                       *)
(***************************************************************************)
EXTENDS Naturals

CONSTANTS
  Readers,         \* threads of one process that read the catalogue
  MaxTries,        \* MAX_PAGE_THROTTLES
  MaxGenerations,  \* bound: catalogues retrieved
  MaxFlushes       \* bound: flushes

ASSUME SkuAssumption == MaxTries \in Nat /\ MaxGenerations \in Nat /\ MaxFlushes \in Nat

VARIABLES
  skuManifest,  \* the generation current.json names, 0 without the blob
  skuBlobs,     \* generations whose snapshot blob exists
  skuCache,     \* the process's snapshot and indexes, with the ETag they came with
  skuRun,       \* the refresh or flush under way
  skuRead,      \* where each reader is
  flushes       \* flushes so far

skuVars == <<skuManifest, skuBlobs, skuCache, skuRun, skuRead, flushes>>

-------------------------------------------------------------------------------
SkuGenerations == 1 .. MaxGenerations
NoCache == [gen |-> 0, tag |-> 0]

\* A reader: the ETag and generation it found; of what it answers, the
\* generation, 0 for "nothing published".  For the properties: the generations
\* that were current while it, or a reader it overlaps, was at work, and
\* whether a flush had snapshots deleted
SkuReader ==
  [pc : {"idle", "check", "manifest", "snapshot", "keep", "look", "done", "failed"},
   tag : 0 .. MaxGenerations, gen : 0 .. MaxGenerations, answer : 0 .. MaxGenerations,
   seen : SUBSET (0 .. MaxGenerations), since : SUBSET (0 .. MaxGenerations),
   torn : BOOLEAN]

\* A run: the generation it publishes, the uploads done, whether it runs in the
\* readers' process; for a flush the names still to delete, 0 for the manifest.
\* torn: has a flush begun after which no manifest was written?
SkuRun ==
  [pc : {"idle", "fetch", "upload", "remember", "delete"},
   tries : 0 .. MaxTries, gen : 0 .. MaxGenerations, uploads : 0 .. 2, here : BOOLEAN,
   names : SUBSET (0 .. MaxGenerations), torn : BOOLEAN]

SkuInit ==
  /\ skuManifest = 0
  /\ skuBlobs = {}
  /\ skuCache = NoCache
  /\ skuRun = [pc |-> "idle", tries |-> 0, gen |-> 0, uploads |-> 0, here |-> FALSE,
               names |-> {}, torn |-> FALSE]
  /\ skuRead = [r \in Readers |-> [pc |-> "idle", tag |-> 0, gen |-> 0, answer |-> 0,
                                   seen |-> {}, since |-> {}, torn |-> FALSE]]
  /\ flushes = 0

\* Of a run only the generation, and what a flush broke, outlast it
SkuRunOver == [skuRun EXCEPT !.pc = "idle", !.tries = 0, !.uploads = 0, !.here = FALSE,
                             !.names = {}]

Reading(r) == skuRead[r].pc \notin {"idle", "done", "failed"}

-------------------------------------------------------------------------------
(* The refresh: compute_skus_resolve_plan, then compute_skus_fetch_and_    *)
(* store again and again while Azure throttles.  A plan that fails, for    *)
(* want of a scope, changes nothing.                                       *)

SkuRefreshBegins ==
  /\ skuRun.pc = "idle"
  /\ skuRun.gen < MaxGenerations
  /\ skuRun' = [skuRun EXCEPT !.pc = "fetch"]
  /\ UNCHANGED <<skuManifest, skuBlobs, skuCache, skuRead, flushes>>

\* throttled or transient: another activity after a timer, up to a bound
SkuThrottled ==
  /\ skuRun.pc = "fetch"
  /\ skuRun' = IF skuRun.tries >= MaxTries THEN SkuRunOver
               ELSE [skuRun EXCEPT !.tries = @ + 1]
  /\ UNCHANGED <<skuManifest, skuBlobs, skuCache, skuRead, flushes>>

\* Every page came and no two of them contradict each other
Retrieved ==
  /\ skuRun.pc = "fetch"
  /\ \E here \in BOOLEAN :
       skuRun' = [skuRun EXCEPT !.pc = "upload", !.tries = 0, !.gen = @ + 1, !.here = here]
  /\ UNCHANGED <<skuManifest, skuBlobs, skuCache, skuRead, flushes>>

\* The manifest is read by whoever comes next: what was current grows
SkuCurrent(g) ==
  /\ skuManifest' = g
  /\ skuRead' = [r \in Readers |->
                   IF Reading(r) THEN [skuRead[r] EXCEPT !.seen = @ \cup {g},
                                                         !.since = @ \cup {g}]
                   ELSE skuRead[r]]

\* publish_catalog: the order of its two uploads
ManifestFirst == <<"manifest", "snapshot">>
Uploads == <<"snapshot", "manifest">>

Uploading(what) ==
  /\ skuRun.pc = "upload"
  /\ Uploads[skuRun.uploads + 1] = what
  /\ skuRun' = [skuRun EXCEPT !.pc = IF skuRun.uploads = 1 THEN "remember" ELSE "upload",
                              !.uploads = @ + 1,
                              !.torn = @ /\ what # "manifest"]

UploadSnapshot ==
  /\ Uploading("snapshot")
  /\ skuBlobs' = skuBlobs \cup {skuRun.gen}
  /\ UNCHANGED <<skuManifest, skuCache, skuRead, flushes>>

UploadManifest ==
  /\ Uploading("manifest")
  /\ SkuCurrent(skuRun.gen)
  /\ UNCHANGED <<skuBlobs, skuCache, flushes>>

SkuRemembers ==
  /\ skuRun.pc = "remember"
  /\ skuCache' = IF skuRun.here THEN [gen |-> skuRun.gen, tag |-> skuRun.gen] ELSE skuCache
  /\ skuRun' = SkuRunOver
  /\ UNCHANGED <<skuManifest, skuBlobs, skuRead, flushes>>

\* Retrieval or an upload fails, or a blob is not deleted: the run is over
RunFails ==
  /\ skuRun.pc \in {"fetch", "upload", "delete"}
  /\ skuRun' = SkuRunOver
  /\ UNCHANGED <<skuManifest, skuBlobs, skuCache, skuRead, flushes>>

-------------------------------------------------------------------------------
(* delete_storage: one batch of deletions, then the process's cache        *)

FlushLists ==
  /\ skuRun.pc = "idle"
  /\ flushes < MaxFlushes
  /\ flushes' = flushes + 1
  /\ \E here \in BOOLEAN :
       skuRun' = [skuRun EXCEPT !.pc = "delete", !.here = here, !.torn = TRUE,
                    !.names = skuBlobs \cup (IF skuManifest = 0 THEN {} ELSE {0})]
  /\ skuRead' = [r \in Readers |-> [skuRead[r] EXCEPT !.torn = @ \/ Reading(r)]]
  /\ UNCHANGED <<skuManifest, skuBlobs, skuCache>>

FlushDeletes ==
  /\ skuRun.pc = "delete"
  /\ \E name \in skuRun.names :
       /\ skuRun' = [skuRun EXCEPT !.names = @ \ {name}]
       /\ skuBlobs' = skuBlobs \ {name}
       /\ IF name = 0 THEN SkuCurrent(0) ELSE UNCHANGED <<skuManifest, skuRead>>
  /\ UNCHANGED <<skuCache, flushes>>

FlushForgets ==
  /\ skuRun.pc = "delete" /\ skuRun.names = {}
  /\ skuCache' = IF skuRun.here THEN NoCache ELSE skuCache
  /\ skuRun' = SkuRunOver
  /\ UNCHANGED <<skuManifest, skuBlobs, skuRead, flushes>>

-------------------------------------------------------------------------------
(* find_pairs, find and get_state: _snapshot, and then the indexes under a *)
(* lock of their own, or, for get_state, the snapshot that was returned    *)

Reads(r, from, change) ==
  /\ skuRead[r].pc = from
  /\ skuRead' = [skuRead EXCEPT ![r] = change]

\* get_blob_properties; without a manifest nothing is published
ReadsTag(r) ==
  /\ ~Reading(r)
  /\ skuRead' = [skuRead EXCEPT ![r] =
       [pc |-> IF skuManifest = 0 THEN "done" ELSE "check", tag |-> skuManifest, gen |-> 0,
        answer |-> 0, seen |-> {skuManifest}, torn |-> skuRun.torn,
        since |-> {skuManifest} \cup UNION {skuRead[o].seen : o \in {o \in Readers : Reading(o)}}]]
  /\ UNCHANGED <<skuManifest, skuBlobs, skuCache, skuRun, flushes>>

\* The cache holds what the ETag found vouches for
MatchesAny(tag) == skuCache.gen # 0
Matches(tag) == skuCache.gen # 0 /\ skuCache.tag = tag

ChecksCache(r) ==
  /\ Reads(r, "check", IF Matches(skuRead[r].tag)
                       THEN [skuRead[r] EXCEPT !.pc = "look", !.gen = skuCache.gen]
                       ELSE [skuRead[r] EXCEPT !.pc = "manifest"])
  /\ UNCHANGED <<skuManifest, skuBlobs, skuCache, skuRun, flushes>>

DownloadsManifest(r) ==
  /\ Reads(r, "manifest", [skuRead[r] EXCEPT !.pc = IF skuManifest = 0 THEN "failed" ELSE "snapshot",
                                             !.gen = skuManifest])
  /\ UNCHANGED <<skuManifest, skuBlobs, skuCache, skuRun, flushes>>

DownloadsSnapshot(r) ==
  /\ Reads(r, "snapshot", [skuRead[r] EXCEPT !.pc = IF skuRead[r].gen \in skuBlobs THEN "keep" ELSE "failed"])
  /\ UNCHANGED <<skuManifest, skuBlobs, skuCache, skuRun, flushes>>

\* _set_cache: snapshot, indexes and the ETag found at first, under one lock
KeptWithTagNow(r) == [gen |-> skuRead[r].gen, tag |-> skuManifest]
Kept(r) == [gen |-> skuRead[r].gen, tag |-> skuRead[r].tag]

KeepsSnapshot(r) ==
  /\ Reads(r, "keep", [skuRead[r] EXCEPT !.pc = "look"])
  /\ skuCache' = Kept(r)
  /\ UNCHANGED <<skuManifest, skuBlobs, skuRun, flushes>>

SkuAnswers(r, g) ==
  /\ Reads(r, "look", [skuRead[r] EXCEPT !.pc = "done", !.answer = g,
                                         !.tag = 0, !.gen = 0, !.seen = {}, !.torn = FALSE])
  /\ UNCHANGED <<skuManifest, skuBlobs, skuCache, skuRun, flushes>>

\* find and find_pairs: the indexes as they are by now
LooksUp(r) == SkuAnswers(r, skuCache.gen)

\* get_state: the snapshot that was returned
AnswersState(r) == SkuAnswers(r, skuRead[r].gen)

Read(r) ==
  \/ ReadsTag(r) \/ ChecksCache(r) \/ DownloadsManifest(r) \/ DownloadsSnapshot(r)
  \/ KeepsSnapshot(r) \/ LooksUp(r) \/ AnswersState(r)

SkuNext ==
  \/ SkuRefreshBegins \/ SkuThrottled \/ Retrieved \/ UploadSnapshot \/ UploadManifest
  \/ SkuRemembers \/ RunFails
  \/ FlushLists \/ FlushDeletes \/ FlushForgets
  \/ \E r \in Readers : Read(r)

SkuSpec == SkuInit /\ [][SkuNext]_skuVars

-------------------------------------------------------------------------------
SkuTypeOK ==
  /\ skuManifest \in 0 .. MaxGenerations
  /\ skuBlobs \subseteq SkuGenerations
  /\ skuCache \in [gen : 0 .. MaxGenerations, tag : 0 .. MaxGenerations]
  /\ skuRun \in SkuRun
  /\ skuRead \in [Readers -> SkuReader]
  /\ flushes \in 0 .. MaxFlushes

\* compute_sku_store.py 125-146: the ETag is read before what it vouches for is
\* downloaded.  However publications, flushes and other readers come between, a
\* process never keeps an old catalogue with the ETag of the current one, for
\* it would serve that catalogue until the next publication
CurrentIfMatched ==
  skuCache.gen # 0 /\ skuCache.tag = skuManifest => skuCache.gen = skuManifest

\* compute_sku_store.py 163-203: the indexes are looked at under a second lock,
\* after the snapshot was checked, and a slower reader may have put an older
\* catalogue there.  What a read answers with was current, at the earliest, when
\* the oldest reader that it overlaps began
AnswerRecent == \A r \in Readers : skuRead[r].pc = "done" => skuRead[r].answer \in skuRead[r].since

\* compute_sku_store.py 97-115: a publication is never seen in part: a read
\* fails only where a flush began to delete and nothing has been published since
FailsByFlushOnly == \A r \in Readers : skuRead[r].pc = "failed" => skuRead[r].torn

===============================================================================
