----------------------------- MODULE SnapshotProofs -----------------------------
(***************************************************************************)
(* Theorems of what is published in snapshots: of SkuCatalog, for any      *)
(* readers, retries, generations and flushes; of ReferenceCatalog, for any *)
(* threads, times to live and delays; and of ZoneMapping, for any          *)
(* subscriptions, regions, moves of the scope, retries and faults.         *)
(***************************************************************************)
EXTENDS SkuCatalog, ReferenceCatalog, ZoneMapping, TLAPS

-------------------------------------------------------------------------------
(***************************************************************************)
(* The SKU catalogue.                                                      *)
(***************************************************************************)
\* Nothing older has been published since g was
NotAhead(g) == skuManifest = 0 \/ g <= skuManifest

\* Where the run is: a generation is published after its snapshot, and a flush
\* deletes the manifest among the blobs
RunHolds ==
  /\ skuRun.pc \in {"idle", "fetch"} => skuRun.uploads = 0
  /\ skuRun.pc = "fetch" => skuRun.gen < MaxGenerations
  /\ skuRun.pc = "upload" => /\ skuRun.uploads \in {0, 1} /\ skuRun.gen # 0
                             /\ skuRun.uploads = 1 => skuRun.gen \in skuBlobs
  /\ skuRun.pc = "remember" => skuManifest = skuRun.gen /\ skuRun.gen # 0
  /\ skuRun.pc = "delete" => skuRun.torn /\ (0 \notin skuRun.names => skuManifest = 0)
  /\ skuManifest <= skuRun.gen
  /\ skuManifest # 0 /\ ~skuRun.torn => skuManifest \in skuBlobs

\* A catalogue is kept with its own ETag, or with an older one that is never
\* current again
CacheHolds ==
  skuCache.gen # 0 => /\ 0 < skuCache.tag /\ skuCache.tag <= skuCache.gen
                      /\ skuCache.gen <= skuRun.gen /\ NotAhead(skuCache.gen)

\* One reader: what it found it has seen, and so has it the catalogue that it
\* could take from the cache; without a flush nothing it needs is missing
Working(x) == x.pc \notin {"idle", "done", "failed"}

Found(x) == 0 < x.tag /\ x.tag <= skuRun.gen /\ NotAhead(x.tag)
Downloaded(x) ==
  x.pc \in {"snapshot", "keep"} => /\ x.tag <= x.gen /\ x.gen <= skuRun.gen /\ NotAhead(x.gen)
                                   /\ x.gen \in x.seen
Sees(x) ==
  /\ skuManifest \in x.seen
  /\ skuCache.gen >= x.tag \/ x.pc = "look" => skuCache.gen \in x.since
  /\ x.pc = "look" => x.gen \in x.since
Untorn(x) ==
  ~x.torn => skuManifest # 0 /\ ~skuRun.torn /\ (x.pc = "snapshot" => x.gen \in skuBlobs)

Settled(x) ==
  /\ Working(x) => Found(x) /\ Downloaded(x) /\ Sees(x) /\ Untorn(x)
  /\ x.pc = "done" => x.answer \in x.since
  /\ x.pc = "failed" => x.torn

ReadersHold == \A r \in Readers : Settled(skuRead[r])

\* What one reader has seen, those it overlaps know as current since they began
Overlaps ==
  \A r, o \in Readers :
    Working(skuRead[r]) /\ Working(skuRead[o]) => skuRead[o].seen \subseteq skuRead[r].since

SkuInv == SkuTypeOK /\ RunHolds /\ CacheHolds /\ ReadersHold /\ Overlaps

-------------------------------------------------------------------------------
LEMMA ReadingIsWorking == \A r \in Readers : Reading(r) <=> Working(skuRead[r])
BY DEF Reading, Working

LEMMA SkuInitInv == SkuInit => SkuInv
<1> SUFFICES ASSUME SkuInit PROVE SkuInv
  OBVIOUS
<1> USE DEF SkuInit
<1>1. SkuTypeOK
  BY SkuAssumption DEF SkuTypeOK, SkuGenerations, NoCache, SkuRun, SkuReader
<1>2. RunHolds /\ CacheHolds
  BY DEF RunHolds, CacheHolds, NoCache
<1>3. \A r \in Readers : skuRead[r].pc = "idle"
  OBVIOUS
<1>4. ReadersHold /\ Overlaps
  BY <1>3 DEF ReadersHold, Overlaps, Settled, Working
<1> QED BY <1>1, <1>2, <1>4 DEF SkuInv

(***************************************************************************)
(* Steps of the run that leave manifest and readers alone: what is said of *)
(* readers depends on the run only by its generation and by what is torn.  *)
(***************************************************************************)
LEMMA RunMoves ==
  ASSUME SkuInv, skuRun' \in SkuRun, skuRun.gen <= skuRun'.gen, RunHolds',
         skuRun'.torn => skuRun.torn, skuBlobs \subseteq skuBlobs', skuBlobs' \subseteq SkuGenerations,
         flushes' \in 0 .. MaxFlushes,
         UNCHANGED <<skuManifest, skuCache, skuRead>>
  PROVE  SkuInv'
<1>1. SkuTypeOK'
  BY DEF SkuInv, SkuTypeOK
<1>2. /\ skuRun.gen \in Nat /\ skuRun'.gen \in Nat /\ skuCache.gen \in Nat /\ skuManifest \in Nat
      /\ \A r \in Readers : skuRead[r].tag \in Nat /\ skuRead[r].gen \in Nat
  BY SkuAssumption DEF SkuInv, SkuTypeOK, SkuRun, SkuReader
<1>3. CacheHolds'
  BY <1>2 DEF SkuInv, CacheHolds, NotAhead
<1>4. ASSUME NEW r \in Readers PROVE Settled(skuRead[r])'
  <2>1. Settled(skuRead[r])
    BY DEF SkuInv, ReadersHold
  <2>2. skuRead[r].torn \in BOOLEAN /\ skuRun.torn \in BOOLEAN /\ skuRun'.torn \in BOOLEAN
    BY DEF SkuInv, SkuTypeOK, SkuRun, SkuReader
  <2> QED BY <1>2, <2>1, <2>2
       DEF Settled, Working, Found, Downloaded, Sees, Untorn, NotAhead
<1>5. ReadersHold' /\ Overlaps'
  BY <1>4 DEF SkuInv, ReadersHold, Overlaps
<1> QED BY <1>1, <1>3, <1>5 DEF SkuInv

LEMMA OverRun == ASSUME SkuInv
  PROVE /\ SkuRunOver \in SkuRun /\ SkuRunOver.gen = skuRun.gen /\ SkuRunOver.torn = skuRun.torn
        /\ SkuRunOver.pc = "idle" /\ SkuRunOver.uploads = 0
<1>1. skuRun \in SkuRun /\ 0 \in 0 .. MaxTries
  BY SkuAssumption DEF SkuInv, SkuTypeOK
<1>2. SkuRunOver \in SkuRun
  <2>1. PICK n \in 0 .. 2, m \in 0 .. MaxTries : n = 0 /\ m = 0
    BY <1>1
  <2>2. SkuRunOver = [skuRun EXCEPT !.pc = "idle", !.tries = m, !.uploads = n, !.here = FALSE, !.names = {}]
    BY <2>1 DEF SkuRunOver
  <2> QED BY <1>1, <2>2 DEF SkuRun
<1>3. SkuRunOver.gen = skuRun.gen /\ SkuRunOver.torn = skuRun.torn
  BY <1>1, Zenon DEF SkuRunOver, SkuRun
<1>4. SkuRunOver.pc = "idle" /\ SkuRunOver.uploads = 0
  BY <1>1 DEF SkuRunOver, SkuRun
<1> QED BY <1>2, <1>3, <1>4

\* Of a run that is over, as of any run, holds what does not depend on its place
LEMMA RunEnds ==
  ASSUME SkuInv, skuRun' = SkuRunOver, UNCHANGED <<skuManifest, skuBlobs>> PROVE RunHolds'
BY OverRun DEF SkuInv, RunHolds

LEMMA RunEndsInv ==
  ASSUME SkuInv, skuRun' = SkuRunOver,
         UNCHANGED <<skuManifest, skuBlobs, skuCache, skuRead, flushes>>
  PROVE  SkuInv'
<1>1. RunHolds'
  BY RunEnds
<1>2. skuRun.gen \in Nat /\ skuBlobs \subseteq SkuGenerations /\ flushes \in 0 .. MaxFlushes
  BY SkuAssumption DEF SkuInv, SkuTypeOK, SkuRun
<1>3. /\ skuRun' \in SkuRun /\ skuRun.gen <= skuRun'.gen /\ (skuRun'.torn => skuRun.torn)
      /\ skuBlobs \subseteq skuBlobs' /\ skuBlobs' \subseteq SkuGenerations
      /\ flushes' \in 0 .. MaxFlushes
  BY <1>2, OverRun
<1> QED BY <1>1, <1>3, RunMoves

LEMMA BeginsInv == ASSUME SkuInv, SkuRefreshBegins PROVE SkuInv'
<1>1. /\ skuRun \in SkuRun /\ skuRun.pc = "idle" /\ skuRun.gen < MaxGenerations
      /\ skuRun' = [skuRun EXCEPT !.pc = "fetch"]
      /\ UNCHANGED <<skuManifest, skuBlobs, skuCache, skuRead, flushes>>
      /\ skuBlobs \subseteq SkuGenerations /\ flushes \in 0 .. MaxFlushes
  BY DEF SkuInv, SkuTypeOK, SkuRefreshBegins
<1>2. /\ skuRun' \in SkuRun /\ skuRun'.pc = "fetch" /\ skuRun'.gen = skuRun.gen
      /\ skuRun'.uploads = skuRun.uploads /\ skuRun'.torn = skuRun.torn
  BY <1>1 DEF SkuRun
<1>3. RunHolds'
  BY <1>1, <1>2 DEF SkuInv, RunHolds
<1>4. skuRun.gen <= skuRun'.gen
  BY <1>1, <1>2, SkuAssumption DEF SkuRun
<1> QED BY <1>1, <1>2, <1>3, <1>4, RunMoves

LEMMA ThrottledInv == ASSUME SkuInv, SkuThrottled PROVE SkuInv'
<1>1. CASE skuRun.tries >= MaxTries
  BY <1>1, RunEndsInv DEF SkuThrottled
<1>2. CASE ~(skuRun.tries >= MaxTries)
  <2>1. /\ skuRun \in SkuRun /\ skuRun.pc = "fetch"
        /\ skuRun' = [skuRun EXCEPT !.tries = @ + 1]
        /\ UNCHANGED <<skuManifest, skuBlobs, skuCache, skuRead, flushes>>
        /\ skuBlobs \subseteq SkuGenerations /\ flushes \in 0 .. MaxFlushes
    BY <1>2 DEF SkuInv, SkuTypeOK, SkuThrottled
  <2>2. skuRun.tries + 1 \in 0 .. MaxTries
    BY <1>2, <2>1, SkuAssumption DEF SkuRun
  <2>3. /\ skuRun' \in SkuRun /\ skuRun'.pc = "fetch" /\ skuRun'.gen = skuRun.gen
        /\ skuRun'.uploads = skuRun.uploads /\ skuRun'.torn = skuRun.torn
    BY <2>1, <2>2 DEF SkuRun
  <2>4. RunHolds'
    BY <2>1, <2>3 DEF SkuInv, RunHolds
  <2>5. skuRun.gen <= skuRun'.gen
    BY <2>1, <2>3, SkuAssumption DEF SkuRun
  <2> QED BY <2>1, <2>3, <2>4, <2>5, RunMoves
<1> QED BY <1>1, <1>2

LEMMA RetrievedInv == ASSUME SkuInv, Retrieved PROVE SkuInv'
<1>0. PICK here \in BOOLEAN :
        skuRun' = [skuRun EXCEPT !.pc = "upload", !.tries = 0, !.gen = @ + 1, !.here = here]
  BY DEF Retrieved
<1>1. /\ skuRun \in SkuRun /\ skuRun.pc = "fetch" /\ skuRun.uploads = 0
      /\ skuRun.gen < MaxGenerations /\ skuManifest \in Nat /\ skuManifest <= skuRun.gen
      /\ UNCHANGED <<skuManifest, skuBlobs, skuCache, skuRead, flushes>>
      /\ skuBlobs \subseteq SkuGenerations /\ flushes \in 0 .. MaxFlushes
  BY SkuAssumption DEF SkuInv, SkuTypeOK, RunHolds, Retrieved
<1>2. skuRun.gen + 1 \in 0 .. MaxGenerations /\ 0 \in 0 .. MaxTries /\ skuRun.gen \in Nat
  BY <1>1, SkuAssumption DEF SkuRun
<1>3. /\ skuRun' \in SkuRun /\ skuRun'.pc = "upload" /\ skuRun'.gen = skuRun.gen + 1
      /\ skuRun'.uploads = 0 /\ skuRun'.torn = skuRun.torn
  BY <1>0, <1>1, <1>2 DEF SkuRun
<1>4. RunHolds'
  BY <1>1, <1>2, <1>3 DEF SkuInv, RunHolds
<1> QED BY <1>1, <1>2, <1>3, <1>4, RunMoves

\* An upload, as a step of the run alone
LEMMA UploadStep == ASSUME SkuInv, NEW what \in {"snapshot", "manifest"}, Uploading(what)
  PROVE /\ skuRun' \in SkuRun /\ skuRun'.gen = skuRun.gen /\ skuRun.gen \in SkuGenerations
        /\ what = "snapshot" => /\ skuRun'.pc = "upload" /\ skuRun'.uploads = 1
                                /\ skuRun'.torn = skuRun.torn
        /\ what = "manifest" => /\ skuRun'.pc = "remember" /\ skuRun'.torn = FALSE
                                /\ skuRun.gen \in skuBlobs
<1>1. /\ skuRun \in SkuRun /\ skuRun.pc = "upload" /\ skuRun.uploads \in {0, 1} /\ skuRun.gen # 0
      /\ Uploads[skuRun.uploads + 1] = what /\ (skuRun.uploads = 1 => skuRun.gen \in skuBlobs)
      /\ skuRun' = [skuRun EXCEPT !.pc = IF skuRun.uploads = 1 THEN "remember" ELSE "upload",
                              !.uploads = @ + 1, !.torn = @ /\ what # "manifest"]
  BY DEF SkuInv, SkuTypeOK, RunHolds, Uploading
<1>2. skuRun.gen \in SkuGenerations /\ skuRun.torn \in BOOLEAN
  BY <1>1, SkuAssumption DEF SkuRun, SkuGenerations
<1>3. Uploads[1] = "snapshot" /\ Uploads[2] = "manifest"
  BY DEF Uploads
<1>4. CASE what = "snapshot"
  <2>1. /\ skuRun.uploads = 0 /\ skuRun.uploads + 1 = 1
        /\ (IF skuRun.uploads = 1 THEN "remember" ELSE "upload") = "upload"
        /\ (skuRun.torn /\ what # "manifest") = skuRun.torn
    BY <1>1, <1>2, <1>3, <1>4
  <2>5. PICK n \in 0 .. 2 : n = 1
    OBVIOUS
  <2>2. skuRun' = [skuRun EXCEPT !.pc = "upload", !.uploads = n, !.torn = skuRun.torn]
    BY <1>1, <2>1, <2>5
  <2>3. skuRun \in SkuRun
    BY <1>1
  <2>4. /\ skuRun' \in SkuRun /\ skuRun'.gen = skuRun.gen /\ skuRun'.pc = "upload"
        /\ skuRun'.uploads = n /\ skuRun'.torn = skuRun.torn
    BY <1>2, <2>2, <2>3 DEF SkuRun
  <2> QED BY <1>2, <1>4, <2>4, <2>5
<1>5. CASE what = "manifest"
  <2>1. /\ skuRun.uploads = 1 /\ skuRun.uploads + 1 = 2
        /\ (IF skuRun.uploads = 1 THEN "remember" ELSE "upload") = "remember"
        /\ (skuRun.torn /\ what # "manifest") = FALSE
    BY <1>1, <1>2, <1>3, <1>5
  <2>5. PICK n \in 0 .. 2 : n = 2
    OBVIOUS
  <2>2. skuRun' = [skuRun EXCEPT !.pc = "remember", !.uploads = n, !.torn = FALSE]
    BY <1>1, <2>1, <2>5
  <2>3. skuRun \in SkuRun
    BY <1>1
  <2>4. /\ skuRun' \in SkuRun /\ skuRun'.gen = skuRun.gen /\ skuRun'.pc = "remember"
        /\ skuRun'.torn = FALSE
    BY <2>2, <2>3 DEF SkuRun
  <2> QED BY <1>1, <1>2, <1>5, <2>1, <2>4
<1> QED BY <1>4, <1>5

LEMMA UploadSnapshotInv == ASSUME SkuInv, UploadSnapshot PROVE SkuInv'
<1>1. /\ skuRun' \in SkuRun /\ skuRun'.gen = skuRun.gen /\ skuRun.gen \in SkuGenerations
      /\ skuRun'.pc = "upload" /\ skuRun'.uploads = 1 /\ skuRun'.torn = skuRun.torn
  BY UploadStep DEF UploadSnapshot
<1>2. /\ skuBlobs' = skuBlobs \cup {skuRun.gen} /\ skuBlobs \subseteq SkuGenerations
      /\ UNCHANGED <<skuManifest, skuCache, skuRead, flushes>> /\ flushes \in 0 .. MaxFlushes
  BY DEF SkuInv, SkuTypeOK, UploadSnapshot
<1>3. RunHolds'
  BY <1>1, <1>2 DEF SkuInv, RunHolds, SkuGenerations
<1>4. skuRun.gen <= skuRun'.gen
  BY <1>1, SkuAssumption DEF SkuGenerations
<1> QED BY <1>1, <1>2, <1>3, <1>4, RunMoves
(***************************************************************************)
(* The manifest: a new generation, or none once a flush has begun.         *)
(***************************************************************************)
LEMMA SeenStep ==
  ASSUME SkuInv, NEW g \in 0 .. MaxGenerations, SkuCurrent(g)
  PROVE  /\ skuManifest' = g /\ skuRead' \in [Readers -> SkuReader]
         /\ \A r \in Readers :
              /\ skuRead'[r].pc = skuRead[r].pc /\ skuRead'[r].tag = skuRead[r].tag
              /\ skuRead'[r].gen = skuRead[r].gen /\ skuRead'[r].answer = skuRead[r].answer
              /\ skuRead'[r].torn = skuRead[r].torn
              /\ Working(skuRead[r]) => /\ skuRead'[r].seen = skuRead[r].seen \cup {g}
                                        /\ skuRead'[r].since = skuRead[r].since \cup {g}
              /\ ~Working(skuRead[r]) => skuRead'[r].since = skuRead[r].since
<1>1. /\ skuManifest' = g /\ skuRead \in [Readers -> SkuReader]
      /\ skuRead' = [r \in Readers |->
                   IF Reading(r) THEN [skuRead[r] EXCEPT !.seen = @ \cup {g},
                                                         !.since = @ \cup {g}]
                   ELSE skuRead[r]]
  BY DEF SkuInv, SkuTypeOK, SkuCurrent
<1>2. ASSUME NEW r \in Readers, Working(skuRead[r])
      PROVE  /\ skuRead'[r] \in SkuReader /\ skuRead'[r].torn = skuRead[r].torn
             /\ skuRead'[r].pc = skuRead[r].pc /\ skuRead'[r].tag = skuRead[r].tag
             /\ skuRead'[r].gen = skuRead[r].gen /\ skuRead'[r].answer = skuRead[r].answer
             /\ skuRead'[r].seen = skuRead[r].seen \cup {g}
             /\ skuRead'[r].since = skuRead[r].since \cup {g}
  <2>1. skuRead'[r] = [skuRead[r] EXCEPT !.seen = @ \cup {g}, !.since = @ \cup {g}]
    BY <1>1, <1>2, ReadingIsWorking
  <2>2. skuRead[r] \in SkuReader
    BY <1>1
  <2>3. PICK seen \in SUBSET (0 .. MaxGenerations), since \in SUBSET (0 .. MaxGenerations) :
          seen = skuRead[r].seen \cup {g} /\ since = skuRead[r].since \cup {g}
    BY <2>2 DEF SkuReader
  <2>4. skuRead'[r] = [skuRead[r] EXCEPT !.seen = seen, !.since = since]
    BY <2>1, <2>3
  <2> QED BY <2>2, <2>3, <2>4 DEF SkuReader
<1>3. ASSUME NEW r \in Readers, ~Working(skuRead[r]) PROVE skuRead'[r] = skuRead[r]
  BY <1>1, <1>3, ReadingIsWorking
<1>4. skuRead' \in [Readers -> SkuReader]
  <2>1. \A r \in Readers : skuRead'[r] \in SkuReader
    BY <1>1, <1>2, <1>3
  <2> QED BY <1>1, <2>1
<1> QED BY <1>1, <1>2, <1>3, <1>4

LEMMA CurrentMoves ==
  ASSUME SkuInv, NEW g \in 0 .. MaxGenerations, SkuCurrent(g),
         g = 0 => skuRun.torn, g # 0 => g = skuRun.gen,
         skuRun' \in SkuRun, skuRun'.gen = skuRun.gen, skuRun'.torn => skuRun.torn, RunHolds',
         UNCHANGED <<skuBlobs, skuCache, flushes>>
  PROVE  SkuInv'
<1>1. SkuTypeOK'
  BY SeenStep DEF SkuInv, SkuTypeOK
<1>2. /\ skuRun.gen \in Nat /\ skuCache.gen \in Nat /\ skuManifest \in Nat /\ g \in Nat
      /\ skuRun.torn \in BOOLEAN /\ skuRun'.torn \in BOOLEAN
      /\ \A r \in Readers : /\ skuRead[r].tag \in Nat /\ skuRead[r].gen \in Nat
                            /\ skuRead[r].torn \in BOOLEAN
  BY SkuAssumption DEF SkuInv, SkuTypeOK, SkuRun, SkuReader
<1>3. \A n \in Nat : n <= skuRun.gen => NotAhead(n)'
  BY <1>2, SeenStep DEF NotAhead
<1>4. CacheHolds'
  BY <1>2, <1>3 DEF SkuInv, CacheHolds
<1>5. ASSUME NEW r \in Readers PROVE Settled(skuRead[r])'
  <2>1. Settled(skuRead[r]) /\ Working(skuRead[r])' = Working(skuRead[r])
    BY SeenStep DEF SkuInv, ReadersHold, Working
  <2>2. CASE Working(skuRead[r])
    <3>1. Found(skuRead[r]) /\ Downloaded(skuRead[r]) /\ Sees(skuRead[r]) /\ Untorn(skuRead[r])
      BY <2>1, <2>2 DEF Settled
    <3>2. Found(skuRead[r])' /\ Downloaded(skuRead[r])'
      BY <1>2, <1>3, <2>2, <3>1, SeenStep DEF Found, Downloaded
    <3>3. Sees(skuRead[r])'
      BY <2>2, <3>1, SeenStep DEF Sees
    <3>4. Untorn(skuRead[r])'
      BY <1>2, <2>2, <3>1, SeenStep DEF Untorn
    <3>5. skuRead'[r].pc # "done" /\ skuRead'[r].pc # "failed"
      BY <2>2, SeenStep DEF Working
    <3> QED BY <3>2, <3>3, <3>4, <3>5 DEF Settled
  <2>3. CASE ~Working(skuRead[r])
    BY <2>1, <2>3, SeenStep DEF Settled
  <2> QED BY <2>2, <2>3
<1>6. ReadersHold' /\ Overlaps'
  <2>1. ASSUME NEW r \in Readers, NEW o \in Readers, Working(skuRead[r])', Working(skuRead[o])'
        PROVE  skuRead'[o].seen \subseteq skuRead'[r].since
    <3>1. Working(skuRead[r]) /\ Working(skuRead[o])
      BY <2>1, SeenStep DEF Working
    <3>2. skuRead[o].seen \subseteq skuRead[r].since
      BY <3>1 DEF SkuInv, Overlaps
    <3> QED BY <3>1, <3>2, SeenStep
  <2> QED BY <1>5, <2>1 DEF ReadersHold, Overlaps
<1> QED BY <1>1, <1>4, <1>6 DEF SkuInv

LEMMA UploadManifestInv == ASSUME SkuInv, UploadManifest PROVE SkuInv'
<1>1. /\ skuRun' \in SkuRun /\ skuRun'.gen = skuRun.gen /\ skuRun.gen \in SkuGenerations
      /\ skuRun'.pc = "remember" /\ skuRun'.torn = FALSE /\ skuRun.gen \in skuBlobs
  BY UploadStep DEF UploadManifest
<1>2. SkuCurrent(skuRun.gen) /\ UNCHANGED <<skuBlobs, skuCache, flushes>>
  BY DEF UploadManifest
<1>3. skuRun.gen \in 0 .. MaxGenerations /\ skuRun.gen # 0 /\ skuRun.gen <= skuRun.gen
  BY <1>1, SkuAssumption DEF SkuGenerations
<1>4. skuManifest' = skuRun.gen
  BY <1>2 DEF SkuCurrent
<1>5. RunHolds'
  BY <1>1, <1>2, <1>3, <1>4 DEF RunHolds
<1> QED BY <1>1, <1>2, <1>3, <1>5, CurrentMoves

(***************************************************************************)
(* The flush: a reader at work when it begins is torn, as is one that      *)
(* begins after it.                                                        *)
(***************************************************************************)
LEMMA TornReaders == ASSUME SkuInv, skuRun.torn, NEW r \in Readers, Working(skuRead[r])
                     PROVE  skuRead[r].torn
BY DEF SkuInv, ReadersHold, Settled, Untorn

LEMMA FlushDeletesInv == ASSUME SkuInv, FlushDeletes PROVE SkuInv'
<1>0. PICK name \in skuRun.names :
       /\ skuRun' = [skuRun EXCEPT !.names = @ \ {name}]
       /\ skuBlobs' = skuBlobs \ {name}
       /\ IF name = 0 THEN SkuCurrent(0) ELSE UNCHANGED <<skuManifest, skuRead>>
  BY DEF FlushDeletes
<1>1. /\ skuRun \in SkuRun /\ skuRun.pc = "delete" /\ skuRun.torn
      /\ (0 \notin skuRun.names => skuManifest = 0) /\ skuManifest <= skuRun.gen
      /\ skuBlobs \subseteq SkuGenerations /\ UNCHANGED <<skuCache, flushes>>
  BY DEF SkuInv, SkuTypeOK, RunHolds, FlushDeletes
<1>2. /\ skuRun' \in SkuRun /\ skuRun'.pc = skuRun.pc /\ skuRun'.gen = skuRun.gen
      /\ skuRun'.names = skuRun.names \ {name} /\ skuRun'.torn = skuRun.torn
      /\ skuRun'.uploads = skuRun.uploads
  BY <1>0, <1>1 DEF SkuRun
<1>5. skuRun.gen \in Nat
  BY <1>1, SkuAssumption DEF SkuRun
<1>3. CASE name = 0
  <2>3. 0 \notin skuBlobs /\ 0 \in 0 .. MaxGenerations
    BY <1>1, SkuAssumption DEF SkuGenerations
  <2>1. SkuCurrent(0) /\ skuManifest' = 0 /\ skuBlobs' = skuBlobs
    BY <1>0, <1>3, <2>3 DEF SkuCurrent
  <2>2. RunHolds'
    BY <1>1, <1>2, <1>5, <2>1 DEF RunHolds
  <2> QED BY <1>1, <1>2, <2>1, <2>2, <2>3, CurrentMoves
<1>4. CASE name # 0
  <2>1. UNCHANGED <<skuManifest, skuRead, skuCache, flushes>> /\ skuBlobs' \subseteq SkuGenerations
    BY <1>0, <1>1, <1>4
  <2>2. SkuTypeOK'
    BY <1>2, <2>1 DEF SkuInv, SkuTypeOK
  <2>3. RunHolds' /\ CacheHolds'
    BY <1>1, <1>2, <1>4, <2>1 DEF SkuInv, RunHolds, CacheHolds, NotAhead
  <2>4. ASSUME NEW r \in Readers PROVE Settled(skuRead[r])'
    <3>1. Settled(skuRead[r]) /\ (Working(skuRead[r]) => skuRead[r].torn)
      BY <1>1, TornReaders DEF SkuInv, ReadersHold
    <3> QED BY <1>2, <2>1, <3>1 DEF Settled, Working, Found, Downloaded, Sees, Untorn, NotAhead
  <2>5. ReadersHold' /\ Overlaps'
    BY <2>1, <2>4 DEF SkuInv, ReadersHold, Overlaps, Working
  <2> QED BY <2>2, <2>3, <2>5 DEF SkuInv
<1> QED BY <1>3, <1>4

LEMMA FlushListsInv == ASSUME SkuInv, FlushLists PROVE SkuInv'
<1>0. PICK here \in BOOLEAN :
       skuRun' = [skuRun EXCEPT !.pc = "delete", !.here = here, !.torn = TRUE,
                    !.names = skuBlobs \cup (IF skuManifest = 0 THEN {} ELSE {0})]
  BY DEF FlushLists
<1>1. /\ skuRun \in SkuRun /\ skuRun.pc = "idle"
      /\ skuRead' = [r \in Readers |-> [skuRead[r] EXCEPT !.torn = @ \/ Reading(r)]]
      /\ skuRead \in [Readers -> SkuReader] /\ skuManifest <= skuRun.gen
      /\ UNCHANGED <<skuManifest, skuBlobs, skuCache>>
  BY DEF SkuInv, SkuTypeOK, RunHolds, FlushLists
<1>2. skuBlobs \cup (IF skuManifest = 0 THEN {} ELSE {0}) \in SUBSET (0 .. MaxGenerations)
  BY SkuAssumption DEF SkuInv, SkuTypeOK, SkuGenerations
<1>3. /\ skuRun' \in SkuRun /\ skuRun'.pc = "delete" /\ skuRun'.gen = skuRun.gen
      /\ skuRun'.torn = TRUE
      /\ skuRun'.names = skuBlobs \cup (IF skuManifest = 0 THEN {} ELSE {0})
  BY <1>0, <1>1, <1>2 DEF SkuRun
<1>4. flushes' \in 0 .. MaxFlushes
  BY SkuAssumption DEF SkuInv, SkuTypeOK, FlushLists
<1>5. ASSUME NEW r \in Readers
      PROVE  /\ skuRead'[r] \in SkuReader /\ skuRead'[r].pc = skuRead[r].pc
             /\ skuRead'[r].tag = skuRead[r].tag /\ skuRead'[r].gen = skuRead[r].gen
             /\ skuRead'[r].answer = skuRead[r].answer /\ skuRead'[r].seen = skuRead[r].seen
             /\ skuRead'[r].since = skuRead[r].since
             /\ skuRead'[r].torn = (skuRead[r].torn \/ Reading(r))
  <2>1. /\ skuRead'[r] = [skuRead[r] EXCEPT !.torn = skuRead[r].torn \/ Reading(r)]
        /\ skuRead[r] \in SkuReader /\ (skuRead[r].torn \/ Reading(r)) \in BOOLEAN
    BY <1>1
  <2> QED BY <2>1 DEF SkuReader
<1>6. SkuTypeOK'
  <2>1. skuRead' \in [Readers -> SkuReader]
    BY <1>1, <1>5
  <2> QED BY <1>1, <1>3, <1>4, <2>1 DEF SkuInv, SkuTypeOK
<1>7. RunHolds' /\ CacheHolds'
  BY <1>1, <1>3 DEF SkuInv, RunHolds, CacheHolds, NotAhead
<1>8. ASSUME NEW r \in Readers PROVE Settled(skuRead[r])'
  <2>1. Settled(skuRead[r]) /\ (Working(skuRead[r]) => skuRead'[r].torn) /\ (skuRead[r].torn => skuRead'[r].torn)
    BY <1>5, ReadingIsWorking DEF SkuInv, ReadersHold
  <2> QED BY <1>1, <1>3, <1>5, <2>1 DEF Settled, Working, Found, Downloaded, Sees, Untorn, NotAhead
<1>9. ReadersHold' /\ Overlaps'
  BY <1>5, <1>8 DEF SkuInv, ReadersHold, Overlaps, Working
<1> QED BY <1>6, <1>7, <1>9 DEF SkuInv

(***************************************************************************)
(* The process's cache: the publisher keeps what is current, a flush       *)
(* keeps nothing once the manifest has gone, a reader what it downloaded.  *)
(***************************************************************************)
LEMMA CacheMoves ==
  ASSUME SkuInv, skuRun' \in SkuRun, skuRun'.gen = skuRun.gen, skuRun'.torn = skuRun.torn, RunHolds',
         skuCache' \in [gen : 0 .. MaxGenerations, tag : 0 .. MaxGenerations],
         CacheHolds',
         \A r \in Readers : Working(skuRead[r]) => skuCache'.gen \in skuRead[r].since,
         UNCHANGED <<skuManifest, skuBlobs, skuRead, flushes>>
  PROVE  SkuInv'
<1>1. SkuTypeOK'
  BY DEF SkuInv, SkuTypeOK
<1>2. ASSUME NEW r \in Readers PROVE Settled(skuRead[r])'
  <2>1. Settled(skuRead[r])
    BY DEF SkuInv, ReadersHold
  <2> QED BY <2>1 DEF Settled, Working, Found, Downloaded, Sees, Untorn, NotAhead
<1>3. ReadersHold' /\ Overlaps'
  BY <1>2 DEF SkuInv, ReadersHold, Overlaps, Working
<1> QED BY <1>1, <1>3 DEF SkuInv

LEMMA CurrentSeen == ASSUME SkuInv, NEW r \in Readers, Working(skuRead[r])
                     PROVE  skuManifest \in skuRead[r].seen /\ skuManifest \in skuRead[r].since
<1>1. skuManifest \in skuRead[r].seen
  BY DEF SkuInv, ReadersHold, Settled, Sees
<1>2. skuRead[r].seen \subseteq skuRead[r].since
  BY DEF SkuInv, Overlaps
<1> QED BY <1>1, <1>2

LEMMA RemembersInv == ASSUME SkuInv, SkuRemembers PROVE SkuInv'
<1>1. /\ skuRun.pc = "remember" /\ skuRun' = SkuRunOver /\ skuManifest = skuRun.gen /\ skuRun.gen # 0
      /\ skuCache' = IF skuRun.here THEN [gen |-> skuRun.gen, tag |-> skuRun.gen] ELSE skuCache
      /\ UNCHANGED <<skuManifest, skuBlobs, skuRead, flushes>>
  BY DEF SkuInv, RunHolds, SkuRemembers
<1>2. CASE skuRun.here
  <2>1. skuCache' = [gen |-> skuManifest, tag |-> skuManifest] /\ skuManifest \in 0 .. MaxGenerations
    BY <1>1, <1>2 DEF SkuInv, SkuTypeOK
  <2>2. skuManifest \in Nat /\ skuManifest # 0 /\ skuManifest <= skuManifest /\ 0 < skuManifest
    BY <1>1, <2>1, SkuAssumption
  <2>3. CacheHolds'
    BY <1>1, <2>1, <2>2, OverRun DEF CacheHolds, NotAhead
  <2>4. skuCache' \in [gen : 0 .. MaxGenerations, tag : 0 .. MaxGenerations] /\ skuCache'.gen = skuManifest
    BY <2>1
  <2> QED BY <1>1, <2>3, <2>4, OverRun, RunEnds, CurrentSeen, CacheMoves
<1>3. CASE ~skuRun.here
  BY <1>1, <1>3, RunEndsInv
<1> QED BY <1>2, <1>3

LEMMA ForgetsInv == ASSUME SkuInv, FlushForgets PROVE SkuInv'
<1>1. /\ skuRun.pc = "delete" /\ skuRun' = SkuRunOver /\ skuManifest = 0
      /\ skuCache' = IF skuRun.here THEN NoCache ELSE skuCache
      /\ UNCHANGED <<skuManifest, skuBlobs, skuRead, flushes>>
  BY DEF SkuInv, RunHolds, FlushForgets
<1>2. CASE skuRun.here
  <2>1. skuCache'.gen = 0 /\ skuCache' \in [gen : 0 .. MaxGenerations, tag : 0 .. MaxGenerations]
    BY <1>1, <1>2, SkuAssumption DEF NoCache
  <2>2. CacheHolds'
    BY <2>1 DEF CacheHolds
  <2>3. \A r \in Readers : Working(skuRead[r]) => skuCache'.gen \in skuRead[r].since
    BY <1>1, <2>1, CurrentSeen
  <2> QED BY <1>1, <2>1, <2>2, <2>3, OverRun, RunEnds, CacheMoves
<1>3. CASE ~skuRun.here
  BY <1>1, <1>3, RunEndsInv
<1> QED BY <1>2, <1>3

(***************************************************************************)
(* The readers.  A step to a place where a reader sees what it saw before. *)
(***************************************************************************)
LEMMA ReaderMoves ==
  ASSUME SkuInv, NEW r \in Readers, Settled(skuRead[r])',
         skuRead' \in [Readers -> SkuReader],
         \A o \in Readers \ {r} : skuRead'[o] = skuRead[o],
         Working(skuRead'[r]) => /\ Working(skuRead[r]) /\ skuRead'[r].seen = skuRead[r].seen
                                 /\ skuRead'[r].since = skuRead[r].since,
         UNCHANGED <<skuManifest, skuBlobs, skuCache, skuRun, flushes>>
  PROVE  SkuInv'
<1>1. SkuTypeOK' /\ RunHolds' /\ CacheHolds'
  BY DEF SkuInv, SkuTypeOK, RunHolds, CacheHolds, NotAhead
<1>2. ASSUME NEW o \in Readers \ {r} PROVE Settled(skuRead[o])'
  <2>1. Settled(skuRead[o])
    BY DEF SkuInv, ReadersHold
  <2> QED BY <2>1 DEF Settled, Working, Found, Downloaded, Sees, Untorn, NotAhead
<1>3. ReadersHold'
  BY <1>2 DEF ReadersHold
<1>4. Overlaps'
  <2>1. ASSUME NEW p \in Readers, NEW o \in Readers, Working(skuRead'[p]), Working(skuRead'[o])
        PROVE  skuRead'[o].seen \subseteq skuRead'[p].since
    <3>1. /\ Working(skuRead[p]) /\ skuRead'[p].since = skuRead[p].since
          /\ Working(skuRead[o]) /\ skuRead'[o].seen = skuRead[o].seen
      BY <2>1
    <3> QED BY <3>1 DEF SkuInv, Overlaps
  <2> QED BY <2>1 DEF Overlaps, Working
<1> QED BY <1>1, <1>3, <1>4 DEF SkuInv

\* What holds of a reader at work, with the numbers that occur in it
LEMMA AtWork == ASSUME SkuInv, NEW r \in Readers, Working(skuRead[r])
  PROVE /\ Found(skuRead[r]) /\ Downloaded(skuRead[r]) /\ Sees(skuRead[r]) /\ Untorn(skuRead[r])
        /\ skuRead[r] \in SkuReader /\ skuRead \in [Readers -> SkuReader]
        /\ skuRead[r].tag \in Nat /\ skuRead[r].gen \in Nat /\ skuRead[r].torn \in BOOLEAN
        /\ skuManifest \in 0 .. MaxGenerations /\ skuManifest \in Nat
        /\ skuRun.gen \in Nat /\ skuCache.gen \in Nat /\ skuCache.tag \in Nat
        /\ skuManifest <= skuRun.gen
<1>1. Found(skuRead[r]) /\ Downloaded(skuRead[r]) /\ Sees(skuRead[r]) /\ Untorn(skuRead[r])
  BY DEF SkuInv, ReadersHold, Settled
<1>2. /\ skuRead[r] \in SkuReader /\ skuRead \in [Readers -> SkuReader]
      /\ skuManifest \in 0 .. MaxGenerations /\ skuRun \in SkuRun
      /\ skuCache \in [gen : 0 .. MaxGenerations, tag : 0 .. MaxGenerations]
      /\ skuManifest <= skuRun.gen
  BY DEF SkuInv, SkuTypeOK, RunHolds
<1>3. /\ skuRead[r].tag \in Nat /\ skuRead[r].gen \in Nat /\ skuRead[r].torn \in BOOLEAN
      /\ skuManifest \in Nat /\ skuRun.gen \in Nat /\ skuCache.gen \in Nat /\ skuCache.tag \in Nat
  BY <1>2, SkuAssumption DEF SkuReader, SkuRun
<1> QED BY <1>1, <1>2, <1>3

\* A reader goes on, to another place with what it has, or with a generation found
LEMMA GoesOn ==
  ASSUME SkuInv, NEW r \in Readers, NEW to \in {"look", "manifest", "snapshot", "keep", "failed"},
         NEW g \in 0 .. MaxGenerations, Working(skuRead[r]),
         skuRead' = [skuRead EXCEPT ![r] = [skuRead[r] EXCEPT !.pc = to, !.gen = g]],
         UNCHANGED <<skuManifest, skuBlobs, skuCache, skuRun, flushes>>,
         to = "failed" => skuRead[r].torn,
         to = "look" => skuCache.gen \in skuRead[r].since /\ g \in skuRead[r].since,
         to \in {"snapshot", "keep"} => /\ skuRead[r].tag <= g /\ g <= skuRun.gen /\ NotAhead(g)
                                        /\ g \in skuRead[r].seen,
         to = "snapshot" => skuRead[r].torn \/ g \in skuBlobs
  PROVE  SkuInv'
<1>1. /\ Found(skuRead[r]) /\ Sees(skuRead[r]) /\ Untorn(skuRead[r])
      /\ skuRead[r] \in SkuReader /\ skuRead \in [Readers -> SkuReader]
      /\ skuRead[r].torn \in BOOLEAN
  BY AtWork
<1>2. /\ skuRead'[r] = [skuRead[r] EXCEPT !.pc = to, !.gen = g]
      /\ \A o \in Readers \ {r} : skuRead'[o] = skuRead[o]
  BY <1>1
<1>3. /\ skuRead'[r] \in SkuReader /\ skuRead'[r].pc = to /\ skuRead'[r].gen = g
      /\ skuRead'[r].tag = skuRead[r].tag /\ skuRead'[r].seen = skuRead[r].seen
      /\ skuRead'[r].since = skuRead[r].since /\ skuRead'[r].torn = skuRead[r].torn
  BY <1>1, <1>2 DEF SkuReader
<1>4. skuRead' \in [Readers -> SkuReader]
  BY <1>1, <1>2, <1>3
<1>5. Found(skuRead[r])' /\ (to # "failed" => Downloaded(skuRead[r])')
  BY <1>1, <1>3 DEF Found, Downloaded, NotAhead
<1>6. Sees(skuRead[r])' /\ Untorn(skuRead[r])'
  BY <1>1, <1>3 DEF Sees, Untorn
<1>7. Settled(skuRead[r])'
  BY <1>3, <1>5, <1>6 DEF Settled, Working
<1> QED BY <1>2, <1>3, <1>4, <1>7, ReaderMoves

LEMMA ChecksInv == ASSUME SkuInv, NEW r \in Readers, ChecksCache(r) PROVE SkuInv'
<1>1. /\ Working(skuRead[r]) /\ UNCHANGED <<skuManifest, skuBlobs, skuCache, skuRun, flushes>>
  BY DEF ChecksCache, Reads, Working
<1>2. /\ skuRead[r] \in SkuReader /\ skuRead[r].gen \in 0 .. MaxGenerations
      /\ skuCache.gen \in 0 .. MaxGenerations
  BY <1>1, AtWork DEF SkuReader, SkuInv, SkuTypeOK
<1>3. CASE Matches(skuRead[r].tag)
  <2>1. skuCache.gen >= skuRead[r].tag
    BY <1>1, <1>3, AtWork DEF Matches, SkuInv, CacheHolds
  <2>2. skuCache.gen \in skuRead[r].since
    BY <1>1, <2>1, AtWork DEF Sees
  <2>3. skuRead' = [skuRead EXCEPT ![r] = [skuRead[r] EXCEPT !.pc = "look", !.gen = skuCache.gen]]
    BY <1>3 DEF ChecksCache, Reads
  <2> QED BY <1>1, <1>2, <2>2, <2>3, GoesOn
<1>4. CASE ~Matches(skuRead[r].tag)
  <2>1. skuRead' = [skuRead EXCEPT ![r] = [skuRead[r] EXCEPT !.pc = "manifest"]]
    BY <1>4 DEF ChecksCache, Reads
  <2>2. [skuRead[r] EXCEPT !.pc = "manifest"]
          = [skuRead[r] EXCEPT !.pc = "manifest", !.gen = skuRead[r].gen]
    BY <1>2 DEF SkuReader
  <2> QED BY <1>1, <1>2, <2>1, <2>2, GoesOn
<1> QED BY <1>3, <1>4

LEMMA ManifestInv == ASSUME SkuInv, NEW r \in Readers, DownloadsManifest(r) PROVE SkuInv'
<1> DEFINE to == IF skuManifest = 0 THEN "failed" ELSE "snapshot"
<1>1. /\ Working(skuRead[r])
      /\ skuRead' = [skuRead EXCEPT ![r] = [skuRead[r] EXCEPT !.pc = to, !.gen = skuManifest]]
      /\ UNCHANGED <<skuManifest, skuBlobs, skuCache, skuRun, flushes>>
  BY DEF DownloadsManifest, Reads, Working
<1>2. skuRead[r].torn \/ (skuManifest # 0 /\ skuManifest \in skuBlobs)
  BY <1>1, AtWork DEF Untorn, SkuInv, RunHolds
<1>3. skuManifest # 0 => skuRead[r].tag <= skuManifest /\ NotAhead(skuManifest)
  BY <1>1, AtWork DEF Found, NotAhead
<1>4. to = "failed" <=> skuManifest = 0
  OBVIOUS
<1>5. to \in {"failed", "snapshot"}
  OBVIOUS
<1> HIDE DEF to
<1> QED BY <1>1, <1>2, <1>3, <1>4, <1>5, AtWork, CurrentSeen, GoesOn

LEMMA SnapshotInv == ASSUME SkuInv, NEW r \in Readers, DownloadsSnapshot(r) PROVE SkuInv'
<1> DEFINE to == IF skuRead[r].gen \in skuBlobs THEN "keep" ELSE "failed"
<1>1. /\ Working(skuRead[r]) /\ skuRead[r].pc = "snapshot"
      /\ skuRead' = [skuRead EXCEPT ![r] = [skuRead[r] EXCEPT !.pc = to]]
      /\ UNCHANGED <<skuManifest, skuBlobs, skuCache, skuRun, flushes>>
  BY DEF DownloadsSnapshot, Reads, Working
<1>2. skuRead[r] \in SkuReader /\ skuRead[r].gen \in 0 .. MaxGenerations
  BY <1>1, AtWork DEF SkuReader
<1>3. [skuRead[r] EXCEPT !.pc = to] = [skuRead[r] EXCEPT !.pc = to, !.gen = skuRead[r].gen]
  BY <1>2 DEF SkuReader
<1>4. to = "failed" => skuRead[r].torn
  BY <1>1, AtWork DEF Untorn
<1>5. to \in {"keep", "failed"}
  OBVIOUS
<1>6. /\ skuRead[r].tag <= skuRead[r].gen /\ skuRead[r].gen <= skuRun.gen /\ NotAhead(skuRead[r].gen)
      /\ skuRead[r].gen \in skuRead[r].seen
  BY <1>1, AtWork DEF Downloaded
<1> HIDE DEF to
<1> QED BY <1>1, <1>2, <1>3, <1>4, <1>5, <1>6, GoesOn

\* What it downloaded, all who overlap it have known as current
LEMMA KeepsInv == ASSUME SkuInv, NEW r \in Readers, KeepsSnapshot(r) PROVE SkuInv'
<1>1. /\ Working(skuRead[r]) /\ skuRead[r].pc = "keep"
      /\ skuRead' = [skuRead EXCEPT ![r] = [skuRead[r] EXCEPT !.pc = "look"]]
      /\ skuCache' = [gen |-> skuRead[r].gen, tag |-> skuRead[r].tag]
      /\ UNCHANGED <<skuManifest, skuBlobs, skuRun, flushes>>
  BY DEF KeepsSnapshot, Reads, Working, Kept
<1>2. /\ skuRead[r].tag <= skuRead[r].gen /\ skuRead[r].gen <= skuRun.gen /\ NotAhead(skuRead[r].gen)
      /\ skuRead[r].gen \in skuRead[r].seen /\ 0 < skuRead[r].tag
      /\ skuRead \in [Readers -> SkuReader] /\ skuRead[r] \in SkuReader
      /\ Found(skuRead[r]) /\ Untorn(skuRead[r]) /\ skuManifest \in skuRead[r].seen
  BY <1>1, AtWork DEF Downloaded, Found, Sees
<1>3. /\ skuRead'[r] = [skuRead[r] EXCEPT !.pc = "look"]
      /\ \A o \in Readers \ {r} : skuRead'[o] = skuRead[o]
  BY <1>1, <1>2
<1>4. /\ skuRead'[r] \in SkuReader /\ skuRead'[r].pc = "look" /\ skuRead'[r].gen = skuRead[r].gen
      /\ skuRead'[r].tag = skuRead[r].tag /\ skuRead'[r].seen = skuRead[r].seen
      /\ skuRead'[r].since = skuRead[r].since /\ skuRead'[r].torn = skuRead[r].torn
  BY <1>2, <1>3 DEF SkuReader
<1>5. SkuTypeOK'
  <2>1. skuRead' \in [Readers -> SkuReader]
    BY <1>1, <1>2, <1>4
  <2>2. skuRead[r].gen \in 0 .. MaxGenerations /\ skuRead[r].tag \in 0 .. MaxGenerations
    BY <1>2 DEF SkuReader
  <2> QED BY <1>1, <2>1, <2>2 DEF SkuInv, SkuTypeOK
<1>6. RunHolds' /\ CacheHolds'
  BY <1>1, <1>2 DEF SkuInv, RunHolds, CacheHolds, NotAhead
<1>7. \A o \in Readers : Working(skuRead[o]) => skuCache'.gen \in skuRead[o].since
  BY <1>1, <1>2 DEF SkuInv, Overlaps
<1>8. Settled(skuRead[r])'
  BY <1>1, <1>2, <1>4, <1>7 DEF Settled, Working, Found, Downloaded, Sees, Untorn, NotAhead
<1>9. ASSUME NEW o \in Readers \ {r} PROVE Settled(skuRead[o])'
  <2>1. Settled(skuRead[o])
    BY DEF SkuInv, ReadersHold
  <2> QED BY <1>1, <1>3, <1>7, <2>1 DEF Settled, Working, Found, Downloaded, Sees, Untorn, NotAhead
<1>10. ReadersHold'
  BY <1>8, <1>9 DEF ReadersHold
<1>11. Overlaps'
  <2>1. ASSUME NEW o \in Readers
        PROVE  /\ Working(skuRead'[o]) <=> Working(skuRead[o])
               /\ skuRead'[o].seen = skuRead[o].seen /\ skuRead'[o].since = skuRead[o].since
    BY <1>1, <1>3, <1>4 DEF Working
  <2> QED BY <2>1 DEF SkuInv, Overlaps, Working
<1> QED BY <1>5, <1>6, <1>10, <1>11 DEF SkuInv

\* Both answers were current: what the indexes hold and what was returned
LEMMA AnswersInv ==
  ASSUME SkuInv, NEW r \in Readers, LooksUp(r) \/ AnswersState(r)
  PROVE  SkuInv'
<1>0. PICK g : g \in {skuCache.gen, skuRead[r].gen} /\ SkuAnswers(r, g)
  BY DEF LooksUp, AnswersState
<1>1. /\ g \in {skuCache.gen, skuRead[r].gen}
      /\ Working(skuRead[r]) /\ skuRead[r].pc = "look"
      /\ skuRead' = [skuRead EXCEPT ![r] =
                       [skuRead[r] EXCEPT !.pc = "done", !.answer = g,
                                          !.tag = 0, !.gen = 0, !.seen = {}, !.torn = FALSE]]
      /\ UNCHANGED <<skuManifest, skuBlobs, skuCache, skuRun, flushes>>
  BY <1>0 DEF SkuAnswers, Reads, Working
<1>2. /\ g \in skuRead[r].since /\ skuRead[r] \in SkuReader
      /\ skuRead \in [Readers -> SkuReader]
  BY <1>1, AtWork DEF Sees
<1>3. PICK n \in 0 .. MaxGenerations : n = 0 /\ g \in 0 .. MaxGenerations
  BY <1>1, <1>2, SkuAssumption DEF SkuInv, SkuTypeOK, SkuReader
<1>4. /\ skuRead'[r] = [skuRead[r] EXCEPT !.pc = "done", !.answer = g, !.tag = n, !.gen = n,
                                         !.seen = {}, !.torn = FALSE]
      /\ \A o \in Readers \ {r} : skuRead'[o] = skuRead[o]
  BY <1>1, <1>2, <1>3
<1>5. skuRead'[r] \in SkuReader
  BY <1>2, <1>4 DEF SkuReader
<1>6. skuRead'[r].pc = "done" /\ skuRead'[r].answer = g /\ skuRead'[r].since = skuRead[r].since
  BY <1>2, <1>4 DEF SkuReader
<1>7. skuRead' \in [Readers -> SkuReader]
  BY <1>1, <1>2, <1>4, <1>5
<1>8. Settled(skuRead[r])' /\ ~Working(skuRead'[r])
  BY <1>2, <1>3, <1>6 DEF Settled, Working
<1> QED BY <1>1, <1>4, <1>7, <1>8, ReaderMoves

(***************************************************************************)
(* A read begins: what the readers at work have seen, it counts as current *)
(* since it began; what is current now they have seen.                     *)
(***************************************************************************)
LEMMA ReadsTagInv == ASSUME SkuInv, NEW r \in Readers, ReadsTag(r) PROVE SkuInv'
<1> DEFINE others == {o \in Readers : Reading(o)}
           known == {skuManifest} \cup UNION {skuRead[o].seen : o \in others}
           new == [pc |-> IF skuManifest = 0 THEN "done" ELSE "check", tag |-> skuManifest, gen |-> 0,
                   answer |-> 0, seen |-> {skuManifest}, torn |-> skuRun.torn, since |-> known]
<1>1. /\ ~Working(skuRead[r]) /\ skuRead' = [skuRead EXCEPT ![r] = new]
      /\ UNCHANGED <<skuManifest, skuBlobs, skuCache, skuRun, flushes>>
  BY ReadingIsWorking DEF ReadsTag
<1>2. /\ skuManifest \in 0 .. MaxGenerations /\ skuManifest \in Nat /\ skuRun.torn \in BOOLEAN
      /\ skuRun.gen \in Nat /\ skuCache.gen \in Nat /\ skuCache.tag \in Nat
      /\ skuRead \in [Readers -> SkuReader] /\ skuManifest <= skuRun.gen /\ 0 \in 0 .. MaxGenerations
  BY SkuAssumption DEF SkuInv, SkuTypeOK, RunHolds, SkuRun
<1>3. \A o \in Readers : skuRead[o].seen \subseteq 0 .. MaxGenerations
  BY <1>2 DEF SkuReader
<1>4. known \in SUBSET (0 .. MaxGenerations) /\ skuManifest \in known
  BY <1>2, <1>3
<1>5. \A o \in Readers : Working(skuRead[o]) => skuRead[o].seen \subseteq known
  BY ReadingIsWorking
<1> HIDE DEF known
<1>6. new \in SkuReader
  BY <1>2, <1>4 DEF SkuReader
<1>7. /\ new.pc = (IF skuManifest = 0 THEN "done" ELSE "check") /\ new.tag = skuManifest
      /\ new.answer = 0 /\ new.seen = {skuManifest} /\ new.since = known /\ new.torn = skuRun.torn
  OBVIOUS
<1> HIDE DEF new
<1>8. skuRead'[r] = new /\ \A o \in Readers \ {r} : skuRead'[o] = skuRead[o]
  BY <1>1, <1>2
<1>9. skuRead' \in [Readers -> SkuReader]
  BY <1>1, <1>2, <1>6
<1>10. SkuTypeOK' /\ RunHolds' /\ CacheHolds'
  BY <1>1, <1>9 DEF SkuInv, SkuTypeOK, RunHolds, CacheHolds, NotAhead
<1>11. CASE skuManifest = 0
  <2>1. Settled(skuRead[r])' /\ ~Working(skuRead'[r])
    BY <1>4, <1>7, <1>8, <1>11 DEF Settled, Working
  <2> QED BY <1>1, <1>8, <1>9, <2>1, ReaderMoves
<1>12. CASE skuManifest # 0
  <2>1. new.pc = "check" /\ 0 < skuManifest
    BY <1>2, <1>7, <1>12
  <2>2. skuCache.gen >= skuManifest => skuCache.gen = skuManifest
    BY <1>2, <1>12 DEF SkuInv, CacheHolds, NotAhead
  <2>3. Settled(skuRead[r])'
    <3>1. Found(skuRead[r])' /\ Downloaded(skuRead[r])' /\ Untorn(skuRead[r])'
      BY <1>1, <1>2, <1>7, <1>8, <1>12, <2>1 DEF Found, Downloaded, Untorn, NotAhead
    <3>2. Sees(skuRead[r])'
      BY <1>1, <1>4, <1>7, <1>8, <2>1, <2>2 DEF Sees
    <3> QED BY <1>8, <2>1, <3>1, <3>2 DEF Settled
  <2>4. ASSUME NEW o \in Readers \ {r} PROVE Settled(skuRead[o])'
    <3>1. Settled(skuRead[o])
      BY DEF SkuInv, ReadersHold
    <3> QED BY <1>1, <1>8, <3>1 DEF Settled, Working, Found, Downloaded, Sees, Untorn, NotAhead
  <2>5. ReadersHold'
    BY <2>3, <2>4 DEF ReadersHold
  <2>6. Overlaps'
    <3>1. ASSUME NEW p \in Readers, NEW o \in Readers, Working(skuRead'[p]), Working(skuRead'[o])
          PROVE  skuRead'[o].seen \subseteq skuRead'[p].since
      <4>1. CASE p # r /\ o # r
        BY <1>8, <3>1, <4>1 DEF SkuInv, Overlaps
      <4>2. CASE p # r /\ o = r
        BY <1>7, <1>8, <3>1, <4>2, CurrentSeen
      <4>3. CASE p = r /\ o # r
        BY <1>5, <1>7, <1>8, <3>1, <4>3
      <4>4. CASE p = r /\ o = r
        BY <1>4, <1>7, <1>8, <4>4
      <4> QED BY <4>1, <4>2, <4>3, <4>4
    <3> QED BY <3>1 DEF Overlaps, Working
  <2> QED BY <1>10, <2>5, <2>6 DEF SkuInv
<1> QED BY <1>11, <1>12

-------------------------------------------------------------------------------
LEMMA SkuIdleInv == ASSUME SkuInv, UNCHANGED skuVars PROVE SkuInv'
BY DEF SkuInv, skuVars, SkuTypeOK, RunHolds, CacheHolds, ReadersHold, Overlaps, Settled, Working,
       Found, Downloaded, Sees, Untorn, NotAhead

LEMMA SkuStepInv == ASSUME SkuInv, [SkuNext]_skuVars PROVE SkuInv'
<1>1. CASE RunFails
  BY <1>1, RunEndsInv DEF RunFails
<1>2. ASSUME NEW r \in Readers, Read(r) PROVE SkuInv'
  BY <1>2, ReadsTagInv, ChecksInv, ManifestInv, SnapshotInv, KeepsInv, AnswersInv DEF Read
<1> QED BY <1>1, <1>2, BeginsInv, ThrottledInv, RetrievedInv, UploadSnapshotInv, UploadManifestInv,
           RemembersInv, FlushListsInv, FlushDeletesInv, ForgetsInv, SkuIdleInv DEF SkuNext

LEMMA SkuInvariant == SkuSpec => []SkuInv
<1>1. SkuInv /\ [SkuNext]_skuVars => SkuInv'
  BY SkuStepInv
<1> QED BY <1>1, SkuInitInv, PTL DEF SkuSpec

\* The state of catalogue, cache, run and readers keeps its types
THEOREM SkuTypeCorrect == SkuSpec => []SkuTypeOK
BY SkuInvariant, PTL DEF SkuInv

\* compute_sku_store.py 125-146: the process never keeps an old catalogue with the
\* current ETag, for it pairs a catalogue with an ETag read before, and an ETag
\* that has been superseded is never current again
THEOREM CachedIsCurrent == SkuSpec => []CurrentIfMatched
<1>1. SkuInv => CurrentIfMatched
  <2> SUFFICES ASSUME SkuInv, skuCache.gen # 0, skuCache.tag = skuManifest
               PROVE  skuCache.gen = skuManifest
    BY DEF CurrentIfMatched
  <2>1. skuCache.gen \in Nat /\ skuCache.tag \in Nat
    BY SkuAssumption DEF SkuInv, SkuTypeOK
  <2>2. 0 < skuCache.tag /\ skuCache.tag <= skuCache.gen /\ NotAhead(skuCache.gen)
    BY DEF SkuInv, CacheHolds
  <2> QED BY <2>1, <2>2 DEF NotAhead
<1> QED BY <1>1, SkuInvariant, PTL

\* compute_sku_store.py 163-203: looking the indexes up under a second lock, after
\* others may have replaced them, answers with a catalogue that was current no
\* earlier than when the oldest read that overlaps this one began
THEOREM AnswersAreRecent == SkuSpec => []AnswerRecent
<1>1. SkuInv => AnswerRecent
  BY DEF SkuInv, ReadersHold, Settled, AnswerRecent
<1> QED BY <1>1, SkuInvariant, PTL

\* compute_sku_store.py 97-115: snapshot before manifest; reads fail by flushes only
THEOREM FailureMeansFlush == SkuSpec => []FailsByFlushOnly
<1>1. SkuInv => FailsByFlushOnly
  BY DEF SkuInv, ReadersHold, Settled, FailsByFlushOnly
<1> QED BY <1>1, SkuInvariant, PTL

-------------------------------------------------------------------------------
(***************************************************************************)
(* Reference data.                                                         *)
(***************************************************************************)
\* The run's last generation is the current one, and another can be numbered
LastIsCurrent ==
  /\ refManifest = refRun.gen
  /\ refRun.pc = "fetch" => refRun.gen < MaxPublished

\* A generation that was replaced after g was current was replaced after g
ReplacedSince(g, time) ==
  \A h \in RefGenerations : g <= h /\ h < refManifest => replaced[h] >= time

\* An entry's ETag is of its generation or an older one.  While the generation is
\* current the entry lives no longer than if it were set now; after that, no longer
\* than if it were set one operation of the store after the generation was replaced
EntryHolds ==
  /\ refEntry.tag <= refEntry.gen /\ refEntry.gen <= refManifest
  /\ refEntry.gen = refManifest => refEntry.until <= clock + Ttl
  /\ refEntry.gen < refManifest => refEntry.until <= replaced[refEntry.gen] + Ttl + Stay

\* A thread has not been at work for longer than Stay, and what it read was
\* current at some time since it began
OpeningHolds(o) ==
  /\ o.pc # "idle" => o.began <= clock /\ clock <= o.began + Stay
  /\ o.pc \in {"tag", "compare", "download"} => o.gen = 0
  /\ o.pc \in {"compare", "download"} => o.tag <= refManifest /\ ReplacedSince(o.tag, o.began)
  /\ o.pc = "keep" => /\ o.tag <= o.gen /\ o.gen <= refManifest
                      /\ ReplacedSince(o.gen, o.began)

RefInv ==
  /\ RefTypeOK /\ LastIsCurrent /\ EntryHolds /\ LagBounded
  /\ \A a \in Askers : OpeningHolds(opened[a])

-------------------------------------------------------------------------------
LEMMA RefInitInv == RefInit => RefInv
<1> SUFFICES ASSUME RefInit PROVE RefInv
  OBVIOUS
<1>1. RefTypeOK
  BY ReferenceAssumption DEF RefInit, RefTypeOK, RefGenerations, RefTimes, RefOpening, Unopened
<1>2. LastIsCurrent /\ EntryHolds
  BY ReferenceAssumption DEF RefInit, LastIsCurrent, EntryHolds
<1>3. ASSUME NEW a \in Askers PROVE opened[a].lag < Ttl + Stay /\ OpeningHolds(opened[a])
  BY ReferenceAssumption DEF RefInit, Unopened, OpeningHolds
<1> QED BY <1>1, <1>2, <1>3 DEF RefInv, LagBounded

LEMMA RefNumbers ==
  ASSUME RefInv
  PROVE  /\ clock \in Nat /\ refManifest \in Nat
         /\ refEntry.gen \in Nat /\ refEntry.tag \in Nat /\ refEntry.until \in Nat
         /\ \A g \in RefGenerations : g \in Nat /\ replaced[g] \in Nat
         /\ \A a \in Askers : /\ opened[a].began \in Nat /\ opened[a].tag \in Nat
                              /\ opened[a].gen \in Nat /\ opened[a].lag \in Int
<1>1. RefGenerations \subseteq Nat /\ RefTimes \subseteq Nat /\ 0 .. MaxClock + Ttl \subseteq Nat
  BY ReferenceAssumption DEF RefGenerations, RefTimes
<1> QED BY <1>1 DEF RefInv, RefTypeOK, RefOpening

\* A step of the run that publishes nothing
LEMMA RefRunMoves ==
  ASSUME RefInv, UNCHANGED <<refManifest, refEntry, opened, clock, replaced>>,
         NEW place \in {"idle", "fetch"}, NEW attempt \in 0 .. MaxAttempts - 1,
         refRun' = [refRun EXCEPT !.pc = place, !.attempt = attempt],
         place = "fetch" => refRun.gen < MaxPublished
  PROVE  RefInv'
<1>1. RefTypeOK'
  BY DEF RefInv, RefTypeOK
<1>2. LastIsCurrent' /\ EntryHolds' /\ LagBounded'
  BY DEF RefInv, RefTypeOK, LastIsCurrent, EntryHolds, LagBounded
<1>3. \A a \in Askers : OpeningHolds(opened[a])'
  BY DEF RefInv, OpeningHolds, ReplacedSince
<1> QED BY <1>1, <1>2, <1>3 DEF RefInv

LEMMA RefFetches ==
  ASSUME RefInv, RefRefreshBegins \/ RefThrottled \/ RefRefreshFails PROVE RefInv'
<1>1. /\ refRun \in [pc : {"idle", "fetch", "remember"}, attempt : 0 .. MaxAttempts - 1,
                   gen : RefGenerations, began : RefTimes]
      /\ refRun.attempt \in 0 .. MaxAttempts - 1 /\ 0 \in 0 .. MaxAttempts - 1
      /\ refRun.pc = "fetch" => refRun.gen < MaxPublished
  BY ReferenceAssumption DEF RefInv, RefTypeOK, LastIsCurrent
<1>2. UNCHANGED <<refManifest, refEntry, opened, clock, replaced>>
  BY DEF RefRefreshBegins, RefThrottled, RefRefreshFails
<1>3. CASE RefRefreshBegins
  <2>1. /\ refRun' = [refRun EXCEPT !.pc = "fetch", !.attempt = refRun.attempt]
        /\ refRun.gen < MaxPublished
    BY <1>1, <1>3 DEF RefRefreshBegins
  <2> QED BY <1>1, <1>2, <2>1, RefRunMoves
<1>4. CASE RefThrottled
  <2>1. CASE AttemptsLeft
    <3>1. refRun.attempt + 1 \in 0 .. MaxAttempts - 1
      BY <1>1, <2>1, ReferenceAssumption DEF AttemptsLeft
    <3>2. refRun' = [refRun EXCEPT !.attempt = refRun.attempt + 1] /\ refRun.pc = "fetch"
      BY <1>4, <2>1 DEF RefThrottled
    <3>3. refRun' = [refRun EXCEPT !.pc = "fetch", !.attempt = refRun.attempt + 1]
      BY <1>1, <3>2
    <3> QED BY <1>1, <1>2, <3>1, <3>2, <3>3, RefRunMoves
  <2>2. CASE ~AttemptsLeft
    <3>1. refRun' = [refRun EXCEPT !.pc = "idle", !.attempt = 0]
      BY <1>4, <2>2 DEF RefThrottled
    <3> QED BY <1>1, <1>2, <3>1, RefRunMoves
  <2> QED BY <2>1, <2>2
<1>5. CASE RefRefreshFails
  <2>1. refRun' = [refRun EXCEPT !.pc = "idle", !.attempt = 0]
    BY <1>5 DEF RefRefreshFails
  <2> QED BY <1>1, <1>2, <2>1, RefRunMoves
<1> QED BY <1>3, <1>4, <1>5

\* What is replaced now was replaced since any thread at work began
LEMMA PublishesRefInv == ASSUME RefInv, RefPublishes PROVE RefInv'
<1>1. PICK here \in BOOLEAN :
        refRun' = [refRun EXCEPT !.pc = IF here THEN "remember" ELSE "idle", !.attempt = 0,
                                 !.gen = @ + 1, !.began = IF here THEN clock ELSE 0]
  BY DEF RefPublishes
<1>2. /\ refManifest' = refManifest + 1 /\ refManifest + 1 \in RefGenerations
      /\ replaced' = [replaced EXCEPT ![refManifest] = clock]
      /\ UNCHANGED <<refEntry, opened, clock>>
      /\ refManifest \in RefGenerations /\ refManifest \in Nat
  BY ReferenceAssumption DEF RefPublishes, RefInv, RefTypeOK, LastIsCurrent, RefGenerations
<1>3. /\ replaced' \in [RefGenerations -> RefTimes]
      /\ replaced'[refManifest] = clock
      /\ \A h \in RefGenerations : h < refManifest => replaced'[h] = replaced[h]
  BY <1>2 DEF RefInv, RefTypeOK, RefGenerations
<1>4. RefTypeOK'
  <2>1. clock \in RefTimes /\ 0 \in RefTimes /\ 0 \in 0 .. MaxAttempts - 1
    BY ReferenceAssumption DEF RefInv, RefTypeOK, RefTimes
  <2>2. refRun' \in [pc : {"idle", "fetch", "remember"}, attempt : 0 .. MaxAttempts - 1,
                     gen : RefGenerations, began : RefTimes]
    BY <1>1, <1>2, <2>1 DEF RefInv, RefTypeOK, LastIsCurrent
  <2> QED BY <1>2, <1>3, <2>2 DEF RefInv, RefTypeOK
<1>5. LastIsCurrent'
  BY <1>1, <1>2 DEF RefInv, RefTypeOK, LastIsCurrent
<1>6. EntryHolds'
  <2>1. refEntry.gen \in RefGenerations /\ refEntry.gen \in Nat /\ refEntry.tag \in Nat
        /\ refEntry.until \in Nat /\ clock \in Nat
    BY ReferenceAssumption DEF RefInv, RefTypeOK, RefGenerations, RefTimes
  <2>2. refEntry.gen < refManifest => replaced[refEntry.gen] \in Nat
    BY <2>1, ReferenceAssumption DEF RefInv, RefTypeOK, RefTimes
  <2> QED BY <1>2, <1>3, <2>1, <2>2, ReferenceAssumption DEF RefInv, EntryHolds
<1>7. LagBounded'
  BY <1>2 DEF RefInv, LagBounded
<1>8. ASSUME NEW a \in Askers PROVE OpeningHolds(opened[a])'
  <2>1. opened[a].began \in Nat /\ clock \in Nat /\ opened[a].tag \in Nat /\ opened[a].gen \in Nat
    BY RefNumbers
  <2>2. ASSUME NEW g \in Nat, ReplacedSince(g, opened[a].began), opened[a].pc # "idle"
        PROVE  ReplacedSince(g, opened[a].began)'
    <3>1. opened[a].began <= clock
      BY <2>2 DEF RefInv, OpeningHolds
    <3>2. ASSUME NEW h \in RefGenerations, g <= h, h < refManifest' PROVE replaced'[h] >= opened[a].began
      <4>1. h \in Nat /\ (h < refManifest \/ h = refManifest)
        BY <1>2, <3>2 DEF RefGenerations
      <4> QED BY <1>3, <2>1, <2>2, <3>1, <3>2, <4>1 DEF ReplacedSince
    <3> QED BY <1>2, <3>2 DEF ReplacedSince
  <2>3. PICK o : o = opened[a]
    OBVIOUS
  <2>4. opened'[a] = o
    BY <1>2, <2>3
  <2>5. OpeningHolds(o)
    BY <2>3 DEF RefInv
  <2>6. OpeningHolds(o)'
    BY <1>2, <2>1, <2>2, <2>3, <2>5 DEF OpeningHolds
  <2> QED BY <2>4, <2>6
<1> QED BY <1>4, <1>5, <1>6, <1>7, <1>8 DEF RefInv

LEMMA RemembersRefInv == ASSUME RefInv, RefRemembers PROVE RefInv'
<1>1. /\ refEntry' = [gen |-> refRun.gen, tag |-> refRun.gen, until |-> clock + Ttl]
      /\ refRun' = [refRun EXCEPT !.pc = "idle", !.began = 0]
      /\ UNCHANGED <<refManifest, opened, clock, replaced>>
  BY DEF RefRemembers, RefEntry
<1>2. RefTypeOK'
  <2>1. clock + Ttl \in 0 .. MaxClock + Ttl /\ 0 \in RefTimes
    BY ReferenceAssumption DEF RefInv, RefTypeOK, RefTimes
  <2> QED BY <1>1, <2>1 DEF RefInv, RefTypeOK
<1>3. EntryHolds'
  BY <1>1, RefNumbers, ReferenceAssumption DEF RefInv, LastIsCurrent, EntryHolds
<1>4. LastIsCurrent' /\ LagBounded'
  BY <1>1 DEF RefInv, RefTypeOK, LastIsCurrent, LagBounded
<1>5. \A a \in Askers : OpeningHolds(opened[a])'
  BY <1>1 DEF RefInv, OpeningHolds, ReplacedSince
<1> QED BY <1>2, <1>3, <1>4, <1>5 DEF RefInv

-------------------------------------------------------------------------------
\* One thread moves, and may set or renew the entry
LEMMA ThreadMoves ==
  ASSUME RefInv, NEW a \in Askers, NEW o \in RefOpening,
         UNCHANGED <<refManifest, refRun, clock, replaced>>,
         opened' = [opened EXCEPT ![a] = o], o.lag < Ttl + Stay, OpeningHolds(o),
         refEntry' \in [gen : RefGenerations, tag : RefGenerations, until : 0 .. MaxClock + Ttl],
         EntryHolds'
  PROVE  RefInv'
<1>1. RefTypeOK'
  BY DEF RefInv, RefTypeOK
<1>2. LastIsCurrent'
  BY DEF RefInv, LastIsCurrent
<1>3. ASSUME NEW b \in Askers PROVE opened'[b].lag < Ttl + Stay /\ OpeningHolds(opened[b])'
  <2>1. opened'[b] = IF b = a THEN o ELSE opened[b]
    BY DEF RefInv, RefTypeOK
  <2>2. PICK x : x = opened'[b]
    OBVIOUS
  <2>3. x.lag < Ttl + Stay /\ OpeningHolds(x)
    BY <2>1, <2>2 DEF RefInv, LagBounded
  <2>4. OpeningHolds(x)'
    BY <2>3 DEF OpeningHolds, ReplacedSince
  <2> QED BY <2>2, <2>3, <2>4
<1> QED BY <1>1, <1>2, <1>3 DEF RefInv, LagBounded

\* A thread that only goes on leaves the entry as it is
LEMMA GoesOnInv ==
  ASSUME RefInv, NEW a \in Askers, NEW o \in RefOpening,
         UNCHANGED <<refManifest, refEntry, refRun, clock, replaced>>,
         opened' = [opened EXCEPT ![a] = o], o.lag < Ttl + Stay, OpeningHolds(o)
  PROVE  RefInv'
<1>1. /\ refEntry' \in [gen : RefGenerations, tag : RefGenerations, until : 0 .. MaxClock + Ttl]
      /\ EntryHolds'
  BY DEF RefInv, RefTypeOK, EntryHolds
<1> QED BY <1>1, ThreadMoves

LEMMA ThreadNumbers ==
  ASSUME RefInv, NEW a \in Askers
  PROVE  /\ opened[a] \in RefOpening /\ opened[a].lag < Ttl + Stay /\ OpeningHolds(opened[a])
         /\ 0 \in RefGenerations /\ clock \in RefTimes /\ 0 \in RefTimes /\ 0 < Ttl + Stay
         /\ refManifest \in RefGenerations
  BY ReferenceAssumption DEF RefInv, RefTypeOK, LagBounded, RefGenerations, RefTimes

\* An answer with a generation that is current, or that was replaced late enough
LEMMA AnswerInv ==
  ASSUME RefInv, NEW a \in Askers, NEW gen \in RefGenerations, NEW began \in RefTimes,
         Answers(a, gen, began), UNCHANGED <<refManifest, refRun, clock, replaced>>,
         gen # refManifest => began < replaced[gen] + Ttl + Stay,
         refEntry' \in [gen : RefGenerations, tag : RefGenerations, until : 0 .. MaxClock + Ttl],
         EntryHolds'
  PROVE  RefInv'
<1>1. began \in Nat /\ replaced[gen] \in Nat /\ Ttl \in Nat /\ Stay \in Nat
  BY RefNumbers, ReferenceAssumption DEF RefTimes
<1>2. Lag(gen, began) \in Int /\ Lag(gen, began) < Ttl + Stay
  BY <1>1, ThreadNumbers DEF Lag
<1>3. PICK lag \in Int : lag = Lag(gen, began)
  BY <1>2
<1>4. PICK o : o = [Unopened EXCEPT !.lag = lag]
  OBVIOUS
<1>5. o \in RefOpening /\ o.lag = lag /\ OpeningHolds(o)
  BY <1>4, ThreadNumbers DEF Unopened, RefOpening, OpeningHolds
<1>6. opened' = [opened EXCEPT ![a] = o]
  BY <1>3, <1>4 DEF Answers
<1> QED BY <1>2, <1>3, <1>5, <1>6, ThreadMoves

LEMMA AnswersAtOnceInv == ASSUME RefInv, NEW a \in Askers, AnswersAtOnce(a) PROVE RefInv'
<1>1. /\ refEntry.until > clock /\ Answers(a, refEntry.gen, clock)
      /\ UNCHANGED <<refManifest, refEntry, refRun, clock, replaced>>
  BY DEF AnswersAtOnce, RefLive
<1>2. /\ refEntry' \in [gen : RefGenerations, tag : RefGenerations, until : 0 .. MaxClock + Ttl]
      /\ EntryHolds' /\ refEntry.gen \in RefGenerations
  BY <1>1 DEF RefInv, RefTypeOK, EntryHolds
<1>3. refEntry.gen # refManifest => clock < replaced[refEntry.gen] + Ttl + Stay
  BY <1>1, <1>2, RefNumbers, ReferenceAssumption DEF RefInv, EntryHolds
<1>4. PICK gen \in RefGenerations, began \in RefTimes : gen = refEntry.gen /\ began = clock
  BY <1>2, ThreadNumbers
<1>5. Answers(a, gen, began)
  BY <1>1, <1>4
<1> QED BY <1>1, <1>2, <1>3, <1>4, <1>5, AnswerInv

LEMMA OpensInv == ASSUME RefInv, NEW a \in Askers, Opens(a) PROVE RefInv'
<1>1. PICK o : o = [Unopened EXCEPT !.pc = "tag", !.began = clock]
  OBVIOUS
<1>2. /\ opened' = [opened EXCEPT ![a] = o]
      /\ UNCHANGED <<refManifest, refEntry, refRun, clock, replaced>>
  BY <1>1 DEF Opens
<1>3. o = [pc |-> "tag", began |-> clock, tag |-> 0, gen |-> 0, lag |-> 0]
  BY <1>1 DEF Unopened
<1>4. o \in RefOpening /\ o.lag < Ttl + Stay
  BY <1>3, ThreadNumbers DEF RefOpening
<1>5. OpeningHolds(o)
  BY <1>3, RefNumbers, ReferenceAssumption DEF OpeningHolds
<1> QED BY <1>2, <1>4, <1>5, GoesOnInv

LEMMA ReadsTagRefInv == ASSUME RefInv, NEW a \in Askers, RefReadsTag(a) PROVE RefInv'
<1>1. PICK next \in {"keep", "compare"} : next = IF refManifest = 0 THEN "keep" ELSE "compare"
  OBVIOUS
<1>2. PICK o : o = [opened[a] EXCEPT !.pc = next, !.tag = refManifest]
  OBVIOUS
<1>3. /\ opened' = [opened EXCEPT ![a] = o] /\ opened[a].pc = "tag"
      /\ UNCHANGED <<refManifest, refEntry, refRun, clock, replaced>>
  BY <1>1, <1>2 DEF RefReadsTag, RefInv, RefTypeOK
<1>4. /\ o \in RefOpening /\ o.lag = opened[a].lag /\ o.pc = next /\ o.tag = refManifest
      /\ o.gen = opened[a].gen /\ o.began = opened[a].began
  BY <1>2, ThreadNumbers DEF RefOpening
<1>5. opened[a].gen = 0 /\ opened[a].began <= clock /\ clock <= opened[a].began + Stay
  BY <1>3, ThreadNumbers DEF OpeningHolds
<1>6. \A g : ~(refManifest <= g /\ g < refManifest) \/ g \notin Nat
  BY RefNumbers
<1>7. OpeningHolds(o)
  BY <1>1, <1>4, <1>5, <1>6, RefNumbers DEF OpeningHolds, ReplacedSince
<1> QED BY <1>3, <1>4, <1>7, ThreadNumbers, GoesOnInv

\* The entry of an ETag that was current since the thread began holds a generation
\* that was
LEMMA RenewsInv == ASSUME RefInv, NEW a \in Askers, Renews(a) PROVE RefInv'
<1>1. /\ opened[a].pc = "compare" /\ refEntry.tag = opened[a].tag
      /\ refEntry' = [refEntry EXCEPT !.tag = opened[a].tag, !.until = opened[a].began + Ttl]
      /\ Answers(a, refEntry.gen, opened[a].began)
      /\ UNCHANGED <<refManifest, refRun, clock, replaced>>
  BY DEF Renews, Renewable
<1>2. /\ refEntry.gen \in RefGenerations /\ opened[a].began \in RefTimes
      /\ opened[a].tag \in RefGenerations
      /\ opened[a].tag <= refEntry.gen /\ refEntry.gen <= refManifest
      /\ opened[a].began <= clock
  BY <1>1, ThreadNumbers DEF RefInv, RefTypeOK, EntryHolds, RefOpening, OpeningHolds
<1>3. refEntry.gen # refManifest => opened[a].began <= replaced[refEntry.gen]
  BY <1>1, <1>2, RefNumbers, ThreadNumbers DEF OpeningHolds, ReplacedSince
<1>4. PICK gen \in RefGenerations, began \in RefTimes : gen = refEntry.gen /\ began = opened[a].began
  BY <1>2
<1>5. refEntry' = [gen |-> gen, tag |-> opened[a].tag, until |-> began + Ttl]
  BY <1>1, <1>4 DEF RefInv, RefTypeOK
<1>6. began \in Nat /\ began + Ttl \in 0 .. MaxClock + Ttl /\ Ttl \in Nat \ {0} /\ Stay \in Nat
  BY ReferenceAssumption DEF RefTimes
<1>7. refEntry' \in [gen : RefGenerations, tag : RefGenerations, until : 0 .. MaxClock + Ttl]
  BY <1>2, <1>5, <1>6
<1>8. EntryHolds'
  BY <1>1, <1>2, <1>3, <1>4, <1>5, <1>6, RefNumbers DEF EntryHolds
<1>9. gen # refManifest => began < replaced[gen] + Ttl + Stay
  BY <1>3, <1>4, <1>6, RefNumbers
<1>10. Answers(a, gen, began)
  BY <1>1, <1>4
<1> QED BY <1>1, <1>7, <1>8, <1>9, <1>10, AnswerInv

LEMMA DiffersInv == ASSUME RefInv, NEW a \in Askers, Differs(a) PROVE RefInv'
<1>1. PICK o : o = [opened[a] EXCEPT !.pc = "download"]
  OBVIOUS
<1>2. /\ opened' = [opened EXCEPT ![a] = o] /\ opened[a].pc = "compare"
      /\ UNCHANGED <<refManifest, refEntry, refRun, clock, replaced>>
  BY <1>1 DEF Differs, RefInv, RefTypeOK
<1>3. /\ o \in RefOpening /\ o.lag = opened[a].lag /\ o.pc = "download" /\ o.tag = opened[a].tag
      /\ o.gen = opened[a].gen /\ o.began = opened[a].began
  BY <1>1, ThreadNumbers DEF RefOpening
<1>4. OpeningHolds(o)
  BY <1>2, <1>3, ThreadNumbers DEF OpeningHolds
<1> QED BY <1>2, <1>3, <1>4, ThreadNumbers, GoesOnInv

LEMMA DownloadsInv == ASSUME RefInv, NEW a \in Askers, Downloads(a) PROVE RefInv'
<1>1. PICK o : o = [opened[a] EXCEPT !.pc = "keep", !.gen = refManifest]
  OBVIOUS
<1>2. /\ opened' = [opened EXCEPT ![a] = o] /\ opened[a].pc = "download"
      /\ UNCHANGED <<refManifest, refEntry, refRun, clock, replaced>>
  BY <1>1 DEF Downloads, RefInv, RefTypeOK
<1>3. /\ o \in RefOpening /\ o.lag = opened[a].lag /\ o.pc = "keep" /\ o.tag = opened[a].tag
      /\ o.gen = refManifest /\ o.began = opened[a].began
  BY <1>1, ThreadNumbers DEF RefOpening
<1>4. OpeningHolds(o)
  BY <1>2, <1>3, RefNumbers, ThreadNumbers DEF OpeningHolds, ReplacedSince
<1> QED BY <1>2, <1>3, <1>4, ThreadNumbers, GoesOnInv

LEMMA KeepsRefInv == ASSUME RefInv, NEW a \in Askers, Keeps(a) PROVE RefInv'
<1>1. /\ opened[a].pc = "keep"
      /\ refEntry' = [gen |-> opened[a].gen, tag |-> opened[a].tag, until |-> clock + Ttl]
      /\ Answers(a, opened[a].gen, opened[a].began)
      /\ UNCHANGED <<refManifest, refRun, clock, replaced>>
  BY DEF Keeps, Fetched, RefEntry
<1>2. /\ opened[a].gen \in RefGenerations /\ opened[a].began \in RefTimes
      /\ opened[a].tag \in RefGenerations
      /\ opened[a].tag <= opened[a].gen /\ opened[a].gen <= refManifest
      /\ clock <= opened[a].began + Stay
  BY <1>1, ThreadNumbers DEF RefOpening, OpeningHolds
<1>3. opened[a].gen # refManifest => opened[a].began <= replaced[opened[a].gen]
  BY <1>1, <1>2, RefNumbers, ThreadNumbers DEF OpeningHolds, ReplacedSince
<1>4. PICK gen \in RefGenerations, began \in RefTimes : gen = opened[a].gen /\ began = opened[a].began
  BY <1>2
<1>5. began \in Nat /\ Ttl \in Nat \ {0} /\ Stay \in Nat /\ clock + Ttl \in 0 .. MaxClock + Ttl
  BY ReferenceAssumption, ThreadNumbers DEF RefTimes
<1>6. refEntry' \in [gen : RefGenerations, tag : RefGenerations, until : 0 .. MaxClock + Ttl]
  BY <1>1, <1>2, <1>5
<1>7. EntryHolds'
  BY <1>1, <1>2, <1>3, <1>4, <1>5, RefNumbers DEF EntryHolds
<1>8. gen # refManifest => began < replaced[gen] + Ttl + Stay
  BY <1>3, <1>4, <1>5, RefNumbers
<1>9. Answers(a, gen, began)
  BY <1>1, <1>4
<1> QED BY <1>1, <1>6, <1>7, <1>8, <1>9, AnswerInv

LEMMA ClockInv == ASSUME RefInv, RefClock PROVE RefInv'
<1>1. /\ clock < MaxClock /\ clock' = clock + 1
      /\ \A a \in Askers : opened[a].pc # "idle" => clock < opened[a].began + Stay
      /\ UNCHANGED <<refManifest, refEntry, refRun, opened, replaced>>
  BY DEF RefClock
<1>2. RefTypeOK'
  BY <1>1, ReferenceAssumption DEF RefInv, RefTypeOK, RefTimes
<1>3. LastIsCurrent' /\ EntryHolds' /\ LagBounded'
  BY <1>1, RefNumbers, ReferenceAssumption DEF RefInv, LastIsCurrent, EntryHolds, LagBounded
<1>4. ASSUME NEW a \in Askers PROVE OpeningHolds(opened[a])'
  BY <1>1, RefNumbers, ReferenceAssumption DEF RefInv, OpeningHolds, ReplacedSince
<1> QED BY <1>2, <1>3, <1>4 DEF RefInv

LEMMA RefStepInv == ASSUME RefInv, [RefNext]_refVars PROVE RefInv'
<1>1. CASE UNCHANGED refVars
  <2>1. RefTypeOK' /\ LastIsCurrent' /\ EntryHolds' /\ LagBounded'
    BY <1>1 DEF refVars, RefInv, RefTypeOK, LastIsCurrent, EntryHolds, LagBounded
  <2>2. \A a \in Askers : OpeningHolds(opened[a])'
    BY <1>1 DEF refVars, RefInv, OpeningHolds, ReplacedSince
  <2> QED BY <2>1, <2>2 DEF RefInv
<1> QED BY <1>1, RefFetches, PublishesRefInv, RemembersRefInv, ClockInv, AnswersAtOnceInv, OpensInv,
           ReadsTagRefInv, RenewsInv, DiffersInv, DownloadsInv, KeepsRefInv DEF RefNext

LEMMA RefInvariant == RefSpec => []RefInv
  BY RefInitInv, RefStepInv, PTL DEF RefSpec

\* The entry, the manifest and the threads keep their types; a refresh makes no
\* more than MaxAttempts attempts (run_catalogue_refresh)
THEOREM ReferenceTypeCorrect == RefSpec => []RefTypeOK
<1>1. RefInv => RefTypeOK
  BY DEF RefInv
<1> QED BY <1>1, RefInvariant, PTL

\* Late threads may put old generations back into the entry, and others renew them:
\* an answer is never older than one life of an entry and one operation of the
\* store (open_snapshot and _set_cache), whatever those last
THEOREM LagIsBounded == RefSpec => []LagBounded
<1>1. RefInv => LagBounded
  BY DEF RefInv
<1> QED BY <1>1, RefInvariant, PTL

-------------------------------------------------------------------------------
(***************************************************************************)
(* Zone mapping.                                                           *)
(***************************************************************************)
\* What a run has still to fetch, or has given up
Awaited(s) == s \in zoneRun.pending \cup zoneRun.retry \/ zoneRun.failed

\* Regions are never withdrawn, so what anybody knows is still shown
KnownShown ==
  /\ shown # {}
  /\ mapping.known \subseteq shown
  /\ zoneRun.known \subseteq shown

\* Only a refresh has a scope, and it deletes nothing of it; a run that is over
\* has deleted nothing
RunShape ==
  /\ zoneRun.subs \cap (zoneRun.delete \cup zoneRun.gone) = {}
  /\ zoneRun.pc = "idle" => zoneRun = ZoneIdle
  /\ zoneRun.pc = "flush" => zoneRun.subs = {}
  /\ zoneRun.retry # {} => zoneRun.attempt < MaxThrottles

\* The fragments of those the snapshot covers, and of those the run will cover
FragmentsKnown ==
  \A s \in mapping.subs : fragments[s] # {} => mapping.known \subseteq fragments[s]
FragmentsLost ==
  \A s \in mapping.subs : fragments[s] = {} => s \in lost \cup zoneRun.gone
RunKnown ==
  \A s \in zoneRun.subs : Awaited(s) \/ (fragments[s] # {} => zoneRun.known \subseteq fragments[s])
RunLost ==
  \A s \in zoneRun.subs : Awaited(s) \/ (fragments[s] = {} => s \in lost)

ZoneInv ==
  /\ ZoneTypeOK
  /\ KnownShown /\ RunShape
  /\ FragmentsKnown /\ FragmentsLost /\ RunKnown /\ RunLost
  /\ KnownCaptured /\ GapsByTornRuns

-------------------------------------------------------------------------------
LEMMA IdleIsRun == ZoneIdle \in ZoneRun /\ NoMapping \in [subs : SUBSET Subs, known : SUBSET Regions, maps : Fragments]
BY ZoneAssumption DEF ZoneIdle, ZoneRun, NoMapping, NoFragments, Fragments

LEMMA IdleShape ==
  /\ ZoneIdle.pc = "idle" /\ ZoneIdle.retry = {} /\ ZoneIdle.gone = {} /\ ZoneIdle.subs = {}
  /\ ZoneIdle.known = {}
BY DEF ZoneIdle

LEMMA ZoneInitInv == ZoneInit => ZoneInv
<1> SUFFICES ASSUME ZoneInit PROVE ZoneInv
  OBVIOUS
<1> USE DEF ZoneInit
<1>1. ZoneTypeOK
  BY ZoneAssumption, IdleIsRun DEF ZoneTypeOK, Fragments, NoFragments
<1>2. KnownShown
  BY DEF KnownShown, ZoneIdle, NoMapping
<1>4. RunShape
  BY IdleShape DEF RunShape
<1>3. FragmentsKnown /\ FragmentsLost /\ RunKnown /\ RunLost /\ KnownCaptured /\ GapsByTornRuns
  BY DEF FragmentsKnown, FragmentsLost, RunKnown, RunLost, KnownCaptured, GapsByTornRuns,
         ZoneIdle, NoMapping
<1> QED BY <1>1, <1>2, <1>3, <1>4 DEF ZoneInv

(***************************************************************************)
(* The steps.  Each leaves most of the state alone; what is cited is what  *)
(* it disturbs.                                                            *)
(***************************************************************************)
LEMMA PlanInv == ZoneInv /\ ResolvePlan => ZoneInv'
<1> SUFFICES ASSUME ZoneInv, ResolvePlan PROVE ZoneInv'
  OBVIOUS
<1>11. /\ zoneRun = ZoneIdle /\ zoneRun \in ZoneRun /\ zoneRun.gone = {} /\ zoneRun.retry = {}
  BY IdleShape, IdleIsRun DEF ResolvePlan, ZoneInv, RunShape
<1>12. zoneRun' = [zoneRun EXCEPT !.pc = "refresh", !.delete = mapping.subs \ zoneScope,
                                 !.pending = Targets, !.subs = zoneScope, !.known = KnownAndProbed]
  BY <1>11 DEF ResolvePlan
<1>0. /\ zoneRun'.pc = "refresh" /\ zoneRun'.delete = mapping.subs \ zoneScope
      /\ zoneRun'.pending = Targets /\ zoneRun'.subs = zoneScope
      /\ zoneRun'.known = mapping.known \cup shown /\ zoneRun'.retry = {} /\ zoneRun'.gone = {}
      /\ Targets \subseteq zoneScope /\ zoneRun' \in ZoneRun
  <2>1. Targets \in SUBSET Subs /\ zoneScope \in SUBSET Subs /\ Targets \subseteq zoneScope
    BY DEF Targets, ZoneInv, ZoneTypeOK
  <2>2. mapping.subs \ zoneScope \in SUBSET Subs /\ KnownAndProbed \in SUBSET Regions
    BY DEF ZoneInv, ZoneTypeOK, KnownAndProbed
  <2>3. zoneRun' \in ZoneRun
    BY <1>11, <1>12, <2>1, <2>2 DEF ZoneRun
  <2>4. /\ zoneRun'.pc = "refresh" /\ zoneRun'.delete = mapping.subs \ zoneScope
        /\ zoneRun'.pending = Targets /\ zoneRun'.subs = zoneScope
        /\ zoneRun'.known = KnownAndProbed
        /\ zoneRun'.retry = zoneRun.retry /\ zoneRun'.gone = zoneRun.gone
    BY <1>11, <1>12 DEF ZoneRun
  <2> QED BY <1>11, <2>1, <2>3, <2>4 DEF KnownAndProbed
<1> USE DEF ZoneInv
<1>9. UNCHANGED <<zoneScope, shown, fragments, mapping, lost, moves, faults>>
  BY DEF ResolvePlan
<1>1. ZoneTypeOK'
  BY <1>0, <1>9 DEF ZoneTypeOK
<1>2. KnownShown'
  BY <1>0, <1>9 DEF KnownShown
<1>3. RunShape'
  BY <1>0 DEF RunShape
<1>4. FragmentsKnown' /\ KnownCaptured' /\ GapsByTornRuns'
  BY <1>9 DEF FragmentsKnown, KnownCaptured, GapsByTornRuns
<1>5. FragmentsLost'
  BY <1>0, <1>9, <1>11 DEF FragmentsLost
<1>6. ASSUME NEW s \in zoneScope, s \notin Targets
      PROVE  s \in mapping.subs /\ mapping.known = mapping.known \cup shown
  BY <1>6 DEF Targets, FullRefresh
<1>7. RunKnown'
  BY <1>0, <1>6, <1>9 DEF RunKnown, Awaited, FragmentsKnown
<1>8. RunLost'
  BY <1>0, <1>6, <1>9, <1>11 DEF RunLost, Awaited, FragmentsLost
<1> QED BY <1>1, <1>2, <1>3, <1>4, <1>5, <1>7, <1>8

LEMMA DeleteInv == ZoneInv /\ DeleteFragment => ZoneInv'
<1> SUFFICES ASSUME ZoneInv, DeleteFragment PROVE ZoneInv'
  OBVIOUS
<1>0. PICK s \in zoneRun.delete :
        /\ fragments' = [fragments EXCEPT ![s] = {}]
        /\ zoneRun' = [zoneRun EXCEPT !.delete = @ \ {s}, !.gone = @ \cup {s}]
  BY DEF DeleteFragment
<1> USE DEF ZoneInv
<1>1. /\ zoneRun \in ZoneRun /\ fragments \in Fragments /\ s \in Subs /\ s \notin zoneRun.subs
      /\ zoneRun.pc # "idle" /\ UNCHANGED <<zoneScope, shown, mapping, lost, moves, faults>>
  BY <1>0 DEF ZoneTypeOK, ZoneRun, RunShape, DeleteFragment
<1>2. /\ zoneRun'.pc = zoneRun.pc /\ zoneRun'.subs = zoneRun.subs /\ zoneRun'.known = zoneRun.known
      /\ zoneRun'.pending = zoneRun.pending /\ zoneRun'.retry = zoneRun.retry
      /\ zoneRun'.attempt = zoneRun.attempt /\ zoneRun'.failed = zoneRun.failed
      /\ zoneRun'.delete = zoneRun.delete \ {s} /\ zoneRun'.gone = zoneRun.gone \cup {s}
      /\ zoneRun' \in ZoneRun
  BY <1>0, <1>1 DEF ZoneRun
<1>3. /\ fragments' \in Fragments /\ fragments'[s] = {}
      /\ \A o \in Subs : o # s => fragments'[o] = fragments[o]
  BY <1>0, <1>1 DEF Fragments
<1>4. ZoneTypeOK'
  BY <1>1, <1>2, <1>3 DEF ZoneTypeOK
<1>5. KnownShown' /\ KnownCaptured' /\ GapsByTornRuns'
  BY <1>1, <1>2 DEF KnownShown, KnownCaptured, GapsByTornRuns
<1>6. RunShape'
  BY <1>1, <1>2 DEF RunShape
<1>7. mapping.subs \subseteq Subs /\ zoneRun.subs \subseteq Subs
  BY <1>1 DEF ZoneTypeOK, ZoneRun
<1>8. FragmentsKnown' /\ FragmentsLost'
  BY <1>1, <1>2, <1>3, <1>7 DEF FragmentsKnown, FragmentsLost
<1>9. RunKnown' /\ RunLost'
  BY <1>1, <1>2, <1>3, <1>7 DEF RunKnown, RunLost, Awaited
<1> QED BY <1>4, <1>5, <1>6, <1>8, <1>9

LEMMA FetchInv == ASSUME ZoneInv, NEW s \in Subs, FetchSubscription(s) PROVE ZoneInv'
<1> USE DEF ZoneInv
<1>0. /\ fragments' = [fragments EXCEPT ![s] = shown]
      /\ zoneRun' = [zoneRun EXCEPT !.pending = @ \ {s}]
      /\ zoneRun \in ZoneRun /\ fragments \in Fragments /\ zoneRun.pc = "refresh"
      /\ UNCHANGED <<zoneScope, shown, mapping, lost, moves, faults>>
  BY DEF FetchSubscription, Fetching, ZoneTypeOK
<1>1. /\ zoneRun'.pc = zoneRun.pc /\ zoneRun'.subs = zoneRun.subs /\ zoneRun'.known = zoneRun.known
      /\ zoneRun'.pending = zoneRun.pending \ {s} /\ zoneRun'.retry = zoneRun.retry
      /\ zoneRun'.attempt = zoneRun.attempt /\ zoneRun'.failed = zoneRun.failed
      /\ zoneRun'.delete = zoneRun.delete /\ zoneRun'.gone = zoneRun.gone
      /\ zoneRun' \in ZoneRun
  BY <1>0 DEF ZoneRun
<1>2. /\ fragments'[s] = shown /\ shown # {}
      /\ \A o \in Subs : o # s => fragments'[o] = fragments[o]
      /\ fragments' \in Fragments
  BY <1>0 DEF Fragments, ZoneTypeOK, KnownShown
<1>3. ZoneTypeOK'
  BY <1>0, <1>1, <1>2 DEF ZoneTypeOK
<1>4. KnownShown' /\ KnownCaptured' /\ GapsByTornRuns' /\ RunShape'
  BY <1>0, <1>1 DEF KnownShown, KnownCaptured, GapsByTornRuns, RunShape
<1>5. mapping.subs \subseteq Subs /\ zoneRun.subs \subseteq Subs
  BY <1>0 DEF ZoneTypeOK, ZoneRun
<1>6. FragmentsKnown' /\ FragmentsLost'
  BY <1>0, <1>1, <1>2, <1>5 DEF FragmentsKnown, FragmentsLost, KnownShown
<1>7. RunKnown'
  BY <1>0, <1>1, <1>2, <1>5 DEF RunKnown, Awaited, KnownShown
<1>8. RunLost'
  BY <1>0, <1>1, <1>2, <1>5 DEF RunLost, Awaited
<1> QED BY <1>3, <1>4, <1>6, <1>7, <1>8

(***************************************************************************)
(* A step of a refresh that only moves units among pending, retry and      *)
(* failed keeps what is awaited.                                           *)
(***************************************************************************)
LEMMA MovedInv ==
  ASSUME ZoneInv, zoneRun' \in ZoneRun, zoneRun'.pc = zoneRun.pc, zoneRun.pc # "idle",
         zoneRun'.subs = zoneRun.subs, zoneRun'.known = zoneRun.known,
         zoneRun'.delete = zoneRun.delete, zoneRun'.gone = zoneRun.gone,
         zoneRun'.retry # {} => zoneRun'.attempt < MaxThrottles,
         \A s \in Subs : Awaited(s) => s \in zoneRun'.pending \cup zoneRun'.retry \/ zoneRun'.failed,
         faults' \in 0 .. MaxFaults,
         UNCHANGED <<zoneScope, shown, fragments, mapping, lost, moves>>
  PROVE  ZoneInv'
<1> USE DEF ZoneInv
<1>1. ZoneTypeOK'
  BY DEF ZoneTypeOK
<1>2. KnownShown' /\ KnownCaptured' /\ GapsByTornRuns' /\ RunShape'
  BY DEF KnownShown, KnownCaptured, GapsByTornRuns, RunShape
<1>3. FragmentsKnown' /\ FragmentsLost'
  BY DEF FragmentsKnown, FragmentsLost
<1>4. \A s \in zoneRun.subs : Awaited(s) => Awaited(s)'
  BY DEF Awaited, ZoneTypeOK, ZoneRun
<1>5. RunKnown' /\ RunLost'
  BY <1>4 DEF RunKnown, RunLost
<1> QED BY <1>1, <1>2, <1>3, <1>5

LEMMA PutOffInv == ASSUME ZoneInv, NEW s \in Subs, FetchPutOff(s) PROVE ZoneInv'
<1>0. /\ zoneRun \in ZoneRun /\ zoneRun.pc = "refresh" /\ faults' \in 0 .. MaxFaults
      /\ zoneRun.retry # {} => zoneRun.attempt < MaxThrottles
      /\ UNCHANGED <<zoneScope, shown, fragments, mapping, lost, moves>>
  BY ZoneAssumption DEF ZoneInv, ZoneTypeOK, FetchPutOff, Fetching, ZoneFault, RunShape
<1>1. CASE zoneRun.attempt < MaxThrottles
  <2>1. zoneRun.failed \in BOOLEAN /\ zoneRun.attempt \in 0 .. MaxThrottles
    BY <1>0 DEF ZoneRun
  <2>2. zoneRun' = [zoneRun EXCEPT !.pending = @ \ {s}, !.retry = @ \cup {s}, !.failed = @]
    <3>1. (zoneRun.failed \/ zoneRun.attempt >= MaxThrottles) = zoneRun.failed
      BY <2>1, <1>1, ZoneAssumption
    <3> QED BY <1>1, <3>1 DEF FetchPutOff
  <2>3. /\ zoneRun' \in ZoneRun /\ zoneRun'.pc = zoneRun.pc /\ zoneRun'.subs = zoneRun.subs
        /\ zoneRun'.known = zoneRun.known /\ zoneRun'.delete = zoneRun.delete
        /\ zoneRun'.gone = zoneRun.gone /\ zoneRun'.attempt = zoneRun.attempt
        /\ zoneRun'.pending = zoneRun.pending \ {s} /\ zoneRun'.retry = zoneRun.retry \cup {s}
        /\ zoneRun'.failed = zoneRun.failed
    BY <1>0, <2>2 DEF ZoneRun
  <2> QED BY <1>0, <1>1, <2>3, MovedInv DEF Awaited
<1>2. CASE ~(zoneRun.attempt < MaxThrottles)
  <2>1. zoneRun.retry = {} /\ zoneRun.attempt \in 0 .. MaxThrottles
    BY <1>0, <1>2 DEF ZoneRun
  <2>2. zoneRun' = [zoneRun EXCEPT !.pending = @ \ {s}, !.retry = @, !.failed = TRUE]
    <3>1. (zoneRun.failed \/ zoneRun.attempt >= MaxThrottles) = TRUE
      BY <2>1, <1>2, ZoneAssumption
    <3> QED BY <1>2, <3>1 DEF FetchPutOff
  <2>3. /\ zoneRun' \in ZoneRun /\ zoneRun'.pc = zoneRun.pc /\ zoneRun'.subs = zoneRun.subs
        /\ zoneRun'.known = zoneRun.known /\ zoneRun'.delete = zoneRun.delete
        /\ zoneRun'.gone = zoneRun.gone /\ zoneRun'.retry = {} /\ zoneRun'.failed
    BY <2>1, <1>0, <2>2 DEF ZoneRun
  <2> QED BY <1>0, <2>3, MovedInv
<1> QED BY <1>1, <1>2

LEMMA FailsInv == ASSUME ZoneInv, NEW s \in Subs, FetchFails(s) PROVE ZoneInv'
<1>1. /\ zoneRun \in ZoneRun /\ zoneRun.pc = "refresh" /\ faults' \in 0 .. MaxFaults
      /\ zoneRun' = [zoneRun EXCEPT !.pending = @ \ {s}, !.failed = TRUE]
      /\ zoneRun.retry # {} => zoneRun.attempt < MaxThrottles
      /\ UNCHANGED <<zoneScope, shown, fragments, mapping, lost, moves>>
  BY ZoneAssumption DEF ZoneInv, ZoneTypeOK, FetchFails, Fetching, Failed, ZoneFault, RunShape
<1>2. /\ zoneRun' \in ZoneRun /\ zoneRun'.pc = zoneRun.pc /\ zoneRun'.subs = zoneRun.subs
      /\ zoneRun'.known = zoneRun.known /\ zoneRun'.delete = zoneRun.delete
      /\ zoneRun'.gone = zoneRun.gone /\ zoneRun'.retry = zoneRun.retry
      /\ zoneRun'.attempt = zoneRun.attempt /\ zoneRun'.failed
  BY <1>1 DEF ZoneRun
<1> QED BY <1>1, <1>2, MovedInv

LEMMA RetryInv == ASSUME ZoneInv, RetryCohort PROVE ZoneInv'
<1>1. /\ zoneRun \in ZoneRun /\ zoneRun.pc = "refresh" /\ zoneRun.pending = {}
      /\ zoneRun.attempt \in 0 .. MaxThrottles /\ zoneRun.attempt < MaxThrottles
      /\ zoneRun' = [zoneRun EXCEPT !.pending = zoneRun.retry, !.retry = {}, !.attempt = @ + 1]
      /\ faults' \in 0 .. MaxFaults
      /\ UNCHANGED <<zoneScope, shown, fragments, mapping, lost, moves>>
  BY DEF ZoneInv, ZoneTypeOK, ZoneRun, RetryCohort, WaveEnds, RunShape
<1>2. zoneRun.attempt + 1 \in 0 .. MaxThrottles
  BY <1>1, ZoneAssumption
<1>3. /\ zoneRun' \in ZoneRun /\ zoneRun'.pc = zoneRun.pc /\ zoneRun'.subs = zoneRun.subs
      /\ zoneRun'.known = zoneRun.known /\ zoneRun'.delete = zoneRun.delete
      /\ zoneRun'.gone = zoneRun.gone /\ zoneRun'.retry = {}
      /\ zoneRun'.pending = zoneRun.retry /\ zoneRun'.failed = zoneRun.failed
  BY <1>1, <1>2 DEF ZoneRun
<1> QED BY <1>1, <1>3, MovedInv DEF Awaited

(***************************************************************************)
(* How runs end.                                                           *)
(***************************************************************************)
LEMMA IdleStep == ASSUME zoneRun' = ZoneIdle
  PROVE /\ zoneRun' \in ZoneRun /\ zoneRun'.subs = {} /\ zoneRun'.gone = {}
        /\ zoneRun'.known = {} /\ RunShape' /\ RunKnown' /\ RunLost'
BY IdleShape, IdleIsRun DEF RunShape, RunKnown, RunLost

LEMMA WriteInv == ASSUME ZoneInv, WriteState PROVE ZoneInv'
<1> USE DEF ZoneInv
<1>1. /\ zoneRun.pending = {} /\ zoneRun.retry = {} /\ ~zoneRun.failed
      /\ mapping' = [subs |-> zoneRun.subs, known |-> zoneRun.known, maps |-> fragments]
      /\ lost' = {s \in lost : fragments[s] = {}} /\ zoneRun' = ZoneIdle
      /\ UNCHANGED <<zoneScope, shown, fragments, moves, faults>>
  BY DEF WriteState, WaveEnds
<1>2. \A s \in zoneRun.subs : ~Awaited(s)
  BY <1>1 DEF Awaited
<1>3. \A s \in zoneRun.subs : /\ fragments[s] # {} => zoneRun.known \subseteq fragments[s]
                              /\ fragments[s] = {} => s \in lost
  BY <1>2 DEF RunKnown, RunLost
<1>4. ZoneTypeOK'
  BY <1>1, IdleStep DEF ZoneTypeOK, ZoneRun
<1>6. /\ mapping'.subs = zoneRun.subs /\ mapping'.known = zoneRun.known /\ mapping'.maps = fragments
      /\ fragments' = fragments /\ shown' = shown
      /\ \A s \in zoneRun.subs : fragments[s] = {} => s \in lost'
  BY <1>1, <1>3
<1>7. KnownShown'
  BY <1>1, <1>6, IdleStep DEF KnownShown
<1>5. KnownCaptured' /\ GapsByTornRuns' /\ FragmentsKnown' /\ FragmentsLost'
  BY <1>3, <1>6 DEF KnownCaptured, GapsByTornRuns, FragmentsKnown, FragmentsLost
<1> QED BY <1>1, <1>4, <1>5, <1>7, IdleStep

LEMMA UnpublishedInv == ASSUME ZoneInv, EndsUnpublished, faults' \in 0 .. MaxFaults PROVE ZoneInv'
<1> USE DEF ZoneInv
<1>1. /\ zoneRun' = ZoneIdle /\ lost' = lost \cup zoneRun.gone
      /\ UNCHANGED <<zoneScope, shown, fragments, mapping, moves>>
  BY DEF EndsUnpublished
<1>2. ZoneTypeOK'
  BY <1>1, IdleStep DEF ZoneTypeOK, ZoneRun
<1>3. KnownShown' /\ KnownCaptured' /\ GapsByTornRuns' /\ FragmentsKnown' /\ FragmentsLost'
  BY <1>1, IdleStep DEF KnownShown, KnownCaptured, GapsByTornRuns, FragmentsKnown, FragmentsLost
<1> QED BY <1>1, <1>2, <1>3, IdleStep

(***************************************************************************)
(* The flush: it covers nothing, and what it deletes of the fragments is   *)
(* lost until the snapshot has gone too.                                   *)
(***************************************************************************)
LEMMA ZoneFlushBeginsInv == ASSUME ZoneInv, ZoneFlushBegins PROVE ZoneInv'
<1>1. /\ zoneRun = ZoneIdle /\ zoneRun.gone = {} /\ zoneRun.subs = {} /\ zoneRun \in ZoneRun
      /\ zoneRun.retry = {} /\ zoneRun.known = {}
  BY IdleShape, IdleIsRun DEF ZoneFlushBegins, ZoneInv, RunShape
<1>2. /\ zoneRun' = [zoneRun EXCEPT !.pc = "flush", !.delete = {s \in Subs : fragments[s] # {}}]
      /\ UNCHANGED <<zoneScope, shown, fragments, mapping, lost, moves>>
  BY <1>1 DEF ZoneFlushBegins
<1>3. /\ zoneRun'.pc = "flush" /\ zoneRun'.subs = {} /\ zoneRun'.gone = {}
      /\ zoneRun'.retry = {} /\ zoneRun'.known = {} /\ zoneRun' \in ZoneRun
      /\ UNCHANGED <<zoneScope, shown, fragments, mapping, lost, moves>>
  BY <1>1, <1>2 DEF ZoneRun
<1>4. faults' \in 0 .. MaxFaults
  BY ZoneAssumption DEF ZoneInv, ZoneTypeOK, ZoneFlushBegins, ZoneFault
<1> USE DEF ZoneInv
<1>5. ZoneTypeOK'
  BY <1>3, <1>4 DEF ZoneTypeOK
<1>6. KnownShown' /\ KnownCaptured' /\ GapsByTornRuns' /\ FragmentsKnown' /\ FragmentsLost'
  BY <1>1, <1>3 DEF KnownShown, KnownCaptured, GapsByTornRuns, FragmentsKnown, FragmentsLost
<1>7. RunShape' /\ RunKnown' /\ RunLost'
  BY <1>3 DEF RunShape, RunKnown, RunLost
<1> QED BY <1>5, <1>6, <1>7

LEMMA ZoneFlushDeletesInv == ASSUME ZoneInv, ZoneFlushDeletes PROVE ZoneInv'
<1> USE DEF ZoneInv
<1>1. /\ mapping' = NoMapping /\ mapping'.subs = {} /\ mapping'.known = {}
      /\ UNCHANGED <<zoneScope, shown, fragments, zoneRun, lost, moves, faults>>
  BY DEF ZoneFlushDeletes, NoMapping
<1>2. ZoneTypeOK'
  BY <1>1, IdleIsRun DEF ZoneTypeOK
<1>3. KnownShown' /\ KnownCaptured' /\ GapsByTornRuns' /\ FragmentsKnown' /\ FragmentsLost'
  BY <1>1 DEF KnownShown, KnownCaptured, GapsByTornRuns, FragmentsKnown, FragmentsLost
<1>4. RunShape' /\ RunKnown' /\ RunLost'
  BY <1>1 DEF RunShape, RunKnown, RunLost, Awaited
<1> QED BY <1>2, <1>3, <1>4

LEMMA ZoneFlushEndsInv == ASSUME ZoneInv, ZoneFlushEnds PROVE ZoneInv'
<1> USE DEF ZoneInv
<1>1. /\ zoneRun' = ZoneIdle /\ lost' = {} /\ mapping.subs = {}
      /\ UNCHANGED <<zoneScope, shown, fragments, mapping, moves, faults>>
  BY DEF ZoneFlushEnds, NoMapping
<1>2. ZoneTypeOK'
  BY <1>1, IdleStep DEF ZoneTypeOK
<1>3. KnownShown' /\ KnownCaptured' /\ GapsByTornRuns' /\ FragmentsKnown' /\ FragmentsLost'
  BY <1>1, IdleStep DEF KnownShown, KnownCaptured, GapsByTornRuns, FragmentsKnown, FragmentsLost
<1> QED BY <1>1, <1>2, <1>3, IdleStep

(***************************************************************************)
(* What goes on around the pipeline.                                       *)
(***************************************************************************)
LEMMA ScopeInv == ASSUME ZoneInv, ScopeChanges PROVE ZoneInv'
<1> USE DEF ZoneInv
<1>1. /\ zoneScope' \in SUBSET Subs /\ moves' \in 0 .. MaxMoves
      /\ UNCHANGED <<shown, fragments, mapping, zoneRun, lost, faults>>
  BY ZoneAssumption DEF ScopeChanges, ZoneTypeOK
<1>2. ZoneTypeOK'
  BY <1>1 DEF ZoneTypeOK
<1>3. KnownShown' /\ KnownCaptured' /\ GapsByTornRuns' /\ FragmentsKnown' /\ FragmentsLost'
  BY <1>1 DEF KnownShown, KnownCaptured, GapsByTornRuns, FragmentsKnown, FragmentsLost
<1>4. RunShape' /\ RunKnown' /\ RunLost'
  BY <1>1 DEF RunShape, RunKnown, RunLost, Awaited
<1> QED BY <1>2, <1>3, <1>4

LEMMA RegionInv == ASSUME ZoneInv, RegionOpens PROVE ZoneInv'
<1> USE DEF ZoneInv
<1>1. /\ shown' \in SUBSET Regions /\ shown \subseteq shown'
      /\ UNCHANGED <<zoneScope, fragments, mapping, zoneRun, lost, moves, faults>>
  BY DEF RegionOpens, ZoneTypeOK
<1>2. ZoneTypeOK'
  BY <1>1 DEF ZoneTypeOK
<1>3. KnownShown' /\ KnownCaptured' /\ GapsByTornRuns' /\ FragmentsKnown' /\ FragmentsLost'
  BY <1>1 DEF KnownShown, KnownCaptured, GapsByTornRuns, FragmentsKnown, FragmentsLost
<1>4. RunShape' /\ RunKnown' /\ RunLost'
  BY <1>1 DEF RunShape, RunKnown, RunLost, Awaited
<1> QED BY <1>2, <1>3, <1>4

LEMMA ZoneIdleInv == ASSUME ZoneInv, UNCHANGED zoneVars PROVE ZoneInv'
BY DEF ZoneInv, zoneVars, ZoneTypeOK, KnownShown, RunShape, FragmentsKnown, FragmentsLost,
       RunKnown, RunLost, Awaited, KnownCaptured, GapsByTornRuns

-------------------------------------------------------------------------------
LEMMA ZoneStepInv == ASSUME ZoneInv, [ZoneNext]_zoneVars PROVE ZoneInv'
<1>1. CASE EndsPartial
  <2>1. EndsUnpublished /\ faults' \in 0 .. MaxFaults
    BY <1>1 DEF EndsPartial, ZoneInv, ZoneTypeOK
  <2> QED BY <2>1, UnpublishedInv
<1>2. CASE RunDies
  <2>1. EndsUnpublished /\ faults' \in 0 .. MaxFaults
    BY <1>2, ZoneAssumption DEF RunDies, ZoneFault, ZoneInv, ZoneTypeOK
  <2> QED BY <2>1, UnpublishedInv
<1>3. ASSUME NEW s \in Subs, FetchSubscription(s) \/ FetchPutOff(s) \/ FetchFails(s) PROVE ZoneInv'
  BY <1>3, FetchInv, PutOffInv, FailsInv
<1> QED BY <1>1, <1>2, <1>3, PlanInv, DeleteInv, RetryInv, WriteInv, ZoneFlushBeginsInv, ZoneFlushDeletesInv,
           ZoneFlushEndsInv, ScopeInv, RegionInv, ZoneIdleInv DEF ZoneNext

LEMMA ZoneInvariant == ZoneSpec => []ZoneInv
<1>1. ZoneInv /\ [ZoneNext]_zoneVars => ZoneInv'
  BY ZoneStepInv
<1> QED BY <1>1, ZoneInitInv, PTL DEF ZoneSpec

\* The state of the pipeline keeps its types, whatever is throttled, fails or moves
THEOREM ZoneTypeCorrect == ZoneSpec => []ZoneTypeOK
BY ZoneInvariant, PTL DEF ZoneInv

\* zone_mapping.py 62-79: every mapped subscription of a snapshot is mapped for
\* every region the snapshot knows; a refresh that only adds subscriptions can
\* rely on it for those it does not fetch
THEOREM KnownIsCaptured == ZoneSpec => []KnownCaptured
BY ZoneInvariant, PTL DEF ZoneInv

\* zone_mapping_bp.py 38-94: only runs that deleted fragments and then published
\* nothing leave a covered subscription without its mappings
THEOREM GapsAreByTornRuns == ZoneSpec => []GapsByTornRuns
BY ZoneInvariant, PTL DEF ZoneInv

===============================================================================
