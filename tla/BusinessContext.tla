-------------------------- MODULE BusinessContext --------------------------
(***************************************************************************)
(* Business Context: admin-defined fields of a subscription (services/     *)
(* subscription_context.py over storage/subscription_context_store.py).    *)
(* A field's definition is a table row guarded by an ETag, its mapping a   *)
(* source blob; saving, deleting or refreshing fields makes a generation   *)
(* (one snapshot blob of all fields) and points the manifest blob at it.   *)
(* All that writes holds one blob lease, which lives at most 60 seconds    *)
(* unless renewed.  Readers hold nothing: they compare the manifest's ETag *)
(* with the one their process caches and load what is missing.             *)
(*                                                                         *)
(* A mapping's values are left out: a source blob stands for its mapping.  *)
(* A row is its revision, the kind of its value source and the writer that *)
(* named its source blob, sources/<field>/<revision>-<writer>.  Field      *)
(* names are left out: nothing but the check for a duplicate reads them.   *)
(***************************************************************************)
EXTENDS Integers, FiniteSets

CONSTANTS
    Fields,     \* field keys
    Kinds,      \* what admins make of a field
    Workers,    \* threads that carry out operations
    Local,      \* those of the process whose cache is modelled
    Readers,    \* requests of that process that resolve fields
    Refreshes,  \* instance ids of refresh orchestrations
    Scheduled,  \* those the timer started
    Flushes,    \* instance ids of flush orchestrations
    Saved,      \* fields saved before the behaviour starts
    MaxTries,   \* max_attempts of the orchestrators
    MaxRev,     \* bound: revisions of a field
    MaxOps,     \* bound: operations that get the lease
    None        \* no row, no blob, nobody

Runs == Refreshes \cup Flushes

\* A generation is named by the instance id of its refresh or by a fresh uuid,
\* for which the number of the operation stands: one is never the other
ASSUME ContextAssumption ==
    /\ Kinds \subseteq {"manual", "dynamic", "disabled"}
    /\ Local \subseteq Workers /\ Scheduled \subseteq Refreshes
    /\ Refreshes \cap Flushes = {}
    /\ Refreshes \cap (0 .. MaxOps) = {}
    /\ Saved \subseteq Fields /\ IsFiniteSet(Fields)
    /\ None \notin Workers \cup Fields \cup Runs
    /\ MaxTries \in Nat \ {0}
    /\ MaxRev \in Nat \ {0} /\ MaxOps \in Nat

VARIABLES
    table,      \* the definition row of each field
    etags,      \* for each field, the workers whose ETag is still the row's
    sources,    \* source blobs: field, revision, writer
    snapshots,  \* snapshot blobs by generation
    manifest,   \* the generation current.json names, and its own ETag
    lease,      \* who the lease locks/operation was given to
    cache,      \* _cached_manifest_etag and _cached_snapshot
    pc, job,    \* where each worker is, and what its operation knows
    run,        \* the orchestrations
    read,       \* the reads under way
    ops,        \* operations that got the lease so far
    overlap     \* has a holder worked on after its lease ran out?
                \* (read by the properties only)

blobs == <<sources, snapshots, manifest>>
vars == <<table, etags, blobs, lease, cache, pc, job, run, read, ops, overlap>>

----------------------------------------------------------------------------
Writers == 0 .. MaxOps \cup Refreshes
Row == [rev : 1 .. MaxRev, kind : {"manual", "dynamic", "disabled"}, by : Writers]
Source(f, row) == <<f, row.rev, row.by>>

Definitions == [Fields -> Row \cup {None}]
NoRows == [f \in Fields |-> None]
Revision(row) == IF row = None THEN 0 ELSE row.rev

(* Who made a snapshot tells two snapshots of one generation apart: a      *)
(* refresh that is delivered again overwrites its own.                     *)
Snapshot == [fields : Definitions, made : 0 .. MaxOps]

Places == {"idle", "read", "list", "select", "check", "compare", "generate",
           "write", "remember", "clean", "flush"}

(* An operation: its number once it has the lease, the form of a save,     *)
(* the rows it read and the writes are checked against, the definitions to *)
(* publish, the rows still to write; for a flush the snapshots still to    *)
(* delete and whether there was a manifest.                                *)
Job == [op : {"save", "delete", "refresh", "flush"}, id : 0 .. MaxOps,
        run : Runs \cup {None}, field : Fields \cup {None},
        kind : Kinds \cup {None}, rev : 0 .. MaxRev - 1,
        base : Definitions, defs : Definitions,
        todo : SUBSET Fields, gens : SUBSET Writers, named : BOOLEAN]

NewJob(op, r, f) ==
    [op |-> op, id |-> 0, run |-> r, field |-> f, kind |-> None, rev |-> 0,
     base |-> NoRows, defs |-> NoRows, todo |-> {}, gens |-> {},
     named |-> FALSE]

Generation(j) == IF j.op = "refresh" THEN j.run ELSE j.id
Made(j) == [fields |-> j.defs, made |-> j.id]

Init ==
    LET rows == [f \in Fields |->
                    IF f \in Saved THEN [rev |-> 1, kind |-> "dynamic", by |-> 0]
                    ELSE None]
    IN  /\ table = rows
        /\ etags = [f \in Fields |-> {}]
        /\ sources = {Source(f, rows[f]) : f \in Saved}
        /\ snapshots = [g \in Writers |->
                           IF g = 0 /\ Saved # {}
                           THEN [fields |-> rows, made |-> 0] ELSE None]
        /\ manifest = IF Saved = {} THEN None ELSE [gen |-> 0, tag |-> 0]
        /\ lease = None
        /\ cache = None
        /\ pc = [w \in Workers |-> "idle"]
        /\ job = [w \in Workers |-> None]
        /\ run = [r \in Runs |-> [state |-> "due", tries |-> 0]]
        /\ read = [r \in Readers |-> None]
        /\ ops = 0
        /\ overlap = FALSE

----------------------------------------------------------------------------
(* The operation lease.  An admin's request that finds it taken answers    *)
(* 409 and nothing happened; an orchestrated one reports "transient".      *)

Goto(w, place) == pc' = [pc EXCEPT ![w] = place]

Acquire(w, j, place) ==
    /\ pc[w] = "idle"
    /\ lease = None /\ ops < MaxOps
    /\ lease' = w
    /\ ops' = ops + 1
    /\ job' = [job EXCEPT ![w] = [j EXCEPT !.id = ops + 1]]
    /\ Goto(w, place)

Tried(r) ==
    LET tries == run[r].tries + 1
    IN  [state |-> IF tries = MaxTries THEN "done" ELSE "due", tries |-> tries]

Ended(r) == [run[r] EXCEPT !.state = "done"]

(* The operation is over and the finally clause releases the lease, if it  *)
(* is still this worker's: one that ran out meanwhile is left alone.       *)
Leave(w, outcome) ==
    LET r == job[w].run
    IN  /\ lease' = IF lease = w THEN None ELSE lease
        /\ run' = IF r = None THEN run ELSE [run EXCEPT ![r] = outcome]
        /\ job' = [job EXCEPT ![w] = None]
        /\ etags' = [f \in Fields |-> etags[f] \ {w}]
        /\ Goto(w, "idle")

Finish(w) == Leave(w, Ended(job[w].run))

(* Any remote call can raise; the orchestrator does not repeat what raised.*)
Fails(w) ==
    /\ pc[w] # "idle"
    /\ Finish(w)
    /\ UNCHANGED <<table, blobs, cache, read, ops, overlap>>

----------------------------------------------------------------------------
(* Saving and deleting a field.                                            *)

(* A save names the revision its form was filled in from, 0 for a new      *)
(* field.  What _validate_save refuses does not begin: it ran before the   *)
(* lease, on rows that may be others by now, so it guards nothing here.    *)
SaveBegins(w, f, k, rev) ==
    /\ rev < MaxRev
    /\ Acquire(w, [NewJob("save", None, f) EXCEPT !.kind = k, !.rev = rev],
               "read")
    /\ UNCHANGED <<table, etags, blobs, cache, run, read, overlap>>

DeleteBegins(w, f) ==
    /\ Acquire(w, NewJob("delete", None, f), "read")
    /\ UNCHANGED <<table, etags, blobs, cache, run, read, overlap>>

Conflicts(w) == job[w].rev # Revision(table[job[w].field])

(* get_definition, the check of the revision, and for a save the upload of *)
(* its source under a fresh name.                                          *)
SaveReads(w) ==
    LET f   == job[w].field
        row == [rev |-> job[w].rev + 1, kind |-> job[w].kind, by |-> job[w].id]
    IN  /\ pc[w] = "read" /\ job[w].op = "save"
        /\ ~Conflicts(w)
        /\ sources' = sources \cup {Source(f, row)}
        /\ etags' = [etags EXCEPT ![f] = @ \cup {w}]
        /\ job' = [job EXCEPT ![w].base[f] = table[f], ![w].defs[f] = row,
                              ![w].todo = {f}]
        /\ Goto(w, "list")
        /\ UNCHANGED <<table, snapshots, manifest, lease, cache, run, read, ops,
                       overlap>>

DeleteReads(w) ==
    LET f == job[w].field
    IN  /\ pc[w] = "read" /\ job[w].op = "delete"
        /\ table[f] # None
        /\ etags' = [etags EXCEPT ![f] = @ \cup {w}]
        /\ job' = [job EXCEPT ![w].base[f] = table[f], ![w].todo = {f}]
        /\ Goto(w, "list")
        /\ UNCHANGED <<table, blobs, lease, cache, run, read, ops, overlap>>

(* A save from a stale form is refused; a delete finds nothing to do.      *)
NothingToDo(w) ==
    /\ pc[w] = "read"
    /\ IF job[w].op = "save" THEN Conflicts(w) ELSE table[job[w].field] = None
    /\ Finish(w)
    /\ UNCHANGED <<table, blobs, cache, read, ops, overlap>>

ListsNothing(w) ==
    /\ pc[w] = "list"
    /\ Goto(w, "generate")
    /\ UNCHANGED <<table, etags, blobs, lease, cache, job, run, read, ops, overlap>>

(* list_definitions: the other fields go into the generation as they are.  *)
Lists(w) ==
    LET f == job[w].field
    IN  /\ pc[w] = "list"
        /\ job' = [job EXCEPT ![w].defs = [table EXCEPT ![f] = job[w].defs[f]]]
        /\ Goto(w, "generate")
        /\ UNCHANGED <<table, etags, blobs, lease, cache, run, read, ops, overlap>>

----------------------------------------------------------------------------
(* One attempt of a refresh, and of a flush.                               *)

RunBegins(w, r) ==
    /\ run[r].state = "due"
    /\ IF r \in Refreshes
       THEN Acquire(w, NewJob("refresh", r, None), "select")
       ELSE Acquire(w, [NewJob("flush", r, None) EXCEPT
                          !.gens = {g \in Writers : snapshots[g] # None},
                          !.named = manifest # None], "flush")
    /\ run' = [run EXCEPT ![r].state = "running"]
    /\ UNCHANGED <<table, etags, blobs, cache, read, overlap>>

RunFindsLeaseTaken(r) ==
    /\ run[r].state = "due"
    /\ lease # None
    /\ run' = [run EXCEPT ![r] = Tried(r)]
    /\ UNCHANGED <<table, etags, blobs, lease, cache, pc, job, read, ops, overlap>>

Selected(r) ==
    {f \in Fields : /\ table[f] # None
                    /\ table[f].kind # "disabled"
                    /\ r \in Scheduled => table[f].kind = "dynamic"}

(* Definitions are listed, fields selected, the inventory loaded once, and *)
(* each mapping resolved: a dynamic one from the inventory, a manual one   *)
(* by reading its source again.  Without inventory another attempt is made *)
(* unless this is the last one; then the fields it concerns stay as they   *)
(* are.  todo: the fields with a new mapping.                              *)
RefreshSelects(w, inventory) ==
    LET r        == job[w].run
        selected == Selected(r)
        dynamic  == {f \in selected : table[f].kind = "dynamic"}
        lost     == IF inventory THEN {} ELSE dynamic
        unread   == {f \in selected \ dynamic : Source(f, table[f]) \notin sources}
        final    == run[r].tries = MaxTries - 1
    IN  /\ pc[w] = "select"
        /\ \/ /\ selected = {}
              /\ Finish(w)
           \/ /\ lost # {} /\ ~final
              /\ Leave(w, Tried(r))
           \/ /\ selected # {}
              /\ lost = {} \/ final
              /\ job' = [job EXCEPT
                           ![w].base = [f \in Fields |->
                               IF f \in selected THEN table[f] ELSE None],
                           ![w].todo = selected \ (lost \cup unread)]
              /\ Goto(w, "check")
              /\ UNCHANGED <<etags, lease, run>>
        /\ UNCHANGED <<table, blobs, cache, read, ops, overlap>>

(* _snapshot as publish_refresh_batch calls it: a manifest without its     *)
(* snapshot raises unless this process still has the snapshot in memory.   *)
Loadable(w) ==
    manifest # None /\ w \in Local =>
        \/ snapshots[manifest.gen] # None
        \/ cache # None /\ cache.tag = manifest.tag
NeverPublished(w) == FALSE

AlreadyPublished(w) == manifest # None /\ manifest.gen = job[w].run

RefreshChecks(w) ==
    /\ pc[w] = "check"
    /\ Loadable(w)
    /\ IF AlreadyPublished(w) THEN Finish(w)
       ELSE Goto(w, "compare") /\ UNCHANGED <<etags, lease, job, run>>
    /\ UNCHANGED <<table, blobs, cache, read, ops, overlap>>

(* Definitions are listed again and every revision compared; the new       *)
(* mappings are uploaded, over what an earlier delivery of this run left.  *)
RefreshCompares(w) ==
    LET j      == job[w]
        now    == [f \in Fields |-> IF f \in j.todo /\ table[f] # None
                                    THEN [table[f] EXCEPT !.by = j.run]
                                    ELSE table[f]]
    IN  /\ pc[w] = "compare"
        /\ \A f \in Fields :
              j.base[f] # None => Revision(table[f]) = j.base[f].rev
        /\ sources' = sources \cup {Source(f, now[f]) : f \in j.todo}
        /\ etags' = [f \in Fields |->
                        IF table[f] = None THEN etags[f] ELSE etags[f] \cup {w}]
        /\ job' = [job EXCEPT ![w].base = table, ![w].defs = now]
        /\ Goto(w, "generate")
        /\ UNCHANGED <<table, snapshots, manifest, lease, cache, run, read, ops,
                       overlap>>

(* flush_generated_data deletes the snapshots it listed one by one, then   *)
(* the manifest, and empties the cache of its own process.                 *)
FlushDropsSnapshot(w, g) ==
    /\ pc[w] = "flush"
    /\ g \in job[w].gens /\ snapshots[g] # None
    /\ snapshots' = [snapshots EXCEPT ![g] = None]
    /\ job' = [job EXCEPT ![w].gens = @ \ {g}]
    /\ UNCHANGED <<table, etags, sources, manifest, lease, cache, pc, run, read,
                   ops, overlap>>

FlushDropsManifest(w) ==
    /\ pc[w] = "flush" /\ job[w].gens = {}
    /\ job[w].named => manifest # None
    /\ manifest' = IF job[w].named THEN None ELSE manifest
    /\ cache' = IF w \in Local THEN None ELSE cache
    /\ Finish(w)
    /\ UNCHANGED <<table, sources, snapshots, read, ops, overlap>>

----------------------------------------------------------------------------
(* What every publication goes through.                                    *)

(* _write_generation reads the source of every field: one that is missing  *)
(* raises, whichever field the operation is about.                         *)
Generates(w) ==
    LET j == job[w]
    IN  /\ pc[w] = "generate"
        /\ \A f \in Fields :
              j.defs[f] # None => Source(f, j.defs[f]) \in sources
        /\ snapshots' = [snapshots EXCEPT ![Generation(j)] = Made(j)]
        /\ Goto(w, "write")
        /\ UNCHANGED <<table, etags, sources, manifest, lease, cache, job, run,
                       read, ops, overlap>>

MayOverwrite(w, f) == (job[w].base[f] = None) = (table[f] = None)

(* create_entity fails if there is a row; update_entity and delete_entity  *)
(* ask for the ETag that was read.                                         *)
MayWrite(w, f) ==
    IF job[w].base[f] = None THEN table[f] = None
    ELSE table[f] # None /\ w \in etags[f]

WritesDefinition(w, f) ==
    /\ pc[w] = "write" /\ f \in job[w].todo
    /\ MayWrite(w, f)
    /\ table' = [table EXCEPT ![f] = job[w].defs[f]]
    /\ etags' = [etags EXCEPT ![f] = {}]
    /\ job' = [job EXCEPT ![w].todo = @ \ {f}]
    /\ UNCHANGED <<blobs, lease, cache, pc, run, read, ops, overlap>>

(* The manifest is replaced whoever wrote it last.                         *)
Publishes(w) ==
    /\ pc[w] = "write" /\ job[w].todo = {}
    /\ manifest' = [gen |-> Generation(job[w]), tag |-> job[w].id]
    /\ Goto(w, "remember")
    /\ UNCHANGED <<table, etags, sources, snapshots, lease, cache, job, run,
                   read, ops, overlap>>

Remembers(w) ==
    /\ pc[w] = "remember"
    /\ cache' = IF w \in Local
                THEN [tag |-> job[w].id, snapshot |-> Made(job[w])] ELSE cache
    /\ IF job[w].op = "delete"
       THEN Goto(w, "clean") /\ UNCHANGED <<etags, lease, job, run>>
       ELSE Finish(w)
    /\ UNCHANGED <<table, blobs, read, ops, overlap>>

CleansByPrefix(w) ==
    /\ pc[w] = "clean"
    /\ sources' = {}
    /\ Finish(w)
    /\ UNCHANGED <<table, snapshots, manifest, cache, read, ops, overlap>>

(* The end of delete_definition: every source under the field's prefix.    *)
CleansSources(w) ==
    /\ pc[w] = "clean"
    /\ sources' = {s \in sources : s[1] # job[w].field}
    /\ Finish(w)
    /\ UNCHANGED <<table, snapshots, manifest, cache, read, ops, overlap>>

----------------------------------------------------------------------------
(* _snapshot as the readers call it, one remote call a step.               *)

Reading(r, place) == read[r] # None /\ read[r].at = place

(* get_blob_properties and the comparison with the cache.  Without a       *)
(* manifest, or if the cache has its ETag, the read is over: an empty      *)
(* answer or the cached snapshot.                                          *)
ReadsTag(r) ==
    /\ read[r] = None
    /\ manifest # None
    /\ cache # None => cache.tag # manifest.tag
    /\ read' = [read EXCEPT ![r] = [at |-> "manifest", tag |-> manifest.tag,
                                    gen |-> None, got |-> None]]
    /\ UNCHANGED <<table, etags, blobs, lease, cache, pc, job, run, ops, overlap>>

ReadsManifest(r) ==
    /\ Reading(r, "manifest")
    /\ read' = [read EXCEPT ![r] =
                  IF manifest = None THEN None
                  ELSE [@ EXCEPT !.at = "snapshot", !.gen = manifest.gen]]
    /\ UNCHANGED <<table, etags, blobs, lease, cache, pc, job, run, ops, overlap>>

ReadsSnapshot(r) ==
    LET found == snapshots[read[r].gen]
    IN  /\ Reading(r, "snapshot")
        /\ read' = [read EXCEPT ![r] =
                      IF found = None THEN None
                      ELSE [@ EXCEPT !.at = "loaded", !.got = found]]
        /\ UNCHANGED <<table, etags, blobs, lease, cache, pc, job, run, ops,
                       overlap>>
TagAfterLoad(r) == IF manifest = None THEN read[r].tag ELSE manifest.tag

KeptTag(r) == read[r].tag

KeepsSnapshot(r) ==
    /\ Reading(r, "loaded")
    /\ cache' = [tag |-> KeptTag(r), snapshot |-> read[r].got]
    /\ read' = [read EXCEPT ![r] = None]
    /\ UNCHANGED <<table, etags, blobs, lease, pc, job, run, ops, overlap>>

----------------------------------------------------------------------------
(* Faults.                                                                 *)

(* The renewing thread stops at its first error and nobody asks it, so a   *)
(* lease can end under a holder at work.                                   *)
LeaseExpires ==
    /\ lease # None
    /\ lease' = None
    /\ overlap' = (overlap \/ pc[lease] # "idle")
    /\ UNCHANGED <<table, etags, blobs, cache, pc, job, run, read, ops>>

(* A process dies with its threads and its memory.  The lease stays, and   *)
(* an activity it was running is delivered again.                          *)
Dies(process) ==
    LET cut == {job[w].run : w \in {v \in process : job[v] # None}} \ {None}
    IN  /\ pc' = [w \in Workers |-> IF w \in process THEN "idle" ELSE pc[w]]
        /\ job' = [w \in Workers |-> IF w \in process THEN None ELSE job[w]]
        /\ etags' = [f \in Fields |-> etags[f] \ process]
        /\ run' = [r \in Runs |-> IF r \in cut THEN [run[r] EXCEPT !.state = "due"]
                                  ELSE run[r]]
        /\ cache' = IF process = Local THEN None ELSE cache
        /\ read' = IF process = Local THEN [r \in Readers |-> None] ELSE read
        /\ UNCHANGED <<table, blobs, lease, ops, overlap>>

----------------------------------------------------------------------------
Works(w) ==
    \/ \E f \in Fields :
          \/ \E k \in Kinds, rev \in 0 .. MaxRev : SaveBegins(w, f, k, rev)
          \/ DeleteBegins(w, f)
          \/ WritesDefinition(w, f)
    \/ SaveReads(w) \/ DeleteReads(w) \/ NothingToDo(w) \/ Lists(w)
    \/ \E r \in Runs : RunBegins(w, r)
    \/ \E inventory \in BOOLEAN : RefreshSelects(w, inventory)
    \/ RefreshChecks(w) \/ RefreshCompares(w)
    \/ \E g \in Writers : FlushDropsSnapshot(w, g)
    \/ FlushDropsManifest(w)
    \/ Generates(w) \/ Publishes(w) \/ Remembers(w) \/ CleansSources(w)
    \/ Fails(w)

Reads(r) ==
    \/ ReadsTag(r) \/ ReadsManifest(r)
    \/ ReadsSnapshot(r) \/ KeepsSnapshot(r)

Next ==
    \/ \E w \in Workers : Works(w)
    \/ \E r \in Runs : RunFindsLeaseTaken(r)
    \/ \E r \in Readers : Reads(r)
    \/ LeaseExpires
    \/ Dies(Local) \/ \E w \in Workers \ Local : Dies({w})

Spec == Init /\ [][Next]_vars

----------------------------------------------------------------------------
(* Properties.                                                             *)

(* The state has the shape the code gives it.                              *)
TypeOK ==
    /\ table \in Definitions
    /\ etags \in [Fields -> SUBSET Workers]
    /\ sources \subseteq Fields \X (1 .. MaxRev) \X Writers
    /\ snapshots \in [Writers -> Snapshot \cup {None}]
    /\ manifest \in [gen : Writers, tag : 0 .. MaxOps] \cup {None}
    /\ lease \in Workers \cup {None}
    /\ cache \in [tag : 0 .. MaxOps, snapshot : Snapshot] \cup {None}
    /\ pc \in [Workers -> Places]
    /\ job \in [Workers -> Job \cup {None}]
    /\ run \in [Runs -> [state : {"due", "running", "done"}, tries : 0 .. MaxTries]]
    /\ read \in [Readers -> [at : {"manifest", "snapshot", "loaded"},
                             tag : 0 .. MaxOps, gen : Writers \cup {None},
                             got : Snapshot \cup {None}] \cup {None}]
    /\ ops \in 0 .. MaxOps
    /\ overlap \in BOOLEAN

(* Whatever the leases do, no write to a row undoes what its writer has    *)
(* not seen: the row it replaces or drops is the one it read, and if a     *)
(* form asked for it, at the revision the form was filled in from.         *)
NoLostEdit ==
    [][\A f \in Fields : table'[f] # table[f] =>
          \E w \in Workers :
             /\ pc[w] = "write" /\ f \in job[w].todo
             /\ job[w].base[f] = table[f]
             /\ job[w].op = "save" => job[w].rev = Revision(table[f])]_vars

(* As long as no holder outlives its lease, a manifest that changes points *)
(* to a snapshot of exactly the definitions in the table, also those that  *)
(* an earlier operation wrote and failed to publish.                       *)
PublishesAll ==
    [][~overlap /\ manifest' # manifest /\ manifest' # None
          => snapshots'[manifest'.gen].fields = table']_vars

(* As long as no holder outlives its lease, every definition has its       *)
(* source blob.  A missing one stops every later publication.              *)
SourcesExist ==
    ~overlap => \A f \in Fields :
                   table[f] # None => Source(f, table[f]) \in sources

(* As long as no holder outlives its lease, a read never answers with a    *)
(* generation older than the one that was current when it began: neither   *)
(* what it loaded, nor what the cache keeps for the ETag it compares.      *)
ReadsRecent ==
    ~overlap =>
        /\ \A r \in Readers :
              Reading(r, "loaded") => read[r].got.made >= read[r].tag
        /\ cache # None => cache.snapshot.made >= cache.tag

(* As long as no holder outlives its lease, a refresh delivered again      *)
(* after its generation became the current one does not publish again.     *)
RunPublishesOnce ==
    [][~overlap /\ manifest # None /\ manifest' # manifest /\ manifest' # None
          /\ manifest.gen \in Refreshes
          => manifest'.gen # manifest.gen]_vars
=============================================================================
