----------------------- MODULE BusinessContextProofs -----------------------
(***************************************************************************)
(* Proofs about BusinessContext: its types, which bound the attempts of an *)
(* orchestration, and that no edit is lost, whatever becomes of the leases;*)
(* and what is stored, published and read as long as no holder of a lease  *)
(* outlives it.                                                            *)
(***************************************************************************)
EXTENDS BusinessContext, TLAPS

----------------------------------------------------------------------------
(* What the types rest on.                                                 *)

(* An operation does only what belongs to it: the runs are those of the    *)
(* orchestrations, the fields those of admins' requests.                   *)
JobOK(j, place) ==
    /\ j \in Job
    /\ j.op = "refresh" => j.run \in Refreshes
    /\ place \in {"select", "check", "compare"} => j.op = "refresh"
    /\ place \in {"read", "list"} => j.op \in {"save", "delete"}
    /\ j.op \in {"save", "delete"} => j.field \in Fields /\ j.run = None
    /\ j.op = "save" => j.kind \in Kinds
    /\ place = "clean" => j.op = "delete"
    /\ place \in {"check", "compare"} => \A f \in j.todo : j.base[f] # None

Jobs ==
    \A w \in Workers : IF pc[w] = "idle" THEN job[w] = None
                        ELSE JobOK(job[w], pc[w])

(* An orchestration that goes on has an attempt left, and one worker.      *)
RunsGoOn == \A r \in Runs : run[r].state # "done" => run[r].tries < MaxTries

OneWorker ==
    \A w \in Workers :
        pc[w] # "idle" /\ job[w].run # None =>
            /\ run[job[w].run].state = "running"
            /\ \A v \in Workers \ {w} : pc[v] # "idle" => job[v].run # job[w].run

ReadsKnow ==
    \A r \in Readers :
        /\ Reading(r, "snapshot") => read[r].gen \in Writers
        /\ Reading(r, "loaded") => read[r].got \in Snapshot

TypeInv == TypeOK /\ Jobs /\ RunsGoOn /\ OneWorker /\ ReadsKnow

(* Any of a worker's steps ends in one of these ways: it moves to another  *)
(* place with its job, or leaves.                                          *)
LEMMA LeaveKeeps ==
  ASSUME TypeInv, NEW w \in Workers, pc[w] # "idle", NEW outcome,
         Leave(w, outcome),
         job[w].run # None =>
            /\ outcome \in [state : {"due", "running", "done"}, tries : 0 .. MaxTries]
            /\ outcome.state # "done" => outcome.tries < MaxTries
  PROVE  /\ etags' \in [Fields -> SUBSET Workers]
         /\ lease' \in Workers \cup {None}
         /\ pc' \in [Workers -> Places]
         /\ job' \in [Workers -> Job \cup {None}]
         /\ run' \in [Runs -> [state : {"due", "running", "done"}, tries : 0 .. MaxTries]]
         /\ Jobs' /\ RunsGoOn' /\ OneWorker'
<1> DEFINE r == job[w].run
<1>1. job[w] \in Job
  BY DEF TypeInv, Jobs, JobOK
<1>2. r # None => r \in Runs
  BY <1>1 DEF Job
<1>3. run' \in [Runs -> [state : {"due", "running", "done"}, tries : 0 .. MaxTries]]
  BY <1>2 DEF Leave, TypeInv, TypeOK
<1>4. pc' \in [Workers -> Places] /\ job' \in [Workers -> Job \cup {None}]
  BY DEF Leave, Goto, TypeInv, TypeOK, Places
<1>5. \A v \in Workers : pc'[v] # "idle" => v # w /\ pc'[v] = pc[v] /\ job'[v] = job[v]
  BY DEF Leave, Goto, TypeInv, TypeOK
<1>6. Jobs'
  <2>1. \A v \in Workers : pc'[v] = "idle" => job'[v] = None
    BY DEF Leave, Goto, TypeInv, TypeOK, Jobs
  <2> QED BY <1>5, <2>1 DEF Jobs, TypeInv
<1>7. RunsGoOn'
  BY <1>2, <1>3 DEF Leave, RunsGoOn, TypeInv, TypeOK
<1>8. OneWorker'
  <2> SUFFICES ASSUME NEW v \in Workers, pc'[v] # "idle", job'[v].run # None
               PROVE  /\ run'[job'[v].run].state = "running"
                      /\ \A u \in Workers \ {v} :
                            pc'[u] # "idle" => job'[u].run # job'[v].run
    BY DEF OneWorker
  <2>1. job[v].run # r
    BY <1>5 DEF OneWorker, TypeInv
  <2>2. job[v].run \in Runs
    BY <1>5 DEF TypeInv, Jobs, JobOK, Job
  <2>3. run'[job[v].run] = run[job[v].run]
    BY <2>1, <2>2 DEF Leave, TypeInv, TypeOK
  <2> QED BY <1>5, <2>3 DEF OneWorker, TypeInv
<1> QED BY <1>3, <1>4, <1>6, <1>7, <1>8 DEF Leave, TypeInv, TypeOK

LEMMA FinishKeeps ==
  ASSUME TypeInv, NEW w \in Workers, pc[w] # "idle", Finish(w)
  PROVE  /\ etags' \in [Fields -> SUBSET Workers]
         /\ lease' \in Workers \cup {None}
         /\ pc' \in [Workers -> Places]
         /\ job' \in [Workers -> Job \cup {None}]
         /\ run' \in [Runs -> [state : {"due", "running", "done"}, tries : 0 .. MaxTries]]
         /\ Jobs' /\ RunsGoOn' /\ OneWorker'
<1>1. job[w].run # None => job[w].run \in Runs
  BY DEF TypeInv, Jobs, JobOK, Job
<1>2. job[w].run # None =>
         /\ Ended(job[w].run) \in [state : {"due", "running", "done"}, tries : 0 .. MaxTries]
         /\ Ended(job[w].run).state = "done"
  BY <1>1 DEF Ended, TypeInv, TypeOK
<1> QED BY <1>2, LeaveKeeps DEF Finish

(* A step that keeps every worker's job, or changes the job and place of   *)
(* one but not its run.                                                    *)
LEMMA MoveKeeps ==
  ASSUME TypeInv, NEW w \in Workers, pc[w] # "idle", NEW place \in Places \ {"idle"},
         NEW j, JobOK(j, place), j.run = job[w].run,
         pc' = [pc EXCEPT ![w] = place], job' = [job EXCEPT ![w] = j], run' = run
  PROVE  /\ pc' \in [Workers -> Places]
         /\ job' \in [Workers -> Job \cup {None}]
         /\ run' \in [Runs -> [state : {"due", "running", "done"}, tries : 0 .. MaxTries]]
         /\ Jobs' /\ RunsGoOn' /\ OneWorker'
<1>1. j \in Job
  BY DEF JobOK
<1>2. pc' \in [Workers -> Places] /\ job' \in [Workers -> Job \cup {None}]
  BY <1>1 DEF TypeInv, TypeOK
<1>3. Jobs'
  BY DEF Jobs, TypeInv, TypeOK
<1>4. OneWorker'
  BY DEF OneWorker, TypeInv, TypeOK
<1> QED BY <1>2, <1>3, <1>4 DEF TypeInv, TypeOK, RunsGoOn

(* A worker that was idle takes the lease and starts a job.                *)
LEMMA AcquireKeeps ==
  ASSUME TypeInv, NEW w \in Workers, NEW j, NEW place \in Places \ {"idle"},
         Acquire(w, j, place), JobOK(j, place), j.run = None, run' = run
  PROVE  /\ lease' \in Workers \cup {None} /\ ops' \in 0 .. MaxOps
         /\ pc' \in [Workers -> Places]
         /\ job' \in [Workers -> Job \cup {None}]
         /\ Jobs' /\ RunsGoOn' /\ OneWorker'
<1> DEFINE k == [j EXCEPT !.id = ops + 1]
<1>1. ops + 1 \in 0 .. MaxOps
  BY ContextAssumption DEF Acquire, TypeInv, TypeOK
<1>2. k \in Job /\ JobOK(k, place) /\ k.run = None
  BY <1>1 DEF JobOK, Job
<1>3. job' = [job EXCEPT ![w] = k] /\ pc' = [pc EXCEPT ![w] = place] /\ pc[w] = "idle"
  BY DEF Acquire, Goto
<1>4. pc' \in [Workers -> Places] /\ job' \in [Workers -> Job \cup {None}]
  BY <1>2, <1>3 DEF TypeInv, TypeOK
<1>5. Jobs'
  BY <1>2, <1>3 DEF Jobs, TypeInv, TypeOK
<1>6. OneWorker'
  BY <1>2, <1>3 DEF OneWorker, TypeInv, TypeOK
<1> QED BY <1>1, <1>4, <1>5, <1>6 DEF Acquire, TypeInv, TypeOK, RunsGoOn
----------------------------------------------------------------------------
(* Types.                                                                  *)

LEMMA NumbersAreWriters ==
  /\ 0 \in 0 .. MaxOps /\ 0 .. MaxOps \subseteq Writers /\ Refreshes \subseteq Writers
  /\ 1 \in 1 .. MaxRev /\ 0 \in 0 .. MaxRev - 1
BY ContextAssumption DEF Writers

LEMMA NewJobType ==
  ASSUME NEW op \in {"save", "delete", "refresh", "flush"},
         NEW r \in Runs \cup {None}, NEW f \in Fields \cup {None}
  PROVE  NewJob(op, r, f) \in Job
BY NumbersAreWriters DEF NewJob, Job, NoRows, Definitions

LEMMA FlushJobType ==
  ASSUME NEW j \in Job, NEW gens \in SUBSET Writers, NEW named \in BOOLEAN
  PROVE  LET k == [j EXCEPT !.gens = gens, !.named = named]
         IN  k \in Job /\ k.op = j.op /\ k.run = j.run
BY DEF Job

LEMMA TypeInit == Init => TypeInv
<1> SUFFICES ASSUME Init PROVE TypeInv
  OBVIOUS
<1> USE NumbersAreWriters
<1>1. table \in Definitions
  BY DEF Init, Definitions, Row
<1>2. sources \subseteq Fields \X (1 .. MaxRev) \X Writers
  <2>1. \A f \in Saved :
           Source(f, table[f]) \in Fields \X (1 .. MaxRev) \X Writers
    <3> SUFFICES ASSUME NEW f \in Saved
                 PROVE  <<f, table[f].rev, table[f].by>>
                           \in Fields \X (1 .. MaxRev) \X Writers
      BY DEF Source
    <3>1. f \in Fields
      BY ContextAssumption
    <3>2. table[f] = [rev |-> 1, kind |-> "dynamic", by |-> 0]
      BY <3>1 DEF Init
    <3>3. table[f].rev = 1 /\ table[f].by = 0
      BY <3>2
    <3> QED BY <3>1, <3>3
  <2>2. sources = {Source(f, table[f]) : f \in Saved}
    BY DEF Init
  <2> QED BY <2>1, <2>2
<1>3. snapshots \in [Writers -> Snapshot \cup {None}]
  BY <1>1 DEF Init, Snapshot
<1>4. TypeOK
  <2>1. /\ run \in [Runs -> [state : {"due", "running", "done"}, tries : 0 .. MaxTries]]
        /\ ops \in 0 .. MaxOps
    BY ContextAssumption DEF Init
  <2>2. manifest \in [gen : Writers, tag : 0 .. MaxOps] \cup {None}
    BY DEF Init
  <2> QED BY <1>1, <1>2, <1>3, <2>1, <2>2 DEF Init, TypeOK, Places
<1>5. RunsGoOn
  BY ContextAssumption DEF Init, RunsGoOn
<1> QED BY <1>4, <1>5 DEF Init, TypeInv, Jobs, OneWorker, ReadsKnow, Reading

LEMMA FailsKeeps ==
  ASSUME TypeInv, NEW w \in Workers, Fails(w) PROVE TypeInv'
<1>1. pc[w] # "idle" /\ Finish(w)
  BY DEF Fails
<1> QED BY <1>1, FinishKeeps DEF Fails, TypeInv, TypeOK, ReadsKnow, Reading, blobs

LEMMA NothingToDoKeeps ==
  ASSUME TypeInv, NEW w \in Workers, NothingToDo(w) PROVE TypeInv'
<1>1. pc[w] # "idle" /\ Finish(w)
  BY DEF NothingToDo
<1> QED BY <1>1, FinishKeeps DEF NothingToDo, TypeInv, TypeOK, ReadsKnow, Reading, blobs

LEMMA SaveBeginsKeeps ==
  ASSUME TypeInv, NEW w \in Workers, NEW f \in Fields, NEW k \in Kinds,
         NEW rev \in 0 .. MaxRev, SaveBegins(w, f, k, rev)
  PROVE  TypeInv'
<1> DEFINE j == [NewJob("save", None, f) EXCEPT !.kind = k, !.rev = rev]
<1>1. rev \in 0 .. MaxRev - 1
  BY ContextAssumption DEF SaveBegins
<1>2. JobOK(j, "read") /\ j.run = None
  BY <1>1, NewJobType DEF JobOK, Job, NewJob
<1>3. Acquire(w, j, "read") /\ run' = run /\ "read" \in Places \ {"idle"}
  BY DEF SaveBegins, Places
<1> HIDE DEF j
<1> QED BY <1>2, <1>3, AcquireKeeps
        DEF SaveBegins, TypeInv, TypeOK, ReadsKnow, Reading, blobs

LEMMA DeleteBeginsKeeps ==
  ASSUME TypeInv, NEW w \in Workers, NEW f \in Fields, DeleteBegins(w, f)
  PROVE  TypeInv'
<1> DEFINE j == NewJob("delete", None, f)
<1>1. JobOK(j, "read") /\ j.run = None
  BY NewJobType DEF JobOK, NewJob
<1>2. Acquire(w, j, "read") /\ run' = run /\ "read" \in Places \ {"idle"}
  BY DEF DeleteBegins, Places
<1> HIDE DEF j
<1> QED BY <1>1, <1>2, AcquireKeeps
        DEF DeleteBegins, TypeInv, TypeOK, ReadsKnow, Reading, blobs

LEMMA SaveReadsKeeps ==
  ASSUME TypeInv, NEW w \in Workers, SaveReads(w) PROVE TypeInv'
<1> DEFINE f   == job[w].field
           row == [rev |-> job[w].rev + 1, kind |-> job[w].kind, by |-> job[w].id]
           j   == [job[w] EXCEPT !.base = [@ EXCEPT ![f] = table[f]],
                                 !.defs = [@ EXCEPT ![f] = row], !.todo = {f}]
<1>1. JobOK(job[w], "read") /\ job[w].op = "save" /\ f \in Fields /\ pc[w] = "read"
  BY DEF SaveReads, TypeInv, Jobs, JobOK
<1>2. row \in Row
  <2>1. job[w].rev \in 0 .. MaxRev - 1 /\ job[w].kind \in Kinds /\ job[w].id \in Writers
    BY <1>1, NumbersAreWriters DEF JobOK, Job
  <2>2. job[w].rev + 1 \in 1 .. MaxRev
    BY <2>1, ContextAssumption
  <2>3. job[w].kind \in {"manual", "dynamic", "disabled"}
    BY <2>1, ContextAssumption
  <2> QED BY <2>1, <2>2, <2>3 DEF Row
<1>3. table[f] \in Row \cup {None}
  BY <1>1 DEF TypeInv, TypeOK, Definitions
<1>4. /\ [job[w].base EXCEPT ![f] = table[f]] \in Definitions
      /\ [job[w].defs EXCEPT ![f] = row] \in Definitions
  BY <1>1, <1>2, <1>3 DEF JobOK, Job, Definitions
<1>5. JobOK(j, "list") /\ j.run = job[w].run
  BY <1>1, <1>4 DEF JobOK, Job
<1>6. job' = [job EXCEPT ![w] = j] /\ pc' = [pc EXCEPT ![w] = "list"] /\ run' = run
  BY DEF SaveReads, Goto
<1>7. sources' \subseteq Fields \X (1 .. MaxRev) \X Writers
  BY <1>1, <1>2 DEF SaveReads, Source, Row, TypeInv, TypeOK
<1>8. etags' \in [Fields -> SUBSET Workers]
  BY <1>1 DEF SaveReads, TypeInv, TypeOK
<1>9. "list" \in Places \ {"idle"}
  BY DEF Places
<1> HIDE DEF f, row, j
<1> QED BY <1>1, <1>5, <1>6, <1>7, <1>8, <1>9, MoveKeeps
        DEF SaveReads, TypeInv, TypeOK, ReadsKnow, Reading

LEMMA DeleteReadsKeeps ==
  ASSUME TypeInv, NEW w \in Workers, DeleteReads(w) PROVE TypeInv'
<1> DEFINE f == job[w].field
           j == [job[w] EXCEPT !.base = [@ EXCEPT ![f] = table[f]], !.todo = {f}]
<1>1. JobOK(job[w], "read") /\ job[w].op = "delete" /\ f \in Fields /\ pc[w] = "read"
  BY DEF DeleteReads, TypeInv, Jobs, JobOK
<1>2. [job[w].base EXCEPT ![f] = table[f]] \in Definitions
  BY <1>1 DEF JobOK, Job, TypeInv, TypeOK, Definitions
<1>3. JobOK(j, "list") /\ j.run = job[w].run
  BY <1>1, <1>2 DEF JobOK, Job
<1>4. job' = [job EXCEPT ![w] = j] /\ pc' = [pc EXCEPT ![w] = "list"] /\ run' = run
  BY DEF DeleteReads, Goto
<1>5. etags' \in [Fields -> SUBSET Workers]
  BY <1>1 DEF DeleteReads, TypeInv, TypeOK
<1>6. "list" \in Places \ {"idle"}
  BY DEF Places
<1> HIDE DEF f, j
<1> QED BY <1>1, <1>3, <1>4, <1>5, <1>6, MoveKeeps
        DEF DeleteReads, TypeInv, TypeOK, ReadsKnow, Reading, blobs

LEMMA ListsKeeps ==
  ASSUME TypeInv, NEW w \in Workers, Lists(w) PROVE TypeInv'
<1> DEFINE f == job[w].field
           j == [job[w] EXCEPT !.defs = [table EXCEPT ![f] = job[w].defs[f]]]
<1>1. JobOK(job[w], "list") /\ f \in Fields /\ pc[w] = "list"
  BY DEF Lists, TypeInv, Jobs, JobOK
<1>2. [table EXCEPT ![f] = job[w].defs[f]] \in Definitions
  BY <1>1 DEF JobOK, Job, TypeInv, TypeOK, Definitions
<1>3. JobOK(j, "generate") /\ j.run = job[w].run
  BY <1>1, <1>2 DEF JobOK, Job
<1>4. job' = [job EXCEPT ![w] = j] /\ pc' = [pc EXCEPT ![w] = "generate"] /\ run' = run
  BY DEF Lists, Goto
<1>5. "generate" \in Places \ {"idle"}
  BY DEF Places
<1> HIDE DEF f, j
<1> QED BY <1>1, <1>3, <1>4, <1>5, MoveKeeps
        DEF Lists, TypeInv, TypeOK, ReadsKnow, Reading, blobs


(* A run that is due, and whose attempts are counted on.                   *)
LEMMA TriedType ==
  ASSUME TypeInv, NEW r \in Runs, run[r].state # "done"
  PROVE  /\ Tried(r) \in [state : {"due", "running", "done"}, tries : 0 .. MaxTries]
         /\ Tried(r).state # "done" => Tried(r).tries < MaxTries
<1>1. run[r].tries \in 0 .. MaxTries /\ run[r].tries < MaxTries
  BY DEF TypeInv, TypeOK, RunsGoOn
<1>2. run[r].tries + 1 \in 0 .. MaxTries
  BY <1>1, ContextAssumption
<1> QED BY <1>1, <1>2, ContextAssumption DEF Tried

LEMMA RunStarts ==
  ASSUME TypeInv, NEW w \in Workers, NEW r \in Runs, RunBegins(w, r),
         NEW j, NEW place \in {"select", "flush"},
         Acquire(w, j, place), JobOK(j, place), j.run = r
  PROVE  TypeInv'
<1> DEFINE k == [j EXCEPT !.id = ops + 1]
<1>2. ops' = ops + 1 /\ ops' \in 0 .. MaxOps
  BY ContextAssumption DEF Acquire, TypeInv, TypeOK
<1>3. k \in Job /\ JobOK(k, place) /\ k.run = r
  BY <1>2 DEF JobOK, Job
<1>4. /\ job' = [job EXCEPT ![w] = k] /\ pc' = [pc EXCEPT ![w] = place]
      /\ pc[w] = "idle" /\ lease' = w
  BY DEF Acquire, Goto
<1> HIDE DEF k
<1>5. run[r].state = "due" /\ run' = [run EXCEPT ![r].state = "running"]
  BY DEF RunBegins
<1>6. place \in Places
  BY DEF Places
<1>7. /\ pc' \in [Workers -> Places] /\ job' \in [Workers -> Job \cup {None}]
      /\ run' \in [Runs -> [state : {"due", "running", "done"}, tries : 0 .. MaxTries]]
  BY <1>3, <1>4, <1>5, <1>6 DEF TypeInv, TypeOK
<1>8. Jobs'
  BY <1>3, <1>4 DEF Jobs, TypeInv, TypeOK
<1>9. RunsGoOn'
  BY <1>5 DEF RunsGoOn, TypeInv, TypeOK
<1>10. \A v \in Workers : pc[v] # "idle" => job[v].run # r
  <2> SUFFICES ASSUME NEW v \in Workers, pc[v] # "idle", job[v].run = r PROVE FALSE
    OBVIOUS
  <2>1. r # None
    BY ContextAssumption
  <2> QED BY <2>1, <1>5 DEF OneWorker, TypeInv
<1>11. OneWorker'
  <2> SUFFICES ASSUME NEW v \in Workers, pc'[v] # "idle", job'[v].run # None
               PROVE  /\ run'[job'[v].run].state = "running"
                      /\ \A u \in Workers \ {v} :
                            pc'[u] # "idle" => job'[u].run # job'[v].run
    BY DEF OneWorker
  <2>1. \A u \in Workers \ {w} : pc'[u] = pc[u] /\ job'[u] = job[u]
    BY <1>4 DEF TypeInv, TypeOK
  <2>2. job'[w] = k
    BY <1>4 DEF TypeInv, TypeOK
  <2>3. CASE v = w
    BY <2>1, <2>2, <2>3, <1>3, <1>5, <1>10 DEF TypeInv, TypeOK
  <2>4. CASE v # w
    <3>1. job[v].run \in Runs /\ job[v].run # r
      BY <2>1, <2>4, <1>10 DEF TypeInv, Jobs, JobOK, Job
    <3>2. run'[job[v].run] = run[job[v].run]
      BY <3>1, <1>5 DEF TypeInv, TypeOK
    <3> QED BY <2>1, <2>2, <2>4, <3>1, <3>2, <1>3 DEF OneWorker, TypeInv
  <2> QED BY <2>3, <2>4
<1> QED BY <1>2, <1>4, <1>7, <1>8, <1>9, <1>11
        DEF RunBegins, TypeInv, TypeOK, ReadsKnow, Reading, blobs

LEMMA RunBeginsKeeps ==
  ASSUME TypeInv, NEW w \in Workers, NEW r \in Runs, RunBegins(w, r)
  PROVE  TypeInv'
<1>1. CASE r \in Refreshes
  <2> DEFINE j == NewJob("refresh", r, None)
  <2>1. JobOK(j, "select") /\ j.run = r
    BY <1>1, NewJobType DEF JobOK, NewJob
  <2>2. Acquire(w, j, "select")
    BY <1>1 DEF RunBegins
  <2> HIDE DEF j
  <2> QED BY <2>1, <2>2, RunStarts
<1>2. CASE r \notin Refreshes
  <2> DEFINE gens  == {g \in Writers : snapshots[g] # None}
             named == manifest # None
             j     == [NewJob("flush", r, None) EXCEPT !.gens = gens, !.named = named]
  <2>0. gens \in SUBSET Writers /\ named \in BOOLEAN
    OBVIOUS
  <2>1. JobOK(j, "flush") /\ j.run = r
    <3>1. NewJob("flush", r, None) \in Job
      BY NewJobType
    <3>2. NewJob("flush", r, None).op = "flush" /\ NewJob("flush", r, None).run = r
      BY DEF NewJob
    <3> HIDE DEF gens, named
    <3>3. j \in Job /\ j.op = "flush" /\ j.run = r
      BY <2>0, <3>1, <3>2, FlushJobType
    <3> QED BY <3>3 DEF JobOK
  <2>2. Acquire(w, j, "flush")
    BY <1>2 DEF RunBegins
  <2> HIDE DEF j
  <2> QED BY <2>1, <2>2, RunStarts
<1> QED BY <1>1, <1>2

LEMMA RunFindsLeaseTakenKeeps ==
  ASSUME TypeInv, NEW r \in Runs, RunFindsLeaseTaken(r) PROVE TypeInv'
<1>1. run[r].state = "due" /\ run' = [run EXCEPT ![r] = Tried(r)]
  BY DEF RunFindsLeaseTaken
<1>2. /\ run' \in [Runs -> [state : {"due", "running", "done"}, tries : 0 .. MaxTries]]
      /\ RunsGoOn'
  BY <1>1, TriedType DEF TypeInv, TypeOK, RunsGoOn
<1>3. OneWorker'
  <2> SUFFICES ASSUME NEW w \in Workers, pc[w] # "idle", job[w].run # None
               PROVE  run'[job[w].run].state = "running"
    BY DEF OneWorker, TypeInv, RunFindsLeaseTaken
  <2>1. job[w].run \in Runs /\ run[job[w].run].state = "running"
    BY DEF TypeInv, Jobs, JobOK, Job, OneWorker
  <2> QED BY <2>1, <1>1 DEF TypeInv, TypeOK
<1> QED BY <1>2, <1>3
        DEF RunFindsLeaseTaken, TypeInv, TypeOK, Jobs, ReadsKnow, Reading, blobs

LEMMA RefreshSelectsKeeps ==
  ASSUME TypeInv, NEW w \in Workers, NEW inventory \in BOOLEAN,
         RefreshSelects(w, inventory)
  PROVE  TypeInv'
<1> DEFINE r        == job[w].run
           selected == Selected(r)
           dynamic  == {f \in selected : table[f].kind = "dynamic"}
           lost     == IF inventory THEN {} ELSE dynamic
           unread   == {f \in selected \ dynamic : Source(f, table[f]) \notin sources}
           base     == [f \in Fields |-> IF f \in selected THEN table[f] ELSE None]
           j        == [job[w] EXCEPT !.base = base, !.todo = selected \ (lost \cup unread)]
<1>1. /\ JobOK(job[w], "select") /\ job[w].op = "refresh" /\ pc[w] = "select"
      /\ r \in Refreshes /\ r \in Runs /\ r # None
  BY ContextAssumption DEF RefreshSelects, TypeInv, Jobs, JobOK, Runs
<1>2. run[r].state = "running"
  BY <1>1 DEF TypeInv, OneWorker
<1>3. CASE Finish(w)
  BY <1>1, <1>3, FinishKeeps
     DEF RefreshSelects, TypeInv, TypeOK, ReadsKnow, Reading, blobs
<1>4. CASE Leave(w, Tried(r))
  BY <1>1, <1>2, <1>4, TriedType, LeaveKeeps
     DEF RefreshSelects, TypeInv, TypeOK, ReadsKnow, Reading, blobs
<1>5. CASE /\ job' = [job EXCEPT ![w] = j]
           /\ Goto(w, "check")
           /\ UNCHANGED <<etags, lease, run>>
  <2>1. base \in Definitions
    BY DEF TypeInv, TypeOK, Definitions
  <2>2. selected \subseteq Fields /\ \A f \in selected : table[f] # None
    BY DEF Selected
  <2>3. JobOK(j, "check") /\ j.run = r
    <3>1. \A f \in selected : base[f] # None
      BY <2>2
    <3> HIDE DEF base, selected, lost, unread
    <3> QED BY <1>1, <2>1, <2>2, <3>1 DEF JobOK, Job
  <2>4. "check" \in Places \ {"idle"}
    BY DEF Places
  <2> HIDE DEF j
  <2> QED BY <1>1, <1>5, <2>3, <2>4, MoveKeeps
          DEF RefreshSelects, Goto, TypeInv, TypeOK, ReadsKnow, Reading, blobs
<1> QED BY <1>3, <1>4, <1>5 DEF RefreshSelects

LEMMA RefreshChecksKeeps ==
  ASSUME TypeInv, NEW w \in Workers, RefreshChecks(w) PROVE TypeInv'
<1>1. JobOK(job[w], "check") /\ pc[w] = "check" /\ job[w] \in Job
  BY DEF RefreshChecks, TypeInv, Jobs, JobOK
<1>2. CASE Finish(w)
  BY <1>1, <1>2, FinishKeeps
     DEF RefreshChecks, TypeInv, TypeOK, ReadsKnow, Reading, blobs
<1>3. CASE Goto(w, "compare") /\ UNCHANGED <<etags, lease, job, run>>
  <2>1. JobOK(job[w], "compare") /\ "compare" \in Places \ {"idle"}
    BY <1>1 DEF JobOK, Places
  <2>2. job' = [job EXCEPT ![w] = job[w]]
    BY <1>3 DEF TypeInv, TypeOK
  <2> QED BY <1>1, <1>3, <2>1, <2>2, MoveKeeps
          DEF RefreshChecks, Goto, TypeInv, TypeOK, ReadsKnow, Reading, blobs
<1> QED BY <1>2, <1>3 DEF RefreshChecks


LEMMA RefreshComparesKeeps ==
  ASSUME TypeInv, NEW w \in Workers, RefreshCompares(w) PROVE TypeInv'
<1> DEFINE r   == job[w].run
           now == [f \in Fields |-> IF f \in job[w].todo /\ table[f] # None
                                    THEN [table[f] EXCEPT !.by = r] ELSE table[f]]
           j   == [job[w] EXCEPT !.base = table, !.defs = now]
<1>1. /\ JobOK(job[w], "compare") /\ job[w].op = "refresh" /\ pc[w] = "compare"
      /\ r \in Writers
  BY NumbersAreWriters DEF RefreshCompares, TypeInv, Jobs, JobOK
<1>2. ASSUME NEW f \in Fields, table[f] # None
      PROVE  table[f] \in Row /\ [table[f] EXCEPT !.by = r] \in Row
  BY <1>1, <1>2 DEF TypeInv, TypeOK, Definitions, Row
<1>3. now \in Definitions /\ table \in Definitions
  BY <1>2 DEF TypeInv, TypeOK, Definitions
<1>4. JobOK(j, "generate") /\ j.run = r
  BY <1>1, <1>3 DEF JobOK, Job
<1>5. job' = [job EXCEPT ![w] = j] /\ pc' = [pc EXCEPT ![w] = "generate"] /\ run' = run
  BY DEF RefreshCompares, Goto
<1>6. etags' \in [Fields -> SUBSET Workers]
  BY DEF RefreshCompares, TypeInv, TypeOK
<1>7. sources' \subseteq Fields \X (1 .. MaxRev) \X Writers
  <2>1. job[w].todo \subseteq Fields
    BY <1>1 DEF JobOK, Job
  <2>2. ASSUME NEW f \in job[w].todo
        PROVE  Source(f, now[f]) \in Fields \X (1 .. MaxRev) \X Writers
    <3>1. f \in Fields /\ job[w].base[f] \in Row
      BY <2>1, <1>1 DEF JobOK, Job, Definitions
    <3>2. Revision(table[f]) = job[w].base[f].rev /\ job[w].base[f].rev \in 1 .. MaxRev
      BY <3>1, <2>2, <1>1 DEF RefreshCompares, JobOK, Row
    <3>3. table[f] # None
      BY <3>2 DEF Revision
    <3>4. now[f] \in Row
      BY <3>1, <3>3, <1>2
    <3> QED BY <3>1, <3>4 DEF Source, Row
  <2>3. sources' = sources \cup {Source(f, now[f]) : f \in job[w].todo}
    BY DEF RefreshCompares
  <2> HIDE DEF now, r, j
  <2>4. {Source(f, now[f]) : f \in job[w].todo} \subseteq Fields \X (1 .. MaxRev) \X Writers
    BY <2>2
  <2>5. sources \subseteq Fields \X (1 .. MaxRev) \X Writers
    BY DEF TypeInv, TypeOK
  <2> QED BY <2>3, <2>4, <2>5
<1>8. "generate" \in Places \ {"idle"}
  BY DEF Places
<1> HIDE DEF now, j
<1> QED BY <1>1, <1>4, <1>5, <1>6, <1>7, <1>8, MoveKeeps
        DEF RefreshCompares, TypeInv, TypeOK, ReadsKnow, Reading


LEMMA FlushDropsSnapshotKeeps ==
  ASSUME TypeInv, NEW w \in Workers, NEW g \in Writers, FlushDropsSnapshot(w, g)
  PROVE  TypeInv'
<1> DEFINE j == [job[w] EXCEPT !.gens = @ \ {g}]
<1>1. JobOK(job[w], "flush") /\ pc[w] = "flush"
  BY DEF FlushDropsSnapshot, TypeInv, Jobs, JobOK
<1>2. JobOK(j, "flush") /\ j.run = job[w].run
  BY <1>1 DEF JobOK, Job
<1>3. /\ job' = [job EXCEPT ![w] = j] /\ pc' = [pc EXCEPT ![w] = "flush"] /\ run' = run
      /\ "flush" \in Places \ {"idle"}
  BY <1>1 DEF FlushDropsSnapshot, Places, TypeInv, TypeOK
<1>4. snapshots' \in [Writers -> Snapshot \cup {None}]
  BY DEF FlushDropsSnapshot, TypeInv, TypeOK
<1> HIDE DEF j
<1> QED BY <1>1, <1>2, <1>3, <1>4, MoveKeeps
        DEF FlushDropsSnapshot, TypeInv, TypeOK, ReadsKnow, Reading

LEMMA FlushDropsManifestKeeps ==
  ASSUME TypeInv, NEW w \in Workers, FlushDropsManifest(w) PROVE TypeInv'
<1>1. pc[w] # "idle" /\ Finish(w)
  BY DEF FlushDropsManifest
<1> QED BY <1>1, FinishKeeps
        DEF FlushDropsManifest, TypeInv, TypeOK, ReadsKnow, Reading

(* What an operation generates is a snapshot of definitions.               *)
LEMMA MadeType ==
  ASSUME TypeInv, NEW w \in Workers, pc[w] # "idle"
  PROVE  /\ Generation(job[w]) \in Writers /\ job[w].id \in 0 .. MaxOps
         /\ Made(job[w]) \in Snapshot
<1>1. JobOK(job[w], pc[w])
  BY DEF TypeInv, Jobs
<1> QED BY <1>1, NumbersAreWriters DEF JobOK, Job, Generation, Made, Snapshot

LEMMA GeneratesKeeps ==
  ASSUME TypeInv, NEW w \in Workers, Generates(w) PROVE TypeInv'
<1>1. JobOK(job[w], "generate") /\ pc[w] = "generate"
  BY DEF Generates, TypeInv, Jobs
<1>2. JobOK(job[w], "write") /\ "write" \in Places \ {"idle"}
  BY <1>1 DEF JobOK, Places
<1>3. job' = [job EXCEPT ![w] = job[w]] /\ pc' = [pc EXCEPT ![w] = "write"] /\ run' = run
  BY DEF Generates, Goto, TypeInv, TypeOK
<1>4. snapshots' \in [Writers -> Snapshot \cup {None}]
  BY <1>1, MadeType DEF Generates, TypeInv, TypeOK
<1> QED BY <1>1, <1>2, <1>3, <1>4, MoveKeeps
        DEF Generates, TypeInv, TypeOK, ReadsKnow, Reading

LEMMA WritesDefinitionKeeps ==
  ASSUME TypeInv, NEW w \in Workers, NEW f \in Fields, WritesDefinition(w, f)
  PROVE  TypeInv'
<1> DEFINE j == [job[w] EXCEPT !.todo = @ \ {f}]
<1>1. JobOK(job[w], "write") /\ pc[w] = "write"
  BY DEF WritesDefinition, TypeInv, Jobs
<1>2. JobOK(j, "write") /\ j.run = job[w].run
  BY <1>1 DEF JobOK, Job
<1>3. /\ job' = [job EXCEPT ![w] = j] /\ pc' = [pc EXCEPT ![w] = "write"] /\ run' = run
      /\ "write" \in Places \ {"idle"}
  BY <1>1 DEF WritesDefinition, Places, TypeInv, TypeOK
<1>4. table' \in Definitions /\ etags' \in [Fields -> SUBSET Workers]
  BY <1>1 DEF WritesDefinition, JobOK, Job, Definitions, TypeInv, TypeOK
<1> HIDE DEF j
<1> QED BY <1>1, <1>2, <1>3, <1>4, MoveKeeps
        DEF WritesDefinition, TypeInv, TypeOK, ReadsKnow, Reading, blobs

LEMMA PublishesKeeps ==
  ASSUME TypeInv, NEW w \in Workers, Publishes(w) PROVE TypeInv'
<1>1. JobOK(job[w], "write") /\ pc[w] = "write"
  BY DEF Publishes, TypeInv, Jobs
<1>2. JobOK(job[w], "remember") /\ "remember" \in Places \ {"idle"}
  BY <1>1 DEF JobOK, Places
<1>3. job' = [job EXCEPT ![w] = job[w]] /\ pc' = [pc EXCEPT ![w] = "remember"] /\ run' = run
  BY DEF Publishes, Goto, TypeInv, TypeOK
<1>4. manifest' \in [gen : Writers, tag : 0 .. MaxOps] \cup {None}
  BY <1>1, MadeType DEF Publishes
<1> QED BY <1>1, <1>2, <1>3, <1>4, MoveKeeps
        DEF Publishes, TypeInv, TypeOK, ReadsKnow, Reading

LEMMA RemembersKeeps ==
  ASSUME TypeInv, NEW w \in Workers, Remembers(w) PROVE TypeInv'
<1>1. JobOK(job[w], "remember") /\ pc[w] = "remember"
  BY DEF Remembers, TypeInv, Jobs
<1>2. cache' \in [tag : 0 .. MaxOps, snapshot : Snapshot] \cup {None}
  BY <1>1, MadeType DEF Remembers, TypeInv, TypeOK
<1>3. CASE job[w].op = "delete"
  <2>1. JobOK(job[w], "clean") /\ "clean" \in Places \ {"idle"}
    BY <1>1, <1>3 DEF JobOK, Places
  <2>2. job' = [job EXCEPT ![w] = job[w]] /\ pc' = [pc EXCEPT ![w] = "clean"] /\ run' = run
    BY <1>3 DEF Remembers, Goto, TypeInv, TypeOK
  <2> QED BY <1>1, <1>2, <1>3, <2>1, <2>2, MoveKeeps
          DEF Remembers, TypeInv, TypeOK, ReadsKnow, Reading, blobs
<1>4. CASE job[w].op # "delete"
  <2>1. Finish(w)
    BY <1>4 DEF Remembers
  <2> QED BY <1>1, <1>2, <2>1, FinishKeeps
          DEF Remembers, TypeInv, TypeOK, ReadsKnow, Reading, blobs
<1> QED BY <1>3, <1>4

LEMMA CleansSourcesKeeps ==
  ASSUME TypeInv, NEW w \in Workers, CleansSources(w) PROVE TypeInv'
<1>1. pc[w] # "idle" /\ Finish(w)
  BY DEF CleansSources
<1>2. sources' \subseteq sources
  BY DEF CleansSources
<1> QED BY <1>1, <1>2, FinishKeeps
        DEF CleansSources, TypeInv, TypeOK, ReadsKnow, Reading

LEMMA ReadsKeeps ==
  ASSUME TypeInv, NEW r \in Readers, Reads(r) PROVE TypeInv'
<1> DEFINE R == [at : {"manifest", "snapshot", "loaded"}, tag : 0 .. MaxOps,
                 gen : Writers \cup {None}, got : Snapshot \cup {None}]
<1>1. /\ read' \in [Readers -> R \cup {None}]
      /\ cache' \in [tag : 0 .. MaxOps, snapshot : Snapshot] \cup {None}
      /\ ReadsKnow'
  <2>1. read[r] # None => read[r] \in R
    BY DEF TypeInv, TypeOK
  <2>2. manifest # None => manifest.gen \in Writers /\ manifest.tag \in 0 .. MaxOps
    BY DEF TypeInv, TypeOK
  <2>3. CASE ReadsTag(r)
    <3> DEFINE x == [at |-> "manifest", tag |-> manifest.tag, gen |-> None, got |-> None]
    <3>1. x \in R /\ x.at = "manifest" /\ read' = [read EXCEPT ![r] = x] /\ cache' = cache
      BY <2>2, <2>3 DEF ReadsTag
    <3> HIDE DEF x, R
    <3> QED BY <3>1 DEF TypeInv, TypeOK, ReadsKnow, Reading, R
  <2>4. CASE ReadsManifest(r)
    <3> DEFINE x == [read[r] EXCEPT !.at = "snapshot", !.gen = manifest.gen]
    <3>1. read[r] \in R /\ cache' = cache
      BY <2>1, <2>4 DEF ReadsManifest, Reading
    <3>2. CASE manifest = None
      BY <3>1, <3>2, <2>4 DEF ReadsManifest, TypeInv, TypeOK, ReadsKnow, Reading
    <3>3. CASE manifest # None
      <4>1. x \in R /\ x.at = "snapshot" /\ x.gen \in Writers /\ read' = [read EXCEPT ![r] = x]
        BY <3>1, <3>3, <2>2, <2>4 DEF ReadsManifest
      <4> HIDE DEF x
      <4> QED BY <4>1, <3>1 DEF TypeInv, TypeOK, ReadsKnow, Reading
    <3> QED BY <3>2, <3>3
  <2>5. CASE ReadsSnapshot(r)
    <3> DEFINE found == snapshots[read[r].gen]
               x     == [read[r] EXCEPT !.at = "loaded", !.got = found]
    <3>1. read[r] \in R /\ cache' = cache /\ read[r].gen \in Writers
      BY <2>1, <2>5 DEF ReadsSnapshot, Reading, TypeInv, ReadsKnow
    <3>2. found \in Snapshot \cup {None}
      BY <3>1 DEF TypeInv, TypeOK
    <3>3. CASE found = None
      BY <3>1, <3>3, <2>5 DEF ReadsSnapshot, TypeInv, TypeOK, ReadsKnow, Reading
    <3>4. CASE found # None
      <4>1. x \in R /\ x.at = "loaded" /\ x.got \in Snapshot /\ read' = [read EXCEPT ![r] = x]
        BY <3>1, <3>2, <3>4, <2>5 DEF ReadsSnapshot
      <4> HIDE DEF x
      <4> QED BY <4>1, <3>1 DEF TypeInv, TypeOK, ReadsKnow, Reading
    <3> QED BY <3>3, <3>4
  <2>6. CASE KeepsSnapshot(r)
    <3>1. read[r] \in R /\ read[r].at = "loaded"
      BY <2>1, <2>6 DEF KeepsSnapshot, Reading
    <3>2. read[r].got \in Snapshot
      BY <2>6 DEF KeepsSnapshot, TypeInv, ReadsKnow
    <3> QED BY <3>1, <3>2, <2>6
            DEF KeepsSnapshot, KeptTag, TypeInv, TypeOK, ReadsKnow, Reading
  <2> QED BY <2>3, <2>4, <2>5, <2>6 DEF Reads
<1>2. UNCHANGED <<table, etags, blobs, lease, pc, job, run, ops, overlap>>
  BY DEF Reads, ReadsTag, ReadsManifest, ReadsSnapshot, KeepsSnapshot
<1> QED BY <1>1, <1>2 DEF TypeInv, TypeOK, Jobs, RunsGoOn, OneWorker, blobs

LEMMA LeaseExpiresKeeps ==
  ASSUME TypeInv, LeaseExpires PROVE TypeInv'
BY DEF LeaseExpires, TypeInv, TypeOK, Jobs, RunsGoOn, OneWorker, ReadsKnow, Reading,
       blobs


LEMMA DiesKeeps ==
  ASSUME TypeInv, NEW process \in SUBSET Workers, Dies(process) PROVE TypeInv'
<1> DEFINE cut == {job[w].run : w \in {v \in process : job[v] # None}} \ {None}
<1>1. /\ pc' = [w \in Workers |-> IF w \in process THEN "idle" ELSE pc[w]]
      /\ job' = [w \in Workers |-> IF w \in process THEN None ELSE job[w]]
      /\ run' = [r \in Runs |-> IF r \in cut THEN [run[r] EXCEPT !.state = "due"]
                                ELSE run[r]]
      /\ etags' = [f \in Fields |-> etags[f] \ process]
      /\ cache' \in {None, cache}
      /\ read' \in {read, [r \in Readers |-> None]}
  BY DEF Dies
<1>2. \A w \in Workers : pc'[w] # "idle" =>
         w \notin process /\ pc'[w] = pc[w] /\ job'[w] = job[w]
  BY <1>1
<1>3. Jobs'
  <2>1. \A w \in Workers : pc'[w] = "idle" => job'[w] = None
    BY <1>1 DEF TypeInv, Jobs
  <2> QED BY <1>2, <2>1 DEF Jobs, TypeInv
<1>4. \A r \in cut : r \in Runs => run[r].state # "done"
  <2> SUFFICES ASSUME NEW w \in process, job[w] # None, job[w].run # None
               PROVE  run[job[w].run].state # "done"
    OBVIOUS
  <2>1. pc[w] # "idle"
    BY DEF TypeInv, Jobs
  <2> QED BY <2>1 DEF TypeInv, OneWorker
<1>5. run' \in [Runs -> [state : {"due", "running", "done"}, tries : 0 .. MaxTries]]
  <2> HIDE DEF cut
  <2> QED BY <1>1 DEF TypeInv, TypeOK
<1>6. RunsGoOn'
  <2> HIDE DEF cut
  <2> QED BY <1>1, <1>4 DEF TypeInv, TypeOK, RunsGoOn
<1>7. OneWorker'
  <2> SUFFICES ASSUME NEW w \in Workers, pc'[w] # "idle", job'[w].run # None
               PROVE  /\ run'[job'[w].run].state = "running"
                      /\ \A v \in Workers \ {w} :
                            pc'[v] # "idle" => job'[v].run # job'[w].run
    BY DEF OneWorker
  <2>1. /\ pc[w] # "idle" /\ job[w].run # None /\ job'[w] = job[w] /\ w \notin process
        /\ job[w].run \in Runs
    BY <1>2 DEF TypeInv, Jobs, JobOK, Job
  <2>2. job[w].run \notin cut
    BY <2>1 DEF TypeInv, OneWorker, Jobs
  <2>3. run'[job[w].run] = run[job[w].run]
    <3> HIDE DEF cut
    <3> QED BY <2>1, <2>2, <1>1
  <2> QED BY <2>1, <2>3, <1>2 DEF TypeInv, OneWorker
<1>8. /\ etags' \in [Fields -> SUBSET Workers]
      /\ pc' \in [Workers -> Places] /\ job' \in [Workers -> Job \cup {None}]
  BY <1>1 DEF TypeInv, TypeOK, Places
<1>9. /\ cache' \in [tag : 0 .. MaxOps, snapshot : Snapshot] \cup {None}
      /\ read' \in [Readers -> [at : {"manifest", "snapshot", "loaded"},
                                tag : 0 .. MaxOps, gen : Writers \cup {None},
                                got : Snapshot \cup {None}] \cup {None}]
      /\ ReadsKnow'
  BY <1>1 DEF TypeInv, TypeOK, ReadsKnow, Reading
<1> QED BY <1>3, <1>5, <1>6, <1>7, <1>8, <1>9 DEF Dies, TypeInv, TypeOK, blobs


LEMMA TypeStep == TypeInv /\ [Next]_vars => TypeInv'
<1> SUFFICES ASSUME TypeInv, [Next]_vars PROVE TypeInv'
  OBVIOUS
<1>1. CASE \E w \in Workers : Works(w)
  <2> PICK w \in Workers : Works(w)
    BY <1>1
  <2>1. CASE \E f \in Fields :
                \/ \E k \in Kinds, rev \in 0 .. MaxRev : SaveBegins(w, f, k, rev)
                \/ DeleteBegins(w, f)
                \/ WritesDefinition(w, f)
    BY <2>1, SaveBeginsKeeps, DeleteBeginsKeeps, WritesDefinitionKeeps
  <2>2. CASE SaveReads(w) \/ DeleteReads(w) \/ NothingToDo(w) \/ Lists(w)
    BY <2>2, SaveReadsKeeps, DeleteReadsKeeps, NothingToDoKeeps, ListsKeeps
  <2>3. CASE \E r \in Runs : RunBegins(w, r)
    BY <2>3, RunBeginsKeeps
  <2>4. CASE \E inventory \in BOOLEAN : RefreshSelects(w, inventory)
    BY <2>4, RefreshSelectsKeeps
  <2>5. CASE RefreshChecks(w) \/ RefreshCompares(w)
    BY <2>5, RefreshChecksKeeps, RefreshComparesKeeps
  <2>6. CASE \E g \in Writers : FlushDropsSnapshot(w, g)
    BY <2>6, FlushDropsSnapshotKeeps
  <2>7. CASE FlushDropsManifest(w) \/ Generates(w) \/ Publishes(w)
    BY <2>7, FlushDropsManifestKeeps, GeneratesKeeps, PublishesKeeps
  <2>8. CASE Remembers(w) \/ CleansSources(w) \/ Fails(w)
    BY <2>8, RemembersKeeps, CleansSourcesKeeps, FailsKeeps
  <2> QED BY <2>1, <2>2, <2>3, <2>4, <2>5, <2>6, <2>7, <2>8 DEF Works
<1>2. CASE \E r \in Runs : RunFindsLeaseTaken(r)
  BY <1>2, RunFindsLeaseTakenKeeps
<1>3. CASE \E r \in Readers : Reads(r)
  BY <1>3, ReadsKeeps
<1>4. CASE LeaseExpires
  BY <1>4, LeaseExpiresKeeps
<1>5. CASE Dies(Local) \/ \E w \in Workers \ Local : Dies({w})
  <2>1. Local \in SUBSET Workers /\ \A w \in Workers \ Local : {w} \in SUBSET Workers
    BY ContextAssumption
  <2> QED BY <1>5, <2>1, DiesKeeps
<1>6. CASE UNCHANGED vars
  BY <1>6 DEF vars, blobs, TypeInv, TypeOK, Jobs, RunsGoOn, OneWorker, ReadsKnow, Reading
<1> QED BY <1>1, <1>2, <1>3, <1>4, <1>5, <1>6 DEF Next

LEMMA TypeInvHolds == Spec => []TypeInv
<1> QED BY TypeInit, TypeStep, PTL DEF Spec

(* The state keeps its shape; an orchestration never makes more than       *)
(* MaxTries attempts (_run_context_refresh, _run_context_flush).           *)
THEOREM ContextTypeCorrect == Spec => []TypeOK
<1>1. TypeInv => TypeOK
  BY DEF TypeInv
<1> QED BY <1>1, TypeInvHolds, PTL

----------------------------------------------------------------------------
(* No edit is lost.                                                        *)

(* An ETag a worker holds is that of the row it read.                      *)
EtagsTell ==
    \A w \in Workers, f \in Fields :
        w \in etags[f] =>
            /\ pc[w] \in {"list", "generate", "write", "remember", "clean"}
            /\ job[w].base[f] = table[f]

(* A save writes its own field, at the revision it found.                  *)
SavesOwnField ==
    \A w \in Workers :
        pc[w] \in {"list", "generate", "write"} /\ job[w].op = "save" =>
            /\ job[w].todo \subseteq {job[w].field}
            /\ job[w].rev = Revision(job[w].base[job[w].field])

EditInv == EtagsTell /\ SavesOwnField

LEMMA EditInit == Init => EditInv
BY DEF Init, EditInv, EtagsTell, SavesOwnField

(* A worker that leaves, dies or begins disturbs nobody.                   *)
LEMMA OthersUndisturbed ==
  ASSUME TypeInv, EditInv, NEW gone \in SUBSET Workers, table' = table,
         \A f \in Fields : etags'[f] \subseteq etags[f] \ gone,
         \A w \in Workers \ gone : pc'[w] = pc[w] /\ job'[w] = job[w],
         \A w \in gone : pc'[w] \notin {"list", "generate", "write"}
  PROVE  EditInv'
<1>1. EtagsTell'
  BY DEF EditInv, EtagsTell
<1>2. SavesOwnField'
  BY DEF EditInv, SavesOwnField
<1> QED BY <1>1, <1>2 DEF EditInv

LEMMA LeaveUndisturbed ==
  ASSUME TypeInv, EditInv, NEW w \in Workers, NEW outcome, Leave(w, outcome),
         table' = table
  PROVE  EditInv'
<1>1. /\ \A f \in Fields : etags'[f] \subseteq etags[f] \ {w}
      /\ \A v \in Workers \ {w} : pc'[v] = pc[v] /\ job'[v] = job[v]
      /\ pc'[w] = "idle"
  BY DEF Leave, Goto, TypeInv, TypeOK
<1> QED BY <1>1, OthersUndisturbed

LEMMA AcquireUndisturbed ==
  ASSUME TypeInv, EditInv, NEW w \in Workers, NEW j,
         NEW place \in {"read", "select", "flush"}, Acquire(w, j, place),
         table' = table, etags' = etags
  PROVE  EditInv'
<1>1. /\ \A f \in Fields : etags'[f] \subseteq etags[f] \ {w}
      /\ \A v \in Workers \ {w} : pc'[v] = pc[v] /\ job'[v] = job[v]
      /\ pc'[w] = place
  BY DEF Acquire, Goto, TypeInv, TypeOK, EditInv, EtagsTell
<1> QED BY <1>1, OthersUndisturbed

(* A worker moves on; its rows, ETags and field stay as they are.          *)
LEMMA MoveUndisturbed ==
  ASSUME TypeInv, EditInv, NEW w \in Workers, NEW place, NEW j,
         table' = table, etags' = etags,
         pc' = [pc EXCEPT ![w] = place], job' = [job EXCEPT ![w] = j],
         \A f \in Fields : w \in etags[f] =>
            /\ place \in {"list", "generate", "write", "remember", "clean"}
            /\ j.base[f] = job[w].base[f],
         place \in {"list", "generate", "write"} /\ j.op = "save" =>
            /\ pc[w] \in {"list", "generate", "write"} /\ job[w].op = "save"
            /\ j.todo \subseteq job[w].todo /\ j.base = job[w].base
            /\ j.field = job[w].field /\ j.rev = job[w].rev
  PROVE  EditInv'
<1>1. \A v \in Workers : v # w => pc'[v] = pc[v] /\ job'[v] = job[v]
  BY DEF TypeInv, TypeOK
<1>2. pc'[w] = place /\ job'[w] = j
  BY DEF TypeInv, TypeOK
<1>3. EtagsTell'
  BY <1>1, <1>2 DEF EditInv, EtagsTell
<1>4. SavesOwnField'
  BY <1>1, <1>2 DEF EditInv, SavesOwnField
<1> QED BY <1>3, <1>4 DEF EditInv

LEMMA SaveReadsEdit ==
  ASSUME TypeInv, EditInv, NEW w \in Workers, SaveReads(w) PROVE EditInv'
<1> DEFINE f   == job[w].field
           row == [rev |-> job[w].rev + 1, kind |-> job[w].kind, by |-> job[w].id]
           j   == [job[w] EXCEPT !.base = [@ EXCEPT ![f] = table[f]],
                                 !.defs = [@ EXCEPT ![f] = row], !.todo = {f}]
<1>1. JobOK(job[w], "read") /\ job[w].op = "save" /\ f \in Fields /\ pc[w] = "read"
  BY DEF SaveReads, TypeInv, Jobs, JobOK
<1>2. /\ job' = [job EXCEPT ![w] = j] /\ pc' = [pc EXCEPT ![w] = "list"]
      /\ etags' = [etags EXCEPT ![f] = @ \cup {w}] /\ table' = table
  BY DEF SaveReads, Goto
<1>3. /\ j.base[f] = table[f] /\ j.todo = {f} /\ j.rev = job[w].rev
      /\ j.field = f /\ j.rev = Revision(table[f])
  BY <1>1 DEF JobOK, Job, Definitions, SaveReads, Conflicts
<1> HIDE DEF f, row, j
<1>4. \A v \in Workers : v # w => pc'[v] = pc[v] /\ job'[v] = job[v]
  BY <1>2 DEF TypeInv, TypeOK
<1>5. pc'[w] = "list" /\ job'[w] = j
  BY <1>2 DEF TypeInv, TypeOK
<1>6. \A g \in Fields : w \notin etags[g]
  BY <1>1 DEF EditInv, EtagsTell
<1>7. EtagsTell'
  BY <1>1, <1>2, <1>3, <1>4, <1>5, <1>6 DEF EditInv, EtagsTell, TypeInv, TypeOK
<1>8. SavesOwnField'
  BY <1>2, <1>3, <1>4, <1>5 DEF EditInv, SavesOwnField
<1> QED BY <1>7, <1>8 DEF EditInv

LEMMA DeleteReadsEdit ==
  ASSUME TypeInv, EditInv, NEW w \in Workers, DeleteReads(w) PROVE EditInv'
<1> DEFINE f == job[w].field
           j == [job[w] EXCEPT !.base = [@ EXCEPT ![f] = table[f]], !.todo = {f}]
<1>1. JobOK(job[w], "read") /\ job[w].op = "delete" /\ f \in Fields /\ pc[w] = "read"
  BY DEF DeleteReads, TypeInv, Jobs, JobOK
<1>2. /\ job' = [job EXCEPT ![w] = j] /\ pc' = [pc EXCEPT ![w] = "list"]
      /\ etags' = [etags EXCEPT ![f] = @ \cup {w}] /\ table' = table
  BY DEF DeleteReads, Goto
<1>3. j.base[f] = table[f] /\ j.op = "delete"
  BY <1>1 DEF JobOK, Job, Definitions
<1> HIDE DEF f, j
<1>4. \A v \in Workers : v # w => pc'[v] = pc[v] /\ job'[v] = job[v]
  BY <1>2 DEF TypeInv, TypeOK
<1>5. pc'[w] = "list" /\ job'[w] = j
  BY <1>2 DEF TypeInv, TypeOK
<1>6. \A g \in Fields : w \notin etags[g]
  BY <1>1 DEF EditInv, EtagsTell
<1>7. EtagsTell'
  BY <1>1, <1>2, <1>3, <1>4, <1>5, <1>6 DEF EditInv, EtagsTell, TypeInv, TypeOK
<1>8. SavesOwnField'
  BY <1>2, <1>3, <1>4, <1>5 DEF EditInv, SavesOwnField
<1> QED BY <1>7, <1>8 DEF EditInv

LEMMA RefreshComparesEdit ==
  ASSUME TypeInv, EditInv, NEW w \in Workers, RefreshCompares(w) PROVE EditInv'
<1> DEFINE now == [f \in Fields |-> IF f \in job[w].todo /\ table[f] # None
                                    THEN [table[f] EXCEPT !.by = job[w].run]
                                    ELSE table[f]]
           j   == [job[w] EXCEPT !.base = table, !.defs = now]
<1>1. job[w] \in Job /\ job[w].op = "refresh" /\ pc[w] = "compare"
  BY DEF RefreshCompares, TypeInv, Jobs, JobOK
<1>2. /\ job' = [job EXCEPT ![w] = j] /\ pc' = [pc EXCEPT ![w] = "generate"]
      /\ table' = table
      /\ \A f \in Fields : etags'[f] \subseteq etags[f] \cup {w}
  BY DEF RefreshCompares, Goto
<1>3. j.base = table /\ j.op = "refresh"
  BY <1>1 DEF Job
<1> HIDE DEF now, j
<1>4. \A v \in Workers : v # w => pc'[v] = pc[v] /\ job'[v] = job[v]
  BY <1>2 DEF TypeInv, TypeOK
<1>5. pc'[w] = "generate" /\ job'[w] = j
  BY <1>2 DEF TypeInv, TypeOK
<1>6. EtagsTell'
  BY <1>2, <1>3, <1>4, <1>5 DEF EditInv, EtagsTell
<1>7. SavesOwnField'
  BY <1>2, <1>3, <1>4, <1>5 DEF EditInv, SavesOwnField
<1> QED BY <1>6, <1>7 DEF EditInv

LEMMA WritesDefinitionEdit ==
  ASSUME TypeInv, EditInv, NEW w \in Workers, NEW f \in Fields, WritesDefinition(w, f)
  PROVE  EditInv'
<1> DEFINE j == [job[w] EXCEPT !.todo = @ \ {f}]
<1>1. job[w] \in Job /\ pc[w] = "write"
  BY DEF WritesDefinition, TypeInv, Jobs, JobOK
<1>2. /\ job' = [job EXCEPT ![w] = j] /\ pc' = pc
      /\ etags' = [etags EXCEPT ![f] = {}]
      /\ \A g \in Fields \ {f} : table'[g] = table[g]
  BY DEF WritesDefinition, TypeInv, TypeOK, Definitions
<1>3. /\ j.base = job[w].base /\ j.todo \subseteq job[w].todo /\ j.op = job[w].op
      /\ j.field = job[w].field /\ j.rev = job[w].rev
  BY <1>1 DEF Job
<1> HIDE DEF j
<1>4. \A v \in Workers : v # w => job'[v] = job[v]
  BY <1>2 DEF TypeInv, TypeOK
<1>5. job'[w] = j
  BY <1>2 DEF TypeInv, TypeOK
<1>6. EtagsTell'
  BY <1>2, <1>3, <1>4, <1>5 DEF EditInv, EtagsTell, TypeInv, TypeOK
<1>7. SavesOwnField'
  BY <1>2, <1>3, <1>4, <1>5 DEF EditInv, SavesOwnField
<1> QED BY <1>6, <1>7 DEF EditInv


(* The steps of a worker that only move it on.                             *)
LEMMA MovesEdit ==
  ASSUME TypeInv, EditInv, NEW w \in Workers,
         \/ Lists(w) \/ RefreshChecks(w) \/ Generates(w) \/ Publishes(w)
         \/ Remembers(w)
         \/ \E inventory \in BOOLEAN : RefreshSelects(w, inventory)
         \/ \E g \in Writers : FlushDropsSnapshot(w, g)
  PROVE  EditInv'
<1>1. job[w] # None => job[w] \in Job
  BY DEF TypeInv, TypeOK
<1>2. \A f \in Fields : w \in etags[f] =>
         pc[w] \in {"list", "generate", "write", "remember", "clean"}
  BY DEF EditInv, EtagsTell
<1>3. job = [job EXCEPT ![w] = job[w]] /\ pc = [pc EXCEPT ![w] = pc[w]]
  BY DEF TypeInv, TypeOK
<1>4. CASE Lists(w)
  <2> DEFINE j == [job[w] EXCEPT !.defs = [table EXCEPT ![job[w].field] =
                                              job[w].defs[job[w].field]]]
  <2>1. job[w] \in Job /\ pc[w] = "list"
    BY <1>4 DEF Lists, TypeInv, Jobs, JobOK
  <2>2. /\ job' = [job EXCEPT ![w] = j] /\ pc' = [pc EXCEPT ![w] = "generate"]
        /\ table' = table /\ etags' = etags
    BY <1>4 DEF Lists, Goto
  <2>3. /\ j.base = job[w].base /\ j.todo = job[w].todo /\ j.op = job[w].op
        /\ j.field = job[w].field /\ j.rev = job[w].rev
    BY <2>1 DEF Job
  <2> HIDE DEF j
  <2> QED BY <2>1, <2>2, <2>3, MoveUndisturbed
<1>5. CASE RefreshChecks(w)
  <2>1. CASE Finish(w)
    BY <1>5, <2>1, LeaveUndisturbed DEF RefreshChecks, Finish
  <2>2. CASE Goto(w, "compare") /\ UNCHANGED <<etags, lease, job, run>>
    BY <1>2, <1>3, <1>5, <2>2, MoveUndisturbed DEF RefreshChecks, Goto
  <2> QED BY <1>5, <2>1, <2>2 DEF RefreshChecks
<1>6. CASE Generates(w)
  BY <1>3, <1>6, MoveUndisturbed DEF Generates, Goto
<1>7. CASE Publishes(w)
  BY <1>3, <1>7, MoveUndisturbed DEF Publishes, Goto
<1>8. CASE Remembers(w)
  <2>1. CASE Finish(w)
    BY <1>8, <2>1, LeaveUndisturbed DEF Remembers, Finish
  <2>2. CASE Goto(w, "clean") /\ UNCHANGED <<etags, lease, job, run>>
    BY <1>3, <1>8, <2>2, MoveUndisturbed DEF Remembers, Goto
  <2> QED BY <1>8, <2>1, <2>2 DEF Remembers
<1>9. CASE \E inventory \in BOOLEAN : RefreshSelects(w, inventory)
  <2> PICK inventory \in BOOLEAN : RefreshSelects(w, inventory)
    BY <1>9
  <2>1. CASE \E outcome : Leave(w, outcome)
    BY <2>1, LeaveUndisturbed DEF RefreshSelects
  <2>2. CASE ~(\E outcome : Leave(w, outcome))
    <3>1. PICK j : job' = [job EXCEPT ![w] = j]
      BY <2>2 DEF RefreshSelects, Finish
    <3>2. pc[w] = "select" /\ pc' = [pc EXCEPT ![w] = "check"] /\ table' = table
          /\ etags' = etags
      BY <2>2 DEF RefreshSelects, Finish, Goto
    <3> QED BY <1>2, <3>1, <3>2, MoveUndisturbed
  <2> QED BY <2>1, <2>2
<1>10. CASE \E g \in Writers : FlushDropsSnapshot(w, g)
  <2> PICK g \in Writers : FlushDropsSnapshot(w, g)
    BY <1>10
  <2>1. /\ pc[w] = "flush" /\ pc' = pc /\ table' = table /\ etags' = etags
        /\ job' = [job EXCEPT ![w] = [job[w] EXCEPT !.gens = @ \ {g}]]
    BY DEF FlushDropsSnapshot
  <2> QED BY <1>2, <1>3, <2>1, MoveUndisturbed
<1> QED BY <1>4, <1>5, <1>6, <1>7, <1>8, <1>9, <1>10

LEMMA EditStep == TypeInv /\ EditInv /\ [Next]_vars => EditInv'
<1> SUFFICES ASSUME TypeInv, EditInv, [Next]_vars PROVE EditInv'
  OBVIOUS
<1>1. CASE UNCHANGED <<table, etags, pc, job>>
  BY <1>1 DEF EditInv, EtagsTell, SavesOwnField
<1>2. CASE \E w \in Workers : Works(w)
  <2> PICK w \in Workers : Works(w)
    BY <1>2
  <2>1. CASE \E f \in Fields :
                \/ \E k \in Kinds, rev \in 0 .. MaxRev : SaveBegins(w, f, k, rev)
                \/ DeleteBegins(w, f)
    BY <2>1, AcquireUndisturbed DEF SaveBegins, DeleteBegins
  <2>2. CASE \E r \in Runs : RunBegins(w, r)
    BY <2>2, AcquireUndisturbed DEF RunBegins
  <2>3. CASE NothingToDo(w) \/ FlushDropsManifest(w) \/ CleansSources(w) \/ Fails(w)
    BY <2>3, LeaveUndisturbed
       DEF NothingToDo, FlushDropsManifest, CleansSources, Fails, Finish
  <2>4. CASE SaveReads(w) \/ DeleteReads(w) \/ RefreshCompares(w)
    BY <2>4, SaveReadsEdit, DeleteReadsEdit, RefreshComparesEdit
  <2>5. CASE \E f \in Fields : WritesDefinition(w, f)
    BY <2>5, WritesDefinitionEdit
  <2>6. CASE \/ Lists(w) \/ RefreshChecks(w) \/ Generates(w) \/ Publishes(w)
             \/ Remembers(w)
             \/ \E inventory \in BOOLEAN : RefreshSelects(w, inventory)
             \/ \E g \in Writers : FlushDropsSnapshot(w, g)
    BY <2>6, MovesEdit
  <2> QED BY <2>1, <2>2, <2>3, <2>4, <2>5, <2>6 DEF Works
<1>3. ASSUME NEW process \in SUBSET Workers, Dies(process) PROVE EditInv'
  <2>1. /\ table' = table
        /\ \A f \in Fields : etags'[f] = etags[f] \ process
        /\ \A w \in Workers : IF w \in process THEN pc'[w] = "idle"
                              ELSE pc'[w] = pc[w] /\ job'[w] = job[w]
    BY <1>3 DEF Dies
  <2> QED BY <2>1, OthersUndisturbed
<1>4. Local \in SUBSET Workers /\ \A w \in Workers \ Local : {w} \in SUBSET Workers
  BY ContextAssumption
<1> QED BY <1>1, <1>2, <1>3, <1>4
        DEF Next, vars, RunFindsLeaseTaken, Reads, ReadsTag, ReadsManifest,
            ReadsSnapshot, KeepsSnapshot, LeaseExpires

(* Whatever the leases do, a write replaces or drops exactly the row its   *)
(* worker read, and a save's at the revision its form names                *)
(* (_write_definition and delete_definition under their ETags).            *)
THEOREM EditsAreKept == Spec => NoLostEdit
<1> DEFINE Kept == \A f \in Fields : table'[f] # table[f] =>
              \E w \in Workers :
                 /\ pc[w] = "write" /\ f \in job[w].todo
                 /\ job[w].base[f] = table[f]
                 /\ job[w].op = "save" => job[w].rev = Revision(table[f])
<1>1. TypeInv /\ EditInv /\ [Next]_vars => Kept
  <2> SUFFICES ASSUME TypeInv, EditInv, [Next]_vars,
                      NEW f \in Fields, table'[f] # table[f]
               PROVE  \E w \in Workers :
                         /\ pc[w] = "write" /\ f \in job[w].todo
                         /\ job[w].base[f] = table[f]
                         /\ job[w].op = "save" => job[w].rev = Revision(table[f])
    OBVIOUS
  <2>1. PICK w \in Workers, g \in Fields : WritesDefinition(w, g)
    BY DEF Next, vars, Works, RunFindsLeaseTaken, Reads, ReadsTag, ReadsManifest,
           ReadsSnapshot, KeepsSnapshot, LeaseExpires, Dies, SaveBegins,
           DeleteBegins, SaveReads, DeleteReads, NothingToDo, Lists, RunBegins,
           RefreshSelects, RefreshChecks, RefreshCompares, FlushDropsSnapshot,
           FlushDropsManifest, Generates, Publishes, Remembers, CleansSources, Fails
  <2>2. g = f /\ pc[w] = "write" /\ f \in job[w].todo /\ MayWrite(w, f)
    BY <2>1 DEF WritesDefinition, TypeInv, TypeOK, Definitions
  <2>3. job[w].base[f] = table[f]
    BY <2>2 DEF MayWrite, EditInv, EtagsTell
  <2>4. job[w].op = "save" => job[w].rev = Revision(table[f])
    BY <2>2, <2>3 DEF EditInv, SavesOwnField
  <2> QED BY <2>2, <2>3, <2>4
<1>2. Spec => []EditInv
  BY EditInit, EditStep, TypeInvHolds, PTL DEF Spec
<1>3. TypeInv /\ EditInv /\ [Next]_vars => [Kept]_vars
  BY <1>1
<1> QED BY <1>2, <1>3, TypeInvHolds, PTL DEF Spec, NoLostEdit

----------------------------------------------------------------------------
(* Publications and reads, as long as no holder outlives its lease.        *)

(* The worker at work is the one that has the lease, and its operation is  *)
(* the last that began.                                                    *)
Alone ==
    ~overlap => \A w \in Workers :
                   pc[w] # "idle" => lease = w /\ job[w].id = ops

(* What an operation knows still holds of what is stored.                  *)
JobFits(j, place) ==
    /\ place = "list" => j.field \in j.todo
    /\ place \in {"generate", "write"} =>
          \A f \in Fields \ j.todo : j.defs[f] = table[f]
    /\ place = "write" =>
          /\ snapshots[Generation(j)] = Made(j)
          /\ \A f \in Fields :
                j.defs[f] # None => Source(f, j.defs[f]) \in sources
    /\ j.op = "delete" =>
          /\ place \in {"read", "list", "generate", "write"} =>
                j.defs[j.field] = None
          /\ place \in {"remember", "clean"} => table[j.field] = None
    /\ j.op = "refresh" /\ place \in {"compare", "generate", "write"} =>
          manifest = None \/ manifest.gen # j.run

JobsFit ==
    ~overlap => \A w \in Workers : pc[w] # "idle" => JobFits(job[w], pc[w])

(* The tag of a manifest is the number of the operation that wrote it: its *)
(* snapshot is as recent, and so is one a read finds that saw the tag.     *)
TagsTell ==
    ~overlap =>
        /\ manifest # None =>
              /\ manifest.tag <= ops
              /\ snapshots[manifest.gen] # None =>
                    snapshots[manifest.gen].made >= manifest.tag
        /\ \A r \in Readers :
              /\ read[r] # None => read[r].tag <= ops
              /\ Reading(r, "manifest") /\ manifest # None =>
                    read[r].tag <= manifest.tag
              /\ Reading(r, "snapshot") /\ snapshots[read[r].gen] # None =>
                    snapshots[read[r].gen].made >= read[r].tag

PublishInv == Alone /\ JobsFit /\ TagsTell /\ SourcesExist /\ ReadsRecent

(* The numbers compared are numbers.                                       *)
LEMMA Numbers ==
  ASSUME TypeInv
  PROVE  /\ ops \in Int
         /\ manifest # None => manifest.tag \in Int /\ manifest.gen \in Writers
         /\ \A g \in Writers : snapshots[g] # None => snapshots[g].made \in Int
         /\ \A r \in Readers : read[r] # None => read[r].tag \in Int
  BY DEF TypeInv, TypeOK, Snapshot

(* Nobody is left at work.                                                 *)
LEMMA NobodyAtWork ==
  ASSUME \A v \in Workers : pc'[v] = "idle"
  PROVE  Alone' /\ JobsFit'
  BY DEF Alone, JobsFit

LEMMA LeaveAlone ==
  ASSUME TypeInv, Alone, ~overlap, NEW w \in Workers, pc[w] # "idle",
         NEW outcome, Leave(w, outcome)
  PROVE  Alone' /\ JobsFit'
<1>1. \A v \in Workers : pc'[v] = "idle"
  BY DEF Leave, Goto, Alone, TypeInv, TypeOK
<1> QED BY <1>1, NobodyAtWork

(* The worker at work goes on.                                             *)
LEMMA MoveAlone ==
  ASSUME TypeInv, Alone, ~overlap, NEW w \in Workers, pc[w] # "idle",
         NEW place, NEW j, lease' = lease, ops' = ops, j.id = job[w].id,
         pc' = [pc EXCEPT ![w] = place], job' = [job EXCEPT ![w] = j],
         JobFits(j, place)'
  PROVE  Alone' /\ JobsFit'
<1>1. \A v \in Workers \ {w} : pc'[v] = "idle"
  BY DEF Alone, TypeInv, TypeOK
<1>2. pc'[w] = place /\ job'[w] = j
  BY DEF TypeInv, TypeOK
<1>3. Alone'
  BY <1>1, <1>2 DEF Alone
<1>4. JobsFit'
  BY <1>1, <1>2 DEF JobsFit, JobFits
<1> QED BY <1>3, <1>4

(* An operation begins.                                                    *)
LEMMA AcquireAlone ==
  ASSUME TypeInv, Alone, ~overlap, NEW w \in Workers, NEW j, NEW place,
         Acquire(w, j, place), j \in Job, place \in {"read", "select", "flush"},
         j.op = "delete" => j.defs[j.field] = None
  PROVE  Alone' /\ JobsFit'
<1>1. lease = None /\ pc[w] = "idle"
  BY DEF Acquire
<1>2. \A v \in Workers : pc[v] = "idle"
  BY <1>1, ContextAssumption DEF Alone
<1>3. PICK k : k = [j EXCEPT !.id = ops + 1]
  OBVIOUS
<1>4. k.op = j.op /\ k.defs = j.defs /\ k.field = j.field /\ k.id = ops + 1
  BY <1>3 DEF Job
<1>5. /\ pc'[w] = place /\ job'[w] = k /\ lease' = w /\ ops' = ops + 1
      /\ \A v \in Workers \ {w} : pc'[v] = "idle"
  BY <1>2, <1>3 DEF Acquire, Goto, TypeInv, TypeOK
<1>6. Alone'
  BY <1>4, <1>5 DEF Alone
<1>7. JobFits(k, place)'
  BY <1>4 DEF JobFits
<1>8. JobsFit'
  BY <1>5, <1>7 DEF JobsFit, JobFits
<1> QED BY <1>6, <1>8

(* What readers meet stays, or operations are counted.                     *)
LEMMA ReadsUndisturbed ==
  ASSUME TypeInv, TagsTell, ReadsRecent, ~overlap, ops' \in {ops, ops + 1},
         UNCHANGED <<snapshots, manifest, cache, read>>
  PROVE  TagsTell' /\ ReadsRecent'
  BY Numbers DEF TagsTell, ReadsRecent, Reading

LEMMA SourcesUndisturbed ==
  ASSUME SourcesExist, ~overlap, table' = table, sources \subseteq sources'
  PROVE  SourcesExist'
  BY DEF SourcesExist

(* A worker gives up or has nothing to do.                                 *)
LEMMA LeavesPublish ==
  ASSUME TypeInv, PublishInv, ~overlap, NEW w \in Workers, pc[w] # "idle",
         NEW outcome, Leave(w, outcome),
         UNCHANGED <<table, blobs, cache, read, ops>>
  PROVE  PublishInv'
  BY LeaveAlone, ReadsUndisturbed, SourcesUndisturbed DEF PublishInv, blobs

LEMMA BeginsPublish ==
  ASSUME TypeInv, PublishInv, ~overlap, NEW w \in Workers,
         \/ \E f \in Fields :
               \/ \E k \in Kinds, rev \in 0 .. MaxRev : SaveBegins(w, f, k, rev)
               \/ DeleteBegins(w, f)
         \/ \E r \in Runs : RunBegins(w, r)
  PROVE  PublishInv'
<1>1. UNCHANGED <<table, blobs, cache, read>> /\ ops' = ops + 1
  BY DEF SaveBegins, DeleteBegins, RunBegins, Acquire
<1>2. TagsTell' /\ ReadsRecent' /\ SourcesExist'
  BY <1>1, ReadsUndisturbed, SourcesUndisturbed DEF PublishInv, blobs
<1>3. ASSUME NEW f \in Fields, NEW k \in Kinds, NEW rev \in 0 .. MaxRev,
             SaveBegins(w, f, k, rev)
      PROVE  Alone' /\ JobsFit'
  <2>0. rev < MaxRev
    BY <1>3 DEF SaveBegins
  <2>1. rev \in 0 .. MaxRev - 1
    BY <2>0, ContextAssumption
  <2>2. PICK j : j = [NewJob("save", None, f) EXCEPT !.kind = k, !.rev = rev]
    OBVIOUS
  <2>3. j \in Job /\ j.op = "save"
    BY <2>1, <2>2, NewJobType DEF Job, NewJob
  <2> QED BY <1>3, <2>2, <2>3, AcquireAlone DEF SaveBegins, PublishInv
<1>4. ASSUME NEW f \in Fields, DeleteBegins(w, f) PROVE Alone' /\ JobsFit'
  <2>1. PICK j : j = NewJob("delete", None, f)
    OBVIOUS
  <2>2. j \in Job /\ j.defs[j.field] = None
    BY <2>1, NewJobType DEF NewJob, NoRows
  <2> QED BY <1>4, <2>1, <2>2, AcquireAlone DEF DeleteBegins, PublishInv
<1>5. ASSUME NEW r \in Runs, RunBegins(w, r) PROVE Alone' /\ JobsFit'
  <2>1. CASE r \in Refreshes
    <3>1. PICK j : j = NewJob("refresh", r, None)
      OBVIOUS
    <3>2. j \in Job /\ j.op = "refresh"
      BY <3>1, NewJobType DEF NewJob
    <3> QED BY <1>5, <2>1, <3>1, <3>2, AcquireAlone DEF RunBegins, PublishInv
  <2>2. CASE r \notin Refreshes
    <3>0. PICK gens, named : gens = {g \in Writers : snapshots[g] # None}
                             /\ named = (manifest # None)
      OBVIOUS
    <3>1. PICK j : j = [NewJob("flush", r, None) EXCEPT !.gens = gens, !.named = named]
      OBVIOUS
    <3>2. gens \in SUBSET Writers /\ named \in BOOLEAN
      BY <3>0
    <3>3. NewJob("flush", r, None) \in Job /\ NewJob("flush", r, None).op = "flush"
      BY NewJobType DEF NewJob
    <3>4. j \in Job /\ j.op = "flush"
      BY <3>1, <3>2, <3>3, FlushJobType
    <3>5. Acquire(w, j, "flush")
      BY <1>5, <2>2, <3>0, <3>1 DEF RunBegins
    <3> QED BY <3>4, <3>5, AcquireAlone DEF PublishInv
  <2> QED BY <2>1, <2>2
<1> QED BY <1>2, <1>3, <1>4, <1>5 DEF PublishInv

(* A worker's steps before it writes.                                      *)
LEMMA PreparesPublish ==
  ASSUME TypeInv, PublishInv, ~overlap, NEW w \in Workers,
         \/ SaveReads(w) \/ DeleteReads(w) \/ Lists(w)
         \/ \E inventory \in BOOLEAN : RefreshSelects(w, inventory)
         \/ RefreshChecks(w) \/ RefreshCompares(w)
  PROVE  PublishInv'
<1>0. /\ pc[w] # "idle" /\ JobOK(job[w], pc[w]) /\ job[w] \in Job /\ JobFits(job[w], pc[w])
      /\ table \in Definitions
  BY DEF TypeInv, TypeOK, Jobs, JobOK, PublishInv, JobsFit, SaveReads, DeleteReads, Lists,
         RefreshSelects, RefreshChecks, RefreshCompares
<1>1. ASSUME UNCHANGED <<table, snapshots, manifest, lease, cache, read, ops>>,
             sources \subseteq sources',
             NEW place, NEW j, j.id = job[w].id,
             pc' = [pc EXCEPT ![w] = place], job' = [job EXCEPT ![w] = j],
             JobFits(j, place)'
      PROVE  PublishInv'
  BY <1>0, <1>1, MoveAlone, ReadsUndisturbed, SourcesUndisturbed DEF PublishInv
<1>2. CASE SaveReads(w)
  <2>1. PICK f, row : /\ f = job[w].field
                      /\ row = [rev |-> job[w].rev + 1, kind |-> job[w].kind,
                                by |-> job[w].id]
    OBVIOUS
  <2>2. PICK j : j = [job[w] EXCEPT !.base = [@ EXCEPT ![f] = table[f]],
                                    !.defs = [@ EXCEPT ![f] = row], !.todo = {f}]
    OBVIOUS
  <2>3. j.id = job[w].id /\ j.op = "save" /\ j.field \in j.todo
    BY <1>0, <1>2, <2>1, <2>2 DEF Job, SaveReads
  <2>4. JobFits(j, "list")'
    BY <2>3 DEF JobFits
  <2>5. /\ pc' = [pc EXCEPT ![w] = "list"] /\ job' = [job EXCEPT ![w] = j]
        /\ sources \subseteq sources'
        /\ UNCHANGED <<table, snapshots, manifest, lease, cache, read, ops>>
    BY <1>2, <2>1, <2>2 DEF SaveReads, Goto
  <2> QED BY <1>1, <2>3, <2>4, <2>5
<1>3. CASE DeleteReads(w)
  <2>1. PICK f : f = job[w].field
    OBVIOUS
  <2>2. PICK j : j = [job[w] EXCEPT !.base = [@ EXCEPT ![f] = table[f]], !.todo = {f}]
    OBVIOUS
  <2>3. /\ j.id = job[w].id /\ j.op = "delete" /\ j.field \in j.todo
        /\ j.field = job[w].field /\ j.defs = job[w].defs
    BY <1>0, <1>3, <2>1, <2>2 DEF Job, DeleteReads
  <2>4. JobFits(j, "list")'
    BY <1>0, <1>3, <2>3 DEF JobFits, DeleteReads
  <2>5. /\ pc' = [pc EXCEPT ![w] = "list"] /\ job' = [job EXCEPT ![w] = j]
        /\ UNCHANGED <<table, sources, snapshots, manifest, lease, cache, read, ops>>
    BY <1>3, <2>1, <2>2 DEF DeleteReads, Goto, blobs
  <2> QED BY <1>1, <2>3, <2>4, <2>5
<1>4. CASE Lists(w)
  <2>1. PICK f : f = job[w].field
    OBVIOUS
  <2>2. PICK d : d = [table EXCEPT ![f] = job[w].defs[f]]
    OBVIOUS
  <2>3. PICK j : j = [job[w] EXCEPT !.defs = d]
    OBVIOUS
  <2>4. /\ j.id = job[w].id /\ j.op = job[w].op /\ j.op \in {"save", "delete"}
        /\ j.field = f /\ j.todo = job[w].todo /\ j.defs = d /\ f \in Fields
        /\ pc[w] = "list"
    BY <1>0, <1>4, <2>1, <2>3 DEF Job, JobOK, Lists
  <2>5. /\ \A g \in Fields \ {f} : d[g] = table[g]
        /\ d[f] = job[w].defs[f]
    BY <1>0, <2>2, <2>4 DEF Definitions
  <2>6. /\ pc' = [pc EXCEPT ![w] = "generate"] /\ job' = [job EXCEPT ![w] = j]
        /\ UNCHANGED <<table, sources, snapshots, manifest, lease, cache, read, ops>>
    BY <1>4, <2>1, <2>2, <2>3 DEF Lists, Goto, blobs
  <2>7. JobFits(j, "generate")'
    BY <1>0, <2>1, <2>4, <2>5, <2>6 DEF JobFits
  <2> QED BY <1>1, <2>4, <2>6, <2>7
<1>5. CASE \E inventory \in BOOLEAN : RefreshSelects(w, inventory)
  <2> PICK inventory \in BOOLEAN : RefreshSelects(w, inventory)
    BY <1>5
  <2>1. CASE \E outcome : Leave(w, outcome)
    BY <1>0, <2>1, LeavesPublish DEF RefreshSelects
  <2>2. CASE ~(\E outcome : Leave(w, outcome))
    <3>1. PICK b, t : /\ job' = [job EXCEPT ![w].base = b, ![w].todo = t]
                      /\ Goto(w, "check") /\ UNCHANGED <<etags, lease, run>>
      BY <2>2 DEF RefreshSelects, Finish
    <3>2. PICK j : j = [job[w] EXCEPT !.base = b, !.todo = t]
      OBVIOUS
    <3>3. j.id = job[w].id /\ j.op = "refresh"
      BY <1>0, <3>2 DEF Job, JobOK, RefreshSelects
    <3>4. JobFits(j, "check")'
      BY <3>3 DEF JobFits
    <3> QED BY <1>1, <3>1, <3>2, <3>3, <3>4 DEF RefreshSelects, Goto, blobs
  <2> QED BY <2>1, <2>2
<1>6. CASE RefreshChecks(w)
  <2>1. CASE Finish(w)
    BY <1>0, <1>6, <2>1, LeavesPublish DEF RefreshChecks, Finish
  <2>2. CASE ~AlreadyPublished(w) /\ Goto(w, "compare") /\ UNCHANGED <<etags, lease, job, run>>
    <3>1. PICK j : j = job[w]
      OBVIOUS
    <3>2. j.op = "refresh" /\ pc[w] = "check"
      BY <1>0, <1>6, <3>1 DEF JobOK, RefreshChecks
    <3>3. job' = [job EXCEPT ![w] = j]
      BY <2>2, <3>1 DEF TypeInv, TypeOK
    <3>4. JobFits(j, "compare")'
      BY <1>6, <2>2, <3>1, <3>2 DEF JobFits, AlreadyPublished, RefreshChecks, blobs
    <3> QED BY <1>1, <1>6, <2>2, <3>1, <3>3, <3>4 DEF RefreshChecks, Goto, blobs
  <2> QED BY <1>6, <2>1, <2>2 DEF RefreshChecks
<1>7. CASE RefreshCompares(w)
  <2>1. PICK now : now = [f \in Fields |-> IF f \in job[w].todo /\ table[f] # None
                                           THEN [table[f] EXCEPT !.by = job[w].run]
                                           ELSE table[f]]
    OBVIOUS
  <2>2. PICK j : j = [job[w] EXCEPT !.base = table, !.defs = now]
    OBVIOUS
  <2>3. /\ j.id = job[w].id /\ j.op = "refresh" /\ job[w].op = "refresh"
        /\ j.todo = job[w].todo /\ j.defs = now
        /\ j.run = job[w].run /\ pc[w] = "compare"
    BY <1>0, <1>7, <2>2 DEF Job, JobOK, RefreshCompares
  <2>4. /\ pc' = [pc EXCEPT ![w] = "generate"] /\ job' = [job EXCEPT ![w] = j]
        /\ sources \subseteq sources'
        /\ UNCHANGED <<table, snapshots, manifest, lease, cache, read, ops>>
    BY <1>7, <2>1, <2>2 DEF RefreshCompares, Goto
  <2>5. \A f \in Fields \ j.todo : now[f] = table[f]
    BY <2>1, <2>3
  <2>6. manifest = None \/ manifest.gen # j.run
    BY <1>0, <2>3 DEF JobFits
  <2>7. JobFits(j, "generate")'
    BY <2>3, <2>4, <2>5, <2>6 DEF JobFits
  <2> QED BY <1>1, <2>3, <2>4, <2>7
<1> QED BY <1>2, <1>3, <1>4, <1>5, <1>6, <1>7

(* A worker writes.                                                        *)
LEMMA WritesPublish ==
  ASSUME TypeInv, PublishInv, ~overlap, NEW w \in Workers,
         \/ \E g \in Writers : FlushDropsSnapshot(w, g)
         \/ FlushDropsManifest(w) \/ Generates(w)
         \/ \E f \in Fields : WritesDefinition(w, f)
         \/ Publishes(w) \/ Remembers(w) \/ CleansSources(w)
  PROVE  PublishInv'
<1>0. /\ pc[w] # "idle" /\ JobOK(job[w], pc[w]) /\ job[w] \in Job /\ JobFits(job[w], pc[w])
      /\ table \in Definitions /\ job[w].id = ops
      /\ Alone /\ TagsTell /\ SourcesExist /\ ReadsRecent
      /\ snapshots \in [Writers -> Snapshot \cup {None}]
      /\ Generation(job[w]) \in Writers /\ Made(job[w]) \in Snapshot
  <2>1. pc[w] # "idle"
    BY DEF FlushDropsSnapshot, FlushDropsManifest, Generates, WritesDefinition, Publishes,
           Remembers, CleansSources
  <2> QED BY <2>1, MadeType DEF TypeInv, TypeOK, Jobs, JobOK, PublishInv, JobsFit, Alone
<1>1. CASE \E g \in Writers : FlushDropsSnapshot(w, g)
  <2> PICK g \in Writers : FlushDropsSnapshot(w, g)
    BY <1>1
  <2>1. PICK j : j = [job[w] EXCEPT !.gens = @ \ {g}]
    OBVIOUS
  <2>2. j.id = job[w].id /\ pc[w] = "flush"
    BY <1>0, <2>1 DEF Job, FlushDropsSnapshot
  <2>3. /\ pc' = [pc EXCEPT ![w] = "flush"] /\ job' = [job EXCEPT ![w] = j]
        /\ UNCHANGED <<table, sources, manifest, lease, cache, read, ops>>
        /\ \A f \in Writers : snapshots'[f] \in {snapshots[f], None}
    BY <1>0, <2>1, <2>2 DEF FlushDropsSnapshot, TypeInv, TypeOK
  <2>4. JobFits(j, "flush")'
    BY DEF JobFits
  <2>5. Alone' /\ JobsFit'
    BY <1>0, <2>2, <2>3, <2>4, MoveAlone
  <2>6. TagsTell' /\ ReadsRecent'
    BY <1>0, <2>3, Numbers DEF TagsTell, ReadsRecent, Reading, TypeInv, ReadsKnow
  <2> QED BY <1>0, <2>3, <2>5, <2>6, SourcesUndisturbed DEF PublishInv
<1>2. CASE FlushDropsManifest(w)
  <2>1. /\ UNCHANGED <<table, sources, snapshots, read, ops>>
        /\ manifest' \in {manifest, None} /\ cache' \in {cache, None}
        /\ Leave(w, Ended(job[w].run))
    BY <1>2 DEF FlushDropsManifest, Finish
  <2>2. Alone' /\ JobsFit'
    BY <1>0, <2>1, LeaveAlone
  <2>3. TagsTell' /\ ReadsRecent'
    BY <1>0, <2>1, Numbers DEF TagsTell, ReadsRecent, Reading
  <2> QED BY <1>0, <2>1, <2>2, <2>3, SourcesUndisturbed DEF PublishInv
<1>3. CASE Generates(w)
  <2>1. PICK j : j = job[w]
    OBVIOUS
  <2>2. /\ pc' = [pc EXCEPT ![w] = "write"] /\ job' = [job EXCEPT ![w] = j]
        /\ UNCHANGED <<table, sources, manifest, lease, cache, read, ops>>
        /\ snapshots' = [snapshots EXCEPT ![Generation(j)] = Made(j)]
        /\ \A f \in Fields : j.defs[f] # None => Source(f, j.defs[f]) \in sources
        /\ pc[w] = "generate"
    BY <1>3, <2>1 DEF Generates, Goto, TypeInv, TypeOK
  <2>3. snapshots'[Generation(j)] = Made(j) /\ Made(j).made = ops
        /\ \A g \in Writers \ {Generation(j)} : snapshots'[g] = snapshots[g]
    <3>1. Made(j).made = ops
      BY <1>0, <2>1 DEF Made
    <3> QED BY <1>0, <2>1, <2>2, <3>1
  <2>4. JobFits(j, "write")'
    BY <1>0, <2>1, <2>2, <2>3 DEF JobFits, Generation, Made
  <2>5. Alone' /\ JobsFit'
    BY <1>0, <2>1, <2>2, <2>4, MoveAlone
  <2>6. TagsTell' /\ ReadsRecent'
    BY <1>0, <2>2, <2>3, Numbers DEF TagsTell, ReadsRecent, Reading, TypeInv, ReadsKnow
  <2> QED BY <1>0, <2>2, <2>5, <2>6, SourcesUndisturbed DEF PublishInv
<1>4. CASE \E f \in Fields : WritesDefinition(w, f)
  <2> PICK f \in Fields : WritesDefinition(w, f)
    BY <1>4
  <2>1. PICK j : j = [job[w] EXCEPT !.todo = @ \ {f}]
    OBVIOUS
  <2>2. /\ j.id = job[w].id /\ j.op = job[w].op /\ j.field = job[w].field
        /\ j.run = job[w].run /\ j.defs = job[w].defs /\ j.todo = job[w].todo \ {f}
        /\ pc[w] = "write"
    BY <1>0, <2>1 DEF Job, WritesDefinition
  <2>3. /\ pc' = [pc EXCEPT ![w] = "write"] /\ job' = [job EXCEPT ![w] = j]
        /\ UNCHANGED <<sources, snapshots, manifest, lease, cache, read, ops>>
        /\ table'[f] = j.defs[f] /\ \A g \in Fields \ {f} : table'[g] = table[g]
    BY <1>0, <2>1, <2>2 DEF WritesDefinition, TypeInv, TypeOK, Definitions, blobs
  <2>4. JobFits(j, "write")'
    BY <1>0, <2>2, <2>3 DEF JobFits, Generation, Made
  <2>5. Alone' /\ JobsFit'
    BY <1>0, <2>2, <2>3, <2>4, MoveAlone
  <2>6. SourcesExist'
    BY <1>0, <2>2, <2>3 DEF SourcesExist, JobFits
  <2> QED BY <1>0, <2>3, <2>5, <2>6, ReadsUndisturbed DEF PublishInv
<1>5. CASE Publishes(w)
  <2>1. PICK j : j = job[w]
    OBVIOUS
  <2>2. /\ pc' = [pc EXCEPT ![w] = "remember"] /\ job' = [job EXCEPT ![w] = j]
        /\ UNCHANGED <<table, sources, snapshots, lease, cache, read, ops>>
        /\ manifest' = [gen |-> Generation(j), tag |-> ops]
        /\ pc[w] = "write" /\ j.todo = {}
    BY <1>0, <1>5, <2>1 DEF Publishes, Goto, TypeInv, TypeOK
  <2>3. JobFits(j, "remember")'
    BY <1>0, <2>1, <2>2 DEF JobFits, JobOK
  <2>4. Alone' /\ JobsFit'
    BY <1>0, <2>1, <2>2, <2>3, MoveAlone
  <2>5. snapshots[Generation(j)].made = ops
    BY <1>0, <2>1, <2>2 DEF JobFits, Made
  <2>6. TagsTell' /\ ReadsRecent'
    BY <1>0, <2>2, <2>5, Numbers DEF TagsTell, ReadsRecent, Reading
  <2> QED BY <1>0, <2>2, <2>4, <2>6, SourcesUndisturbed DEF PublishInv
<1>6. CASE Remembers(w)
  <2>1. UNCHANGED <<table, sources, snapshots, manifest, read, ops>>
    BY <1>6 DEF Remembers, blobs
  <2>2. Alone' /\ JobsFit'
    <3>1. CASE Finish(w)
      BY <1>0, <3>1, LeaveAlone DEF Finish
    <3>2. CASE Goto(w, "clean") /\ UNCHANGED <<etags, lease, job, run>>
      <4>1. PICK j : j = job[w]
        OBVIOUS
      <4>2. pc[w] = "remember" /\ job' = [job EXCEPT ![w] = j]
        BY <1>6, <3>2, <4>1 DEF Remembers, TypeInv, TypeOK
      <4>3. JobFits(j, "clean")'
        BY <1>0, <2>1, <4>1, <4>2 DEF JobFits
      <4> QED BY <1>0, <2>1, <3>2, <4>1, <4>2, <4>3, MoveAlone DEF Goto
    <3> QED BY <1>6, <3>1, <3>2 DEF Remembers
  <2>3. cache' # cache => cache'.snapshot.made = ops /\ cache'.tag = ops
    BY <1>0, <1>6 DEF Remembers, Made
  <2>4. TagsTell' /\ ReadsRecent'
    BY <1>0, <2>1, <2>3, Numbers DEF TagsTell, ReadsRecent, Reading
  <2> QED BY <1>0, <2>1, <2>2, <2>4, SourcesUndisturbed DEF PublishInv
<1>7. CASE CleansSources(w)
  <2>1. /\ UNCHANGED <<table, snapshots, manifest, cache, read, ops>>
        /\ sources' = {s \in sources : s[1] # job[w].field}
        /\ Leave(w, Ended(job[w].run)) /\ pc[w] = "clean"
    BY <1>7 DEF CleansSources, Finish
  <2>2. Alone' /\ JobsFit'
    BY <1>0, <2>1, LeaveAlone
  <2>3. table[job[w].field] = None
    BY <1>0, <2>1 DEF JobFits, JobOK
  <2>4. SourcesExist'
    BY <1>0, <2>1, <2>3 DEF SourcesExist, Source
  <2> QED BY <1>0, <2>1, <2>2, <2>4, ReadsUndisturbed DEF PublishInv
<1> QED BY <1>1, <1>2, <1>3, <1>4, <1>5, <1>6, <1>7

(* A reader goes on.                                                       *)
LEMMA ReadsPublish ==
  ASSUME TypeInv, PublishInv, ~overlap, NEW r \in Readers, Reads(r)
  PROVE  PublishInv'
<1>1. UNCHANGED <<table, blobs, lease, pc, job, ops, overlap>>
  BY DEF Reads, ReadsTag, ReadsManifest, ReadsSnapshot, KeepsSnapshot
<1>2. Alone' /\ JobsFit' /\ SourcesExist'
  BY <1>1 DEF PublishInv, Alone, JobsFit, JobFits, SourcesExist, blobs
<1>3. /\ read \in [Readers -> [at : {"manifest", "snapshot", "loaded"},
                               tag : 0 .. MaxOps, gen : Writers \cup {None},
                               got : Snapshot \cup {None}] \cup {None}]
      /\ \A s \in Readers \ {r} : read'[s] = read[s]
  BY DEF TypeInv, TypeOK, Reads, ReadsTag, ReadsManifest, ReadsSnapshot, KeepsSnapshot
<1>4. CASE ReadsTag(r)
  <2>1. /\ read'[r].tag = manifest.tag /\ read'[r].at = "manifest" /\ manifest # None
        /\ cache' = cache
    BY <1>3, <1>4 DEF ReadsTag
  <2>2. TagsTell' /\ ReadsRecent'
    BY <1>1, <1>3, <2>1, Numbers DEF PublishInv, TagsTell, ReadsRecent, Reading, blobs
  <2> QED BY <1>2, <2>2 DEF PublishInv
<1>5. CASE ReadsManifest(r)
  <2>1. /\ cache' = cache /\ Reading(r, "manifest")
        /\ \/ read'[r] = None
           \/ /\ manifest # None /\ read'[r].tag = read[r].tag /\ read'[r].at = "snapshot"
              /\ read'[r].gen = manifest.gen
    BY <1>3, <1>5 DEF ReadsManifest, Reading
  <2>2. TagsTell' /\ ReadsRecent'
    BY <1>1, <1>3, <2>1, Numbers DEF PublishInv, TagsTell, ReadsRecent, Reading, blobs
  <2> QED BY <1>2, <2>2 DEF PublishInv
<1>6. CASE ReadsSnapshot(r)
  <2>1. /\ cache' = cache /\ Reading(r, "snapshot")
        /\ \/ read'[r] = None
           \/ /\ snapshots[read[r].gen] # None /\ read'[r].tag = read[r].tag
              /\ read'[r].at = "loaded" /\ read'[r].got = snapshots[read[r].gen]
    BY <1>3, <1>6 DEF ReadsSnapshot, Reading
  <2>2. TagsTell' /\ ReadsRecent'
    BY <1>1, <1>3, <2>1, Numbers DEF PublishInv, TagsTell, ReadsRecent, Reading, blobs
  <2> QED BY <1>2, <2>2 DEF PublishInv
<1>7. CASE KeepsSnapshot(r)
  <2>1. /\ cache' = [tag |-> read[r].tag, snapshot |-> read[r].got]
        /\ read'[r] = None /\ Reading(r, "loaded")
    BY <1>3, <1>7 DEF KeepsSnapshot, KeptTag
  <2>2. TagsTell' /\ ReadsRecent'
    BY <1>1, <1>3, <2>1, Numbers DEF PublishInv, TagsTell, ReadsRecent, Reading, blobs
  <2> QED BY <1>2, <2>2 DEF PublishInv
<1> QED BY <1>4, <1>5, <1>6, <1>7 DEF Reads

(* Of all steps only the end of a lease tells an overlap, and only         *)
(* Publishes names another generation.                                     *)
LEMMA WorksNames ==
  ASSUME NEW w \in Workers, Works(w)
  PROVE  overlap' = overlap /\ (Publishes(w) \/ manifest' \in {manifest, None})
<1>1. ASSUME NEW f \in Fields, NEW k \in Kinds, NEW rev \in 0 .. MaxRev,
             SaveBegins(w, f, k, rev)
      PROVE  overlap' = overlap /\ manifest' = manifest
  BY <1>1 DEF SaveBegins, blobs
<1>2. ASSUME SaveReads(w) \/ DeleteReads(w) PROVE overlap' = overlap /\ manifest' = manifest
  BY <1>2 DEF SaveReads, DeleteReads, blobs
<1>3. ASSUME NothingToDo(w) \/ Fails(w) PROVE overlap' = overlap /\ manifest' = manifest
  BY <1>3 DEF NothingToDo, Finish, Leave, Fails, blobs
<1>4. ASSUME Lists(w) PROVE overlap' = overlap /\ manifest' = manifest
  BY <1>4 DEF Lists, blobs
<1>5. ASSUME NEW r \in Runs, RunBegins(w, r) PROVE overlap' = overlap /\ manifest' = manifest
  BY <1>5 DEF RunBegins, blobs
<1>6. ASSUME NEW inventory \in BOOLEAN, RefreshSelects(w, inventory)
      PROVE  overlap' = overlap /\ manifest' = manifest
  BY <1>6 DEF RefreshSelects, blobs
<1>7. ASSUME RefreshChecks(w) \/ RefreshCompares(w)
      PROVE  overlap' = overlap /\ manifest' = manifest
  BY <1>7 DEF RefreshChecks, RefreshCompares, Finish, Leave, blobs
<1>8. ASSUME NEW g \in Writers, FlushDropsSnapshot(w, g)
      PROVE  overlap' = overlap /\ manifest' = manifest
  BY <1>8 DEF FlushDropsSnapshot
<1>9. ASSUME FlushDropsManifest(w) PROVE overlap' = overlap /\ manifest' \in {manifest, None}
  BY <1>9 DEF FlushDropsManifest
<1>10. ASSUME Generates(w) \/ Remembers(w) \/ CleansSources(w)
       PROVE  overlap' = overlap /\ manifest' = manifest
  BY <1>10 DEF Generates, Remembers, CleansSources, blobs
<1>11. ASSUME Publishes(w) PROVE overlap' = overlap
  BY <1>11 DEF Publishes
<1>12. CASE \E f \in Fields : \/ \E k \in Kinds, rev \in 0 .. MaxRev : SaveBegins(w, f, k, rev)
                             \/ DeleteBegins(w, f) \/ WritesDefinition(w, f)
  <2>1. PICK f \in Fields : \/ \E k \in Kinds, rev \in 0 .. MaxRev : SaveBegins(w, f, k, rev)
                            \/ DeleteBegins(w, f) \/ WritesDefinition(w, f)
    BY <1>12
  <2>2. CASE \E k \in Kinds, rev \in 0 .. MaxRev : SaveBegins(w, f, k, rev)
    BY <1>1, <2>2
  <2>3. CASE DeleteBegins(w, f)
    BY <2>3 DEF DeleteBegins, blobs
  <2>4. CASE WritesDefinition(w, f)
    BY <2>4 DEF WritesDefinition, blobs
  <2> QED BY <2>1, <2>2, <2>3, <2>4
<1> QED BY <1>2, <1>3, <1>4, <1>5, <1>6, <1>7, <1>8, <1>9, <1>10, <1>11, <1>12 DEF Works

LEMMA StepNames ==
  ASSUME [Next]_vars
  PROVE  /\ overlap' = overlap \/ LeaseExpires
         /\ manifest' \in {manifest, None} \/ \E w \in Workers : Publishes(w)
<1>1. ASSUME NEW w \in Workers, Works(w)
      PROVE  overlap' = overlap /\ (Publishes(w) \/ manifest' \in {manifest, None})
  BY <1>1, WorksNames
<1>2. ASSUME NEW r \in Runs, RunFindsLeaseTaken(r) PROVE overlap' = overlap /\ manifest' = manifest
  BY <1>2 DEF RunFindsLeaseTaken, blobs
<1>3. ASSUME NEW r \in Readers, Reads(r) PROVE overlap' = overlap /\ manifest' = manifest
  BY <1>3 DEF Reads, ReadsTag, ReadsManifest, ReadsSnapshot, KeepsSnapshot, blobs
<1>4. ASSUME LeaseExpires PROVE manifest' = manifest
  BY <1>4 DEF LeaseExpires, blobs
<1>5. ASSUME NEW process, Dies(process) PROVE overlap' = overlap /\ manifest' = manifest
  BY <1>5 DEF Dies, blobs
<1>6. CASE UNCHANGED vars
  BY <1>6 DEF vars, blobs
<1> QED BY <1>1, <1>2, <1>3, <1>4, <1>5, <1>6 DEF Next

LEMMA PublishStep ==
  ASSUME TypeInv, PublishInv, [Next]_vars PROVE PublishInv'
<1>0. CASE overlap'
  BY <1>0 DEF PublishInv, Alone, JobsFit, TagsTell, SourcesExist, ReadsRecent
<1> SUFFICES ASSUME ~overlap' PROVE PublishInv'
  BY <1>0
<1>1. ~overlap
  BY StepNames DEF LeaseExpires
<1>2. CASE UNCHANGED <<table, blobs, lease, cache, pc, job, read, ops>>
  BY <1>1, <1>2 DEF PublishInv, Alone, JobsFit, JobFits, TagsTell, SourcesExist, ReadsRecent,
                    Reading, blobs
<1>3. ASSUME NEW w \in Workers, NothingToDo(w) \/ Fails(w) PROVE PublishInv'
  BY <1>1, <1>3, LeavesPublish DEF NothingToDo, Fails, Finish
<1>4. ASSUME NEW w \in Workers, Works(w) PROVE PublishInv'
  BY <1>1, <1>3, <1>4, BeginsPublish, PreparesPublish, WritesPublish DEF Works
<1>5. CASE LeaseExpires
  <2>1. /\ UNCHANGED <<table, blobs, cache, pc, job, read, ops>> /\ lease # None
        /\ pc[lease] = "idle"
    BY <1>5 DEF LeaseExpires
  <2>2. \A w \in Workers : pc'[w] = "idle"
    BY <1>1, <2>1 DEF PublishInv, Alone
  <2> QED BY <1>1, <2>1, <2>2, NobodyAtWork, ReadsUndisturbed, SourcesUndisturbed
     DEF PublishInv, blobs
<1>6. ASSUME NEW process \in SUBSET Workers, Dies(process) PROVE PublishInv'
  <2>1. /\ UNCHANGED <<table, blobs, lease, ops>>
        /\ \A w \in Workers : pc'[w] # "idle" => pc'[w] = pc[w] /\ job'[w] = job[w]
        /\ cache' \in {None, cache}
        /\ \A r \in Readers : read'[r] \in {read[r], None}
    BY <1>6 DEF Dies
  <2>2. Alone' /\ JobsFit' /\ SourcesExist'
    BY <1>1, <2>1 DEF PublishInv, Alone, JobsFit, JobFits, SourcesExist, blobs
  <2>3. TagsTell' /\ ReadsRecent'
    BY <1>1, <2>1 DEF PublishInv, TagsTell, ReadsRecent, Reading, blobs
  <2> QED BY <2>2, <2>3 DEF PublishInv
<1>7. Local \in SUBSET Workers /\ \A w \in Workers \ Local : {w} \in SUBSET Workers
  BY ContextAssumption
<1>8. ASSUME NEW r \in Readers, Reads(r) PROVE PublishInv'
  BY <1>1, <1>8, ReadsPublish
<1> QED BY <1>2, <1>4, <1>5, <1>6, <1>7, <1>8 DEF Next, RunFindsLeaseTaken, vars

LEMMA PublishInit == Init => PublishInv
<1> SUFFICES ASSUME Init PROVE PublishInv
  OBVIOUS
<1>1. \A w \in Workers : pc[w] = "idle"
  BY DEF Init
<1>2. SourcesExist
  BY DEF Init, SourcesExist
<1>3. 0 \in Writers
  BY NumbersAreWriters
<1>4. manifest # None => manifest.tag = 0 /\ manifest.gen = 0 /\ snapshots[0].made = 0
  BY <1>3 DEF Init
<1>5. TagsTell /\ ReadsRecent
  BY <1>4 DEF Init, TagsTell, ReadsRecent, Reading
<1> QED BY <1>1, <1>2, <1>5 DEF PublishInv, Alone, JobsFit

THEOREM PublishInvHolds == Spec => []PublishInv
  BY PublishInit, PublishStep, TypeInvHolds, PTL DEF Spec

(* As long as no holder outlives its lease, every definition has its       *)
(* source blob: no save, delete or refresh takes away one that a row       *)
(* names, wherever it stops (the clean-up of delete_definition, the fresh  *)
(* name of every upload).                                                  *)
THEOREM EverySourceExists == Spec => []SourcesExist
<1>1. PublishInv => SourcesExist
  BY DEF PublishInv
<1> QED BY <1>1, PublishInvHolds, PTL

(* As long as no holder outlives its lease, no read answers with, and no   *)
(* cache keeps, a generation older than the one its ETag stood for         *)
(* (_snapshot, which takes the ETag before it loads).                      *)
THEOREM ReadsAreRecent == Spec => []ReadsRecent
<1>1. PublishInv => ReadsRecent
  BY DEF PublishInv
<1> QED BY <1>1, PublishInvHolds, PTL

(* Only Publishes names another generation.                                *)
LEMMA OnlyPublishes ==
  ASSUME [Next]_vars, manifest' # manifest, manifest' # None
  PROVE  \E w \in Workers : Publishes(w)
  BY StepNames

(* As long as no holder outlives its lease, what becomes current is the    *)
(* whole table.                                                            *)
THEOREM EverythingIsPublished == Spec => PublishesAll
<1> DEFINE All == ~overlap /\ manifest' # manifest /\ manifest' # None
                     => snapshots'[manifest'.gen].fields = table'
<1>1. TypeInv /\ PublishInv /\ [Next]_vars => All
  <2> SUFFICES ASSUME TypeInv, PublishInv, [Next]_vars, ~overlap,
                      manifest' # manifest, manifest' # None
               PROVE  snapshots'[manifest'.gen].fields = table'
    OBVIOUS
  <2>1. PICK w \in Workers : Publishes(w)
    BY OnlyPublishes
  <2>2. /\ pc[w] = "write" /\ job[w].todo = {} /\ table' = table /\ snapshots' = snapshots
        /\ manifest'.gen = Generation(job[w])
    BY <2>1 DEF Publishes
  <2>3. JobFits(job[w], "write") /\ job[w].defs \in Definitions /\ table \in Definitions
    BY <2>2 DEF PublishInv, JobsFit, TypeInv, TypeOK, Jobs, JobOK, Job
  <2>4. job[w].defs = table
    BY <2>2, <2>3 DEF JobFits, Definitions
  <2> QED BY <2>2, <2>3, <2>4 DEF JobFits, Made
<1>2. TypeInv /\ PublishInv /\ [Next]_vars => [All]_vars
  BY <1>1
<1> QED BY <1>2, TypeInvHolds, PublishInvHolds, PTL DEF Spec, PublishesAll

(* As long as no holder outlives its lease, a refresh publishes once,      *)
(* however often it is delivered (publish_refresh_batch asks the manifest).*)
THEOREM RunsPublishOnce == Spec => RunPublishesOnce
<1> DEFINE Once == ~overlap /\ manifest # None /\ manifest' # manifest /\ manifest' # None
                      /\ manifest.gen \in Refreshes
                      => manifest'.gen # manifest.gen
<1>1. TypeInv /\ PublishInv /\ [Next]_vars => Once
  <2> SUFFICES ASSUME TypeInv, PublishInv, [Next]_vars, ~overlap, manifest # None,
                      manifest' # manifest, manifest' # None, manifest.gen \in Refreshes
               PROVE  manifest'.gen # manifest.gen
    OBVIOUS
  <2>1. PICK w \in Workers : Publishes(w)
    BY OnlyPublishes
  <2>2. pc[w] = "write" /\ manifest'.gen = Generation(job[w])
    BY <2>1 DEF Publishes
  <2>3. JobFits(job[w], "write") /\ job[w].id \in 0 .. MaxOps
    BY <2>2 DEF PublishInv, JobsFit, TypeInv, TypeOK, Jobs, JobOK, Job
  <2> QED BY <2>2, <2>3, ContextAssumption DEF JobFits, Generation
<1>2. TypeInv /\ PublishInv /\ [Next]_vars => [Once]_vars
  BY <1>1
<1> QED BY <1>2, TypeInvHolds, PublishInvHolds, PTL DEF Spec, RunPublishesOnce
=============================================================================
