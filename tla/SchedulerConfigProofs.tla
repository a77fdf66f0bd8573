------------------------ MODULE SchedulerConfigProofs ------------------------
(***************************************************************************)
(* Theorems of SchedulerConfig, for any pipelines, administrators, edits   *)
(* and bounds.                                                             *)
(***************************************************************************)
EXTENDS SchedulerConfig, TLAPS

(***************************************************************************)
(* An actor's position and locals, when the rest of the row's state moves: *)
(* the fields of the locals and of the rows.                               *)
(***************************************************************************)
LEMMA Fields ==
  ASSUME TypeOK, NEW e \in Admins
  PROVE  /\ loc[e].p \in Pipelines /\ loc[e].set \in Settings /\ loc[e].seen \in Row
         /\ loc[e].seen.rev \in Nat /\ loc[e].seen.set \in Settings
         /\ \A p \in Pipelines : override[p].rev \in Nat /\ override[p].set \in Settings
  BY DEF TypeOK, Row

LEMMA DefaultsTyped ==
  ASSUME ConfigAssumption, NEW p \in Pipelines
  PROVE  NoRowOf(p) \in Row /\ NoRowOf(p).rev = 0 /\ Defaults[p] \in Settings
  BY DEF ConfigAssumption, NoRowOf, Row

LEMMA InitConfig ==
  ASSUME ConfigAssumption, Init
  PROVE  SeenInv
<1>1. \A p \in Pipelines : override[p] = NoRowOf(p) /\ override[p].rev = 0
  BY DefaultsTyped DEF Init
<1>2. \A e \in Admins :
        /\ loc[e].p \in Pipelines /\ loc[e].seen = NoRowOf(loc[e].p)
        /\ loc[e] \in [p : Pipelines, seen : Row, set : Settings]
  BY DefaultsTyped DEF Init
<1>3. loc \in [Admins -> [p : Pipelines, seen : Row, set : Settings]]
  BY <1>2, DefaultsTyped DEF Init
<1>4. TypeOK
  BY <1>1, <1>3, DefaultsTyped DEF Init, TypeOK, Absent, Labels
<1>5. EveryEditCounted /\ WriteReady
  BY <1>1 DEF Init, EveryEditCounted, WriteReady, Ready, At
<1>6. RevisionNames
  BY <1>1, <1>2 DEF RevisionNames
<1> QED BY <1>4, <1>5, <1>6 DEF SeenInv, ConfigInv

(***************************************************************************)
(* A call that does not move stays ready if its row does not change, or is *)
(* replaced by a row that has no ETag in common with the one it read.      *)
(***************************************************************************)
LEMMA OthersReady ==
  ASSUME WriteReady, NEW f \in Admins, pc'[f] = pc[f], loc'[f] = loc[f],
         override'[loc[f].p] = override[loc[f].p],
         f \in etag'[loc[f].p] => f \in etag[loc[f].p]
  PROVE  Ready(f)'
<1> DEFINE p == loc[f].p
<1>1. Ready(f)
  BY DEF WriteReady
<1>2. RowAsRead(f, p)' => RowAsRead(f, p)
  BY DEF RowAsRead, Absent
<1> QED BY <1>1, <1>2 DEF Ready, At

LEMMA ReplacedReady ==
  ASSUME WriteReady, NEW f \in Admins, pc'[f] = pc[f], loc'[f] = loc[f],
         f \notin etag'[loc[f].p]
  PROVE  Ready(f)'
<1>1. Ready(f)
  BY DEF WriteReady
<1> QED BY <1>1 DEF Ready, RowAsRead, Absent, At

(***************************************************************************)
(* Every action keeps ConfigInv.                                           *)
(***************************************************************************)
LEMMA NextConfig ==
  ASSUME ConfigAssumption, ConfigInv, [Next]_vars
  PROVE  ConfigInv'
<1>0. TypeOK /\ EveryEditCounted /\ WriteReady
  BY DEF ConfigInv
<1>1. ASSUME NEW e \in Admins, NEW q \in Pipelines, LoadForm(e, q) PROVE ConfigInv'
  <2>1. override[q] \in Row /\ override[q].set \in Settings
    BY <1>0 DEF TypeOK, Row
  <2>2. TypeOK'
    BY <1>0, <1>1, <2>1 DEF LoadForm, Goto, TypeOK, Labels, Absent
  <2>3. EveryEditCounted'
    BY <1>0, <1>1 DEF LoadForm, EveryEditCounted
  <2>4. WriteReady'
    <3> SUFFICES ASSUME NEW f \in Admins PROVE Ready(f)'
      BY DEF WriteReady
    <3>1. CASE f = e
      BY <1>0, <1>1, <3>1 DEF LoadForm, Goto, TypeOK, Ready, At
    <3>2. CASE f # e
      BY <1>0, <1>1, <3>2, OthersReady DEF LoadForm, Goto, TypeOK
    <3> QED BY <3>1, <3>2
  <2> QED BY <2>2, <2>3, <2>4 DEF ConfigInv
<1>2. ASSUME NEW e \in Admins, NEW set \in Edits, Submit(e, set) PROVE ConfigInv'
  <2>1. UNCHANGED <<override, etag, todo, accepted, outdated>> /\ set \in Settings
    BY <1>2, ConfigAssumption DEF Submit, ConfigAssumption
  <2>2. EveryEditCounted'
    BY <1>0, <2>1 DEF EveryEditCounted
  <2>3. CASE UNCHANGED <<pc, loc>>
    <3>1. TypeOK'
      BY <1>0, <2>1, <2>3 DEF TypeOK, Absent
    <3>2. WriteReady'
      BY <1>0, <2>1, <2>3, OthersReady DEF WriteReady
    <3> QED BY <2>2, <3>1, <3>2 DEF ConfigInv
  <2>4. CASE ValidEdit(loc[e].p, set) /\ Goto(e, "read")
             /\ loc' = [loc EXCEPT ![e].set = set]
    <3>1. TypeOK'
      BY <1>0, <2>1, <2>4 DEF Goto, TypeOK, Labels, Absent
    <3>2. /\ loc'[e].p = loc[e].p /\ loc'[e].set = set
          /\ pc'[e] = "read"
          /\ \A f \in Admins \ {e} : loc'[f] = loc[f] /\ pc'[f] = pc[f]
      BY <1>0, <2>4 DEF Goto, TypeOK
    <3>3. Ready(e)'
      BY <2>4, <3>2 DEF Ready, At
    <3>4. WriteReady'
      BY <1>0, <2>1, <3>2, <3>3, OthersReady DEF WriteReady
    <3> QED BY <2>2, <3>1, <3>4 DEF ConfigInv
  <2> QED BY <1>2, <2>3, <2>4 DEF Submit
<1>3. ASSUME NEW e \in Admins, PatchRead(e) PROVE ConfigInv'
  <2>1. TypeOK'
    BY <1>0, <1>3 DEF PatchRead, Goto, TypeOK, Labels, Absent
  <2>2. EveryEditCounted'
    BY <1>0, <1>3 DEF PatchRead, EveryEditCounted
  <2>3. /\ \A f \in Admins \ {e} : pc'[f] = pc[f]
        /\ \A f \in Admins \ {e}, p \in Pipelines : f \in etag'[p] => f \in etag[p]
        /\ UNCHANGED <<override, loc>> /\ pc[e] = "read"
    BY <1>0, <1>3 DEF PatchRead, Goto, TypeOK, At
  <2>4. pc'[e] \in {"write", "conflict"} /\
        (pc'[e] = "write" => loc[e].seen.rev = override[loc[e].p].rev)
    BY <1>0, <1>3 DEF PatchRead, Goto, TypeOK, RevisionMatches
  <2>5. ValidEdit(loc[e].p, loc[e].set)
    BY <1>0, <2>3 DEF WriteReady, Ready
  <2>6. Ready(e)'
    BY <2>3, <2>4, <2>5 DEF Ready, At
  <2>7. \A f \in Admins \ {e} : Ready(f)'
    BY <1>0, <2>3, OthersReady, Fields
  <2>8. WriteReady'
    BY <2>6, <2>7 DEF WriteReady
  <2> QED BY <2>1, <2>2, <2>8 DEF ConfigInv
<1>4. ASSUME NEW e \in Admins, PatchWrite(e) PROVE ConfigInv'
  <2> DEFINE q == loc[e].p
  <2> DEFINE row == [set |-> loc[e].set, rev |-> loc[e].seen.rev + 1]
  <2>1. UNCHANGED <<loc, todo, outdated>> /\ pc[e] = "write" /\ q \in Pipelines
    BY <1>0, <1>4, Fields DEF PatchWrite, At
  <2>2. CASE Goto(e, "conflict") /\ UNCHANGED <<override, etag, accepted>>
    <3>1. TypeOK' /\ EveryEditCounted'
      BY <1>0, <2>1, <2>2 DEF Goto, TypeOK, Labels, Absent, EveryEditCounted
    <3>2. pc'[e] = "conflict" /\ \A f \in Admins \ {e} : pc'[f] = pc[f]
      BY <1>0, <2>2 DEF Goto, TypeOK
    <3>3. Ready(e)'
      BY <3>2 DEF Ready, At
    <3>4. WriteReady'
      BY <1>0, <2>1, <2>2, <3>2, <3>3, OthersReady DEF WriteReady
    <3> QED BY <3>1, <3>4 DEF ConfigInv
  <2>3. CASE /\ RowAsRead(e, q) /\ Goto(e, "saved")
             /\ override' = [override EXCEPT ![q] = row]
             /\ etag' = [etag EXCEPT ![q] = {}]
             /\ accepted' = [accepted EXCEPT ![q] = @ + 1]
    <3>1. row \in Row /\ row.rev # 0 /\ row.set = loc[e].set
          /\ row.rev = override[q].rev + 1
      BY <1>0, <2>1, <2>3, Fields DEF Row, WriteReady, Ready, At
    <3>2. ValidEdit(q, row.set)
      BY <1>0, <2>1, <3>1 DEF WriteReady, Ready
    <3> HIDE DEF row
    <3>3. /\ override'[q] = row /\ etag'[q] = {}
          /\ \A p \in Pipelines \ {q} : override'[p] = override[p] /\ etag'[p] = etag[p]
          /\ pc'[e] = "saved" /\ \A f \in Admins \ {e} : pc'[f] = pc[f]
      BY <1>0, <2>1, <2>3 DEF TypeOK, Goto
    <3>4. TypeOK'
      <4>1. override' \in [Pipelines -> Row]
        BY <1>0, <2>3, <3>1 DEF TypeOK
      <4>2. \A p \in Pipelines : Absent(p)' \/ ValidEdit(p, override'[p].set)
        BY <1>0, <3>2, <3>3 DEF TypeOK, Absent
      <4> QED BY <1>0, <2>1, <2>3, <4>1, <4>2 DEF TypeOK, Goto, Labels
    <3>5. EveryEditCounted'
      BY <1>0, <2>3, <3>1 DEF EveryEditCounted, TypeOK
    <3>6. ASSUME NEW f \in Admins PROVE Ready(f)'
      <4>1. CASE f = e
        BY <3>3, <4>1 DEF Ready, At
      <4>2. CASE f # e /\ loc[f].p = q
        BY <1>0, <2>1, <3>1, <3>3, <4>2, ReplacedReady
      <4>3. CASE f # e /\ loc[f].p # q
        BY <1>0, <2>1, <3>3, <4>3, OthersReady, Fields
      <4> QED BY <4>1, <4>2, <4>3
    <3>7. WriteReady'
      BY <3>6 DEF WriteReady
    <3> QED BY <3>4, <3>5, <3>7 DEF ConfigInv
  <2> QED BY <1>4, <2>2, <2>3 DEF PatchWrite
<1>5. ASSUME NEW e \in Admins, Answered(e) \/ ResetQuery(e) \/ ResetDone(e)
      PROVE  ConfigInv'
  <2>1. /\ UNCHANGED <<override, etag, loc, accepted, outdated>>
        /\ Goto(e, "idle") \/ Goto(e, "reset")
    BY <1>5 DEF Answered, ResetQuery, ResetDone
  <2>2. todo' \in [Admins -> SUBSET Pipelines]
    BY <1>0, <1>5 DEF Answered, ResetQuery, ResetDone, TypeOK
  <2>3. TypeOK' /\ EveryEditCounted'
    BY <1>0, <2>1, <2>2 DEF Goto, TypeOK, Labels, Absent, EveryEditCounted
  <2>4. pc'[e] \in {"idle", "reset"} /\ \A f \in Admins \ {e} : pc'[f] = pc[f]
    BY <1>0, <2>1 DEF Goto, TypeOK
  <2>5. Ready(e)'
    BY <2>4 DEF Ready, At
  <2>6. WriteReady'
    BY <1>0, <2>1, <2>4, <2>5, OthersReady DEF WriteReady
  <2> QED BY <2>3, <2>6 DEF ConfigInv
<1>6. ASSUME NEW e \in Admins, NEW q \in Pipelines, ResetDelete(e, q) PROVE ConfigInv'
  <2>1. UNCHANGED <<pc, loc>> /\ DeleteRow(q)
    BY <1>6 DEF ResetDelete
  <2>2. NoRowOf(q) \in Row /\ NoRowOf(q).rev = 0
    BY DefaultsTyped
  <2>3. todo' \in [Admins -> SUBSET Pipelines]
    BY <1>0, <1>6 DEF ResetDelete, TypeOK
  <2>4. TypeOK' /\ EveryEditCounted'
    BY <1>0, <2>1, <2>2, <2>3 DEF DeleteRow, TypeOK, Absent, EveryEditCounted
  <2>5. /\ override'[q] = NoRowOf(q) /\ etag'[q] = {}
        /\ \A p \in Pipelines \ {q} : override'[p] = override[p] /\ etag'[p] = etag[p]
    BY <1>0, <2>1 DEF DeleteRow, TypeOK
  <2>6. ASSUME NEW f \in Admins PROVE Ready(f)'
    <3>1. CASE loc[f].p = q
      BY <1>0, <2>1, <2>2, <2>5, <3>1, ReplacedReady
    <3>2. CASE loc[f].p # q
      BY <1>0, <2>1, <2>5, <3>2, OthersReady, Fields
    <3> QED BY <3>1, <3>2
  <2>7. WriteReady'
    BY <2>6 DEF WriteReady
  <2> QED BY <2>4, <2>7 DEF ConfigInv
<1>7. CASE UNCHANGED vars
  <2>1. TypeOK' /\ EveryEditCounted'
    BY <1>0, <1>7 DEF vars, TypeOK, Absent, EveryEditCounted
  <2>2. WriteReady'
    BY <1>0, <1>7, OthersReady DEF vars, WriteReady
  <2> QED BY <2>1, <2>2 DEF ConfigInv
<1> QED BY <1>1, <1>2, <1>3, <1>4, <1>5, <1>6, <1>7 DEF Next

THEOREM ConfigInvHolds == Spec => []ConfigInv
<1>1. Init => ConfigInv
  BY InitConfig, ConfigAssumption DEF SeenInv
<1>2. ConfigInv /\ [Next]_vars => ConfigInv'
  BY NextConfig, ConfigAssumption
<1> QED BY <1>1, <1>2, PTL DEF Spec

(***************************************************************************)
(* Every variable keeps its type, and no row holds an invalid schedule.    *)
(***************************************************************************)
THEOREM ConfigTypeCorrect == Spec => []TypeOK
<1>1. ConfigInv => TypeOK
  BY DEF ConfigInv
<1> QED BY <1>1, ConfigInvHolds, PTL

(***************************************************************************)
(* Of two concurrent edits one is refused: the revision of a row counts    *)
(* the accepted edits, with any number of administrators and resets.       *)
(***************************************************************************)
THEOREM EditsAreCounted == Spec => []EveryEditCounted
<1>1. ConfigInv => EveryEditCounted
  BY DEF ConfigInv
<1> QED BY <1>1, ConfigInvHolds, PTL

(***************************************************************************)
(* Between two resets a revision names one configuration: what an          *)
(* administrator saw at a revision is what the row holds at it.            *)
(***************************************************************************)
LEMMA NextSeen ==
  ASSUME ConfigAssumption, SeenInv, [Next]_vars
  PROVE  RevisionNames'
<1> DEFINE Names(l, row) == l.seen.rev <= row.rev /\ (l.seen.rev = row.rev => l.seen = row)
<1>0. TypeOK /\ WriteReady /\ \A e \in Admins \ outdated : Names(loc[e], override[loc[e].p])
  BY DEF SeenInv, ConfigInv, RevisionNames
<1>1. ASSUME NEW e \in Admins, NEW q \in Pipelines, LoadForm(e, q) PROVE RevisionNames'
  <2>1. /\ override' = override /\ loc'[e].p = q /\ loc'[e].seen = override[q]
        /\ \A f \in Admins \ {e} : loc'[f] = loc[f]
        /\ outdated' = outdated \ {e}
    BY <1>0, <1>1 DEF LoadForm, TypeOK
  <2>2. Names(loc'[e], override'[loc'[e].p])
    BY <1>0, <2>1 DEF TypeOK, Row
  <2>3. \A f \in (Admins \ outdated') \ {e} : Names(loc'[f], override'[loc'[f].p])
    BY <1>0, <2>1
  <2> QED BY <2>2, <2>3 DEF RevisionNames
<1>2. ASSUME NEW e \in Admins, NEW set \in Edits, Submit(e, set) PROVE RevisionNames'
  <2>1. /\ override' = override /\ outdated' = outdated
        /\ loc' = loc \/ loc' = [loc EXCEPT ![e].set = set]
    BY <1>2 DEF Submit
  <2>3. ASSUME NEW f \in Admins
        PROVE  loc'[f].p = loc[f].p /\ loc'[f].seen = loc[f].seen
    <3>1. loc[f] \in [p : Pipelines, seen : Row, set : Settings] /\ f \in DOMAIN loc
      BY <1>0 DEF TypeOK
    <3> QED BY <2>1, <3>1
  <2>2. \A f \in Admins \ outdated' : Names(loc'[f], override'[loc'[f].p])
    <3> SUFFICES ASSUME NEW f \in Admins \ outdated PROVE Names(loc'[f], override'[loc'[f].p])
      BY <2>1
    <3>1. Names(loc[f], override[loc[f].p])
      BY <1>0
    <3> QED BY <2>1, <2>3, <3>1
  <2> QED BY <2>2 DEF RevisionNames
<1>3. ASSUME NEW e \in Admins,
             PatchRead(e) \/ Answered(e) \/ ResetQuery(e) \/ ResetDone(e)
      PROVE  RevisionNames'
  BY <1>0, <1>3 DEF PatchRead, Answered, ResetQuery, ResetDone, RevisionNames
<1>4. ASSUME NEW e \in Admins, PatchWrite(e) PROVE RevisionNames'
  <2> DEFINE q == loc[e].p
  <2> DEFINE row == [set |-> loc[e].set, rev |-> loc[e].seen.rev + 1]
  <2>1. UNCHANGED <<loc, outdated>> /\ pc[e] = "write" /\ q \in Pipelines
    BY <1>0, <1>4, Fields DEF PatchWrite, At
  <2>2. CASE UNCHANGED override
    BY <1>0, <2>1, <2>2 DEF RevisionNames
  <2>3. CASE RowAsRead(e, q) /\ override' = [override EXCEPT ![q] = row]
    <3>1. row.rev = override[q].rev + 1 /\ override[q].rev \in Nat
      BY <1>0, <2>1, <2>3, Fields DEF WriteReady, Ready, At
    <3> HIDE DEF row
    <3>2. override'[q] = row /\ \A p \in Pipelines \ {q} : override'[p] = override[p]
      BY <1>0, <2>1, <2>3 DEF TypeOK
    <3> SUFFICES ASSUME NEW f \in Admins \ outdated PROVE Names(loc[f], override'[loc[f].p])
      BY <2>1 DEF RevisionNames
    <3>3. CASE loc[f].p = q
      <4>1. loc[f].seen.rev <= override[q].rev /\ loc[f].seen.rev \in Nat
        BY <1>0, <3>3, Fields
      <4>2. loc[f].seen.rev < row.rev
        BY <3>1, <4>1
      <4>3. override'[loc[f].p].rev = row.rev /\ row.rev \in Nat
        BY <3>1, <3>2, <3>3
      <4> QED BY <4>1, <4>2, <4>3
    <3>4. CASE loc[f].p # q
      BY <1>0, <3>2, <3>4, Fields
    <3> QED BY <3>3, <3>4
  <2> QED BY <1>4, <2>2, <2>3 DEF PatchWrite
<1>5. CASE UNCHANGED vars
  BY <1>0, <1>5 DEF vars, RevisionNames
<1>6. ASSUME NEW e \in Admins, NEW q \in Pipelines, ResetDelete(e, q) PROVE RevisionNames'
  <2>1. /\ UNCHANGED loc
        /\ outdated' = outdated \cup {f \in Admins : loc[f].p = q}
        /\ \A p \in Pipelines \ {q} : override'[p] = override[p]
    BY <1>0, <1>6 DEF ResetDelete, DeleteRow, TypeOK
  <2>2. ASSUME NEW f \in Admins \ outdated' PROVE Names(loc'[f], override'[loc'[f].p])
    <3>1. f \in Admins \ outdated /\ loc[f].p \in Pipelines \ {q}
      BY <1>0, <2>1, <2>2, Fields
    <3> QED BY <1>0, <2>1, <3>1
  <2> QED BY <2>2 DEF RevisionNames
<1> QED BY <1>1, <1>2, <1>3, <1>4, <1>5, <1>6 DEF Next

(***************************************************************************)
(* An edit is accepted only if the row holds what its administrator saw,   *)
(* or a reset has deleted the row since.                                   *)
(***************************************************************************)
THEOREM StaleFormsRefused == Spec => NoBlindOverwrite
<1>1. Init => SeenInv
  BY InitConfig, ConfigAssumption
<1>2. SeenInv /\ [Next]_vars => SeenInv'
  BY NextConfig, NextSeen, ConfigAssumption DEF SeenInv
<1>3. SeenInv /\ [Next]_vars =>
        [\A e \in Admins \ outdated :
           At(e, "write") /\ pc'[e] = "saved" =>
             override[loc[e].p] = loc[e].seen]_vars
  <2> SUFFICES ASSUME SeenInv, [Next]_vars, NEW e \in Admins \ outdated,
                      pc[e] = "write", pc'[e] = "saved"
               PROVE  override[loc[e].p] = loc[e].seen
    BY DEF At
  <2>0. TypeOK
    BY DEF SeenInv, ConfigInv
  <2>1. PatchWrite(e)
    <3>1. ASSUME NEW f \in Admins, NEW l, Goto(f, l), f # e PROVE FALSE
      BY <2>0, <3>1 DEF Goto, TypeOK
    <3>2. ASSUME NEW f \in Admins, Goto(f, "saved"), f # e PROVE FALSE
      BY <3>1, <3>2
    <3> QED BY <2>0, <3>1
            DEF Next, vars, LoadForm, Submit, PatchRead, PatchWrite, Answered,
                ResetQuery, ResetDelete, ResetDone, Goto, At, TypeOK
  <2>2. RowAsRead(e, loc[e].p)
    BY <2>0, <2>1 DEF PatchWrite, Goto, TypeOK
  <2>3. loc[e].seen.rev = override[loc[e].p].rev
    BY <2>2 DEF SeenInv, ConfigInv, WriteReady, Ready, At
  <2> QED BY <2>3 DEF SeenInv, RevisionNames
<1> QED BY <1>1, <1>2, <1>3, PTL DEF Spec, NoBlindOverwrite

===============================================================================
