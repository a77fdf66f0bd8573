---------------------------- MODULE SchedulerConfig ----------------------------
(***************************************************************************)
(* The schedule overrides of the pipelines: administrators who read the    *)
(* effective configuration, edit it and submit it with the revision they   *)
(* saw, and who reset every override, one storage call per step.           *)
(***************************************************************************)
EXTENDS Naturals

CONSTANTS
  Pipelines,
  Admins,         \* the admin calls that may be in flight at once
  Edits,          \* what may be submitted: [enabled, freq, anchor]
  Defaults,       \* the registry defaults of each pipeline
  CanDisable,     \* the pipelines an administrator may disable
  MinFrequency, MaxFrequency, SecondsOfDay,
  MaxRevision     \* bounds the accepted edits of one row

Settings == [enabled : BOOLEAN, freq : Nat, anchor : Nat]

ASSUME ConfigAssumption ==
  /\ Edits \subseteq Settings
  /\ Defaults \in [Pipelines -> Settings]
  /\ CanDisable \subseteq Pipelines
  /\ MinFrequency \in Nat /\ MaxFrequency \in Nat /\ SecondsOfDay \in Nat
  /\ MaxRevision \in Nat

VARIABLES
  override,   \* SchedulerConfig, the row of each pipeline; revision 0: no row
  etag,       \* per row, the calls whose last read of it is still current
  pc,         \* where a call of an administrator is
  loc,        \* its pipeline, what the administrator saw, and the edit
  todo,       \* the rows a reset has listed and not yet deleted
  accepted,   \* the edits accepted since the row was created
  outdated    \* the calls whose row a reset has deleted since they saw it

vars == <<override, etag, pc, loc, todo, accepted, outdated>>

Row == [set : Settings, rev : Nat]

\* effective_config: the defaults, with revision 0, where there is no row
NoRowOf(p) == [set |-> Defaults[p], rev |-> 0]
Absent(p) == override[p].rev = 0

ValidEdit(p, set) ==
  /\ set.enabled \/ p \in CanDisable
  /\ set.freq = 0 \/ set.freq \in MinFrequency .. MaxFrequency
  /\ set.anchor < SecondsOfDay

Init ==
  /\ override = [p \in Pipelines |-> NoRowOf(p)]
  /\ etag = [p \in Pipelines |-> {}]
  /\ pc = [e \in Admins |-> "idle"]
  /\ loc \in [Admins -> {[p |-> p, seen |-> NoRowOf(p), set |-> Defaults[p]] :
                           p \in Pipelines}]
  /\ todo = [e \in Admins |-> {}]
  /\ accepted = [p \in Pipelines |-> 0]
  /\ outdated = {}

At(e, label) == pc[e] = label
Goto(e, label) == pc' = [pc EXCEPT ![e] = label]

\* list_pipelines: the form shows the effective configuration and its revision
LoadForm(e, p) ==
  /\ At(e, "idle")
  /\ loc' = [loc EXCEPT ![e] =
               [p |-> p, seen |-> override[p], set |-> override[p].set]]
  /\ outdated' = outdated \ {e}
  /\ Goto(e, "form")
  /\ UNCHANGED <<override, etag, todo, accepted>>

\* update_config: an invalid edit is refused and the form stays open
Submit(e, set) ==
  /\ At(e, "form")
  /\ IF ValidEdit(loc[e].p, set)
     THEN /\ loc' = [loc EXCEPT ![e].set = set]
          /\ Goto(e, "read")
     ELSE UNCHANGED <<pc, loc>>
  /\ UNCHANGED <<override, etag, todo, accepted, outdated>>

\* patch: the read, and the comparison of the revision with the expected one
RevisionMatches(e, p) == loc[e].seen.rev = override[p].rev

PatchReadUnchecked(e) ==
  /\ At(e, "read")
  /\ LET p == loc[e].p IN
     /\ loc' = [loc EXCEPT ![e].seen.rev = override[p].rev]
     /\ etag' = [etag EXCEPT ![p] = @ \cup {e}]
  /\ Goto(e, "write")
  /\ UNCHANGED <<override, todo, accepted, outdated>>
PatchRead(e) ==
  /\ At(e, "read")
  /\ LET p == loc[e].p IN
     IF RevisionMatches(e, p)
     THEN Goto(e, "write") /\ etag' = [etag EXCEPT ![p] = @ \cup {e}]
     ELSE Goto(e, "conflict") /\ UNCHANGED etag
  /\ UNCHANGED <<override, loc, todo, accepted, outdated>>

WriteAnyway(e, p) == TRUE
RowAsRead(e, p) == IF loc[e].seen.rev = 0 THEN Absent(p) ELSE e \in etag[p]

\* patch: create the row if the read found none, which fails if there is one by
\* now; REPLACE it otherwise, which fails if its ETag changed.  The new row
\* counts one revision more than the one that was read and expected.
PatchWrite(e) ==
  /\ At(e, "write")
  /\ LET p == loc[e].p IN
     IF RowAsRead(e, p)
     THEN /\ loc[e].seen.rev < MaxRevision
          /\ override' = [override EXCEPT ![p] =
                            [set |-> loc[e].set, rev |-> loc[e].seen.rev + 1]]
          /\ etag' = [etag EXCEPT ![p] = {}]
          /\ accepted' = [accepted EXCEPT ![p] = @ + 1]
          /\ Goto(e, "saved")
     ELSE /\ Goto(e, "conflict")
          /\ UNCHANGED <<override, etag, accepted>>
  /\ UNCHANGED <<loc, todo, outdated>>

\* The caller has its answer: saved, or 409
Answered(e) ==
  /\ pc[e] \in {"form", "saved", "conflict"}
  /\ Goto(e, "idle")
  /\ UNCHANGED <<override, etag, loc, todo, accepted, outdated>>

\* clear: the query for the rows, then their deletion one by one, whatever they
\* hold by then
ResetQuery(e) ==
  /\ At(e, "idle")
  /\ todo' = [todo EXCEPT ![e] = {p \in Pipelines : ~Absent(p)}]
  /\ Goto(e, "reset")
  /\ UNCHANGED <<override, etag, loc, accepted, outdated>>

DeleteRow(p) ==
  /\ override' = [override EXCEPT ![p] = NoRowOf(p)]
  /\ etag' = [etag EXCEPT ![p] = {}]
  /\ accepted' = [accepted EXCEPT ![p] = 0]
  /\ outdated' = outdated \cup {e \in Admins : loc[e].p = p}

ResetDelete(e, p) ==
  /\ At(e, "reset")
  /\ p \in todo[e]
  /\ DeleteRow(p)
  /\ todo' = [todo EXCEPT ![e] = @ \ {p}]
  /\ UNCHANGED <<pc, loc>>

ResetDone(e) ==
  /\ At(e, "reset")
  /\ todo[e] = {}
  /\ Goto(e, "idle")
  /\ UNCHANGED <<override, etag, loc, todo, accepted, outdated>>

Next ==
  \E e \in Admins :
    \/ \E p \in Pipelines : LoadForm(e, p) \/ ResetDelete(e, p)
    \/ \E set \in Edits : Submit(e, set)
    \/ PatchRead(e) \/ PatchWrite(e) \/ Answered(e)
    \/ ResetQuery(e) \/ ResetDone(e)

Spec == Init /\ [][Next]_vars

-----------------------------------------------------------------------------

Labels == {"idle", "form", "read", "write", "saved", "conflict", "reset"}

(***************************************************************************)
(* The variables have their types, and update_config lets no row hold a    *)
(* configuration that ValidEdit refuses.                                   *)
(***************************************************************************)
TypeOK ==
  /\ override \in [Pipelines -> Row]
  /\ \A p \in Pipelines : Absent(p) \/ ValidEdit(p, override[p].set)
  /\ etag \in [Pipelines -> SUBSET Admins]
  /\ pc \in [Admins -> Labels]
  /\ loc \in [Admins -> [p : Pipelines, seen : Row, set : Settings]]
  /\ todo \in [Admins -> SUBSET Pipelines]
  /\ accepted \in [Pipelines -> Nat]
  /\ outdated \subseteq Admins

(***************************************************************************)
(* The revision of a row counts the edits accepted since it was created:   *)
(* of two concurrent edits one is refused, whatever resets and other edits *)
(* come between the read and the write of patch.                           *)
(***************************************************************************)
EveryEditCounted == \A p \in Pipelines : override[p].rev = accepted[p]

(***************************************************************************)
(* An accepted edit replaces the configuration its administrator saw: of   *)
(* the forms loaded before another edit was saved, each is refused.  Only  *)
(* a reset in between escapes the comparison of revisions, because the     *)
(* next row starts again at revision 1.                                    *)
(***************************************************************************)
NoBlindOverwrite ==
  [][\A e \in Admins \ outdated :
       At(e, "write") /\ pc'[e] = "saved" =>
         override[loc[e].p] = loc[e].seen]_vars

(***************************************************************************)
(* The inductive invariants behind them: an edit about to be written is    *)
(* valid; the row is at the revision it expects if the write will succeed; *)
(* and between two resets a revision names one configuration.              *)
(***************************************************************************)
Ready(e) == LET p == loc[e].p IN
  /\ pc[e] \in {"read", "write"} => ValidEdit(p, loc[e].set)
  /\ At(e, "write") /\ RowAsRead(e, p) => loc[e].seen.rev = override[p].rev

WriteReady == \A e \in Admins : Ready(e)

RevisionNames ==
  \A e \in Admins \ outdated : LET p == loc[e].p IN
    /\ loc[e].seen.rev <= override[p].rev
    /\ loc[e].seen.rev = override[p].rev => loc[e].seen = override[p]

ConfigInv == TypeOK /\ EveryEditCounted /\ WriteReady
SeenInv == ConfigInv /\ RevisionNames

=============================================================================
