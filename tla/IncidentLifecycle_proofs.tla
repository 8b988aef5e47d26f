----------------------- MODULE IncidentLifecycle_proofs -----------------------
(***************************************************************************)
(* The invariants of IncidentLifecycle, for any users, any delays and any   *)
(* number of slots, however their statements interleave and wherever they   *)
(* crash; and, as long as no two handlers overlap, its refinement of the    *)
(* documented workflow.                                                    *)
(***************************************************************************)
EXTENDS IncidentLifecycle, TLAPS

\* The operations about which JobInv says something.
Bound == {"take_internal", "take_leader", "handle_take", "handle_resolve", "edit",
          "override", "close", "validate", "auto_validate"}

\* Going on to a statement that needs nothing, or to the end, keeps every slot's
\* invariant; `submitted` may become true on the way, and a form may be saved.
LEMMA GotoKeeps ==
    ASSUME TypeOK, \A t \in Slots : JobInv(job[t]),
           NEW s \in Slots, NEW op \in Ops \ Bound, Goto(s, op),
           submitted => submitted', overrides' = overrides \/ overrides' # 0
    PROVE  /\ job' \in [Slots -> Job]
           /\ \A t \in Slots : JobInv(job[t])'
<1>1. Idle \in Job
  BY DEF Idle, Job, Ops, Collab
<1>2. job' \in [Slots -> Job]
  BY <1>1 DEF Goto, TypeOK, Job
<1>3. ASSUME NEW t \in Slots PROVE JobInv(job[t])'
  <2>1. CASE t # s
    BY <2>1 DEF Goto, TypeOK, JobInv, RowInv
  <2>2. CASE t = s /\ op = "idle"
    BY <2>2 DEF Goto, TypeOK, JobInv, Idle
  <2>3. CASE t = s /\ op # "idle"
    <3>1. job'[t] = [job[t] EXCEPT !.op = op]
      BY <2>3 DEF Goto, TypeOK
    <3>2. job'[t].op = op /\ job'[t].user = job[t].user /\ job'[t].snap = job[t].snap
      BY <3>1 DEF TypeOK, Job
    <3> QED
      BY <3>2 DEF JobInv, RowInv, Bound
  <2> QED
    BY <2>1, <2>2, <2>3
<1> QED
  BY <1>2, <1>3

\* A handler that starts keeps the invariant when its own job satisfies it.
LEMMA ReadForKeeps ==
    ASSUME IInv, NEW s \in Slots, NEW op \in Ops, NEW u \in Users \cup {NoUser},
           NEW new \in Collab, NEW snap \in Row \cup {None},
           ReadFor(s, op, u, new, snap),
           JobInv([op |-> op, user |-> u, new |-> new, snap |-> snap])
    PROVE  IInv'
<1> DEFINE j == [op |-> op, user |-> u, new |-> new, snap |-> snap]
<1>1. j \in Job
  BY DEF Job
<1>2. job' = [job EXCEPT ![s] = j] /\ UNCHANGED <<row, collab, submitted, overrides>>
  BY DEF ReadFor
<1> HIDE DEF j
<1>3. TypeOK'
  BY <1>1, <1>2 DEF IInv, TypeOK
<1>4. \A t \in Slots : job'[t] = IF t = s THEN j ELSE job[t]
  BY <1>2 DEF IInv, TypeOK
<1>5. JobInv(j)
  BY DEF j
<1>6. ASSUME NEW t \in Slots PROVE JobInv(job[t])'
  BY <1>2, <1>4, <1>5 DEF IInv, JobInv, RowInv
<1>7. RowInv(row)'
  BY <1>2 DEF IInv, RowInv
<1> QED
  BY <1>3, <1>6, <1>7 DEF IInv

\* The same for a handler that prepares no collaboration.
LEMMA ReadKeeps ==
    ASSUME IInv, NEW s \in Slots, NEW op \in Ops, NEW u \in Users \cup {NoUser},
           NEW snap \in Row \cup {None}, Read(s, op, u, snap),
           JobInv([op |-> op, user |-> u, new |-> NoCollab, snap |-> snap])
    PROVE  IInv'
<1>1. NoCollab \in Collab
  BY DEF Collab
<1> QED
  BY <1>1, ReadForKeeps DEF Read

\* A save keeps the invariant when the row it writes satisfies it.
LEMMA SaveKeeps ==
    ASSUME IInv, NEW s \in Slots, NEW new \in Row, RowInv(new),
           NEW op \in Ops \ Bound, Save(s, new, op)
    PROVE  IInv'
<1>1. /\ job' \in [Slots -> Job]
      /\ \A t \in Slots : JobInv(job[t])'
  BY GotoKeeps DEF IInv, Save
<1>2. RowInv(row)'
  BY DEF Save, RowInv
<1> QED
  BY <1>1, <1>2 DEF IInv, TypeOK, Save

\* A write of the collaboration table keeps it, whatever it writes.
LEMMA WriteKeeps ==
    ASSUME IInv, NEW s \in Slots, NEW new \in [Users -> Collab],
           NEW op \in Ops \ Bound, Write(s, new, op)
    PROVE  IInv'
<1>1. /\ job' \in [Slots -> Job]
      /\ \A t \in Slots : JobInv(job[t])'
  BY GotoKeeps DEF IInv, Write
<1>2. RowInv(row)'
  BY DEF Write, RowInv, IInv
<1> QED
  BY <1>1, <1>2 DEF IInv, TypeOK, Write

\* A form fills a row with values of the columns' domains.
LEMMA FilledRow ==
    ASSUME NEW r \in Row, NEW f \in Forms PROVE Filled(r, f) \in Row
<1>1. f.values \in Row
  BY FormsAssumption
<1> QED
  BY <1>1 DEF Filled, Row

-----------------------------------------------------------------------------
(* Each operation keeps the invariant: first the guards, then the writes.   *)

\* The short copy of a consistent incident is consistent.
LEMMA CopyInv ==
    ASSUME IInv PROVE Copy \in Row /\ RowInv(Copy)
BY DEF IInv, TypeOK, Row, Copy, RowInv

\* What a request may start from.
LEMMA RequestsKeep ==
    ASSUME IInv, NEW s \in Web, Requests(s)
    PROVE  IInv'
<1> USE UsersAssumption, NoneAssumption DEF Slots
<1>r. row \in Row /\ RowInv(row)
  BY DEF IInv, TypeOK
<1>c. Copy \in Row /\ RowInv(Copy)
  BY CopyInv
<1>1. ASSUME NEW u \in Users, TakeInternal(s, u) PROVE IInv'
  BY <1>1, ReadKeeps DEF TakeInternal, Ops, JobInv
<1>2. ASSUME NEW u \in Users, TakeAsLeader(s, u) PROVE IInv'
  BY <1>2, <1>c, ReadKeeps DEF TakeAsLeader, Ops, JobInv
<1>3. ASSUME NEW u \in Users, NEW role \in Roles, Join(s, u, role) PROVE IInv'
  <2> DEFINE new == [role |-> role, status |-> IF role = "observer" \/ row.takenBy = NoUser
                                              THEN "accepted" ELSE "pending"]
  <2>1. new \in Collab
    BY DEF Collab, Statuses
  <2>2. ReadFor(s, "join", u, new, Copy)
    BY <1>3 DEF Join
  <2> QED
    BY <1>c, <2>1, <2>2, ReadForKeeps DEF Ops, JobInv
<1>4. ASSUME NEW u \in Users, HandleTake(s, u) PROVE IInv'
  BY <1>4, <1>r, ReadKeeps DEF HandleTake, Ops, JobInv
<1>5. ASSUME NEW u \in Users, HandleResolve(s, u) PROVE IInv'
  BY <1>5, <1>r, ReadKeeps DEF HandleResolve, Ops, JobInv
<1>6. ASSUME NEW u \in Users, PrepareResolution(s, u) PROVE IInv'
  BY <1>6, ReadKeeps DEF PrepareResolution, Ops, JobInv
<1>7. ASSUME NEW u \in Users, ReturnForCompletion(s, u) PROVE IInv'
  BY <1>7, ReadKeeps DEF ReturnForCompletion, Ops, JobInv
<1>8. ASSUME NEW u \in Users, DeclareResolved(s, u) PROVE IInv'
  BY <1>8, ReadKeeps DEF DeclareResolved, Ops, JobInv
<1>9. ASSUME NEW u \in Users, CloseIncident(s, u) PROVE IInv'
  BY <1>9, <1>r, ReadKeeps DEF CloseIncident, Ops, JobInv
<1>10. ASSUME NEW u \in Users, Disengage(s, u) PROVE IInv'
  BY <1>10, ReadKeeps DEF Disengage, Ops, JobInv
<1>11. ASSUME ValidateResolution(s) PROVE IInv'
  BY <1>11, <1>r, ReadKeeps DEF ValidateResolution, Ops, JobInv, RowInv
<1>12. ASSUME RejectResolution(s) PROVE IInv'
  BY <1>12, ReadKeeps DEF RejectResolution, Ops, JobInv
<1>13. ASSUME NEW e \in Etats, EditIncident(s, e) PROVE IInv'
  <2> DEFINE new == [row EXCEPT !.etat = e]
  <2>1. new \in Row
    BY <1>r DEF Row
  <2>2. e \in {"in_progress", "resolved"} \/ e = row.etat
    BY <1>13 DEF EditIncident
  <2>3. RowInv(new)
    BY <1>r, <2>2 DEF RowInv, Row
  <2> QED
    BY <1>13, <2>1, <2>3, ReadKeeps DEF EditIncident, Ops, JobInv
<1>14. ASSUME NEW f \in Forms, Override(s, f) PROVE IInv'
  <2>1. Filled(row, f) \in Row
    BY <1>r, FilledRow
  <2> QED
    BY <1>14, <2>1, ReadKeeps DEF Override, Ops, JobInv
<1> QED
  BY <1>1, <1>2, <1>3, <1>4, <1>5, <1>6, <1>7, <1>8, <1>9, <1>10, <1>11, <1>12, <1>13,
     <1>14 DEF Requests

\* The beat tasks select what is due.
LEMMA BeatKeeps ==
    ASSUME IInv, NEW s \in Workers, Beat(s)
    PROVE  IInv'
<1> USE UsersAssumption, NoneAssumption DEF Slots
<1>r. row \in Row /\ RowInv(row)
  BY DEF IInv, TypeOK
<1>1. ASSUME AutoValidate(s) PROVE IInv'
  BY <1>1, <1>r, ReadKeeps DEF AutoValidate, Ops, JobInv, RowInv
<1>2. ASSUME RevertStale(s) PROVE IInv'
  BY <1>2, ReadKeeps DEF RevertStale, Ops, JobInv
<1>3. ASSUME WarnAt90(s) PROVE IInv'
  BY <1>3, ReadKeeps DEF WarnAt90, Ops, JobInv
<1>4. ASSUME WarnAt75(s) PROVE IInv'
  BY <1>4, ReadKeeps DEF WarnAt75, Ops, JobInv
<1> QED
  BY <1>1, <1>2, <1>3, <1>4 DEF Beat

\* The creation of a collaboration and what can follow it.
LEMMA CreateKeeps ==
    ASSUME IInv, NEW s \in Slots, NEW opensMode, Create(s, opensMode)
    PROVE  IInv'
<1> DEFINE u == job[s].user
           new == [collab EXCEPT ![u] = job[s].new]
<1>1. collab \in [Users -> Collab] /\ new \in [Users -> Collab]
  BY DEF IInv, TypeOK, Job
<1>2. {"cancel_open", "cancel", "open", "idle"} \subseteq Ops \ Bound
  BY DEF Ops, Bound
<1>3. \/ Write(s, collab, "idle")
      \/ \E op \in Ops \ Bound : Write(s, new, op)
  BY <1>2 DEF Create
<1> QED
  BY <1>1, <1>2, <1>3, WriteKeeps

\* The signal that deletes the collaboration just created.
LEMMA CancelCreatedKeeps ==
    ASSUME IInv, NEW s \in Slots, CancelCreated(s)
    PROVE  IInv'
<1>1. [collab EXCEPT ![job[s].user] = NoCollab] \in [Users -> Collab]
  BY DEF IInv, TypeOK, Collab
<1>2. {"open", "idle"} \subseteq Ops \ Bound
  BY DEF Ops, Bound
<1> QED
  BY <1>1, <1>2, WriteKeeps DEF CancelCreated

\* Opening the mode cannot make a declared incident internal.
LEMMA OpenModeKeeps ==
    ASSUME IInv, NEW s \in Slots, OpenMode(s)
    PROVE  IInv'
<1>1. /\ [row EXCEPT !.mode = "collaborative"] \in Row
      /\ RowInv([row EXCEPT !.mode = "collaborative"])
  BY DEF IInv, TypeOK, Row, RowInv
<1> QED
  BY <1>1, SaveKeeps DEF OpenMode, Ops, Bound

\* Releasing an incident clears what a declared one may not have.
LEMMA ReleasedInv ==
    ASSUME IInv
    PROVE  /\ Released \in Row
           /\ RowInv(Released)
           /\ RowInv([Released EXCEPT !.etat = "declared"])
           /\ RowInv([Released EXCEPT !.etat = "declared", !.w75 = FALSE, !.w90 = FALSE])
BY NoneAssumption DEF IInv, TypeOK, Row, Released, RowInv

\* What a take writes.
LEMMA TakenNowInv ==
    ASSUME NEW r \in Row, RowInv(r), NEW u \in Users \cup {NoUser},
           NEW mode \in {None, "internal", "collaborative"}
    PROVE  TakenNow(r, u, mode) \in Row /\ RowInv(TakenNow(r, u, mode))
<1>1. 0 \in 0 .. RevertAfter
  BY DelaysAssumption
<1>2. TakenNow(r, u, mode) \in Row
  BY <1>1 DEF TakenNow, Row, Etats
<1>3. RowInv(TakenNow(r, u, mode))
  BY DEF TakenNow, Row, RowInv
<1> QED
  BY <1>2, <1>3

\* Every statement a request executes after its guards.
LEMMA WebStepsKeep ==
    ASSUME IInv, NEW s \in Slots, WebSteps(s)
    PROVE  IInv'
<1> USE UsersAssumption
<1>r. row \in Row /\ RowInv(row)
  BY DEF IInv, TypeOK
<1>j. job[s] \in Job /\ JobInv(job[s])
  BY DEF IInv, TypeOK
<1>c. collab \in [Users -> Collab]
  BY DEF IInv, TypeOK
<1>i. "idle" \in Ops \ Bound
  BY DEF Ops, Bound
<1>1. ASSUME TakeInternalSave(s) PROVE IInv'
  <2> DEFINE new == TakenNow(row, job[s].user, "internal")
  <2>1. job[s].user \in Users
    BY <1>1, <1>j DEF TakeInternalSave, At, JobInv
  <2>2. new \in Row /\ RowInv(new)
    BY <1>r, <2>1, TakenNowInv
  <2> QED
    BY <1>1, <2>2, SaveKeeps DEF TakeInternalSave, Ops, Bound
<1>2. ASSUME AddLeader(s) PROVE IInv'
  <2> DEFINE u == job[s].user
             new == IF collab[u] = NoCollab
                    THEN [collab EXCEPT ![u] = [role |-> "leader", status |-> "accepted"]]
                    ELSE collab
  <2>1. new \in [Users -> Collab]
    BY <1>c DEF Collab, Roles, Statuses
  <2>2. Write(s, new, "idle")
    BY <1>2 DEF AddLeader
  <2> QED
    BY <2>1, <2>2, <1>i, WriteKeeps
<1>3. ASSUME TakeAsLeaderSave(s) PROVE IInv'
  <2> DEFINE u == job[s].user
             was == job[s].snap.etat
             new == IF was = "declared" THEN TakenNow(row, u, "collaborative")
                    ELSE [row EXCEPT !.takenBy = u, !.etat = was, !.mode = "collaborative"]
  <2>1. u \in Users /\ job[s].snap \in Row /\ RowInv(job[s].snap)
    BY <1>3, <1>j DEF TakeAsLeaderSave, At, JobInv, Job
  <2>2. new \in Row /\ RowInv(new)
    <3>1. CASE was = "declared"
      BY <1>r, <2>1, <3>1, TakenNowInv
    <3>2. CASE was # "declared"
      <4>1. new \in Row
        BY <1>r, <2>1, <3>2 DEF Row
      <4>2. RowInv(new)
        BY <1>r, <2>1, <3>2 DEF Row, RowInv
      <4> QED
        BY <4>1, <4>2
    <3> QED
      BY <3>1, <3>2
  <2>3. Save(s, new, "create_leader")
    BY <1>3 DEF TakeAsLeaderSave
  <2> QED
    BY <2>2, <2>3, SaveKeeps DEF Ops, Bound
<1>4. ASSUME CreateLeader(s) PROVE IInv'
  <2> DEFINE new == [collab EXCEPT ![job[s].user] = [role |-> "leader", status |-> "accepted"]]
  <2>1. new \in [Users -> Collab]
    BY <1>c DEF Collab, Roles, Statuses
  <2>2. Write(s, new, "reset_contributors") \/ Write(s, collab, "idle")
    BY <1>4 DEF CreateLeader
  <2>3. "reset_contributors" \in Ops \ Bound
    BY DEF Ops, Bound
  <2> QED
    BY <2>1, <2>2, <2>3, <1>c, <1>i, WriteKeeps
<1>5. ASSUME ResetContributors(s) PROVE IInv'
  <2> DEFINE new == [v \in Users |-> IF v # job[s].user /\ Accepted(v, "contributor")
                                     THEN [collab[v] EXCEPT !.status = "pending"] ELSE collab[v]]
  <2>1. new \in [Users -> Collab]
    BY <1>c DEF Collab, Roles, Statuses, Accepted, NoCollab
  <2>2. Write(s, new, "idle")
    BY <1>5 DEF ResetContributors
  <2> QED
    BY <2>1, <2>2, <1>i, WriteKeeps
<1>6. ASSUME JoinCreate(s) PROVE IInv'
  BY <1>6, CreateKeeps DEF JoinCreate
<1>7. ASSUME HandleTakeSave(s) PROVE IInv'
  <2> DEFINE new == [job[s].snap EXCEPT !.etat = "taken_into_account", !.takenBy = job[s].user]
  <2>1. job[s].user \in Users /\ job[s].snap \in Row /\ RowInv(job[s].snap)
    BY <1>7, <1>j DEF HandleTakeSave, At, JobInv, Job
  <2>2. new \in Row /\ RowInv(new)
    BY <2>1 DEF Row, Etats, RowInv
  <2> QED
    BY <1>7, <2>2, <1>i, SaveKeeps DEF HandleTakeSave
<1>8. ASSUME EditIncidentSave(s) PROVE IInv'
  <2>1. job[s].snap \in Row /\ RowInv(job[s].snap)
    BY <1>8, <1>j DEF EditIncidentSave, At, JobInv, Job
  <2> QED
    BY <1>8, <2>1, <1>i, SaveKeeps DEF EditIncidentSave
<1>9. ASSUME PrepareResolutionSave(s) PROVE IInv'
  <2> DEFINE new == [row EXCEPT !.etat = "resolution_prepared"]
  <2>1. new \in Row /\ RowInv(new)
    BY <1>r DEF Row, Etats, RowInv
  <2> QED
    BY <1>9, <2>1, <1>i, SaveKeeps DEF PrepareResolutionSave
<1>10. ASSUME ReturnForCompletionSave(s) \/ RejectResolutionSave(s) PROVE IInv'
  <2> DEFINE new == [row EXCEPT !.etat = "taken_into_account"]
  <2>1. new \in Row /\ RowInv(new)
    BY <1>r DEF Row, Etats, RowInv
  <2> QED
    BY <1>10, <2>1, <1>i, SaveKeeps DEF ReturnForCompletionSave, RejectResolutionSave
<1>11. ASSUME DeclareResolvedSave(s) PROVE IInv'
  <2>1. /\ job' \in [Slots -> Job]
        /\ \A t \in Slots : JobInv(job[t])'
    BY <1>11, <1>i, GotoKeeps DEF DeclareResolvedSave, IInv
  <2>2. ValidationDelay \in 0 .. ValidationDelay
    BY DelaysAssumption
  <2>3. row' \in Row
    BY <1>11, <1>r, <2>2 DEF DeclareResolvedSave, Row, Etats
  <2>4. RowInv(row)'
    BY <1>11, <1>r DEF DeclareResolvedSave, Row, RowInv
  <2> QED
    BY <1>11, <2>1, <2>3, <2>4, <1>c DEF DeclareResolvedSave, IInv, TypeOK
<1>12. ASSUME ResolveSave(s) PROVE IInv'
  <2> DEFINE new == [job[s].snap EXCEPT !.etat = "resolved"]
  <2>1. job[s].snap \in Row /\ RowInv(job[s].snap)
    BY <1>12, <1>j DEF ResolveSave, JobInv, Job
  <2>2. new \in Row /\ RowInv(new)
    BY <2>1 DEF Row, Etats, RowInv
  <2> QED
    BY <1>12, <2>2, <1>i, SaveKeeps DEF ResolveSave
<1>13. ASSUME DisengageOwn(s) PROVE IInv'
  <2> DEFINE u == job[s].user
             new == IF collab[u] = NoCollab THEN collab
                    ELSE [collab EXCEPT ![u].status = "terminated"]
  <2>1. new \in [Users -> Collab]
    BY <1>c DEF Collab, Statuses
  <2>2. Write(s, new, "share")
    BY <1>13 DEF DisengageOwn
  <2> QED
    BY <2>1, <2>2, WriteKeeps DEF Ops, Bound
<1>16. ASSUME LookForHeirs(s) PROVE IInv'
  <2>1. \E op \in {"offer", "leave"} : Write(s, collab, op)
    BY <1>16 DEF LookForHeirs
  <2> QED
    BY <2>1, <1>c, WriteKeeps DEF Ops, Bound
<1>17. ASSUME OverrideSave(s) PROVE IInv'
  <2>1. job[s].snap \in Row
    BY <1>17, <1>j DEF OverrideSave, At, JobInv, Job
  <2>2. overrides \in Nat /\ overrides' = overrides + 1
    BY <1>17 DEF OverrideSave, IInv, TypeOK
  <2>3. overrides' \in Nat /\ overrides' # 0
    BY <2>2
  <2>4. /\ job' \in [Slots -> Job]
        /\ \A t \in Slots : JobInv(job[t])'
    BY <1>17, <1>i, <2>3, GotoKeeps DEF OverrideSave, IInv
  <2> QED
    BY <1>17, <2>1, <2>3, <2>4, <1>c DEF OverrideSave, IInv, TypeOK, RowInv
<1>14. ASSUME DisengageShare(s) PROVE IInv'
  <2> DEFINE new == [v \in Users |-> IF v \in Heirs(job[s].user)
                                     THEN [role |-> "leader", status |-> "pending"]
                                     ELSE collab[v]]
  <2>1. new \in [Users -> Collab]
    BY <1>c DEF Collab, Roles, Statuses
  <2>2. Terminated \in [Users -> Collab]
    BY <1>c DEF Terminated, Collab, Statuses, NoCollab
  <2>3. Write(s, new, "release") \/ Write(s, Terminated, "reopen")
    BY <1>14 DEF DisengageShare
  <2> QED
    BY <2>1, <2>2, <2>3, WriteKeeps DEF Ops, Bound
<1>15. ASSUME DisengageSave(s) PROVE IInv'
  <2>1. [Released EXCEPT !.etat = "declared"] \in Row
    BY ReleasedInv DEF Row, Etats
  <2> QED
    BY <1>15, <2>1, <1>i, ReleasedInv, SaveKeeps DEF DisengageSave
<1> QED
  BY <1>1, <1>2, <1>3, <1>4, <1>5, <1>6, <1>7, <1>8, <1>9, <1>10, <1>11, <1>12, <1>13,
     <1>14, <1>15, <1>16, <1>17, CancelCreatedKeeps, OpenModeKeeps DEF WebSteps

\* A definitive resolution was submitted: the slot has known it since its guard.
LEMMA DefinitiveSaveKeeps ==
    ASSUME IInv, NEW s \in Slots, DefinitiveSave(s)
    PROVE  IInv'
<1> DEFINE new == [row EXCEPT !.etat = "resolved_definitive"]
<1>1. overrides = 0 => submitted
  BY DEF IInv, DefinitiveSave, JobInv
<1>2. new \in Row /\ RowInv(new)
  BY <1>1 DEF IInv, TypeOK, Row, Etats, RowInv
<1> QED
  BY <1>2, SaveKeeps DEF DefinitiveSave, Ops, Bound

\* Ending the collaborations leaves the incident alone.
LEMMA TerminateKeeps ==
    ASSUME IInv, NEW s \in Slots, TerminateCollaborations(s)
    PROVE  IInv'
<1>1. Terminated \in [Users -> Collab]
  BY DEF IInv, TypeOK, Terminated, Collab, Statuses, NoCollab
<1> QED
  BY <1>1, WriteKeeps DEF TerminateCollaborations, Ops, Bound

\* The three saves of the anti-freeze task.
LEMMA AntiGelSaveKeeps ==
    ASSUME IInv, NEW s \in Slots, AntiGelSave(s)
    PROVE  IInv'
<1> DEFINE reverted == [Released EXCEPT !.etat = "declared", !.w75 = FALSE, !.w90 = FALSE]
           warned90 == [row EXCEPT !.w75 = TRUE, !.w90 = TRUE]
           warned75 == [row EXCEPT !.w75 = TRUE]
<1>1. reverted \in Row /\ RowInv(reverted)
  BY ReleasedInv DEF Row, Etats
<1>2. warned90 \in Row /\ RowInv(warned90)
  BY DEF IInv, TypeOK, Row, RowInv
<1>3. warned75 \in Row /\ RowInv(warned75)
  BY DEF IInv, TypeOK, Row, RowInv
<1>4. Save(s, reverted, "idle") \/ Save(s, warned90, "idle") \/ Save(s, warned75, "idle")
  BY DEF AntiGelSave
<1> QED
  BY <1>1, <1>2, <1>3, <1>4, SaveKeeps DEF Ops, Bound

\* A crash drops what the slot had still to write.
LEMMA CrashKeeps ==
    ASSUME IInv, NEW s \in Slots, Crash(s)
    PROVE  IInv'
<1>1. /\ job' \in [Slots -> Job]
      /\ \A t \in Slots : JobInv(job[t])'
  BY GotoKeeps DEF IInv, Crash, Ops, Bound
<1> QED
  BY <1>1 DEF IInv, TypeOK, RowInv, Crash

\* Time keeps the row's invariant, and that of every copy in flight.
LEMMA LaterInv ==
    ASSUME NEW r \in Row
    PROVE  Later(r) \in Row /\ (RowInv(r) => RowInv(Later(r)))
<1>1. \A a \in (0 .. RevertAfter) \cup {None} :
        (IF a = None \/ a = RevertAfter THEN a ELSE a + 1) \in (0 .. RevertAfter) \cup {None}
  BY DelaysAssumption
<1>2. \A d \in (0 .. ValidationDelay) \cup {None} :
        (IF d = None \/ d = 0 THEN d ELSE d - 1) \in (0 .. ValidationDelay) \cup {None}
  BY DelaysAssumption
<1>3. Later(r) \in Row
  BY <1>1, <1>2 DEF Later, Row
<1>4. RowInv(r) => RowInv(Later(r))
  BY DEF Later, Row, RowInv
<1> QED
  BY <1>3, <1>4

\* Time passes for the row and for every copy of it alike.
LEMMA TickKeeps ==
    ASSUME IInv, Tick
    PROVE  IInv'
<1>1. row' \in Row /\ RowInv(row)'
  BY LaterInv DEF IInv, TypeOK, Tick, RowInv
<1>2. ASSUME NEW s \in Slots PROVE job'[s] \in Job /\ JobInv(job[s])'
  <2>1. job[s] \in Job /\ JobInv(job[s])
    BY DEF IInv, TypeOK
  <2>2. CASE job[s].snap = None
    BY <2>1, <2>2 DEF Tick, JobInv
  <2>3. CASE job[s].snap # None
    <3>1. job'[s] = [job[s] EXCEPT !.snap = Later(job[s].snap)]
      BY <2>3 DEF Tick
    <3>2. job[s].snap \in Row
      BY <2>1, <2>3 DEF Job
    <3>3. /\ Later(job[s].snap) \in Row
          /\ RowInv(job[s].snap) => RowInv(Later(job[s].snap))
      BY <3>2, LaterInv
    <3>4. Later(job[s].snap) # None
      BY <3>3, NoneAssumption
    <3>5. job'[s] \in Job
      BY <2>1, <3>1, <3>3 DEF Job
    <3>6. JobInv(job[s])'
      BY <2>1, <2>3, <3>1, <3>3, <3>4 DEF Tick, Job, JobInv, RowInv
    <3> QED
      BY <3>5, <3>6
  <2> QED
    BY <2>2, <2>3
<1>3. job' \in [Slots -> Job]
  BY <1>2 DEF Tick
<1> QED
  BY <1>1, <1>2, <1>3 DEF IInv, TypeOK, Tick

\* The invariant is inductive.
LEMMA NextKeeps == IInv /\ [Next]_vars => IInv'
<1> SUFFICES ASSUME IInv, [Next]_vars PROVE IInv'
  OBVIOUS
<1>1. CASE UNCHANGED vars
  BY <1>1 DEF vars, IInv, TypeOK, RowInv, JobInv
<1>2. CASE Next
  BY <1>2, RequestsKeep, WebStepsKeep, BeatKeeps, AntiGelSaveKeeps, DefinitiveSaveKeeps,
     TerminateKeeps, CrashKeeps, TickKeeps DEF Next, Slots
<1> QED
  BY <1>1, <1>2

\* It holds of an incident just reported.
LEMMA InitIInv == Init => IInv
<1> SUFFICES ASSUME Init PROVE IInv
  OBVIOUS
<1>1. TypeOK
  BY DelaysAssumption DEF Init, TypeOK, Row, Etats, Collab, Job, Ops, Idle
<1> QED
  BY <1>1, NoneAssumption DEF Init, IInv, RowInv, JobInv, Idle

-----------------------------------------------------------------------------
\* The invariant, from which the properties of the race run follow.
THEOREM Invariance == Spec => []IInv
  BY InitIInv, NextKeeps, PTL DEF Spec

\* Whatever the handlers and wherever they stop, the columns stay in their domains.
THEOREM TypeCorrect == Spec => []TypeOK
<1>1. IInv => TypeOK
  BY DEF IInv
<1> QED
  BY <1>1, Invariance, PTL

\* No lost update of the handlers makes a declared incident somebody's: only a form of PUT
\* that writes these columns can.
THEOREM DeclaredIsFree == Spec => []FreeWhenDeclared
<1>1. IInv => FreeWhenDeclared
  BY DEF IInv, RowInv, FreeWhenDeclared
<1> QED
  BY <1>1, Invariance, PTL

\* The 75 % warning never comes after the 90 % one, unless a form of PUT set the flags.
THEOREM WarningsInOrder == Spec => []WarningsOrdered
<1>1. IInv => WarningsOrdered
  BY DEF IInv, RowInv, WarningsOrdered
<1> QED
  BY <1>1, Invariance, PTL

\* No handler resolves definitively what was not submitted to validation; a form of PUT can.
THEOREM DefinitiveMeansSubmitted == Spec => []DefinitiveWasSubmitted
<1>1. IInv => DefinitiveWasSubmitted
  BY DEF IInv, RowInv, DefinitiveWasSubmitted
<1> QED
  BY <1>1, Invariance, PTL

-----------------------------------------------------------------------------
(* As long as no two handlers overlap, the incident endpoints and the beat  *)
(* tasks, with their crashes, implement the documented workflow.           *)

\* The operations about which Current says something.
Guarded == {"take_internal", "handle_take", "take_leader", "handle_resolve", "prepare",
            "disengage", "share", "offer", "leave", "release", "reopen", "return", "declare", "validate",
            "reject", "auto_validate", "revert", "close", "edit"}

\* A slot that is alone and has nothing to check any more satisfies Current.
LEMMA GotoCurrent ==
    ASSUME OneSlot, TypeOK, NEW s \in Slots, NEW op \in Ops \ Guarded, Goto(s, op)
    PROVE  \A t \in Slots : Current(job[t])'
<1> SUFFICES ASSUME NEW t \in Slots PROVE Current(job[t])'
  OBVIOUS
<1>1. t = s
  BY DEF OneSlot
<1>2. job'[s].op = op
  BY DEF Goto, TypeOK, Job, Idle
<1> QED
  BY <1>1, <1>2 DEF Current, Guarded

\* A handler that has just read the incident is up to date.
LEMMA ReadForCurrent ==
    ASSUME OneSlot, TypeOK, NEW s \in Slots, NEW op, NEW u, NEW new, NEW snap,
           ReadFor(s, op, u, new, snap),
           Current([op |-> op, user |-> u, new |-> new, snap |-> snap])
    PROVE  \A t \in Slots : Current(job[t])'
<1> DEFINE j == [op |-> op, user |-> u, new |-> new, snap |-> snap]
<1> SUFFICES ASSUME NEW t \in Slots PROVE Current(job[t])'
  OBVIOUS
<1>1. t = s
  BY DEF OneSlot
<1>2. job'[s] = j /\ row' = row
  BY DEF ReadFor, TypeOK
<1> HIDE DEF j
<1>3. Current(j)
  BY DEF j
<1> QED
  BY <1>1, <1>2, <1>3 DEF Current, Stamped

\* With one slot, starting a handler leaves nothing else to be outdated.
LEMMA ReadCurrent ==
    ASSUME OneSlot, TypeOK, NEW s \in Slots, NEW op, NEW u, NEW snap, Read(s, op, u, snap),
           Current([op |-> op, user |-> u, new |-> NoCollab, snap |-> snap])
    PROVE  \A t \in Slots : Current(job[t])'
BY ReadForCurrent DEF Read

\* What the guard of a request establishes is what its save will rely on.
LEMMA RequestsCurrent ==
    ASSUME OneSlot, SerialInv, NEW s \in Web, Requests(s)
    PROVE  \A t \in Slots : Current(job[t])'
<1> USE DEF Slots
<1>t. TypeOK /\ row \in Row
  BY DEF SerialInv, IInv, TypeOK
<1> DEFINE G == \A t \in Slots : Current(job[t])'
<1>1. ASSUME NEW u \in Users, TakeInternal(s, u) PROVE G
  BY <1>1, <1>t, ReadCurrent DEF TakeInternal, Current
<1>2. ASSUME NEW u \in Users, TakeAsLeader(s, u) PROVE G
  <2>1. Copy.etat = row.etat
    BY <1>t DEF Copy, Row
  <2> QED
    BY <1>2, <1>t, <2>1, ReadCurrent DEF TakeAsLeader, MayJoin, Current
<1>3. ASSUME NEW u \in Users, NEW role \in Roles, Join(s, u, role) PROVE G
  BY <1>3, <1>t, ReadForCurrent DEF Join, Current
<1>4. ASSUME NEW u \in Users, HandleTake(s, u) PROVE G
  BY <1>4, <1>t, ReadCurrent DEF HandleTake, Current
<1>5. ASSUME NEW u \in Users, HandleResolve(s, u) PROVE G
  BY <1>5, <1>t, ReadCurrent DEF HandleResolve, Current
<1>6. ASSUME NEW u \in Users, PrepareResolution(s, u) PROVE G
  BY <1>6, <1>t, ReadCurrent DEF PrepareResolution, Current
<1>7. ASSUME NEW u \in Users, ReturnForCompletion(s, u) PROVE G
  BY <1>7, <1>t, ReadCurrent DEF ReturnForCompletion, Current
<1>8. ASSUME NEW u \in Users, DeclareResolved(s, u) PROVE G
  BY <1>8, <1>t, ReadCurrent DEF DeclareResolved, Current
<1>9. ASSUME NEW u \in Users, CloseIncident(s, u) PROVE G
  BY <1>9, <1>t, ReadCurrent DEF CloseIncident, Current
<1>10. ASSUME NEW u \in Users, Disengage(s, u) PROVE G
  BY <1>10, <1>t, ReadCurrent DEF Disengage, Current
<1>11. ASSUME ValidateResolution(s) \/ RejectResolution(s) PROVE G
  BY <1>11, <1>t, ReadCurrent DEF ValidateResolution, RejectResolution, Current
<1>12. ASSUME NEW e \in Etats, EditIncident(s, e) PROVE G
  <2> DEFINE new == [row EXCEPT !.etat = e]
  <2>1. new.etat = e /\ new.takenBy = row.takenBy
    BY <1>t DEF Row
  <2>2. e \in {"in_progress", "resolved", row.etat} /\ Read(s, "edit", NoUser, new)
    BY <1>12 DEF EditIncident
  <2> HIDE DEF new
  <2> QED
    BY <2>1, <2>2, <1>t, ReadCurrent DEF Current
<1>13. ASSUME NEW f \in Forms, Override(s, f) PROVE G
  BY <1>13, <1>t, ReadCurrent DEF Override, Current
<1> QED
  BY <1>1, <1>2, <1>3, <1>4, <1>5, <1>6, <1>7, <1>8, <1>9, <1>10, <1>11, <1>12, <1>13 DEF Requests

\* The same for the selections of the beat tasks.
LEMMA BeatCurrent ==
    ASSUME OneSlot, SerialInv, NEW s \in Workers, Beat(s)
    PROVE  \A t \in Slots : Current(job[t])'
<1> USE DEF Slots
<1>t. TypeOK /\ row \in Row
  BY DEF SerialInv, IInv, TypeOK
<1>1. ASSUME AutoValidate(s) PROVE \A t \in Slots : Current(job[t])'
  BY <1>1, <1>t, ReadCurrent DEF AutoValidate, Current
<1>2. ASSUME RevertStale(s) PROVE \A t \in Slots : Current(job[t])'
  <2>1. row.age = RevertAfter
    BY <1>2, <1>t, DelaysAssumption DEF RevertStale, Stamped, Row
  <2> QED
    BY <1>2, <1>t, <2>1, ReadCurrent DEF RevertStale, Current
<1>3. ASSUME WarnAt90(s) \/ WarnAt75(s) PROVE \A t \in Slots : Current(job[t])'
  BY <1>3, <1>t, ReadCurrent DEF WarnAt90, WarnAt75, Current
<1> QED
  BY <1>1, <1>2, <1>3 DEF Beat

-----------------------------------------------------------------------------
(* The steps.  Those that only write collaborations, or start a handler,    *)
(* change neither the status nor the leader.                               *)

File == <<row.etat, row.takenBy, overrides>>

\* From one statement of a handler to the next, what was read stays true.
LEMMA WebStepsCurrent ==
    ASSUME OneSlot, SerialInv, NEW s \in Slots, WebSteps(s)
    PROVE  \A t \in Slots : Current(job[t])'
<1> DEFINE G == \A t \in Slots : Current(job[t])'
<1>t. TypeOK /\ Current(job[s])
  BY DEF SerialInv, IInv
<1>1. ASSUME NEW op \in Ops \ Guarded, Goto(s, op) PROVE G
  BY <1>1, <1>t, GotoCurrent
<1>2. {"idle", "add_leader", "create_leader", "reset_contributors", "cancel", "cancel_open",
       "open"} \subseteq Ops \ Guarded
  BY DEF Ops, Guarded
<1>3. CASE DisengageOwn(s) \/ LookForHeirs(s) \/ DisengageShare(s)
  <2> DEFINE Next4 == {"share", "offer", "leave", "release", "reopen"}
  <2>1. \E op \in Next4 : Goto(s, op) /\ row' = row
    BY <1>3 DEF DisengageOwn, LookForHeirs, DisengageShare, Write
  <2>2. PICK op \in Next4 : Goto(s, op) /\ row' = row
    BY <2>1
  <2>3. row.etat = "taken_into_account"
    BY <1>3, <1>t DEF DisengageOwn, LookForHeirs, DisengageShare, At, Current
  <2>4. job'[s].op = op
    BY <2>2, <1>t DEF Goto, TypeOK, Job
  <2>5. \A t \in Slots : t = s
    BY DEF OneSlot
  <2> QED
    BY <2>2, <2>3, <2>4, <2>5 DEF Current
<1>4. CASE ~(DisengageOwn(s) \/ LookForHeirs(s) \/ DisengageShare(s))
  <2>1. \E op \in {"idle", "add_leader", "create_leader", "reset_contributors", "cancel",
                   "cancel_open", "open"} : Goto(s, op)
    BY <1>4 DEF WebSteps, TakeInternalSave, AddLeader, TakeAsLeaderSave, CreateLeader,
       ResetContributors, JoinCreate, Create, CancelCreated, OpenMode, HandleTakeSave,
       EditIncidentSave, OverrideSave, PrepareResolutionSave, ReturnForCompletionSave,
       DeclareResolvedSave, RejectResolutionSave, ResolveSave, DisengageSave, Save, Write
  <2> QED
    BY <1>1, <1>2, <2>1
<1> QED
  BY <1>3, <1>4

\* No deadline that has passed becomes a future one.
LEMMA TickCurrent ==
    ASSUME SerialInv, Tick
    PROVE  \A t \in Slots : Current(job[t])'
<1> SUFFICES ASSUME NEW t \in Slots PROVE Current(job[t])'
  OBVIOUS
<1>1. row \in Row /\ job[t] \in Job /\ Current(job[t])
  BY DEF SerialInv, IInv, TypeOK
<1>2. /\ row'.etat = row.etat /\ row'.takenBy = row.takenBy
      /\ row.left = 0 => row'.left = 0
      /\ row.age = RevertAfter => row'.age = RevertAfter
  BY <1>1 DEF Tick, Later, Row
<1>3. /\ job'[t].op = job[t].op
      /\ job[t].snap # None => /\ job'[t].snap.etat = job[t].snap.etat
                               /\ job'[t].snap.takenBy = job[t].snap.takenBy
      /\ job[t].snap = None => job'[t].snap = job[t].snap
  BY <1>1 DEF Tick, Later, Job, Row
<1>4. job[t].op \in {"take_leader", "handle_take", "handle_resolve", "edit", "close"}
        => job[t].snap # None
  BY DEF SerialInv, IInv, JobInv
<1>5. RevertAfter # None
  BY DelaysAssumption, NoneAssumption
<1> QED
  BY <1>1, <1>2, <1>3, <1>4, <1>5 DEF Current, Stamped

\* The invariant of non-overlapping handlers is inductive.
LEMMA SerialKeeps == OneSlot /\ SerialInv /\ [Next]_vars => SerialInv'
<1> SUFFICES ASSUME OneSlot, SerialInv, [Next]_vars PROVE SerialInv'
  OBVIOUS
<1>1. IInv'
  BY NextKeeps DEF SerialInv
<1>2. \A t \in Slots : Current(job[t])'
  <2>1. CASE UNCHANGED vars
    BY <2>1 DEF vars, SerialInv, Current, Stamped
  <2>2. ASSUME NEW s \in Slots,
               AntiGelSave(s) \/ DefinitiveSave(s) \/ TerminateCollaborations(s) \/ Crash(s)
        PROVE  \A t \in Slots : Current(job[t])'
    <3>1. \E op \in {"idle", "terminate"} : Goto(s, op)
      BY <2>2 DEF AntiGelSave, DefinitiveSave, TerminateCollaborations, Crash, Save, Write
    <3>2. {"idle", "terminate"} \subseteq Ops \ Guarded
      BY DEF Ops, Guarded
    <3> QED
      BY <3>1, <3>2, GotoCurrent DEF SerialInv, IInv
  <2>3. CASE Next
    BY <2>2, <2>3, RequestsCurrent, WebStepsCurrent, BeatCurrent, TickCurrent DEF Next, Slots
  <2> QED
    BY <2>1, <2>3
<1> QED
  BY <1>1, <1>2 DEF SerialInv

\* It holds of an incident just reported.
LEMMA InitSerial == Init => SerialInv
BY InitIInv DEF Init, SerialInv, Current, Idle

-----------------------------------------------------------------------------
(* The refinement.                                                         *)

\* A step that writes neither column is a stutter of the workflow.
LEMMA SaveWorkflow ==
    ASSUME OneSlot, SerialInv, NEW s \in Slots, WebSteps(s)
    PROVE  [Workflow!Next]_File
<1> DEFINE u == job[s].user
           snap == job[s].snap
<1>r. row \in Row /\ RowInv(row)
  BY DEF SerialInv, IInv, TypeOK
<1>j. job[s] \in Job /\ JobInv(job[s]) /\ Current(job[s])
  BY DEF SerialInv, IInv, TypeOK
<1> DEFINE Kept == UNCHANGED overrides
<1>o. overrides \in Nat
  BY DEF SerialInv, IInv, TypeOK
<1>1. CASE UNCHANGED row /\ Kept
  BY <1>1 DEF File
<1>k. ~OverrideSave(s) => Kept
  BY DEF WebSteps, TakeInternalSave, AddLeader, TakeAsLeaderSave, CreateLeader,
     ResetContributors, JoinCreate, Create, CancelCreated, OpenMode, HandleTakeSave,
     EditIncidentSave, PrepareResolutionSave, ReturnForCompletionSave, DeclareResolvedSave,
     RejectResolutionSave, ResolveSave, DisengageOwn, LookForHeirs, DisengageShare,
     DisengageSave, Save, Write
<1>10. ASSUME OverrideSave(s) PROVE Workflow!Override
  <2>1. snap \in Row
    BY <1>10, <1>j DEF OverrideSave, At, JobInv, Job
  <2> QED
    BY <1>10, <2>1 DEF OverrideSave, Row, Etats, Workflow!Override, Workflow!Etats
<1>2. ASSUME TakeInternalSave(s) PROVE Workflow!Take(u) /\ u \in Users
  BY <1>2, <1>r, <1>j, <1>o DEF TakeInternalSave, At, Save, TakenNow, Current, RowInv, JobInv, Row,
     Workflow!Take
<1>3. ASSUME TakeAsLeaderSave(s)
      PROVE  u \in Users /\ (Workflow!Take(u) \/ Workflow!Lead(u))
  BY <1>3, <1>r, <1>j, <1>o DEF TakeAsLeaderSave, At, Save, TakenNow, Current, JobInv, Row,
     Workflow!Take, Workflow!Lead
<1>4. ASSUME OpenMode(s) PROVE UNCHANGED File
  BY <1>4, <1>r DEF OpenMode, Save, Row, File
<1>5. ASSUME HandleTakeSave(s) PROVE Workflow!Take(u) /\ u \in Users
  <2>1. snap \in Row /\ u \in Users /\ row.etat = "declared"
    BY <1>5, <1>j DEF HandleTakeSave, At, JobInv, Job, Current
  <2> QED
    BY <1>5, <1>r, <1>o, <2>1 DEF HandleTakeSave, Save, RowInv, Row, Workflow!Take
<1>6. ASSUME EditIncidentSave(s) PROVE Workflow!Put \/ UNCHANGED File
  BY <1>6, <1>j DEF EditIncidentSave, At, Save, Current, Workflow!Put, File
<1>7. ASSUME \/ PrepareResolutionSave(s) \/ ReturnForCompletionSave(s)
             \/ DeclareResolvedSave(s) \/ RejectResolutionSave(s)
      PROVE  Workflow!Move
  BY <1>7, <1>r, <1>j DEF PrepareResolutionSave, ReturnForCompletionSave, DeclareResolvedSave,
     RejectResolutionSave, At, Save, Current, Row, Workflow!Move, Workflow!Moves
<1>8. ASSUME ResolveSave(s) PROVE Workflow!Close
  <2>1. /\ snap \in Row /\ snap.takenBy = row.takenBy
        /\ row.etat # "resolved"
    BY <1>8, <1>j DEF ResolveSave, JobInv, Job, Current
  <2> QED
    BY <1>8, <2>1 DEF ResolveSave, Save, Row, Workflow!Close
<1>9. ASSUME DisengageSave(s) PROVE Workflow!Leave
  BY <1>9, <1>r, <1>j DEF DisengageSave, At, Save, Released, Current, Row, Workflow!Leave
<1>11. CASE OverrideSave(s)
  BY <1>10, <1>11 DEF Workflow!Next
<1>12. CASE ~OverrideSave(s)
  <2>1. Workflow!Step \/ UNCHANGED File \/ UNCHANGED row
    BY <1>2, <1>3, <1>4, <1>5, <1>6, <1>7, <1>8, <1>9, <1>12
       DEF WebSteps, AddLeader, CreateLeader, ResetContributors, JoinCreate, Create,
           CancelCreated, DisengageOwn, LookForHeirs, DisengageShare, Write, Workflow!Step
  <2> QED
    BY <1>1, <1>12, <1>k, <2>1 DEF Workflow!Next
<1> QED
  BY <1>11, <1>12

\* Every step of the handlers is a step of the workflow or leaves status and leader alone.
LEMMA NextWorkflow ==
    ASSUME OneSlot, SerialInv, [Next]_vars
    PROVE  [Workflow!Next]_File
<1>r. row \in Row
  BY DEF SerialInv, IInv, TypeOK
<1>1. CASE UNCHANGED vars
  BY <1>1 DEF vars, File
<1>2. ASSUME NEW s \in Slots, AntiGelSave(s)
      PROVE  UNCHANGED overrides /\ (Workflow!Leave \/ UNCHANGED File)
  BY <1>2, <1>r DEF SerialInv, AntiGelSave, At, Save, Released, Current, Stamped, Row,
     Workflow!Leave, File
<1>3. ASSUME NEW s \in Slots, DefinitiveSave(s) PROVE UNCHANGED overrides /\ Workflow!Move
  BY <1>3, <1>r DEF SerialInv, DefinitiveSave, Save, Current, Row, Workflow!Move, Workflow!Moves
<1>4. ASSUME Tick PROVE UNCHANGED File
  BY <1>4, <1>r DEF Tick, Later, Row, File
<1>5. ASSUME NEW s \in Web, Requests(s) PROVE UNCHANGED File
  BY <1>5 DEF Requests, TakeInternal, TakeAsLeader, Join, HandleTake, HandleResolve,
     PrepareResolution, ReturnForCompletion, DeclareResolved, CloseIncident, Disengage,
     ValidateResolution, RejectResolution, EditIncident, Override, Read, ReadFor, File
<1>6. ASSUME NEW s \in Workers, Beat(s) PROVE UNCHANGED File
  BY <1>6 DEF Beat, AutoValidate, RevertStale, WarnAt90, WarnAt75, Read, ReadFor, File
<1>7. ASSUME NEW s \in Slots, TerminateCollaborations(s) \/ Crash(s) PROVE UNCHANGED File
  BY <1>7 DEF TerminateCollaborations, Crash, Write, File
<1>8. CASE Next
  BY <1>2, <1>3, <1>4, <1>5, <1>6, <1>7, <1>8, SaveWorkflow
     DEF Next, Slots, Workflow!Next, Workflow!Step
<1> QED
  BY <1>1, <1>8

\* When handlers do not overlap, status and leader follow the documented workflow before and
\* after every form of PUT that writes them.
THEOREM Implements == ASSUME OneSlot PROVE Spec => FollowsWorkflow
<1>1. Init => Workflow!Init
  BY DEF Init, Workflow!Init
<1>2. SerialInv /\ [Next]_vars => [Workflow!Next]_<<row.etat, row.takenBy, overrides>>
  BY OneSlot, NextWorkflow DEF File
<1>3. SerialInv /\ [Next]_vars => SerialInv'
  BY OneSlot, SerialKeeps
<1> QED
  BY <1>1, <1>2, <1>3, InitSerial, PTL DEF Spec, FollowsWorkflow, Workflow!Spec
=============================================================================
