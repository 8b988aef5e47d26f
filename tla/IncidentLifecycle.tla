-------------------------- MODULE IncidentLifecycle --------------------------
(***************************************************************************)
(* The handlers of Mapapi/views/incident.py that move an incident along its *)
(* workflow, from its report to its definitive resolution, and the two      *)
(* Celery beat tasks that act on it when its leader or the super admin does  *)
(* not.  See IncidentState for the state and for what a slot is.            *)
(***************************************************************************)
EXTENDS IncidentState

-----------------------------------------------------------------------------
(* Taking charge.                                                          *)

\* The columns a take writes: age 0 is taken_in_charge_at = now.
TakenNow(r, u, mode) ==
    [r EXCEPT !.etat = "taken_into_account", !.takenBy = u, !.mode = mode,
              !.age = 0, !.w75 = FALSE, !.w90 = FALSE]

TakeInternal(s, u) ==
    /\ u \in Admins
    /\ row.takenBy = NoUser /\ row.mode = None /\ row.etat = "declared"
    /\ Read(s, "take_internal", u, None)
TakeInternalSave(s) ==
    /\ At(s, "take_internal")
    /\ Save(s, TakenNow(row, job[s].user, "internal"), "add_leader")
\* get_or_create: a row the user already has stays as it is, even a terminated one.
AddLeader(s) ==
    /\ At(s, "add_leader")
    /\ LET u == job[s].user IN
       Write(s, IF collab[u] = NoCollab
                THEN [collab EXCEPT ![u] = [role |-> "leader", status |-> "accepted"]]
                ELSE collab, "idle")

\* The collaborative mode refuses a closed incident, an incident in internal mode
\* and a user who already has a collaboration.
MayJoin(u) == /\ u \in Admins /\ collab[u] = NoCollab
              /\ row.etat # "resolved" /\ row.mode # "internal"

TakeAsLeader(s, u) ==
    /\ MayJoin(u) /\ row.takenBy = NoUser
    /\ Read(s, "take_leader", u, Copy)
\* update_fields always names etat: the one that was read is written back.
TakeAsLeaderSave(s) ==
    /\ At(s, "take_leader")
    /\ LET u == job[s].user
           was == job[s].snap.etat IN
       Save(s, IF was = "declared"
               THEN TakenNow(row, u, "collaborative")
               ELSE [row EXCEPT !.takenBy = u, !.etat = was, !.mode = "collaborative"],
            "create_leader")
\* A row created meanwhile makes the unique constraint fail the request.
CreateLeader(s) ==
    /\ At(s, "create_leader")
    /\ LET u == job[s].user IN
       \/ /\ collab[u] = NoCollab
          /\ Write(s, [collab EXCEPT ![u] = [role |-> "leader", status |-> "accepted"]],
                   "reset_contributors")
       \/ collab[u] # NoCollab /\ Write(s, collab, "idle")
\* The new leader has to accept the contributors again.
ResetContributors(s) ==
    /\ At(s, "reset_contributors")
    /\ Write(s, [v \in Users |->
           IF v # job[s].user /\ Accepted(v, "contributor")
           THEN [collab[v] EXCEPT !.status = "pending"] ELSE collab[v]], "idle")

\* Joining under a leader: observers at once, contributors when they are accepted.
Join(s, u, role) ==
    /\ role \in {"contributor", "observer"} /\ MayJoin(u)
    /\ LET status == IF role = "observer" \/ row.takenBy = NoUser THEN "accepted" ELSE "pending" IN
       ReadFor(s, "join", u, [role |-> role, status |-> status], Copy)
JoinCreate(s) == At(s, "join") /\ Create(s, job[s].snap.mode = None)

\* The endpoint kept from before the modes: any user, and taken_in_charge_at,
\* the mode and the warnings are left as they are.  It saves every column.
HandleTake(s, u) == row.etat = "declared" /\ Read(s, "handle_take", u, row)
HandleTakeSave(s) ==
    /\ At(s, "handle_take")
    /\ Save(s, [job[s].snap EXCEPT !.etat = "taken_into_account",
                                   !.takenBy = job[s].user], "idle")
HandleResolve(s, u) == row.etat = "taken_into_account" /\ Read(s, "handle_resolve", u, row)

\* PUT, by anybody: the columns the form carries, over those that were read; all are saved.
\* Clients send the status the handler has code for, or none of the workflow's columns.
EditIncident(s, e) ==
    /\ e \in {"in_progress", "resolved", row.etat}
    /\ Read(s, "edit", NoUser, [row EXCEPT !.etat = e])
EditIncidentSave(s) == At(s, "edit") /\ Save(s, job[s].snap, "idle")
\* Nothing stops a form from carrying others, or another status.
Filled(r, f) ==
    LET at(c, old, new) == IF c \in f.carries THEN new ELSE old IN
    [etat    |-> at("etat", r.etat, f.values.etat),
     takenBy |-> at("takenBy", r.takenBy, f.values.takenBy),
     mode    |-> at("mode", r.mode, f.values.mode),
     age     |-> at("age", r.age, f.values.age),
     w75     |-> at("w75", r.w75, f.values.w75),
     w90     |-> at("w90", r.w90, f.values.w90),
     left    |-> at("left", r.left, f.values.left)]
Override(s, f) == overrides < MaxOverrides /\ Read(s, "override", NoUser, Filled(row, f))
OverrideSave(s) ==
    /\ At(s, "override") /\ overrides < MaxOverrides
    /\ row' = job[s].snap /\ overrides' = overrides + 1
    /\ Goto(s, "idle") /\ UNCHANGED <<collab, submitted>>

-----------------------------------------------------------------------------
(* The resolution file, its validation, and closing without validation.    *)

PrepareResolution(s, u) == row.etat = "taken_into_account" /\ Read(s, "prepare", u, None)
PrepareResolutionSave(s) ==
    /\ At(s, "prepare")
    /\ Save(s, [row EXCEPT !.etat = "resolution_prepared"], "idle")

ReturnForCompletion(s, u) ==
    /\ u \in Admins /\ row.etat = "resolution_prepared"
    /\ Read(s, "return", u, None)
ReturnForCompletionSave(s) ==
    /\ At(s, "return")
    /\ Save(s, [row EXCEPT !.etat = "taken_into_account"], "idle")

DeclareResolved(s, u) ==
    /\ u \in Admins /\ row.etat \in {"taken_into_account", "resolution_prepared"}
    /\ Read(s, "declare", u, None)
\* Faulty variant: no deadline for the super admin.
DeclareWithoutDeadline(s) ==
    /\ At(s, "declare")
    /\ row' = [row EXCEPT !.etat = "in_validation"]
    /\ submitted' = TRUE
    /\ Goto(s, "idle") /\ UNCHANGED <<collab, overrides>>
DeclareResolvedSave(s) ==
    /\ At(s, "declare")
    /\ row' = [row EXCEPT !.etat = "in_validation", !.left = ValidationDelay]
    /\ submitted' = TRUE
    /\ Goto(s, "idle") /\ UNCHANGED <<collab, overrides>>

\* By a super admin, who is no member of an organisation.
\* Faulty variant: a resolution can be validated as soon as it is prepared.
ValidatePrepared(s) ==
    row.etat \in {"resolution_prepared", "in_validation"} /\ Read(s, "validate", NoUser, None)
ValidateResolution(s) == row.etat = "in_validation" /\ Read(s, "validate", NoUser, None)
RejectResolution(s) == row.etat = "in_validation" /\ Read(s, "reject", NoUser, None)
RejectResolutionSave(s) ==
    /\ At(s, "reject")
    /\ Save(s, [row EXCEPT !.etat = "taken_into_account"], "idle")

\* Close: whether every task is over is the task component's state.
CloseIncident(s, u) ==
    /\ u \in Admins /\ IsIncidentLeader(u) /\ row.etat # "resolved"
    /\ Read(s, "close", u, row)
\* Both ways of resolving without validation save every column.
ResolveSave(s) ==
    /\ job[s].op \in {"close", "handle_resolve"}
    /\ Save(s, [job[s].snap EXCEPT !.etat = "resolved"], "idle")

\* The super admin's approval, or its absence for 72 hours.
DefinitiveSave(s) ==
    /\ job[s].op \in {"validate", "auto_validate"}
    /\ Save(s, [row EXCEPT !.etat = "resolved_definitive"], "terminate")
\* Faulty variant: only the guests are sent home.
TerminatedGuests == [u \in Users |-> IF Accepted(u, "contributor")
                                     THEN [collab[u] EXCEPT !.status = "terminated"]
                                     ELSE collab[u]]
\* Collaboration.objects.filter(status='accepted').update(status='terminated').
Terminated == [u \in Users |-> IF collab[u].status = "accepted"
                               THEN [collab[u] EXCEPT !.status = "terminated"]
                               ELSE collab[u]]
TerminateCollaborations(s) == At(s, "terminate") /\ Write(s, Terminated, "idle")

-----------------------------------------------------------------------------
(* Giving up leadership: a look between four statements.                    *)

\* Faulty variant: leaving in any status.
DisengageAnytime(s, u) ==
    u \in Admins /\ IsIncidentLeader(u) /\ Read(s, "disengage", u, None)
Disengage(s, u) ==
    /\ u \in Admins /\ IsIncidentLeader(u) /\ row.etat = "taken_into_account"
    /\ Read(s, "disengage", u, None)
DisengageOwn(s) ==
    /\ At(s, "disengage")
    /\ LET u == job[s].user IN
       Write(s, IF collab[u] = NoCollab THEN collab
                ELSE [collab EXCEPT ![u].status = "terminated"], "share")
\* The accepted contributors, by a query that is made twice: to see whether there are any,
\* and to offer them the leadership.  With none, every remaining collaboration ends and the
\* incident is free again.
Heirs(u) == {v \in Users \ {u} : Accepted(v, "contributor")}
LookForHeirs(s) ==
    /\ At(s, "share")
    /\ Write(s, collab, IF Heirs(job[s].user) # {} THEN "offer" ELSE "leave")
DisengageShare(s) ==
    \/ /\ At(s, "offer")
       /\ Write(s, [v \in Users |-> IF v \in Heirs(job[s].user)
                                    THEN [role |-> "leader", status |-> "pending"]
                                    ELSE collab[v]], "release")
    \/ At(s, "leave") /\ Write(s, Terminated, "reopen")
\* Faulty variants: a column forgotten.
ReleasedWithClock == [row EXCEPT !.takenBy = NoUser, !.mode = None]
ReleasedWithMode == [row EXCEPT !.takenBy = NoUser, !.age = None]
Released == [row EXCEPT !.takenBy = NoUser, !.mode = None, !.age = None]
DisengageSave(s) ==
    \/ At(s, "release") /\ Save(s, Released, "idle")
    \/ At(s, "reopen") /\ Save(s, [Released EXCEPT !.etat = "declared"], "idle")

-----------------------------------------------------------------------------
(* The beat tasks.  Each selects the rows first and saves them one by one   *)
(* from the copies it selected.                                            *)

AutoValidate(s) ==
    /\ row.etat = "in_validation" /\ row.left = 0
    /\ Read(s, "auto_validate", NoUser, None)

\* The branch of the anti-freeze task for an incident taken that long ago.
Stamped == row.etat = "taken_into_account" /\ row.age # None
\* Faulty variant: the incident is reverted only once its leader was warned.
RevertWarned(s) == Stamped /\ row.age >= RevertAfter /\ row.w90 /\ Read(s, "revert", NoUser, None)
RevertStale(s) == Stamped /\ row.age >= RevertAfter /\ Read(s, "revert", NoUser, None)
WarnAt90(s) ==
    /\ Stamped /\ row.age < RevertAfter /\ row.age >= Warn90 /\ ~row.w90
    /\ Read(s, "warn90", NoUser, None)
WarnAt75(s) ==
    /\ Stamped /\ row.age < RevertAfter /\ row.age >= Warn75 /\ ~row.w75
    /\ row.age >= Warn90 => row.w90
    /\ Read(s, "warn75", NoUser, None)
\* Faulty variant: the 90 % warning records only itself.
AntiGelSaveOnly90(s) ==
    \/ /\ At(s, "revert")
       /\ Save(s, [Released EXCEPT !.etat = "declared", !.w75 = FALSE, !.w90 = FALSE], "idle")
    \/ At(s, "warn90") /\ Save(s, [row EXCEPT !.w90 = TRUE], "idle")
    \/ At(s, "warn75") /\ Save(s, [row EXCEPT !.w75 = TRUE], "idle")
AntiGelSave(s) ==
    \/ /\ At(s, "revert")
       /\ Save(s, [Released EXCEPT !.etat = "declared", !.w75 = FALSE, !.w90 = FALSE], "idle")
    \/ At(s, "warn90") /\ Save(s, [row EXCEPT !.w75 = TRUE, !.w90 = TRUE], "idle")
    \/ At(s, "warn75") /\ Save(s, [row EXCEPT !.w75 = TRUE], "idle")

-----------------------------------------------------------------------------
(* The whole.                                                              *)

Requests(s) ==
    \/ \E u \in Users : \/ TakeInternal(s, u) \/ TakeAsLeader(s, u)
                        \/ \E role \in Roles : Join(s, u, role)
                        \/ HandleTake(s, u) \/ HandleResolve(s, u)
                        \/ PrepareResolution(s, u) \/ ReturnForCompletion(s, u)
                        \/ DeclareResolved(s, u) \/ CloseIncident(s, u) \/ Disengage(s, u)
    \/ ValidateResolution(s) \/ RejectResolution(s)
    \/ \E e \in Etats : EditIncident(s, e)
    \/ \E f \in Forms : Override(s, f)
WebSteps(s) ==
    \/ TakeInternalSave(s) \/ AddLeader(s)
    \/ TakeAsLeaderSave(s) \/ CreateLeader(s) \/ ResetContributors(s)
    \/ JoinCreate(s) \/ CancelCreated(s) \/ OpenMode(s) \/ HandleTakeSave(s)
    \/ EditIncidentSave(s) \/ OverrideSave(s)
    \/ PrepareResolutionSave(s) \/ ReturnForCompletionSave(s) \/ DeclareResolvedSave(s)
    \/ RejectResolutionSave(s) \/ ResolveSave(s)
    \/ DisengageOwn(s) \/ LookForHeirs(s) \/ DisengageShare(s) \/ DisengageSave(s)
Beat(s) == AutoValidate(s) \/ RevertStale(s) \/ WarnAt90(s) \/ WarnAt75(s)

Next == \/ \E s \in Web : Requests(s) \/ WebSteps(s)
        \/ \E s \in Workers : Beat(s) \/ AntiGelSave(s)
        \/ \E s \in Slots : DefinitiveSave(s) \/ TerminateCollaborations(s) \/ Crash(s)
        \/ Tick

Spec == Init /\ [][Next]_vars

-----------------------------------------------------------------------------
(* Fairness: beat sends each task every hour and the worker, restarted when *)
(* it dies, does not die at the same statement for ever; a web request ends *)
(* one way or another; time passes.                                         *)

HandlersEnd ==
    \A s \in Slots : WF_vars(WebSteps(s) \/ AntiGelSave(s) \/ DefinitiveSave(s)
                             \/ TerminateCollaborations(s) \/ Crash(s))
Fairness ==
    /\ WF_vars(Tick)
    /\ SF_vars(\E s \in Workers : AutoValidate(s))
    /\ SF_vars(\E s \in Workers : RevertStale(s))
    /\ \A s \in Workers : SF_vars(DefinitiveSave(s)) /\ SF_vars(AntiGelSave(s))
    /\ HandlersEnd
FairSpec == Spec /\ Fairness

-----------------------------------------------------------------------------
(* Properties.                                                             *)

\* However the handlers' statements interleave, a declared incident is anybody's to
\* take: it has no leader, no anti-freeze clock is running on it and it is not reserved
\* to one organisation, so that the guards of a take let every administrator pass (every
\* save that writes 'declared' clears the three, every save that sets one leaves 'declared').
\* That is the handlers' doing: it is claimed until a form of PUT writes these columns.
FreeWhenDeclared ==
    overrides = 0 /\ row.etat = "declared"
      => row.takenBy = NoUser /\ row.age = None /\ row.mode # "internal"

\* The late 75 % warning is never due once the 90 % one is recorded: every save that sets
\* or restores the second flag carries the first, unless a form of PUT set it.
WarningsOrdered == overrides = 0 /\ row.w90 => row.w75

\* No interleaving of the handlers makes an incident definitively resolved that no
\* organisation ever declared resolved: validation, explicit or tacit, judges something.
\* (A form of PUT can.)
DefinitiveWasSubmitted == overrides = 0 /\ row.etat = "resolved_definitive" => submitted

\* Why the three hold: they are true of the row and of every copy of it that a handler
\* may still write back, and an operation that would break them carries what it needs.
RowInv(r) ==
    overrides = 0 =>
      /\ r.etat = "declared" => r.takenBy = NoUser /\ r.age = None /\ r.mode # "internal"
      /\ r.w90 => r.w75
      /\ r.etat \in {"in_validation", "resolved_definitive"} => submitted
JobInv(j) ==
    /\ j.op \in {"take_internal", "take_leader", "handle_take"} => j.user \in Users
    /\ j.op \in {"take_leader", "handle_take", "handle_resolve", "edit", "close"}
         => j.snap # None /\ RowInv(j.snap)
    /\ j.op = "override" => j.snap # None
    /\ j.op \in {"validate", "auto_validate"} /\ overrides = 0 => submitted
IInv == TypeOK /\ RowInv(row) /\ \A s \in Slots : JobInv(job[s])

\* When handlers do not overlap, status and leader follow the documented workflow,
\* crashes between two statements included, and whatever forms of PUT made of them before.
Workflow == INSTANCE IncidentWorkflow WITH etat <- row.etat, leader <- row.takenBy
FollowsWorkflow == Workflow!Spec

\* A resolution in validation does not wait for ever: judged, or validated tacitly.  One that
\* a form of PUT left without deadline does.
InValidation == row.etat = "in_validation" /\ ~(row.left = None /\ overrides > 0)
TacitValidation == InValidation ~> ~InValidation

\* Nobody sits on an incident: one that is taken, with the date it was taken, is sooner or
\* later moved on, handed over or returned to 'declared', as forms do not put its date
\* forward for ever.
AntiGel == Stamped ~> ~Stamped

\* Why these two hold: as long as one slot does all the work, what an operation read
\* of the incident is still true when it saves.
Current(j) ==
    /\ j.op \in {"take_internal", "handle_take"} => row.etat = "declared"
    /\ j.op = "take_leader"
         => row.etat # "resolved" /\ row.takenBy = NoUser /\ j.snap.etat = row.etat
    /\ j.op \in {"handle_resolve", "prepare", "disengage", "share", "offer", "leave",
                 "release", "reopen"}
         => row.etat = "taken_into_account"
    /\ j.op = "return" => row.etat = "resolution_prepared"
    /\ j.op = "declare" => row.etat \in {"taken_into_account", "resolution_prepared"}
    /\ j.op \in {"validate", "reject", "auto_validate"} => row.etat = "in_validation"
    /\ j.op = "auto_validate" => row.left = 0
    /\ j.op = "revert" => Stamped /\ row.age = RevertAfter
    /\ j.op = "close" => row.etat # "resolved"
    /\ j.op = "edit" => j.snap.etat \in {"in_progress", "resolved", row.etat}
    /\ j.op \in {"handle_take", "handle_resolve", "edit", "close"}
         => j.snap.takenBy = row.takenBy
OneSlot == \A s, t \in Slots : s = t
SerialInv == IInv /\ \A s \in Slots : Current(job[s])

\* When handlers do not overlap, an incident its last member leaves keeps no accepted
\* collaboration behind when it is offered to everybody again.  (Requests that were
\* pending stay pending.)
LeavesNobodyBehind ==
    [][\A s \in Slots : At(s, "reopen") /\ DisengageSave(s)
                        => \A u \in Users : collab[u].status # "accepted"]_vars

-----------------------------------------------------------------------------
(* What the documentation says and the code does not do.                   *)

\* Tacit validation stands for a super admin who did not decide in time: it never
\* resolves an incident whose resolution was rejected.
RejectionStands ==
    [][\A s \in Slots : At(s, "auto_validate") /\ DefinitiveSave(s)
                        => row.etat # "taken_into_account"]_vars
=============================================================================
