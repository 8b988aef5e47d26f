-------------------------- MODULE Coordination_proofs --------------------------
(***************************************************************************)
(* The incident with those who come to it: its members, by the collaboration  *)
(* endpoints, and the organisations it is assigned to.  Each is a composition  *)
(* with the incident's own handlers and beat tasks.                          *)
(*                                                                         *)
(* The incident's invariants survive both, however their statements            *)
(* interleave.  As long as no two handlers overlap, the composition with the   *)
(* collaborations also follows the documented workflow and who may be on the   *)
(* incident is decided by its leader alone; and an answer to an assignment,    *)
(* given or tacit, is final and engages the incident.                        *)
(***************************************************************************)
EXTENDS Collaboration, OrgAssignment, IncidentLifecycle_proofs

-----------------------------------------------------------------------------
(* The collaborations: the incident's invariants, for any number of requests, *)
(* answers and editions.                                                    *)

\* Starting a collaboration handler keeps the invariant: it carries no row but a copy.
LEMMA CollaborationRequestsKeep ==
    ASSUME IInv, NEW s \in Web, CollaborationRequests(s)
    PROVE  IInv'
<1> USE DEF Slots
<1>c. Copy \in Row /\ RowInv(Copy)
  BY CopyInv
<1>k. collab \in [Users -> Collab]
  BY DEF IInv, TypeOK
<1>1. ASSUME NEW u \in Users, NEW role \in Roles, RequestCollaboration(s, u, role) PROVE IInv'
  <2> DEFINE new == [role |-> role, status |-> InitialStatus(role)]
  <2>1. new \in Collab
    BY DEF Collab, InitialStatus, Statuses
  <2>2. ReadFor(s, "request", u, new, Copy) \/ ReadFor(s, "replace", u, new, Copy)
    BY <1>1 DEF RequestCollaboration
  <2> QED
    BY <1>c, <2>1, <2>2, ReadForKeeps DEF Ops, JobInv
<1>2. ASSUME NEW u \in Users, NEW role \in Roles, BulkRequest(s, u, role) PROVE IInv'
  <2> DEFINE new == [role |-> role, status |-> "pending"]
  <2>1. new \in Collab
    BY DEF Collab, Statuses
  <2>2. ReadFor(s, "bulk", u, new, Copy)
    BY <1>2 DEF BulkRequest
  <2> QED
    BY <1>c, <2>1, <2>2, ReadForKeeps DEF Ops, JobInv
<1>3. ASSUME NEW u \in Users, NEW role \in Roles, EditCollaboration(s, u, role) PROVE IInv'
  <2> DEFINE new == [collab[u] EXCEPT !.role = role]
  <2>1. new \in Collab
    BY <1>3, <1>k DEF EditCollaboration, Collab, Roles
  <2>2. ReadFor(s, "rewrite", u, new, None)
    BY <1>3 DEF EditCollaboration
  <2> QED
    BY <2>1, <2>2, ReadForKeeps DEF Ops, JobInv
<1>4. ASSUME NEW u \in Users, NEW v \in Users, NEW status \in Statuses, Answer(s, u, v, status)
      PROVE  IInv'
  <2> DEFINE new == [collab[v] EXCEPT !.status = status]
  <2>1. new \in Collab
    BY <1>4, <1>k DEF Answer, Collab
  <2>2. ReadFor(s, "rewrite", v, new, Copy) \/ ReadFor(s, "rewrite", v, new, None)
    BY <1>4 DEF Answer
  <2> QED
    BY <1>c, <2>1, <2>2, ReadForKeeps DEF Ops, JobInv
<1>5. ASSUME NEW v \in Users, DeleteCollaboration(s, v) PROVE IInv'
  BY <1>5, ReadKeeps DEF DeleteCollaboration, Ops, JobInv
<1>6. {"accepted", "declined"} \subseteq Statuses
  BY DEF Statuses
<1>7. ASSUME NEW u \in Users, NEW c \in Arrivals, MoveHere(s, u, c) PROVE IInv'
  <2>1. c \in Collab
    BY ArrivalsAssumption
  <2> QED
    BY <1>7, <2>1, ReadForKeeps DEF MoveHere, Ops, JobInv
<1> QED
  BY <1>1, <1>2, <1>3, <1>4, <1>5, <1>6, <1>7 DEF CollaborationRequests,
     HandleCollaborationRequest, AcceptCollaboration, DeclineCollaboration

\* So do their statements, which write collaborations or open the mode.
LEMMA CollaborationStepsKeep ==
    ASSUME IInv, NEW s \in Slots, CollaborationSteps(s)
    PROVE  IInv'
<1> DEFINE u == job[s].user
           gone == [collab EXCEPT ![u] = NoCollab]
           new == [collab EXCEPT ![u] = job[s].new]
<1>1. gone \in [Users -> Collab] /\ new \in [Users -> Collab]
  BY DEF IInv, TypeOK, Job, Collab
<1>2. {"request", "open", "idle"} \subseteq Ops \ Bound
  BY DEF Ops, Bound
<1>3. ASSUME DeleteEnded(s) PROVE IInv'
  BY <1>1, <1>2, <1>3, WriteKeeps DEF DeleteEnded
<1>4. ASSUME RequestCreate(s) \/ BulkCreate(s) PROVE IInv'
  BY <1>4, CreateKeeps DEF RequestCreate, BulkCreate
<1>5. ASSUME Rewrite(s) PROVE IInv'
  <2>1. Write(s, new, "open") \/ Write(s, new, "idle")
    BY <1>5 DEF Rewrite
  <2> QED
    BY <1>1, <1>2, <2>1, WriteKeeps
<1>6. ASSUME DeleteSave(s) PROVE IInv'
  BY <1>1, <1>2, <1>6, WriteKeeps DEF DeleteSave
<1>7. ASSUME MoveSave(s) PROVE IInv'
  <2>1. Write(s, new, "idle") \/ Write(s, collab, "idle")
    BY <1>7 DEF MoveSave
  <2>2. collab \in [Users -> Collab]
    BY DEF IInv, TypeOK
  <2> QED
    BY <1>1, <1>2, <2>1, <2>2, WriteKeeps
<1> QED
  BY <1>3, <1>4, <1>5, <1>6, <1>7 DEF CollaborationSteps

\* The invariant of the incident is one of the composition.
THEOREM CollabInvariance == CollabSpec => []IInv
<1>1. IInv /\ [CollabNext]_vars => IInv'
  BY NextKeeps, CollaborationRequestsKeep, CollaborationStepsKeep DEF CollabNext, Slots
<1> QED
  BY <1>1, InitIInv, PTL DEF CollabSpec

\* Members can come and go as they like: until a form of PUT says otherwise, a declared
\* incident is free, the warnings come in order, and a definitive resolution was submitted.
THEOREM CollabSafe ==
    CollabSpec => [](FreeWhenDeclared /\ WarningsOrdered /\ DefinitiveWasSubmitted)
<1>1. IInv => FreeWhenDeclared /\ WarningsOrdered /\ DefinitiveWasSubmitted
  BY DEF IInv, RowInv, FreeWhenDeclared, WarningsOrdered, DefinitiveWasSubmitted
<1> QED
  BY <1>1, CollabInvariance, PTL

-----------------------------------------------------------------------------
(* When handlers do not overlap: what an operation on the collaborations    *)
(* read is still true when it writes.                                      *)

\* The operations that rely on more than their own values.
Relying == {"add_leader", "create_leader", "join", "request", "replace", "bulk", "rewrite",
            "move", "reopen"}
Foreseen(j) ==
    /\ j.op \in {"add_leader", "create_leader"} => row.takenBy = j.user /\ row.etat # "resolved"
    /\ j.op \in {"join", "request", "replace", "bulk"}
         => row.etat # "resolved" /\ j.new.role \in {"contributor", "observer"}
    /\ j.op = "replace" => ~Active(j.user)
    /\ j.op = "rewrite" => /\ collab[j.user] # NoCollab
                           /\ j.new.role = "leader" => collab[j.user].role = "leader"
    /\ j.op = "move" => row.etat # "resolved"
    /\ j.op = "reopen" => \A u \in Users : collab[u].status # "accepted"
CollabInv == SerialInv /\ \A s \in Slots : Foreseen(job[s])

\* A slot that is alone and relies on nothing any more satisfies Foreseen.
LEMMA GotoForeseen ==
    ASSUME OneSlot, TypeOK, NEW s \in Slots, NEW op \in Ops \ Relying, Goto(s, op)
    PROVE  \A t \in Slots : Foreseen(job[t])'
<1> SUFFICES ASSUME NEW t \in Slots PROVE Foreseen(job[t])'
  OBVIOUS
<1>1. t = s
  BY DEF OneSlot
<1>2. job'[s].op = op
  BY DEF Goto, TypeOK, Job, Idle
<1> QED
  BY <1>1, <1>2 DEF Foreseen, Relying

\* A handler that has just read is up to date.
LEMMA ReadForeseen ==
    ASSUME OneSlot, TypeOK, NEW s \in Slots, NEW op, NEW u, NEW new, NEW snap,
           ReadFor(s, op, u, new, snap),
           Foreseen([op |-> op, user |-> u, new |-> new, snap |-> snap])
    PROVE  \A t \in Slots : Foreseen(job[t])'
<1> DEFINE j == [op |-> op, user |-> u, new |-> new, snap |-> snap]
<1> SUFFICES ASSUME NEW t \in Slots PROVE Foreseen(job[t])'
  OBVIOUS
<1>1. t = s
  BY DEF OneSlot
<1>2. job'[s] = j /\ row' = row /\ collab' = collab
  BY DEF ReadFor, TypeOK
<1> HIDE DEF j
<1>3. Foreseen(j)
  BY DEF j
<1> QED
  BY <1>1, <1>2, <1>3 DEF Foreseen, Active

\* One that relies on nothing needs no look.
LEMMA ReadRelying ==
    ASSUME OneSlot, TypeOK, NEW s \in Slots, NEW op, op \notin Relying, NEW u, NEW snap,
           Read(s, op, u, snap)
    PROVE  \A t \in Slots : Foreseen(job[t])'
<1>1. Foreseen([op |-> op, user |-> u, new |-> NoCollab, snap |-> snap])
  BY DEF Foreseen, Relying
<1> QED
  BY <1>1, ReadForeseen DEF Read

\* The incident's own requests: only joining relies on what it saw.
LEMMA RequestsForeseen ==
    ASSUME OneSlot, TypeOK, NEW s \in Slots, Requests(s) \/ Beat(s)
    PROVE  \A t \in Slots : Foreseen(job[t])'
<1> DEFINE G == \A t \in Slots : Foreseen(job[t])'
<1>1. ASSUME NEW u \in Users, NEW role \in Roles, Join(s, u, role) PROVE G
  <2> DEFINE status == IF role = "observer" \/ row.takenBy = NoUser
                       THEN "accepted" ELSE "pending"
             new == [role |-> role, status |-> status]
  <2>1. /\ role \in {"contributor", "observer"} /\ row.etat # "resolved"
        /\ ReadFor(s, "join", u, new, Copy)
    BY <1>1 DEF Join, MayJoin
  <2>2. new.role = role
    OBVIOUS
  <2> HIDE DEF new
  <2>3. Foreseen([op |-> "join", user |-> u, new |-> new, snap |-> Copy])
    BY <2>1, <2>2 DEF Foreseen
  <2> QED
    BY <2>1, <2>3, ReadForeseen
<1>2. ASSUME ~ \E u \in Users, role \in Roles : Join(s, u, role) PROVE G
  <2>1. \E op \in {"take_internal", "take_leader", "handle_take", "handle_resolve", "prepare",
                   "return", "declare", "close", "disengage", "validate", "reject", "edit",
                   "override", "auto_validate", "revert", "warn90", "warn75"} :
          \E u \in Users \cup {NoUser} : \E snap : Read(s, op, u, snap)
    BY <1>2 DEF Requests, Beat, TakeInternal, TakeAsLeader, HandleTake, HandleResolve,
       PrepareResolution, ReturnForCompletion, DeclareResolved, CloseIncident, Disengage,
       ValidateResolution, RejectResolution, EditIncident, Override, AutoValidate, RevertStale,
       WarnAt90, WarnAt75
  <2> QED
    BY <2>1, ReadRelying DEF Relying
<1> QED
  BY <1>1, <1>2

\* From one statement to the next: a take leaves its author as the leader of an open
\* incident, and the offer of the leadership to nobody ends every collaboration.
LEMMA WebStepsForeseen ==
    ASSUME OneSlot, SerialInv, NEW s \in Slots, WebSteps(s)
    PROVE  \A t \in Slots : Foreseen(job[t])'
<1> DEFINE G == \A t \in Slots : Foreseen(job[t])'
<1>t. TypeOK /\ row \in Row /\ job[s] \in Job /\ Current(job[s]) /\ JobInv(job[s])
  BY DEF SerialInv, IInv, TypeOK
<1>o. \A t \in Slots : t = s
  BY DEF OneSlot
<1>g. ASSUME NEW op \in Ops, op # "idle", Goto(s, op)
      PROVE  job'[s].op = op /\ job'[s].user = job[s].user
  BY <1>g, <1>t DEF Goto, TypeOK, Job
<1>1. ASSUME TakeInternalSave(s) PROVE G
  <2>1. Goto(s, "add_leader") /\ row' = TakenNow(row, job[s].user, "internal")
    BY <1>1 DEF TakeInternalSave, Save
  <2>2. job'[s].op = "add_leader" /\ job'[s].user = job[s].user
    BY <2>1, <1>g DEF Ops
  <2>3. row'.takenBy = job[s].user /\ row'.etat = "taken_into_account"
    BY <2>1, <1>t DEF TakenNow, Row
  <2> QED
    BY <1>o, <2>2, <2>3 DEF Foreseen
<1>2. ASSUME TakeAsLeaderSave(s) PROVE G
  <2>1. Goto(s, "create_leader")
    BY <1>2 DEF TakeAsLeaderSave, Save
  <2>2. job'[s].op = "create_leader" /\ job'[s].user = job[s].user
    BY <2>1, <1>g DEF Ops
  <2>3. row.etat # "resolved" /\ job[s].snap.etat = row.etat
    BY <1>2, <1>t DEF TakeAsLeaderSave, At, Current
  <2>4. row'.takenBy = job[s].user /\ row'.etat # "resolved"
    BY <1>2, <1>t, <2>3 DEF TakeAsLeaderSave, Save, TakenNow, Row
  <2> QED
    BY <1>o, <2>2, <2>4 DEF Foreseen
<1>3. ASSUME DisengageShare(s) PROVE G
  <2>1. Goto(s, "release") \/ (Goto(s, "reopen") /\ collab' = Terminated)
    BY <1>3 DEF DisengageShare, Write
  <2>2. ASSUME Goto(s, "reopen"), collab' = Terminated PROVE G
    <3>1. job'[s].op = "reopen"
      BY <2>2, <1>g DEF Ops
    <3>2. \A u \in Users : collab'[u].status # "accepted"
      BY <2>2, <1>t DEF Terminated, TypeOK, Collab
    <3> QED
      BY <1>o, <3>1, <3>2 DEF Foreseen
  <2> QED
    BY <2>1, <2>2, <1>t, GotoForeseen DEF Ops, Relying
<1>4. CASE ~(TakeInternalSave(s) \/ TakeAsLeaderSave(s) \/ DisengageShare(s))
  <2>1. \E op \in {"idle", "reset_contributors", "cancel", "cancel_open", "open", "share",
                   "offer", "leave"} : Goto(s, op)
    BY <1>4 DEF WebSteps, AddLeader, CreateLeader,
       ResetContributors, JoinCreate, Create, CancelCreated, OpenMode, HandleTakeSave,
       EditIncidentSave, OverrideSave, PrepareResolutionSave, ReturnForCompletionSave,
       DeclareResolvedSave, RejectResolutionSave, ResolveSave, DisengageOwn, LookForHeirs,
       DisengageSave, Save, Write
  <2>2. {"idle", "reset_contributors", "cancel", "cancel_open", "open", "share", "offer", "leave"}
          \subseteq Ops \ Relying
    BY DEF Ops, Relying
  <2> QED
    BY <2>1, <2>2, <1>t, GotoForeseen
<1> QED
  BY <1>1, <1>2, <1>3, <1>4

\* Every request of the collaboration endpoints, with what its guards establish.
LEMMA CollabReads ==
    ASSUME NEW s \in Web, CollaborationRequests(s), collab \in [Users -> Collab]
    PROVE  \E op \in {"request", "replace", "bulk", "rewrite", "move", "delete"} :
           \E u \in Users, new \in Collab : \E snap :
             /\ ReadFor(s, op, u, new, snap)
             /\ Foreseen([op |-> op, user |-> u, new |-> new, snap |-> snap])
<1> DEFINE G == \E op \in {"request", "replace", "bulk", "rewrite", "move", "delete"} :
                \E u \in Users, new \in Collab : \E snap :
                  /\ ReadFor(s, op, u, new, snap)
                  /\ Foreseen([op |-> op, user |-> u, new |-> new, snap |-> snap])
<1>1. ASSUME NEW u \in Users, NEW role \in Roles, RequestCollaboration(s, u, role) PROVE G
  <2> DEFINE new == [role |-> role, status |-> InitialStatus(role)]
  <2>1. new \in Collab /\ new.role = role
    BY DEF Collab, InitialStatus, Statuses
  <2>2. /\ role \in {"contributor", "observer"} /\ row.etat # "resolved" /\ ~Active(u)
        /\ ReadFor(s, "request", u, new, Copy) \/ ReadFor(s, "replace", u, new, Copy)
    BY <1>1 DEF RequestCollaboration
  <2> HIDE DEF new
  <2> QED
    BY <2>1, <2>2 DEF Foreseen
<1>2. ASSUME NEW u \in Users, NEW role \in Roles, BulkRequest(s, u, role) PROVE G
  <2> DEFINE new == [role |-> role, status |-> "pending"]
  <2>1. new \in Collab /\ new.role = role
    BY DEF Collab, Statuses
  <2>2. /\ role \in {"contributor", "observer"} /\ row.etat # "resolved"
        /\ ReadFor(s, "bulk", u, new, Copy)
    BY <1>2 DEF BulkRequest
  <2> HIDE DEF new
  <2> QED
    BY <2>1, <2>2 DEF Foreseen
<1>3. ASSUME NEW v \in Users, NEW new \in Collab, NEW snap, ReadFor(s, "rewrite", v, new, snap),
             collab[v] # NoCollab, new.role = "leader" => collab[v].role = "leader"
      PROVE  G
  <2>1. Foreseen([op |-> "rewrite", user |-> v, new |-> new, snap |-> snap])
    BY <1>3 DEF Foreseen
  <2> QED
    BY <1>3, <2>1
<1>4. ASSUME NEW u \in Users, NEW role \in Roles, EditCollaboration(s, u, role) PROVE G
  <2> DEFINE new == [collab[u] EXCEPT !.role = role]
  <2>1. new \in Collab /\ new.role = role
    BY <1>4 DEF EditCollaboration, Collab
  <2>2. /\ role \in {"contributor", "observer", collab[u].role} /\ collab[u] # NoCollab
        /\ ReadFor(s, "rewrite", u, new, None)
    BY <1>4 DEF EditCollaboration
  <2> HIDE DEF new
  <2> QED
    BY <2>1, <2>2, <1>3
<1>5. ASSUME NEW u \in Users, NEW v \in Users, NEW status \in Statuses, Answer(s, u, v, status)
      PROVE  G
  <2> DEFINE new == [collab[v] EXCEPT !.status = status]
  <2>1. new \in Collab /\ new.role = collab[v].role
    BY <1>5 DEF Answer, Collab
  <2>2. /\ collab[v] # NoCollab
        /\ ReadFor(s, "rewrite", v, new, Copy) \/ ReadFor(s, "rewrite", v, new, None)
    BY <1>5 DEF Answer
  <2> HIDE DEF new
  <2> QED
    BY <2>1, <2>2, <1>3
<1>6. ASSUME NEW v \in Users, DeleteCollaboration(s, v) PROVE G
  <2>1. NoCollab \in Collab /\ ReadFor(s, "delete", v, NoCollab, None)
    BY <1>6 DEF DeleteCollaboration, Read, Collab
  <2>2. Foreseen([op |-> "delete", user |-> v, new |-> NoCollab, snap |-> None])
    BY DEF Foreseen
  <2> QED
    BY <2>1, <2>2
<1>7. {"accepted", "declined"} \subseteq Statuses
  BY DEF Statuses
<1>8. ASSUME NEW u \in Users, NEW c \in Arrivals, MoveHere(s, u, c) PROVE G
  <2>1. c \in Collab /\ ReadFor(s, "move", u, c, None) /\ row.etat # "resolved"
    BY <1>8, ArrivalsAssumption DEF MoveHere
  <2>2. Foreseen([op |-> "move", user |-> u, new |-> c, snap |-> None])
    BY <2>1 DEF Foreseen
  <2> QED
    BY <2>1, <2>2
<1> QED
  BY <1>1, <1>2, <1>4, <1>5, <1>6, <1>7, <1>8 DEF CollaborationRequests,
     HandleCollaborationRequest, AcceptCollaboration, DeclineCollaboration

\* The statements of these endpoints write collaborations only; the one that replaces a
\* request goes on to create the new one.
LEMMA CollabStepsForeseen ==
    ASSUME OneSlot, CollabInv, NEW s \in Slots, CollaborationSteps(s)
    PROVE  /\ \A t \in Slots : Current(job[t])'
           /\ \A t \in Slots : Foreseen(job[t])'
<1>t. TypeOK /\ job[s] \in Job /\ Foreseen(job[s])
  BY DEF CollabInv, SerialInv, IInv, TypeOK
<1>1. \E op \in {"request", "cancel", "cancel_open", "open", "idle"} : Goto(s, op)
  BY DEF CollaborationSteps, DeleteEnded, RequestCreate, BulkCreate, Rewrite, MoveSave,
     DeleteSave, Create, Write
<1>2. {"request", "cancel", "cancel_open", "open", "idle"} \subseteq Ops \ Guarded
  BY DEF Ops, Guarded
<1>3. CASE DeleteEnded(s)
  <2>1. Goto(s, "request") /\ row' = row
    BY <1>3 DEF DeleteEnded, Write
  <2>2. job'[s].op = "request" /\ job'[s].new = job[s].new
    BY <2>1, <1>t DEF Goto, TypeOK, Job
  <2>3. row.etat # "resolved" /\ job[s].new.role \in {"contributor", "observer"}
    BY <1>3, <1>t DEF DeleteEnded, At, Foreseen
  <2>4. \A t \in Slots : t = s
    BY DEF OneSlot
  <2>5. \A t \in Slots : Foreseen(job[t])'
    BY <2>1, <2>2, <2>3, <2>4 DEF Foreseen
  <2> QED
    BY <1>1, <1>2, <1>t, <2>5, GotoCurrent
<1>4. CASE ~DeleteEnded(s)
  <2>1. \E op \in {"cancel", "cancel_open", "open", "idle"} : Goto(s, op)
    BY <1>4 DEF CollaborationSteps, RequestCreate, BulkCreate, Rewrite, MoveSave, DeleteSave,
       Create, Write
  <2>2. {"cancel", "cancel_open", "open", "idle"} \subseteq Ops \ Relying
    BY DEF Ops, Relying
  <2>3. \A t \in Slots : Foreseen(job[t])'
    BY <2>1, <2>2, <1>t, GotoForeseen
  <2> QED
    BY <1>1, <1>2, <1>t, <2>3, GotoCurrent
<1> QED
  BY <1>3, <1>4

\* Time changes nothing an operation relies on.
LEMMA TickForeseen ==
    ASSUME CollabInv, Tick
    PROVE  \A t \in Slots : Foreseen(job[t])'
<1> SUFFICES ASSUME NEW t \in Slots PROVE Foreseen(job[t])'
  OBVIOUS
<1>1. row \in Row /\ job[t] \in Job /\ Foreseen(job[t])
  BY DEF CollabInv, SerialInv, IInv, TypeOK
<1>2. row'.etat = row.etat /\ row'.takenBy = row.takenBy /\ collab' = collab
  BY <1>1 DEF Tick, Later, Row
<1>3. /\ job'[t].op = job[t].op /\ job'[t].user = job[t].user /\ job'[t].new = job[t].new
  BY <1>1 DEF Tick, Job
<1> QED
  BY <1>1, <1>2, <1>3 DEF Foreseen, Active

\* The invariant of the composition is inductive.
LEMMA CollabKeeps == OneSlot /\ CollabInv /\ [CollabNext]_vars => CollabInv'
<1> SUFFICES ASSUME OneSlot, CollabInv, [CollabNext]_vars PROVE CollabInv'
  OBVIOUS
<1> DEFINE UpToDate == /\ \A t \in Slots : Current(job[t])'
                       /\ \A t \in Slots : Foreseen(job[t])'
<1>t. SerialInv /\ IInv /\ TypeOK
  BY DEF CollabInv, SerialInv, IInv
<1>1. IInv'
  BY <1>t, NextKeeps, CollaborationRequestsKeep, CollaborationStepsKeep DEF CollabNext, Slots
<1>2. CASE [Next]_vars
  <2>1. SerialInv'
    BY <1>2, <1>t, SerialKeeps
  <2>2. CASE UNCHANGED vars
    BY <2>1, <2>2 DEF vars, CollabInv, Foreseen, Active
  <2>3. ASSUME NEW s \in Slots,
               AntiGelSave(s) \/ DefinitiveSave(s) \/ TerminateCollaborations(s) \/ Crash(s)
        PROVE  \A t \in Slots : Foreseen(job[t])'
    <3>1. \E op \in {"idle", "terminate"} : Goto(s, op)
      BY <2>3 DEF AntiGelSave, DefinitiveSave, TerminateCollaborations, Crash, Save, Write
    <3>2. {"idle", "terminate"} \subseteq Ops \ Relying
      BY DEF Ops, Relying
    <3> QED
      BY <3>1, <3>2, <1>t, GotoForeseen
  <2>4. CASE Next
    BY <1>t, <2>1, <2>3, <2>4, RequestsForeseen, WebStepsForeseen, TickForeseen
       DEF Next, Slots, CollabInv
  <2> QED
    BY <1>2, <2>2, <2>4
<1>3. ASSUME NEW s \in Web, CollaborationRequests(s) PROVE UpToDate
  <2>p. PICK op \in {"request", "replace", "bulk", "rewrite", "move", "delete"},
             u \in Users, new \in Collab :
               \E snap : /\ ReadFor(s, op, u, new, snap)
                         /\ Foreseen([op |-> op, user |-> u, new |-> new, snap |-> snap])
    BY <1>3, <1>t, CollabReads DEF TypeOK
  <2>1. PICK snap : /\ ReadFor(s, op, u, new, snap)
                    /\ Foreseen([op |-> op, user |-> u, new |-> new, snap |-> snap])
    BY <2>p
  <2>2. Current([op |-> op, user |-> u, new |-> new, snap |-> snap])
    BY DEF Current
  <2> QED
    BY <2>1, <2>2, <1>t, ReadForCurrent, ReadForeseen DEF Slots
<1>4. ASSUME NEW s \in Web, CollaborationSteps(s) PROVE UpToDate
  BY <1>4, CollabStepsForeseen DEF Slots
<1> QED
  BY <1>1, <1>2, <1>3, <1>4 DEF CollabNext, CollabInv, SerialInv

\* It holds of an incident just reported.
LEMMA InitCollab == Init => CollabInv
BY InitSerial DEF Init, CollabInv, Foreseen, Idle

-----------------------------------------------------------------------------
(* The results, when handlers do not overlap.                              *)

\* The collaboration endpoints write neither the status nor the leader.
LEMMA CollabRowKept ==
    ASSUME NEW s \in Slots, CollaborationRequests(s) \/ CollaborationSteps(s)
    PROVE  UNCHANGED <<row, overrides>>
BY DEF CollaborationRequests, RequestCollaboration, BulkRequest, EditCollaboration, Answer,
   HandleCollaborationRequest, AcceptCollaboration, DeclineCollaboration, DeleteCollaboration,
   MoveHere, CollaborationSteps, DeleteEnded, RequestCreate, BulkCreate, Rewrite, MoveSave,
   DeleteSave, Create, Read, ReadFor, Write

\* With the collaboration endpoints around it, the incident still follows the workflow, but
\* for what forms of PUT write.
THEOREM CollabImplements == ASSUME OneSlot PROVE CollabSpec => FollowsWorkflow
<1>1. Init => Workflow!Init
  BY DEF Init, Workflow!Init
<1>2. CollabInv /\ [CollabNext]_vars => [Workflow!Next]_<<row.etat, row.takenBy, overrides>>
  <2> SUFFICES ASSUME CollabInv, [CollabNext]_vars PROVE [Workflow!Next]_File
    BY DEF File
  <2>1. CASE [Next]_vars
    BY <2>1, OneSlot, NextWorkflow DEF CollabInv
  <2>2. CASE \E s \in Web : CollaborationRequests(s) \/ CollaborationSteps(s)
    BY <2>2, CollabRowKept DEF File, Slots
  <2> QED
    BY <2>1, <2>2 DEF CollabNext
<1>3. CollabInv /\ [CollabNext]_vars => CollabInv'
  BY OneSlot, CollabKeeps
<1> QED
  BY <1>1, <1>2, <1>3, InitCollab, PTL DEF CollabSpec, FollowsWorkflow, Workflow!Spec

\* An incident its last member leaves keeps no accepted collaboration behind.
THEOREM NobodyLeftBehind == ASSUME OneSlot PROVE CollabSpec => LeavesNobodyBehind
<1> DEFINE Alone == \A s \in Slots : At(s, "reopen") /\ DisengageSave(s)
                                    => \A u \in Users : collab[u].status # "accepted"
<1>1. CollabInv /\ [CollabNext]_vars => [Alone]_vars
  BY DEF CollabInv, Foreseen, At
<1>2. CollabInv /\ [CollabNext]_vars => CollabInv'
  BY OneSlot, CollabKeeps
<1> QED
  BY <1>1, <1>2, InitCollab, PTL DEF CollabSpec, LeavesNobodyBehind

-----------------------------------------------------------------------------
(* Who comes in, and who leads, is a matter of each user's collaboration:   *)
(* what one step makes of it.                                              *)

\* How the collaboration of `v` may change in a step.
Admitted(v) ==
    \/ collab'[v] = collab[v]
    \/ collab'[v] = NoCollab
    \/ collab[v] = NoCollab /\ row.etat # "resolved" /\ row.takenBy = v
    \/ collab[v] = NoCollab /\ row.etat # "resolved" /\ collab'[v].role # "leader"
    \/ collab[v] = NoCollab /\ row.etat # "resolved" /\ \E s \in Web : MoveSave(s) /\ job[s].user = v
    \/ collab[v] # NoCollab /\ (collab'[v].role = "leader" => collab[v].role = "leader")
    \/ Accepted(v, "contributor") /\ collab'[v].status = "pending"

\* A handler writes one collaboration, or ends, resets or offers several.
LEMMA OneWritten ==
    ASSUME TypeOK, NEW u, NEW c, collab' = [collab EXCEPT ![u] = c], NEW v \in Users
    PROVE  IF v = u THEN collab'[v] = c ELSE collab'[v] = collab[v]
BY DEF TypeOK

\* Every statement that writes the collaborations admits by these ways only.
LEMMA StepsAdmit ==
    ASSUME CollabInv, NEW s \in Slots,
           \/ WebSteps(s) \/ TerminateCollaborations(s)
           \/ s \in Web /\ CollaborationSteps(s),
           NEW v \in Users
    PROVE  Admitted(v)
<1>t. /\ TypeOK /\ collab[v] \in Collab /\ job[s] \in Job
      /\ Foreseen(job[s])
  BY DEF CollabInv, SerialInv, IInv, TypeOK
<1>1. CASE UNCHANGED collab
  BY <1>1 DEF Admitted
<1>2. CASE AddLeader(s) \/ CreateLeader(s)
  <2>1. /\ \/ collab' = collab
           \/ /\ collab[job[s].user] = NoCollab
              /\ collab' = [collab EXCEPT ![job[s].user] = [role |-> "leader", status |-> "accepted"]]
        /\ row.takenBy = job[s].user /\ row.etat # "resolved"
    BY <1>2, <1>t DEF AddLeader, CreateLeader, Write, At, Foreseen
  <2>2. CASE collab' = collab
    BY <2>2 DEF Admitted
  <2>3. CASE collab' = [collab EXCEPT ![job[s].user] = [role |-> "leader", status |-> "accepted"]]
    <3>1. CASE v = job[s].user
      BY <2>1, <2>2, <3>1 DEF Admitted
    <3>2. CASE v # job[s].user
      BY <2>3, <3>2, <1>t DEF Admitted, TypeOK
    <3> QED
      BY <3>1, <3>2
  <2> QED
    BY <2>1, <2>2, <2>3
<1>3. CASE ResetContributors(s)
  <2>1. collab'[v] = collab[v]
        \/ (Accepted(v, "contributor") /\ collab'[v] = [collab[v] EXCEPT !.status = "pending"])
    BY <1>3 DEF ResetContributors, Write
  <2> QED
    BY <2>1, <1>t DEF Admitted, Accepted, Collab
<1>4. CASE JoinCreate(s) \/ RequestCreate(s) \/ BulkCreate(s)
  <2>1. /\ job[s].op \in {"join", "request", "bulk"}
        /\ \/ collab' = collab
           \/ /\ collab[job[s].user] = NoCollab
              /\ collab' = [collab EXCEPT ![job[s].user] = job[s].new]
    BY <1>4 DEF JoinCreate, RequestCreate, BulkCreate, Create, Write, At
  <2>2. row.etat # "resolved" /\ job[s].new.role # "leader"
    BY <2>1, <1>t DEF Foreseen
  <2>3. \/ collab'[v] = collab[v]
        \/ collab[v] = NoCollab /\ collab'[v].role # "leader"
    <3>1. CASE collab' = [collab EXCEPT ![job[s].user] = job[s].new]
      BY <2>1, <2>2, <3>1, <1>t, OneWritten
    <3> QED
      BY <2>1, <3>1
  <2> QED
    BY <2>2, <2>3 DEF Admitted
<1>5. CASE CancelCreated(s) \/ DeleteEnded(s) \/ DeleteSave(s)
  <2>1. collab' = [collab EXCEPT ![job[s].user] = NoCollab]
    BY <1>5 DEF CancelCreated, DeleteEnded, DeleteSave, Write
  <2> QED
    BY <2>1, <1>t, OneWritten DEF Admitted
<1>6. CASE Rewrite(s)
  <2>1. /\ collab' = [collab EXCEPT ![job[s].user] = job[s].new]
        /\ collab[job[s].user] # NoCollab
        /\ job[s].new.role = "leader" => collab[job[s].user].role = "leader"
    BY <1>6, <1>t DEF Rewrite, Write, At, Foreseen
  <2> QED
    BY <2>1, <1>t, OneWritten DEF Admitted
<1>10. CASE MoveSave(s) /\ s \in Web
  <2>1. /\ row.etat # "resolved"
        /\ \/ collab' = collab
           \/ /\ collab[job[s].user] = NoCollab
              /\ collab' = [collab EXCEPT ![job[s].user] = job[s].new]
    BY <1>10, <1>t DEF MoveSave, Write, At, Foreseen
  <2>2. CASE v = job[s].user /\ collab[v] = NoCollab
    BY <2>1, <2>2, <1>10 DEF Admitted
  <2>3. CASE collab'[v] = collab[v]
    BY <2>3 DEF Admitted
  <2> QED
    BY <2>1, <2>2, <2>3, <1>t, OneWritten
<1>7. CASE DisengageOwn(s)
  <2>1. \/ collab' = collab
        \/ /\ collab[job[s].user] # NoCollab
           /\ collab' = [collab EXCEPT ![job[s].user].status = "terminated"]
    BY <1>7 DEF DisengageOwn, Write
  <2>2. collab'[v] = collab[v]
        \/ (collab[v] # NoCollab /\ collab'[v] = [collab[v] EXCEPT !.status = "terminated"])
    BY <2>1, <1>t DEF TypeOK
  <2> QED
    BY <2>2, <1>t DEF Admitted, Collab
<1>8. ASSUME collab' = Terminated PROVE Admitted(v)
  <2>1. collab'[v] = collab[v]
        \/ (collab[v] # NoCollab /\ collab'[v] = [collab[v] EXCEPT !.status = "terminated"])
    BY <1>8 DEF Terminated, NoCollab
  <2> QED
    BY <2>1, <1>t DEF Admitted, Collab
<1>9. CASE DisengageShare(s) \/ TerminateCollaborations(s)
  <2>1. \/ collab'[v] = collab[v]
        \/ Accepted(v, "contributor") /\ collab'[v].status = "pending"
        \/ collab' = Terminated
    BY <1>9 DEF DisengageShare, Heirs, TerminateCollaborations, Write
  <2> QED
    BY <2>1, <1>8 DEF Admitted
<1> QED
  BY <1>1, <1>2, <1>3, <1>4, <1>5, <1>6, <1>7, <1>9, <1>10
     DEF WebSteps, CollaborationSteps, TakeInternalSave, TakeAsLeaderSave, OpenMode,
         HandleTakeSave, EditIncidentSave, OverrideSave, PrepareResolutionSave,
         ReturnForCompletionSave, DeclareResolvedSave, RejectResolutionSave, ResolveSave,
         LookForHeirs, DisengageSave, Save, Write

\* So does every step of the composition.
LEMMA NextAdmits ==
    ASSUME CollabInv, [CollabNext]_vars, NEW v \in Users
    PROVE  Admitted(v)
<1>1. CASE UNCHANGED collab
  BY <1>1 DEF Admitted
<1>2. ASSUME NEW s \in Slots, Requests(s) \/ Beat(s) \/ CollaborationRequests(s)
      PROVE  UNCHANGED collab
  BY <1>2 DEF Requests, TakeInternal, TakeAsLeader, Join, HandleTake, HandleResolve,
     PrepareResolution, ReturnForCompletion, DeclareResolved, CloseIncident, Disengage,
     ValidateResolution, RejectResolution, EditIncident, Override, Beat, AutoValidate, RevertStale,
     WarnAt90, WarnAt75, CollaborationRequests, RequestCollaboration, BulkRequest,
     EditCollaboration, Answer, HandleCollaborationRequest, AcceptCollaboration,
     DeclineCollaboration, DeleteCollaboration, MoveHere, Read, ReadFor
<1>3. ASSUME NEW s \in Slots, AntiGelSave(s) \/ DefinitiveSave(s) \/ Crash(s)
      PROVE  UNCHANGED collab
  BY <1>3 DEF AntiGelSave, DefinitiveSave, Crash, Save
<1>4. CASE Tick
  BY <1>4 DEF Tick, Admitted
<1> QED
  BY <1>1, <1>2, <1>3, <1>4, StepsAdmit DEF CollabNext, Next, Slots, vars

\* Nobody becomes a leader but by taking the incident, by inheriting it, or by bringing a
\* leader's row from another incident.
THEOREM LeadershipEarned == ASSUME OneSlot PROVE CollabSpec => LeaderRoleEarned
<1> DEFINE Earned == \A u \in Users :
             collab'[u].role = "leader" /\ collab[u].role # "leader"
               => \/ Accepted(u, "contributor") /\ collab'[u].status = "pending"
                  \/ row.takenBy = u
                  \/ \E s \in Web : MoveSave(s) /\ job[s].user = u
<1>1. CollabInv /\ [CollabNext]_vars => [Earned]_vars
  <2> SUFFICES ASSUME CollabInv, [CollabNext]_vars, NEW u \in Users,
                      collab'[u].role = "leader", collab[u].role # "leader"
               PROVE  \/ Accepted(u, "contributor") /\ collab'[u].status = "pending"
                      \/ row.takenBy = u
                      \/ \E s \in Web : MoveSave(s) /\ job[s].user = u
    OBVIOUS
  <2> QED
    BY NextAdmits DEF Admitted, NoCollab
<1>2. CollabInv /\ [CollabNext]_vars => CollabInv'
  BY OneSlot, CollabKeeps
<1> QED
  BY <1>1, <1>2, InitCollab, PTL DEF CollabSpec, LeaderRoleEarned

\* A closed incident gains no collaboration, by whichever way in.
THEOREM ClosedStaysClosed == ASSUME OneSlot PROVE CollabSpec => ClosedToNewcomers
<1> DEFINE Closed == row.etat = "resolved"
                       => \A u \in Users : collab[u] = NoCollab => collab'[u] = NoCollab
<1>1. CollabInv /\ [CollabNext]_vars => [Closed]_vars
  <2> SUFFICES ASSUME CollabInv, [CollabNext]_vars, row.etat = "resolved",
                      NEW u \in Users, collab[u] = NoCollab
               PROVE  collab'[u] = NoCollab
    OBVIOUS
  <2> QED
    BY NextAdmits DEF Admitted, Accepted, NoCollab
<1>2. CollabInv /\ [CollabNext]_vars => CollabInv'
  BY OneSlot, CollabKeeps
<1> QED
  BY <1>1, <1>2, InitCollab, PTL DEF CollabSpec, ClosedToNewcomers

-----------------------------------------------------------------------------
(* The assignments: a third way to become 'taken into account', which writes  *)
(* from what it read before it answered.                                    *)

\* Starting one of the assignment handlers keeps the invariant of the incident.
LEMMA ReadsKeep ==
    ASSUME IInv, NEW s \in Slots, NEW a \in Assignments,
           NEW op \in {"assign", "accept", "accept_tacitly", "decline"},
           NEW u \in Users \cup {NoUser}, NEW snap \in {None, Copy}, Reads(s, a, op, u, snap)
    PROVE  IInv'
<1>1. Copy \in Row /\ RowInv(Copy)
  BY CopyInv
<1>2. Read(s, op, u, snap) /\ op \in Ops
  BY DEF Reads, Ops
<1>3. JobInv([op |-> op, user |-> u, new |-> NoCollab, snap |-> snap])
  BY <1>1 DEF JobInv
<1> QED
  BY <1>1, <1>2, <1>3, ReadKeeps

\* In particular assigning, accepting and declining.
LEMMA OrgRequestsKeep ==
    ASSUME IInv, NEW s \in Web, OrgRequests(s)
    PROVE  IInv'
<1> USE DEF Slots
<1>1. PICK a \in Assignments :
        \/ AssignToOrganisation(s, a)
        \/ \E u \in Admins : AcceptAssignment(s, u, a) \/ DeclineAssignment(s, u, a)
  BY DEF OrgRequests
<1>2. CASE AssignToOrganisation(s, a)
  BY <1>2, ReadsKeep DEF AssignToOrganisation
<1>3. ASSUME NEW u \in Admins, AcceptAssignment(s, u, a) \/ DeclineAssignment(s, u, a)
      PROVE  IInv'
  <2>1. Reads(s, a, "accept", u, Copy) \/ Reads(s, a, "decline", u, None)
    BY <1>3 DEF AcceptAssignment, DeclineAssignment
  <2> QED
    BY <2>1, UsersAssumption, ReadsKeep
<1> QED
  BY <1>1, <1>2, <1>3

\* Writing an assignment leaves the incident alone; the slot goes on or ends.
LEMMA AssignmentWriteKeeps ==
    ASSUME IInv, NEW s \in Slots, NEW op \in Ops \ Bound,
           Goto(s, op), UNCHANGED <<row, collab, submitted, overrides>>
    PROVE  IInv'
<1>1. Write(s, collab, op)
  BY DEF Write
<1>2. collab \in [Users -> Collab]
  BY DEF IInv, TypeOK
<1> QED
  BY <1>1, <1>2, WriteKeeps

\* Engaging dates the incident and names a leader, if it has one, together with the status.
LEMMA EngageKeeps ==
    ASSUME IInv, NEW s \in Slots, Engage(s)
    PROVE  IInv'
<1>r. row \in Row /\ RowInv(row) /\ job[s].user \in Users \cup {NoUser}
  BY DEF IInv, TypeOK, Job
<1>i. "idle" \in Ops \ Bound
  BY DEF Ops, Bound
<1>1. PICK new : /\ new \in {row, TakenNow(row, job[s].user, row.mode)}
                       \cup {[row EXCEPT !.etat = "taken_into_account", !.takenBy = u, !.age = 0] :
                              u \in Users \cup {NoUser}}
                 /\ Save(s, new, "idle")
  BY DEF Engage
<1>2. TakenNow(row, job[s].user, row.mode) \in Row /\ RowInv(TakenNow(row, job[s].user, row.mode))
  <2>1. row.mode \in {None, "internal", "collaborative"}
    BY <1>r DEF Row
  <2> QED
    BY <1>r, <2>1, TakenNowInv
<1>3. ASSUME NEW u \in Users \cup {NoUser}
      PROVE  LET r == [row EXCEPT !.etat = "taken_into_account", !.takenBy = u, !.age = 0]
             IN  r \in Row /\ RowInv(r)
  <2>1. 0 \in 0 .. RevertAfter
    BY DelaysAssumption
  <2> QED
    BY <1>r, <2>1 DEF Row, Etats, RowInv
<1>4. new \in Row /\ RowInv(new)
  BY <1>r, <1>1, <1>2, <1>3
<1> QED
  BY <1>i, <1>1, <1>4, SaveKeeps

\* Every statement of the assignment handlers keeps the invariant.
LEMMA OrgStepsKeep ==
    ASSUME IInv, NEW s \in Slots, OrgSteps(s)
    PROVE  IInv'
<1>o. {"idle", "engage", "engage_tacitly"} \subseteq Ops \ Bound
  BY DEF Ops, Bound
<1>1. ASSUME NEW org \in Orgs, AssignCreate(s, org) PROVE IInv'
  BY <1>o, <1>1, AssignmentWriteKeeps DEF AssignCreate
<1>2. ASSUME AnswerSave(s) PROVE IInv'
  BY <1>o, <1>2, AssignmentWriteKeeps DEF AnswerSave, Reply
<1> QED
  BY <1>1, <1>2, EngageKeeps DEF OrgSteps

\* So does every step of the composition.
LEMMA OrgNextKeeps == IInv /\ [OrgNext]_orgVars => IInv'
<1> SUFFICES ASSUME IInv, [OrgNext]_orgVars PROVE IInv'
  OBVIOUS
<1>1. CASE UNCHANGED orgVars \/ Next
  BY <1>1, NextKeeps DEF orgVars
<1>2. ASSUME NEW a \in Assignments, DeadlinePasses(a) PROVE IInv'
  BY <1>2, NextKeeps DEF DeadlinePasses
<1>3. ASSUME NEW s \in Workers, NEW a \in Assignments, AutoAccept(s, a) PROVE IInv'
  BY <1>3, ReadsKeep DEF AutoAccept, Slots
<1> QED
  BY <1>1, <1>2, <1>3, OrgRequestsKeep, OrgStepsKeep DEF OrgNext

-----------------------------------------------------------------------------
\* The invariant of the incident is one of the composition with its assignments.
THEOREM OrgInvariance == OrgSpec => []IInv
<1>1. OrgInit => IInv
  BY InitIInv DEF OrgInit
<1> QED
  BY <1>1, OrgNextKeeps, PTL DEF OrgSpec

\* Assigned, accepted or tacitly accepted at whatever moment: until a form of PUT says
\* otherwise, a declared incident is free, the warnings come in order, and a definitive
\* resolution was submitted.
THEOREM OrgSafe ==
    OrgSpec => [](FreeWhenDeclared /\ WarningsOrdered /\ DefinitiveWasSubmitted)
<1>1. IInv => FreeWhenDeclared /\ WarningsOrdered /\ DefinitiveWasSubmitted
  BY DEF IInv, RowInv, FreeWhenDeclared, WarningsOrdered, DefinitiveWasSubmitted
<1> QED
  BY <1>1, OrgInvariance, PTL

-----------------------------------------------------------------------------
(* The assignments themselves.  A slot that is about to answer one holds a   *)
(* row that was made; when handlers do not overlap, one that still waits.     *)

Answers == {"accept", "decline", "accept_tacitly"}
Waiting == Answers \cup {"assign"}
OrgInv == /\ IInv /\ OrgTypeOK
          /\ \A s \in Slots : /\ job[s].op \in Waiting => on[s] \in Assignments
                              /\ job[s].op \in Answers => assignment[on[s]] # Unmade
OrgSerialInv == /\ OrgInv
                /\ \A s \in Slots : /\ job[s].op \in Answers => Pending(on[s])
                                    /\ job[s].op = "assign" => assignment[on[s]] = Unmade

\* Every operation of this module that a slot may have still to do.
Engaging == {"accept", "accept_tacitly", "engage", "engage_tacitly"}
Mine == Waiting \cup Engaging

\* A statement moves its slot and no other.
LEMMA GotoOps ==
    ASSUME IInv, NEW W \in SUBSET (Ops \ {"idle"}),
           NEW s \in Slots, NEW op \in Ops \ W, Goto(s, op), NEW t \in Slots, job'[t].op \in W
    PROVE  t # s /\ job'[t] = job[t]
<1>1. job \in [Slots -> Job]
  BY DEF IInv, TypeOK
<1>2. CASE t = s
  <2>1. job'[s].op \in {op, "idle"}
    BY <1>1 DEF Goto, Idle, Job
  <2> QED
    BY <1>2, <2>1
<1> QED
  BY <1>1, <1>2 DEF Goto

\* So does a read that is not of this module.
LEMMA ReadOps ==
    ASSUME IInv, NEW s \in Slots, NEW op \in Ops \ Mine, NEW u, NEW new, NEW snap,
           ReadFor(s, op, u, new, snap), NEW t \in Slots, job'[t].op \in Mine
    PROVE  t # s /\ job'[t] = job[t]
<1>1. job \in [Slots -> Job]
  BY DEF IInv, TypeOK
<1>2. job'[s].op = op
  BY <1>1 DEF ReadFor
<1> QED
  BY <1>1, <1>2 DEF ReadFor

\* The incident's own handlers start no handler of an assignment.
LEMMA NextOps ==
    ASSUME IInv, Next, NEW t \in Slots, job'[t].op \in Mine
    PROVE  job[t].op = job'[t].op
<1> USE DEF Slots
<1>r. ASSUME NEW s \in Slots, NEW op \in Ops \ Mine, NEW u, NEW snap, Read(s, op, u, snap)
      PROVE  job'[t] = job[t]
  BY <1>r, ReadOps DEF Read
<1>g. ASSUME NEW s \in Slots, NEW op \in Ops \ Mine, Goto(s, op)
      PROVE  job'[t] = job[t]
  <2>1. Mine \in SUBSET (Ops \ {"idle"})
    BY DEF Mine, Waiting, Answers, Engaging, Ops
  <2> QED
    BY <1>g, <2>1, GotoOps
<1>v. ASSUME NEW s \in Slots, NEW op \in Ops \ Mine, NEW new, Save(s, new, op)
      PROVE  job'[t] = job[t]
  BY <1>g, <1>v DEF Save
<1>w. ASSUME NEW s \in Slots, NEW op \in Ops \ Mine, NEW new, Write(s, new, op)
      PROVE  job'[t] = job[t]
  BY <1>g, <1>w DEF Write
<1>o. Ops \ Mine = {"idle", "take_internal", "add_leader", "take_leader", "create_leader",
        "reset_contributors", "join", "cancel", "cancel_open", "open",
        "handle_take", "handle_resolve", "edit", "override", "close", "prepare", "return",
        "declare", "validate", "reject", "terminate", "disengage", "share", "offer", "leave",
        "release", "reopen", "auto_validate", "revert", "warn90", "warn75",
        "request", "replace", "bulk", "rewrite", "move", "delete"}
  BY DEF Ops, Mine, Waiting, Answers, Engaging
<1>1. ASSUME NEW s \in Web, Requests(s) PROVE job'[t] = job[t]
  <2>1. ASSUME NEW u \in Users, NEW role \in Roles, Join(s, u, role) PROVE job'[t] = job[t]
    BY <1>o, <2>1, ReadOps DEF Join
  <2>2. ASSUME NEW u \in Users,
               \/ TakeInternal(s, u) \/ TakeAsLeader(s, u) \/ HandleTake(s, u)
               \/ HandleResolve(s, u) \/ PrepareResolution(s, u)
        PROVE  job'[t] = job[t]
    BY <1>o, <1>r, <2>2
       DEF TakeInternal, TakeAsLeader, HandleTake, HandleResolve, PrepareResolution
  <2>3. ASSUME NEW u \in Users,
               \/ ReturnForCompletion(s, u) \/ DeclareResolved(s, u)
               \/ CloseIncident(s, u) \/ Disengage(s, u)
        PROVE  job'[t] = job[t]
    BY <1>o, <1>r, <2>3 DEF ReturnForCompletion, DeclareResolved, CloseIncident, Disengage
  <2>4. ASSUME \/ ValidateResolution(s) \/ RejectResolution(s)
               \/ \E e \in Etats : EditIncident(s, e)
               \/ \E f \in Forms : Override(s, f)
        PROVE  job'[t] = job[t]
    BY <1>o, <1>r, <2>4 DEF ValidateResolution, RejectResolution, EditIncident, Override
  <2> QED
    BY <1>1, <2>1, <2>2, <2>3, <2>4 DEF Requests
<1>2. ASSUME NEW s \in Web, WebSteps(s) PROVE job'[t] = job[t]
  <2>1. ASSUME TakeInternalSave(s) \/ AddLeader(s) \/ TakeAsLeaderSave(s) \/ CreateLeader(s)
               \/ ResetContributors(s)
        PROVE  job'[t] = job[t]
    BY <1>o, <1>v, <1>w, <2>1
       DEF TakeInternalSave, AddLeader, TakeAsLeaderSave, CreateLeader, ResetContributors
  <2>2. ASSUME JoinCreate(s) \/ CancelCreated(s) \/ OpenMode(s) PROVE job'[t] = job[t]
    <3>1. \A c \in BOOLEAN : /\ (IF c THEN "cancel_open" ELSE "cancel") \in Ops \ Mine
                             /\ (IF c THEN "open" ELSE "idle") \in Ops \ Mine
      BY <1>o
    <3>2. ASSUME JoinCreate(s) PROVE job'[t] = job[t]
      <4>1. (job[s].snap.mode = None) \in BOOLEAN /\ "idle" \in Ops \ Mine
        BY <1>o
      <4>2. PICK new : \/ Write(s, new, "idle")
                       \/ Write(s, new, IF job[s].snap.mode = None THEN "cancel_open" ELSE "cancel")
                       \/ Write(s, new, IF job[s].snap.mode = None THEN "open" ELSE "idle")
        BY <3>2 DEF JoinCreate, Create
      <4> QED
        BY <1>w, <3>1, <4>1, <4>2
    <3>3. ASSUME CancelCreated(s) PROVE job'[t] = job[t]
      <4>1. At(s, "cancel_open") \in BOOLEAN
        BY DEF At
      <4> QED
        BY <1>w, <3>1, <3>3, <4>1 DEF CancelCreated
    <3>4. ASSUME OpenMode(s) PROVE job'[t] = job[t]
      BY <1>o, <1>v, <3>4 DEF OpenMode
    <3> QED
      BY <2>2, <3>2, <3>3, <3>4
  <2>3. ASSUME HandleTakeSave(s) \/ EditIncidentSave(s) \/ PrepareResolutionSave(s)
               \/ ReturnForCompletionSave(s) \/ RejectResolutionSave(s) \/ ResolveSave(s)
        PROVE  job'[t] = job[t]
    BY <1>o, <1>v, <2>3 DEF HandleTakeSave, EditIncidentSave, PrepareResolutionSave,
                           ReturnForCompletionSave, RejectResolutionSave, ResolveSave
  <2>4. ASSUME DeclareResolvedSave(s) \/ OverrideSave(s) PROVE job'[t] = job[t]
    BY <1>o, <1>g, <2>4 DEF DeclareResolvedSave, OverrideSave
  <2>5. ASSUME DisengageOwn(s) \/ LookForHeirs(s) \/ DisengageShare(s) \/ DisengageSave(s)
        PROVE job'[t] = job[t]
    <3>1. ASSUME LookForHeirs(s) PROVE job'[t] = job[t]
      <4>1. PICK op \in {"offer", "leave"} : Write(s, collab, op)
        BY <3>1 DEF LookForHeirs
      <4> QED
        BY <1>o, <1>w, <4>1
    <3> QED
      BY <1>o, <1>v, <1>w, <2>5, <3>1 DEF DisengageOwn, DisengageShare, DisengageSave
  <2> QED
    BY <1>2, <2>1, <2>2, <2>3, <2>4, <2>5 DEF WebSteps
<1>3. ASSUME NEW s \in Workers, Beat(s) \/ AntiGelSave(s) PROVE job'[t] = job[t]
  BY <1>o, <1>r, <1>v, <1>3
     DEF Beat, AutoValidate, RevertStale, WarnAt90, WarnAt75, AntiGelSave
<1>4. ASSUME NEW s \in Slots, DefinitiveSave(s) \/ TerminateCollaborations(s) \/ Crash(s)
      PROVE  job'[t] = job[t]
  BY <1>o, <1>v, <1>w, <1>g, <1>4 DEF DefinitiveSave, TerminateCollaborations, Crash
<1>5. ASSUME Tick PROVE job'[t].op = job[t].op
  <2>1. job[t] \in Job
    BY DEF IInv, TypeOK
  <2> QED
    BY <1>5, <2>1 DEF Tick, Job
<1> QED
  BY <1>1, <1>2, <1>3, <1>4, <1>5 DEF Next

\* A step of the incident leaves a slot that waits to answer with what it holds.
LEMMA ElsewhereKeeps ==
    ASSUME OrgInv, Next, Working(on), UNCHANGED assignment
    PROVE  /\ OrgInv'
           /\ \A t \in Slots : job'[t].op \in Waiting => job'[t].op = job[t].op /\ on'[t] = on[t]
<1>1. IInv'
  BY NextKeeps DEF OrgInv
<1>2. ASSUME NEW t \in Slots, job'[t].op \in Waiting PROVE job'[t].op = job[t].op /\ on'[t] = on[t]
  <2>1. job'[t] # Idle
    BY <1>2 DEF Idle, Waiting, Answers
  <2> QED
    BY <1>2, <2>1, NextOps DEF OrgInv, Working, Mine
<1>3. OrgTypeOK'
  BY DEF OrgInv, OrgTypeOK, Working
<1> QED
  BY <1>1, <1>2, <1>3 DEF OrgInv, Waiting

\* A read holds the assignment it is about; the guards of an answer find it made.
LEMMA HoldingKeeps ==
    ASSUME OrgInv, IInv', NEW s \in Slots, NEW a \in Assignments, NEW op \in Waiting, NEW u, NEW snap,
           Reads(s, a, op, u, snap), op \in Answers => assignment[a] # Unmade
    PROVE  /\ OrgInv'
           /\ job'[s].op = op /\ on'[s] = a /\ UNCHANGED assignment
<1>1. /\ job \in [Slots -> Job] /\ on \in [Slots -> Assignments \cup {None}]
  BY DEF OrgInv, IInv, TypeOK, OrgTypeOK
<1>2. \A t \in Slots : job'[t] = IF t = s THEN [op |-> op, user |-> u, new |-> NoCollab, snap |-> snap]
                                 ELSE job[t]
  BY <1>1 DEF Reads, Read, ReadFor
<1>3. \A t \in Slots : job'[t].op \in Waiting => job'[t] # Idle
  BY DEF Idle, Waiting, Answers
<1>4. \A t \in Slots : on'[t] = IF job'[t] = Idle THEN None ELSE IF t = s THEN a ELSE on[t]
  BY <1>1 DEF Reads, Working
<1>5. OrgTypeOK'
  BY <1>1, <1>4 DEF OrgInv, OrgTypeOK, Reads, Working
<1> QED
  BY <1>2, <1>3, <1>4, <1>5 DEF OrgInv, Reads, Waiting

\* A statement of these handlers frees its slot of the answer, and makes no row unmade.
LEMMA AnsweringKeeps ==
    ASSUME OrgInv, IInv', NEW s \in Slots, NEW op \in Ops \ Waiting, Goto(s, op), Working(on),
           assignment' \in [Assignments -> Assignment],
           \A a \in Assignments : assignment[a] # Unmade => assignment'[a] # Unmade
    PROVE  /\ OrgInv'
           /\ \A t \in Slots : job'[t].op \in Waiting => t # s
<1>1. ASSUME NEW t \in Slots, job'[t].op \in Waiting
      PROVE  t # s /\ job'[t] = job[t] /\ on'[t] = on[t]
  <2>1. job'[t] # Idle
    BY <1>1 DEF Idle, Waiting, Answers
  <2>2. Waiting \in SUBSET (Ops \ {"idle"})
    BY DEF Waiting, Answers, Ops
  <2> QED
    BY <1>1, <2>1, <2>2, GotoOps DEF OrgInv, Working
<1>2. OrgTypeOK'
  BY DEF OrgInv, OrgTypeOK, Working
<1>3. ASSUME NEW t \in Slots, job'[t].op \in Waiting
      PROVE  on'[t] \in Assignments /\ (job'[t].op \in Answers => assignment'[on'[t]] # Unmade)
  BY <1>1, <1>3 DEF OrgInv
<1> QED
  BY <1>1, <1>2, <1>3 DEF OrgInv, Waiting

\* What each of these statements makes of the assignments.
LEMMA StatementWrites ==
    ASSUME OrgInv, NEW s \in Slots, OrgSteps(s)
    PROVE  /\ \E op \in Ops \ Waiting : Goto(s, op)
           /\ Working(on)
           /\ assignment' \in [Assignments -> Assignment]
           /\ \A a \in Assignments : assignment[a] # Unmade => assignment'[a] # Unmade
           /\ \/ UNCHANGED assignment
              \/ job[s].op \in Waiting /\ \A a \in Assignments \ {on[s]} : assignment'[a] = assignment[a]
<1>t. assignment \in [Assignments -> Assignment]
  BY DEF OrgInv, OrgTypeOK
<1>o. {"idle", "engage", "engage_tacitly"} \subseteq Ops \ Waiting
  BY DEF Ops, Waiting, Answers
<1>1. ASSUME NEW org \in Orgs, AssignCreate(s, org)
      PROVE  /\ \E op \in Ops \ Waiting : Goto(s, op)
             /\ Working(on) /\ assignment' \in [Assignments -> Assignment]
             /\ \A a \in Assignments : assignment[a] # Unmade => assignment'[a] # Unmade
             /\ job[s].op \in Waiting
             /\ \A a \in Assignments \ {on[s]} : assignment'[a] = assignment[a]
  <2>1. [org |-> org, status |-> "pending"] \in Assignment \ {Unmade}
    BY DEF Assignment, Unmade
  <2> QED
    BY <1>o, <1>t, <1>1, <2>1 DEF AssignCreate, At, Waiting
<1>2. ASSUME NEW status \in {"accepted", "declined"}, NEW op \in Ops \ Waiting,
             Reply(s, status, op), job[s].op \in Answers
      PROVE  /\ \E o \in Ops \ Waiting : Goto(s, o)
             /\ Working(on) /\ assignment' \in [Assignments -> Assignment]
             /\ \A a \in Assignments : assignment[a] # Unmade => assignment'[a] # Unmade
             /\ job[s].op \in Waiting
             /\ \A a \in Assignments \ {on[s]} : assignment'[a] = assignment[a]
  <2>1. on[s] \in Assignments /\ assignment[on[s]] # Unmade
    BY <1>2 DEF OrgInv, Waiting
  <2>2. [assignment[on[s]] EXCEPT !.status = status] \in Assignment \ {Unmade}
    BY <1>t, <2>1 DEF Assignment, Unmade
  <2>3. assignment' = [assignment EXCEPT ![on[s]] = [assignment[on[s]] EXCEPT !.status = status]]
    BY <1>2 DEF Reply
  <2> QED
    BY <1>t, <1>2, <2>1, <2>2, <2>3 DEF Reply, Waiting
<1>3. ASSUME AnswerSave(s)
      PROVE  \E status \in {"accepted", "declined"}, op \in Ops \ Waiting :
               Reply(s, status, op) /\ job[s].op \in Answers
  BY <1>o, <1>3 DEF AnswerSave, At, Answers
<1>4. ASSUME Engage(s)
      PROVE  Goto(s, "idle") /\ Working(on) /\ UNCHANGED assignment
  BY <1>4 DEF Engage, Save
<1> QED
  BY <1>o, <1>t, <1>1, <1>2, <1>3, <1>4 DEF OrgSteps

\* The deadline passes over whatever slots hold.
LEMMA DeadlineKeeps ==
    ASSUME OrgInv, NEW a \in Assignments, DeadlinePasses(a)
    PROVE  /\ OrgInv' /\ UNCHANGED <<job, on>>
           /\ \A b \in Assignments : /\ Pending(b) => Pending(b)'
                                     /\ assignment[b].status # "pending" => assignment'[b] = assignment[b]
<1>1. assignment \in [Assignments -> Assignment]
  BY DEF OrgInv, OrgTypeOK
<1>2. [assignment[a] EXCEPT !.status = "overdue"] \in Assignment \ {Unmade}
  BY <1>1 DEF DeadlinePasses, Assignment, Unmade
<1>3. assignment' = [assignment EXCEPT ![a] = [assignment[a] EXCEPT !.status = "overdue"]]
  BY DEF DeadlinePasses
<1>4. UNCHANGED <<vars, on>>
  BY DEF DeadlinePasses
<1>5. assignment' \in [Assignments -> Assignment]
  BY <1>1, <1>2, <1>3
<1>6. IInv'
  BY <1>4, NextKeeps DEF OrgInv
<1>7. \A b \in Assignments : assignment'[b] = IF b = a THEN [assignment[a] EXCEPT !.status = "overdue"]
                                              ELSE assignment[b]
  BY <1>1, <1>3
<1>8. assignment'[a].status = "overdue"
  BY <1>1, <1>7 DEF Assignment, Unmade
<1>9. UNCHANGED <<job, on>>
  BY <1>4 DEF vars
<1>10. OrgInv'
  <2>1. \A s \in Slots : job[s].op \in Answers => assignment'[on[s]] # Unmade
    BY <1>2, <1>7 DEF OrgInv, Waiting
  <2> QED
    BY <1>5, <1>6, <1>9, <2>1 DEF OrgInv, OrgTypeOK
<1> QED
  BY <1>7, <1>8, <1>9, <1>10 DEF Pending, DeadlinePasses

\* What starts one of these handlers: the guards say what it holds.
LEMMA OrgReadsHold ==
    ASSUME OrgInv, NEW s \in Slots, NEW a \in Assignments,
           \/ AssignToOrganisation(s, a)
           \/ \E u \in Admins : AcceptAssignment(s, u, a) \/ DeclineAssignment(s, u, a)
           \/ AutoAccept(s, a)
    PROVE  \E op \in Waiting, u \in Users \cup {NoUser}, snap \in {None, Copy} :
             /\ Reads(s, a, op, u, snap)
             /\ op \in Answers => assignment[a] # Unmade /\ Pending(a)
             /\ op = "assign" => assignment[a] = Unmade
<1>1. CASE AssignToOrganisation(s, a)
  BY <1>1 DEF AssignToOrganisation, Waiting, Answers
<1>2. CASE AutoAccept(s, a)
  BY <1>2 DEF AutoAccept, Waiting, Answers, Pending, Unmade
<1>3. ASSUME NEW u \in Admins, AcceptAssignment(s, u, a) \/ DeclineAssignment(s, u, a)
      PROVE  /\ Reads(s, a, "accept", u, Copy) \/ Reads(s, a, "decline", u, None)
             /\ assignment[a] # Unmade /\ Pending(a) /\ u \in Users
  BY <1>3, UsersAssumption DEF AcceptAssignment, DeclineAssignment, Pending, Unmade
<1> QED
  BY <1>1, <1>2, <1>3 DEF Waiting, Answers

\* The requests and the task of this module, put together.
LEMMA OrgCases ==
    ASSUME OrgNext
    PROVE  \/ Next /\ Working(on) /\ UNCHANGED assignment
           \/ \E s \in Slots, a \in Assignments :
                \/ AssignToOrganisation(s, a)
                \/ \E u \in Admins : AcceptAssignment(s, u, a) \/ DeclineAssignment(s, u, a)
                \/ AutoAccept(s, a)
           \/ \E s \in Slots : OrgSteps(s)
           \/ \E a \in Assignments : DeadlinePasses(a)
BY DEF OrgNext, OrgRequests, Slots

LEMMA OrgInvKept == OrgInv /\ [OrgNext]_orgVars => OrgInv'
<1> SUFFICES ASSUME OrgInv, [OrgNext]_orgVars PROVE OrgInv'
  OBVIOUS
<1>i. IInv'
  BY OrgNextKeeps DEF OrgInv
<1>1. CASE UNCHANGED orgVars
  BY <1>i, <1>1 DEF orgVars, vars, OrgInv, OrgTypeOK
<1>2. CASE Next /\ Working(on) /\ UNCHANGED assignment
  BY <1>2, ElsewhereKeeps
<1>3. ASSUME NEW s \in Slots, NEW a \in Assignments,
             \/ AssignToOrganisation(s, a)
             \/ \E u \in Admins : AcceptAssignment(s, u, a) \/ DeclineAssignment(s, u, a)
             \/ AutoAccept(s, a)
      PROVE  OrgInv'
  BY <1>i, <1>3, OrgReadsHold, HoldingKeeps
<1>4. ASSUME NEW s \in Slots, OrgSteps(s) PROVE OrgInv'
  BY <1>i, <1>4, StatementWrites, AnsweringKeeps
<1>5. ASSUME NEW a \in Assignments, DeadlinePasses(a) PROVE OrgInv'
  BY <1>5, DeadlineKeeps
<1> QED
  BY <1>1, <1>2, <1>3, <1>4, <1>5, OrgCases

LEMMA OrgInitInv == OrgInit => OrgInv
<1> SUFFICES ASSUME OrgInit PROVE OrgInv
  OBVIOUS
<1>1. IInv
  BY InitIInv DEF OrgInit
<1>2. \A s \in Slots : job[s].op \notin Waiting
  BY DEF OrgInit, Init, Idle, Waiting, Answers
<1> QED
  BY <1>1, <1>2 DEF OrgInit, OrgInv, OrgTypeOK, Assignment, Waiting

\* With one slot nobody answers what that slot is about to answer.
LEMMA OrgSerialKept ==
    ASSUME OneSlot, OrgSerialInv, [OrgNext]_orgVars
    PROVE  OrgSerialInv'
<1>i. OrgInv /\ OrgInv'
  BY OrgInvKept DEF OrgSerialInv
<1> DEFINE Holds(t) == /\ job[t].op \in Answers => Pending(on[t])
                       /\ job[t].op = "assign" => assignment[on[t]] = Unmade
<1> SUFFICES ASSUME NEW t \in Slots PROVE Holds(t)'
  BY <1>i DEF OrgSerialInv
<1>h. Holds(t)
  BY DEF OrgSerialInv
<1>1. CASE UNCHANGED orgVars
  BY <1>h, <1>1 DEF orgVars, vars, Pending
<1>2. CASE Next /\ Working(on) /\ UNCHANGED assignment
  <2>1. job'[t].op \in Waiting => job'[t].op = job[t].op /\ on'[t] = on[t]
    BY <1>i, <1>2, ElsewhereKeeps
  <2> QED
    BY <1>h, <1>2, <2>1 DEF Waiting, Pending
<1>3. ASSUME NEW s \in Slots, NEW a \in Assignments,
             \/ AssignToOrganisation(s, a)
             \/ \E u \in Admins : AcceptAssignment(s, u, a) \/ DeclineAssignment(s, u, a)
             \/ AutoAccept(s, a)
      PROVE  Holds(t)'
  <2>1. PICK op \in Waiting, u \in Users \cup {NoUser}, snap \in {None, Copy} :
          /\ Reads(s, a, op, u, snap)
          /\ op \in Answers => assignment[a] # Unmade /\ Pending(a)
          /\ op = "assign" => assignment[a] = Unmade
    BY <1>i, <1>3, OrgReadsHold
  <2>2. IInv'
    BY <1>i DEF OrgInv
  <2>3. job'[s].op = op /\ on'[s] = a /\ UNCHANGED assignment
    BY <1>i, <2>1, <2>2, HoldingKeeps
  <2>4. t = s
    BY DEF OneSlot
  <2> QED
    BY <2>1, <2>3, <2>4 DEF Pending
<1>4. ASSUME NEW s \in Slots, OrgSteps(s) PROVE Holds(t)'
  <2>1. IInv'
    BY <1>i DEF OrgInv
  <2>2. job'[t].op \in Waiting => t # s
    BY <1>i, <1>4, <2>1, StatementWrites, AnsweringKeeps
  <2>3. job'[t].op \notin Waiting
    BY <2>2 DEF OneSlot
  <2> QED
    BY <2>3 DEF Waiting
<1>5. ASSUME NEW a \in Assignments, DeadlinePasses(a) PROVE Holds(t)'
  <2>1. /\ UNCHANGED <<job, on>>
        /\ \A b \in Assignments : /\ Pending(b) => Pending(b)'
                                  /\ assignment[b].status # "pending" => assignment'[b] = assignment[b]
    BY <1>i, <1>5, DeadlineKeeps
  <2>2. job[t].op \in Waiting => on[t] \in Assignments
    BY <1>i DEF OrgInv
  <2> QED
    BY <1>h, <2>1, <2>2 DEF Waiting, Unmade, Pending
<1> QED
  BY <1>1, <1>2, <1>3, <1>4, <1>5, OrgCases

\* Assignments and what slots hold of them keep their types, whatever overlaps: nobody
\* answers a row that was never made.
THEOREM OrgTypes == OrgSpec => []OrgTypeOK
<1>1. OrgInv => OrgTypeOK
  BY DEF OrgInv
<1> QED
  BY <1>1, OrgInitInv, OrgInvKept, PTL DEF OrgSpec

\* When handlers do not overlap, an answer to an assignment is final, given or tacit, for
\* all organisations and any number of assignments.
THEOREM AnswersAreFinal == ASSUME OneSlot PROVE OrgSpec => AnswerStands
<1> DEFINE Stands == \A a \in Assignments : assignment[a].status \in {"accepted", "declined"}
                                            => assignment'[a] = assignment[a]
<1>1. OrgInit => OrgSerialInv
  <2> SUFFICES ASSUME OrgInit PROVE OrgSerialInv
    OBVIOUS
  <2>1. \A s \in Slots : job[s].op \notin Waiting
    BY DEF OrgInit, Init, Idle, Waiting, Answers
  <2> QED
    BY <2>1, OrgInitInv DEF OrgSerialInv, Waiting
<1>2. OrgSerialInv /\ [OrgNext]_orgVars => OrgSerialInv'
  BY OrgSerialKept
<1>3. OrgSerialInv /\ [OrgNext]_orgVars => [Stands]_orgVars
  <2> SUFFICES ASSUME OrgSerialInv, OrgNext, NEW a \in Assignments,
                      assignment[a].status \in {"accepted", "declined"}
               PROVE  assignment'[a] = assignment[a]
    OBVIOUS
  <2>1. ASSUME NEW s \in Slots, OrgSteps(s) PROVE assignment'[a] = assignment[a]
    <3>1. \/ UNCHANGED assignment
          \/ job[s].op \in Waiting /\ \A b \in Assignments \ {on[s]} : assignment'[b] = assignment[b]
      BY <2>1, StatementWrites DEF OrgSerialInv
    <3>2. job[s].op \in Waiting => on[s] # a
      BY DEF OrgSerialInv, Waiting, Pending, Unmade
    <3> QED
      BY <3>1, <3>2
  <2>2. ASSUME NEW s \in Slots, NEW b \in Assignments,
               \/ AssignToOrganisation(s, b)
               \/ \E u \in Admins : AcceptAssignment(s, u, b) \/ DeclineAssignment(s, u, b)
               \/ AutoAccept(s, b)
        PROVE  assignment'[a] = assignment[a]
    BY <2>2 DEF AssignToOrganisation, AcceptAssignment, DeclineAssignment, AutoAccept, Reads
  <2>3. ASSUME NEW b \in Assignments, DeadlinePasses(b) PROVE assignment'[a] = assignment[a]
    BY <2>3, DeadlineKeeps DEF OrgSerialInv
  <2> QED
    BY <2>1, <2>2, <2>3, OrgCases
<1> QED
  BY <1>1, <1>2, <1>3, PTL DEF OrgSpec, AnswerStands

-----------------------------------------------------------------------------
(* Engaging.  When handlers do not overlap, the incident is still what the  *)
(* acceptance read, and the admin who accepted is one of the organisation.  *)

Engages(j, a) ==
    /\ j.op \in Engaging => a \in Assignments /\ j.snap # None /\ j.snap.etat = row.etat
    /\ j.op \in {"accept", "engage"} => j.user \in assignment[a].org
EngageInv == OrgSerialInv /\ \A s \in Slots : Engages(job[s], on[s])

\* An acceptance starts with the incident it was read with.
LEMMA OrgReadsEngage ==
    ASSUME OneSlot, EngageInv, NEW s \in Slots, NEW a \in Assignments,
           \/ AssignToOrganisation(s, a)
           \/ \E u \in Admins : AcceptAssignment(s, u, a) \/ DeclineAssignment(s, u, a)
           \/ AutoAccept(s, a)
    PROVE  \A t \in Slots : Engages(job[t], on[t])'
<1> SUFFICES ASSUME NEW t \in Slots PROVE Engages(job[t], on[t])'
  OBVIOUS
<1>1. t = s
  BY DEF OneSlot
<1>i. OrgInv /\ IInv /\ job \in [Slots -> Job] /\ on \in [Slots -> Assignments \cup {None}]
  BY DEF EngageInv, OrgSerialInv, OrgInv, IInv, TypeOK, OrgTypeOK
<1>2. Copy # None /\ Copy.etat = row.etat
  BY <1>i, CopyInv, NoneAssumption DEF IInv, TypeOK, Copy, Row
<1> DEFINE Held(op, u, snap) == /\ Reads(s, a, op, u, snap)
                                /\ op \in {"accept", "accept_tacitly"} => snap = Copy
                                /\ op = "accept" => u \in assignment[a].org
<1>3. PICK op \in Waiting, u \in Users \cup {NoUser}, snap \in {None, Copy} : Held(op, u, snap)
  <2>1. AssignToOrganisation(s, a) => Held("assign", NoUser, None)
    BY DEF AssignToOrganisation
  <2>2. AutoAccept(s, a) => Held("accept_tacitly", NoUser, Copy)
    BY DEF AutoAccept
  <2>3. ASSUME NEW u \in Admins
        PROVE  /\ AcceptAssignment(s, u, a) => Held("accept", u, Copy)
               /\ DeclineAssignment(s, u, a) => Held("decline", u, None)
    BY DEF AcceptAssignment, DeclineAssignment
  <2>4. {"assign", "accept", "decline", "accept_tacitly"} \subseteq Waiting
    BY DEF Waiting, Answers
  <2> HIDE DEF Held
  <2> QED
    BY <2>1, <2>2, <2>3, <2>4, UsersAssumption
<1>4. /\ job'[s].op = op /\ job'[s].user = u /\ job'[s].snap = snap
      /\ UNCHANGED <<row, assignment>>
  BY <1>3, <1>i DEF Reads, Read, ReadFor
<1>5. on'[s] = a
  <2>1. job'[s] # Idle
    BY <1>4 DEF Idle, Waiting, Answers
  <2> QED
    BY <1>3, <1>i, <2>1 DEF Reads, Working
<1>6. op \notin {"engage", "engage_tacitly"}
  BY DEF Waiting, Answers
<1> HIDE DEF Waiting
<1> QED
  BY <1>1, <1>2, <1>3, <1>4, <1>5, <1>6 DEF Engages, Engaging

\* From the answer to the engagement the slot keeps what it read.
LEMMA OrgStepsEngage ==
    ASSUME OneSlot, EngageInv, NEW s \in Slots, OrgSteps(s)
    PROVE  \A t \in Slots : Engages(job[t], on[t])'
<1> SUFFICES ASSUME NEW t \in Slots PROVE Engages(job[t], on[t])'
  OBVIOUS
<1>1. t = s
  BY DEF OneSlot
<1>i. /\ OrgInv /\ IInv /\ job \in [Slots -> Job] /\ job[s] \in Job
      /\ on \in [Slots -> Assignments \cup {None}]
      /\ assignment \in [Assignments -> Assignment] /\ Engages(job[s], on[s])
  BY DEF EngageInv, OrgSerialInv, OrgInv, IInv, TypeOK, OrgTypeOK
<1>2. ASSUME Goto(s, "idle") PROVE Engages(job[t], on[t])'
  <2>1. job'[s].op = "idle"
    BY <1>2, <1>i DEF Goto, Idle
  <2> QED
    BY <1>1, <2>1 DEF Engages, Engaging
<1>3. ASSUME NEW op \in {"engage", "engage_tacitly"}, Reply(s, "accepted", op),
             job[s].op \in {"accept", "accept_tacitly"},
             op = "engage" => job[s].op = "accept"
      PROVE  Engages(job[t], on[t])'
  <2>1. job' = [job EXCEPT ![s] = [job[s] EXCEPT !.op = op]]
    BY <1>3, <1>i DEF Reply, Goto
  <2>2. job'[s].op = op /\ job'[s].user = job[s].user /\ job'[s].snap = job[s].snap
    BY <2>1, <1>i DEF Job
  <2>3. on'[s] = on[s]
    <3>1. job'[s] # Idle
      BY <1>3, <2>2 DEF Idle
    <3> QED
      BY <1>3, <1>i, <3>1 DEF Reply, Working
  <2>4. on[s] \in Assignments /\ job[s].snap # None /\ job[s].snap.etat = row.etat
    BY <1>3, <1>i DEF Engages, Engaging
  <2>5. assignment[on[s]] \in Assignment /\ assignment[on[s]] # Unmade
    BY <1>3, <1>i, <2>4 DEF OrgInv, Answers
  <2>6. assignment'[on[s]] = [assignment[on[s]] EXCEPT !.status = "accepted"]
    BY <1>3, <1>i, <2>4 DEF Reply
  <2>7. assignment'[on[s]].org = assignment[on[s]].org
    BY <2>5, <2>6 DEF Assignment
  <2>8. op = "engage" => job[s].user \in assignment[on[s]].org
    BY <1>3, <1>i DEF Engages
  <2>9. row' = row
    BY <1>3 DEF Reply
  <2> QED
    BY <1>1, <1>3, <2>2, <2>3, <2>4, <2>7, <2>8, <2>9 DEF Engages
<1>4. \/ Goto(s, "idle")
      \/ \E op \in {"engage", "engage_tacitly"} :
           /\ Reply(s, "accepted", op) /\ job[s].op \in {"accept", "accept_tacitly"}
           /\ op = "engage" => job[s].op = "accept"
  BY DEF OrgSteps, AssignCreate, AnswerSave, Engage, Save, Reply, At
<1> QED
  BY <1>2, <1>3, <1>4

\* With one slot, only time passes while it has an operation of this module to end.
LEMMA OnlyTime ==
    ASSUME OneSlot, IInv, Next, NEW t \in Slots, job[t].op \in Engaging
    PROVE  Tick \/ job'[t].op = "idle"
<1> USE DEF Slots
<1>1. job \in [Slots -> Job] /\ job[t] # Idle
  BY DEF IInv, TypeOK, Idle, Engaging
<1>2. \A s \in Slots : s = t
  BY DEF OneSlot
<1>3. ASSUME NEW s \in Slots, Requests(s) \/ Beat(s) PROVE FALSE
  <2>1. job[s] = Idle
    BY <1>3 DEF Requests, TakeInternal, TakeAsLeader, Join, HandleTake, HandleResolve,
       PrepareResolution, ReturnForCompletion, DeclareResolved, CloseIncident, Disengage,
       ValidateResolution, RejectResolution, EditIncident, Override, Beat, AutoValidate, RevertStale,
       WarnAt90, WarnAt75, Read, ReadFor
  <2> QED
    BY <1>1, <1>2, <2>1
<1>4. ASSUME NEW s \in Slots, \/ WebSteps(s) \/ AntiGelSave(s) \/ DefinitiveSave(s)
                              \/ TerminateCollaborations(s)
      PROVE  FALSE
  <2>1. job[s].op \notin Engaging
    BY <1>4 DEF WebSteps, TakeInternalSave, AddLeader, TakeAsLeaderSave, CreateLeader,
       ResetContributors, JoinCreate, CancelCreated, OpenMode, HandleTakeSave,
       EditIncidentSave, OverrideSave, PrepareResolutionSave, ReturnForCompletionSave,
       DeclareResolvedSave, RejectResolutionSave, ResolveSave, DisengageOwn, LookForHeirs,
       DisengageShare, DisengageSave, AntiGelSave, DefinitiveSave, TerminateCollaborations, At, Engaging
  <2> QED
    BY <1>2, <2>1
<1>5. ASSUME NEW s \in Slots, Crash(s) PROVE job'[t].op = "idle"
  BY <1>1, <1>2, <1>5 DEF Crash, Goto, Idle
<1> QED
  BY <1>3, <1>4, <1>5 DEF Next

\* The incident's own steps leave a slot that is engaging alone: there is no other.
LEMMA NextEngage ==
    ASSUME OneSlot, EngageInv, Next, Working(on), UNCHANGED assignment
    PROVE  \A t \in Slots : Engages(job[t], on[t])'
<1> SUFFICES ASSUME NEW t \in Slots, job'[t].op \in Engaging PROVE Engages(job[t], on[t])'
  BY DEF Engages, Engaging
<1>i. /\ OrgInv /\ IInv /\ job \in [Slots -> Job] /\ job[t] \in Job /\ row \in Row
      /\ on \in [Slots -> Assignments \cup {None}] /\ Engages(job[t], on[t])
  BY DEF EngageInv, OrgSerialInv, OrgInv, IInv, TypeOK, OrgTypeOK
<1>1. job'[t].op = job[t].op
  BY <1>i, NextOps DEF Mine
<1>2. on'[t] = on[t]
  <2>1. job'[t] # Idle
    BY DEF Idle, Engaging
  <2> QED
    BY <2>1 DEF Working
<1>3. Tick
  BY <1>i, <1>1, OnlyTime DEF Engaging
<1>4. row'.etat = row.etat
  BY <1>3, <1>i DEF Tick, Later, Row
<1>5. /\ job'[t].user = job[t].user
      /\ job[t].snap # None => job'[t].snap # None /\ job'[t].snap.etat = job[t].snap.etat
  <2>1. CASE job[t].snap = None
    BY <1>3, <2>1 DEF Tick
  <2>2. CASE job[t].snap # None
    <3>1. job'[t] = [job[t] EXCEPT !.snap = Later(job[t].snap)]
      BY <1>3, <2>2 DEF Tick
    <3>2. job[t].snap \in Row
      BY <1>i, <2>2 DEF Job
    <3>3. Later(job[t].snap) # None
      BY <3>2, LaterInv, NoneAssumption
    <3>4. Later(job[t].snap).etat = job[t].snap.etat
      BY <3>2 DEF Later, Row
    <3> QED
      BY <3>1, <3>3, <3>4, <1>i DEF Job
  <2> QED
    BY <2>1, <2>2
<1> QED
  BY <1>i, <1>1, <1>2, <1>4, <1>5 DEF Engages

\* The invariant is inductive.
LEMMA EngageKept == OneSlot /\ EngageInv /\ [OrgNext]_orgVars => EngageInv'
<1> SUFFICES ASSUME OneSlot, EngageInv, [OrgNext]_orgVars PROVE EngageInv'
  OBVIOUS
<1>i. OrgSerialInv /\ OrgInv
  BY DEF EngageInv, OrgSerialInv
<1>s. OrgSerialInv'
  BY <1>i, OrgSerialKept
<1>1. CASE UNCHANGED orgVars
  BY <1>s, <1>1 DEF orgVars, vars, EngageInv, Engages
<1>2. CASE Next /\ Working(on) /\ UNCHANGED assignment
  BY <1>s, <1>2, NextEngage DEF EngageInv
<1>3. ASSUME NEW s \in Slots, NEW a \in Assignments,
             \/ AssignToOrganisation(s, a)
             \/ \E u \in Admins : AcceptAssignment(s, u, a) \/ DeclineAssignment(s, u, a)
             \/ AutoAccept(s, a)
      PROVE  EngageInv'
  BY <1>s, <1>3, OrgReadsEngage DEF EngageInv
<1>4. ASSUME NEW s \in Slots, OrgSteps(s) PROVE EngageInv'
  BY <1>s, <1>4, OrgStepsEngage DEF EngageInv
<1>5. ASSUME NEW a \in Assignments, DeadlinePasses(a) PROVE EngageInv'
  <2>1. assignment \in [Assignments -> Assignment]
    BY <1>i DEF OrgInv, OrgTypeOK
  <2>2. assignment[a] # Unmade /\ assignment[a] \in Assignment
    BY <1>5, <2>1 DEF DeadlinePasses, Unmade
  <2>3. \A b \in Assignments : assignment'[b].org = assignment[b].org
    BY <1>5, <2>1, <2>2 DEF DeadlinePasses, Assignment
  <2>4. UNCHANGED <<row, job, on>>
    BY <1>5 DEF DeadlinePasses, vars
  <2> QED
    BY <1>s, <2>3, <2>4 DEF EngageInv, Engages, Engaging
<1> QED
  BY <1>1, <1>2, <1>3, <1>4, <1>5, OrgCases

LEMMA EngageInit == OrgInit => EngageInv
<1> SUFFICES ASSUME OrgInit PROVE EngageInv
  OBVIOUS
<1>1. \A s \in Slots : job[s].op = "idle"
  BY DEF OrgInit, Init, Idle
<1>2. OrgSerialInv
  BY <1>1, OrgInitInv DEF OrgSerialInv, Answers
<1> QED
  BY <1>1, <1>2 DEF EngageInv, Engages, Engaging

\* When handlers do not overlap, an acceptance, given or tacit, leaves the incident taken,
\* and led by the accepting organisation if nobody had it.
THEOREM AcceptanceCounts == ASSUME OneSlot PROVE OrgSpec => AcceptanceEngages
<1> DEFINE Engaged == \A s \in Slots : Engage(s) =>
             LET org == assignment[on[s]].org IN
             /\ row'.etat # "declared"
             /\ row.etat = "declared" /\ org # {} => row'.takenBy \in org
<1>1. EngageInv /\ [OrgNext]_orgVars => [Engaged]_orgVars
  <2> SUFFICES ASSUME EngageInv, NEW s \in Slots, Engage(s)
               PROVE  LET org == assignment[on[s]].org IN
                      /\ row'.etat # "declared"
                      /\ row.etat = "declared" /\ org # {} => row'.takenBy \in org
    OBVIOUS
  <2>1. row \in Row
    BY DEF EngageInv, OrgSerialInv, OrgInv, IInv, TypeOK
  <2>2. /\ job[s].snap.etat = row.etat
        /\ At(s, "engage") => job[s].user \in assignment[on[s]].org
    BY DEF Engage, EngageInv, Engages, Engaging, At
  <2>3. row.etat # "declared" => row' = row
    BY <2>2 DEF Engage, Save
  <2>4. CASE row.etat = "declared"
    <3>1. \/ At(s, "engage") /\ row' = TakenNow(row, job[s].user, row.mode)
          \/ \E u \in Users \cup {NoUser} :
               /\ IF assignment[on[s]].org = {} THEN u = NoUser ELSE u \in assignment[on[s]].org
               /\ row' = [row EXCEPT !.etat = "taken_into_account", !.takenBy = u, !.age = 0]
      BY <2>2, <2>4 DEF Engage, Save
    <3>2. CASE At(s, "engage") /\ row' = TakenNow(row, job[s].user, row.mode)
      BY <2>1, <2>2, <3>2 DEF TakenNow, Row
    <3>3. ASSUME NEW u \in Users \cup {NoUser},
                 IF assignment[on[s]].org = {} THEN u = NoUser ELSE u \in assignment[on[s]].org,
                 row' = [row EXCEPT !.etat = "taken_into_account", !.takenBy = u, !.age = 0]
          PROVE  /\ row'.etat # "declared"
                 /\ assignment[on[s]].org # {} => row'.takenBy \in assignment[on[s]].org
      BY <2>1, <3>3 DEF Row
    <3> QED
      BY <3>1, <3>2, <3>3
  <2> QED
    BY <2>3, <2>4
<1>2. EngageInv /\ [OrgNext]_orgVars => EngageInv'
  BY OneSlot, EngageKept
<1> QED
  BY <1>1, <1>2, EngageInit, PTL DEF OrgSpec, AcceptanceEngages
=============================================================================
