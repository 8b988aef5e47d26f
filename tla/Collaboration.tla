----------------------------- MODULE Collaboration -----------------------------
(***************************************************************************)
(* The collaboration endpoints (Mapapi/views/collaboration.py): requests to *)
(* join an incident, one by one or in bulk, the leader's answers, and the   *)
(* edition and deletion of a collaboration; composed with the incident's    *)
(* own endpoints and beat tasks, which write the same rows.                 *)
(*                                                                         *)
(* Collaborations are told apart by their user: (incident, user) is unique. *)
(* Whether the end date of a request has passed is not kept: an answer that *)
(* the code refuses for that reason is one that is never given.             *)
(***************************************************************************)
EXTENDS IncidentLifecycle

CONSTANT Arrivals   \* the collaborations on other incidents that editions may move to this one
ASSUME ArrivalsAssumption == Arrivals \subseteq Collab \ {NoCollab}

Active(u) == collab[u].status \in {"pending", "accepted"}

-----------------------------------------------------------------------------
(* Asking to join.                                                         *)

\* What a request starts with: internal mode leaves the decision to the owner,
\* observers are welcome, and contributors too as long as there is no leader.
InitialStatus(role) ==
    IF row.mode # "internal" /\ (role = "observer" \/ row.takenBy = NoUser)
    THEN "accepted" ELSE "pending"

\* A request that was refused or has ended can be made again: its row is replaced.
\* Faulty variant: a closed incident still takes requests.
RequestOnClosed(s, u, role) ==
    /\ role \in {"contributor", "observer"} /\ ~Active(u)
    /\ ReadFor(s, IF collab[u] = NoCollab THEN "request" ELSE "replace",
               u, [role |-> role, status |-> InitialStatus(role)], Copy)
RequestCollaboration(s, u, role) ==
    /\ role \in {"contributor", "observer"}
    /\ row.etat # "resolved" /\ ~Active(u)
    /\ ReadFor(s, IF collab[u] = NoCollab THEN "request" ELSE "replace",
               u, [role |-> role, status |-> InitialStatus(role)], Copy)
DeleteEnded(s) ==
    /\ At(s, "replace")
    /\ Write(s, [collab EXCEPT ![job[s].user] = NoCollab], "request")
RequestCreate(s) ==
    /\ At(s, "request")
    /\ Create(s, job[s].snap.mode = None /\ job[s].new.status = "accepted")

\* An item of a bulk request: always pending, and no look at the existing row.
BulkRequest(s, u, role) ==
    /\ role \in {"contributor", "observer"}
    /\ u \in Admins /\ row.etat # "resolved"
    /\ ReadFor(s, "bulk", u, [role |-> role, status |-> "pending"], Copy)
BulkCreate(s) == At(s, "bulk") /\ Create(s, FALSE)

-----------------------------------------------------------------------------
(* The leader's answers.  They save the whole row that was read, with its   *)
(* role, whatever its status.                                              *)

Answer(s, u, v, status) ==
    /\ u \in Admins /\ IsIncidentLeader(u) /\ collab[v] # NoCollab
    /\ ReadFor(s, "rewrite", v, [collab[v] EXCEPT !.status = status],
               IF status = "accepted" THEN Copy ELSE None)

HandleCollaborationRequest(s, u, v) == Answer(s, u, v, "accepted") \/ Answer(s, u, v, "declined")
AcceptCollaboration(s, u, v) == collab[v].status # "accepted" /\ Answer(s, u, v, "accepted")
DeclineCollaboration(s, u, v) == Answer(s, u, v, "declined")

\* PUT or PATCH, by the collaborator or the leader: the role, or something else.
\* Faulty variant: any role can be asked for.
EditAnyRole(s, v, role) ==
    /\ collab[v] # NoCollab /\ row.etat # "resolved"
    /\ ReadFor(s, "rewrite", v, [collab[v] EXCEPT !.role = role], None)
EditCollaboration(s, v, role) ==
    /\ collab[v] # NoCollab /\ row.etat # "resolved"
    /\ role \in {"contributor", "observer", collab[v].role}
    /\ ReadFor(s, "rewrite", v, [collab[v] EXCEPT !.role = role], None)

\* Accepting somebody opens an incident that was in internal mode.
Rewrite(s) ==
    /\ At(s, "rewrite")
    /\ LET opens == job[s].snap # None /\ job[s].snap.mode = "internal" IN
       Write(s, [collab EXCEPT ![job[s].user] = job[s].new], IF opens THEN "open" ELSE "idle")

\* The form may name another incident, and only that one must not be closed: a row comes here,
\* with the role and the status it had, unless the user has one here already.
MoveHere(s, u, c) ==
    /\ c \in Arrivals /\ row.etat # "resolved"
    /\ ReadFor(s, "move", u, c, None)
MoveSave(s) ==
    /\ At(s, "move")
    /\ LET u == job[s].user IN
       Write(s, IF collab[u] = NoCollab THEN [collab EXCEPT ![u] = job[s].new] ELSE collab, "idle")

\* By the collaborator, the leader or a super admin: deleted, or moved to another incident.
DeleteCollaboration(s, v) == collab[v] # NoCollab /\ Read(s, "delete", v, None)
DeleteSave(s) == At(s, "delete") /\ Write(s, [collab EXCEPT ![job[s].user] = NoCollab], "idle")

-----------------------------------------------------------------------------
(* The composition.                                                        *)

CollaborationRequests(s) ==
    \/ \E u \in Users, role \in Roles :
         RequestCollaboration(s, u, role) \/ BulkRequest(s, u, role) \/ EditCollaboration(s, u, role)
    \/ \E u, v \in Users : \/ HandleCollaborationRequest(s, u, v)
                           \/ AcceptCollaboration(s, u, v) \/ DeclineCollaboration(s, u, v)
    \/ \E v \in Users : DeleteCollaboration(s, v)
    \/ \E u \in Users, c \in Arrivals : MoveHere(s, u, c)
CollaborationSteps(s) ==
    \/ DeleteEnded(s) \/ RequestCreate(s) \/ BulkCreate(s) \/ Rewrite(s)
    \/ MoveSave(s) \/ DeleteSave(s)

CollabNext == Next \/ \E s \in Web : CollaborationRequests(s) \/ CollaborationSteps(s)

CollabSpec == Init /\ [][CollabNext]_vars

-----------------------------------------------------------------------------
(* Properties, when handlers do not overlap.                               *)

\* The role of leader is earned by taking the incident, or inherited, still to be
\* accepted, by a contributor when the leader leaves: no request, answer or edition
\* gives it, but an edition that brings a leader's row here from another incident.
LeaderRoleEarned ==
    [][\A u \in Users : collab'[u].role = "leader" /\ collab[u].role # "leader"
         => \/ Accepted(u, "contributor") /\ collab'[u].status = "pending"
            \/ row.takenBy = u
            \/ \E s \in Web : MoveSave(s) /\ job[s].user = u]_vars

\* A closed incident gains no collaboration: not by joining, nor by a request, alone or in
\* bulk, nor by an answer, nor by an edition.
ClosedToNewcomers ==
    [][row.etat = "resolved" => \A u \in Users : collab[u] = NoCollab => collab'[u] = NoCollab]_vars

=============================================================================
