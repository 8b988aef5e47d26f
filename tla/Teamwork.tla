-------------------------------- MODULE Teamwork --------------------------------
(***************************************************************************)
(* Work on one incident beside its lifecycle: partners suggested to its       *)
(* leader, the team's discussion, and field agents sent to the place, who     *)
(* report.                                                                  *)
(*                                                                         *)
(* The handlers of IncidentLifecycle and Collaboration write the incident and *)
(* the collaborations at any time, and are left free to write what they like: *)
(* what is shown here holds whatever they do between two statements.          *)
(***************************************************************************)

CONSTANTS Threads,      \* the threads of the web server
          Users,        \* administrators and office agents of organisations
          Partners,     \* users who may come to be suggested (a bound of the model)
          Agents,       \* field agents
          Rows,         \* the primary keys assignments may come to have (a bound of the model)
          Orgs,         \* organisations
          OrgOf,        \* the organisation of each user and agent
          ReportedBy,   \* the organisation of the incident's reporter, None for a citizen
          PartnerRoles, \* the roles that clients suggest
          FormStatuses, \* the statuses that clients send for an assignment
          Super,        \* the super admin
          None          \* no row, SQL NULL

ASSUME OrgAssumption == OrgOf \in [Users \cup Agents -> Orgs] /\ ReportedBy \in Orgs \cup {None}
ASSUME FormsAssumption == /\ PartnerRoles \subseteq {"contributor", "observer"}
                          /\ FormStatuses \subseteq {"pending", "in_progress", "reported", "cancelled"}
ASSUME PeopleAssumption == /\ Partners \subseteq Users /\ Super \notin Users \cup Agents
                           /\ None \notin Users \cup Agents \cup Orgs
                           /\ Rows \cap (Users \cup Agents \cup {None}) = {}

VARIABLES incident,     \* the columns that these endpoints look at
          collab,       \* the collaboration of each user, as in IncidentState
          suggestion,   \* the suggestion of each partner ((incident, partner) is unique)
          joined,       \* history: partners the acceptance of a suggestion has brought in
          assignment,   \* the rows of IncidentAssignment; each has an agent of its own
          byHand,       \* history: rows that a manager's form was to make 'reported'
          reports,      \* history: agents who have filed a field report
          job           \* what each thread has still to write

teamVars == <<incident, collab, suggestion, joined, assignment, byHand, reports, job>>
partnerVars == <<suggestion, joined>>
fieldVars == <<assignment, byHand, reports>>

Incident == [resolved : BOOLEAN, takenBy : Users \cup {None}, internal : BOOLEAN, public : BOOLEAN]
Collab == [role : {"leader"} \cup PartnerRoles, status : {"pending", "accepted", "declined"}]
Suggestion == [role : PartnerRoles, status : {"pending", "accepted", "rejected"}]
Statuses == FormStatuses \cup {"reported"}
Assignment == [agent : Agents, status : Statuses]
ASSUME NoAssignmentAssumption == None \notin Assignment

\* `at` is the next statement of a request, `who` the partner, the speaker, the agent or the
\* assignment, `new` the role or the assignment to be written.
Steps == {"idle", "suggest", "join", "overwrite", "accept", "reject", "create", "admit",
          "assign", "edit", "withdraw", "report", "mark"}
Job == [at : Steps, who : Users \cup Agents \cup Rows \cup {None},
        new : PartnerRoles \cup Assignment \cup {None}]
Idle == [at |-> "idle", who |-> None, new |-> None]
At(t, x) == job[t].at = x

TeamInit == /\ \E public \in BOOLEAN :
                 incident = [resolved |-> FALSE, takenBy |-> None, internal |-> FALSE, public |-> public]
            /\ collab = [u \in Users |-> None] /\ suggestion = [p \in Partners |-> None]
            /\ joined = {}
            /\ assignment = [r \in Rows |-> None] /\ byHand = {} /\ reports = {}
            /\ job = [t \in Threads |-> Idle]

-----------------------------------------------------------------------------
(* Permissions.                                                            *)

Takes(u, role) == collab[u] # None /\ collab[u].status = "accepted" /\ collab[u].role = role
Accepted(u) == collab[u] # None /\ collab[u].status = "accepted"
OwnerOrg == IF incident.takenBy = None THEN None ELSE OrgOf[incident.takenBy]
\* _is_internal_org_member, and the discussion's own copy of it.
IsInternalOrgMember(u) == incident.internal /\ OrgOf[u] = OwnerOrg
IsIncidentLeader(u) == u # Super => u = incident.takenBy \/ Takes(u, "leader")
\* A leader by collaboration alone may answer suggestions but make none.
IsIncidentLeaderOrContributor(u) ==
    u # Super => u = incident.takenBy \/ IsInternalOrgMember(u) \/ Takes(u, "contributor")

\* Once the incident is taken its owner manages the agents, and the reporter's
\* organisation; a public one that is free is open to all.
CanManageAssignment(u) ==
    u # Super => \/ OrgOf[u] \in {ReportedBy, OwnerOrg}
                 \/ incident.public /\ incident.takenBy = None
\* The validation of the agent's organisation looks at the reporter's first.
IncidentOrg == IF ReportedBy # None THEN ReportedBy ELSE OwnerOrg

-----------------------------------------------------------------------------
(* What requests read and decide.                                          *)

Begin(t, at, who, new) ==
    /\ job[t] = Idle
    /\ job' = [job EXCEPT ![t] = [at |-> at, who |-> who, new |-> new]]
    /\ UNCHANGED <<incident, collab, partnerVars, fieldVars>>

\* The form's checks are about the incident its body names; the row is of the URL's one.
SuggestPartner(t, u, p, role, sameBody) ==
    /\ IsIncidentLeaderOrContributor(u) /\ ~incident.resolved
    /\ sameBody => ~Accepted(p) /\ suggestion[p] = None
    /\ Begin(t, "suggest", p, role)

\* Nothing asks whether the incident is closed.
Pending(p) == suggestion[p] # None /\ suggestion[p].status = "pending"
\* Faulty variant: the suggestion is answered before the collaboration is written.
AcceptSuggestionFirst(t, u, p) ==
    /\ IsIncidentLeader(u) /\ Pending(p)
    /\ Begin(t, "accept", p, suggestion[p].role)
AcceptSuggestion(t, u, p) ==
    /\ IsIncidentLeader(u) /\ Pending(p)
    /\ Begin(t, "join", p, suggestion[p].role)
RejectSuggestion(t, u, p) ==
    IsIncidentLeader(u) /\ Pending(p) /\ Begin(t, "reject", p, suggestion[p].role)

\* Reading the discussion, or posting to it: members of the owner's organisation in
\* internal mode and the leader are admitted, whatever they were answered before.
\* Messages are not kept: no handler's guard looks at them.
Discuss(t, u) ==
    /\ ~Accepted(u)
    /\ IF incident.internal THEN IsInternalOrgMember(u) ELSE incident.takenBy = u
    /\ Begin(t, IF collab[u] = None THEN "create" ELSE "admit", u, None)

\* The serializer takes the status, the agent and the incident from the form.
Assigned(g, rows) == \E r \in rows : assignment[r] # None /\ assignment[r].agent = g
Valid(r, new) == /\ IncidentOrg # None => OrgOf[new.agent] = IncidentOrg
                 /\ ~Assigned(new.agent, Rows \ {r})
Manages(t, at, r, new) ==
    /\ job[t] = Idle /\ Valid(r, new)
    /\ job' = [job EXCEPT ![t] = [at |-> at, who |-> r, new |-> new]]
    /\ byHand' = IF new.status = "reported" /\ new # assignment[r] THEN byHand \cup {r}
                 ELSE IF at = "assign" THEN byHand \ {r} ELSE byHand
    /\ UNCHANGED <<incident, collab, partnerVars, assignment, reports>>
Unused(r) == assignment[r] = None /\ \A t \in Threads : job[t].who # r
AssignAgent(t, u, r, new) == CanManageAssignment(u) /\ Unused(r) /\ Manages(t, "assign", r, new)
\* The row of another incident, whose manager may name this one and need not manage it.
MoveAssignmentHere(t, r, new) == Unused(r) /\ Manages(t, "assign", r, new)
EditAssignment(t, u, r, new) ==
    CanManageAssignment(u) /\ assignment[r] # None /\ Manages(t, "edit", r, new)
\* The row is deleted, or moved to another incident.
WithdrawAgent(t, u, r) ==
    CanManageAssignment(u) /\ assignment[r] # None /\ Begin(t, "withdraw", r, None)

\* Faulty variant: the assignment is marked before the report is saved.
FileReportLast(t, g) == Assigned(g, Rows) /\ Begin(t, "mark", g, None)
\* The form leaves the incident out, so that the distance to it is not computed: where
\* the agent is decides nothing.
FileReport(t, g) == Assigned(g, Rows) /\ Begin(t, "report", g, None)

-----------------------------------------------------------------------------
(* The statements.                                                         *)

Goto(t, at) == job' = [job EXCEPT ![t].at = at]
End(t) == job' = [job EXCEPT ![t] = Idle]

\* The unique constraint.
Suggest(t) ==
    /\ At(t, "suggest") /\ End(t) /\ UNCHANGED incident /\ UNCHANGED <<collab, joined, fieldVars>>
    /\ suggestion' = IF suggestion[job[t].who] # None THEN suggestion
                     ELSE [suggestion EXCEPT ![job[t].who] = [role |-> job[t].new, status |-> "pending"]]
\* A row that is created when nobody leads the incident is deleted by the signal.
Created(u, c) == [collab EXCEPT ![u] = IF incident.takenBy = None THEN None ELSE c]
\* get_or_create: the partner's row is created with the role suggested, or read.
Brought(p, c) == joined' = joined \cup (IF collab'[p] = c \/ incident.takenBy = None THEN {p} ELSE {})
Join(t) ==
    LET p == job[t].who
        c == [role |-> job[t].new, status |-> "accepted"]
    IN  /\ At(t, "join") /\ UNCHANGED incident /\ UNCHANGED <<suggestion, fieldVars>>
        /\ \/ /\ collab[p] = None /\ Goto(t, "accept")
              /\ collab' = Created(p, c) /\ Brought(p, c)
           \/ collab[p] # None /\ Goto(t, "overwrite") /\ UNCHANGED <<collab, joined>>
\* The row that was read is saved, whatever it says, and inserted again if it was deleted; one
\* that was created in its place makes the unique constraint fail the request.
Overwrite(t) ==
    LET p == job[t].who
        c == [role |-> job[t].new, status |-> "accepted"]
    IN  /\ At(t, "overwrite") /\ UNCHANGED incident /\ UNCHANGED <<suggestion, fieldVars>>
        /\ \/ /\ collab' = IF collab[p] = None THEN Created(p, c) ELSE [collab EXCEPT ![p] = c]
              /\ Brought(p, c) /\ Goto(t, "accept")
           \/ collab[p] # None /\ End(t) /\ UNCHANGED <<collab, joined>>
AnswerSuggestion(t, answer) ==
    /\ End(t) /\ UNCHANGED incident /\ UNCHANGED <<collab, joined, fieldVars>>
    /\ suggestion' = [suggestion EXCEPT ![job[t].who] = [role |-> job[t].new, status |-> answer]]
Accept(t) == At(t, "accept") /\ AnswerSuggestion(t, "accepted")
Reject(t) == At(t, "reject") /\ AnswerSuggestion(t, "rejected")

\* get_or_create, and the save of a status that is not 'accepted'.
Admit(t) ==
    LET u == job[t].who
    IN  /\ At(t, "create") \/ At(t, "admit")
        /\ UNCHANGED incident /\ UNCHANGED <<partnerVars, fieldVars>>
        /\ IF collab[u] # None
           THEN collab' = [collab EXCEPT ![u].status = "accepted"] /\ End(t)
           ELSE IF At(t, "create")
                THEN collab' = Created(u, [role |-> "leader", status |-> "accepted"]) /\ End(t)
                ELSE UNCHANGED collab /\ End(t)
\* A manager's save of an assignment.  The second of two requests to assign the agent fails;
\* all the columns are saved, and the row inserted again if it was deleted.
SaveAssignment(t) ==
    LET r == job[t].who
        new == job[t].new
    IN  /\ End(t) /\ UNCHANGED incident /\ UNCHANGED <<collab, partnerVars, byHand, reports>>
        /\ \/ /\ job[t].at \in {"assign", "edit"}
              /\ assignment' = IF Assigned(new.agent, Rows \ {r}) THEN assignment
                               ELSE [assignment EXCEPT ![r] = new]
           \/ At(t, "withdraw") /\ assignment' = [assignment EXCEPT ![r] = None]
SaveReport(t) ==
    /\ At(t, "report") /\ Goto(t, "mark") /\ UNCHANGED incident /\ UNCHANGED <<collab, partnerVars, assignment, byHand>>
    /\ reports' = reports \cup {job[t].who}
\* Whatever the status is, a cancelled assignment included.
MarkReported(t) ==
    /\ At(t, "mark") /\ End(t) /\ UNCHANGED incident /\ UNCHANGED <<collab, partnerVars, byHand, reports>>
    /\ assignment' = [r \in Rows |-> IF assignment[r] # None /\ assignment[r].agent = job[t].who
                                     THEN [assignment[r] EXCEPT !.status = "reported"]
                                     ELSE assignment[r]]

ThreadDies(t) == job[t] # Idle /\ End(t) /\ UNCHANGED incident /\ UNCHANGED <<collab, partnerVars, fieldVars>>

-----------------------------------------------------------------------------
(* The rest of the system.                                                 *)

LifecycleElsewhere ==
    /\ incident' \in Incident
    /\ UNCHANGED <<collab, partnerVars, fieldVars, job>>
CollaborationElsewhere(u) ==
    /\ \E c \in Collab \cup {None} : collab' = [collab EXCEPT ![u] = c]
    /\ UNCHANGED <<incident, partnerVars, fieldVars, job>>
TogglePublic(u) ==
    /\ u # Super => OrgOf[u] = ReportedBy
    /\ incident' = [incident EXCEPT !.public = ~@]
    /\ UNCHANGED <<collab, partnerVars, fieldVars, job>>

Actors == Users \cup {Super}
Requests(t) ==
    \/ \E u \in Actors, p \in Partners :
         \/ \E role \in PartnerRoles, sameBody \in BOOLEAN :
              SuggestPartner(t, u, p, role, sameBody)
         \/ AcceptSuggestion(t, u, p) \/ RejectSuggestion(t, u, p)
    \/ \E u \in Users : Discuss(t, u)
    \/ \E r \in Rows :
         \/ \E u \in Actors :
              \/ \E g \in Agents, status \in FormStatuses :
                   AssignAgent(t, u, r, [agent |-> g, status |-> status])
              \/ \E g \in Agents, status \in Statuses :
                   EditAssignment(t, u, r, [agent |-> g, status |-> status])
              \/ WithdrawAgent(t, u, r)
         \/ \E new \in Assignment : MoveAssignmentHere(t, r, new)
    \/ \E g \in Agents : FileReport(t, g)
Statements(t) == \/ Suggest(t) \/ Join(t) \/ Overwrite(t) \/ Accept(t) \/ Reject(t) \/ Admit(t)
                 \/ SaveAssignment(t) \/ SaveReport(t) \/ MarkReported(t)

TeamNext == \/ \E t \in Threads : Requests(t) \/ Statements(t) \/ ThreadDies(t)
            \/ LifecycleElsewhere \/ \E u \in Users : CollaborationElsewhere(u)
            \/ \E u \in Actors : TogglePublic(u)
TeamSpec == TeamInit /\ [][TeamNext]_teamVars

-----------------------------------------------------------------------------
(* Properties.                                                             *)

TeamTypeOK == /\ incident \in Incident /\ collab \in [Users -> Collab \cup {None}]
              /\ suggestion \in [Partners -> Suggestion \cup {None}] /\ joined \subseteq Partners
              /\ assignment \in [Rows -> Assignment \cup {None}] /\ byHand \subseteq Rows
              /\ reports \subseteq Agents /\ job \in [Threads -> Job]

\* Wherever a request dies and whatever is written in between, a suggestion that says
\* 'accepted' has put its partner in the team with the role suggested (or nobody led the
\* incident any more, and the signal took the partner out again).
SuggestionJoins ==
    \A p \in Partners : suggestion[p] # None /\ suggestion[p].status = "accepted" => p \in joined

\* An assignment that says 'reported' is backed by a report of its agent, unless a manager's
\* form called it so, or gave it another agent or incident with that status; withdrawing the
\* agent, assigning again, late saves of what was read and dying requests included.
Backed(r, row) == row.status = "reported" => r \in byHand \/ row.agent \in reports
ReportedHasReport == \A r \in Rows : assignment[r] # None => Backed(r, assignment[r])
=============================================================================
