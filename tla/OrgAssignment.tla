----------------------------- MODULE OrgAssignment -----------------------------
(***************************************************************************)
(* A super admin assigns the incident to an organisation, whose admins have *)
(* 72 hours to accept or decline; an assignment nobody answered is accepted *)
(* tacitly by a beat task.  An acceptance engages the organisation on the   *)
(* incident.  Composed with the incident's own handlers and tasks.          *)
(*                                                                         *)
(* An organisation is the set of its admins.  A slot that runs one of these *)
(* handlers also holds the assignment it works for, in `on`.                *)
(***************************************************************************)
EXTENDS IncidentLifecycle

CONSTANTS
    Orgs,           \* the organisations, each the set of its admins
    Assignments     \* the rows of IncidentOrgAssignment the incident may come to have

ASSUME OrgsAssumption == Orgs \subseteq SUBSET Admins
ASSUME AssignmentsAssumption == None \notin Assignments

VARIABLES
    assignment,     \* the rows of IncidentOrgAssignment
    on              \* the row a slot's handler works for
orgVars == <<vars, assignment, on>>

\* "overdue" is 'pending' with the deadline behind it.
Unmade == [org |-> {}, status |-> "unmade"]
Assignment == {Unmade} \cup
    [org : Orgs, status : {"pending", "overdue", "accepted", "declined"}]
Pending(a) == assignment[a].status \in {"pending", "overdue"}

OrgInit == Init /\ assignment = [a \in Assignments |-> Unmade] /\ on = [s \in Slots |-> None]

\* What every step does to `on`: a slot that becomes idle works for no assignment.
Working(held) == on' = [s \in Slots |-> IF job'[s] = Idle THEN None ELSE held[s]]
Reads(s, a, op, u, snap) ==
    /\ Read(s, op, u, snap)
    /\ Working([on EXCEPT ![s] = a]) /\ UNCHANGED assignment
\* A save of the assignment the slot works for.
Reply(s, status, op) ==
    /\ assignment' = [assignment EXCEPT ![on[s]].status = status]
    /\ Goto(s, op) /\ Working(on) /\ UNCHANGED <<row, collab, submitted, overrides>>

-----------------------------------------------------------------------------
\* By a super admin, whatever the incident's status; one pending assignment at a time.
AssignToOrganisation(s, a) ==
    /\ assignment[a] = Unmade /\ \A t \in Slots : on[t] # a
    /\ ~ \E b \in Assignments : Pending(b)
    /\ Reads(s, a, "assign", NoUser, None)
AssignCreate(s, org) ==
    /\ At(s, "assign")
    /\ assignment' = [assignment EXCEPT ![on[s]] = [org |-> org, status |-> "pending"]]
    /\ Goto(s, "idle") /\ Working(on) /\ UNCHANGED <<row, collab, submitted, overrides>>

\* The deadline passes.
DeadlinePasses(a) ==
    /\ assignment[a].status = "pending"
    /\ assignment' = [assignment EXCEPT ![a].status = "overdue"]
    /\ UNCHANGED <<vars, on>>

AcceptAssignment(s, u, a) == u \in assignment[a].org /\ Pending(a) /\ Reads(s, a, "accept", u, Copy)
\* Faulty variant: an assignment can be declined after it was answered.
DeclineAnswered(s, u, a) == u \in assignment[a].org /\ Reads(s, a, "decline", u, None)
DeclineAssignment(s, u, a) == u \in assignment[a].org /\ Pending(a) /\ Reads(s, a, "decline", u, None)
\* Faulty variant: an incident someone has taken since is left out.
AutoAcceptFree(s, a) ==
    /\ assignment[a].status = "overdue" /\ row.etat = "declared"
    /\ Reads(s, a, "accept_tacitly", NoUser, Copy)
AutoAccept(s, a) == assignment[a].status = "overdue" /\ Reads(s, a, "accept_tacitly", NoUser, Copy)

\* Faulty variant: the incident's word for a refusal.
AnswerRejected(s) ==
    \/ At(s, "accept") /\ Reply(s, "accepted", "engage")
    \/ At(s, "accept_tacitly") /\ Reply(s, "accepted", "engage_tacitly")
    \/ At(s, "decline") /\ Reply(s, "rejected", "idle")
AnswerSave(s) ==
    \/ At(s, "accept") /\ Reply(s, "accepted", "engage")
    \/ At(s, "accept_tacitly") /\ Reply(s, "accepted", "engage_tacitly")
    \/ At(s, "decline") /\ Reply(s, "declined", "idle")

\* The incident read with the assignment is engaged if it was free: by the admin who
\* accepts, or tacitly by one of the organisation's admins, if it has any; the tacit
\* engagement does not name the warnings.  Neither touches the mode.
\* Faulty variant: the acceptance says who leads, not that the incident is taken.
EngageKeepsStatus(s) ==
    LET free == job[s].snap.etat = "declared" IN
    /\ \/ At(s, "engage") /\ Save(s, IF free THEN [row EXCEPT !.takenBy = job[s].user] ELSE row, "idle")
       \/ /\ At(s, "engage_tacitly")
          /\ \E u \in Users \cup {NoUser} :
               /\ IF assignment[on[s]].org = {} THEN u = NoUser ELSE u \in assignment[on[s]].org
               /\ Save(s, IF free THEN [row EXCEPT !.takenBy = u] ELSE row, "idle")
    /\ Working(on) /\ UNCHANGED assignment
Engage(s) ==
    LET free == job[s].snap.etat = "declared" IN
    /\ \/ At(s, "engage")
          /\ Save(s, IF free THEN TakenNow(row, job[s].user, row.mode) ELSE row, "idle")
       \/ /\ At(s, "engage_tacitly")
          /\ \E u \in Users \cup {NoUser} :
               /\ IF assignment[on[s]].org = {} THEN u = NoUser ELSE u \in assignment[on[s]].org
               /\ Save(s, IF free
                          THEN [row EXCEPT !.etat = "taken_into_account", !.takenBy = u, !.age = 0]
                          ELSE row, "idle")
    /\ Working(on) /\ UNCHANGED assignment

-----------------------------------------------------------------------------
OrgRequests(s) == \E a \in Assignments :
    \/ AssignToOrganisation(s, a)
    \/ \E u \in Admins : AcceptAssignment(s, u, a) \/ DeclineAssignment(s, u, a)
OrgSteps(s) == (\E org \in Orgs : AssignCreate(s, org)) \/ AnswerSave(s) \/ Engage(s)

OrgNext == \/ Next /\ Working(on) /\ UNCHANGED assignment
           \/ \E s \in Web : OrgRequests(s)
           \/ \E s \in Workers, a \in Assignments : AutoAccept(s, a)
           \/ \E s \in Slots : OrgSteps(s)
           \/ \E a \in Assignments : DeadlinePasses(a)

OrgSpec == OrgInit /\ [][OrgNext]_orgVars

\* On top of the incident's handlers coming to an end: the deadline comes, beat sends the
\* task every hour, and the worker does not for ever die before its first save.
OrgFairness ==
    /\ \A a \in Assignments : WF_orgVars(DeadlinePasses(a))
    /\ \A a \in Assignments : SF_orgVars(\E s \in Workers : AutoAccept(s, a))
    /\ \A s \in Workers : SF_orgVars(AnswerSave(s))
    /\ \A s \in Slots : WF_orgVars(OrgSteps(s) \/ (Crash(s) /\ Working(on) /\ UNCHANGED assignment))
OrgFairSpec == OrgSpec /\ HandlersEnd /\ OrgFairness

-----------------------------------------------------------------------------
(* Properties.                                                             *)

OrgTypeOK == /\ assignment \in [Assignments -> Assignment]
             /\ on \in [Slots -> Assignments \cup {None}]

\* When handlers do not overlap, an answer, given or tacit, is final.
AnswerStands ==
    [][\A a \in Assignments : assignment[a].status \in {"accepted", "declined"}
                              => assignment'[a] = assignment[a]]_orgVars

\* When handlers do not overlap, an acceptance that is not cut short leaves the
\* incident taken, and led by the accepting organisation if it was free.
AcceptanceEngages ==
    [][\A s \in Slots : Engage(s) =>
         LET org == assignment[on[s]].org IN
         /\ row'.etat # "declared"
         /\ row.etat = "declared" /\ org # {} => row'.takenBy \in org]_orgVars

\* No assignment waits for ever: an organisation that does not answer has accepted.
AssignmentAnswered == \A a \in Assignments : Pending(a) ~> ~Pending(a)

=============================================================================
