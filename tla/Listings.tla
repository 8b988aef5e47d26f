-------------------------------- MODULE Listings --------------------------------
(***************************************************************************)
(* What the application tells of its incidents: the lists each user is given, *)
(* a page at a time, and the figures of the dashboards.                      *)
(*                                                                         *)
(* Nothing here writes an incident.  The handlers of the other modules do, at *)
(* any time and between any two queries of a request; they are left free to   *)
(* make any row any other one.                                              *)
(***************************************************************************)
EXTENDS Naturals, FiniteSets

CONSTANTS Incidents,    \* numbered in the order of their creation
          Members,      \* the members of organisations
          Others,       \* the users without one: citizens, super admins
          SuperAdmins,  \* among the others
          Orgs,         \* organisations
          OrgOf,        \* the organisation of each user
          Readers,      \* the users who open lists (a bound of the model)
          Movable,      \* members whose role changes (a bound of the model)
          FirstRows,    \* the rows of the first incident (a bound of the model)
          Rows,         \* the rows handlers leave an incident with (a bound of the model)
          PageSize,     \* the size of a page
          None          \* no row, SQL NULL, no organisation

Viewers == Members \cup Others
ASSUME PeopleAssumption == /\ SuperAdmins \subseteq Others /\ Readers \subseteq Viewers /\ Movable \subseteq Members
                           /\ OrgOf \in [Viewers -> Orgs \cup {None}]
                           /\ \A v \in Viewers : OrgOf[v] = None <=> v \in Others
                           /\ Members \cap Others = {} /\ None \notin Orgs
ASSUME PageAssumption == PageSize \in Nat \ {0} /\ Incidents \subseteq Nat /\ IsFiniteSet(Incidents)

VARIABLES row,          \* the incidents
          role,         \* the roles of the members in their organisations
          pager         \* a user who goes through the pages of a list

listVars == <<row, role, pager>>

Etats == {"declared", "in_progress", "taken_into_account", "resolution_prepared",
          "in_validation", "resolved", "resolved_definitive"}
\* PUT gives an incident any status and any leader, one without organisation too.
Row == [etat : Etats, deleted : BOOLEAN, leader : Viewers \cup {None},
        mode : {None, "internal", "collaborative"}, reporter : Viewers,
        assigned : SUBSET Orgs,         \* organisations that accepted an assignment
        collab : [Members -> {None, "pending", "accepted", "declined"}],
        agents : SUBSET Members,        \* agents sent to the place
        acted : BOOLEAN,                \* a task is done
        analysed : BOOLEAN]             \* the prediction is complete
Roles == {"org_admin", "bureau_agent", "field_agent"}
ASSUME RowsAssumption == None \notin Row /\ FirstRows \cup Rows \subseteq Row

Stored == {i \in Incidents : row[i] # None}
Live == {i \in Stored : ~row[i].deleted}
FieldAgents == {u \in Members : role[u] = "field_agent"}
Led(i) == row[i].leader # None
LeaderOrg(i) == IF Led(i) THEN OrgOf[row[i].leader] ELSE None

-----------------------------------------------------------------------------
(* The lists.                                                              *)

ResolvedEtats == {"resolved", "resolved_definitive"}

\* "tout utilisateur authentifié voit l'ensemble des incidents", the trash excepted.
VisibleIncidents == Live

InternalTo(org) == {i \in Stored : row[i].mode = "internal" /\ LeaderOrg(i) = org}
ReportedByAgentsOf(org) ==
    {i \in Stored : row[i].reporter \in FieldAgents /\ OrgOf[row[i].reporter] = org}
\* What the public lists leave out for v.
\* Faulty variant: the reports of the agents are forgotten.
OrgOwnWorkInternal(v) == IF OrgOf[v] = None THEN {} ELSE InternalTo(OrgOf[v])
OrgOwnWork(v) ==
    IF OrgOf[v] = None THEN {} ELSE InternalTo(OrgOf[v]) \cup ReportedByAgentsOf(OrgOf[v])

OrgIncidents(v, source) ==
    LET org == OrgOf[v]
        filtered == CASE source = "internal" -> InternalTo(org)
                      [] source = "agents"   -> ReportedByAgentsOf(org)
                      [] source = "citizens" -> InternalTo(org) \ ReportedByAgentsOf(org)
                      [] OTHER               -> InternalTo(org) \cup ReportedByAgentsOf(org)
    IN  IF org = None THEN {} ELSE filtered \cap Live
IncidentResolved(v) == {i \in Live : row[i].etat \in ResolvedEtats} \ OrgOwnWork(v)
IncidentNotResolved(v) == {i \in Live : row[i].etat \notin ResolvedEtats} \ OrgOwnWork(v)

Partners(i) == {u \in Members : row[i].collab[u] = "accepted"}
\* org_acting_q, which /my-interventions/ and the map of the dashboard share.
\* Faulty variant: accepted assignments are forgotten.
OrgActingUnassigned(v) ==
    {i \in Stored : \/ row[i].leader = v \/ v \in row[i].agents
                    \/ /\ OrgOf[v] # None
                       /\ \/ LeaderOrg(i) = OrgOf[v]
                          \/ \E u \in Partners(i) : OrgOf[u] = OrgOf[v]}
OrgActing(v) ==
    {i \in Stored : \/ row[i].leader = v \/ v \in row[i].agents
                    \/ /\ OrgOf[v] # None
                       /\ \/ LeaderOrg(i) = OrgOf[v]
                          \/ OrgOf[v] \in row[i].assigned
                          \/ \E u \in Partners(i) : OrgOf[u] = OrgOf[v]}
MyInterventions(v) == OrgActing(v) \cap Live

\* The badges of an incident: each organisation with its strongest relation to it.
ActingOrganisations(i) ==
    LET leader == {LeaderOrg(i)} \ {None}
        assigned == row[i].assigned \ leader
        partners == {OrgOf[u] : u \in Partners(i)} \ (leader \cup assigned)
    IN  [leader |-> leader, assigned |-> assigned, collaborator |-> partners]

\* The map of the dashboard.  Nothing filters the trash, and what is in validation
\* counts as resolved.
IncidentFilter(v, scope) ==
    LET resolved == {i \in Stored : row[i].etat \in ResolvedEtats \cup {"in_validation"}}
    IN  CASE scope = "mine"       -> OrgActing(v)
          [] scope = "resolved"   -> resolved
          [] scope = "unresolved" -> Stored \ resolved
          [] OTHER                -> Stored

\* Collaborations, as pairs of an incident and a user; those of the trash are not left out.
Collaborations == {c \in Stored \X Members : row[c[1]].collab[c[2]] # None}
StatusOf(c) == row[c[1]].collab[c[2]]
CollaborationScope(v, scope) ==
    LET own == {c \in Collaborations : c[2] = v}
        received == {c \in Collaborations : row[c[1]].leader = v} \ own
    IN  CASE v \in SuperAdmins   -> Collaborations
          [] scope = "self"      -> own
          [] scope = "received"  -> received
          [] OTHER               -> own \cup received
\* Those that v may open: administrators and office agents, those of the organisation.
\* Faulty variant: who asked is looked at, who leads is not.
VisibleOfRequester(v) ==
    IF v \in SuperAdmins THEN Collaborations
    ELSE {c \in Collaborations :
            v = c[2] \/ (v \in Members \ FieldAgents /\ OrgOf[v] = OrgOf[c[2]])}
CollaborationVisible(v) ==
    IF v \in SuperAdmins THEN Collaborations
    ELSE {c \in Collaborations :
            \/ v \in {c[2], row[c[1]].leader}
            \/ v \in Members \ FieldAgents /\ OrgOf[v] \in {OrgOf[c[2]], LeaderOrg(c[1])}}
CollaborationList(v, scope, status) == {c \in CollaborationScope(v, scope) : StatusOf(c) = status}
\* The tabs of the dashboard.
CollaborationDashboard(v, scope, tab) ==
    LET accepted == {c \in CollaborationScope(v, scope) : StatusOf(c) = "accepted"}
        closed == {c \in accepted : row[c[1]].etat = "resolved"}
    IN  CASE tab = "completed"   -> closed
          [] tab = "in-progress" -> accepted \ closed
          [] OTHER               -> CollaborationList(v, scope, tab)
\* The badge of an incident in a list: the best status a member of v's organisation has.
MyCollaboration(i, v) ==
    LET has == {row[i].collab[u] : u \in {m \in Members : OrgOf[m] = OrgOf[v]}}
    IN  CASE "accepted" \in has -> "accepted"
          [] "pending" \in has  -> "pending"
          [] "declined" \in has -> "declined"
          [] OTHER              -> None

Lists == {"all", "resolved", "not_resolved", "organisation"}
Listed(list, v) == CASE list = "all"          -> VisibleIncidents
                     [] list = "resolved"     -> IncidentResolved(v)
                     [] list = "not_resolved" -> IncidentNotResolved(v)
                     [] OTHER                 -> OrgIncidents(v, "agents_or_internal")

-----------------------------------------------------------------------------
(* The figures, as the sets of incidents they count.                       *)

DashboardResolved == {i \in Live : row[i].etat \in ResolvedEtats}
\* Faulty variant: what is in validation is forgotten.
ActiveBeforeValidation ==
    {i \in Live : row[i].etat \in {"taken_into_account", "resolution_prepared", "in_progress"}}
DashboardActive ==
    {i \in Live : row[i].etat \in {"taken_into_account", "resolution_prepared",
                                   "in_validation", "in_progress"}}
\* organisations/stats/: the incidents that organisations have taken.
IncidentsTaken == {i \in Live : LeaderOrg(i) # None}

\* Who is given the impact of an organisation, or of all of them (None).
ImpactRole(v, org) == IF v \in SuperAdmins THEN org = None
                      ELSE v \in Members \ FieldAgents /\ org = OrgOf[v]
ImpactBase(org) == {i \in Live : org # None => LeaderOrg(i) = org}
ImpactScope(org, status) ==
    LET resolved == {i \in ImpactBase(org) : row[i].etat \in ResolvedEtats}
        takenAction == {i \in ImpactBase(org) : row[i].etat \notin ResolvedEtats /\ Led(i) /\ row[i].acted}
    IN  CASE status = "resolved"     -> resolved
          [] status = "taken_action" -> takenAction
          [] OTHER                   -> resolved \cup takenAction
\* The page behind the figures, for whoever may see some.
ImpactIncidents(v, status) ==
    UNION {ImpactScope(org, status) : org \in {o \in Orgs \cup {None} : ImpactRole(v, o)}}
\* What the impact adds up or counts: the incidents with a complete analysis, the
\* organisations involved, and the reports that led to action.
WithPrediction(org, status) == {i \in ImpactScope(org, status) : row[i].analysed}
OrganisationsInvolved(status) ==
    ({LeaderOrg(i) : i \in ImpactScope(None, status)} \ {None})
      \cup UNION {{OrgOf[u] : u \in Partners(i)} : i \in ImpactScope(None, status)}
LedToAction == {i \in ImpactBase(None) : row[i].acted}
ReportsVerified == {i \in ImpactBase(None) : row[i].etat # "declared"}

\* The members' figures: everybody's for a super admin, an organisation's for its members.
AgentList(v) == {u \in Members : v \in SuperAdmins \/ OrgOf[u] = OrgOf[v]}
\* The members of an organisation, for its administrators and office agents, and for super
\* admins, which create_superuser makes staff.
MemberList(v, org) ==
    IF v \in SuperAdmins \/ (v \in Members \ FieldAgents /\ OrgOf[v] = org)
    THEN {u \in Members : OrgOf[u] = org} ELSE {}
AgentStats(v) == [r \in Roles |-> {u \in AgentList(v) : role[u] = r}]

-----------------------------------------------------------------------------
(* Going through the pages of a list, the newest incidents first.          *)

NoPages == [at |-> "idle", list |-> "all", viewer |-> None, page |-> 0, count |-> 0,
         seen |-> {}, owed |-> {}]

ListInit == /\ \E r \in FirstRows : row = [i \in Incidents |-> IF i = 1 THEN r ELSE None]
            /\ role = [u \in Members |-> IF u \in Movable THEN "field_agent" ELSE "bureau_agent"]
            /\ pager = NoPages

OpenList(v, list) ==
    /\ pager.at = "idle"
    /\ pager' = [NoPages EXCEPT !.at = "count", !.list = list, !.viewer = v, !.page = 1,
                             !.owed = Listed(list, v)]
    /\ UNCHANGED <<row, role>>

Current == Listed(pager.list, pager.viewer)
\* A page is two queries: how many there are, and the rows of the page among them.  The
\* first page may be empty; another one that does not exist is answered with 404.
CountPage ==
    /\ pager.at = "count"
    /\ LET count == Cardinality(Current) IN
       pager' = [pager EXCEPT !.count = count,
                   !.at = IF pager.page = 1 \/ (pager.page - 1) * PageSize < count THEN "rows" ELSE "done"]
    /\ UNCHANGED <<row, role>>
Newer(i) == {j \in Current : j > i}
\* Faulty variant: pages are numbered from 0.
PageRowsFromZero(page, upTo) ==
    {i \in Current : page * PageSize <= Cardinality(Newer(i)) /\ Cardinality(Newer(i)) < upTo}
PageRows(page, upTo) ==
    {i \in Current : (page - 1) * PageSize <= Cardinality(Newer(i)) /\ Cardinality(Newer(i)) < upTo}
IsLast == pager.count <= pager.page * PageSize
ReadPage ==
    /\ pager.at = "rows"
    /\ LET upTo == IF IsLast THEN pager.count ELSE pager.page * PageSize IN
       pager' = [pager EXCEPT !.seen = @ \cup PageRows(pager.page, upTo),
                              !.at = IF IsLast THEN "done" ELSE "count",
                              !.page = IF IsLast THEN @ ELSE @ + 1]
    /\ UNCHANGED <<row, role>>
CloseList == pager.at # "idle" /\ pager' = NoPages /\ UNCHANGED <<row, role>>

\* A write, which the user may see: an incident that leaves the list draws the next
\* ones to pages that have been read, and one that enters it between the two queries of
\* the last page pushes the oldest out of it: then nothing is owed any more.
Seen ==
    \/ pager.at = "idle" /\ UNCHANGED pager
    \/ /\ pager.at # "idle"
       /\ \E list \in Lists, v \in Readers :
            /\ list = pager.list /\ v = pager.viewer
            /\ LET left == Current \ Listed(list, v)'
                   came == Listed(list, v)' \ Current
                   excused == left # {} \/ (pager.at = "rows" /\ IsLast /\ came # {})
               IN  pager' = [pager EXCEPT !.owed = IF excused THEN {} ELSE @]

Declare(i, r) ==
    /\ \A j \in Incidents : (j >= i /\ row[j] = None) \/ j < i
    /\ r.etat = "declared" /\ ~r.deleted
    /\ row' = [row EXCEPT ![i] = r] /\ UNCHANGED role /\ Seen
Elsewhere(i, r) ==
    /\ \E j \in Incidents : j >= i /\ row[j] # None
    /\ row' = [row EXCEPT ![i] = r] /\ UNCHANGED role /\ Seen
ChangeRole(p, new) ==
    /\ role' = [role EXCEPT ![p] = new]
    /\ UNCHANGED row /\ Seen

ListNext == \/ \E v \in Readers, list \in Lists : OpenList(v, list)
            \/ CountPage \/ ReadPage \/ CloseList
            \/ \E i \in Incidents, r \in Rows \cup {None} : (r # None /\ Declare(i, r)) \/ Elsewhere(i, r)
            \/ \E p \in Movable, new \in Roles : ChangeRole(p, new)
ListSpec == ListInit /\ [][ListNext]_listVars

-----------------------------------------------------------------------------
(* Properties.                                                             *)

\* Whoever looks, an incident out of the trash is in exactly one of the lists "résolus",
\* "non résolus" and "mes incidents" of the organisation, whose four sources agree.
ListedOnce ==
    \A v \in Viewers :
      /\ \A i \in Live : Cardinality({l \in Lists \ {"all"} : i \in Listed(l, v)}) = 1
      /\ Listed("organisation", v) =
           OrgIncidents(v, "agents") \cup OrgIncidents(v, "internal")
      /\ OrgIncidents(v, "citizens") \cap OrgIncidents(v, "agents") = {}

\* What a user finds among his interventions, on the map too, is what his organisation is
\* said to act upon, or what he leads or was sent to himself: two translations of the
\* same rule, in a query and in a loop, agree.
MineAgrees ==
    \A v \in Viewers :
      /\ MyInterventions(v) = IncidentFilter(v, "mine") \cap Live
      /\ \A i \in Live :
           LET badges == ActingOrganisations(i)
           IN  i \in MyInterventions(v) <=>
                 \/ row[i].leader = v \/ v \in row[i].agents
                 \/ OrgOf[v] \in badges.leader \cup badges.assigned \cup badges.collaborator

\* What is listed of the collaborations can be opened: the lists and the tabs of the
\* dashboard, and for an administrator or an office agent the badges of the incidents; the
\* tabs share out what was accepted.
CollaborationsOpen ==
    \A v \in Viewers :
      /\ \A scope \in {"self", "received", "all"} :
           /\ CollaborationScope(v, scope) \subseteq CollaborationVisible(v)
           /\ CollaborationDashboard(v, scope, "in-progress")
                \cup CollaborationDashboard(v, scope, "completed")
                = CollaborationList(v, scope, "accepted")
      /\ v \in Members \ FieldAgents =>
           \A i \in Stored :
             /\ MyCollaboration(i, v) # None =>
                  \E c \in CollaborationVisible(v) : c[1] = i /\ StatusOf(c) = MyCollaboration(i, v)
             /\ row[i].leader = v => \A c \in Collaborations : c[1] = i => c \in CollaborationVisible(v)

\* The figures of the dashboards add up: every incident out of the trash is declared,
\* active or resolved; the impacts of the organisations share out incidents they took and
\* never exceed the platform's; what it counts is a verified report, unless the incident
\* was put back to declared under a leader who had acted (PUT allows it);
\* the members listed by organisation are the agents that are counted.
FiguresAddUp ==
    /\ {i \in Live : row[i].etat = "declared"} = Live \ (DashboardActive \cup DashboardResolved)
    /\ DashboardActive \cap DashboardResolved = {}
    /\ \A v \in Viewers, org \in Orgs \cup {None} : ImpactRole(v, org) =>
         /\ ImpactScope(org, "all") \subseteq ImpactScope(None, "all")
         /\ \A i \in ImpactScope(org, "all") \ ReportsVerified : i \in LedToAction /\ Led(i)
         /\ ImpactScope(org, "resolved") \cap ImpactScope(org, "taken_action") = {}
         /\ org # None => ImpactScope(org, "all") \subseteq IncidentsTaken
         /\ ImpactIncidents(v, "all") = ImpactScope(org, "all")
    /\ \A status \in {"resolved", "taken_action", "all"} :
         /\ \A i \in ImpactScope(None, status) : \A o \in {LeaderOrg(i)} \ {None} :
              o \in OrganisationsInvolved(status) /\ i \in ImpactScope(o, status)
         /\ UNION {WithPrediction(o, status) : o \in Orgs} \subseteq WithPrediction(None, status)
    /\ ImpactScope(None, "taken_action") \subseteq LedToAction
    /\ \A v \in Viewers :
         /\ AgentList(v) = UNION {AgentStats(v)[r] : r \in Roles}
         /\ v \in SuperAdmins \cup (Members \ FieldAgents) =>
              AgentList(v) = UNION {MemberList(v, org) : org \in Orgs}

\* Going through all the pages of a list shows every incident that was in it at the
\* start, whatever was declared meanwhile, unless one left the list or came
\* between the two queries of the last page.
PagesSkipNothing == pager.at = "done" => pager.owed \subseteq pager.seen
=============================================================================
