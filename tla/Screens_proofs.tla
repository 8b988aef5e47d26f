----------------------------- MODULE Screens_proofs -----------------------------
(***************************************************************************)
(* What users look at, and what callers are told, for any number of          *)
(* incidents, users, organisations, writers, messages, threads and zones: the  *)
(* lists and the figures agree with each other, going through their pages, or  *)
(* through those of a conversation, skips nothing, and a call reports what its *)
(* caller chose.                                                           *)
(***************************************************************************)
EXTENDS Screens, IvrCall, FiniteSetTheorems, TLAPS

-----------------------------------------------------------------------------
(* The conversation.  The cursor divides it: what has been shown is the      *)
(* cursor or newer, and what is owed and was not shown is older.  Reading a   *)
(* page moves the line; nothing that is written or erased crosses it, because *)
(* the order of the pages never changes for two given messages.              *)

\* Identifiers tell messages apart, so that the order is total.
Distinct(S) == \A m, n \in S : m.id = n.id => m = n
\* The cursor divides what is shown from what is still owed.
Divides ==
    phase \in {"more", "found"} =>
      /\ cursor \in shown
      /\ \A m \in owed : m \in shown \/ Older(m, cursor)
      /\ \A m \in shown : m = cursor \/ Older(cursor, m)
ConvInv ==
    /\ clock \in 0 .. MaxDate
    /\ sent \subseteq Message /\ IsFiniteSet(sent) /\ Distinct(sent)
    /\ messages \subseteq sent /\ storing \in [Writers -> sent \cup {NoMessage}]
    /\ shown \subseteq sent /\ owed \subseteq messages
    /\ phase = "closed" => shown = {}
    /\ Divides /\ HistoryWhole

-----------------------------------------------------------------------------
(* The order of the pages.                                                 *)

LEMMA Order ==
    ASSUME NEW S \in SUBSET Message, Distinct(S), NEW m \in S, NEW n \in S, NEW o \in S
    PROVE  /\ m = n \/ Older(m, n) \/ Older(n, m)
           /\ ~Older(m, m)
           /\ Older(m, n) => ~Older(n, m)
           /\ Older(m, n) /\ Older(n, o) => Older(m, o)
<1>1. ASSUME NEW x \in Message PROVE x.at \in Nat /\ x.id \in Nat
  <2>1. x.at \in 0 .. MaxDate /\ x.id \in Ids BY DEF Message
  <2>2. MaxDate \in Nat BY LimitsAssumption
  <2>3. x.at \in Nat BY <2>1, <2>2
  <2>4. x.id \in Nat BY <2>1, IdsAssumption
  <2> QED BY <2>3, <2>4
<1>2. m.id = n.id => m = n BY DEF Distinct
<1> QED BY <1>1, <1>2 DEF Older

LEMMA LimitIsNat == ASSUME NEW limit \in Limits PROVE Clamped(limit) \in Nat
BY LimitsAssumption DEF Clamped

\* A page of everything.
LEMMA LastPage ==
    ASSUME NEW S \in SUBSET Message, IsFiniteSet(S), Distinct(S), NEW n \in Nat, ~(Cardinality(S) > n)
    PROVE  Newest(S, n) = S
<1> SUFFICES ASSUME NEW m \in S PROVE Cardinality({o \in S : Older(m, o)}) < n BY DEF Newest
<1> DEFINE newer == {o \in S : Older(m, o)}
<1>1. newer \subseteq S \ {m} BY Order
<1>2. IsFiniteSet(S \ {m}) /\ Cardinality(S \ {m}) = Cardinality(S) - 1
  BY FS_RemoveElement
<1>3. Cardinality(newer) <= Cardinality(S \ {m}) /\ Cardinality(newer) \in Nat
  BY <1>1, <1>2, FS_Subset, FS_CardinalityType
<1>4. Cardinality(S) \in Nat BY FS_CardinalityType
<1> QED BY <1>2, <1>3, <1>4

\* What a page leaves out is older than all of it.
LEMMA PageDivides ==
    ASSUME NEW S \in SUBSET Message, IsFiniteSet(S), Distinct(S), NEW n \in Nat,
           NEW c \in Newest(S, n), NEW m \in S, m \notin Newest(S, n)
    PROVE  Older(m, c)
<1> DEFINE newer(x) == {o \in S : Older(x, o)}
<1>1. c \in S /\ Cardinality(newer(c)) < n /\ ~(Cardinality(newer(m)) < n) BY DEF Newest
<1>2. IsFiniteSet(newer(c)) /\ IsFiniteSet(newer(m))
  <2>1. newer(c) \subseteq S /\ newer(m) \subseteq S OBVIOUS
  <2> QED BY <2>1, FS_Subset
<1>3. Cardinality(newer(c)) \in Nat /\ Cardinality(newer(m)) \in Nat BY <1>2, FS_CardinalityType
<1>4. ASSUME Older(c, m) PROVE FALSE
  <2>1. newer(m) \subseteq newer(c) BY <1>1, <1>4, Order
  <2>2. Cardinality(newer(m)) <= Cardinality(newer(c)) BY <1>2, <2>1, FS_Subset
  <2> QED BY <1>1, <1>3, <2>2
<1>5. m # c OBVIOUS
<1> QED BY <1>1, <1>4, <1>5, Order

-----------------------------------------------------------------------------
(* Reading.                                                                *)

\* The next line, when a page is delivered of S, all that is older than the line so far.
LEMMA DeliverInv ==
    ASSUME ConvInv, NEW S \in SUBSET messages, NEW n \in Nat, Deliver(S, n),
           owed' \subseteq messages, \A m \in owed' : m \in shown \/ m \in S,
           \A m \in shown : \A o \in S : Older(o, m)
    PROVE  ConvInv'
<1> DEFINE page == Newest(S, n)
<1>1. page \subseteq S BY DEF Newest
<1>2. /\ shown' = shown \cup page /\ repeated' = (repeated \/ page \cap shown # {})
      /\ UNCHANGED <<clock, sent, messages, storing>>
  BY DEF Deliver, writerVars
<1>3. S \in SUBSET Message /\ IsFiniteSet(S) /\ Distinct(S) /\ Distinct(sent) /\ S \subseteq sent
  <2>1. S \subseteq sent /\ sent \subseteq Message BY DEF ConvInv
  <2>2. IsFiniteSet(S) BY <2>1, FS_Subset DEF ConvInv
  <2> QED BY <2>1, <2>2 DEF ConvInv, Distinct
<1>4. page \cap shown = {} BY <1>1, <1>3, Order
<1>5. ~repeated' BY <1>2, <1>4 DEF ConvInv, HistoryWhole
<1> HIDE DEF page
<1>6. CASE Cardinality(S) > n
  <2>1. PICK c \in page : OldestOf(c, page) /\ cursor' = c /\ phase' = "more"
    BY <1>6 DEF Deliver, page
  <2>2. \A m \in S : m \in page \/ Older(m, c) BY <1>3, <2>1, PageDivides DEF page
  <2>3. \A m \in page : m = c \/ Older(c, m) BY <2>1 DEF OldestOf
  <2>4. \A m \in shown : Older(c, m) BY <1>1, <2>1
  <2>5. Divides' BY <1>2, <2>1, <2>2, <2>3, <2>4 DEF Divides
  <2>6. HistoryWhole' BY <1>5, <2>1 DEF HistoryWhole
  <2> QED BY <1>1, <1>2, <1>3, <2>1, <2>5, <2>6 DEF ConvInv
<1>7. CASE ~(Cardinality(S) > n)
  <2>1. page = S BY <1>3, <1>7, LastPage DEF page
  <2>2. phase' = "done" BY <1>7 DEF Deliver
  <2>3. owed' \subseteq shown' BY <1>2, <2>1
  <2>4. Divides' BY <2>2 DEF Divides
  <2>5. HistoryWhole' BY <1>5, <2>3 DEF HistoryWhole
  <2> QED BY <1>1, <1>2, <1>3, <2>2, <2>4, <2>5 DEF ConvInv
<1> QED BY <1>6, <1>7

LEMMA ReadingInv == ASSUME ConvInv, Reading PROVE ConvInv'
<1>1. ASSUME NEW limit \in Limits, Open(limit) PROVE ConvInv'
  <2>1. shown = {} /\ owed' = messages /\ Deliver(messages, Clamped(limit))
    BY <1>1 DEF Open, ConvInv
  <2>2. Clamped(limit) \in Nat BY LimitIsNat
  <2> QED BY <2>1, <2>2, DeliverInv
<1>2. ASSUME NEW limit \in Limits, OpenOlder(limit) PROVE ConvInv'
  <2>1. phase = "found" /\ owed' = owed /\ Deliver(Before, Clamped(limit)) BY <1>2 DEF OpenOlder
  <2>2. Clamped(limit) \in Nat BY LimitIsNat
  <2>3. Before \in SUBSET messages BY DEF Before
  <2>4. \A m \in owed : m \in shown \/ m \in Before
    BY <2>1 DEF ConvInv, Divides, Before
  <2>5. ASSUME NEW m \in shown, NEW o \in Before PROVE Older(o, m)
    <3>1. Older(o, cursor) /\ (m = cursor \/ Older(cursor, m)) /\ cursor \in shown
      BY <2>1 DEF ConvInv, Divides, Before
    <3>2. sent \in SUBSET Message /\ Distinct(sent) /\ o \in sent /\ m \in sent /\ cursor \in sent
      BY <2>3, <3>1 DEF ConvInv
    <3> QED BY <3>1, <3>2, Order
  <2>6. owed \subseteq messages BY DEF ConvInv
  <2> QED BY <2>1, <2>2, <2>3, <2>4, <2>5, <2>6, DeliverInv
<1>3. CASE OpenWhole
  BY <1>3 DEF OpenWhole, writerVars, ConvInv, Divides, HistoryWhole
<1>4. CASE FindCursor
  BY <1>4 DEF FindCursor, writerVars, ConvInv, Divides, HistoryWhole
<1>5. CASE Close
  BY <1>5 DEF Close, writerVars, ConvInv, Divides, HistoryWhole
<1> QED BY <1>1, <1>2, <1>3, <1>4, <1>5 DEF Reading

-----------------------------------------------------------------------------
(* Writing.                                                                *)

LEMMA WritingInv == ASSUME ConvInv, Writing PROVE ConvInv'
<1>1. ASSUME NEW t \in Writers, NEW id \in Ids, NEW p \in People, Send(t, id, p) PROVE ConvInv'
  <2>1. PICK m : m = [at |-> clock, id |-> id, by |-> p] OBVIOUS
  <2>2. /\ sent' = sent \cup {m} /\ storing' = [storing EXCEPT ![t] = m]
        /\ \A n \in sent : n.id # id
        /\ UNCHANGED <<clock, messages, phase, cursor, shown, repeated, owed>>
    BY <1>1, <2>1 DEF Send, readerVars
  <2>3. m \in Message /\ m.id = id BY <2>1 DEF Message, ConvInv
  <2>4. IsFiniteSet(sent') BY <2>2, FS_AddElement DEF ConvInv
  <2>5. Distinct(sent') BY <2>2, <2>3 DEF Distinct, ConvInv
  <2> QED BY <2>2, <2>3, <2>4, <2>5 DEF ConvInv, Divides, HistoryWhole
<1>2. ASSUME NEW t \in Writers, Store(t) \/ WriterDies(t) PROVE ConvInv'
  <2>1. storing[t] \in sent BY <1>2 DEF Store, WriterDies, ConvInv
  <2>2. /\ storing' = [storing EXCEPT ![t] = NoMessage]
        /\ messages' \in {messages, messages \cup {storing[t]}}
        /\ UNCHANGED <<clock, sent, phase, cursor, shown, repeated, owed>>
    BY <1>2 DEF Store, WriterDies, readerVars
  <2> QED BY <2>1, <2>2 DEF ConvInv, Divides, HistoryWhole
<1>3. ASSUME NEW p \in People, Erase(p) PROVE ConvInv'
  <2>1. /\ messages' \subseteq messages /\ owed' = owed \cap messages'
        /\ UNCHANGED <<clock, sent, storing, phase, cursor, shown, repeated>>
    BY <1>3 DEF Erase
  <2> QED BY <2>1 DEF ConvInv, Divides, HistoryWhole
<1>4. CASE Tick
  BY <1>4, LimitsAssumption DEF Tick, readerVars, ConvInv, Divides, HistoryWhole
<1> QED BY <1>1, <1>2, <1>3, <1>4 DEF Writing

-----------------------------------------------------------------------------
(* Theorems.                                                               *)

\* The line drawn by the cursor is kept whatever is read, written and erased.
THEOREM ConvInvariance == ConvSpec => []ConvInv
<1>1. ConvInit => ConvInv
  BY FS_EmptySet, LimitsAssumption DEF ConvInit, ConvInv, Divides, Distinct, HistoryWhole
<1>2. ConvInv /\ [ConvNext]_convVars => ConvInv'
  <2>1. ASSUME ConvInv, UNCHANGED convVars PROVE ConvInv'
    BY <2>1 DEF convVars, writerVars, readerVars, ConvInv, Divides, Distinct, HistoryWhole
  <2> QED BY <2>1, WritingInv, ReadingInv DEF ConvNext
<1> QED BY <1>1, <1>2, PTL DEF ConvSpec

\* A client that goes back page by page to the beginning is given every message that was
\* there when it began and still is, and none twice.
THEOREM HistoryIsWhole == ConvSpec => []HistoryWhole
<1>1. ConvInv => HistoryWhole BY DEF ConvInv
<1> QED BY <1>1, ConvInvariance, PTL

-----------------------------------------------------------------------------
(* The lists and the figures.                                              *)

\* A row is an incident's or NULL.
RowsTyped == /\ row \in [Incidents -> Row \cup {None}]
             /\ role \in [Members -> Roles]

LEMMA RowsTypedInv == ListSpec => []RowsTyped
<1>1. ListInit => RowsTyped
  <2> SUFFICES ASSUME ListInit PROVE RowsTyped OBVIOUS
  <2>1. PICK r \in FirstRows : row = [i \in Incidents |-> IF i = 1 THEN r ELSE None]
    BY DEF ListInit
  <2>2. r \in Row BY RowsAssumption
  <2>3. role \in [Members -> Roles]
    <3>1. "field_agent" \in Roles /\ "bureau_agent" \in Roles BY DEF Roles
    <3> QED BY <3>1 DEF ListInit
  <2> QED BY <2>1, <2>2, <2>3 DEF RowsTyped
<1>2. RowsTyped /\ [ListNext]_listVars => RowsTyped'
  <2> SUFFICES ASSUME RowsTyped, [ListNext]_listVars PROVE RowsTyped' OBVIOUS
  <2>1. ASSUME NEW i \in Incidents, NEW r \in Rows \cup {None},
               row' = [row EXCEPT ![i] = r], UNCHANGED role
        PROVE  RowsTyped'
    <3>1. r \in Row \cup {None} BY RowsAssumption
    <3> QED BY <2>1, <3>1 DEF RowsTyped
  <2>2. ASSUME NEW p \in Movable, NEW new \in Roles, ChangeRole(p, new) PROVE RowsTyped'
    BY <2>2 DEF ChangeRole, RowsTyped
  <2>3. ASSUME UNCHANGED <<row, role>> PROVE RowsTyped'
    BY <2>3 DEF RowsTyped
  <2>4. CASE \E v \in Readers, list \in Lists : OpenList(v, list)
    BY <2>3, <2>4 DEF OpenList
  <2>5. CASE CountPage \/ ReadPage \/ CloseList
    BY <2>3, <2>5 DEF CountPage, ReadPage, CloseList
  <2>6. CASE UNCHANGED listVars BY <2>3, <2>6 DEF listVars
  <2> QED BY <2>1, <2>2, <2>4, <2>5, <2>6 DEF ListNext, Declare, Elsewhere
<1> QED BY <1>1, <1>2, PTL DEF ListSpec

\* A resolved status is none of the others.
LEMMA PartitionedOnce == RowsTyped => ListedOnce
<1> SUFFICES ASSUME RowsTyped, NEW v \in Viewers
    PROVE  /\ \A i \in Live : Cardinality({l \in Lists \ {"all"} : i \in Listed(l, v)}) = 1
           /\ Listed("organisation", v) = OrgIncidents(v, "agents") \cup OrgIncidents(v, "internal")
           /\ OrgIncidents(v, "citizens") \cap OrgIncidents(v, "agents") = {}
  BY DEF ListedOnce
<1>1. /\ Listed("resolved", v) = IncidentResolved(v)
      /\ Listed("not_resolved", v) = IncidentNotResolved(v)
      /\ Listed("organisation", v) = OrgIncidents(v, "agents_or_internal")
  BY DEF Listed
<1>2. Listed("organisation", v) = OrgOwnWork(v) \cap Live
  BY <1>1 DEF OrgIncidents, OrgOwnWork
<1>3. ASSUME NEW i \in Live
      PROVE  Cardinality({l \in Lists \ {"all"} : i \in Listed(l, v)}) = 1
  <2>1. Lists \ {"all"} = {"resolved", "not_resolved", "organisation"} BY DEF Lists
  <2>2. i \in Listed("organisation", v) <=> i \in OrgOwnWork(v) BY <1>2
  <2>3. i \in Listed("resolved", v) <=> row[i].etat \in ResolvedEtats /\ i \notin OrgOwnWork(v)
    BY <1>1 DEF IncidentResolved
  <2>4. i \in Listed("not_resolved", v) <=> row[i].etat \notin ResolvedEtats /\ i \notin OrgOwnWork(v)
    BY <1>1 DEF IncidentNotResolved
  <2>5. PICK l : {k \in Lists \ {"all"} : i \in Listed(k, v)} = {l}
    <3>1. CASE i \in OrgOwnWork(v)
      <4>1. {k \in Lists \ {"all"} : i \in Listed(k, v)} = {"organisation"}
        BY <2>1, <2>2, <2>3, <2>4, <3>1
      <4> QED BY <4>1
    <3>2. CASE i \notin OrgOwnWork(v) /\ row[i].etat \in ResolvedEtats
      <4>1. {k \in Lists \ {"all"} : i \in Listed(k, v)} = {"resolved"}
        BY <2>1, <2>2, <2>3, <2>4, <3>2
      <4> QED BY <4>1
    <3>3. CASE i \notin OrgOwnWork(v) /\ row[i].etat \notin ResolvedEtats
      <4>1. {k \in Lists \ {"all"} : i \in Listed(k, v)} = {"not_resolved"}
        BY <2>1, <2>2, <2>3, <2>4, <3>3
      <4> QED BY <4>1
    <3> QED BY <3>1, <3>2, <3>3
  <2> QED BY <2>5, FS_Singleton
<1>4. Listed("organisation", v) = OrgIncidents(v, "agents") \cup OrgIncidents(v, "internal")
  BY <1>1 DEF OrgIncidents
<1>5. OrgIncidents(v, "citizens") \cap OrgIncidents(v, "agents") = {} BY DEF OrgIncidents
<1> QED BY <1>3, <1>4, <1>5

\* The organisation of a member is one; that of another user is NULL.
LEMMA OrgOfMember ==
    /\ \A u \in Members : OrgOf[u] \in Orgs /\ OrgOf[u] # None
    /\ \A v \in Others : OrgOf[v] = None
BY PeopleAssumption DEF Viewers

LEMMA MineSaid == RowsTyped => MineAgrees
<1> SUFFICES ASSUME RowsTyped, NEW v \in Viewers
    PROVE  /\ MyInterventions(v) = IncidentFilter(v, "mine") \cap Live
           /\ \A i \in Live :
                i \in MyInterventions(v) <=>
                  \/ row[i].leader = v \/ v \in row[i].agents
                  \/ OrgOf[v] \in ActingOrganisations(i).leader
                       \cup ActingOrganisations(i).assigned \cup ActingOrganisations(i).collaborator
  BY DEF MineAgrees
<1>1. MyInterventions(v) = IncidentFilter(v, "mine") \cap Live
  BY DEF MyInterventions, IncidentFilter
<1>2. ASSUME NEW i \in Live
      PROVE  i \in MyInterventions(v) <=>
               \/ row[i].leader = v \/ v \in row[i].agents
               \/ OrgOf[v] \in ActingOrganisations(i).leader
                    \cup ActingOrganisations(i).assigned \cup ActingOrganisations(i).collaborator
  <2>1. i \in Stored /\ row[i] \in Row BY DEF Live, Stored, RowsTyped
  <2>2. row[i].assigned \subseteq Orgs BY <2>1 DEF Row
  <2>3. ActingOrganisations(i).leader \cup ActingOrganisations(i).assigned
          \cup ActingOrganisations(i).collaborator
        = ({LeaderOrg(i)} \ {None}) \cup row[i].assigned \cup {OrgOf[u] : u \in Partners(i)}
    BY DEF ActingOrganisations
  <2>4. None \notin row[i].assigned /\ None \notin {OrgOf[u] : u \in Partners(i)}
    BY <2>2, OrgOfMember, PeopleAssumption DEF Partners
  <2>5. i \in MyInterventions(v) <=> i \in OrgActing(v) BY DEF MyInterventions
  <2> QED BY <2>1, <2>3, <2>4, <2>5 DEF OrgActing
<1> QED BY <1>1, <1>2

\* What is listed of the collaborations is that of the user, of his organisation, or
\* of incidents he leads.
LEMMA ListedOpen == RowsTyped => CollaborationsOpen
<1> SUFFICES ASSUME RowsTyped, NEW v \in Viewers
    PROVE  /\ \A scope \in {"self", "received", "all"} :
                /\ CollaborationScope(v, scope) \subseteq CollaborationVisible(v)
                /\ CollaborationDashboard(v, scope, "in-progress")
                     \cup CollaborationDashboard(v, scope, "completed")
                     = CollaborationList(v, scope, "accepted")
           /\ v \in Members \ FieldAgents =>
                \A i \in Stored :
                  /\ MyCollaboration(i, v) # None =>
                       \E c \in CollaborationVisible(v) :
                          c[1] = i /\ StatusOf(c) = MyCollaboration(i, v)
                  /\ row[i].leader = v =>
                       \A c \in Collaborations : c[1] = i => c \in CollaborationVisible(v)
  BY DEF CollaborationsOpen
<1>1. ASSUME NEW scope PROVE CollaborationScope(v, scope) \subseteq CollaborationVisible(v)
  BY DEF CollaborationScope, CollaborationVisible
<1>2. ASSUME NEW scope
      PROVE  CollaborationDashboard(v, scope, "in-progress")
               \cup CollaborationDashboard(v, scope, "completed")
             = CollaborationList(v, scope, "accepted")
  BY DEF CollaborationDashboard, CollaborationList
<1>3. ASSUME NEW i \in Stored, v \in Members \ FieldAgents, MyCollaboration(i, v) # None
      PROVE  \E c \in CollaborationVisible(v) : c[1] = i /\ StatusOf(c) = MyCollaboration(i, v)
  <2>1. PICK u \in Members : OrgOf[u] = OrgOf[v] /\ row[i].collab[u] = MyCollaboration(i, v)
    BY <1>3 DEF MyCollaboration
  <2> DEFINE c == <<i, u>>
  <2>2. c \in Collaborations /\ c[1] = i /\ c[2] = u BY <1>3, <2>1 DEF Collaborations
  <2>3. c \in CollaborationVisible(v) BY <1>3, <2>1, <2>2 DEF CollaborationVisible
  <2>4. StatusOf(c) = MyCollaboration(i, v) BY <2>1, <2>2 DEF StatusOf
  <2> QED BY <2>2, <2>3, <2>4
<1>4. ASSUME NEW i \in Stored, row[i].leader = v, NEW c \in Collaborations, c[1] = i
      PROVE  c \in CollaborationVisible(v)
  BY <1>4 DEF CollaborationVisible
<1> QED BY <1>1, <1>2, <1>3, <1>4

\* Whoever is given the impact of an organisation is given that of one only.
LEMMA OneImpact ==
    ASSUME NEW v \in Viewers, NEW org, ImpactRole(v, org)
    PROVE  \A o : ImpactRole(v, o) <=> o = org
BY PeopleAssumption DEF ImpactRole, Viewers

\* What an organisation is given is part of what the platform is.
LEMMA ImpactParts ==
    ASSUME NEW org, NEW status
    PROVE  /\ ImpactScope(org, status) \subseteq ImpactScope(None, status)
           /\ ImpactScope(org, status) \subseteq ImpactBase(org)
           /\ \A i \in ImpactScope(None, status) : i \in ImpactBase(org) => i \in ImpactScope(org, status)
BY DEF ImpactScope, ImpactBase

LEMMA FiguresOfRows == RowsTyped => FiguresAddUp
<1> SUFFICES ASSUME RowsTyped PROVE FiguresAddUp OBVIOUS
<1>0. \A i \in Live : i \in Stored /\ row[i] \in Row BY DEF Live, Stored, RowsTyped
<1>1. {i \in Live : row[i].etat = "declared"} = Live \ (DashboardActive \cup DashboardResolved)
  BY <1>0 DEF DashboardActive, DashboardResolved, ResolvedEtats, Row, Etats
<1>2. DashboardActive \cap DashboardResolved = {}
  BY DEF DashboardActive, DashboardResolved, ResolvedEtats
<1>3. ASSUME NEW v \in Viewers, NEW org \in Orgs \cup {None}, ImpactRole(v, org)
      PROVE  /\ ImpactScope(org, "all") \subseteq ImpactScope(None, "all")
             /\ \A i \in ImpactScope(org, "all") \ ReportsVerified : i \in LedToAction /\ Led(i)
             /\ ImpactScope(org, "resolved") \cap ImpactScope(org, "taken_action") = {}
             /\ org # None => ImpactScope(org, "all") \subseteq IncidentsTaken
             /\ ImpactIncidents(v, "all") = ImpactScope(org, "all")
  <2>1. \A i \in ImpactScope(org, "all") \ ReportsVerified : i \in LedToAction /\ Led(i)
    <3> SUFFICES ASSUME NEW i \in ImpactScope(org, "all"), i \notin ReportsVerified
        PROVE  i \in LedToAction /\ Led(i)
      OBVIOUS
    <3>1. i \in ImpactBase(None) /\ i \in ImpactScope(None, "all") BY ImpactParts
    <3>2. row[i].etat \notin ResolvedEtats BY <3>1 DEF ReportsVerified, ResolvedEtats
    <3> QED BY <3>1, <3>2 DEF ImpactScope, LedToAction
  <2>2. ImpactScope(org, "resolved") \cap ImpactScope(org, "taken_action") = {}
    BY DEF ImpactScope
  <2>3. org # None => ImpactScope(org, "all") \subseteq IncidentsTaken
    BY ImpactParts DEF ImpactBase, IncidentsTaken
  <2>4. {o \in Orgs \cup {None} : ImpactRole(v, o)} = {org} BY <1>3, OneImpact
  <2>5. ImpactIncidents(v, "all") = ImpactScope(org, "all") BY <2>4 DEF ImpactIncidents
  <2> QED BY <2>1, <2>2, <2>3, <2>5, ImpactParts
<1>4. ASSUME NEW status \in {"resolved", "taken_action", "all"}
      PROVE  /\ \A i \in ImpactScope(None, status) : \A o \in {LeaderOrg(i)} \ {None} :
                  o \in OrganisationsInvolved(status) /\ i \in ImpactScope(o, status)
             /\ UNION {WithPrediction(o, status) : o \in Orgs} \subseteq WithPrediction(None, status)
  <2>1. ASSUME NEW i \in ImpactScope(None, status), LeaderOrg(i) # None
        PROVE  LeaderOrg(i) \in OrganisationsInvolved(status) /\ i \in ImpactScope(LeaderOrg(i), status)
    <3>1. i \in Live BY ImpactParts DEF ImpactBase
    <3>2. i \in ImpactBase(LeaderOrg(i)) BY <3>1 DEF ImpactBase
    <3> QED BY <2>1, <3>2, ImpactParts DEF OrganisationsInvolved
  <2>2. ASSUME NEW o \in Orgs PROVE WithPrediction(o, status) \subseteq WithPrediction(None, status)
    BY ImpactParts DEF WithPrediction
  <2> QED BY <2>1, <2>2
<1>5. ImpactScope(None, "taken_action") \subseteq LedToAction
  BY DEF ImpactScope, ImpactBase, LedToAction
<1>6. ASSUME NEW v \in Viewers
      PROVE  /\ AgentList(v) = UNION {AgentStats(v)[r] : r \in Roles}
             /\ v \in SuperAdmins \cup (Members \ FieldAgents) =>
                  AgentList(v) = UNION {MemberList(v, org) : org \in Orgs}
  <2>1. \A r \in Roles : AgentStats(v)[r] = {u \in AgentList(v) : role[u] = r} BY DEF AgentStats
  <2>2. \A u \in AgentList(v) : u \in Members /\ role[u] \in Roles BY DEF AgentList, RowsTyped
  <2>3. AgentList(v) = UNION {AgentStats(v)[r] : r \in Roles} BY <2>1, <2>2
  <2>4. CASE v \in SuperAdmins
    <3>1. \A org \in Orgs : MemberList(v, org) = {u \in Members : OrgOf[u] = org}
      BY <2>4 DEF MemberList
    <3>2. AgentList(v) = Members BY <2>4 DEF AgentList
    <3> QED BY <2>3, <3>1, <3>2, OrgOfMember
  <2>5. CASE v \in Members \ FieldAgents
    <3>1. v \notin SuperAdmins BY <2>5, PeopleAssumption
    <3>2. AgentList(v) = {u \in Members : OrgOf[u] = OrgOf[v]} BY <3>1 DEF AgentList
    <3>3. \A org \in Orgs : MemberList(v, org) = {u \in Members : OrgOf[u] = org /\ org = OrgOf[v]}
      BY <2>5, <3>1 DEF MemberList
    <3> QED BY <2>3, <2>5, <3>2, <3>3, OrgOfMember
  <2> QED BY <2>3, <2>4, <2>5
<1> QED BY <1>1, <1>2, <1>3, <1>4, <1>5, <1>6 DEF FiguresAddUp

-----------------------------------------------------------------------------
(* Going through the pages.                                                *)

\* The incidents of a list, and those that come before one of them, are finitely many.
Ahead(L, i) == {j \in L : j > i}
LEMMA Positions ==
    ASSUME NEW L \in SUBSET Incidents, NEW i \in L
    PROVE  /\ IsFiniteSet(L) /\ Cardinality(L) \in Nat
           /\ Cardinality(Ahead(L, i)) \in Nat /\ Cardinality(Ahead(L, i)) < Cardinality(L)
<1>1. IsFiniteSet(L) /\ Cardinality(L) \in Nat BY PageAssumption, FS_Subset, FS_CardinalityType
<1>2. i \in Nat /\ i \notin Ahead(L, i) /\ Ahead(L, i) \subseteq L BY PageAssumption DEF Ahead
<1>3. IsFiniteSet(Ahead(L, i)) BY <1>1, <1>2, FS_Subset
<1>4. /\ Cardinality(Ahead(L, i)) \in Nat /\ Cardinality(Ahead(L, i)) <= Cardinality(L)
      /\ Cardinality(Ahead(L, i)) # Cardinality(L)
  BY <1>1, <1>2, <1>3, FS_Subset, FS_CardinalityType
<1> QED BY <1>1, <1>4

\* What is declared meanwhile only pushes an incident back.
LEMMA PushedBack ==
    ASSUME NEW L \in SUBSET Incidents, NEW M \in SUBSET Incidents, L \subseteq M, NEW i \in L
    PROVE  Cardinality(Ahead(L, i)) <= Cardinality(Ahead(M, i))
<1>1. IsFiniteSet(Ahead(M, i))
  <2>1. Ahead(M, i) \subseteq Incidents BY DEF Ahead
  <2> QED BY <2>1, PageAssumption, FS_Subset
<1>2. Ahead(L, i) \subseteq Ahead(M, i) BY DEF Ahead
<1> QED BY <1>1, <1>2, FS_Subset

\* A list is a set of incidents.
LEMMA ListedIncidents == ASSUME NEW l, NEW v PROVE Listed(l, v) \subseteq Incidents
BY DEF Listed, VisibleIncidents, IncidentResolved, IncidentNotResolved, OrgIncidents, Live, Stored

\* Where the reader is.
PagerTyped ==
    pager \in [at : {"idle", "count", "rows", "done"}, list : Lists, viewer : Viewers \cup {None},
               page : Nat, count : Nat, seen : SUBSET Incidents, owed : SUBSET Incidents]
Start == (pager.page - 1) * PageSize
\* What is owed and was not on the pages so far is still in the list, behind them; and
\* between the two queries of the last page the list is the one that was counted.
StillAhead ==
    /\ pager.at \in {"count", "rows"} =>
         /\ pager.page >= 1
         /\ \A i \in pager.owed : /\ i \in Current
                                  /\ i \in pager.seen \/ Cardinality(Ahead(Current, i)) >= Start
    /\ pager.at = "rows" /\ IsLast /\ pager.owed # {} => Cardinality(Current) = pager.count
PagerInv == PagerTyped /\ StillAhead /\ PagesSkipNothing

\* The list that is read next is the same list, of the rows there are then.
LEMMA CurrentNext ==
    ASSUME NEW l, NEW v, pager'.list = l, pager'.viewer = v
    PROVE  Current' = Listed(l, v)'
BY DEF Current, Listed, VisibleIncidents, IncidentResolved, IncidentNotResolved, OrgIncidents,
       OrgOwnWork, InternalTo, ReportedByAgentsOf

\* Only writes change a list.
LEMMA ListedSame ==
    ASSUME NEW l, NEW v, UNCHANGED <<row, role>> PROVE Listed(l, v)' = Listed(l, v)
BY DEF Listed, VisibleIncidents, IncidentResolved, IncidentNotResolved, OrgIncidents,
       OrgOwnWork, InternalTo, ReportedByAgentsOf, Live, Stored, FieldAgents, LeaderOrg, Led

LEMMA StartIsNat ==
    ASSUME NEW page \in Nat, page >= 1
    PROVE  /\ (page - 1) * PageSize \in Nat /\ page * PageSize \in Nat
           /\ (1 - 1) * PageSize = 0 /\ ((page + 1) - 1) * PageSize = page * PageSize
<1>1. PageSize \in Nat BY PageAssumption
<1>2. page - 1 \in Nat /\ (page + 1) - 1 = page /\ 1 - 1 = 0 OBVIOUS
<1>3. \A m, n \in Nat : m * n \in Nat OBVIOUS
<1>4. 0 * PageSize = 0 BY <1>1
<1> QED BY <1>1, <1>2, <1>3, <1>4

\* A list that is opened owes all that is in it.
LEMMA OpenInv ==
    ASSUME PagerInv, NEW v \in Readers, NEW l \in Lists, OpenList(v, l) PROVE PagerInv'
<1>1. UNCHANGED <<row, role>> BY DEF OpenList
<1>2. v \in Viewers BY PeopleAssumption
<1>3. /\ pager'.at = "count" /\ pager'.list = l /\ pager'.viewer = v /\ pager'.page = 1
      /\ pager'.count = 0 /\ pager'.seen = {} /\ pager'.owed = Listed(l, v)
  BY DEF OpenList, NoPages
<1>4. PagerTyped'
  <2>1. Listed(l, v) \in SUBSET Incidents BY ListedIncidents
  <2>2. pager' = [at |-> "count", list |-> l, viewer |-> v, page |-> 1, count |-> 0,
                  seen |-> {}, owed |-> Listed(l, v)]
    BY DEF OpenList, NoPages
  <2> HIDE DEF Lists
  <2> QED BY <1>2, <2>1, <2>2 DEF PagerTyped
<1>5. Current' = Listed(l, v) BY <1>1, <1>3, CurrentNext, ListedSame
<1>6. Start' = 0 BY <1>3, StartIsNat DEF Start
<1>7. StillAhead'
  <2>1. PICK L \in SUBSET Incidents : L = Listed(l, v) BY ListedIncidents
  <2>2. \A i \in L : Cardinality(Ahead(L, i)) >= 0 BY Positions
  <2>3. pager'.owed = L /\ Current' = L BY <1>3, <1>5, <2>1
  <2> QED BY <1>3, <1>6, <2>2, <2>3 DEF StillAhead
<1>8. PagesSkipNothing' BY <1>3 DEF PagesSkipNothing
<1> QED BY <1>4, <1>7, <1>8 DEF PagerInv

\* What the reader's own queries leave as it is.
LEMMA QueryKeeps ==
    ASSUME UNCHANGED <<row, role, pager.list, pager.viewer>> PROVE Current' = Current
<1>1. PICK l, v : l = pager.list /\ v = pager.viewer OBVIOUS
<1>2. Current = Listed(l, v) BY <1>1 DEF Current
<1>3. Current' = Listed(l, v)' BY <1>1, CurrentNext
<1> QED BY <1>2, <1>3, ListedSame

LEMMA CountInv == ASSUME PagerInv, CountPage PROVE PagerInv'
<1> DEFINE n == Cardinality(Current)
<1>1. PICK L \in SUBSET Incidents : L = Current BY ListedIncidents DEF Current
<1>2. n \in Nat BY <1>1, PageAssumption, FS_Subset, FS_CardinalityType
<1>3. /\ pager.at = "count" /\ UNCHANGED <<row, role>>
      /\ UNCHANGED <<pager.list, pager.viewer, pager.page, pager.seen, pager.owed>>
      /\ pager'.count = n
      /\ pager'.at = IF pager.page = 1 \/ (pager.page - 1) * PageSize < n THEN "rows" ELSE "done"
  BY DEF CountPage, PagerInv, PagerTyped
<1>4. PagerTyped' BY <1>2 DEF PagerInv, PagerTyped, CountPage
<1>5. Current' = Current BY <1>3, QueryKeeps
<1>6. /\ pager.page \in Nat /\ pager.page >= 1 /\ Start \in Nat
      /\ \A i \in pager.owed : i \in L /\ (i \in pager.seen \/ Cardinality(Ahead(L, i)) >= Start)
  BY <1>1, <1>3, StartIsNat DEF PagerInv, PagerTyped, StillAhead, Start
<1>7. Start' = Start BY <1>3 DEF Start
<1>8. StillAhead'
  <2>1. \A i \in pager'.owed : /\ i \in Current'
                               /\ i \in pager'.seen \/ Cardinality(Ahead(Current', i)) >= Start'
    BY <1>1, <1>3, <1>5, <1>6, <1>7
  <2>2. Cardinality(Current') = pager'.count BY <1>3, <1>5
  <2> QED BY <1>3, <1>6, <2>1, <2>2 DEF StillAhead
<1>9. PagesSkipNothing'
  <2> SUFFICES ASSUME pager'.at = "done", NEW i \in pager.owed PROVE i \in pager.seen
    BY <1>3 DEF PagesSkipNothing
  <2>1. ~(Start < n) BY <1>3 DEF Start
  <2>2. Cardinality(Ahead(L, i)) \in Nat /\ Cardinality(Ahead(L, i)) < n
    BY <1>1, <1>6, Positions
  <2> QED BY <1>2, <1>6, <2>1, <2>2
<1> QED BY <1>4, <1>8, <1>9 DEF PagerInv

LEMMA ReadInv == ASSUME PagerInv, ReadPage PROVE PagerInv'
<1> DEFINE upTo == IF IsLast THEN pager.count ELSE pager.page * PageSize
           rows == PageRows(pager.page, upTo)
<1>1. PICK L \in SUBSET Incidents : L = Current BY ListedIncidents DEF Current
<1>2. rows = {i \in L : Start <= Cardinality(Ahead(L, i)) /\ Cardinality(Ahead(L, i)) < upTo}
  BY <1>1 DEF PageRows, Newer, Ahead, Start
<1>3. rows \in SUBSET Incidents BY <1>2
<1>4. IsLast \in BOOLEAN BY DEF IsLast
<1> HIDE DEF rows, upTo
<1>5. /\ pager.at = "rows" /\ UNCHANGED <<row, role>>
      /\ pager' = [pager EXCEPT !.seen = @ \cup rows, !.at = IF IsLast THEN "done" ELSE "count",
                                !.page = IF IsLast THEN @ ELSE @ + 1]
  BY DEF ReadPage, rows, upTo
<1>6. /\ UNCHANGED <<pager.list, pager.viewer, pager.count, pager.owed>>
      /\ pager'.seen = pager.seen \cup rows
      /\ pager'.at = (IF IsLast THEN "done" ELSE "count")
      /\ pager'.page = (IF IsLast THEN pager.page ELSE pager.page + 1)
  BY <1>5 DEF PagerInv, PagerTyped
<1>7. PagerTyped'
  <2> DEFINE seen == pager.seen \cup rows
             at == IF IsLast THEN "done" ELSE "count"
             page == IF IsLast THEN pager.page ELSE pager.page + 1
  <2>1. /\ seen \in SUBSET Incidents /\ at \in {"idle", "count", "rows", "done"} /\ page \in Nat
    BY <1>3 DEF PagerInv, PagerTyped
  <2>2. pager' = [pager EXCEPT !.seen = seen, !.at = at, !.page = page] BY <1>5
  <2> HIDE DEF seen, at, page
  <2> QED BY <2>1, <2>2 DEF PagerInv, PagerTyped
<1>8. Current' = Current BY <1>5, <1>6, QueryKeeps
<1>9. /\ pager.page \in Nat /\ pager.page >= 1 /\ pager.count \in Nat
      /\ Start \in Nat /\ pager.page * PageSize \in Nat
      /\ \A i \in pager.owed : i \in L /\ (i \in pager.seen \/ Cardinality(Ahead(L, i)) >= Start)
      /\ IsLast /\ pager.owed # {} => Cardinality(L) = pager.count
  BY <1>1, <1>5, StartIsNat DEF PagerInv, PagerTyped, StillAhead, Start
<1>10. \A i \in pager.owed : Cardinality(Ahead(L, i)) \in Nat /\ Cardinality(Ahead(L, i)) < Cardinality(L)
  BY <1>9, Positions
<1>11. CASE IsLast
  <2>1. upTo = pager.count BY <1>11 DEF upTo
  <2>2. ASSUME NEW i \in pager.owed PROVE i \in pager.seen \cup rows
    BY <1>2, <1>9, <1>10, <1>11, <2>1
  <2>3. pager'.at = "done" BY <1>6, <1>11
  <2>4. PagesSkipNothing' BY <1>6, <2>2 DEF PagesSkipNothing
  <2>5. StillAhead' BY <2>3 DEF StillAhead
  <2> QED BY <1>7, <2>4, <2>5 DEF PagerInv
<1>12. CASE ~IsLast
  <2>1. upTo = pager.page * PageSize BY <1>12 DEF upTo
  <2>2. pager'.at = "count" /\ pager'.page = pager.page + 1 BY <1>6, <1>12
  <2>3. Start' = pager.page * PageSize BY <1>9, <2>2, StartIsNat DEF Start
  <2>4. ASSUME NEW i \in pager.owed
        PROVE  i \in pager.seen \cup rows \/ Cardinality(Ahead(L, i)) >= pager.page * PageSize
    BY <1>2, <1>9, <1>10, <2>1
  <2>5. \A i \in pager'.owed : /\ i \in Current'
                               /\ i \in pager'.seen \/ Cardinality(Ahead(Current', i)) >= Start'
    BY <1>1, <1>6, <1>8, <1>9, <2>3, <2>4
  <2>6. StillAhead' BY <1>9, <2>2, <2>5 DEF StillAhead
  <2>7. PagesSkipNothing' BY <2>2 DEF PagesSkipNothing
  <2> QED BY <1>7, <2>6, <2>7 DEF PagerInv
<1> QED BY <1>11, <1>12

\* A write that leaves the list in the order in which it is read, or is excused.
LEMMA SeenInv == ASSUME PagerInv, Seen PROVE PagerInv'
<1>1. CASE pager.at = "idle" /\ UNCHANGED pager
  BY <1>1 DEF PagerInv, PagerTyped, StillAhead, PagesSkipNothing
<1>2. CASE pager.at # "idle"
  <2>1. PICK l \in Lists, v \in Readers :
          /\ l = pager.list /\ v = pager.viewer
          /\ LET left == Current \ Listed(l, v)'
                 came == Listed(l, v)' \ Current
                 excused == left # {} \/ (pager.at = "rows" /\ IsLast /\ came # {})
             IN  pager' = [pager EXCEPT !.owed = IF excused THEN {} ELSE @]
    BY <1>2 DEF Seen
  <2> DEFINE left == Current \ Listed(l, v)'
             came == Listed(l, v)' \ Current
             excused == left # {} \/ (pager.at = "rows" /\ IsLast /\ came # {})
  <2>2. excused \in BOOLEAN BY DEF IsLast
  <2> HIDE DEF excused
  <2>3. pager' = [pager EXCEPT !.owed = IF excused THEN {} ELSE @] BY <2>1 DEF excused
  <2>4. /\ UNCHANGED <<pager.at, pager.list, pager.viewer, pager.page, pager.count, pager.seen>>
        /\ pager'.owed = IF excused THEN {} ELSE pager.owed
    BY <2>3 DEF PagerInv, PagerTyped
  <2>5. PagerTyped' BY <2>2, <2>3 DEF PagerInv, PagerTyped
  <2>6. PagesSkipNothing' BY <2>4 DEF PagerInv, PagesSkipNothing
  <2>7. PICK L \in SUBSET Incidents : L = Current BY ListedIncidents DEF Current
  <2>8. PICK M \in SUBSET Incidents : M = Listed(l, v)'
    <3>1. Listed(l, v)' \subseteq Incidents
      BY DEF Listed, VisibleIncidents, IncidentResolved, IncidentNotResolved, OrgIncidents, Live,
             Stored
    <3> QED BY <3>1
  <2>9. Current' = M BY <2>1, <2>4, <2>8, CurrentNext
  <2>10. Start' = Start /\ (IsLast' <=> IsLast) BY <2>4 DEF Start, IsLast
  <2>11. CASE excused
    <3>1. pager'.owed = {} BY <2>4, <2>11
    <3> QED BY <2>4, <2>5, <2>6, <3>1 DEF PagerInv, StillAhead
  <2>12. CASE ~excused
    <3>1. L \subseteq M /\ (pager.at = "rows" /\ IsLast => M = L)
      BY <2>7, <2>8, <2>12 DEF excused
    <3>2. pager'.owed = pager.owed BY <2>4, <2>12
    <3>3. ASSUME pager.at \in {"count", "rows"}, NEW i \in pager.owed
          PROVE  i \in M /\ (i \in pager.seen \/ Cardinality(Ahead(M, i)) >= Start)
      <4>1. i \in L /\ (i \in pager.seen \/ Cardinality(Ahead(L, i)) >= Start)
        BY <2>7, <3>3 DEF PagerInv, StillAhead
      <4>2. Start \in Nat
        BY <3>3, StartIsNat DEF PagerInv, PagerTyped, StillAhead, Start
      <4>3. /\ Cardinality(Ahead(L, i)) <= Cardinality(Ahead(M, i))
            /\ Cardinality(Ahead(L, i)) \in Nat /\ Cardinality(Ahead(M, i)) \in Nat
        BY <3>1, <4>1, PushedBack, Positions
      <4> QED BY <3>1, <4>1, <4>2, <4>3
    <3>4. StillAhead'
      BY <2>4, <2>7, <2>9, <2>10, <3>1, <3>2, <3>3 DEF PagerInv, StillAhead
    <3> QED BY <2>5, <2>6, <3>4 DEF PagerInv
  <2> QED BY <2>11, <2>12
<1> QED BY <1>1, <1>2 DEF Seen

\* Going through all the pages of a list skips nothing that was in it at the start and
\* was not taken out of it, whatever the size of the pages and whatever is declared,
\* taken, trashed and restored between any two queries.
THEOREM PagesAreWhole == ListSpec => []PagesSkipNothing
<1>1. ListInit => PagerInv
  <2> SUFFICES ASSUME ListInit PROVE PagerInv OBVIOUS
  <2>1. pager = NoPages BY DEF ListInit
  <2>2. PagerTyped BY <2>1 DEF PagerTyped, NoPages, Lists
  <2> QED BY <2>1, <2>2 DEF PagerInv, StillAhead, PagesSkipNothing, NoPages
<1>2. PagerInv /\ [ListNext]_listVars => PagerInv'
  <2> SUFFICES ASSUME PagerInv, [ListNext]_listVars PROVE PagerInv' OBVIOUS
  <2>1. CASE CloseList
    <3>1. pager' = NoPages BY <2>1 DEF CloseList
    <3>2. PagerTyped' BY <3>1 DEF PagerTyped, NoPages, Lists
    <3> QED BY <3>1, <3>2 DEF PagerInv, StillAhead, PagesSkipNothing, NoPages
  <2>2. CASE UNCHANGED listVars
    <3>1. UNCHANGED <<row, role, pager>> BY <2>2 DEF listVars
    <3>2. Current' = Current BY <3>1, QueryKeeps
    <3> QED BY <3>1, <3>2 DEF PagerInv, PagerTyped, StillAhead, PagesSkipNothing, Start, IsLast
  <2>3. CASE \E i \in Incidents, r \in Rows \cup {None} : (r # None /\ Declare(i, r)) \/ Elsewhere(i, r)
    BY <2>3, SeenInv DEF Declare, Elsewhere
  <2>4. CASE \E p \in Movable, new \in Roles : ChangeRole(p, new)
    BY <2>4, SeenInv DEF ChangeRole
  <2> QED BY <2>1, <2>2, <2>3, <2>4, OpenInv, CountInv, ReadInv DEF ListNext
<1>3. PagerInv => PagesSkipNothing BY DEF PagerInv
<1> QED BY <1>1, <1>2, <1>3, PTL DEF ListSpec

-----------------------------------------------------------------------------
(* All that users look at.                                                 *)

\* Whoever looks, an incident out of the trash is in exactly one of the three lists.
THEOREM ListsPartition == ListSpec => []ListedOnce
BY RowsTypedInv, PartitionedOnce, PTL

\* The query and the loop by which an organisation's interventions are found agree.
THEOREM InterventionsAgree == ListSpec => []MineAgrees
BY RowsTypedInv, MineSaid, PTL

\* Every collaboration that is listed can be opened by the one it is listed for.
THEOREM ListedCollaborationsOpen == ListSpec => []CollaborationsOpen
BY RowsTypedInv, ListedOpen, PTL

\* The figures of the dashboards add up, whatever the handlers leave in the rows.
THEOREM FiguresAgree == ListSpec => []FiguresAddUp
BY RowsTypedInv, FiguresOfRows, PTL

\* The screens are the lists and the conversation: what holds of each holds beside the other.
THEOREM ScreensAreBoth == ScreenSpec => ListSpec /\ ConvSpec
<1>1. ScreenInit => ListInit /\ ConvInit BY DEF ScreenInit
<1>2. [ScreenNext]_screenVars => [ListNext]_listVars /\ [ConvNext]_convVars
  BY DEF ScreenNext, screenVars
<1> QED BY <1>1, <1>2, PTL DEF ScreenSpec, ListSpec, ConvSpec

-----------------------------------------------------------------------------
(* The telephone call.  An incident is opened from a copy of the call, which   *)
(* may be older than the call is: so the call and every copy of it say only    *)
(* what the caller chose.  The caller is not asked twice, so that what was      *)
(* chosen does not change later.                                            *)

Chosen(r) ==
    /\ r.zone # Null /\ ~edited => caller.zone \in DOMAIN heard /\ r.zone = heard[caller.zone]
    /\ r.category # Null => /\ caller.category \in DOMAIN Categories
                            /\ r.category = Categories[caller.category]
\* An incident was opened, or an exception was swallowed.
Settled == incidents # {} \/ swallowed
ThreadInv(j) ==
    /\ j.copy # Null => Chosen(j.copy)
    /\ j.step \notin {"idle", "webhook"} \/ (j.step = "webhook" /\ j.at = "answer") => call # Null
    /\ j.at \in {"save", "log", "user", "open", "link"} => j.copy # Null
    /\ j.step = "process_recording" /\ j.at \in {"link", "answer"} => Settled
CallerInv ==
    /\ caller.zone # Null /\ ~edited => heard = zones
    /\ caller.at \in {"webhook", "select_zone"} => caller.zone = Null
    /\ caller.at \in {"webhook", "select_zone", "select_category"} => caller.category = Null
    /\ caller.at \notin {"webhook", "gone"} => call # Null
    /\ caller.at = "thanked" => Settled
CallInv == /\ IvrTypeOK /\ CallerInv
           /\ call # Null => Chosen(call)
           /\ \A i \in incidents : Chosen(i)
           /\ \A t \in Threads : ThreadInv(job[t])

\* What a step must do, besides making a thread do something right, for the other threads to
\* stay right.
Onwards == /\ call # Null => call' # Null
           /\ incidents \subseteq incidents' /\ (swallowed => swallowed')
           /\ \A r \in Call \cup Opened : Chosen(r) => Chosen(r)'

LEMMA ThreadsKeep ==
    ASSUME CallInv, Onwards, NEW t \in Threads, NEW j \in Job, job' = [job EXCEPT ![t] = j],
           ThreadInv(j)'
    PROVE  job' \in [Threads -> Job] /\ \A s \in Threads : ThreadInv(job[s])'
<1>1. job' \in [Threads -> Job] /\ \A s \in Threads : job'[s] = IF s = t THEN j ELSE job[s]
  BY DEF CallInv, IvrTypeOK
<1>2. ASSUME NEW s \in Threads, s # t PROVE ThreadInv(job[s])'
  <2>1. ThreadInv(job[s]) /\ job'[s] = job[s] BY <1>1, <1>2 DEF CallInv
  <2>2. job[s].copy \in Call \cup {Null} BY DEF CallInv, IvrTypeOK, Job
  <2>3. Settled => Settled' BY DEF Onwards, Settled
  <2>4. PICK k : k = job[s] OBVIOUS
  <2>5. ThreadInv(k) /\ k.copy \in Call \cup {Null} BY <2>1, <2>2, <2>4
  <2>6. k.copy # Null => Chosen(k.copy)' BY <2>5 DEF Onwards, ThreadInv
  <2>7. ThreadInv(k)' BY <2>3, <2>5, <2>6 DEF Onwards, ThreadInv
  <2> QED BY <2>1, <2>4, <2>7
<1> QED BY <1>1, <1>2

\* A statement of a thread's: the caller hears nothing of it yet.
LEMMA StatementKeeps ==
    ASSUME CallInv, UNCHANGED <<zones, edited, caller, posts, heard>>,
           trail' \subseteq {"main_menu", "zone_selection", "category_selection",
                             "description_recording"},
           owners' \in 0 .. 2, swallowed' \in BOOLEAN, swallowed => swallowed',
           call' \in Call \cup {Null}, call # Null => call' # Null, call' # Null => Chosen(call'),
           incidents \subseteq incidents', incidents' \subseteq Opened, \A i \in incidents' : Chosen(i),
           NEW t \in Threads, NEW j \in Job, job' = [job EXCEPT ![t] = j], ThreadInv(j)'
    PROVE  CallInv'
<1>1. \A r : Chosen(r)' = Chosen(r) BY DEF Chosen
<1>2. Onwards BY <1>1 DEF Onwards
<1>3. job' \in [Threads -> Job] /\ \A s \in Threads : ThreadInv(job[s])' BY <1>2, ThreadsKeep
<1>4. Settled => Settled' BY <1>2 DEF Onwards, Settled
<1>5. CallerInv' BY <1>4 DEF CallInv, CallerInv
<1>6. IvrTypeOK' BY <1>3 DEF CallInv, IvrTypeOK
<1>7. Chosen(call') = Chosen(call)' BY DEF Chosen
<1> QED BY <1>1, <1>3, <1>5, <1>6, <1>7 DEF CallInv

\* An answer that reaches the caller, or comes too late.
LEMMA AnswerKeeps ==
    ASSUME CallInv, Database, World, UNCHANGED posts, NEW t \in Threads, Finish(t),
           caller' \in Caller, heard' \in ZoneLists \cup {<<>>}, CallerInv',
           \A r \in Call \cup Opened : Chosen(r) => Chosen(r)'
    PROVE  CallInv'
<1>1. Onwards BY DEF Onwards, Database, World
<1>2. Idle \in Job /\ ThreadInv(Idle)' BY DEF Idle, Job, ThreadInv, Steps
<1>3. job' = [job EXCEPT ![t] = Idle] BY DEF Finish
<1>4. job' \in [Threads -> Job] /\ \A s \in Threads : ThreadInv(job[s])'
  BY <1>1, <1>2, <1>3, ThreadsKeep
<1>5. IvrTypeOK' BY <1>4 DEF CallInv, IvrTypeOK, Database, World
<1>6. call' # Null => Chosen(call)'
  BY DEF CallInv, IvrTypeOK, Database
<1>7. \A i \in incidents' : Chosen(i)' BY DEF CallInv, IvrTypeOK, Database
<1> QED BY <1>4, <1>5, <1>6, <1>7 DEF CallInv

\* A thread that goes on keeps its step and its copy.
LEMMA GotoJob ==
    ASSUME CallInv, NEW t \in Threads,
           NEW at \in {"read", "save", "log", "user", "open", "link", "answer"}, Goto(t, at)
    PROVE  \E j \in Job : /\ job' = [job EXCEPT ![t] = j]
                          /\ j.step = job[t].step /\ j.at = at /\ j.copy = job[t].copy
<1>1. job[t] \in Job /\ job \in [Threads -> Job] BY DEF CallInv, IvrTypeOK
<1>2. PICK j : j = [job[t] EXCEPT !.at = at] OBVIOUS
<1>3. j \in Job /\ j.step = job[t].step /\ j.at = at /\ j.copy = job[t].copy BY <1>1, <1>2 DEF Job
<1>4. job' = [job EXCEPT ![t] = j] BY <1>2 DEF Goto
<1> QED BY <1>3, <1>4

\* The call is created, or read and saved with the status of the form.
LEMMA WebhookKeeps ==
    ASSUME CallInv, NEW t \in Threads, Webhook(t) \/ WebhookSave(t) PROVE CallInv'
<1>t. /\ call \in Call \cup {Null} /\ job[t] \in Job /\ ThreadInv(job[t])
      /\ (call # Null => Chosen(call)) /\ incidents \subseteq Opened /\ owners \in 0 .. 2 /\ swallowed \in BOOLEAN
  BY DEF CallInv, IvrTypeOK
<1>s. UNCHANGED <<zones, edited, caller, posts, heard, trail, incidents, owners, swallowed>>
  BY DEF Webhook, WebhookSave, Inside, World, Listener
<1>c. ASSUME NEW new \in Call, Chosen(new), call' = new, Goto(t, "answer"), job[t].step = "webhook"
      PROVE  CallInv'
  <2>1. PICK j \in Job : /\ job' = [job EXCEPT ![t] = j]
                         /\ j.step = job[t].step /\ j.at = "answer" /\ j.copy = job[t].copy
    BY <1>c, GotoJob
  <2>2. new # Null BY NullAssumption
  <2>3. j.copy # Null => Chosen(j.copy) BY <1>t, <2>1 DEF ThreadInv
  <2>4. ThreadInv(j)' BY <1>c, <1>s, <2>1, <2>2, <2>3 DEF ThreadInv, Chosen
  <2> QED BY <1>c, <1>s, <1>t, <2>1, <2>2, <2>4, StatementKeeps DEF CallInv, IvrTypeOK
<1>1. CASE Webhook(t) /\ call = Null
  <2>1. PICK new : new = [status |-> "in-progress", audio |-> FALSE, linked |-> FALSE,
                          zone |-> Null, category |-> Null]
    OBVIOUS
  <2>2. new \in Call /\ Chosen(new) BY <2>1 DEF Call, Choice, Chosen
  <2> QED BY <1>1, <1>c, <2>1, <2>2 DEF Webhook, At
<1>2. CASE Webhook(t) /\ call # Null
  <2>1. PICK copy : copy = call OBVIOUS
  <2>2. PICK j : j = [job[t] EXCEPT !.at = "save", !.copy = copy] OBVIOUS
  <2>a. j \in Job /\ j.step = job[t].step /\ j.at = "save" /\ j.copy = copy
    BY <1>t, <2>1, <2>2 DEF Job
  <2>3. job' = [job EXCEPT ![t] = j] /\ call' = call /\ j.step = "webhook"
    BY <1>2, <2>1, <2>2, <2>a DEF Webhook, Reads, CallInv, IvrTypeOK, At
  <2>4. ThreadInv(j)' BY <1>2, <1>s, <1>t, <2>1, <2>a, <2>3 DEF ThreadInv, Chosen
  <2> QED BY <1>2, <1>s, <1>t, <2>a, <2>3, <2>4, StatementKeeps DEF CallInv, IvrTypeOK
<1>3. CASE WebhookSave(t)
  <2>1. PICK new : new = [job[t].copy EXCEPT !.status = "in-progress"] OBVIOUS
  <2>2. job[t].copy \in Call /\ Chosen(job[t].copy) /\ job[t].step = "webhook"
    BY <1>3, <1>t DEF WebhookSave, At, ThreadInv, Job
  <2>3. new \in Call /\ Chosen(new) BY <2>1, <2>2 DEF Call, Chosen
  <2> QED BY <1>3, <1>c, <2>1, <2>2, <2>3 DEF WebhookSave
<1> QED BY <1>1, <1>2, <1>3

\* A statement after which the call and the incidents are what they were, and so is the copy.
LEMMA GotoKeeps ==
    ASSUME CallInv, NEW t \in Threads,
           NEW at \in {"read", "save", "log", "user", "open", "link", "answer"}, Goto(t, at),
           UNCHANGED <<zones, edited, caller, posts, heard, call, incidents>>,
           owners' \in 0 .. 2, swallowed' \in BOOLEAN, swallowed => swallowed',
           trail' \subseteq {"main_menu", "zone_selection", "category_selection",
                             "description_recording"},
           job[t].step \notin {"idle", "webhook"},
           at \in {"save", "log", "user", "open", "link"} => job[t].copy # Null,
           job[t].step = "process_recording" /\ at \in {"link", "answer"} => Settled'
    PROVE  CallInv'
<1>t. /\ call \in Call \cup {Null} /\ ThreadInv(job[t])
      /\ (call # Null => Chosen(call)) /\ incidents \subseteq Opened /\ \A i \in incidents : Chosen(i)
  BY DEF CallInv, IvrTypeOK
<1>1. PICK j \in Job : /\ job' = [job EXCEPT ![t] = j]
                       /\ j.step = job[t].step /\ j.at = at /\ j.copy = job[t].copy
  BY GotoJob
<1>2. j.copy # Null => Chosen(j.copy)' BY <1>t, <1>1 DEF ThreadInv, Chosen
<1>3. ThreadInv(j)' BY <1>t, <1>1, <1>2 DEF ThreadInv
<1> QED BY <1>t, <1>1, <1>3, StatementKeeps

\* A statement after which the thread has another copy, which says what the caller chose.
LEMMA CopyKeeps ==
    ASSUME CallInv, NEW t \in Threads, NEW copy \in Call, Chosen(copy), call # Null,
           job' = [job EXCEPT ![t].at = "save", ![t].copy = copy], Inside, Database,
           job[t].step \notin {"idle", "webhook"}
    PROVE  CallInv'
<1>t. /\ call \in Call \cup {Null} /\ (call # Null => Chosen(call)) /\ job \in [Threads -> Job]
      /\ incidents \subseteq Opened /\ (\A i \in incidents : Chosen(i)) /\ owners \in 0 .. 2
      /\ swallowed \in BOOLEAN
      /\ trail \subseteq {"main_menu", "zone_selection", "category_selection", "description_recording"}
  BY DEF CallInv, IvrTypeOK
<1>s. UNCHANGED <<zones, edited, caller, posts, heard, trail, incidents, owners, swallowed, call>>
  BY DEF Inside, World, Listener, Database
<1>j. PICK j : j = [job[t] EXCEPT !.at = "save", !.copy = copy] OBVIOUS
<1>1. j \in Job /\ j.step = job[t].step /\ j.at = "save" /\ j.copy = copy BY <1>t, <1>j DEF Job
<1>2. job' = [job EXCEPT ![t] = j] BY <1>t, <1>j
<1>3. ThreadInv(j)' BY <1>s, <1>1, NullAssumption DEF ThreadInv, Chosen
<1> QED BY <1>1, <1>s, <1>t, <1>2, <1>3, StatementKeeps

LEMMA ChoosingKeeps ==
    ASSUME CallInv, NEW t \in Threads, \/ SelectZone(t) \/ SelectCategory(t) \/ RecordDescription(t)
                                       \/ ChoiceSave(t) \/ ChoiceLog(t)
    PROVE  CallInv'
<1>t. /\ call \in Call \cup {Null} /\ job[t] \in Job /\ ThreadInv(job[t])
      /\ (call # Null => Chosen(call)) /\ incidents \subseteq Opened /\ owners \in 0 .. 2 /\ swallowed \in BOOLEAN
      /\ trail \subseteq {"main_menu", "zone_selection", "category_selection", "description_recording"}
      /\ zones \in ZoneLists /\ caller \in Caller
  BY DEF CallInv, IvrTypeOK
<1>s. UNCHANGED <<zones, edited, caller, posts, heard, incidents, owners, swallowed>>
  BY DEF SelectZone, SelectCategory, RecordDescription, ChoiceSave, ChoiceLog, Inside, World,
         Listener, Database
<1>1. CASE SelectZone(t)
  BY <1>1, <1>s, <1>t, GotoKeeps DEF SelectZone, At
<1>2. CASE SelectCategory(t)
  <2>1. CASE call # Null /\ caller.zone \in DOMAIN zones
    <3>1. PICK copy : copy = [call EXCEPT !.zone = zones[caller.zone]] OBVIOUS
    <3>2. zones[caller.zone] \in Names(ZoneLists) BY <1>t, <2>1 DEF Names
    <3>3. copy \in Call BY <1>t, <2>1, <3>1, <3>2 DEF Call, Choice
    <3>4. caller.zone # Null BY <1>t, <2>1, ListsAssumption, NullAssumption
    <3>5. copy.zone = zones[caller.zone] /\ copy.category = call.category
      BY <1>t, <2>1, <3>1 DEF Call
    <3>6. Chosen(copy) BY <1>t, <2>1, <3>4, <3>5 DEF CallInv, CallerInv, Chosen
    <3> QED BY <1>2, <2>1, <3>1, <3>3, <3>6, CopyKeeps DEF SelectCategory, At
  <2>2. CASE ~(call # Null /\ caller.zone \in DOMAIN zones)
    BY <1>2, <1>s, <1>t, <2>2, GotoKeeps DEF SelectCategory, At, Database
  <2> QED BY <2>1, <2>2
<1>3. CASE RecordDescription(t)
  <2>1. CASE call # Null /\ caller.category \in DOMAIN Categories
    <3>1. PICK copy : copy = [call EXCEPT !.category = Categories[caller.category]] OBVIOUS
    <3>2. Categories[caller.category] \in Names({Categories}) BY <1>t, <2>1 DEF Names
    <3>3. copy \in Call BY <1>t, <2>1, <3>1, <3>2 DEF Call, Choice
    <3>5. copy.category = Categories[caller.category] /\ copy.zone = call.zone
      BY <1>t, <2>1, <3>1 DEF Call
    <3>6. Chosen(copy) BY <1>t, <2>1, <3>5 DEF Chosen
    <3> QED BY <1>3, <2>1, <3>1, <3>3, <3>6, CopyKeeps DEF RecordDescription, At
  <2>2. CASE ~(call # Null /\ caller.category \in DOMAIN Categories)
    BY <1>3, <1>s, <1>t, <2>2, GotoKeeps DEF RecordDescription, At, Database
  <2> QED BY <2>1, <2>2
<1>4. CASE ChoiceSave(t)
  <2>1. job[t].copy \in Call /\ job[t].copy # Null /\ Chosen(job[t].copy)
    BY <1>4, <1>t DEF ChoiceSave, ThreadInv, Job
  <2>2. PICK j \in Job : /\ job' = [job EXCEPT ![t] = j]
                         /\ j.step = job[t].step /\ j.at = "log" /\ j.copy = job[t].copy
    BY <1>4, GotoJob DEF ChoiceSave
  <2>3. call' = job[t].copy /\ trail' = trail BY <1>4 DEF ChoiceSave
  <2>4. ThreadInv(j)' BY <1>4, <1>s, <2>1, <2>2, <2>3 DEF ThreadInv, Chosen, ChoiceSave
  <2> QED BY <1>s, <1>t, <2>1, <2>2, <2>3, <2>4, StatementKeeps DEF CallInv
<1>5. CASE ChoiceLog(t)
  BY <1>5, <1>s, <1>t, GotoKeeps DEF ChoiceLog
<1> QED BY <1>1, <1>2, <1>3, <1>4, <1>5

\* The recording.
LEMMA ProcessKeeps ==
    ASSUME CallInv, NEW t \in Threads,
           \/ ProcessRecording(t) \/ ProcessSave(t) \/ ProcessLog(t) \/ ProcessUser(t)
           \/ ProcessOpen(t) \/ ProcessLink(t) \/ ProcessRaises(t)
    PROVE  CallInv'
<1>t. /\ call \in Call \cup {Null} /\ job[t] \in Job /\ ThreadInv(job[t])
      /\ (call # Null => Chosen(call)) /\ incidents \subseteq Opened /\ owners \in 0 .. 2 /\ swallowed \in BOOLEAN
      /\ trail \subseteq {"main_menu", "zone_selection", "category_selection", "description_recording"}
      /\ \A i \in incidents : Chosen(i)
  BY DEF CallInv, IvrTypeOK
<1>s. UNCHANGED <<zones, edited, caller, posts, heard>>
  BY DEF ProcessRecording, ProcessSave, ProcessLog, ProcessUser, ProcessOpen, ProcessLink,
         ProcessRaises, Inside, World, Listener
<1>p. job[t].step = "process_recording" /\ call # Null
  BY <1>t DEF ProcessRecording, ProcessSave, ProcessLog, ProcessUser, ProcessOpen, ProcessLink,
         ProcessRaises, At, ThreadInv
<1>c. ASSUME job[t].at \in {"save", "log", "user", "open", "link"}
      PROVE  job[t].copy \in Call /\ job[t].copy # Null /\ Chosen(job[t].copy)
  BY <1>c, <1>t DEF ThreadInv, Job
<1>1. CASE ProcessRecording(t)
  <2>1. PICK copy : copy = [call EXCEPT !.audio = TRUE, !.status = "completed"] OBVIOUS
  <2>2. copy \in Call /\ Chosen(copy) BY <1>p, <1>t, <2>1 DEF Call, Chosen
  <2> QED BY <1>1, <1>p, <2>1, <2>2, CopyKeeps DEF ProcessRecording
<1>2. CASE ProcessSave(t)
  <2>1. UNCHANGED <<trail, incidents, owners, swallowed>> /\ call' = job[t].copy
    BY <1>2 DEF ProcessSave, Inside, World
  <2>2. PICK j \in Job : /\ job' = [job EXCEPT ![t] = j]
                         /\ j.step = job[t].step /\ j.at = "log" /\ j.copy = job[t].copy
    BY <1>2, GotoJob DEF ProcessSave
  <2>3. job[t].at = "save" BY <1>2 DEF ProcessSave, At
  <2>4. ThreadInv(j)' BY <1>c, <1>s, <2>1, <2>2, <2>3 DEF ThreadInv, Chosen
  <2> QED BY <1>c, <1>s, <1>t, <2>1, <2>2, <2>3, <2>4, StatementKeeps
<1>3. CASE ProcessLog(t)
  <2>1. UNCHANGED <<call, incidents, owners, swallowed>> /\ Goto(t, "user") /\ job[t].at = "log"
        /\ trail' = trail \cup {"description_recording"}
    BY <1>3 DEF ProcessLog, At, Inside, World
  <2> QED BY <1>c, <1>p, <1>s, <1>t, <2>1, GotoKeeps
<1>4. CASE ProcessUser(t)
  <2>1. UNCHANGED <<call, incidents, trail, swallowed>> /\ job[t].at = "user" /\ Goto(t, "open")
    BY <1>4 DEF ProcessUser, At, Database
  <2>2. owners' \in 0 .. 2 BY <1>4, <1>t DEF ProcessUser
  <2> QED BY <1>c, <1>p, <1>s, <1>t, <2>1, <2>2, GotoKeeps
<1>5. CASE ProcessOpen(t)
  <2>1. PICK i : i = [zone |-> job[t].copy.zone, category |-> job[t].copy.category] OBVIOUS
  <2>2. /\ incidents' = incidents \cup {i} /\ UNCHANGED <<call, trail, owners, swallowed>>
        /\ Goto(t, "link") /\ job[t].at = "open"
    BY <1>5, <2>1 DEF ProcessOpen, At, Inside, World
  <2>3. i \in Opened /\ Chosen(i) BY <1>c, <2>1, <2>2 DEF Opened, Call, Chosen
  <2>4. PICK j \in Job : /\ job' = [job EXCEPT ![t] = j]
                         /\ j.step = job[t].step /\ j.at = "link" /\ j.copy = job[t].copy
    BY <2>2, GotoJob
  <2>5. Settled' BY <2>2 DEF Settled
  <2>6. ThreadInv(j)' BY <1>c, <1>p, <1>s, <2>2, <2>4, <2>5 DEF ThreadInv, Chosen
  <2> QED BY <1>s, <1>t, <2>2, <2>3, <2>4, <2>6, StatementKeeps
<1>6. CASE ProcessLink(t)
  <2>1. PICK new : new = [job[t].copy EXCEPT !.linked = TRUE] OBVIOUS
  <2>2. /\ UNCHANGED <<trail, incidents, owners, swallowed>> /\ call' = new
        /\ job[t].at = "link" /\ Goto(t, "answer")
    BY <1>6, <2>1 DEF ProcessLink, At, Inside, World
  <2>3. new \in Call /\ Chosen(new) /\ new # Null
    BY <1>c, <2>1, <2>2, NullAssumption DEF Call, Chosen
  <2>4. PICK j \in Job : /\ job' = [job EXCEPT ![t] = j]
                         /\ j.step = job[t].step /\ j.at = "answer" /\ j.copy = job[t].copy
    BY <2>2, GotoJob
  <2>5. Settled' BY <1>p, <1>t, <2>2 DEF ThreadInv, Settled
  <2>6. ThreadInv(j)' BY <1>c, <1>s, <2>2, <2>3, <2>4, <2>5 DEF ThreadInv, Chosen
  <2> QED BY <1>s, <1>t, <2>2, <2>3, <2>4, <2>6, StatementKeeps
<1>7. CASE ProcessRaises(t)
  <2>1. /\ UNCHANGED <<call, incidents, trail, owners>> /\ swallowed' = TRUE
        /\ Goto(t, "answer")
    BY <1>7 DEF ProcessRaises, Database
  <2>2. Settled' BY <2>1 DEF Settled
  <2> QED BY <1>p, <1>s, <1>t, <2>1, <2>2, GotoKeeps
<1> QED BY <1>1, <1>2, <1>3, <1>4, <1>5, <1>6, <1>7

\* What was chosen stands when the caller has not chosen before, or goes on without choosing.
LEMMA NothingBefore ==
    ASSUME CallInv, caller.zone = Null, ~edited, NEW r, Chosen(r) PROVE r.zone = Null
<1>1. heard \in ZoneLists \cup {<<>>} BY DEF CallInv, IvrTypeOK
<1>2. DOMAIN <<>> = {} OBVIOUS
<1>3. Null \notin DOMAIN heard BY <1>1, <1>2, ListsAssumption, NullAssumption
<1> QED BY <1>3 DEF Chosen

\* The answers.
LEMMA AnswersKeep ==
    ASSUME CallInv, NEW t \in Threads,
           \/ WebhookAnswer(t) \/ SelectZoneAnswer(t) \/ SelectCategoryAnswer(t)
           \/ RecordDescriptionAnswer(t) \/ ProcessAnswer(t)
    PROVE  CallInv'
<1>t. /\ caller \in Caller /\ zones \in ZoneLists /\ heard \in ZoneLists \cup {<<>>}
      /\ ThreadInv(job[t]) /\ CallerInv
  BY DEF CallInv, IvrTypeOK
<1>s. Database /\ World /\ UNCHANGED posts /\ Finish(t)
  BY DEF WebhookAnswer, SelectZoneAnswer, SelectCategoryAnswer, RecordDescriptionAnswer,
         ProcessAnswer, Answer
<1>u. UNCHANGED <<call, edited, zones>> /\ (Settled => Settled')
  BY <1>s DEF Database, World, Settled
<1>g. ASSUME NEW at \in Steps \cup {"thanked", "gone"},
             caller' = [caller EXCEPT !.at = at] \/ caller' = caller, heard' = heard, CallerInv'
      PROVE  CallInv'
  <2>1. caller' \in Caller /\ caller'.zone = caller.zone /\ caller'.category = caller.category
    BY <1>g, <1>t DEF Caller
  <2>2. \A r : Chosen(r) => Chosen(r)' BY <1>g, <1>u, <2>1 DEF Chosen
  <2> QED BY <1>g, <1>s, <1>t, <2>1, <2>2, AnswerKeeps
<1>n. "gone" \in Steps \cup {"thanked", "gone"} /\ Steps \subseteq Steps \cup {"thanked", "gone"} OBVIOUS
<1>o. ASSUME caller' = [caller EXCEPT !.at = "gone"] \/ caller' = caller, heard' = heard
      PROVE  CallInv'
  <2>1. CallerInv'
    <3>1. CASE caller' = caller BY <1>o, <1>t, <1>u, <3>1 DEF CallerInv
    <3>2. CASE caller' = [caller EXCEPT !.at = "gone"]
      <4>1. caller'.at = "gone" /\ caller'.zone = caller.zone /\ caller'.category = caller.category
        BY <1>t, <3>2 DEF Caller
      <4> QED BY <1>o, <1>t, <1>u, <4>1 DEF CallerInv
    <3> QED BY <1>o, <3>1, <3>2
  <2> QED BY <1>g, <1>o, <2>1
<1>1. CASE WebhookAnswer(t)
  <2>1. PICK at \in {"select_zone", "gone"} :
          caller' = IF caller.at = "webhook" THEN [caller EXCEPT !.at = at] ELSE caller
    BY <1>1 DEF WebhookAnswer, Answer
  <2>2. heard' = heard /\ call # Null BY <1>1, <1>t DEF WebhookAnswer, At, ThreadInv
  <2>3. CASE caller' = caller BY <1>o, <2>2, <2>3
  <2>4. CASE caller.at = "webhook" /\ caller' = [caller EXCEPT !.at = at]
    <3>1. caller'.at = at /\ caller'.zone = Null /\ caller'.category = Null
      BY <1>t, <2>4 DEF Caller, CallerInv
    <3>2. CallerInv' BY <1>u, <2>2, <3>1 DEF CallerInv
    <3>3. at \in Steps \cup {"thanked", "gone"} BY DEF Steps
    <3> QED BY <1>g, <2>2, <2>4, <3>2, <3>3
  <2> QED BY <2>1, <2>3, <2>4
<1>2. CASE SelectZoneAnswer(t)
  <2>1. call # Null BY <1>2, <1>t DEF SelectZoneAnswer, At, ThreadInv
  <2>2. \/ caller' \in {caller, [caller EXCEPT !.at = "gone"]} /\ heard' = heard
        \/ /\ caller.at = "select_zone" /\ heard' = zones
           /\ \E digit \in Digits : caller' = [caller EXCEPT !.at = "select_category", !.zone = digit]
    BY <1>2 DEF SelectZoneAnswer, Answer
  <2>3. ASSUME caller.at = "select_zone", heard' = zones, NEW digit \in Digits,
               caller' = [caller EXCEPT !.at = "select_category", !.zone = digit]
        PROVE  CallInv'
    <3>1. /\ caller' \in Caller /\ caller'.at = "select_category" /\ caller'.zone = digit
          /\ caller'.category = caller.category
      BY <1>t, <2>3 DEF Caller, Steps
    <3>2. caller.zone = Null /\ caller.category = Null BY <1>t, <2>3 DEF CallerInv
    <3>3. CallerInv' BY <1>u, <2>1, <2>3, <3>1, <3>2 DEF CallerInv
    <3>4. ASSUME NEW r, Chosen(r) PROVE Chosen(r)'
      BY <1>u, <3>1, <3>2, <3>4, NothingBefore DEF Chosen
    <3> QED BY <1>s, <1>t, <2>3, <3>1, <3>3, <3>4, AnswerKeeps
  <2> QED BY <1>o, <2>2, <2>3
<1>3. CASE SelectCategoryAnswer(t)
  <2>1. call # Null /\ heard' = heard
    BY <1>3, <1>t DEF SelectCategoryAnswer, At, ThreadInv
  <2>2. \/ caller' \in {caller, [caller EXCEPT !.at = "gone"]}
        \/ /\ caller.at = "select_category"
           /\ \E digit \in Digits :
                caller' = [caller EXCEPT !.at = "record_description", !.category = digit]
    BY <1>3 DEF SelectCategoryAnswer, Answer
  <2>3. ASSUME caller.at = "select_category", NEW digit \in Digits,
               caller' = [caller EXCEPT !.at = "record_description", !.category = digit]
        PROVE  CallInv'
    <3>1. /\ caller' \in Caller /\ caller'.at = "record_description" /\ caller'.category = digit
          /\ caller'.zone = caller.zone
      BY <1>t, <2>3 DEF Caller, Steps
    <3>2. caller.category = Null BY <1>t, <2>3 DEF CallerInv
    <3>3. CallerInv' BY <1>t, <1>u, <2>1, <2>3, <3>1 DEF CallerInv
    <3>c. Null \notin DOMAIN Categories BY ListsAssumption, NullAssumption
    <3>4. ASSUME NEW r, Chosen(r) PROVE Chosen(r)'
      BY <1>u, <2>1, <3>1, <3>2, <3>4, <3>c DEF Chosen
    <3> QED BY <1>s, <1>t, <2>1, <2>3, <3>1, <3>3, <3>4, AnswerKeeps
  <2> QED BY <1>o, <2>1, <2>2, <2>3
<1>4. CASE RecordDescriptionAnswer(t)
  <2>1. call # Null /\ heard' = heard
    BY <1>4, <1>t DEF RecordDescriptionAnswer, At, ThreadInv
  <2>2. caller' = IF caller.at = "record_description"
                  THEN [caller EXCEPT !.at = "process_recording"] ELSE caller
    BY <1>4 DEF RecordDescriptionAnswer, Answer
  <2>3. CASE caller' = [caller EXCEPT !.at = "process_recording"]
    <3>1. /\ caller'.at = "process_recording" /\ caller'.zone = caller.zone
          /\ caller'.category = caller.category
      BY <1>t, <2>3 DEF Caller
    <3>2. CallerInv' BY <1>t, <1>u, <2>1, <3>1 DEF CallerInv
    <3>3. "process_recording" \in Steps \cup {"thanked", "gone"} BY DEF Steps
    <3> QED BY <1>g, <2>1, <2>3, <3>2, <3>3
  <2> QED BY <1>o, <2>1, <2>2, <2>3
<1>5. CASE ProcessAnswer(t)
  <2>1. call # Null /\ heard' = heard /\ Settled'
    BY <1>5, <1>t, <1>u DEF ProcessAnswer, At, ThreadInv
  <2>2. caller' = IF caller.at = "process_recording" THEN [caller EXCEPT !.at = "thanked"] ELSE caller
    BY <1>5 DEF ProcessAnswer, Answer
  <2>3. CASE caller' = [caller EXCEPT !.at = "thanked"]
    <3>1. caller'.at = "thanked" /\ caller'.zone = caller.zone /\ caller'.category = caller.category
      BY <1>t, <2>3 DEF Caller
    <3>2. CallerInv' BY <1>t, <1>u, <2>1, <3>1 DEF CallerInv
    <3> QED BY <1>g, <2>1, <2>3, <3>2
  <2> QED BY <1>o, <2>1, <2>2, <2>3
<1> QED BY <1>1, <1>2, <1>3, <1>4, <1>5

\* The form that is posted, and the thread that dies.
LEMMA PostKeeps == ASSUME CallInv, NEW t \in Threads, Post(t) \/ ThreadDies(t) PROVE CallInv'
<1>t. /\ CallerInv /\ caller \in Caller /\ posts \in 0 .. Repeats
  BY DEF CallInv, IvrTypeOK
<1>s. UNCHANGED <<call, trail, incidents, owners, swallowed, zones, edited, caller, heard>>
  BY DEF Post, ThreadDies, Database, World
<1>1. Onwards BY <1>s DEF Onwards, Chosen
<1>2. PICK j \in Job : /\ job' = [job EXCEPT ![t] = j] /\ ThreadInv(j)'
                       /\ posts' \in 0 .. Repeats
  <2>p. posts' \in 0 .. Repeats BY <1>t, RepeatsAssumption DEF Post, ThreadDies
  <2>1. CASE Post(t)
    <3>1. PICK at \in Steps : at = caller.at BY <2>1 DEF Post, Calling
    <3>2. PICK j : j = [Idle EXCEPT !.step = at] OBVIOUS
    <3>3. j \in Job /\ j.step = at /\ j.at = "read" /\ j.copy = Null BY <3>2 DEF Idle, Job
    <3>4. at # "webhook" => call' # Null BY <1>s, <1>t, <3>1 DEF CallerInv, Steps
    <3>5. ThreadInv(j)' BY <3>3, <3>4 DEF ThreadInv
    <3>6. job' = [job EXCEPT ![t] = j] BY <2>1, <3>1, <3>2 DEF Post
    <3> QED BY <2>p, <3>3, <3>5, <3>6
  <2>2. CASE ThreadDies(t)
    <3>1. Idle \in Job /\ ThreadInv(Idle)' BY DEF Idle, Job, ThreadInv
    <3> QED BY <2>2, <2>p, <3>1 DEF ThreadDies, Finish
  <2> QED BY <2>1, <2>2
<1>3. job' \in [Threads -> Job] /\ \A s \in Threads : ThreadInv(job[s])'
  BY <1>1, <1>2, ThreadsKeep
<1>4. CallerInv' BY <1>s, <1>t DEF CallerInv, Settled
<1> QED BY <1>2, <1>3, <1>4, <1>s DEF CallInv, IvrTypeOK, Chosen

\* The caller hangs up, zones change, somebody registers the number.
LEMMA WorldKeeps == ASSUME CallInv, HangUp \/ EditZones \/ RegisterNumber PROVE CallInv'
<1>t. /\ CallerInv /\ caller \in Caller /\ owners \in 0 .. 2 /\ edited \in BOOLEAN
      /\ zones \in ZoneLists
  BY DEF CallInv, IvrTypeOK
<1>s. UNCHANGED <<call, trail, incidents, posts, heard, job>>
  BY DEF HangUp, EditZones, RegisterNumber, Database
<1>w. swallowed' = swallowed BY DEF HangUp, EditZones, RegisterNumber, World
<1>1. /\ caller' \in Caller /\ caller'.zone = caller.zone /\ caller'.category = caller.category
      /\ caller'.at \in {caller.at, "gone"}
  BY <1>t DEF HangUp, EditZones, RegisterNumber, Caller
<1>a. owners' = owners \/ (owners < 2 /\ owners' = owners + 1)
  BY DEF HangUp, EditZones, RegisterNumber, World
<1>b. UNCHANGED <<zones, edited>> \/ (zones' \in ZoneLists /\ edited' = (edited \/ caller.zone # Null))
  BY DEF HangUp, EditZones, RegisterNumber, World
<1>2. owners' \in 0 .. 2 BY <1>a, <1>t
<1>z. zones' \in ZoneLists /\ edited' \in BOOLEAN BY <1>b, <1>t, Zenon
<1>3. (edited => edited') /\ (caller.zone # Null /\ ~edited' => zones' = zones)
  <2>1. CASE UNCHANGED <<zones, edited>> BY <2>1
  <2>2. CASE edited' = (edited \/ caller.zone # Null)
    <3>1. edited => edited' BY <2>2, Zenon
    <3>2. caller.zone # Null => edited' BY <2>2, Zenon
    <3> QED BY <3>1, <3>2
  <2> QED BY <1>b, <2>1, <2>2
<1>4. \A r : Chosen(r) => Chosen(r)' BY <1>1, <1>3, <1>s DEF Chosen
<1>5. Settled => Settled' BY <1>w, <1>s DEF Settled
<1>6. CallerInv' BY <1>1, <1>3, <1>5, <1>s, <1>t DEF CallerInv
<1>7. ASSUME NEW t \in Threads PROVE ThreadInv(job[t])'
  <2>1. PICK k : k = job[t] OBVIOUS
  <2>2. ThreadInv(k) BY <2>1 DEF CallInv
  <2>3. ThreadInv(k)' BY <1>4, <1>5, <1>s, <2>2 DEF ThreadInv
  <2> QED BY <1>s, <2>1, <2>3
<1>8. call' # Null => Chosen(call)' BY <1>4, <1>s DEF CallInv, Chosen
<1>9. \A i \in incidents' : Chosen(i)' BY <1>4, <1>s DEF CallInv
<1>10. IvrTypeOK' BY <1>1, <1>2, <1>w, <1>z, <1>s DEF CallInv, IvrTypeOK
<1> QED BY <1>6, <1>7, <1>8, <1>9, <1>10 DEF CallInv

LEMMA CallSpecInv == IvrSpec => []CallInv
<1>1. IvrInit => CallInv
  <2> SUFFICES ASSUME IvrInit PROVE CallInv OBVIOUS
  <2>1. Idle \in Job /\ ThreadInv(Idle) BY DEF Idle, Job, ThreadInv
  <2>2. caller \in Caller BY DEF IvrInit, Caller, Steps
  <2>3. CallerInv BY DEF IvrInit, CallerInv
  <2>4. posts \in 0 .. Repeats /\ owners \in 0 .. 2 BY RepeatsAssumption DEF IvrInit
  <2>5. job \in [Threads -> Job] BY <2>1 DEF IvrInit
  <2>6. call = Null /\ incidents = {} /\ trail = {} /\ edited \in BOOLEAN /\ swallowed \in BOOLEAN
    BY DEF IvrInit
  <2>7. zones \in ZoneLists /\ heard \in ZoneLists \cup {<<>>} BY DEF IvrInit
  <2>8. IvrTypeOK BY <2>2, <2>4, <2>5, <2>6, <2>7 DEF IvrTypeOK
  <2>9. \A t \in Threads : ThreadInv(job[t]) BY <2>1 DEF IvrInit
  <2> QED BY <2>3, <2>6, <2>8, <2>9 DEF CallInv
<1>2. CallInv /\ [IvrNext]_ivrVars => CallInv'
  <2> SUFFICES ASSUME CallInv, [IvrNext]_ivrVars PROVE CallInv' OBVIOUS
  <2>1. CASE UNCHANGED ivrVars
    BY <2>1 DEF ivrVars, CallInv, IvrTypeOK, CallerInv, Chosen, ThreadInv, Settled
  <2>2. ASSUME NEW t \in Threads, Thread(t) PROVE CallInv'
    <3>1. \/ Webhook(t) \/ WebhookSave(t)
          \/ SelectZone(t) \/ SelectCategory(t) \/ RecordDescription(t) \/ ChoiceSave(t) \/ ChoiceLog(t)
          \/ ProcessRecording(t) \/ ProcessSave(t) \/ ProcessLog(t) \/ ProcessUser(t)
          \/ ProcessOpen(t) \/ ProcessLink(t) \/ ProcessRaises(t)
          \/ WebhookAnswer(t) \/ SelectZoneAnswer(t) \/ SelectCategoryAnswer(t)
          \/ RecordDescriptionAnswer(t) \/ ProcessAnswer(t)
      BY <2>2 DEF Thread, Process
    <3> QED BY <3>1, WebhookKeeps, ChoosingKeeps, ProcessKeeps, AnswersKeep
  <2> QED BY <2>1, <2>2, PostKeeps, WorldKeeps DEF IvrNext
<1> QED BY <1>1, <1>2, PTL DEF IvrSpec

\* For any zones and categories, numbers of threads and repetitions, the incidents opened for
\* a call say what its caller chose, as long as the zones stay what he was offered.
THEOREM CallAsHeard == IvrSpec => []AsHeard
<1>1. CallInv => AsHeard BY DEF CallInv, AsHeard, Chosen
<1> QED BY <1>1, CallSpecInv, PTL

\* For any zones and categories, numbers of threads and repetitions, nobody is thanked for
\* nothing unless an exception was swallowed after a recording.
THEOREM ThanksDeserved == IvrSpec => []ThankedHasIncident
<1>1. CallInv => ThankedHasIncident BY DEF CallInv, CallerInv, Settled, ThankedHasIncident
<1> QED BY <1>1, CallSpecInv, PTL

\* What is written for a call keeps its type, whatever is repeated and whoever dies.
THEOREM CallTypeCorrect == IvrSpec => []IvrTypeOK
<1>1. CallInv => IvrTypeOK BY DEF CallInv
<1> QED BY <1>1, CallSpecInv, PTL
=============================================================================
