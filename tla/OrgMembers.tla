------------------------------ MODULE OrgMembers ------------------------------
(***************************************************************************)
(* The members of one organisation: who manages them, and the rules against   *)
(* an organisation without an administrator and against two field agents with *)
(* one telephone number.                                                    *)
(*                                                                         *)
(* A request reads an account and checks the rules against the other ones; a  *)
(* later statement saves all the columns of the account, or deletes it.       *)
(***************************************************************************)
EXTENDS FiniteSets, Naturals

CONSTANTS Threads,      \* the threads of the web server
          Users,        \* accounts that exist, have existed, or may be created
          Founders,     \* the administrators the organisation starts with
          Phones,       \* telephone numbers (an account without one is not modelled)
          Super,        \* the super admin
          None          \* no account

ASSUME UsersAssumption == IsFiniteSet(Users) /\ Founders \subseteq Users /\ Founders # {}
ASSUME PhonesAssumption == Phones # {}
ASSUME SuperAssumption == Super \notin Users

VARIABLES member,       \* the account of each user
          overridden,   \* history: an administrator was lost where the rule does not hold
          job           \* what each thread has still to write

membersVars == <<member, overridden, job>>

\* "citizen" stands for every account outside the organisation.
Roles == {"admin", "bureau", "field"}
Account == [role : Roles \cup {"citizen"}, active : BOOLEAN, phone : Phones]
ASSUME NoneAssumption == None \notin Account \cup Users
Ops == {"create", "add", "patch", "remove", "put", "delete"}
Job == [op : Ops, actor : Users \cup {Super}, target : Users, copy : Account \cup {None}]

Exists(u) == member[u] # None
Belongs(u) == Exists(u) /\ member[u].role # "citizen"
Has(u, role) == Exists(u) /\ member[u].role = role
Admins == {u \in Users : Has(u, "admin") /\ member[u].active}
FieldAgents(phone) == {u \in Users : Has(u, "field") /\ member[u].phone = phone}

MembersInit ==
    /\ \E phone \in Phones :
         member = [u \in Users |-> IF u \in Founders
                     THEN [role |-> "admin", active |-> TRUE, phone |-> phone] ELSE None]
    /\ overridden = FALSE
    /\ job = [t \in Threads |-> None]

-----------------------------------------------------------------------------
(* Who may do what.  A request of a deactivated or deleted account is refused. *)

Acts(a) == a # Super => Exists(a) /\ member[a].active
IsOrgAdmin(a) == Acts(a) /\ (a # Super => Has(a, "admin"))
IsBureau(a) == a # Super /\ Acts(a) /\ Has(a, "bureau")
CanEditUser(a, u) == Acts(a) /\ (a \in {u, Super} \/ (IsOrgAdmin(a) /\ Belongs(u)))
CanDeleteUser(a, u) == \/ IsOrgAdmin(a) /\ (a # Super => Belongs(u))
                       \/ IsBureau(a) /\ Has(u, "field")

\* The rule against removing or demoting the last active administrator; a super admin may.
\* Faulty variant: administrators that are deactivated count as others.
LastAdminCountingAll(a, u) ==
    /\ a # Super /\ Has(u, "admin") /\ member[u].active
    /\ {v \in Users : Has(v, "admin")} \subseteq {u}
LastAdmin(a, u) == a # Super /\ Has(u, "admin") /\ member[u].active /\ Admins \subseteq {u}

-----------------------------------------------------------------------------
(* What requests read and decide.                                          *)

Begin(t, op, a, u, copy) ==
    /\ job[t] = None
    /\ job' = [job EXCEPT ![t] = [op |-> op, actor |-> a, target |-> u, copy |-> copy]]
    /\ UNCHANGED <<member, overridden>>
NewAccount(role, phone) == [role |-> role, active |-> TRUE, phone |-> phone]

\* Somebody registers.
Register(t, u, phone) == ~Exists(u) /\ Begin(t, "create", u, u, NewAccount("citizen", phone))
StaffAccountCreate(t, a, u, role, phone) ==
    /\ IsOrgAdmin(a) /\ ~Exists(u) /\ role # "field"
    /\ Begin(t, "create", a, u, NewAccount(role, phone))
\* A number is refused when a field agent has it.
FieldAgentCreate(t, a, u, phone) ==
    /\ IsOrgAdmin(a) \/ IsBureau(a)
    /\ ~Exists(u) /\ FieldAgents(phone) = {}
    /\ Begin(t, "create", a, u, NewAccount("field", phone))

\* Any account joins, whatever it is now, an administrator of the organisation included.
MemberCreate(t, a, u, role) ==
    /\ IsOrgAdmin(a) /\ Exists(u) /\ Begin(t, "add", a, u, [member[u] EXCEPT !.role = role])

\* Both endpoints for one member: an office agent only touches field agents.
Manages(a, u) == Belongs(u) /\ (IsOrgAdmin(a) \/ (IsBureau(a) /\ Has(u, "field")))
\* A new number is checked; the number of somebody who becomes a field agent is not.
MemberPatch(t, a, u, role, phone) ==
    /\ Manages(a, u) /\ (IsBureau(a) => role = "field")
    /\ phone # member[u].phone => FieldAgents(phone) \subseteq {u}
    /\ role # "admin" => ~LastAdmin(a, u)
    /\ Begin(t, "patch", a, u, [member[u] EXCEPT !.role = role, !.phone = phone])
MemberDelete(t, a, u) ==
    Manages(a, u) /\ ~LastAdmin(a, u) /\ Begin(t, "remove", a, u, None)

\* Whom an office agent's report of an incident reaches: deactivated ones are not left out.
ReportToAdmin(a) == IF IsBureau(a) THEN {u \in Users : Has(u, "admin")} ELSE {}

\* The endpoints for accounts know no rule about the last administrator.
UserPut(t, a, u, role, active) ==
    /\ Exists(u) /\ CanEditUser(a, u)
    /\ Begin(t, "put", a, u, [member[u] EXCEPT !.role = role, !.active = active])
UserDelete(t, a, u) == Exists(u) /\ CanDeleteUser(a, u) /\ Begin(t, "delete", a, u, None)

-----------------------------------------------------------------------------
(* The statements.                                                         *)

\* An address that exists by now cannot be inserted.  A save inserts an account again that
\* was deleted meanwhile.
Save(t) ==
    /\ job[t] # None
    /\ LET j == job[t]
           free == j.op = "create" => ~Exists(j.target)
       IN  /\ member' = IF free THEN [member EXCEPT ![j.target] = j.copy] ELSE member
           /\ overridden' = \/ overridden
                            \/ /\ j.actor = Super \/ j.op \in {"add", "put", "delete"}
                               /\ j.target \in Admins \ Admins'
    /\ job' = [job EXCEPT ![t] = None]
ThreadDies(t) == job[t] # None /\ job' = [job EXCEPT ![t] = None] /\ UNCHANGED <<member, overridden>>

Actors == Users \cup {Super}
Requests(t) ==
    \/ \E u \in Users, phone \in Phones : Register(t, u, phone)
    \/ \E a \in Actors, u \in Users :
         \/ \E role \in Roles, phone \in Phones : StaffAccountCreate(t, a, u, role, phone)
                                                  \/ MemberPatch(t, a, u, role, phone)
         \/ \E phone \in Phones : FieldAgentCreate(t, a, u, phone)
         \/ \E role \in Roles : MemberCreate(t, a, u, role)
         \/ \E role \in Roles \cup {"citizen"}, active \in BOOLEAN : UserPut(t, a, u, role, active)
         \/ MemberDelete(t, a, u) \/ UserDelete(t, a, u)

MembersNext == \E t \in Threads : Requests(t) \/ Save(t) \/ ThreadDies(t)
MembersSpec == MembersInit /\ [][MembersNext]_membersVars

-----------------------------------------------------------------------------
(* Properties.                                                             *)

MembersTypeOK == /\ member \in [Users -> Account \cup {None}] /\ overridden \in BOOLEAN
                 /\ job \in [Threads -> Job \cup {None}]

\* As long as requests do not overlap, members who are demoted and removed one after the
\* other by each other never leave the organisation without an active administrator, nor the
\* office agents with nobody who reads what they report: only a super admin or the endpoints
\* that know no such rule do.
OrgManageable ==
    ~overridden => /\ Admins # {}
                   /\ \A a \in Users : IsBureau(a) => ReportToAdmin(a) \cap Admins # {}
=============================================================================
