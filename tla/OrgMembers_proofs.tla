--------------------------- MODULE OrgMembers_proofs ---------------------------
(***************************************************************************)
(* The types, whatever overlaps, and OrgManageable as long as requests do not *)
(* overlap, for any number of accounts, founders and telephone numbers.       *)
(*                                                                         *)
(* That there is an administrator is not inductive: a request that is about to *)
(* demote or remove one relies on another one who was there when it looked.   *)
(***************************************************************************)
EXTENDS OrgMembers, TLAPS

\* A request of a member that is about to change or remove an administrator where the rule
\* holds leaves another one, or leaves this one what he is.
Stays(copy) == copy # None /\ copy.role = "admin" /\ copy.active
Warranted(j) == j.op \in {"patch", "remove"} /\ j.actor # Super /\ j.target \in Admins
                  => Admins \ {j.target} # {} \/ Stays(j.copy)
MembersInv == /\ MembersTypeOK
              /\ ~overridden => Admins # {}
              /\ \A t \in Threads : job[t] # None => Warranted(job[t])
OneThread == \A t, u \in Threads : t = u

-----------------------------------------------------------------------------
(* Types.                                                                  *)

LEMMA BeginTyped ==
    ASSUME MembersTypeOK, NEW t \in Threads, NEW op \in Ops, NEW a \in Actors, NEW u \in Users,
           NEW copy \in Account \cup {None}, Begin(t, op, a, u, copy)
    PROVE  MembersTypeOK'
<1> DEFINE j == [op |-> op, actor |-> a, target |-> u, copy |-> copy]
<1>1. j \in Job BY DEF Job, Actors
<1>2. job' = [job EXCEPT ![t] = j] /\ UNCHANGED <<member, overridden>> BY DEF Begin
<1> HIDE DEF j
<1> QED BY <1>1, <1>2 DEF MembersTypeOK

\* What each request begins: which operation, on whose behalf, about whom, with which copy.
LEMMA RequestBegins ==
    ASSUME MembersTypeOK, NEW t \in Threads, Requests(t)
    PROVE  \E op \in Ops, a \in Actors, u \in Users, copy \in Account \cup {None} :
             /\ Begin(t, op, a, u, copy)
             /\ op = "patch" => /\ Manages(a, u) /\ copy # None
                                /\ copy.active = member[u].active
                                /\ copy.role # "admin" => ~LastAdmin(a, u)
             /\ op = "remove" => ~LastAdmin(a, u)
<1> DEFINE Goal(op, a, u, copy) ==
             /\ Begin(t, op, a, u, copy)
             /\ op = "patch" => /\ Manages(a, u) /\ copy # None
                                /\ copy.active = member[u].active
                                /\ copy.role # "admin" => ~LastAdmin(a, u)
             /\ op = "remove" => ~LastAdmin(a, u)
           Found == \E op \in Ops, a \in Actors, u \in Users, copy \in Account \cup {None} :
                      Goal(op, a, u, copy)
<1>m. \A u \in Users : member[u] \in Account \cup {None} BY DEF MembersTypeOK
<1>n. ASSUME NEW role \in Roles \cup {"citizen"}, NEW phone \in Phones
      PROVE  NewAccount(role, phone) \in Account
  BY DEF NewAccount, Account
<1>u. Users \subseteq Actors BY DEF Actors
<1>o. ASSUME NEW op \in Ops \ {"patch", "remove"}, NEW a \in Actors, NEW u \in Users,
             NEW copy \in Account \cup {None}, Begin(t, op, a, u, copy)
      PROVE  Found
  <2>1. Goal(op, a, u, copy) BY <1>o
  <2> QED BY <2>1
<1>p. {"create", "add", "put", "delete"} \subseteq Ops \ {"patch", "remove"} BY DEF Ops
<1>1. ASSUME NEW u \in Users, NEW phone \in Phones, Register(t, u, phone) PROVE Found
  <2>1. PICK copy : copy = NewAccount("citizen", phone) OBVIOUS
  <2>2. Begin(t, "create", u, u, copy) BY <1>1, <2>1 DEF Register
  <2> HIDE DEF Found
  <2> QED BY <1>n, <1>o, <1>p, <1>u, <2>1, <2>2
<1>2. ASSUME NEW a \in Actors, NEW u \in Users, NEW role \in Roles, NEW phone \in Phones,
             StaffAccountCreate(t, a, u, role, phone)
      PROVE  Found
  <2>1. PICK copy : copy = NewAccount(role, phone) OBVIOUS
  <2>2. Begin(t, "create", a, u, copy) BY <1>2, <2>1 DEF StaffAccountCreate
  <2> HIDE DEF Found
  <2> QED BY <1>n, <1>o, <1>p, <2>1, <2>2
<1>3. ASSUME NEW a \in Actors, NEW u \in Users, NEW phone \in Phones, FieldAgentCreate(t, a, u, phone)
      PROVE  Found
  <2>1. PICK copy : copy = NewAccount("field", phone) OBVIOUS
  <2>2. Begin(t, "create", a, u, copy) BY <1>3, <2>1 DEF FieldAgentCreate
  <2>3. copy \in Account BY <1>n, <2>1 DEF Roles
  <2> HIDE DEF Found
  <2> QED BY <1>o, <1>p, <2>2, <2>3
<1>4. ASSUME NEW a \in Actors, NEW u \in Users, NEW role \in Roles, MemberCreate(t, a, u, role)
      PROVE  Found
  <2>1. PICK copy : copy = [member[u] EXCEPT !.role = role] OBVIOUS
  <2>2. Begin(t, "add", a, u, copy) /\ Exists(u) BY <1>4, <2>1 DEF MemberCreate
  <2>3. copy \in Account BY <1>m, <2>1, <2>2 DEF Exists, Account
  <2> HIDE DEF Found
  <2> QED BY <1>o, <1>p, <2>2, <2>3
<1>5. ASSUME NEW a \in Actors, NEW u \in Users, NEW role \in Roles \cup {"citizen"},
             NEW active \in BOOLEAN, UserPut(t, a, u, role, active)
      PROVE  Found
  <2>1. PICK copy : copy = [member[u] EXCEPT !.role = role, !.active = active] OBVIOUS
  <2>2. Begin(t, "put", a, u, copy) /\ Exists(u) BY <1>5, <2>1 DEF UserPut
  <2>3. copy \in Account BY <1>m, <2>1, <2>2 DEF Exists, Account
  <2> HIDE DEF Found
  <2> QED BY <1>o, <1>p, <2>2, <2>3
<1>6. ASSUME NEW a \in Actors, NEW u \in Users, UserDelete(t, a, u) PROVE Found
  <2> HIDE DEF Found
  <2> QED BY <1>6, <1>o, <1>p DEF UserDelete
<1>7. ASSUME NEW a \in Actors, NEW u \in Users, MemberDelete(t, a, u) PROVE Found
  <2>1. "remove" \in Ops BY DEF Ops
  <2>2. Goal("remove", a, u, None) BY <1>7 DEF MemberDelete
  <2> HIDE DEF Goal
  <2> QED BY <2>1, <2>2
<1>8. ASSUME NEW a \in Actors, NEW u \in Users, NEW role \in Roles, NEW phone \in Phones,
             MemberPatch(t, a, u, role, phone)
      PROVE  Found
  <2>1. PICK copy : copy = [member[u] EXCEPT !.role = role, !.phone = phone] OBVIOUS
  <2>2. /\ Begin(t, "patch", a, u, copy) /\ Manages(a, u)
        /\ role # "admin" => ~LastAdmin(a, u)
    BY <1>8, <2>1 DEF MemberPatch
  <2>3. member[u] \in Account BY <1>m, <2>2 DEF Manages, Belongs, Exists
  <2>4. copy \in Account /\ copy.role = role /\ copy.active = member[u].active
    BY <2>1, <2>3 DEF Account
  <2>5. "patch" \in Ops BY DEF Ops
  <2>6. Goal("patch", a, u, copy) BY <2>2, <2>4, NoneAssumption
  <2> HIDE DEF Goal
  <2> QED BY <2>4, <2>5, <2>6
<1>9. Found
  <2> HIDE DEF Found
  <2> QED BY <1>1, <1>2, <1>3, <1>4, <1>5, <1>6, <1>7, <1>8 DEF Requests
<1> QED BY <1>9

LEMMA SaveTyped == ASSUME MembersTypeOK, NEW t \in Threads, Save(t) PROVE MembersTypeOK'
<1>1. job[t] \in Job BY DEF Save, MembersTypeOK
<1>2. job[t].target \in Users /\ job[t].copy \in Account \cup {None} BY <1>1 DEF Job
<1>3. member' = [member EXCEPT ![job[t].target] = job[t].copy] \/ member' = member BY DEF Save
<1>4. member' \in [Users -> Account \cup {None}] BY <1>2, <1>3 DEF MembersTypeOK
<1>5. overridden' \in BOOLEAN BY DEF Save, MembersTypeOK
<1>6. job' \in [Threads -> Job \cup {None}] BY DEF Save, MembersTypeOK
<1> QED BY <1>4, <1>5, <1>6 DEF MembersTypeOK

LEMMA InitTyped == MembersInit => MembersTypeOK
<1> SUFFICES ASSUME MembersInit PROVE MembersTypeOK OBVIOUS
<1>1. PICK phone \in Phones :
        member = [u \in Users |-> IF u \in Founders
                    THEN [role |-> "admin", active |-> TRUE, phone |-> phone] ELSE None]
  BY DEF MembersInit
<1>2. [role |-> "admin", active |-> TRUE, phone |-> phone] \in Account BY DEF Account, Roles
<1> QED BY <1>1, <1>2 DEF MembersInit, MembersTypeOK

LEMMA NextTyped == MembersTypeOK /\ [MembersNext]_membersVars => MembersTypeOK'
<1> SUFFICES ASSUME MembersTypeOK, [MembersNext]_membersVars PROVE MembersTypeOK' OBVIOUS
<1>1. ASSUME NEW t \in Threads, Requests(t) PROVE MembersTypeOK'
  BY <1>1, RequestBegins, BeginTyped
<1>2. ASSUME NEW t \in Threads, ThreadDies(t) PROVE MembersTypeOK'
  BY <1>2 DEF ThreadDies, MembersTypeOK
<1>3. CASE UNCHANGED membersVars BY <1>3 DEF membersVars, MembersTypeOK
<1> QED BY <1>1, <1>2, <1>3, SaveTyped DEF MembersNext

\* However many threads overlap, only accounts of their type are written.
THEOREM MembersTypeCorrect == MembersSpec => []MembersTypeOK
BY InitTyped, NextTyped, PTL DEF MembersSpec

-----------------------------------------------------------------------------
(* An administrator is left, when requests do not overlap.                  *)

\* A request that begins has looked.
LEMMA RequestsKeep ==
    ASSUME OneThread, MembersInv, NEW t \in Threads, Requests(t) PROVE MembersInv'
<1>1. PICK op \in Ops, a \in Actors, u \in Users, copy \in Account \cup {None} :
        /\ Begin(t, op, a, u, copy)
        /\ op = "patch" => /\ Manages(a, u) /\ copy # None
                           /\ copy.active = member[u].active
                           /\ copy.role # "admin" => ~LastAdmin(a, u)
        /\ op = "remove" => ~LastAdmin(a, u)
  BY RequestBegins DEF MembersInv
<1>2. MembersTypeOK' BY <1>1, BeginTyped DEF MembersInv
<1>3. UNCHANGED <<member, overridden>> /\ Admins' = Admins BY <1>1 DEF Begin, Admins, Has, Exists
<1>4. PICK j : j = [op |-> op, actor |-> a, target |-> u, copy |-> copy] OBVIOUS
<1>5. job'[t] = j BY <1>1, <1>4 DEF Begin, MembersInv, MembersTypeOK
<1>6. Warranted(j)
  <2>1. SUFFICES ASSUME op \in {"patch", "remove"}, a # Super, u \in Admins, Admins \subseteq {u}
                 PROVE  Stays(copy)
    BY <1>4 DEF Warranted
  <2>2. LastAdmin(a, u) /\ member[u].active BY <2>1 DEF LastAdmin, Admins
  <2>3. op = "patch" /\ copy.role = "admin" /\ copy # None /\ copy.active BY <1>1, <2>1, <2>2
  <2> QED BY <2>3 DEF Stays
<1>7. Warranted(j)' BY <1>3, <1>6 DEF Warranted, Stays
<1>8. \A s \in Threads : Warranted(job[s])' BY <1>5, <1>7 DEF OneThread, Warranted, Stays
<1> QED BY <1>2, <1>3, <1>8 DEF MembersInv

\* What it saves leaves an administrator, unless it goes past the rule.
LEMMA SaveKeeps == ASSUME OneThread, MembersInv, NEW t \in Threads, Save(t) PROVE MembersInv'
<1>1. MembersTypeOK' BY SaveTyped DEF MembersInv
<1>2. PICK j : j = job[t] OBVIOUS
<1>3. j \in Job /\ j # None /\ Warranted(j) BY <1>2 DEF Save, MembersInv, MembersTypeOK
<1>4. j.target \in Users /\ j.op \in Ops BY <1>3 DEF Job
<1>5. \A u \in Users \ {j.target} : member'[u] = member[u]
  BY <1>2, <1>4 DEF Save, MembersInv, MembersTypeOK
<1>6. Admins \ {j.target} \subseteq Admins' BY <1>5 DEF Admins, Has, Exists
<1>7. ASSUME ~overridden' PROVE Admins' # {}
  <2>1. ~overridden /\ Admins # {} BY <1>7 DEF Save, MembersInv
  <2>2. CASE j.target \notin Admins BY <1>6, <2>1, <2>2
  <2>3. CASE j.target \in Admins'  BY <2>3
  <2>4. CASE j.target \in Admins \ Admins'
    <3>1. j.actor # Super /\ j.op \notin {"add", "put", "delete"} BY <1>2, <1>7, <2>4 DEF Save
    <3>2. Exists(j.target) BY <2>4 DEF Admins, Has
    <3>3. j.op # "create"
      BY <1>2, <1>4, <2>4, <3>2 DEF Save, Admins, Has, Exists
    <3>4. j.op \in {"patch", "remove"} BY <1>4, <3>1, <3>3 DEF Ops
    <3>5. ~Stays(j.copy)
      <4>1. member'[j.target] = j.copy
        BY <1>2, <1>4, <3>3 DEF Save, MembersInv, MembersTypeOK
      <4> QED BY <1>4, <2>4, <4>1 DEF Stays, Admins, Has, Exists
    <3> QED BY <1>3, <1>6, <2>4, <3>1, <3>4, <3>5 DEF Warranted
  <2> QED BY <2>2, <2>3, <2>4
<1>8. \A s \in Threads : job'[s] = None BY DEF Save, OneThread, MembersInv, MembersTypeOK
<1> QED BY <1>1, <1>7, <1>8 DEF MembersInv

\* As long as requests do not overlap, an organisation keeps an active administrator who reads
\* its office agents' reports, however its members edit and remove each other: for any number
\* of accounts and numbers, threads that die included.
THEOREM Manageable == ASSUME OneThread PROVE MembersSpec => []OrgManageable
<1>1. MembersInit => MembersInv
  <2> SUFFICES ASSUME MembersInit PROVE MembersInv OBVIOUS
  <2>1. PICK u \in Founders : u \in Users BY UsersAssumption
  <2>2. u \in Admins
    <3>1. PICK phone \in Phones :
            member[u] = [role |-> "admin", active |-> TRUE, phone |-> phone]
      BY <2>1 DEF MembersInit
    <3>2. [role |-> "admin", active |-> TRUE, phone |-> phone] \in Account BY DEF Account, Roles
    <3> QED BY <2>1, <3>1, <3>2, NoneAssumption DEF Admins, Has, Exists
  <2> QED BY <2>2, InitTyped DEF MembersInit, MembersInv
<1>2. MembersInv /\ [MembersNext]_membersVars => MembersInv'
  <2> SUFFICES ASSUME MembersInv, [MembersNext]_membersVars PROVE MembersInv' OBVIOUS
  <2>t. MembersTypeOK' BY NextTyped DEF MembersInv
  <2>1. ASSUME NEW t \in Threads, ThreadDies(t) PROVE MembersInv'
    <3>1. UNCHANGED <<member, overridden>> /\ Admins' = Admins
      BY <2>1 DEF ThreadDies, Admins, Has, Exists
    <3>2. \A s \in Threads : job'[s] = None BY <2>1 DEF ThreadDies, OneThread, MembersInv, MembersTypeOK
    <3> QED BY <2>t, <3>1, <3>2 DEF MembersInv
  <2>2. CASE UNCHANGED membersVars
    <3>1. Admins' = Admins BY <2>2 DEF membersVars, Admins, Has, Exists
    <3> QED BY <2>t, <2>2, <3>1 DEF membersVars, MembersInv, Warranted, Stays
  <2> QED BY <2>1, <2>2, RequestsKeep, SaveKeeps DEF MembersNext
<1>3. MembersInv => OrgManageable
  <2> SUFFICES ASSUME MembersInv, ~overridden
               PROVE  Admins # {} /\ \A a \in Users : IsBureau(a) => ReportToAdmin(a) \cap Admins # {}
    BY DEF OrgManageable
  <2>1. Admins # {} BY DEF MembersInv
  <2>2. \A a \in Users : IsBureau(a) => Admins \subseteq ReportToAdmin(a) BY DEF ReportToAdmin, Admins
  <2> QED BY <2>1, <2>2
<1> QED BY <1>1, <1>2, <1>3, PTL DEF MembersSpec
=============================================================================
