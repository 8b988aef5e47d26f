----------------------------- MODULE Account_proofs -----------------------------
(***************************************************************************)
(* PinChosen and CodesInTime, and the types, for any number of threads and    *)
(* one-time codes.                                                          *)
(*                                                                         *)
(* A save writes back whatever copy of the account the thread has in memory,  *)
(* so that nothing about the row alone is inductive: the invariant asks of    *)
(* every copy what it asks of the row.                                       *)
(***************************************************************************)
EXTENDS Account, SequenceTheorems, TLAPS

\* A PIN that was drawn must be changed unless a form was to end that, and the age of the one-time code is the time
\* since it was sent.
RowInv(r) ==
    r # None => /\ r \in Row
                /\ r.pin = "drawn" => r.forced \/ waived
                /\ r.otp # None => r.otpAge # None /\ r.otpAge = sent[r.otp]
\* While a whole row is still to be saved, there is one in memory.
Saves(todo) == \E i \in DOMAIN todo : todo[i] = "save"
JobInv(j) == RowInv(j.copy) /\ (Saves(j.todo) => j.copy \in Row)
AccountInv == /\ account \in Row \cup {None} /\ RowInv(account)
              /\ sent \in [Otps -> OtpAges \cup {None}]
              /\ job \in [Threads -> [todo : Seq(Statement), copy : Row \cup {None}]]
              /\ \A t \in Threads : JobInv(job[t])

LEMMA NoRow == RowInv(None) /\ JobInv(Idle) /\ Idle \in [todo : Seq(Statement), copy : Row \cup {None}]
BY DEF RowInv, JobInv, Idle, Saves

LEMMA InitInv == AccountInit => AccountInv
BY NoRow DEF AccountInit, AccountInv, RowInv

LEMMA FreshRow == ASSUME NEW role \in Roles PROVE Fresh(role) \in Row /\ RowInv(Fresh(role))
<1>1. Fresh(role) \in Row BY DEF Fresh, Row
<1> QED BY <1>1, NoneAssumption DEF RowInv, Fresh

\* What requests do to the copy they read keeps it right.
LEMMA EditedRow ==
    ASSUME NEW r, RowInv(r), r # None,
           NEW role \in Roles
    PROVE  /\ RowInv([r EXCEPT !.role = role])
           /\ RowInv([r EXCEPT !.otp = None])
BY NoneAssumption DEF RowInv, Row

-----------------------------------------------------------------------------
(* Requests.                                                               *)

\* What a request has to do is a sequence of names.
LEMMA Names ==
    ASSUME NEW S, NEW x \in S, NEW y \in S, NEW z \in S
    PROVE  <<>> \in Seq(S) /\ <<x>> \in Seq(S) /\ <<x, y>> \in Seq(S) /\ <<x, y, z>> \in Seq(S)
OBVIOUS

\* The statements of MemberCreate and MemberPatch are not those of a login.
LEMMA SaveLast ==
    ASSUME NEW s \in Seq(Statement)
    PROVE  s \o <<"save">> \in Seq(Statement) /\ s \o <<"save">> # <<"login">>
<1> DEFINE todo == s \o <<"save">>
<1>1. <<"save">> \in Seq(Statement)
  <2>1. "save" \in Statement BY DEF Statement
  <2> QED BY <2>1, Names
<1>a. Len(<<"save">>) = 1 /\ <<"save">>[1] = "save" OBVIOUS
<1>2. todo \in Seq(Statement) /\ Len(todo) = Len(s) + 1 BY <1>1, <1>a, ConcatProperties
<1>3. todo[Len(s) + 1] = "save"
  <2>1. Len(s) \in Nat OBVIOUS
  <2>2. Len(s) + 1 \in 1 .. Len(s) + Len(<<"save">>) BY <1>a, <2>1
  <2>3. todo[Len(s) + 1] = <<"save">>[Len(s) + 1 - Len(s)] BY <1>1, <1>a, <2>1, <2>2, ConcatProperties
  <2> QED BY <1>a, <2>1, <2>3
<1> HIDE DEF todo
<1>4. SUFFICES ASSUME todo = <<"login">> PROVE FALSE BY <1>2 DEF todo
<1>5. Len(todo) = 1 /\ todo[1] = "login" BY <1>4
<1>6. Len(s) + 1 = 1 BY <1>2, <1>5
<1>7. todo[1] = "save" BY <1>3, <1>6
<1> QED BY <1>5, <1>7

LEMMA Todo ==
    ASSUME NEW p, NEW q
    PROVE  /\ If(p, "code") \o If(q, "pin") \in Seq(Statement)
           /\ If(p, "code") \in Seq(Statement)
<1>1. <<"code">> \in Seq(Statement) /\ <<"pin">> \in Seq(Statement) /\ <<>> \in Seq(Statement)
  <2>1. "code" \in Statement /\ "pin" \in Statement BY DEF Statement
  <2> QED BY <2>1, Names
<1>2. If(p, "code") \in Seq(Statement) /\ If(q, "pin") \in Seq(Statement) BY <1>1 DEF If
<1> QED BY <1>2, ConcatProperties

LEMMA BeginInv ==
    ASSUME AccountInv, NEW t \in Threads, NEW todo \in Seq(Statement), NEW copy, RowInv(copy)',
           Saves(todo) => copy \in Row, Begin(t, todo, copy), UNCHANGED sent, waived => waived'
    PROVE  AccountInv'
<1> DEFINE j == [todo |-> todo, copy |-> copy]
<1>1. JobInv(j)' BY DEF JobInv, RowInv
<1>2. j \in [todo : Seq(Statement), copy : Row \cup {None}] BY DEF RowInv
<1>3. job' = [job EXCEPT ![t] = j] /\ account' = account BY DEF Begin
<1> HIDE DEF j
<1>4. ASSUME NEW s \in Threads PROVE JobInv(job[s])'
  <2>1. CASE s = t BY <2>1, <1>1, <1>3 DEF AccountInv, JobInv, RowInv
  <2>2. CASE s # t BY <2>2, <1>3 DEF AccountInv, JobInv, RowInv
  <2> QED BY <2>1, <2>2
<1> QED BY <1>2, <1>3, <1>4 DEF AccountInv, RowInv

\* What a request that asks for no code has to do, and the copy it read.
LEMMA Begun ==
    ASSUME AccountInv, NEW t \in Threads, Begins(t), (\A f \in Forms : ~UserPut(t, f)),
           (\A c \in Otps : ~RequestOtp(t, c)), ~PasswordResetRequest(t)
    PROVE  \E todo \in Seq(Statement), copy \in Row \cup {None} :
             /\ RowInv(copy) /\ (Saves(todo) => copy \in Row)
             /\ Begin(t, todo, copy) /\ UNCHANGED <<sent, waived>>
             /\ todo = <<"login">> => VerifyOtp(t)
<1> DEFINE Goal == \E todo \in Seq(Statement), copy \in Row \cup {None} :
             /\ RowInv(copy) /\ (Saves(todo) => copy \in Row)
             /\ Begin(t, todo, copy) /\ UNCHANGED <<sent, waived>>
             /\ todo = <<"login">> => VerifyOtp(t)
<1> HIDE DEF Goal
<1>a. ASSUME NEW todo \in Seq(Statement), NEW copy \in Row, RowInv(copy),
             Begin(t, todo, copy), Same, todo # <<"login">> \/ VerifyOtp(t)
      PROVE  Goal
  BY <1>a DEF Same, Goal
<1>b. /\ <<"insert">> \in Seq(Statement) /\ <<"save">> \in Seq(Statement) /\ <<"login">> \in Seq(Statement)
      /\ <<"change_pin">> \in Seq(Statement) /\ <<"delete">> \in Seq(Statement)
      /\ <<"reset", "mark">> \in Seq(Statement) /\ <<"insert", "code", "pin">> \in Seq(Statement)
  <2>1. /\ "insert" \in Statement /\ "save" \in Statement /\ "login" \in Statement
        /\ "change_pin" \in Statement /\ "delete" \in Statement /\ "reset" \in Statement
        /\ "mark" \in Statement /\ "code" \in Statement /\ "pin" \in Statement
    BY DEF Statement
  <2> QED BY <2>1, Names
<1>c. Exists => account \in Row /\ RowInv(account) BY DEF Exists, AccountInv
<1>d. Fresh("citizen") \in Row /\ Fresh("staff") \in Row /\ Fresh("field") \in Row
      /\ RowInv(Fresh("citizen")) /\ RowInv(Fresh("staff")) /\ RowInv(Fresh("field"))
  <2>1. "citizen" \in Roles /\ "staff" \in Roles /\ "field" \in Roles BY DEF Roles
  <2> QED BY <2>1, FreshRow
<1>1. ASSUME Register(t) \/ StaffAccountCreate(t) \/ FieldAgentCreate(t) PROVE Goal
  <2>1. <<"insert">> # <<"login">> /\ <<"insert", "code", "pin">> # <<"login">> OBVIOUS
  <2> QED BY <1>1, <1>a, <1>b, <1>d, <2>1 DEF Register, StaffAccountCreate, FieldAgentCreate
<1>2. ASSUME NEW role \in Roles, MemberCreate(t, role) PROVE Goal
  <2> DEFINE p == role = "field" /\ ~account.code
             q == role = "field" /\ account.pin = None
             head == If(p, "code") \o If(q, "pin")
             copy == [account EXCEPT !.role = role]
  <2>1. head \in Seq(Statement) BY Todo
  <2>2. RowInv(copy) /\ copy \in Row BY <1>2, <1>c, NoneAssumption, EditedRow DEF MemberCreate, Row
  <2>3. Begin(t, head \o <<"save">>, copy) /\ Same BY <1>2 DEF MemberCreate
  <2> HIDE DEF head, copy
  <2>4. head \o <<"save">> \in Seq(Statement) /\ head \o <<"save">> # <<"login">> BY <2>1, SaveLast
  <2> QED BY <2>2, <2>3, <2>4, <1>a
<1>3. ASSUME NEW role \in Roles, MemberPatch(t, role) PROVE Goal
  <2> DEFINE head == If(role = "field" /\ ~account.code, "code")
             copy == [account EXCEPT !.role = role]
  <2>1. head \in Seq(Statement) BY Todo
  <2>2. RowInv(copy) /\ copy \in Row BY <1>3, <1>c, NoneAssumption, EditedRow DEF MemberPatch, Row
  <2>3. Begin(t, head \o <<"save">>, copy) /\ Same BY <1>3 DEF MemberPatch
  <2> HIDE DEF head, copy
  <2>4. head \o <<"save">> \in Seq(Statement) /\ head \o <<"save">> # <<"login">> BY <2>1, SaveLast
  <2> QED BY <2>2, <2>3, <2>4, <1>a
<1>4. <<"save">> # <<"login">> OBVIOUS
<1>6. ASSUME AddPoints(t) \/ VerifyEmail(t) \/ ChangePassword(t) PROVE Goal
  <2>1. Exists /\ Same /\ Begin(t, <<"save">>, account)
    BY <1>6 DEF AddPoints, VerifyEmail, ChangePassword
  <2> QED BY <2>1, <1>a, <1>b, <1>c, <1>4
<1>7. ASSUME UserDelete(t) \/ ChangePin(t) PROVE Goal
  <2>1. Same /\ (Begin(t, <<"delete">>, None) \/ Begin(t, <<"change_pin">>, None))
    BY <1>7 DEF UserDelete, ChangePin
  <2>2. RowInv(None) BY NoRow
  <2>3. ~Saves(<<"delete">>) /\ ~Saves(<<"change_pin">>) BY DEF Saves
  <2>4. <<"delete">> # <<"login">> /\ <<"change_pin">> # <<"login">> OBVIOUS
  <2> QED BY <2>1, <2>2, <2>3, <2>4, <1>b DEF Goal, Same
<1>8. ASSUME VerifyOtp(t) PROVE Goal
  <2> DEFINE copy == [account EXCEPT !.otp = None]
  <2>1. Exists /\ Same /\ Begin(t, <<"login">>, copy) BY <1>8 DEF VerifyOtp
  <2>2. copy \in Row /\ RowInv(copy) BY <2>1, <1>c, NoneAssumption DEF RowInv, Row
  <2> HIDE DEF copy
  <2> QED BY <2>1, <2>2, <1>a, <1>b, <1>8
<1>9. ASSUME PasswordReset(t) PROVE Goal
  <2>1. Exists /\ Same /\ Begin(t, <<"reset", "mark">>, account) BY <1>9 DEF PasswordReset
  <2>2. <<"reset", "mark">> # <<"login">> OBVIOUS
  <2> QED BY <2>1, <2>2, <1>a, <1>b, <1>c
<1> QED BY <1>1, <1>2, <1>3, <1>6, <1>7, <1>8, <1>9 DEF Begins, Goal

\* A code that is drawn was never sent, so that no row holds it yet.
LEMMA OtherCode ==
    ASSUME NEW r, RowInv(r), NEW c \in Otps, sent \in [Otps -> OtpAges \cup {None}], sent[c] = None,
           sent' = [sent EXCEPT ![c] = 0], UNCHANGED waived
    PROVE  RowInv(r)'
<1>1. SUFFICES ASSUME r # None PROVE RowInv(r)' BY DEF RowInv
<1>2. r \in Row /\ (r.otp # None => r.otpAge # None /\ r.otpAge = sent[r.otp]) BY <1>1 DEF RowInv
<1>3. r.otp # None => r.otp \in Otps /\ r.otp # c BY <1>2 DEF Row
<1>4. r.otp # None => sent'[r.otp] = sent[r.otp] BY <1>3
<1> QED BY <1>1, <1>2, <1>4 DEF RowInv

LEMMA RequestOtpInv ==
    ASSUME AccountInv, NEW t \in Threads, NEW c \in Otps, RequestOtp(t, c) PROVE AccountInv'
<1>1. PICK copy : copy = [account EXCEPT !.otp = c, !.otpAge = 0] OBVIOUS
<1>2. /\ job' = [job EXCEPT ![t] = [todo |-> <<"save">>, copy |-> copy]] /\ account' = account
      /\ sent' = [sent EXCEPT ![c] = 0] /\ sent[c] = None /\ account \in Row /\ UNCHANGED waived
  BY <1>1 DEF RequestOtp, Begin, AccountInv, Exists
<1>3. copy \in Row
  <2>1. 0 \in OtpAges BY TimesAssumption DEF OtpAges
  <2> QED BY <1>1, <1>2, <2>1 DEF Row
<1>4. RowInv(copy)'
  <2>1. copy.otp = c /\ copy.otpAge = 0 /\ copy.pin = account.pin /\ copy.forced = account.forced
    BY <1>1, <1>2 DEF Row
  <2>2. sent'[c] = 0 /\ 0 # None BY <1>2, NoneAssumption DEF AccountInv
  <2>3. account # None BY <1>2, NoneAssumption
  <2> QED BY <1>2, <1>3, <2>1, <2>2, <2>3 DEF RowInv, AccountInv
<1>5. sent' \in [Otps -> OtpAges \cup {None}] BY <1>2, TimesAssumption DEF AccountInv, OtpAges
<1>6. RowInv(account)'
  <2>1. PICK r : r = account OBVIOUS
  <2>2. RowInv(r)' BY <1>2, <2>1, OtherCode DEF AccountInv
  <2> QED BY <1>2, <2>1, <2>2 DEF RowInv
<1> DEFINE j == [todo |-> <<"save">>, copy |-> copy]
<1>7. j \in [todo : Seq(Statement), copy : Row \cup {None}]
  <2>1. "save" \in Statement BY DEF Statement
  <2> QED BY <1>3, <2>1, Names
<1>8. ASSUME NEW s \in Threads PROVE JobInv(job[s])'
  <2>1. CASE s = t BY <2>1, <1>2, <1>3, <1>4 DEF AccountInv, JobInv, RowInv
  <2>2. CASE s # t
    <3>1. PICK k : k = job[s] OBVIOUS
    <3>2. JobInv(k) BY <3>1 DEF AccountInv
    <3>3. RowInv(k.copy)' BY <1>2, <3>2, OtherCode DEF AccountInv, JobInv
    <3>4. job'[s] = k BY <2>2, <1>2, <3>1 DEF AccountInv
    <3> QED BY <3>2, <3>3, <3>4 DEF JobInv, RowInv
  <2> QED BY <2>1, <2>2
<1> QED BY <1>2, <1>5, <1>6, <1>7, <1>8 DEF AccountInv

\* A form that takes the obligation to change a PIN away, or leaves it as it is.
LEMMA UserPutInv ==
    ASSUME AccountInv, NEW t \in Threads, NEW f \in Forms, UserPut(t, f) PROVE AccountInv'
<1>1. PICK copy : /\ Begin(t, <<"save">>, copy)
                  /\ copy = [account EXCEPT
                        !.role = IF "role" \in f.carries THEN f.values.role ELSE account.role,
                        !.code = IF "code" \in f.carries THEN f.values.code ELSE account.code,
                        !.forced = IF "forced" \in f.carries THEN f.values.forced ELSE account.forced]
  BY DEF UserPut
<1>2. account \in Row /\ RowInv(account) /\ account # None BY DEF UserPut, Exists, AccountInv
<1>3. f.values \in Row BY FormsAssumption
<1>4. copy \in Row BY <1>1, <1>2, <1>3 DEF Row
<1>5. /\ copy.pin = account.pin /\ copy.otp = account.otp /\ copy.otpAge = account.otpAge
      /\ copy.forced = IF "forced" \in f.carries THEN f.values.forced ELSE account.forced
  BY <1>1, <1>2 DEF Row
<1>6. /\ UNCHANGED sent
      /\ waived' <=> waived \/ ("forced" \in f.carries /\ account.forced /\ ~f.values.forced)
  BY Zenon DEF UserPut
<1>7. account.pin = "drawn" => copy.forced \/ waived' BY <1>2, <1>5, <1>6 DEF RowInv
<1>8. RowInv(copy)' BY <1>2, <1>4, <1>5, <1>6, <1>7 DEF RowInv
<1>9. <<"save">> \in Seq(Statement)
  <2>1. "save" \in Statement BY DEF Statement
  <2> QED BY <2>1, Names
<1> QED BY <1>1, <1>4, <1>6, <1>8, <1>9, BeginInv

LEMMA RequestsInv ==
    ASSUME AccountInv, NEW t \in Threads, Begins(t) PROVE AccountInv'
<1>1. CASE \E c \in Otps : RequestOtp(t, c) BY <1>1, RequestOtpInv
<1>2. CASE PasswordResetRequest(t)
  BY <1>2 DEF PasswordResetRequest, Same, AccountInv, RowInv, JobInv
<1>3. CASE /\ (\A c \in Otps : ~RequestOtp(t, c)) /\ ~PasswordResetRequest(t)
           /\ \A f \in Forms : ~UserPut(t, f)
  <2>1. PICK todo \in Seq(Statement), copy \in Row \cup {None} :
          /\ RowInv(copy) /\ (Saves(todo) => copy \in Row)
          /\ Begin(t, todo, copy) /\ UNCHANGED <<sent, waived>>
    BY <1>3, Begun
  <2>2. RowInv(copy)' BY <2>1 DEF RowInv
  <2> QED BY <2>1, <2>2, BeginInv
<1>4. ASSUME NEW f \in Forms, UserPut(t, f) PROVE AccountInv' BY <1>4, UserPutInv
<1> QED BY <1>1, <1>2, <1>3, <1>4

-----------------------------------------------------------------------------
(* Statements.                                                             *)

LEMMA TailSaves ==
    ASSUME NEW todo \in Seq(Statement), todo # <<>>
    PROVE  Tail(todo) \in Seq(Statement) /\ (Saves(Tail(todo)) => Saves(todo))
<1>1. Tail(todo) \in Seq(Statement) /\ Len(Tail(todo)) = Len(todo) - 1
      /\ \A i \in 1 .. Len(Tail(todo)) : Tail(todo)[i] = todo[i + 1]
  BY HeadTailProperties
<1>2. Len(todo) \in Nat /\ DOMAIN todo = 1 .. Len(todo) /\ DOMAIN Tail(todo) = 1 .. Len(Tail(todo))
  BY <1>1, LenProperties
<1>3. ASSUME NEW i \in DOMAIN Tail(todo), Tail(todo)[i] = "save" PROVE Saves(todo)
  <2>1. i \in 1 .. Len(todo) - 1 BY <1>1, <1>2
  <2>2. i + 1 \in 1 .. Len(todo) BY <1>2, <2>1
  <2>3. todo[i + 1] = "save" BY <1>1, <1>2, <1>3
  <2> QED BY <1>2, <2>2, <2>3 DEF Saves
<1> QED BY <1>1, <1>3 DEF Saves

\* A thread that goes on with a copy that is right, or ends.
LEMMA DoneInv ==
    ASSUME AccountInv, UNCHANGED <<sent, waived>>, NEW t \in Threads, job[t].todo # <<>>,
           NEW copy, Saves(Tail(job[t].todo)) => copy \in Row /\ RowInv(copy),
           Done(t, copy) \/ End(t)
    PROVE  /\ job' \in [Threads -> [todo : Seq(Statement), copy : Row \cup {None}]]
           /\ \A s \in Threads : JobInv(job[s])'
<1>1. PICK j \in [todo : Seq(Statement), copy : Row \cup {None}] :
        job' = [job EXCEPT ![t] = j] /\ JobInv(j)
  <2>1. CASE End(t) BY <2>1, NoRow DEF End
  <2>2. CASE Done(t, copy)
    <3> DEFINE rest == Tail(job[t].todo)
    <3>1. rest \in Seq(Statement) BY TailSaves DEF AccountInv
    <3>2. job' = [job EXCEPT ![t] = [todo |-> rest, copy |-> IF Saves(rest) THEN copy ELSE None]]
      BY <2>2 DEF Done, Saves
    <3> HIDE DEF rest
    <3> DEFINE j == [todo |-> rest, copy |-> IF Saves(rest) THEN copy ELSE None]
    <3>3. Saves(rest) => copy \in Row /\ RowInv(copy) BY DEF rest
    <3>4. j \in [todo : Seq(Statement), copy : Row \cup {None}] /\ JobInv(j)
      BY <3>1, <3>3, NoRow DEF JobInv
    <3>5. job' = [job EXCEPT ![t] = j] BY <3>2
    <3> HIDE DEF j
    <3> QED BY <3>4, <3>5
  <2> QED BY <2>1, <2>2
<1>2. ASSUME NEW s \in Threads PROVE JobInv(job[s])'
  <2>1. CASE s = t BY <2>1, <1>1 DEF AccountInv, JobInv, RowInv
  <2>2. CASE s # t BY <2>2, <1>1 DEF AccountInv, JobInv, RowInv
  <2> QED BY <2>1, <2>2
<1> QED BY <1>1, <1>2 DEF AccountInv

LEMMA StatementsInv ==
    ASSUME AccountInv, NEW t \in Threads, Statements(t) \/ ThreadDies(t) PROVE AccountInv'
<1> DEFINE JobsInv == /\ job' \in [Threads -> [todo : Seq(Statement), copy : Row \cup {None}]]
                      /\ \A s \in Threads : JobInv(job[s])'
<1> HIDE DEF JobsInv
<1>1. RowInv(job[t].copy) /\ job[t].copy \in Row \cup {None} BY DEF AccountInv, JobInv
<1>2. job[t].todo # <<>> /\ Saves(Tail(job[t].todo)) => job[t].copy \in Row
  BY TailSaves DEF AccountInv, JobInv
<1>3. SUFFICES ASSUME UNCHANGED <<sent, waived>>
               PROVE  account' \in Row \cup {None} /\ RowInv(account)' /\ JobsInv
  BY DEF AccountInv, JobsInv, Statements, Insert, SaveCode, SavePin, SaveChosenPin, SaveAccount,
         MarkUsed, Delete, ThreadDies, Same
<1>a. ASSUME job[t].todo # <<>>, Next(t) \/ End(t) PROVE JobsInv
  BY <1>a, <1>1, <1>2, <1>3, DoneInv DEF Next, JobsInv
<1>b. ASSUME account' \in {None, account, job[t].copy} PROVE account' \in Row \cup {None} /\ RowInv(account)'
  BY <1>b, <1>1, <1>3 DEF AccountInv, RowInv
<1>c. ASSUME Exists PROVE account \in Row BY <1>c DEF Exists, AccountInv
<1>4. CASE Insert(t) BY <1>4, <1>a, <1>b DEF Insert, At
<1>5. CASE SaveCode(t)
  <2>1. CASE ~Exists BY <2>1, <1>5, <1>a, <1>b DEF SaveCode, RowGone, At, Exists
  <2>2. CASE Exists
    <3>1. PICK copy : copy = [job[t].copy EXCEPT !.code = TRUE] OBVIOUS
    <3>2. job[t].copy \in Row => copy \in Row /\ RowInv(copy)
      BY <1>1, <3>1, NoneAssumption DEF Row, RowInv
    <3>3. Done(t, copy) /\ job[t].todo # <<>> /\ account' = [account EXCEPT !.code = TRUE]
      BY <1>5, <2>2, <3>1 DEF SaveCode, RowGone, At
    <3>4. JobsInv BY <1>2, <1>3, <3>2, <3>3, DoneInv DEF JobsInv
    <3>5. account' \in Row BY <1>c, <2>2, <3>3 DEF Row
    <3>6. RowInv(account)'
      BY <1>3, <1>c, <2>2, <3>3, <3>5, NoneAssumption DEF AccountInv, RowInv, Row, Exists
    <3> QED BY <3>4, <3>5, <3>6
  <2> QED BY <2>1, <2>2
<1>6. CASE SavePin(t)
  <2>1. CASE ~Exists BY <2>1, <1>6, <1>a, <1>b DEF SavePin, RowGone, At, Exists
  <2>2. CASE Exists
    <3>1. PICK copy : copy = [job[t].copy EXCEPT !.pin = "drawn", !.forced = TRUE] OBVIOUS
    <3>2. job[t].copy \in Row => copy \in Row /\ RowInv(copy)
      BY <1>1, <3>1, NoneAssumption DEF Row, RowInv
    <3>3. /\ Done(t, copy) /\ job[t].todo # <<>>
          /\ account' = [account EXCEPT !.pin = "drawn", !.forced = TRUE]
      BY <1>6, <2>2, <3>1 DEF SavePin, RowGone, At
    <3>4. JobsInv BY <1>2, <1>3, <3>2, <3>3, DoneInv DEF JobsInv
    <3>5. account' \in Row BY <1>c, <2>2, <3>3 DEF Row
    <3>6. RowInv(account)'
      BY <1>3, <1>c, <2>2, <3>3, <3>5, NoneAssumption DEF AccountInv, RowInv, Row, Exists
    <3> QED BY <3>4, <3>5, <3>6
  <2> QED BY <2>1, <2>2
<1>7. CASE SaveChosenPin(t)
  <2>1. CASE ~Exists BY <2>1, <1>7, <1>a, <1>b DEF SaveChosenPin, RowGone, At, Exists
  <2>2. CASE Exists
    <3>1. /\ job[t].todo # <<>> /\ End(t)
          /\ account' = [account EXCEPT !.pin = "chosen", !.forced = FALSE]
      BY <1>7, <2>2 DEF SaveChosenPin, RowGone, At
    <3>2. account' \in Row BY <1>c, <2>2, <3>1 DEF Row
    <3>3. RowInv(account)'
      BY <1>3, <1>c, <2>2, <3>1, <3>2, NoneAssumption DEF AccountInv, RowInv, Row, Exists
    <3> QED BY <1>a, <3>1, <3>2, <3>3
  <2> QED BY <2>1, <2>2
<1>8. CASE SaveAccount(t) BY <1>8, <1>a, <1>b DEF SaveAccount, At
<1>9. CASE MarkUsed(t) BY <1>9, <1>a, <1>b DEF MarkUsed, At
<1>10. CASE Delete(t) BY <1>10, <1>a, <1>b DEF Delete, At
<1>11. CASE ThreadDies(t)
  <2>1. account' = account /\ job' = [job EXCEPT ![t] = Idle] BY <1>11 DEF ThreadDies, End
  <2>2. JobsInv
    <3>1. job' \in [Threads -> [todo : Seq(Statement), copy : Row \cup {None}]]
      BY <2>1, NoRow DEF AccountInv
    <3>2. \A s \in Threads : JobInv(job[s])'
      BY <2>1, <1>3, NoRow DEF AccountInv, JobInv, RowInv
    <3> QED BY <3>1, <3>2 DEF JobsInv
  <2> QED BY <2>1, <2>2, <1>b
<1> QED BY <1>4, <1>5, <1>6, <1>7, <1>8, <1>9, <1>10, <1>11 DEF Statements

-----------------------------------------------------------------------------
(* Time.                                                                   *)

\* A row and the history of its code grow older together.
LEMMA AgedInv ==
    ASSUME NEW r, RowInv(r), sent \in [Otps -> OtpAges \cup {None}], UNCHANGED waived,
           sent' = [c \in Otps |-> Older(sent[c], OtpLife + 1)]
    PROVE  RowInv(AgedRow(r))' /\ (r \in Row => AgedRow(r) \in Row) /\ (r = None => AgedRow(r) = None)
<1>1. CASE r = None BY <1>1, NoneAssumption DEF AgedRow, RowInv
<1>2. CASE r # None
  <2>1. r \in Row /\ (r.otp # None => r.otpAge # None /\ r.otpAge = sent[r.otp])
    BY <1>2 DEF RowInv
  <2>2. \A age \in OtpAges \cup {None} : /\ Older(age, OtpLife + 1) \in OtpAges \cup {None}
                                         /\ age # None => Older(age, OtpLife + 1) # None
    BY TimesAssumption, NoneAssumption DEF Older, OtpAges
  <2>3. AgedRow(r) = [r EXCEPT !.otpAge = Older(r.otpAge, OtpLife + 1)] BY <1>2 DEF AgedRow
  <2>4. r.otpAge \in OtpAges \cup {None} BY <2>1 DEF Row
  <2>5. AgedRow(r) \in Row BY <2>1, <2>2, <2>3, <2>4 DEF Row
  <2>6. /\ AgedRow(r).otp = r.otp /\ AgedRow(r).otpAge = Older(r.otpAge, OtpLife + 1)
        /\ AgedRow(r).pin = r.pin /\ AgedRow(r).forced = r.forced
    BY <2>1, <2>3 DEF Row
  <2>7. r.otp # None => r.otp \in Otps BY <2>1 DEF Row
  <2>8. r.otp # None => sent'[r.otp] = AgedRow(r).otpAge /\ AgedRow(r).otpAge # None
    BY <2>1, <2>2, <2>4, <2>6, <2>7
  <2>9. r.pin = "drawn" => r.forced \/ waived BY <1>2 DEF RowInv
  <2> QED BY <1>2, <2>5, <2>6, <2>8, <2>9 DEF RowInv
<1> QED BY <1>1, <1>2

LEMMA TickInv == ASSUME AccountInv, Tick PROVE AccountInv'
<1>1. /\ sent \in [Otps -> OtpAges \cup {None}]
      /\ sent' = [c \in Otps |-> Older(sent[c], OtpLife + 1)]
      /\ job' = [t \in Threads |-> [job[t] EXCEPT !.copy = AgedRow(@)]]
      /\ account' = AgedRow(account) /\ UNCHANGED waived
  BY DEF Tick, AccountInv
<1>2. sent' \in [Otps -> OtpAges \cup {None}]
  <2>1. \A age \in OtpAges \cup {None} : Older(age, OtpLife + 1) \in OtpAges \cup {None}
    BY TimesAssumption, NoneAssumption DEF Older, OtpAges
  <2> QED BY <1>1, <2>1
<1>3. account' \in Row \cup {None} /\ RowInv(account)'
  <2>1. PICK r : r = account OBVIOUS
  <2>2. RowInv(r) /\ r \in Row \cup {None} BY <2>1 DEF AccountInv
  <2>3. RowInv(AgedRow(r))' /\ AgedRow(r) \in Row \cup {None} BY <1>1, <2>2, AgedInv
  <2> QED BY <1>1, <2>1, <2>3 DEF RowInv
<1>4. ASSUME NEW t \in Threads
      PROVE  job'[t] \in [todo : Seq(Statement), copy : Row \cup {None}] /\ JobInv(job[t])'
  <2>1. PICK j : j = job[t] OBVIOUS
  <2>2. /\ j \in [todo : Seq(Statement), copy : Row \cup {None}]
        /\ RowInv(j.copy) /\ (Saves(j.todo) => j.copy \in Row)
    BY <2>1 DEF AccountInv, JobInv
  <2>3. RowInv(AgedRow(j.copy))' /\ AgedRow(j.copy) \in Row \cup {None}
        /\ (j.copy \in Row => AgedRow(j.copy) \in Row)
    BY <1>1, <2>2, AgedInv
  <2>4. job'[t] = [j EXCEPT !.copy = AgedRow(j.copy)] BY <1>1, <2>1
  <2>5. job'[t].todo = j.todo /\ job'[t].copy = AgedRow(j.copy) BY <2>2, <2>4
  <2>6. job'[t] \in [todo : Seq(Statement), copy : Row \cup {None}] BY <2>2, <2>3, <2>4
  <2> QED BY <2>2, <2>3, <2>5, <2>6 DEF JobInv, RowInv
<1>5. job' \in [Threads -> [todo : Seq(Statement), copy : Row \cup {None}]] BY <1>1, <1>4
<1> QED BY <1>2, <1>3, <1>4, <1>5 DEF AccountInv

-----------------------------------------------------------------------------
(* Theorems.                                                               *)

\* The inductive invariant: whatever forms the account is sent, the row and every copy of it
\* ask for another PIN than one that was drawn, unless a form was to end that.
THEOREM AccountInvariance == AccountSpec => []AccountInv
<1>1. AccountInv /\ [AccountNext]_accountVars => AccountInv'
  <2> SUFFICES ASSUME AccountInv, [AccountNext]_accountVars PROVE AccountInv' OBVIOUS
  <2>1. CASE UNCHANGED accountVars BY <2>1 DEF accountVars, AccountInv, RowInv, JobInv
  <2>2. CASE Tick BY <2>2, TickInv
  <2>3. ASSUME NEW t \in Threads, Begins(t) \/ Statements(t) \/ ThreadDies(t) PROVE AccountInv'
    BY <2>3, RequestsInv, StatementsInv
  <2> QED BY <2>1, <2>2, <2>3 DEF AccountNext
<1> QED BY <1>1, InitInv, PTL DEF AccountSpec

\* However many requests overlap and save old copies, a PIN that was drawn for an agent
\* must still be changed, unless a form of PUT /user/<id> was to end that.
THEOREM DrawnPinForced == AccountSpec => []PinChosen
<1>1. AccountInv => PinChosen
  BY NoneAssumption DEF AccountInv, RowInv, PinChosen, AgentPinLogin, Exists, Row
<1> QED BY <1>1, AccountInvariance, PTL

\* However many requests overlap and bring old codes back, the code that lets somebody in
\* was sent within its life.
THEOREM CodeInTime == AccountSpec => CodesInTime
<1> DEFINE InTime == \A t \in Threads : job[t] = Idle /\ job'[t].todo = <<"login">>
                       => account.otp # None /\ sent[account.otp] <= OtpLife
<1>1. AccountInv /\ [AccountNext]_accountVars => [InTime]_accountVars
  <2> SUFFICES ASSUME AccountInv, AccountNext, NEW t \in Threads,
                      job[t] = Idle, job'[t].todo = <<"login">>
               PROVE  account.otp # None /\ sent[account.otp] <= OtpLife
    OBVIOUS
  <2>1. job[t].todo = <<>> /\ <<"login">> # <<>> BY DEF Idle
  <2>2. ~Tick
    <3> SUFFICES ASSUME Tick PROVE FALSE OBVIOUS
    <3>1. job'[t] = [job[t] EXCEPT !.copy = AgedRow(job[t].copy)] BY DEF Tick
    <3>2. job'[t].todo = job[t].todo BY <3>1 DEF AccountInv
    <3> QED BY <2>1, <3>2
  <2>3. ASSUME NEW s \in Threads, s # t, NEW j, job' = [job EXCEPT ![s] = j] PROVE FALSE
    BY <2>1, <2>3 DEF AccountInv
  <2>4. ASSUME NEW s \in Threads, Statements(s) \/ ThreadDies(s) PROVE FALSE
    <3>1. s # t
      BY <2>1, <2>4 DEF Statements, ThreadDies, Insert, SaveCode, SavePin, SaveChosenPin,
                        SaveAccount, MarkUsed, Delete, At
    <3>2. \E j : job' = [job EXCEPT ![s] = j]
      BY <2>4 DEF Statements, ThreadDies, Insert, SaveCode, SavePin, SaveChosenPin, SaveAccount,
                  MarkUsed, Delete, RowGone, Next, Done, End
    <3> QED BY <2>3, <3>1, <3>2
  <2>5. PICK s \in Threads : Begins(s) BY <2>2, <2>4 DEF AccountNext
  <2>6. ~PasswordResetRequest(s) BY <2>1 DEF PasswordResetRequest
  <2>7. ASSUME NEW c \in Otps, RequestOtp(s, c) PROVE FALSE
    <3>1. job' = [job EXCEPT ![s] = [todo |-> <<"save">>, copy |-> [account EXCEPT !.otp = c, !.otpAge = 0]]]
      BY <2>7 DEF RequestOtp, Begin
    <3>2. s = t BY <2>3, <3>1
    <3>3. job'[t].todo = <<"save">> BY <3>1, <3>2 DEF AccountInv
    <3>4. <<"save">> # <<"login">> OBVIOUS
    <3> QED BY <3>3, <3>4
  <2>u. ASSUME NEW f \in Forms, UserPut(s, f) PROVE FALSE
    <3>1. PICK copy : job' = [job EXCEPT ![s] = [todo |-> <<"save">>, copy |-> copy]]
      BY <2>u DEF UserPut, Begin
    <3>2. s = t BY <2>3, <3>1
    <3>3. job'[t].todo = <<"save">> BY <3>1, <3>2 DEF AccountInv
    <3>4. <<"save">> # <<"login">> OBVIOUS
    <3> QED BY <3>3, <3>4
  <2>8. PICK todo \in Seq(Statement), copy \in Row \cup {None} :
          Begin(s, todo, copy) /\ (todo = <<"login">> => VerifyOtp(s))
    BY <2>5, <2>6, <2>7, <2>u, Begun
  <2>9. job' = [job EXCEPT ![s] = [todo |-> todo, copy |-> copy]] BY <2>8 DEF Begin
  <2>10. s = t BY <2>3, <2>9
  <2>11. VerifyOtp(s) BY <2>8, <2>9, <2>10 DEF AccountInv
  <2>12. Exists /\ account.otp # None /\ account.otpAge # None /\ account.otpAge <= OtpLife
    BY <2>11 DEF VerifyOtp, OtpValid
  <2> QED BY <2>12 DEF AccountInv, RowInv, Exists
<1> QED BY <1>1, AccountInvariance, PTL DEF AccountSpec, CodesInTime

-----------------------------------------------------------------------------
(* Types, whatever clients' PUT forms do: a thread goes through the rest of   *)
(* one of the known requests, has a row in memory as long as it has one to    *)
(* save, and marks a reset code that exists.                                *)

Saving == {<<"save">>, <<"code", "save">>, <<"pin", "save">>, <<"code", "pin", "save">>}
Marking == {<<"reset", "mark">>, <<"mark">>}
JobTyped(j) == /\ j.todo \in Saving => j.copy \in Row
               /\ j.todo \in Marking => reset # None
TypeInv == AccountTypeOK /\ \A t \in Threads : JobTyped(job[t])

\* Two short sequences put together.
LEMMA Pair ==
    ASSUME NEW x, NEW y PROVE <<x>> \o <<y>> = <<x, y>>
<1> DEFINE S == {x, y}
           s == <<x>>
           t == <<y>>
           c == s \o t
<1>1. /\ s \in Seq(S) /\ t \in Seq(S) /\ <<x, y>> \in Seq(S)
      /\ Len(s) = 1 /\ Len(t) = 1 /\ s[1] = x /\ t[1] = y
  OBVIOUS
<1> HIDE DEF S, s, t, c
<1>2. /\ s \o t \in Seq(S) /\ Len(s \o t) = Len(s) + Len(t)
      /\ \A i \in 1 .. Len(s) + Len(t) :
            (s \o t)[i] = IF i <= Len(s) THEN s[i] ELSE t[i - Len(s)]
  BY <1>1, ConcatProperties, Zenon
<1>3. /\ c \in Seq(S) /\ Len(c) = 2
      /\ \A i \in 1 .. 2 : c[i] = IF i <= 1 THEN s[i] ELSE t[i - 1]
  <2>1. Len(s) + Len(t) = 2 BY <1>1
  <2> QED BY <1>1, <1>2, <2>1 DEF c
<1>4. c[1] = x /\ c[2] = y BY <1>1, <1>3
<1>5. Len(<<x, y>>) = 2 /\ <<x, y>>[1] = x /\ <<x, y>>[2] = y OBVIOUS
<1>6. c = <<x, y>> BY <1>1, <1>3, <1>4, <1>5, SeqEqual
<1> QED BY <1>6 DEF c, s, t

LEMMA Triple ==
    ASSUME NEW x, NEW y, NEW z PROVE <<x, y>> \o <<z>> = <<x, y, z>>
<1> DEFINE S == {x, y, z}
           s == <<x, y>>
           t == <<z>>
           c == s \o t
<1>1. /\ s \in Seq(S) /\ t \in Seq(S) /\ <<x, y, z>> \in Seq(S)
      /\ Len(s) = 2 /\ Len(t) = 1 /\ s[1] = x /\ s[2] = y /\ t[1] = z
  OBVIOUS
<1> HIDE DEF S, s, t, c
<1>2. /\ s \o t \in Seq(S) /\ Len(s \o t) = Len(s) + Len(t)
      /\ \A i \in 1 .. Len(s) + Len(t) :
            (s \o t)[i] = IF i <= Len(s) THEN s[i] ELSE t[i - Len(s)]
  BY <1>1, ConcatProperties, Zenon
<1>3. /\ c \in Seq(S) /\ Len(c) = 3
      /\ \A i \in 1 .. 3 : c[i] = IF i <= 2 THEN s[i] ELSE t[i - 2]
  <2>1. Len(s) + Len(t) = 3 BY <1>1
  <2> QED BY <1>1, <1>2, <2>1 DEF c
<1>4. c[1] = x /\ c[2] = y /\ c[3] = z BY <1>1, <1>3
<1>5. Len(<<x, y, z>>) = 3 /\ <<x, y, z>>[1] = x /\ <<x, y, z>>[2] = y /\ <<x, y, z>>[3] = z OBVIOUS
<1>6. c = <<x, y, z>> BY <1>1, <1>3, <1>4, <1>5, SeqEqual
<1> QED BY <1>6 DEF c, s, t

\* What MemberCreate and MemberPatch have to do.
LEMMA MemberTodo ==
    ASSUME NEW a \in BOOLEAN, NEW b \in BOOLEAN
    PROVE  /\ If(a, "code") \o If(b, "pin") \o <<"save">> \in Saving
           /\ If(a, "code") \o <<"save">> \in Saving
<1>1. <<>> \o <<"pin">> = <<"pin">> /\ <<>> \o <<>> = <<>> /\ <<>> \o <<"save">> = <<"save">>
  OBVIOUS
<1>2. <<"code">> \o <<>> = <<"code">> /\ <<"code">> \o <<"pin">> = <<"code", "pin">>
  <2>1. <<"code">> \in Seq(Statement)
    <3>1. "code" \in Statement BY DEF Statement
    <3> QED BY <3>1
  <2> QED BY <2>1, Pair, ConcatEmptySeq
<1>3. /\ <<"code">> \o <<"save">> = <<"code", "save">>
      /\ <<"pin">> \o <<"save">> = <<"pin", "save">>
      /\ <<"code", "pin">> \o <<"save">> = <<"code", "pin", "save">>
  BY Pair, Triple
<1>4. If(a, "code") \in {<<>>, <<"code">>} /\ If(b, "pin") \in {<<>>, <<"pin">>} BY DEF If
<1>5. If(a, "code") \o If(b, "pin") \in {<<>>, <<"code">>, <<"pin">>, <<"code", "pin">>}
  BY <1>1, <1>2, <1>4
<1> QED BY <1>1, <1>3, <1>4, <1>5 DEF Saving

\* The rest of a request that has begun is one of the requests.
LEMMA RestTyped ==
    ASSUME NEW todo \in Requests, todo # <<>>
    PROVE  /\ Tail(todo) \in Requests
           /\ Tail(todo) \in Saving => todo \in Saving
           /\ Tail(todo) \in Marking => todo \in Marking
           /\ Saves(Tail(todo)) => Tail(todo) \in Saving
<1>s. {"pin", "save", "mark", "code"} \subseteq Statement BY DEF Statement
<1>0. \A x \in Statement : <<x>> \in Requests BY DEF Requests
<1>1. ASSUME NEW x, todo = <<x>> PROVE Tail(todo) = <<>> BY <1>1
<1>2. <<>> \in Requests /\ <<>> \notin Saving /\ <<>> \notin Marking /\ ~Saves(<<>>)
  BY DEF Requests, Saving, Marking, Saves
<1>3. CASE \E x \in Statement : todo = <<x>> BY <1>1, <1>2, <1>3
<1>4. CASE todo = <<"insert", "code", "pin">>
  <2>1. Tail(todo) = <<"code", "pin">> BY <1>4
  <2>2. ~Saves(<<"code", "pin">>) BY DEF Saves
  <2>3. <<"code", "pin">> \notin Saving /\ <<"code", "pin">> \notin Marking BY DEF Saving, Marking
  <2> QED BY <2>1, <2>2, <2>3 DEF Requests
<1>5. CASE todo = <<"code", "pin">>
  <2>1. Tail(todo) = <<"pin">> BY <1>5
  <2>2. ~Saves(<<"pin">>) /\ <<"pin">> \notin Saving /\ <<"pin">> \notin Marking
    BY DEF Saves, Saving, Marking
  <2> QED BY <1>s, <1>0, <2>1, <2>2
<1>6. CASE todo = <<"code", "pin", "save">>
  <2>1. Tail(todo) = <<"pin", "save">> BY <1>6
  <2>2. <<"pin", "save">> \notin Marking BY DEF Marking
  <2> QED BY <1>6, <2>1, <2>2 DEF Saving, Requests
<1>7. CASE todo = <<"pin", "save">> \/ todo = <<"code", "save">>
  <2>1. Tail(<<"pin", "save">>) = <<"save">> /\ Tail(<<"code", "save">>) = <<"save">> OBVIOUS
  <2>2. <<"save">> \notin Marking BY DEF Marking
  <2> QED BY <1>7, <1>s, <1>0, <2>1, <2>2 DEF Saving
<1>8. CASE todo = <<"reset", "mark">>
  <2>1. Tail(todo) = <<"mark">> BY <1>8
  <2>2. <<"mark">> \notin Saving /\ ~Saves(<<"mark">>) BY DEF Saving, Saves
  <2> QED BY <1>8, <1>s, <1>0, <2>1, <2>2 DEF Marking
<1> QED BY <1>3, <1>4, <1>5, <1>6, <1>7, <1>8 DEF Requests

\* A request that starts.
LEMMA BeginTyped ==
    ASSUME TypeInv, UNCHANGED sent, waived' \in BOOLEAN, NEW t \in Threads, NEW todo \in Requests,
           NEW copy \in Row \cup {None}, Begin(t, todo, copy),
           todo \in Saving => copy \in Row, todo \in Marking => reset # None
    PROVE  TypeInv'
<1> DEFINE j == [todo |-> todo, copy |-> copy]
<1>1. j \in Job /\ j.todo = todo /\ j.copy = copy BY DEF Job
<1>2. job' = [job EXCEPT ![t] = j] /\ UNCHANGED <<account, reset>> BY DEF Begin
<1> HIDE DEF j
<1>3. AccountTypeOK' BY <1>1, <1>2 DEF TypeInv, AccountTypeOK
<1>4. \A s \in Threads : job'[s] = IF s = t THEN j ELSE job[s] BY <1>2 DEF TypeInv, AccountTypeOK
<1>5. \A s \in Threads : JobTyped(job[s])' BY <1>1, <1>2, <1>4 DEF TypeInv, JobTyped
<1> QED BY <1>3, <1>5 DEF TypeInv

\* The requests with a single statement, and the two that are neither members' nor single.
LEMMA Single ==
    /\ \A x \in Statement : <<x>> \in Requests
    /\ \A x \in Statement \ {"save"} : <<x>> \notin Saving
    /\ \A x \in Statement \ {"mark"} : <<x>> \notin Marking
    /\ <<"insert", "code", "pin">> \in Requests \ (Saving \cup Marking)
    /\ <<"reset", "mark">> \in Requests \ Saving
    /\ Saving \subseteq Requests \ Marking
<1>1. /\ \A x \in Statement : <<x>> \in Requests
      /\ <<"insert", "code", "pin">> \in Requests /\ <<"reset", "mark">> \in Requests
  BY DEF Requests
<1>2. \A x \in Statement \ {"save"} : <<x>> \notin Saving BY DEF Saving
<1>3. \A x \in Statement \ {"mark"} : <<x>> \notin Marking BY DEF Marking
<1>4. <<"insert", "code", "pin">> \notin Saving /\ <<"insert", "code", "pin">> \notin Marking
  BY DEF Saving, Marking
<1>5. <<"reset", "mark">> \notin Saving BY DEF Saving
<1>6. Saving \subseteq Requests
  <2>1. "save" \in Statement BY DEF Statement
  <2> QED BY <1>1, <2>1 DEF Saving, Requests
<1>7. ASSUME NEW todo \in Saving PROVE todo \notin Marking
  <2>1. CASE todo = <<"save">> BY <2>1 DEF Marking
  <2>2. CASE todo = <<"code", "save">> BY <2>2 DEF Marking
  <2>3. CASE todo = <<"pin", "save">> BY <2>3 DEF Marking
  <2>4. CASE todo = <<"code", "pin", "save">> BY <2>4 DEF Marking
  <2> QED BY <2>1, <2>2, <2>3, <2>4 DEF Saving
<1> QED BY <1>1, <1>2, <1>3, <1>4, <1>5, <1>6, <1>7

\* Every request, the PUT of must_change_pin included.
LEMMA RequestsTyped ==
    ASSUME TypeInv, NEW t \in Threads, Begins(t) PROVE TypeInv'
<1>t. account \in Row \cup {None} /\ (Exists => account \in Row) /\ waived \in BOOLEAN
  BY DEF TypeInv, AccountTypeOK, Exists
<1>s. {"insert", "save", "login", "delete", "change_pin"} \subseteq Statement BY DEF Statement
<1>v. ASSUME NEW todo \in Saving, NEW copy \in Row, Begin(t, todo, copy), UNCHANGED sent,
             waived' \in BOOLEAN
      PROVE  TypeInv'
  BY <1>v, BeginTyped, Single
<1>w. ASSUME NEW copy \in Row, Begin(t, <<"save">>, copy), UNCHANGED sent, waived' \in BOOLEAN
      PROVE  TypeInv'
  <2>1. <<"save">> \in Saving BY DEF Saving
  <2> QED BY <1>v, <1>w, <2>1
<1>1. CASE Register(t) \/ StaffAccountCreate(t) \/ FieldAgentCreate(t)
  <2>1. {"citizen", "staff", "field"} \subseteq Roles BY DEF Roles
  <2>2. PICK role \in Roles : \/ Begin(t, <<"insert">>, Fresh(role))
                              \/ Begin(t, <<"insert", "code", "pin">>, Fresh(role))
    BY <1>1, <2>1 DEF Register, StaffAccountCreate, FieldAgentCreate
  <2>3. UNCHANGED <<sent, waived>> BY <1>1 DEF Register, StaffAccountCreate, FieldAgentCreate, Same
  <2>4. Fresh(role) \in Row BY DEF Fresh, Row
  <2>5. PICK copy : copy = Fresh(role) OBVIOUS
  <2>6. "insert" \in Statement \ {"save", "mark"} BY DEF Statement
  <2> QED BY <1>t, <2>2, <2>3, <2>4, <2>5, <2>6, BeginTyped, Single
<1>2. ASSUME NEW role \in Roles, MemberCreate(t, role) \/ MemberPatch(t, role) PROVE TypeInv'
  <2>1. PICK copy : copy = [account EXCEPT !.role = role] OBVIOUS
  <2>2. copy \in Row /\ UNCHANGED <<sent, waived>>
    BY <1>2, <1>t, <2>1 DEF MemberCreate, MemberPatch, Row, Same
  <2>3. PICK a \in BOOLEAN, b \in BOOLEAN :
          \/ Begin(t, If(a, "code") \o If(b, "pin") \o <<"save">>, copy)
          \/ Begin(t, If(a, "code") \o <<"save">>, copy)
    <3>1. PICK a \in BOOLEAN : a = (role = "field" /\ ~account.code) OBVIOUS
    <3>2. PICK b \in BOOLEAN : b = (role = "field" /\ account.pin = None) OBVIOUS
    <3> QED BY <1>2, <2>1, <3>1, <3>2, Zenon DEF MemberCreate, MemberPatch
  <2>4. PICK todo \in Saving : Begin(t, todo, copy) BY <2>3, MemberTodo
  <2> QED BY <1>t, <1>v, <2>2, <2>4
<1>3. ASSUME NEW f \in Forms, UserPut(t, f) PROVE TypeInv'
  <2>1. PICK copy : /\ Begin(t, <<"save">>, copy)
                    /\ copy = [account EXCEPT
                          !.role = IF "role" \in f.carries THEN f.values.role ELSE account.role,
                          !.code = IF "code" \in f.carries THEN f.values.code ELSE account.code,
                          !.forced = IF "forced" \in f.carries THEN f.values.forced
                                     ELSE account.forced]
    BY <1>3 DEF UserPut
  <2>2. f.values \in Row /\ account \in Row BY <1>3, <1>t, FormsAssumption DEF UserPut
  <2>3. copy \in Row BY <2>1, <2>2 DEF Row
  <2>4. UNCHANGED sent /\ waived' \in BOOLEAN
    <3>1. waived' = (waived \/ ("forced" \in f.carries /\ account.forced /\ ~f.values.forced))
      BY <1>3, Zenon DEF UserPut
    <3> QED BY <1>3, <3>1, Zenon DEF UserPut
  <2> QED BY <1>w, <2>1, <2>3, <2>4
<1>4. CASE AddPoints(t) \/ VerifyEmail(t) \/ ChangePassword(t)
  BY <1>4, <1>t, <1>w DEF AddPoints, VerifyEmail, ChangePassword, Same
<1>6. CASE UserDelete(t) \/ ChangePin(t)
  <2>1. {"delete", "change_pin"} \subseteq Statement \ {"save", "mark"} BY DEF Statement
  <2>2. \E x \in {"delete", "change_pin"} : Begin(t, <<x>>, None) /\ UNCHANGED <<sent, waived>>
    BY <1>6 DEF UserDelete, ChangePin, Same
  <2> QED BY <1>t, <2>1, <2>2, BeginTyped, Single
<1>7. ASSUME NEW c \in Otps, RequestOtp(t, c) PROVE TypeInv'
  <2>1. 0 \in OtpAges BY TimesAssumption DEF OtpAges
  <2>2. PICK copy : copy = [account EXCEPT !.otp = c, !.otpAge = 0] OBVIOUS
  <2>3. copy \in Row BY <1>7, <1>t, <2>1, <2>2 DEF RequestOtp, Row
  <2>4. /\ job' = [job EXCEPT ![t] = [todo |-> <<"save">>, copy |-> copy]]
        /\ UNCHANGED <<account, reset, waived>> /\ sent' = [sent EXCEPT ![c] = 0]
    BY <1>7, <2>2 DEF RequestOtp, Begin
  <2>5. <<"save">> \in Requests /\ <<"save">> \notin Marking BY Single DEF Saving
  <2> DEFINE j == [todo |-> <<"save">>, copy |-> copy]
  <2>6. j \in Job /\ j.todo = <<"save">> /\ j.copy = copy BY <2>3, <2>5 DEF Job
  <2> HIDE DEF j
  <2>7. sent' \in [Otps -> OtpAges \cup {None}] BY <2>1, <2>4 DEF TypeInv, AccountTypeOK
  <2>8. AccountTypeOK' BY <2>4, <2>6, <2>7 DEF TypeInv, AccountTypeOK, j
  <2>9. \A s \in Threads : job'[s] = IF s = t THEN j ELSE job[s]
    BY <2>4 DEF TypeInv, AccountTypeOK, j
  <2>10. \A s \in Threads : JobTyped(job[s])' BY <2>3, <2>4, <2>5, <2>6, <2>9 DEF TypeInv, JobTyped
  <2> QED BY <2>8, <2>10 DEF TypeInv
<1>8. CASE VerifyOtp(t)
  <2>1. PICK copy : copy = [account EXCEPT !.otp = None] OBVIOUS
  <2>2. copy \in Row /\ UNCHANGED <<sent, waived>> BY <1>8, <1>t, <2>1 DEF VerifyOtp, Row, Same
  <2>3. "login" \in Statement \ {"save", "mark"} BY DEF Statement
  <2> QED BY <1>8, <1>t, <2>1, <2>2, <2>3, BeginTyped, Single DEF VerifyOtp
<1>9. CASE PasswordResetRequest(t)
  <2>1. 0 \in ResetAges BY TimesAssumption DEF ResetAges
  <2>2. reset' \in Reset BY <1>9, <2>1 DEF PasswordResetRequest, Reset
  <2>3. reset' # None BY <2>2, NoneAssumption
  <2>4. UNCHANGED <<account, job, sent, waived>> BY <1>9 DEF PasswordResetRequest, Same
  <2> QED BY <2>2, <2>3, <2>4 DEF TypeInv, AccountTypeOK, JobTyped
<1>10. CASE PasswordReset(t)
  <2>1. account \in Row /\ UNCHANGED <<sent, waived>> /\ reset # None BY <1>10, <1>t DEF PasswordReset, Same
  <2> QED BY <1>10, <1>t, <2>1, BeginTyped, Single DEF PasswordReset
<1> QED BY <1>1, <1>2, <1>3, <1>4, <1>6, <1>7, <1>8, <1>9, <1>10 DEF Begins

\* A statement that leaves the thread with the rest of its request, or with nothing.
LEMMA DoneTyped ==
    ASSUME TypeInv, NEW t \in Threads, job[t].todo # <<>>, NEW copy,
           Tail(job[t].todo) \in Saving => copy \in Row,
           reset # None => reset' # None, Done(t, copy) \/ End(t)
    PROVE  job' \in [Threads -> Job] /\ \A s \in Threads : JobTyped(job[s])'
<1>1. PICK todo : todo = job[t].todo OBVIOUS
<1>2. job[t] \in Job /\ todo \in Requests BY <1>1 DEF TypeInv, AccountTypeOK, Job
<1>3. PICK rest : rest = Tail(todo) OBVIOUS
<1>4. rest \in Requests /\ (rest \in Marking => todo \in Marking) /\ (Saves(rest) => rest \in Saving)
  BY <1>1, <1>2, <1>3, RestTyped
<1>5. rest \in Saving => Saves(rest)
  <2>1. /\ <<"save">>[1] = "save" /\ <<"code", "save">>[2] = "save"
        /\ <<"pin", "save">>[2] = "save" /\ <<"code", "pin", "save">>[3] = "save"
    OBVIOUS
  <2>2. /\ 1 \in DOMAIN <<"save">> /\ 2 \in DOMAIN <<"code", "save">>
        /\ 2 \in DOMAIN <<"pin", "save">> /\ 3 \in DOMAIN <<"code", "pin", "save">>
    OBVIOUS
  <2> QED BY <2>1, <2>2 DEF Saving, Saves
<1>6. <<>> \in Requests /\ <<>> \notin Saving /\ <<>> \notin Marking BY DEF Requests, Saving, Marking
<1>7. PICK j \in Job : /\ job' = [job EXCEPT ![t] = j]
                       /\ j.todo \in Saving => j.copy \in Row
                       /\ j.todo \in Marking => reset # None
  <2>1. CASE Done(t, copy)
    <3>1. PICK c : c = IF Saves(rest) THEN copy ELSE None OBVIOUS
    <3>2. c \in Row \cup {None} /\ (rest \in Saving => c \in Row) BY <1>1, <1>3, <1>4, <1>5, <3>1
    <3>3. PICK j : j = [todo |-> rest, copy |-> c] OBVIOUS
    <3>4. job' = [job EXCEPT ![t] = j] BY <1>1, <1>3, <2>1, <3>1, <3>3 DEF Done, Saves
    <3>5. j \in Job /\ j.todo = rest /\ j.copy = c BY <1>4, <3>2, <3>3 DEF Job
    <3>6. rest \in Marking => reset # None BY <1>1, <1>4 DEF TypeInv, JobTyped
    <3> QED BY <3>2, <3>4, <3>5, <3>6
  <2>2. CASE End(t)
    <3>1. Idle \in Job /\ Idle.todo = <<>> BY <1>6 DEF Idle, Job
    <3> QED BY <1>6, <2>2, <3>1 DEF End
  <2> QED BY <2>1, <2>2
<1>8. job' \in [Threads -> Job] BY <1>7 DEF TypeInv, AccountTypeOK
<1>9. \A s \in Threads : job'[s] = IF s = t THEN j ELSE job[s]
  BY <1>7 DEF TypeInv, AccountTypeOK
<1>10. \A s \in Threads : JobTyped(job[s])' BY <1>7, <1>9 DEF TypeInv, JobTyped
<1> QED BY <1>8, <1>10

\* The statements, and the threads that die before them.
LEMMA StatementsTyped ==
    ASSUME TypeInv, NEW t \in Threads, Statements(t) \/ ThreadDies(t) PROVE TypeInv'
<1>t. /\ job[t] \in Job /\ account \in Row \cup {None} /\ (Exists => account \in Row)
      /\ reset \in Reset \cup {None} /\ job[t].copy \in Row \cup {None}
      /\ job[t].todo \in Requests
  BY DEF TypeInv, AccountTypeOK, Exists, Job
<1>r. job[t].todo # <<>> /\ Tail(job[t].todo) \in Saving => job[t].copy \in Row
  BY <1>t, RestTyped DEF TypeInv, JobTyped
<1>v. ASSUME NEW copy, job[t].todo # <<>>, Tail(job[t].todo) \in Saving => copy \in Row,
             Done(t, copy) \/ End(t), UNCHANGED <<sent, waived>>,
             account' \in Row \cup {None}, reset' \in Reset \cup {None}, reset # None => reset' # None
      PROVE  TypeInv'
  <2>1. job' \in [Threads -> Job] /\ \A s \in Threads : JobTyped(job[s])' BY <1>v, DoneTyped
  <2> QED BY <1>v, <2>1 DEF TypeInv, AccountTypeOK
<1>e. ASSUME job[t].todo # <<>>, End(t), UNCHANGED <<sent, waived>>,
             account' \in Row \cup {None}, reset' \in Reset \cup {None}, reset # None => reset' # None
      PROVE  TypeInv'
  <2>1. PICK copy : copy = job[t].copy OBVIOUS
  <2> QED BY <1>v, <1>e, <1>r, <2>1
<1>1. CASE Insert(t)
  <2>1. PICK copy : copy = job[t].copy OBVIOUS
  <2>2. job[t].todo # <<>> /\ UNCHANGED <<sent, waived, reset>> /\ (Done(t, copy) \/ End(t))
    BY <1>1, <2>1 DEF Insert, At, Same, Next
  <2>3. account' \in Row \cup {None} BY <1>1, <1>t DEF Insert
  <2> QED BY <1>v, <1>r, <1>t, <2>1, <2>2, <2>3
<1>2. CASE SaveCode(t)
  <2>1. PICK copy : copy = [job[t].copy EXCEPT !.code = TRUE] OBVIOUS
  <2>2. job[t].todo # <<>> /\ UNCHANGED <<sent, waived, reset>> /\ (Done(t, copy) \/ End(t))
    BY <1>2, <2>1 DEF SaveCode, At, Same, RowGone
  <2>3. account' \in Row \cup {None} BY <1>2, <1>t DEF SaveCode, RowGone, Row
  <2>4. job[t].copy \in Row => copy \in Row BY <2>1 DEF Row
  <2> QED BY <1>v, <1>r, <1>t, <2>2, <2>3, <2>4
<1>3. CASE SavePin(t)
  <2>1. PICK copy : copy = [job[t].copy EXCEPT !.pin = "drawn", !.forced = TRUE] OBVIOUS
  <2>2. job[t].todo # <<>> /\ UNCHANGED <<sent, waived, reset>> /\ (Done(t, copy) \/ End(t))
    BY <1>3, <2>1 DEF SavePin, At, Same, RowGone
  <2>3. account' \in Row \cup {None} BY <1>3, <1>t DEF SavePin, RowGone, Row
  <2>4. job[t].copy \in Row => copy \in Row BY <2>1 DEF Row
  <2> QED BY <1>v, <1>r, <1>t, <2>2, <2>3, <2>4
<1>4. CASE SaveChosenPin(t)
  <2>1. job[t].todo # <<>> /\ UNCHANGED <<sent, waived, reset>> /\ End(t)
    BY <1>4 DEF SaveChosenPin, At, Same, RowGone
  <2>2. account' \in Row \cup {None} BY <1>4, <1>t DEF SaveChosenPin, RowGone, Row
  <2> QED BY <1>e, <1>t, <2>1, <2>2
<1>5. CASE SaveAccount(t)
  <2>1. PICK copy : copy = job[t].copy OBVIOUS
  <2>2. job[t].todo # <<>> /\ UNCHANGED <<sent, waived, reset>> /\ Done(t, copy)
    BY <1>5, <2>1 DEF SaveAccount, At, Same, Next
  <2>3. account' \in Row \cup {None} BY <1>5, <1>t DEF SaveAccount
  <2> QED BY <1>v, <1>r, <1>t, <2>1, <2>2, <2>3
<1>6. CASE MarkUsed(t)
  <2>1. job[t].todo # <<>> /\ Head(job[t].todo) = "mark" BY <1>6 DEF MarkUsed, At
  <2>2. job[t].todo \in Marking
    <3>1. CASE \E x \in Statement : job[t].todo = <<x>> BY <2>1, <3>1 DEF Marking
    <3>2. /\ Head(<<"insert", "code", "pin">>) # "mark" /\ Head(<<"code", "pin">>) # "mark"
          /\ Head(<<"code", "pin", "save">>) # "mark" /\ Head(<<"pin", "save">>) # "mark"
          /\ Head(<<"code", "save">>) # "mark"
      OBVIOUS
    <3> QED BY <1>t, <2>1, <3>1, <3>2 DEF Requests, Marking
  <2>3. reset \in Reset BY <1>t, <2>2 DEF TypeInv, JobTyped
  <2>4. reset' \in Reset BY <1>6, <2>3 DEF MarkUsed, Reset
  <2> QED BY <1>6, <1>e, <1>t, <2>1, <2>4, NoneAssumption DEF MarkUsed, Same
<1>7. CASE Delete(t)
  <2>1. job[t].todo # <<>> BY <1>7 DEF Delete, At
  <2>2. 0 \in ResetAges BY TimesAssumption DEF ResetAges
  <2>3. PICK r : r = [age |-> 0, is |-> "deleted"] OBVIOUS
  <2>4. r \in Reset BY <2>2, <2>3 DEF Reset
  <2>5. reset' = IF reset = None THEN None ELSE r BY <1>7, <2>3 DEF Delete
  <2> QED BY <1>7, <1>e, <2>1, <2>4, <2>5, NoneAssumption DEF Delete, Same
<1>8. CASE ThreadDies(t)
  <2>1. End(t) /\ UNCHANGED <<account, reset, sent, waived>> BY <1>8 DEF ThreadDies, Same
  <2>2. CASE job[t].todo # <<>> BY <1>e, <1>t, <2>1, <2>2
  <2>3. CASE job[t].todo = <<>>
    <3>1. Idle \in Job /\ JobTyped(Idle)' BY DEF Idle, Job, Requests, JobTyped, Saving, Marking
    <3>2. job' \in [Threads -> Job] BY <2>1, <3>1 DEF End, TypeInv, AccountTypeOK
    <3>3. \A s \in Threads : job'[s] = IF s = t THEN Idle ELSE job[s]
      BY <2>1 DEF End, TypeInv, AccountTypeOK
    <3>4. \A s \in Threads : JobTyped(job[s])' BY <2>1, <3>1, <3>3 DEF TypeInv, JobTyped
    <3> QED BY <2>1, <3>2, <3>4 DEF TypeInv, AccountTypeOK
  <2> QED BY <2>2, <2>3
<1> QED BY <1>1, <1>2, <1>3, <1>4, <1>5, <1>6, <1>7, <1>8 DEF Statements

\* Time passes on the row, on the copies of it, on the reset code and on the codes sent.
LEMMA TickTyped == ASSUME TypeInv, Tick PROVE TypeInv'
<1>1. \A age \in OtpAges \cup {None} : Older(age, OtpLife + 1) \in OtpAges \cup {None}
  BY TimesAssumption DEF Older, OtpAges
<1>2. \A age \in ResetAges : Older(age, ResetLife + 1) \in ResetAges
  BY TimesAssumption DEF Older, ResetAges
<1>3. /\ \A r \in Row : AgedRow(r) \in Row
      /\ \A r \in Row \cup {None} : AgedRow(r) \in Row \cup {None}
  <2>1. ASSUME NEW r \in Row PROVE AgedRow(r) \in Row
    <3>1. PICK age : age = Older(r.otpAge, OtpLife + 1) OBVIOUS
    <3>2. age \in OtpAges \cup {None} BY <1>1, <3>1 DEF Row
    <3>3. [r EXCEPT !.otpAge = age] \in Row BY <3>2 DEF Row
    <3> QED BY <3>1, <3>3, NoneAssumption DEF AgedRow
  <2> QED BY <2>1 DEF AgedRow
<1>4. account' \in Row \cup {None} BY <1>3 DEF Tick, TypeInv, AccountTypeOK
<1>5. reset' \in Reset \cup {None} /\ (reset # None => reset' # None)
  <2>1. CASE reset = None \/ reset.is # "unused" BY <2>1 DEF Tick, TypeInv, AccountTypeOK
  <2>2. CASE reset # None /\ reset.is = "unused"
    <3>1. PICK age : age = Older(reset.age, ResetLife + 1) OBVIOUS
    <3>2. reset \in Reset /\ age \in ResetAges BY <1>2, <2>2, <3>1 DEF TypeInv, AccountTypeOK, Reset
    <3>3. reset' = [reset EXCEPT !.age = age] BY <2>2, <3>1 DEF Tick
    <3>4. reset' \in Reset BY <3>2, <3>3 DEF Reset
    <3> QED BY <3>4, NoneAssumption
  <2> QED BY <2>1, <2>2
<1>6. sent' \in [Otps -> OtpAges \cup {None}] /\ waived' \in BOOLEAN
  BY <1>1 DEF Tick, TypeInv, AccountTypeOK
<1>7. ASSUME NEW s \in Threads PROVE job'[s] \in Job /\ JobTyped(job[s])'
  <2>1. PICK c : c = AgedRow(job[s].copy) OBVIOUS
  <2>2. PICK j : j = [job[s] EXCEPT !.copy = c] OBVIOUS
  <2>3. job'[s] = j BY <2>1, <2>2 DEF Tick
  <2>4. job[s] \in Job BY DEF TypeInv, AccountTypeOK
  <2>5. c \in Row \cup {None} /\ (job[s].copy \in Row => c \in Row) BY <1>3, <2>1, <2>4 DEF Job
  <2>6. j \in Job /\ j.todo = job[s].todo /\ j.copy = c BY <2>2, <2>4, <2>5 DEF Job
  <2> QED BY <1>5, <2>3, <2>5, <2>6 DEF TypeInv, JobTyped
<1>8. job' \in [Threads -> Job] BY <1>7 DEF Tick
<1> QED BY <1>4, <1>5, <1>6, <1>7, <1>8 DEF TypeInv, AccountTypeOK

\* Types: for every number of threads and codes, however requests overlap and threads die,
\* and whatever a client's PUT form makes of must_change_pin, the statements that follow one
\* another write whole rows only, and the reset code that is marked as used is there.
THEOREM AccountTypeCorrect == AccountSpec => []AccountTypeOK
<1>1. AccountInit => TypeInv
  <2> SUFFICES ASSUME AccountInit PROVE TypeInv OBVIOUS
  <2>1. Idle \in Job /\ JobTyped(Idle) BY DEF Idle, Job, Requests, JobTyped, Saving, Marking
  <2> QED BY <2>1 DEF AccountInit, TypeInv, AccountTypeOK
<1>2. TypeInv /\ [AccountNext]_accountVars => TypeInv'
  <2> SUFFICES ASSUME TypeInv, [AccountNext]_accountVars PROVE TypeInv' OBVIOUS
  <2>1. CASE UNCHANGED accountVars
    BY <2>1 DEF accountVars, TypeInv, AccountTypeOK, JobTyped
  <2> QED BY <2>1, RequestsTyped, StatementsTyped, TickTyped DEF AccountNext
<1>3. TypeInv => AccountTypeOK BY DEF TypeInv
<1> QED BY <1>1, <1>2, <1>3, PTL DEF AccountSpec
=============================================================================
