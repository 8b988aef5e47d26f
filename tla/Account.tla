-------------------------------- MODULE Account --------------------------------
(***************************************************************************)
(* One account: its creation, its role, and the secrets it is entered with: a *)
(* password, a one-time code sent by SMS, a code to reset the password, and   *)
(* the PIN of a field agent.                                                *)
(*                                                                         *)
(* A request reads the account's row, and saves it in a later statement.      *)
(* Most requests save all of its columns, whatever another request saved      *)
(* meanwhile, and insert the row again if it was deleted; the PIN and the     *)
(* agent's code are saved alone.  The password itself is not kept: no        *)
(* statement here looks at it.                                              *)
(***************************************************************************)
EXTENDS Sequences, Naturals

CONSTANTS Threads,      \* the threads of the web server
          None,         \* no row, SQL NULL
          Otps,         \* one-time codes (each is drawn at most once: a bound of the model)
          OtpLife,      \* the 5 minutes generate_otp gives a code, and the 5 more of is_otp_valid
          ResetLife,    \* the hour a reset code is valid
          Forms         \* what forms of PUT /user/<id> carry

ASSUME TimesAssumption == OtpLife \in Nat /\ ResetLife \in Nat

VARIABLES account,      \* the User row
          reset,        \* the row of PasswordReset of one code, if it was asked for
          sent,         \* history: the time since each one-time code was sent
          waived,       \* history: a form was to end the obligation to change the PIN
          job           \* what each thread has still to write

accountVars == <<account, reset, sent, waived, job>>

Roles == {"citizen", "staff", "field"}
OtpAges == 0 .. OtpLife + 1
ResetAges == 0 .. ResetLife + 1

\* `otpAge` stands for otp_expiration, as the time since the code was drawn.
Row == [role : Roles, code : BOOLEAN, pin : {None, "drawn", "chosen"}, forced : BOOLEAN,
        otp : Otps \cup {None}, otpAge : OtpAges \cup {None}]
Reset == [age : ResetAges, is : {"unused", "used", "deleted"}]
ASSUME NoneAssumption == None \notin Row \cup Reset \cup Otps \cup Nat \cup {"drawn", "chosen"}
\* The columns PUT leaves open; a form carries some of them, and values for those.
Columns == {"role", "code", "forced"}
ASSUME FormsAssumption == Forms \subseteq [carries : SUBSET Columns, values : Row]
Fresh(role) == [role |-> role, code |-> FALSE, pin |-> None, forced |-> FALSE,
                otp |-> None, otpAge |-> None]

\* The statements each thread has still to make, and the row it has in memory.
Statement == {"insert", "code", "pin", "change_pin", "save", "login", "reset", "mark", "delete"}
Requests == {<<>>} \cup {<<x>> : x \in Statement} \cup
            {<<"insert", "code", "pin">>, <<"code", "pin">>, <<"code", "pin", "save">>,
             <<"pin", "save">>, <<"code", "save">>, <<"reset", "mark">>}
Job == [todo : Requests, copy : Row \cup {None}]
Idle == [todo |-> <<>>, copy |-> None]
At(t, x) == job[t].todo # <<>> /\ Head(job[t].todo) = x

AccountInit == /\ account = None /\ reset = None /\ waived = FALSE
               /\ sent = [c \in Otps |-> None] /\ job = [t \in Threads |-> Idle]

Exists == account # None
Begin(t, todo, copy) == /\ job[t] = Idle
                        /\ job' = [job EXCEPT ![t] = [todo |-> todo, copy |-> copy]]
                        /\ UNCHANGED <<account, reset>>
Same == UNCHANGED <<sent, waived>>

-----------------------------------------------------------------------------
(* What requests read and decide.                                          *)

\* A registration, a call or a code for an unknown number: nobody has the address yet.
Register(t) == ~Exists /\ Same /\ Begin(t, <<"insert">>, Fresh("citizen"))
StaffAccountCreate(t) == ~Exists /\ Same /\ Begin(t, <<"insert">>, Fresh("staff"))
\* The agent's code and PIN are saved after the row.
FieldAgentCreate(t) == ~Exists /\ Same /\ Begin(t, <<"insert", "code", "pin">>, Fresh("field"))

If(condition, x) == IF condition THEN <<x>> ELSE <<>>
\* Faulty variant: the row is saved before the code and the PIN.
MemberCreateSavesFirst(t, role) ==
    /\ Exists /\ Same
    /\ Begin(t, <<"save">> \o If(role = "field" /\ ~account.code, "code")
                           \o If(role = "field" /\ account.pin = None, "pin"),
             [account EXCEPT !.role = role])
\* An existing account joins an organisation: a field agent is given a code and a PIN,
\* unless it has them, and then the row is saved.
MemberCreate(t, role) ==
    /\ Exists /\ Same
    /\ Begin(t, If(role = "field" /\ ~account.code, "code")
                \o If(role = "field" /\ account.pin = None, "pin") \o <<"save">>,
             [account EXCEPT !.role = role])
\* The role of a member is changed: a new field agent is given a code and no PIN.
MemberPatch(t, role) ==
    /\ Exists /\ account.role # "citizen" /\ Same
    /\ Begin(t, If(role = "field" /\ ~account.code, "code") \o <<"save">>,
             [account EXCEPT !.role = role])

\* PUT /user/<id>: any column but the PIN, the one-time code and their like.
UserPut(t, f) ==
    /\ Exists /\ UNCHANGED sent
    /\ waived' = (waived \/ ("forced" \in f.carries /\ account.forced /\ ~f.values.forced))
    /\ LET at(c, old, new) == IF c \in f.carries THEN new ELSE old IN
       Begin(t, <<"save">>,
             [account EXCEPT !.role = at("role", @, f.values.role),
                             !.code = at("code", @, f.values.code),
                             !.forced = at("forced", @, f.values.forced)])
\* Points for everybody, the link in the e-mail, a change of password: all the columns are
\* saved to change one that is not kept here.
AddPoints(t) == Exists /\ Same /\ Begin(t, <<"save">>, account)
VerifyEmail(t) == AddPoints(t)
ChangePassword(t) == AddPoints(t)
UserDelete(t) == Exists /\ Same /\ Begin(t, <<"delete">>, None)

\* The application lets field agents in with their PIN, and tells them to change it when
\* `forced` says so.
AgentPinLogin == Exists /\ account.role = "field" /\ account.pin # None
\* Field agents change their PIN with the one they have.
ChangePin(t) == /\ Exists /\ account.role = "field" /\ account.pin # None /\ Same
                /\ Begin(t, <<"change_pin">>, None)

\* generate_otp draws a code that was not drawn before, and the SMS is sent.
RequestOtp(t, c) == /\ Exists /\ sent[c] = None
                    /\ Begin(t, <<"save">>, [account EXCEPT !.otp = c, !.otpAge = 0])
                    /\ sent' = [sent EXCEPT ![c] = 0] /\ UNCHANGED waived
\* is_otp_valid.
OtpValid(row) == row.otp # None /\ row.otpAge # None /\ row.otpAge <= OtpLife
\* Faulty variant: the code is compared, and its age is not.
VerifyOtpAnyAge(t) == Exists /\ account.otp # None /\ Same
                      /\ Begin(t, <<"login">>, [account EXCEPT !.otp = None])
\* The tokens are answered when the row without its code is saved.
VerifyOtp(t) == Exists /\ OtpValid(account) /\ Same
                /\ Begin(t, <<"login">>, [account EXCEPT !.otp = None])

\* One code is followed, whatever others are asked for.
PasswordResetRequest(t) == /\ Exists /\ job[t] = Idle /\ Same /\ reset = None
                           /\ reset' = [age |-> 0, is |-> "unused"] /\ UNCHANGED <<account, job>>
PasswordReset(t) ==
    /\ Exists /\ reset # None /\ reset.is = "unused" /\ reset.age <= ResetLife /\ Same
    /\ Begin(t, <<"reset", "mark">>, account)

-----------------------------------------------------------------------------
(* The statements.                                                         *)

\* The row in memory is kept while a save of all its columns is still to come.
Done(t, copy) ==
    LET rest == Tail(job[t].todo)
        saved == \E i \in DOMAIN rest : rest[i] = "save"
    IN  job' = [job EXCEPT ![t] = [todo |-> rest, copy |-> IF saved THEN copy ELSE None]]
Next(t) == Done(t, job[t].copy)
End(t) == job' = [job EXCEPT ![t] = Idle]
\* The exception of a save of some columns, when the row is gone.
RowGone(t) == ~Exists /\ UNCHANGED account /\ End(t)

\* The address is unique.
Insert(t) ==
    /\ At(t, "insert") /\ Same /\ UNCHANGED reset
    /\ \/ ~Exists /\ account' = job[t].copy /\ Next(t)
       \/ Exists /\ UNCHANGED account /\ End(t)
SaveCode(t) ==
    /\ At(t, "code") /\ Same /\ UNCHANGED reset
    /\ \/ Exists /\ account' = [account EXCEPT !.code = TRUE]
          /\ Done(t, [job[t].copy EXCEPT !.code = TRUE])
       \/ RowGone(t)
\* generate_and_set_pin.
\* Faulty variant: the PIN is saved alone, and the obligation to change it with the row.
SavePinAlone(t) ==
    /\ At(t, "pin") /\ Same /\ UNCHANGED reset
    /\ \/ Exists /\ account' = [account EXCEPT !.pin = "drawn"]
          /\ Done(t, [job[t].copy EXCEPT !.pin = "drawn", !.forced = TRUE])
       \/ RowGone(t)
SavePin(t) ==
    /\ At(t, "pin") /\ Same /\ UNCHANGED reset
    /\ \/ Exists /\ account' = [account EXCEPT !.pin = "drawn", !.forced = TRUE]
          /\ Done(t, [job[t].copy EXCEPT !.pin = "drawn", !.forced = TRUE])
       \/ RowGone(t)
SaveChosenPin(t) ==
    /\ At(t, "change_pin") /\ Same /\ UNCHANGED reset
    /\ \/ Exists /\ account' = [account EXCEPT !.pin = "chosen", !.forced = FALSE] /\ End(t)
       \/ RowGone(t)
\* All the columns, inserted again if need be.
SaveAccount(t) ==
    /\ At(t, "save") \/ At(t, "login") \/ At(t, "reset")
    /\ account' = job[t].copy /\ Next(t) /\ Same /\ UNCHANGED reset
\* The code is marked as used after the password is saved.
MarkUsed(t) ==
    /\ At(t, "mark") /\ Same /\ UNCHANGED account /\ End(t)
    /\ reset' = IF reset.is = "unused" THEN [reset EXCEPT !.is = "used"] ELSE reset
Delete(t) == /\ At(t, "delete") /\ Same /\ End(t)
             /\ account' = None /\ reset' = IF reset = None THEN None ELSE [age |-> 0, is |-> "deleted"]
ThreadDies(t) == job[t] # Idle /\ End(t) /\ Same /\ UNCHANGED <<account, reset>>

Older(age, max) == IF age = None \/ age = max THEN age ELSE age + 1
AgedRow(r) == IF r = None THEN None ELSE [r EXCEPT !.otpAge = Older(@, OtpLife + 1)]
Tick == /\ account' = AgedRow(account)
        /\ reset' = IF reset = None \/ reset.is # "unused" THEN reset
                    ELSE [reset EXCEPT !.age = Older(@, ResetLife + 1)]
        /\ sent' = [c \in Otps |-> Older(sent[c], OtpLife + 1)]
        /\ job' = [t \in Threads |-> [job[t] EXCEPT !.copy = AgedRow(@)]]
        /\ UNCHANGED waived

Begins(t) ==
    \/ Register(t) \/ StaffAccountCreate(t) \/ FieldAgentCreate(t)
    \/ \E role \in Roles \ {"citizen"} : MemberCreate(t, role) \/ MemberPatch(t, role)
    \/ \E f \in Forms : UserPut(t, f)
    \/ AddPoints(t) \/ VerifyEmail(t) \/ ChangePassword(t) \/ UserDelete(t) \/ ChangePin(t)
    \/ (\E c \in Otps : RequestOtp(t, c)) \/ VerifyOtp(t)
    \/ PasswordResetRequest(t) \/ PasswordReset(t)
Statements(t) ==
    \/ Insert(t) \/ SaveCode(t) \/ SavePin(t) \/ SaveChosenPin(t) \/ SaveAccount(t)
    \/ MarkUsed(t) \/ Delete(t)

AccountNext == \/ \E t \in Threads : Begins(t) \/ Statements(t) \/ ThreadDies(t)
               \/ Tick
AccountSpec == AccountInit /\ [][AccountNext]_accountVars

-----------------------------------------------------------------------------
(* Properties.                                                             *)

AccountTypeOK == /\ account \in Row \cup {None} /\ reset \in Reset \cup {None}
                 /\ sent \in [Otps -> OtpAges \cup {None}] /\ waived \in BOOLEAN
                 /\ job \in [Threads -> Job]

\* However requests overlap, an agent who enters with a PIN and is not told to change it has
\* chosen it: no save of an old copy takes the obligation away from a PIN that was drawn, or
\* brings a drawn one back without it.  Only a form of PUT /user/<id> that says so does.
PinChosen == AgentPinLogin /\ ~account.forced /\ ~waived => account.pin = "chosen"

\* A code that lets somebody in, a code that an old copy of the row brought back included,
\* was sent less than ten minutes ago.
CodesInTime ==
    [][\A t \in Threads : job[t] = Idle /\ job'[t].todo = <<"login">>
         => account.otp # None /\ sent[account.otp] <= OtpLife]_accountVars
=============================================================================
