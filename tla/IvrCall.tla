-------------------------------- MODULE IvrCall --------------------------------
(***************************************************************************)
(* One telephone call to the voice menu, from the dial tone to the incident  *)
(* it reports.                                                             *)
(*                                                                         *)
(* The telephone operator (Twilio, external) posts a form for every step of  *)
(* the call and plays what it is answered.  When no answer comes it may post *)
(* the form again, so two threads of the web server can be at the same step, *)
(* and one can still be at a step that the caller has left.  A thread reads  *)
(* the IVRCall row and saves all of its columns in a later statement.        *)
(***************************************************************************)
EXTENDS Sequences, Naturals

CONSTANTS Threads,      \* threads of the web server
          Repeats,      \* how often the operator posts a form again (a bound of the model)
          ZoneLists,    \* what the first nine zones may be, in the order they are read
          Categories,   \* the first nine categories, in the order they are read
          Null          \* SQL NULL, no row, no digit

ASSUME ThreadsAssumption == Threads # {}
ASSUME RepeatsAssumption == Repeats \in Nat

VARIABLES call,         \* the IVRCall row, Null before it is created
          trail,        \* the steps its IVRInteraction rows name
          incidents,    \* the incidents opened for the call
          owners,       \* how many accounts have the caller's number
          zones,        \* the zones, as a query returns them now
          caller,       \* what the operator posts next, and the digits pressed so far
          posts,        \* how many times a form was posted again
          heard,        \* history: the zones the caller was offered
          edited,       \* history: the zones changed after they were offered
          swallowed,    \* history: an exception was raised after the recording
          job           \* what each thread does, and the row it has read

ivrVars == <<call, trail, incidents, owners, zones, caller, posts, heard, edited, swallowed, job>>

Digits == 1 .. 3
Steps == {"webhook", "select_zone", "select_category", "record_description", "process_recording"}
Names(lists) == UNION {{l[i] : i \in DOMAIN l} : l \in lists}
Choice(names) == names \cup {Null}
Opened == [zone : Choice(Names(ZoneLists)), category : Choice(Names({Categories}))]
Call == [status : {"in-progress", "completed"}, audio : BOOLEAN, linked : BOOLEAN,
         zone : Choice(Names(ZoneLists)), category : Choice(Names({Categories}))]
Caller == [at : Steps \cup {"thanked", "gone"}, zone : Digits \cup {Null}, category : Digits \cup {Null}]

\* Lists are numbered, and nothing is neither a number nor a call.
ASSUME ListsAssumption == \A list \in ZoneLists \cup {Categories} : DOMAIN list \subseteq Nat
ASSUME NullAssumption == Null \notin Nat \cup Call

\* `at` is the next statement of the step.
Job == [step : Steps \cup {"idle"}, at : {"read", "save", "log", "user", "open", "link", "answer"},
        copy : Call \cup {Null}]
Idle == [step |-> "idle", at |-> "read", copy |-> Null]
At(t, step, at) == job[t].step = step /\ job[t].at = at
Goto(t, at) == job' = [job EXCEPT ![t].at = at]
Finish(t) == job' = [job EXCEPT ![t] = Idle]

IvrInit == /\ call = Null /\ trail = {} /\ incidents = {} /\ owners \in 0 .. 2
           /\ zones \in ZoneLists /\ heard = <<>> /\ edited = FALSE /\ posts = 0 /\ swallowed = FALSE
           /\ caller = [at |-> "webhook", zone |-> Null, category |-> Null]
           /\ job = [t \in Threads |-> Idle]

-----------------------------------------------------------------------------
(* The operator and the world around the call.                             *)

Calling == caller.at \in Steps
World == UNCHANGED <<zones, edited, owners, swallowed>>
Database == UNCHANGED <<call, trail, incidents>>

\* The form of the step the caller is at; while a thread has it, that is a repetition.
Post(t) ==
    /\ Calling /\ job[t] = Idle
    /\ \/ (\A u \in Threads : job[u].step # caller.at) /\ UNCHANGED posts
       \/ (\E u \in Threads : job[u].step = caller.at) /\ posts < Repeats /\ posts' = posts + 1
    /\ job' = [job EXCEPT ![t] = [Idle EXCEPT !.step = caller.at]]
    /\ Database /\ World /\ UNCHANGED <<caller, heard>>
\* The caller hangs up; what the threads have begun goes on.
HangUp == /\ Calling /\ caller' = [caller EXCEPT !.at = "gone"]
          /\ Database /\ World /\ UNCHANGED <<posts, heard, job>>
\* A zone is created, renamed or deleted.
EditZones == /\ zones' \in ZoneLists \ {zones}
             /\ edited' = (edited \/ caller.zone # Null)
             /\ Database /\ UNCHANGED <<owners, caller, posts, heard, swallowed, job>>
\* Somebody registers an account with the number: the column is not unique.
RegisterNumber == /\ owners < 2 /\ owners' = owners + 1
                  /\ Database /\ UNCHANGED <<zones, edited, caller, posts, heard, swallowed, job>>
\* The thread dies; the operator gets no answer, and posts the form again or hangs up.
ThreadDies(t) == /\ job[t] # Idle /\ Finish(t)
                 /\ posts < Repeats /\ posts' = posts + 1
                 /\ Database /\ World /\ UNCHANGED <<caller, heard>>

-----------------------------------------------------------------------------
(* The webhooks.                                                           *)

Listener == UNCHANGED <<caller, posts, heard>>
Inside == World /\ Listener
\* The answer counts if the caller still waits at this step.
Answer(t, step, next) ==
    /\ Finish(t) /\ World /\ UNCHANGED posts
    /\ caller' = IF caller.at = step THEN next ELSE caller

Reads(t, at) == job' = [job EXCEPT ![t].copy = call, ![t].at = at]

\* get_or_create by call_sid, which is unique.
Webhook(t) ==
    /\ At(t, "webhook", "read") /\ Inside /\ UNCHANGED <<trail, incidents>>
    /\ \/ /\ call = Null
          /\ call' = [status |-> "in-progress", audio |-> FALSE, linked |-> FALSE,
                      zone |-> Null, category |-> Null]
          /\ Goto(t, "answer")
       \/ call # Null /\ Reads(t, "save") /\ UNCHANGED call
\* For a repetition, the status of the form.
WebhookSave(t) ==
    /\ At(t, "webhook", "save") /\ Inside /\ UNCHANGED <<trail, incidents>>
    /\ call' = [job[t].copy EXCEPT !.status = "in-progress"] /\ Goto(t, "answer")
WebhookAnswer(t) ==
    /\ At(t, "webhook", "answer") /\ Database /\ UNCHANGED heard
    /\ \E at \in {"select_zone", "gone"} :
         Answer(t, "webhook", [caller EXCEPT !.at = at])

\* The main menu: 1 offers the zones, anything else hangs up.
SelectZone(t) ==
    /\ At(t, "select_zone", "read") /\ Inside /\ UNCHANGED <<call, incidents>>
    /\ trail' = IF call = Null THEN trail ELSE trail \cup {"main_menu"}
    /\ Goto(t, "answer")
\* The zones are offered as they are now, and the caller presses a digit, or none.
SelectZoneAnswer(t) ==
    /\ At(t, "select_zone", "answer") /\ Database
    /\ \/ /\ \E digit \in Digits : Answer(t, "select_zone", [caller EXCEPT !.at = "select_category",
                                                                          !.zone = digit])
          /\ heard' = IF caller.at = "select_zone" THEN zones ELSE heard
       \/ Answer(t, "select_zone", [caller EXCEPT !.at = "gone"]) /\ UNCHANGED heard

\* The zone under the digit, in the list as it is read again.  A digit past the end of
\* the list saves nothing, and the call goes on.
\* Faulty variant: the digit is taken for a position that counts from 0.
SelectCategoryFromZero(t) ==
    /\ At(t, "select_category", "read") /\ Inside /\ Database
    /\ IF call # Null /\ caller.zone \in DOMAIN zones
       THEN job' = [job EXCEPT ![t].at = "save",
                               ![t].copy = [call EXCEPT !.zone = zones[(caller.zone % Len(zones)) + 1]]]
       ELSE Goto(t, "answer")
SelectCategory(t) ==
    /\ At(t, "select_category", "read") /\ Inside /\ Database
    /\ IF call # Null /\ caller.zone \in DOMAIN zones
       THEN job' = [job EXCEPT ![t].at = "save",
                               ![t].copy = [call EXCEPT !.zone = zones[caller.zone]]]
       ELSE Goto(t, "answer")
RecordDescription(t) ==
    /\ At(t, "record_description", "read") /\ Inside /\ Database
    /\ IF call # Null /\ caller.category \in DOMAIN Categories
       THEN job' = [job EXCEPT ![t].at = "save",
                               ![t].copy = [call EXCEPT !.category = Categories[caller.category]]]
       ELSE Goto(t, "answer")
\* All the columns of the row it read, over what another thread saved since.
ChoiceSave(t) ==
    /\ job[t].step \in {"select_category", "record_description"} /\ job[t].at = "save"
    /\ call' = job[t].copy /\ Goto(t, "log") /\ Inside /\ UNCHANGED <<trail, incidents>>
ChoiceLog(t) ==
    /\ job[t].step \in {"select_category", "record_description"} /\ job[t].at = "log"
    /\ trail' = trail \cup {IF job[t].step = "select_category" THEN "zone_selection"
                                                               ELSE "category_selection"}
    /\ Goto(t, "answer") /\ Inside /\ UNCHANGED <<call, incidents>>
SelectCategoryAnswer(t) ==
    /\ At(t, "select_category", "answer") /\ Database /\ UNCHANGED heard
    /\ \/ \E digit \in Digits :
            Answer(t, "select_category", [caller EXCEPT !.at = "record_description", !.category = digit])
       \/ Answer(t, "select_category", [caller EXCEPT !.at = "gone"])
RecordDescriptionAnswer(t) ==
    /\ At(t, "record_description", "answer") /\ Database /\ UNCHANGED heard
    /\ Answer(t, "record_description", [caller EXCEPT !.at = "process_recording"])

\* The recording: the call is completed, an account found or made for the number, an
\* incident opened and linked to the call, in five statements.
ProcessRecording(t) ==
    /\ At(t, "process_recording", "read") /\ Inside /\ Database
    /\ IF call = Null THEN Goto(t, "answer")
       ELSE job' = [job EXCEPT ![t].at = "save",
                               ![t].copy = [call EXCEPT !.audio = TRUE, !.status = "completed"]]
ProcessSave(t) ==
    /\ At(t, "process_recording", "save") /\ Inside /\ UNCHANGED <<trail, incidents>>
    /\ call' = job[t].copy /\ Goto(t, "log")
ProcessLog(t) ==
    /\ At(t, "process_recording", "log") /\ Inside /\ UNCHANGED <<call, incidents>>
    /\ trail' = trail \cup {"description_recording"} /\ Goto(t, "user")
\* get_or_create: two accounts with the number leave only the exception.
ProcessUser(t) ==
    /\ At(t, "process_recording", "user") /\ owners < 2
    /\ owners' = IF owners = 0 THEN 1 ELSE owners
    /\ Goto(t, "open")
    /\ Database /\ Listener /\ UNCHANGED <<zones, edited, swallowed>>
\* Faulty variant: only an incident with a zone is opened.
ProcessOpenZoned(t) ==
    /\ At(t, "process_recording", "open") /\ Inside /\ UNCHANGED <<call, trail>>
    /\ incidents' = IF job[t].copy.zone = Null THEN incidents
                    ELSE incidents \cup {[zone |-> job[t].copy.zone, category |-> job[t].copy.category]}
    /\ Goto(t, "link")
ProcessOpen(t) ==
    /\ At(t, "process_recording", "open") /\ Inside /\ UNCHANGED <<call, trail>>
    /\ incidents' = incidents \cup {[zone |-> job[t].copy.zone, category |-> job[t].copy.category]}
    /\ Goto(t, "link")
ProcessLink(t) ==
    /\ At(t, "process_recording", "link") /\ Inside /\ UNCHANGED <<trail, incidents>>
    /\ call' = [job[t].copy EXCEPT !.linked = TRUE] /\ Goto(t, "answer")
\* Any of the five may raise (an address too long for its column, a category deleted since, an
\* account that has the e-mail made from the number, a second account with the number): the
\* exception is swallowed, and what the earlier statements wrote stays.
ProcessRaises(t) ==
    /\ job[t].step = "process_recording" /\ job[t].at \in {"save", "log", "user", "open", "link"}
    /\ swallowed' = TRUE /\ Goto(t, "answer")
    /\ Database /\ Listener /\ UNCHANGED <<zones, edited, owners>>
\* Whatever became of it, the caller is thanked for an incident that was registered.
ProcessAnswer(t) ==
    /\ At(t, "process_recording", "answer") /\ Database /\ UNCHANGED heard
    /\ Answer(t, "process_recording", [caller EXCEPT !.at = "thanked"])

-----------------------------------------------------------------------------
Process(t) == \/ ProcessRecording(t) \/ ProcessSave(t) \/ ProcessLog(t) \/ ProcessUser(t)
              \/ ProcessOpen(t) \/ ProcessLink(t) \/ ProcessRaises(t) \/ ProcessAnswer(t)
Thread(t) == \/ Webhook(t) \/ WebhookSave(t) \/ WebhookAnswer(t)
             \/ SelectZone(t) \/ SelectZoneAnswer(t)
             \/ SelectCategory(t) \/ RecordDescription(t) \/ ChoiceSave(t) \/ ChoiceLog(t)
             \/ SelectCategoryAnswer(t) \/ RecordDescriptionAnswer(t)
             \/ Process(t)

IvrNext == \/ \E t \in Threads : Post(t) \/ Thread(t) \/ ThreadDies(t)
           \/ HangUp \/ EditZones \/ RegisterNumber

IvrSpec == IvrInit /\ [][IvrNext]_ivrVars

-----------------------------------------------------------------------------
(* Properties.                                                             *)

IvrTypeOK == /\ call \in Call \cup {Null} /\ trail \subseteq
                {"main_menu", "zone_selection", "category_selection", "description_recording"}
             /\ incidents \subseteq Opened /\ owners \in 0 .. 2
             /\ zones \in ZoneLists /\ heard \in ZoneLists \cup {<<>>} /\ edited \in BOOLEAN
             /\ swallowed \in BOOLEAN
             /\ caller \in Caller /\ posts \in 0 .. Repeats
             /\ job \in [Threads -> Job]

\* However forms are repeated and threads overlap, an incident is never opened with a zone
\* the caller did not choose, or a category: at worst it has none, because a late save of
\* an older copy of the call took it away.  The zones must not change between the offer and
\* the choice, which are two queries.
AsHeard ==
    \A i \in incidents :
      /\ i.zone # Null /\ ~edited => caller.zone \in DOMAIN heard /\ i.zone = heard[caller.zone]
      /\ i.category # Null => /\ caller.category \in DOMAIN Categories
                              /\ i.category = Categories[caller.category]

\* A caller who is thanked for an incident has opened one, whatever he chose, repetitions and
\* deaths of threads included, unless an exception was swallowed.
ThankedHasIncident == caller.at = "thanked" => incidents # {} \/ swallowed

=============================================================================
