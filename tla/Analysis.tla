-------------------------------- MODULE Analysis --------------------------------
(***************************************************************************)
(* The analysis of an incident's photo by the model service, composed with   *)
(* the life of the incident in Trash.                                       *)
(*                                                                         *)
(* Reporting an incident with a photo, and a super admin's relaunch, send a  *)
(* Celery task; several workers run them at once.  A task reads the          *)
(* Prediction, saves 'processing', waits for the service, and saves the      *)
(* result over the copy it read, or 'failed'.  A request to the service that *)
(* fails is retried by Celery, later, and at most MaxRetries times.          *)
(***************************************************************************)
EXTENDS Trash, FiniteSets

CONSTANTS Sends,        \* the task messages that may come to be sent (a bound of the model)
          Concurrency,  \* how many tasks the workers run at once
          MaxRetries,   \* max_retries of the task
          Answers,      \* what the service may answer
          Unlisted      \* the answers in the category that is not listed

ASSUME SendsAssumption == IsFiniteSet(Sends)
ASSUME BoundsAssumption == Concurrency \in Nat \ {0} /\ MaxRetries \in Nat
ASSUME AnswersAssumption == Unlisted \subseteq Answers /\ None \notin Answers

VARIABLES prediction,   \* the incident's row of Prediction, if any
          task,         \* the task messages, and what their workers have read
          lost          \* history: a task message was lost, or never sent

anVars == <<trashVars, prediction, task, lost>>

Finished == {"completed", "completed_with_warning"}
Open == {"pending", "processing"}
\* `mirror` stands for the legacy columns, filled from the first answer only.
Prediction == [status : Finished \cup Open \cup {"failed"},
               result : Answers \cup {None}, mirror : Answers \cup {None}]
ASSUME NoPredictionAssumption == None \notin Prediction
Fresh == [status |-> "pending", result |-> None, mirror |-> None]

Task == [at : {"unsent", "queued", "read", "asking", "failing", "ended"},
         retries : 0 .. MaxRetries, copy : Prediction \cup {None}]
Unsent == [at |-> "unsent", retries |-> 0, copy |-> None]
Running(t) == task[t].at \in {"read", "asking", "failing"}

Analysed == prediction # None
Is(statuses) == Analysed /\ prediction.status \in statuses

AnInit == /\ TrashInit /\ prediction = None /\ lost = FALSE
          /\ task = [t \in Sends |-> Unsent]

-----------------------------------------------------------------------------
(* The web side.                                                           *)

\* Deleting the incident deletes its prediction.
Cascade == prediction' = IF incident' = None THEN None ELSE prediction

\* The statements of the trash that leave no task behind.
TrashPart(s) == (ReportSave(s) \/ TrashSave(s)) /\ Cascade /\ UNCHANGED <<task, lost>>

Keeps == UNCHANGED <<incident, reported, binned, forged>>
\* A relaunch gives an incident without prediction one.  (super admin)
Relaunch(s) ==
    /\ Exists /\ incident.photo
    /\ Begin(s, "relaunch", incident)
    /\ prediction' = IF Analysed THEN prediction ELSE Fresh
    /\ UNCHANGED <<task, lost>>
\* The save fails when the prediction went with its incident.
RelaunchSave(s) ==
    /\ At(s, "relaunch") /\ Keeps /\ UNCHANGED <<task, lost>>
    /\ \/ Analysed /\ prediction' = [prediction EXCEPT !.status = "pending"] /\ Goto(s, "enqueue")
       \/ ~Analysed /\ UNCHANGED prediction /\ Goto(s, "idle")

\* After the report: get_or_create, which fails if the incident is gone.
Predict(s) ==
    /\ At(s, "predict") /\ Keeps /\ UNCHANGED <<task, lost>>
    /\ prediction' = IF Exists /\ ~Analysed THEN Fresh ELSE prediction
    /\ Goto(s, IF Exists THEN "enqueue" ELSE "idle")
\* The report of an incident without photo fails the analysis at once.
EnqueueNothing(s) ==
    /\ At(s, "enqueue") /\ ~job[s].copy.photo /\ Keeps /\ UNCHANGED <<task, lost>>
    /\ prediction' = IF Analysed THEN [prediction EXCEPT !.status = "failed"] ELSE None
    /\ Goto(s, "idle")
\* The message is sent, unless the broker does not answer: the report ignores the
\* exception, the relaunch fails with it.
Enqueue(s) ==
    /\ At(s, "enqueue") /\ job[s].copy.photo /\ Keeps /\ UNCHANGED prediction
    /\ Goto(s, "idle")
    /\ \/ \E t \in Sends : /\ task[t].at = "unsent"
                           /\ task' = [task EXCEPT ![t].at = "queued"] /\ UNCHANGED lost
       \/ UNCHANGED task /\ lost' = TRUE

\* A request that dies before the message is sent leaves the analysis pending.
WebCrash(s) ==
    /\ Crash(s)
    /\ lost' = (lost \/ job[s].op \in {"predict", "relaunch", "enqueue"})
    /\ UNCHANGED <<prediction, task>>

-----------------------------------------------------------------------------
(* The task.                                                               *)

Becomes(t, at) == task' = [task EXCEPT ![t].at = at]
End(t) == task' = [task EXCEPT ![t] = [Unsent EXCEPT !.at = "ended"]]
Worker == UNCHANGED trashVars
\* A save of the status; FALSE is the exception for a row that is gone.
SetStatus(status) == Analysed /\ prediction' = [prediction EXCEPT !.status = status]
RowGone(t) == ~Analysed /\ UNCHANGED prediction /\ End(t)

\* Faulty variant: only 'completed' counts as finished.
StartUnlessCompleted(t) ==
    /\ Worker /\ UNCHANGED <<prediction, lost>>
    /\ task[t].at = "queued"
    /\ Cardinality({u \in Sends : Running(u)}) < Concurrency
    /\ \/ ~Analysed \/ Is({"completed"})
       \/ Analysed /\ ~Is({"completed"})
    /\ IF ~Analysed \/ Is({"completed"}) THEN End(t)
       ELSE task' = [task EXCEPT ![t].copy = prediction,
                                 ![t].at = IF incident.photo THEN "read" ELSE "failing"]
\* A prediction that was deleted or is finished leaves nothing to do.
Start(t) ==
    /\ Worker /\ UNCHANGED <<prediction, lost>>
    /\ task[t].at = "queued"
    /\ Cardinality({u \in Sends : Running(u)}) < Concurrency
    /\ IF ~Analysed \/ Is(Finished) THEN End(t)
       ELSE task' = [task EXCEPT ![t].copy = prediction,
                                 ![t].at = IF incident.photo THEN "read" ELSE "failing"]

Processing(t) ==
    /\ task[t].at = "read" /\ Worker /\ UNCHANGED lost
    /\ \/ SetStatus("processing") /\ Becomes(t, "asking")
       \/ RowGone(t)

\* What fill_prediction_from_model_response makes of an answer and of the copy.
Filled(copy, answer) ==
    [status |-> IF answer \in Unlisted THEN "completed_with_warning" ELSE "completed",
     result |-> answer, mirror |-> IF copy.mirror = None THEN answer ELSE copy.mirror]
\* Faulty variant: the row is written although its incident is gone.
AnsweredAnyway(t, answer) ==
    /\ task[t].at = "asking" /\ Worker /\ UNCHANGED lost
    /\ prediction' = Filled(task[t].copy, answer) /\ End(t)
\* The whole row is saved, inserted again if need be; without its incident that fails,
\* and so does the save of the failure.
Answered(t, answer) ==
    /\ task[t].at = "asking" /\ Worker /\ UNCHANGED lost
    /\ prediction' = IF Exists THEN Filled(task[t].copy, answer) ELSE None
    /\ End(t)

\* Faulty variant: the failure is not stored when the last retry is used up.
RequestFailsSilently(t) ==
    /\ task[t].at = "asking" /\ Worker /\ UNCHANGED <<prediction, lost>>
    /\ IF task[t].retries = MaxRetries \/ ~Analysed THEN End(t)
       ELSE task' = [task EXCEPT ![t] = [at |-> "queued", retries |-> @.retries + 1, copy |-> None]]
\* The request failed, and Celery sends the message again.
RequestFails(t) ==
    /\ task[t].at = "asking" /\ Worker /\ UNCHANGED lost
    /\ \/ /\ SetStatus("failed")
          /\ IF task[t].retries = MaxRetries THEN End(t)
             ELSE task' = [task EXCEPT ![t] = [at |-> "queued", retries |-> @.retries + 1,
                                               copy |-> None]]
       \/ RowGone(t)
\* Something else failed, or there is no photo: no retry.
Fails(t) ==
    /\ task[t].at \in {"asking", "failing"} /\ Worker /\ UNCHANGED lost
    /\ \/ SetStatus("failed") /\ End(t)
       \/ RowGone(t)

\* The message was acknowledged when it was taken: nobody runs it again.
WorkerDies(t) == Running(t) /\ End(t) /\ lost' = TRUE /\ Worker /\ UNCHANGED prediction

TaskSteps(t) == \/ Start(t) \/ Processing(t) \/ RequestFails(t) \/ Fails(t)
                \/ \E answer \in Answers : Answered(t, answer)

-----------------------------------------------------------------------------
Aside == UNCHANGED <<prediction, task, lost>>
WebSteps(s) == \/ TrashPart(s) \/ RelaunchSave(s) \/ Predict(s) \/ EnqueueNothing(s) \/ Enqueue(s)

AnNext == \/ \E s \in Web : (TrashRequests(s) /\ Aside) \/ Relaunch(s)
          \/ \E s \in Beat : PurgeSelect(s) /\ Aside
          \/ \E s \in Slots : WebSteps(s) \/ WebCrash(s)
          \/ \E t \in Sends : TaskSteps(t) \/ WorkerDies(t)
          \/ Tick /\ Aside

AnSpec == AnInit /\ [][AnNext]_anVars

\* Requests end, by their next statement or by dying; the workers take what is queued
\* and a request to the service is answered or times out; beat sends the purge every
\* day, and it does not for ever die before its transaction commits.
AnFairness == /\ \A s \in Slots : WF_anVars(WebSteps(s) \/ WebCrash(s))
              /\ \A t \in Sends : WF_anVars(TaskSteps(t))
              /\ SF_anVars(\E s \in Beat : PurgeSelect(s) /\ Aside)
              /\ \A s \in Beat : SF_anVars(At(s, "purge") /\ TrashPart(s))
AnFairSpec == AnSpec /\ AnFairness

-----------------------------------------------------------------------------
(* Properties.                                                             *)

AnTypeOK == /\ TrashTypeOK
            /\ prediction \in Prediction \cup {None} /\ lost \in BOOLEAN
            /\ task \in [Sends -> Task]

\* Whatever overlaps, no prediction outlives its incident, although the answer of the
\* service may arrive after the purge; and one that is finished has a result.
PredictionHasIncident == Analysed => Exists /\ (Is(Finished) => prediction.result # None)

\* When one task runs at a time and requests do not overlap, late retries and messages
\* sent twice included, a finished analysis stays finished until a super admin relaunches
\* it.  (A relaunch that overtakes the report of an incident without photo breaks it.)
FinishedStands ==
    [][Is(Finished) /\ prediction' # None
       => \/ prediction' = prediction
          \/ \E s \in Web : At(s, "relaunch") /\ RelaunchSave(s)]_anVars

\* An analysis asked for comes to an end, successful or not, unless a message was lost.
AnalysisEnds == Is(Open) ~> ~Is(Open) \/ lost
=============================================================================
