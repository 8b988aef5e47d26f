---------------------------- MODULE Assistant_proofs ----------------------------
(***************************************************************************)
(* What holds of an incident in and out of the trash, of its analysis and of *)
(* the assistant, for every number of web threads, workers, task messages    *)
(* and askers, or of one web thread where the code needs that.               *)
(***************************************************************************)
EXTENDS Assistant, FiniteSetTheorems, TLAPS

-----------------------------------------------------------------------------
(* The rows and copies have their types.                                   *)

\* Columns of a row and of a copy.
LEMMA RowFields ==
    ASSUME NEW r \in Row
    PROVE  /\ r # None
           /\ \A d \in BOOLEAN : [r EXCEPT !.deleted = d] \in Row
           /\ \A d \in BOOLEAN, a \in Ages \cup {None} :
                [r EXCEPT !.deleted = d, !.since = a] \in Row
           /\ \A p, d \in BOOLEAN : [r EXCEPT !.photo = p, !.deleted = d] \in Row
           /\ \A a \in Ages \cup {None} : [r EXCEPT !.since = a] \in Row
BY NoneAssumption DEF Row

\* A day makes a date one day older, up to the bound.
LEMMA OlderAges ==
    ASSUME NEW a \in Ages \cup {None}
    PROVE  Older(a) \in Ages \cup {None} /\ (Older(a) = None <=> a = None)
BY NoneAssumption, KeptAssumption DEF Older, Ages

\* So it does to a row and to a copy of it.
LEMMA AgedRow ==
    ASSUME NEW r \in Row \cup {None}
    PROVE  /\ Aged(r) \in Row \cup {None}
           /\ Aged(r) = None <=> r = None
           /\ r \in Row => Aged(r).photo = r.photo /\ Aged(r).deleted = r.deleted
                           /\ Aged(r).since = Older(r.since)
<1>1. CASE r = None BY <1>1, NoneAssumption DEF Aged
<1>2. CASE r \in Row
  <2>1. r.since \in Ages \cup {None} BY <1>2 DEF Row
  <2>2. Aged(r) = [r EXCEPT !.since = Older(r.since)] BY <1>2, RowFields DEF Aged
  <2>3. Older(r.since) \in Ages \cup {None} BY <2>1, OlderAges
  <2>4. Aged(r) \in Row BY <1>2, <2>2, <2>3 DEF Row
  <2>5. Aged(r).photo = r.photo /\ Aged(r).deleted = r.deleted /\ Aged(r).since = Older(r.since)
    BY <1>2, <2>2 DEF Row
  <2> QED BY <1>2, <2>4, <2>5, NoneAssumption
<1> QED BY <1>1, <1>2

\* A slot that goes on, or ends.
LEMMA GotoType ==
    ASSUME NEW s \in Slots, job \in [Slots -> Job], NEW op \in Ops, Goto(s, op)
    PROVE  job' \in [Slots -> Job]
<1>1. Idle \in Job BY DEF Idle, Job, Ops
<1>2. [job[s] EXCEPT !.op = op] \in Job BY DEF Job
<1> QED BY <1>1, <1>2 DEF Goto

\* The statements of the trash, whatever the slot has read.
LEMMA TrashStepType ==
    ASSUME TrashTypeOK, NEW s \in Slots, ReportSave(s) \/ TrashSave(s) \/ Crash(s)
    PROVE  TrashTypeOK'
<1> USE DEF TrashTypeOK
<1>1. "idle" \in Ops /\ "predict" \in Ops BY DEF Ops
<1>2. job[s].copy \in Row \cup {None} BY DEF Job
<1>3. ASSUME NEW new \in Row \cup {None}, Stored(new), job' \in [Slots -> Job],
             forged' \in BOOLEAN
      PROVE  TrashTypeOK'
  BY <1>3, KeptAssumption DEF Stored, Ages
<1>4. CASE ReportSave(s) BY <1>1, <1>2, <1>4, GotoType DEF ReportSave
<1>5. CASE TrashSave(s)
  <2>1. job' \in [Slots -> Job] BY <1>1, <1>5, GotoType DEF TrashSave
  <2>f. forged' \in BOOLEAN
    <3>1. ASSUME PutSave(s) PROVE forged' \in BOOLEAN
      <4>1. PICK p : p = (job[s].copy.deleted /\ Trashing(job[s].copy) # Trashing(incident))
        OBVIOUS
      <4>2. p \in BOOLEAN BY <4>1, Zenon
      <4>3. forged' = (forged \/ p) BY <3>1, <4>1, Zenon DEF PutSave
      <4>4. (forged \/ p) \in BOOLEAN OBVIOUS
      <4> QED BY <4>3, <4>4, Zenon
    <3> QED BY <1>5, <3>1 DEF TrashSave
  <2>2. PICK new \in Row \cup {None} : Stored(new)
    <3>1. 0 \in Ages BY KeptAssumption DEF Ages
    <3>2. Columns([incident EXCEPT !.deleted = TRUE, !.since = 0]) \in Row \cup {None}
      BY <3>1, RowFields DEF Columns, Exists
    <3>3. Columns([incident EXCEPT !.deleted = FALSE]) \in Row \cup {None}
      BY RowFields DEF Columns, Exists
    <3> QED BY <1>2, <1>5, <3>2, <3>3 DEF TrashSave, PutSave
  <2> QED BY <1>3, <2>1, <2>2, <2>f
<1>6. CASE Crash(s) BY <1>1, <1>6, GotoType DEF Crash
<1> QED BY <1>4, <1>5, <1>6

\* A slot that begins with the row it has read, or with the form's.
LEMMA BeginType ==
    ASSUME TrashTypeOK, NEW s \in Slots, NEW op \in Ops, NEW copy \in Row \cup {None},
           Begin(s, op, copy)
    PROVE  TrashTypeOK'
BY DEF TrashTypeOK, Begin, Job

LEMMA RequestType ==
    ASSUME TrashTypeOK, NEW s \in Slots, TrashRequests(s) \/ PurgeSelect(s)
    PROVE  TrashTypeOK'
<1>1. incident \in Row \cup {None} BY DEF TrashTypeOK
<1>2. {"report", "put", "delete", "restore", "destroy", "purge"} \subseteq Ops BY DEF Ops
<1>3. ASSUME NEW photo \in BOOLEAN, Report(s, photo) PROVE TrashTypeOK'
  <2>1. [photo |-> photo, deleted |-> FALSE, since |-> None] \in Row \cup {None} BY DEF Row
  <2> QED BY <1>2, <1>3, <2>1, BeginType DEF Report
<1>4. ASSUME Exists, NEW photo \in BOOLEAN, NEW d \in BOOLEAN,
             NEW since \in FormDates \cup {incident.since}, Put(s, photo, d, since)
      PROVE  TrashTypeOK'
  <2>1. incident \in Row BY <1>1, <1>4 DEF Exists
  <2>2. since \in Ages \cup {None} BY <1>4, <2>1, FormDatesAssumption DEF Row
  <2>3. [photo |-> photo, deleted |-> d, since |-> since] \in Row \cup {None}
    BY <2>2 DEF Row
  <2> QED BY <1>2, <1>4, <2>3, BeginType DEF Put
<1>5. CASE DeleteIncident(s) \/ BulkDelete(s) \/ Restore(s) \/ ForceDelete(s) \/ PurgeSelect(s)
  BY <1>1, <1>2, <1>5, BeginType DEF DeleteIncident, BulkDelete, Restore, ForceDelete, PurgeSelect
<1> QED BY <1>3, <1>4, <1>5 DEF TrashRequests

LEMMA TickType == ASSUME TrashTypeOK, Tick PROVE TrashTypeOK'
<1> USE DEF TrashTypeOK, Tick
<1>1. incident' \in Row \cup {None} BY AgedRow
<1>2. binned' \in Ages \cup {None} BY OlderAges
<1>3. ASSUME NEW s \in Slots PROVE [job[s] EXCEPT !.copy = Aged(@)] \in Job
  <2>1. job[s].copy \in Row \cup {None} BY DEF Job
  <2>2. Aged(job[s].copy) \in Row \cup {None} BY <2>1, AgedRow
  <2>3. [job[s] EXCEPT !.copy = Aged(@)] = [job[s] EXCEPT !.copy = Aged(job[s].copy)]
    OBVIOUS
  <2> QED BY <2>2, <2>3 DEF Job
<1>4. job' \in [Slots -> Job] BY <1>3
<1>5. reported' \in BOOLEAN /\ forged' \in BOOLEAN OBVIOUS
<1> QED BY <1>1, <1>2, <1>4, <1>5

-----------------------------------------------------------------------------
(* The prediction and its tasks.                                           *)

\* A worker that has started its task has read the prediction.
CopiesRead == \A t \in Sends : Running(t) => task[t].copy \in Prediction
AnInv == AnTypeOK /\ PredictionHasIncident /\ CopiesRead

\* No incident, no analysis, no task at first.
LEMMA AnInitInv == AnInit => AnInv
<1> SUFFICES ASSUME AnInit PROVE AnInv OBVIOUS
<1>1. "idle" \in Ops BY DEF Ops
<1>2. TrashTypeOK BY <1>1 DEF AnInit, TrashInit, TrashTypeOK, Idle, Job
<1>3. Unsent \in Task BY BoundsAssumption DEF Unsent, Task
<1>4. AnTypeOK BY <1>2, <1>3 DEF AnInit, AnTypeOK
<1>5. PredictionHasIncident BY DEF AnInit, PredictionHasIncident, Analysed
<1>6. CopiesRead BY DEF AnInit, CopiesRead, Running, Unsent
<1> QED BY <1>4, <1>5, <1>6 DEF AnInv

\* A row of Prediction is never NULL, and keeps its type with another status.
LEMMA PredictionRow ==
    /\ Fresh \in Prediction
    /\ \A p \in Prediction : p # None
    /\ \A p \in Prediction, st \in {"pending", "processing", "failed"} :
         [p EXCEPT !.status = st] \in Prediction
<1>1. Fresh \in Prediction BY DEF Fresh, Prediction, Open
<1>2. ASSUME NEW p \in Prediction, NEW st \in {"pending", "processing", "failed"}
      PROVE  [p EXCEPT !.status = st] \in Prediction
  BY <1>2 DEF Prediction, Open
<1> QED BY <1>1, <1>2, NoPredictionAssumption

\* The result of the service makes a finished row with a result.
LEMMA FilledRow ==
    ASSUME NEW copy \in Prediction, NEW answer \in Answers
    PROVE  Filled(copy, answer) \in Prediction /\ Filled(copy, answer).result # None
<1>1. (IF answer \in Unlisted THEN "completed_with_warning" ELSE "completed") \in Finished
  BY DEF Finished
<1>2. (IF copy.mirror = None THEN answer ELSE copy.mirror) \in Answers \cup {None}
  BY DEF Prediction
<1> QED BY <1>1, <1>2, AnswersAssumption DEF Filled, Prediction

\* What a status other than 'completed' says of the row it is given to.
LEMMA StatusInv ==
    ASSUME AnInv, NEW st \in {"pending", "processing", "failed"}, Analysed, Keeps,
           prediction' = [prediction EXCEPT !.status = st]
    PROVE  /\ prediction' \in Prediction \cup {None}
           /\ PredictionHasIncident' /\ ~Is(Finished)'
<1> USE DEF AnInv, AnTypeOK
<1>1. prediction \in Prediction BY DEF Analysed
<1>2. prediction' \in Prediction /\ prediction'.status = st
  BY <1>1, PredictionRow DEF Prediction
<1>3. ~Is(Finished)' BY <1>2 DEF Is, Finished
<1> QED BY <1>2, <1>3 DEF PredictionHasIncident, Keeps, Exists

\* Steps that leave the tasks alone, or queue one.
LEMMA TasksLeft ==
    ASSUME CopiesRead, task \in [Sends -> Task],
           \/ UNCHANGED task
           \/ \E t \in Sends : task' = [task EXCEPT ![t].at = "queued"]
    PROVE  task' \in [Sends -> Task] /\ CopiesRead'
BY DEF CopiesRead, Running, Task

\* Steps of the trash, with the cascade.
LEMMA TrashPartInv ==
    ASSUME AnInv, NEW s \in Slots, TrashPart(s) PROVE AnInv'
<1> USE DEF AnInv, AnTypeOK, TrashPart
<1>1. TrashTypeOK' BY TrashStepType
<1>2. prediction' \in {prediction, None} BY DEF Cascade
<1>3. PredictionHasIncident'
  BY NoPredictionAssumption DEF PredictionHasIncident, Cascade, Analysed, Exists, Is
<1> QED BY <1>1, <1>2, <1>3, TasksLeft

\* Steps of the web that leave the incident alone.
LEMMA WebPartInv ==
    ASSUME AnInv, NEW s \in Slots,
           \/ Relaunch(s) \/ RelaunchSave(s) \/ Predict(s) \/ EnqueueNothing(s) \/ Enqueue(s)
           \/ WebCrash(s)
    PROVE  AnInv'
<1> USE DEF AnInv, AnTypeOK
<1>1. {"idle", "relaunch", "enqueue"} \subseteq Ops BY DEF Ops
<1>2. incident \in Row \cup {None} BY DEF TrashTypeOK
<1>3. ASSUME Keeps, job' \in [Slots -> Job] PROVE TrashTypeOK'
  BY <1>3 DEF TrashTypeOK, Keeps
<1>4. ASSUME Keeps, UNCHANGED prediction PROVE PredictionHasIncident'
  BY <1>4 DEF PredictionHasIncident, Keeps, Exists, Analysed, Is
<1>5. ASSUME NEW op \in Ops, Goto(s, op) PROVE job' \in [Slots -> Job]
  BY <1>5, GotoType DEF TrashTypeOK
<1>6. Fresh \in Prediction /\ ~(Fresh.status \in Finished) BY PredictionRow DEF Fresh, Finished
<1>7. CASE Relaunch(s)
  <2>1. TrashTypeOK' BY <1>1, <1>2, <1>7, BeginType DEF Relaunch
  <2>2. Exists' /\ incident' = incident BY <1>7 DEF Relaunch, Begin, Exists
  <2>3. prediction' \in Prediction \cup {None} BY <1>6, <1>7 DEF Relaunch
  <2>4. PredictionHasIncident'
    BY <1>6, <1>7, <2>2 DEF Relaunch, PredictionHasIncident, Is, Analysed
  <2> QED BY <1>7, <2>1, <2>3, <2>4, TasksLeft DEF Relaunch
<1>8. CASE RelaunchSave(s)
  <2>1. TrashTypeOK' BY <1>1, <1>3, <1>5, <1>8 DEF RelaunchSave
  <2>2. prediction' \in Prediction \cup {None} /\ PredictionHasIncident'
    BY <1>4, <1>8, StatusInv DEF RelaunchSave
  <2> QED BY <1>8, <2>1, <2>2, TasksLeft DEF RelaunchSave
<1>9. CASE Predict(s)
  <2>1. Keeps /\ (Goto(s, "enqueue") \/ Goto(s, "idle")) BY <1>9 DEF Predict
  <2>2. TrashTypeOK' BY <1>1, <1>3, <1>5, <2>1
  <2>3. prediction' \in Prediction \cup {None} BY <1>6, <1>9 DEF Predict
  <2>4. PredictionHasIncident'
    BY <1>4, <1>6, <1>9, <2>1 DEF Predict, PredictionHasIncident, Is, Analysed, Exists, Keeps
  <2> QED BY <1>9, <2>2, <2>3, <2>4, TasksLeft DEF Predict
<1>10. CASE EnqueueNothing(s)
  <2>1. TrashTypeOK' BY <1>1, <1>3, <1>5, <1>10 DEF EnqueueNothing
  <2>2. prediction' \in Prediction \cup {None} /\ PredictionHasIncident'
    <3>1. CASE Analysed BY <1>10, <3>1, StatusInv DEF EnqueueNothing
    <3>2. CASE ~Analysed BY <1>10, <3>2 DEF EnqueueNothing, PredictionHasIncident, Analysed
    <3> QED BY <3>1, <3>2
  <2> QED BY <1>10, <2>1, <2>2, TasksLeft DEF EnqueueNothing
<1>11. CASE Enqueue(s)
  <2>1. TrashTypeOK' BY <1>1, <1>3, <1>5, <1>11 DEF Enqueue
  <2>2. PredictionHasIncident' /\ lost' \in BOOLEAN BY <1>4, <1>11 DEF Enqueue
  <2>3. task' \in [Sends -> Task] /\ CopiesRead' BY <1>11, TasksLeft DEF Enqueue
  <2> QED BY <1>11, <2>1, <2>2, <2>3 DEF Enqueue
<1>12. CASE WebCrash(s)
  <2>1. TrashTypeOK' BY <1>12, TrashStepType DEF WebCrash
  <2>2. Keeps BY <1>12 DEF WebCrash, Crash, Keeps
  <2>3. lost' \in BOOLEAN BY <1>12 DEF WebCrash
  <2> QED BY <1>4, <1>12, <2>1, <2>2, <2>3, TasksLeft DEF WebCrash
<1> QED BY <1>7, <1>8, <1>9, <1>10, <1>11, <1>12

\* A task message whose worker starts, goes on, or ends.
Runs(t, p) == \E at \in {"read", "failing"} :
                 task' = [task EXCEPT ![t].copy = p, ![t].at = at]
Retries(t) == /\ task[t].retries # MaxRetries
              /\ task' = [task EXCEPT ![t] = [at |-> "queued", retries |-> @.retries + 1,
                                              copy |-> None]]
LEMMA TaskGoes ==
    ASSUME CopiesRead, task \in [Sends -> Task], NEW t \in Sends,
           \/ End(t) \/ Retries(t)
           \/ Running(t) /\ Becomes(t, "asking")
           \/ \E p \in Prediction : Runs(t, p)
    PROVE  task' \in [Sends -> Task] /\ CopiesRead'
<1>1. task[t] \in Task OBVIOUS
<1>2. PICK new \in Task : /\ task' = [task EXCEPT ![t] = new]
                          /\ new.at \in {"read", "asking", "failing"} => new.copy \in Prediction
  <2>1. CASE End(t)
    <3>1. [Unsent EXCEPT !.at = "ended"] \in Task BY BoundsAssumption DEF Unsent, Task
    <3>2. [Unsent EXCEPT !.at = "ended"].at = "ended" BY DEF Unsent
    <3> QED BY <2>1, <3>1, <3>2 DEF End
  <2>2. CASE Retries(t)
    <3>1. [at |-> "queued", retries |-> task[t].retries + 1, copy |-> None] \in Task
      BY <1>1, <2>2, BoundsAssumption DEF Task, Retries
    <3> QED BY <2>2, <3>1 DEF Retries
  <2>3. CASE Running(t) /\ Becomes(t, "asking")
    <3>1. [task[t] EXCEPT !.at = "asking"] \in Task BY <1>1 DEF Task
    <3>2. [task[t] EXCEPT !.at = "asking"].copy = task[t].copy BY <1>1 DEF Task
    <3> QED BY <2>3, <3>1, <3>2 DEF Becomes, CopiesRead
  <2>4. CASE \E p \in Prediction : Runs(t, p)
    <3>1. PICK p \in Prediction, at \in {"read", "failing"} :
             task' = [task EXCEPT ![t].copy = p, ![t].at = at]
      BY <2>4 DEF Runs
    <3>2. task' = [task EXCEPT ![t] = [task[t] EXCEPT !.copy = p, !.at = at]] BY <3>1
    <3>3. [task[t] EXCEPT !.copy = p, !.at = at] \in Task BY <1>1 DEF Task
    <3>4. [task[t] EXCEPT !.copy = p, !.at = at].copy = p BY <1>1 DEF Task
    <3> QED BY <3>2, <3>3, <3>4
  <2> QED BY <2>1, <2>2, <2>3, <2>4
<1> QED BY <1>2 DEF CopiesRead, Running

\* The steps of a task.
LEMMA TaskPartInv ==
    ASSUME AnInv, NEW t \in Sends, TaskSteps(t) \/ WorkerDies(t) PROVE AnInv'
<1> USE DEF AnInv, AnTypeOK
<1>1. Keeps /\ TrashTypeOK'
  <2>1. Worker BY DEF TaskSteps, Start, Processing, RequestFails, Fails, Answered, WorkerDies
  <2> QED BY <2>1 DEF Worker, trashVars, Keeps, TrashTypeOK
<1>2. lost' \in BOOLEAN
  BY DEF TaskSteps, Start, Processing, RequestFails, Fails, Answered, WorkerDies
<1>3. ASSUME UNCHANGED prediction
      PROVE  prediction' \in Prediction \cup {None} /\ PredictionHasIncident'
  BY <1>1, <1>3 DEF PredictionHasIncident, Keeps, Exists, Analysed, Is
<1>4. ASSUME NEW st \in {"processing", "failed"}, SetStatus(st)
      PROVE  prediction' \in Prediction \cup {None} /\ PredictionHasIncident'
  BY <1>1, <1>4, StatusInv DEF SetStatus
<1>5. RowGone(t) => UNCHANGED prediction /\ task' \in [Sends -> Task] /\ CopiesRead'
  BY TaskGoes DEF RowGone
<1>6. CASE Start(t)
  <2>1. UNCHANGED prediction BY <1>6 DEF Start
  <2>2. End(t) \/ (prediction \in Prediction /\ Runs(t, prediction))
    BY <1>6 DEF Start, Runs, Analysed
  <2>3. task' \in [Sends -> Task] /\ CopiesRead' BY <2>2, TaskGoes
  <2> QED BY <1>1, <1>2, <1>3, <2>1, <2>3
<1>7. CASE Processing(t)
  <2>1. task' \in [Sends -> Task] /\ CopiesRead'
    BY <1>5, <1>7, TaskGoes DEF Processing, Running
  <2>2. prediction' \in Prediction \cup {None} /\ PredictionHasIncident'
    BY <1>3, <1>4, <1>5, <1>7 DEF Processing
  <2> QED BY <1>1, <1>2, <2>1, <2>2
<1>8. CASE RequestFails(t)
  <2>1. End(t) \/ Retries(t) \/ RowGone(t) BY <1>8 DEF RequestFails, Retries
  <2>2. task' \in [Sends -> Task] /\ CopiesRead' BY <1>5, <2>1, TaskGoes
  <2>3. prediction' \in Prediction \cup {None} /\ PredictionHasIncident'
    BY <1>3, <1>4, <1>5, <1>8 DEF RequestFails
  <2> QED BY <1>1, <1>2, <2>2, <2>3
<1>9. CASE Fails(t)
  <2>1. task' \in [Sends -> Task] /\ CopiesRead' BY <1>5, <1>9, TaskGoes DEF Fails
  <2>2. prediction' \in Prediction \cup {None} /\ PredictionHasIncident'
    BY <1>3, <1>4, <1>5, <1>9 DEF Fails
  <2> QED BY <1>1, <1>2, <2>1, <2>2
<1>10. ASSUME NEW answer \in Answers, Answered(t, answer) PROVE AnInv'
  <2>1. task' \in [Sends -> Task] /\ CopiesRead' BY <1>10, TaskGoes DEF Answered
  <2>2. prediction' \in Prediction \cup {None} /\ PredictionHasIncident'
    <3>1. CASE Exists
      <4>1. task[t].copy \in Prediction BY <1>10 DEF Answered, CopiesRead, Running
      <4>2. /\ Filled(task[t].copy, answer) \in Prediction
            /\ Filled(task[t].copy, answer).result # None
        BY <4>1, FilledRow
      <4> QED BY <1>1, <1>10, <3>1, <4>2 DEF Answered, PredictionHasIncident, Keeps, Exists
    <3>2. CASE ~Exists
      BY <1>10, <3>2 DEF Answered, PredictionHasIncident, Analysed
    <3> QED BY <3>1, <3>2
  <2> QED BY <1>1, <1>2, <2>1, <2>2
<1>11. CASE WorkerDies(t)
  BY <1>1, <1>2, <1>3, <1>11, TaskGoes DEF WorkerDies
<1> QED BY <1>6, <1>7, <1>8, <1>9, <1>10, <1>11 DEF TaskSteps

\* Every step keeps the invariant.
LEMMA AnNextInv == AnInv /\ [AnNext]_anVars => AnInv'
<1> SUFFICES ASSUME AnInv, [AnNext]_anVars PROVE AnInv' OBVIOUS
<1> USE DEF AnInv, AnTypeOK
<1>1. ASSUME TrashTypeOK', Aside, Exists' <=> Exists PROVE AnInv'
  BY <1>1, TasksLeft DEF Aside, PredictionHasIncident, Analysed, Is
<1>2. ASSUME NEW s \in Slots, TrashRequests(s) \/ PurgeSelect(s) PROVE incident' = incident
  BY <1>2 DEF TrashRequests, Report, Put, DeleteIncident, BulkDelete, Restore, ForceDelete,
              PurgeSelect, Begin
<1>3. ASSUME NEW s \in Slots, TrashRequests(s) \/ PurgeSelect(s), Aside PROVE AnInv'
  BY <1>1, <1>2, <1>3, RequestType DEF Exists
<1>4. ASSUME NEW s \in Slots, WebSteps(s) \/ WebCrash(s) \/ Relaunch(s) PROVE AnInv'
  BY <1>4, TrashPartInv, WebPartInv DEF WebSteps
<1>5. ASSUME NEW t \in Sends, TaskSteps(t) \/ WorkerDies(t) PROVE AnInv'
  BY <1>5, TaskPartInv
<1>6. CASE Tick /\ Aside
  <2>1. Exists' <=> Exists BY <1>6, AgedRow DEF Tick, TrashTypeOK, Exists
  <2> QED BY <1>1, <1>6, <2>1, TickType
<1>7. CASE UNCHANGED anVars
  BY <1>1, <1>7 DEF anVars, trashVars, Aside, TrashTypeOK, Exists
<1> QED BY <1>3, <1>4, <1>5, <1>6, <1>7 DEF AnNext, Slots

LEMMA AnSpecInv == AnSpec => []AnInv
BY AnInitInv, AnNextInv, PTL DEF AnSpec

\* The rows, the copies and the task messages are what the columns and the task allow.
THEOREM AnalysisTypeCorrect == AnSpec => []AnTypeOK
<1>1. AnInv => AnTypeOK BY DEF AnInv
<1> QED BY <1>1, AnSpecInv, PTL

\* Whatever overlaps, no prediction outlives its incident, and a finished one has a result.
THEOREM PredictionBelongs == AnSpec => []PredictionHasIncident
<1>1. AnInv => PredictionHasIncident BY DEF AnInv
<1> QED BY <1>1, AnSpecInv, PTL

-----------------------------------------------------------------------------
(* A finished analysis stands, when one web thread and one task run.        *)

OneWeb == \A s, u \in Web : s = u

Unasked == \A t \in Sends : task[t].at = "unsent"
RunsAlone == \A t, u \in Sends : Running(t) /\ Running(u) => t = u
FinishedIdle == Is(Finished) => \A t \in Sends : ~Running(t)
\* Nothing before the report.
BeforeReport == ~reported => /\ incident = None /\ prediction = None /\ Unasked
                             /\ \A s \in Slots : job[s].op \in {"idle", "report"}
\* What each slot may be doing: the purge is all that runs beside the web thread.
WebJobs == \A s \in Slots : /\ job[s].op \notin {"idle", "purge"} => s \in Web
                            /\ At(s, "relaunch") => job[s].copy.photo
\* The report without photo is still the first to say anything of the analysis.
Photoless == \A s \in Slots : job[s].op \in {"predict", "enqueue"} /\ ~job[s].copy.photo
                              => Unasked /\ ~Is(Finished)
StandsInv == /\ AnInv /\ RunsAlone /\ FinishedIdle
             /\ BeforeReport /\ WebJobs /\ Photoless

\* A statement after which the prediction is what it was, or gone, or not finished, and
\* the tasks are what they were.
LEMMA NotFinishedLater ==
    ASSUME \/ prediction' \in {prediction, None}
           \/ ~Is(Finished)'
    PROVE  Is(Finished)' => Is(Finished) /\ prediction' = prediction
BY DEF Is, Analysed

\* Goto changes the op of one slot only, and the copy only when the slot is idle again.
LEMMA GotoOthers ==
    ASSUME AnInv, NEW s \in Slots, NEW op \in Ops, Goto(s, op)
    PROVE  /\ job'[s].op = op
           /\ op # "idle" => job'[s].copy = job[s].copy
           /\ \A u \in Slots : u # s => job'[u] = job[u]
<1>1. job \in [Slots -> Job] BY DEF AnInv, AnTypeOK, TrashTypeOK
<1>2. [job[s] EXCEPT !.op = op].op = op /\ [job[s] EXCEPT !.op = op].copy = job[s].copy
  BY <1>1 DEF Job
<1> QED BY <1>1, <1>2 DEF Goto, Idle

\* The requests and the purge begin on an idle slot, and read the row that is there.
LEMMA BeginStands ==
    ASSUME StandsInv, OneWeb, NEW s \in Slots, NEW op \in Ops, NEW copy, Begin(s, op, copy),
           op \notin {"idle", "predict", "enqueue"}, op = "purge" \/ s \in Web,
           op = "relaunch" => copy.photo, reported \/ op = "report",
           UNCHANGED prediction \/ (reported /\ ~Is(Finished)'), UNCHANGED task
    PROVE  RunsAlone' /\ FinishedIdle' /\ BeforeReport' /\ WebJobs' /\ Photoless'
<1>1. job \in [Slots -> Job] BY DEF StandsInv, AnInv, AnTypeOK, TrashTypeOK
<1>2. /\ job'[s].op = op /\ job'[s].copy = copy
      /\ \A u \in Slots : u # s => job'[u] = job[u]
  BY <1>1 DEF Begin
<1>3. UNCHANGED <<incident, reported>> BY DEF Begin
<1>4. Is(Finished)' => Is(Finished) BY NotFinishedLater
<1>5. RunsAlone' /\ FinishedIdle' BY <1>4 DEF StandsInv, RunsAlone, FinishedIdle, Running
<1>6. BeforeReport' BY <1>2, <1>3 DEF StandsInv, BeforeReport, Unasked
<1>7. WebJobs' BY <1>2 DEF StandsInv, WebJobs, At
<1>8. Photoless' BY <1>2, <1>4 DEF StandsInv, Photoless, Unasked
<1> QED BY <1>5, <1>6, <1>7, <1>8

\* The next statement of a slot, which leaves the tasks alone.
LEMMA StatementStands ==
    ASSUME StandsInv, OneWeb, NEW s \in Slots, NEW op \in {"idle", "predict", "enqueue"},
           Goto(s, op), UNCHANGED task, Is(Finished)' => Is(Finished),
           reported' \/ (op = "idle" /\ UNCHANGED <<incident, prediction, reported>>),
           op # "idle" => /\ job[s].op \notin {"idle", "purge"}
                          /\ job[s].copy.photo \/ (Unasked /\ ~Is(Finished))
    PROVE  RunsAlone' /\ FinishedIdle' /\ BeforeReport' /\ WebJobs' /\ Photoless'
<1>1. /\ job'[s].op = op /\ (op # "idle" => job'[s].copy = job[s].copy)
      /\ \A u \in Slots : u # s => job'[u] = job[u]
  <2>1. op \in Ops BY DEF Ops
  <2> QED BY <2>1, GotoOthers DEF StandsInv
<1>2. RunsAlone' /\ FinishedIdle' BY DEF StandsInv, RunsAlone, FinishedIdle, Running
<1>3. BeforeReport' BY <1>1 DEF StandsInv, BeforeReport, Unasked
<1>4. WebJobs' BY <1>1 DEF StandsInv, WebJobs, At
<1>5. Photoless' BY <1>1 DEF StandsInv, Photoless, Unasked
<1> QED BY <1>2, <1>3, <1>4, <1>5

\* What no step but a relaunch's may do to the prediction.
Stands == Is(Finished) /\ prediction' # None
          => \/ prediction' = prediction
             \/ \E s \in Web : At(s, "relaunch") /\ RelaunchSave(s)

LEMMA WebStands ==
    ASSUME StandsInv, OneWeb, NEW s \in Slots, WebSteps(s) \/ WebCrash(s)
    PROVE  Stands /\ RunsAlone' /\ FinishedIdle' /\ BeforeReport' /\ WebJobs' /\ Photoless'
<1> DEFINE Inv5 == RunsAlone' /\ FinishedIdle' /\ BeforeReport' /\ WebJobs' /\ Photoless'
<1>1. ASSUME NEW st, st \notin Finished, Analysed, prediction' = [prediction EXCEPT !.status = st]
      PROVE  ~Is(Finished)'
  <2>1. prediction \in Prediction BY <1>1 DEF StandsInv, AnInv, AnTypeOK, Analysed
  <2>2. prediction'.status = st BY <1>1, <2>1 DEF Prediction
  <2> QED BY <1>1, <2>2 DEF Is
<1>2. CASE TrashPart(s)
  <2>1. prediction' \in {prediction, None} /\ UNCHANGED task BY <1>2 DEF TrashPart, Cascade
  <2>2. Is(Finished)' => Is(Finished) BY <2>1, NotFinishedLater
  <2>3. CASE ReportSave(s)
    <3>1. incident = None /\ prediction = None /\ Unasked
      BY <2>3 DEF ReportSave, StandsInv, BeforeReport
    <3>2. Goto(s, "predict") /\ reported' /\ job[s].op = "report" BY <2>3 DEF ReportSave, At
    <3> QED BY <2>1, <2>2, <3>1, <3>2, StatementStands DEF Stands, Is, Analysed
  <2>4. CASE TrashSave(s)
    <3>1. Goto(s, "idle") /\ UNCHANGED reported /\ job[s].op \notin {"idle", "report"}
      BY <2>4 DEF TrashSave, PutSave, Stored, At
    <3>2. reported BY <3>1 DEF StandsInv, BeforeReport
    <3> QED BY <2>1, <2>2, <3>1, <3>2, StatementStands DEF Stands
  <2> QED BY <1>2, <2>3, <2>4 DEF TrashPart
<1>3. CASE RelaunchSave(s)
  <2>1. At(s, "relaunch") /\ Keeps /\ UNCHANGED task BY <1>3 DEF RelaunchSave
  <2>2. s \in Web /\ job[s].copy.photo BY <2>1 DEF StandsInv, WebJobs, At
  <2>3. reported /\ UNCHANGED reported BY <2>1 DEF StandsInv, BeforeReport, At, Keeps
  <2>4. Is(Finished)' => Is(Finished)
    <3>1. "pending" \notin Finished BY DEF Finished
    <3> QED BY <1>1, <1>3, <3>1 DEF RelaunchSave, Is, Analysed
  <2>5. job[s].op \notin {"idle", "purge"} BY <2>1 DEF At
  <2>6. Goto(s, "enqueue") \/ Goto(s, "idle") BY <1>3 DEF RelaunchSave
  <2> QED BY <1>3, <2>1, <2>2, <2>3, <2>4, <2>5, <2>6, StatementStands DEF Stands
<1>4. CASE Predict(s)
  <2>1. /\ At(s, "predict") /\ Keeps /\ UNCHANGED task
        /\ prediction' = prediction \/ (~Analysed /\ prediction' = Fresh)
        /\ Goto(s, "enqueue") \/ Goto(s, "idle")
    BY <1>4 DEF Predict
  <2>2. reported /\ UNCHANGED reported BY <2>1 DEF StandsInv, BeforeReport, At, Keeps
  <2>3. Is(Finished)' => Is(Finished) BY <2>1 DEF Is, Fresh, Finished, Analysed
  <2>4. job[s].op = "predict" BY <2>1 DEF At
  <2>5. job[s].copy.photo \/ (Unasked /\ ~Is(Finished)) BY <2>4 DEF StandsInv, Photoless
  <2> QED BY <2>1, <2>2, <2>3, <2>4, <2>5, StatementStands DEF Stands, Is
<1>5. CASE EnqueueNothing(s)
  <2>1. /\ job[s].op = "enqueue" /\ Keeps /\ UNCHANGED task /\ Goto(s, "idle")
        /\ ~job[s].copy.photo
    BY <1>5 DEF EnqueueNothing, At
  <2>2. reported /\ UNCHANGED reported BY <2>1 DEF StandsInv, BeforeReport, Keeps
  <2>3. ~Is(Finished) BY <2>1 DEF StandsInv, Photoless
  <2>4. Is(Finished)' => Is(Finished)
    <3>1. "failed" \notin Finished BY DEF Finished
    <3> QED BY <1>1, <1>5, <3>1 DEF EnqueueNothing, Is, Analysed
  <2> QED BY <2>1, <2>2, <2>3, <2>4, StatementStands DEF Stands
<1>6. CASE Enqueue(s)
  <2>1. /\ job[s].op = "enqueue" /\ Keeps /\ UNCHANGED prediction /\ Goto(s, "idle")
        /\ job[s].copy.photo
    BY <1>6 DEF Enqueue, At
  <2>2. reported /\ UNCHANGED reported BY <2>1 DEF StandsInv, BeforeReport, Keeps
  <2>3. Stands BY <2>1 DEF Stands
  <2>4. CASE UNCHANGED task BY <2>1, <2>2, <2>3, <2>4, StatementStands DEF Is, Analysed
  <2>5. CASE \E t \in Sends : task' = [task EXCEPT ![t].at = "queued"]
    <3>1. \A t \in Sends : Running(t)' => Running(t)
      BY <2>5 DEF Running, StandsInv, AnInv, AnTypeOK, Task
    <3>2. RunsAlone' /\ FinishedIdle'
      BY <2>1, <3>1 DEF StandsInv, RunsAlone, FinishedIdle, Is, Analysed
    <3>3. job'[s].op = "idle" /\ \A u \in Slots : u # s => job'[u] = job[u]
      <4>1. "idle" \in Ops BY DEF Ops
      <4> QED BY <2>1, <4>1, GotoOthers DEF StandsInv
    <3>4. BeforeReport' BY <2>2 DEF BeforeReport
    <3>5. WebJobs' BY <3>3 DEF StandsInv, WebJobs, At
    \* The other slots are not the web's: they run the purge, or nothing.
    <3>6. \A u \in Slots : job'[u].op \in {"idle", "purge"}
      BY <2>1, <3>3 DEF StandsInv, WebJobs, OneWeb
    <3>7. Photoless' BY <3>6 DEF Photoless
    <3> QED BY <2>3, <3>2, <3>4, <3>5, <3>7
  <2> QED BY <1>6, <2>4, <2>5 DEF Enqueue
<1>7. CASE WebCrash(s)
  <2>1. Goto(s, "idle") /\ UNCHANGED <<incident, reported, prediction, task>>
    BY <1>7 DEF WebCrash, Crash
  <2> QED BY <2>1, StatementStands DEF Stands, Is, Analysed
<1> QED BY <1>2, <1>3, <1>4, <1>5, <1>6, <1>7 DEF WebSteps

\* The tasks: the only one that runs finds the analysis unfinished.
LEMMA TaskStands ==
    ASSUME StandsInv, Concurrency = 1, NEW t \in Sends, TaskSteps(t) \/ WorkerDies(t)
    PROVE  Stands /\ RunsAlone' /\ FinishedIdle' /\ BeforeReport' /\ WebJobs' /\ Photoless'
<1>1. task \in [Sends -> Task] BY DEF StandsInv, AnInv, AnTypeOK
<1>2. UNCHANGED <<incident, reported, job>>
  <2>1. Worker BY DEF TaskSteps, Start, Processing, RequestFails, Fails, Answered, WorkerDies
  <2> QED BY <2>1 DEF Worker, trashVars
<1>3. task[t].at # "unsent" /\ ~Unasked
  BY DEF TaskSteps, Start, Processing, RequestFails, Fails, Answered, WorkerDies, Running, Unasked
<1>4. BeforeReport' BY <1>2, <1>3 DEF StandsInv, BeforeReport
<1>5. WebJobs' BY <1>2 DEF StandsInv, WebJobs, At
<1>6. Photoless' BY <1>2, <1>3 DEF StandsInv, Photoless
<1>7. \A u \in Sends : u # t => task'[u] = task[u]
  BY <1>1 DEF TaskSteps, Start, Processing, RequestFails, Fails, Answered, WorkerDies,
              Becomes, End, RowGone
<1>8. CASE Running(t)
  <2>1. ~Is(Finished) /\ \A u \in Sends : u # t => ~Running(u)
    BY <1>8 DEF StandsInv, FinishedIdle, RunsAlone
  <2>2. RunsAlone' BY <1>7, <2>1 DEF RunsAlone, Running
  <2>3. Running(t)' => Processing(t)
    BY <1>1, <1>8 DEF TaskSteps, Start, Processing, RequestFails, Fails, Answered, WorkerDies,
                      Running, End, RowGone, Unsent
  <2>4. Processing(t) => ~Is(Finished)'
    <3>1. prediction \in Prediction \cup {None} BY DEF StandsInv, AnInv, AnTypeOK
    <3>2. CASE SetStatus("processing")
      <4>1. prediction'.status = "processing" BY <3>1, <3>2 DEF SetStatus, Analysed, Prediction
      <4> QED BY <4>1 DEF Is, Finished
    <3>3. CASE RowGone(t) BY <2>1, <3>3 DEF RowGone, Is, Analysed
    <3> QED BY <3>2, <3>3 DEF Processing
  <2>5. FinishedIdle' BY <1>7, <2>1, <2>3, <2>4 DEF FinishedIdle, Running
  <2> QED BY <1>4, <1>5, <1>6, <2>1, <2>2, <2>5 DEF Stands
<1>9. CASE ~Running(t)
  <2>1. Start(t)
    BY <1>9 DEF TaskSteps, Start, Processing, RequestFails, Fails, Answered, WorkerDies, Running
  <2>2. UNCHANGED prediction BY <2>1 DEF Start
  <2>3. \A u \in Sends : ~Running(u)
    <3> DEFINE R == {u \in Sends : Running(u)}
    <3>1. IsFiniteSet(R) BY SendsAssumption, FS_Subset
    <3>2. Cardinality(R) < 1 BY <2>1 DEF Start
    <3>3. R = {} BY <3>1, <3>2, FS_CardinalityType, FS_EmptySet
    <3> QED BY <3>3
  <2>4. RunsAlone' BY <1>7, <2>3 DEF RunsAlone, Running
  <2>5. FinishedIdle'
    <3>1. Is(Finished) => End(t) BY <2>1 DEF Start
    <3>2. End(t) => ~Running(t)' BY <1>1 DEF End, Unsent, Running
    <3> QED BY <1>7, <2>2, <2>3, <3>1, <3>2 DEF FinishedIdle, Running, Is, Analysed
  <2> QED BY <1>4, <1>5, <1>6, <2>2, <2>4, <2>5 DEF Stands
<1> QED BY <1>8, <1>9

LEMMA StandsInitInv == AnInit => StandsInv
<1> SUFFICES ASSUME AnInit PROVE StandsInv OBVIOUS
<1>1. AnInv BY AnInitInv
<1>2. \A t \in Sends : task[t].at = "unsent" BY DEF AnInit, Unsent
<1>3. \A s \in Slots : job[s].op = "idle" BY DEF AnInit, TrashInit, Idle
<1>4. incident = None /\ prediction = None BY DEF AnInit, TrashInit
<1> QED BY <1>1, <1>2, <1>3, <1>4
    DEF StandsInv, RunsAlone, FinishedIdle, BeforeReport, WebJobs, Photoless, Unasked,
        Running, At

LEMMA StandsNextInv ==
    ASSUME OneWeb, Concurrency = 1, StandsInv, [AnNext]_anVars
    PROVE  StandsInv' /\ Stands
<1>1. AnInv' BY AnNextInv DEF StandsInv
<1>2. ASSUME NEW s \in Slots, WebSteps(s) \/ WebCrash(s) PROVE StandsInv' /\ Stands
  BY <1>1, <1>2, WebStands DEF StandsInv
<1>3. ASSUME NEW t \in Sends, TaskSteps(t) \/ WorkerDies(t) PROVE StandsInv' /\ Stands
  BY <1>1, <1>3, TaskStands DEF StandsInv
<1>4. {"report", "relaunch", "delete", "restore", "put", "destroy", "purge"} \subseteq Ops
      /\ \A op \in {"report", "relaunch", "delete", "restore", "put", "destroy", "purge"} :
            op \notin {"idle", "predict", "enqueue"}
  BY DEF Ops
<1>5. Exists => reported BY DEF StandsInv, BeforeReport, Exists
<1>6. ASSUME NEW s \in Slots, NEW op \in Ops, NEW copy, Begin(s, op, copy), Aside,
             op \in {"report", "delete", "restore", "put", "destroy", "purge"},
             op = "purge" \/ s \in Web, reported \/ op = "report"
      PROVE  StandsInv' /\ Stands
  <2>1. op \notin {"idle", "predict", "enqueue"} /\ op # "relaunch" BY <1>6
  <2>2. UNCHANGED prediction /\ UNCHANGED task BY <1>6 DEF Aside
  <2> QED BY <1>1, <1>6, <2>1, <2>2, BeginStands DEF StandsInv, Stands
<1>7. ASSUME NEW s \in Web, TrashRequests(s), Aside PROVE StandsInv' /\ Stands
  <2>1. s \in Slots BY DEF Slots
  <2>2. PICK op \in {"report", "delete", "restore", "put", "destroy"} :
           \E copy : Begin(s, op, copy) /\ (reported \/ op = "report")
    BY <1>5, <1>7 DEF TrashRequests, Report, Put, DeleteIncident, BulkDelete, Restore,
                      ForceDelete, InTrash
  <2>p. PICK copy : Begin(s, op, copy) /\ (reported \/ op = "report") BY <2>2
  <2>3. op \in Ops BY <1>4
  <2> QED BY <1>6, <1>7, <2>1, <2>p, <2>3
<1>8. ASSUME NEW s \in Beat, PurgeSelect(s), Aside PROVE StandsInv' /\ Stands
  <2>1. s \in Slots BY DEF Slots
  <2>2. Begin(s, "purge", incident) /\ reported
    BY <1>5, <1>8 DEF PurgeSelect, Expired, InTrash
  <2>3. "purge" \in Ops BY <1>4
  <2> QED BY <1>6, <1>8, <2>1, <2>2, <2>3
<1>9. ASSUME NEW s \in Web, Relaunch(s) PROVE StandsInv' /\ Stands
  <2>1. s \in Slots /\ "relaunch" \in Ops BY <1>4 DEF Slots
  <2>2. /\ Begin(s, "relaunch", incident) /\ incident.photo /\ reported /\ UNCHANGED task
        /\ prediction' = IF Analysed THEN prediction ELSE Fresh
    BY <1>5, <1>9 DEF Relaunch
  <2>3. UNCHANGED prediction \/ ~Is(Finished)' BY <2>2 DEF Is, Fresh, Finished
  <2>4. Stands BY <2>2 DEF Stands, Is
  <2> QED BY <1>1, <2>1, <2>2, <2>3, <2>4, BeginStands DEF StandsInv
<1>10. CASE Tick /\ Aside
  <2>1. /\ UNCHANGED <<prediction, task, reported>>
        /\ job' = [s \in Slots |-> [job[s] EXCEPT !.copy = Aged(@)]]
    BY <1>10 DEF Tick, Aside
  <2>2. job \in [Slots -> Job] /\ incident \in Row \cup {None}
    BY DEF StandsInv, AnInv, AnTypeOK, TrashTypeOK
  <2>3. ASSUME NEW s \in Slots
        PROVE  job'[s].op = job[s].op /\ job'[s].copy.photo = job[s].copy.photo
    <3>1. job[s].copy \in Row \cup {None} BY <2>2 DEF Job
    <3>2. job'[s].op = job[s].op /\ job'[s].copy = Aged(job[s].copy) BY <2>1, <2>2 DEF Job
    <3>3. CASE job[s].copy = None BY <3>2, <3>3 DEF Aged
    <3>4. CASE job[s].copy \in Row BY <3>1, <3>2, <3>4, AgedRow
    <3> QED BY <3>1, <3>2, <3>3, <3>4
  <2>4. incident' = None <=> incident = None BY <1>10, <2>2, AgedRow DEF Tick
  <2>5. RunsAlone' /\ FinishedIdle'
    BY <2>1 DEF StandsInv, RunsAlone, FinishedIdle, Running, Is, Analysed
  <2>6. BeforeReport' BY <2>1, <2>3, <2>4 DEF StandsInv, BeforeReport, Unasked
  <2>7. WebJobs' BY <2>3 DEF StandsInv, WebJobs, At
  <2>8. Photoless' BY <2>1, <2>3 DEF StandsInv, Photoless, Unasked, Is, Analysed
  <2> QED BY <1>1, <2>1, <2>5, <2>6, <2>7, <2>8 DEF StandsInv, Stands
<1>11. CASE UNCHANGED anVars
  <2>1. UNCHANGED <<incident, reported, job, prediction, task>>
    BY <1>11 DEF anVars, trashVars
  <2> QED BY <1>1, <2>1 DEF StandsInv, Stands, RunsAlone, FinishedIdle, Running, Is, Analysed,
                            BeforeReport, WebJobs, Photoless, Unasked, At
<1> QED BY <1>2, <1>3, <1>7, <1>8, <1>9, <1>10, <1>11 DEF AnNext

\* When one task runs at a time and requests do not overlap, a finished analysis stays
\* finished until a super admin relaunches it: for any number of messages, retries, workers
\* that die and purges beside the web thread.
THEOREM FinishedAnalysisStands ==
    ASSUME OneWeb, Concurrency = 1 PROVE AnSpec => FinishedStands
<1>1. AnInit => StandsInv BY StandsInitInv
<1>2. StandsInv /\ [AnNext]_anVars => StandsInv' BY StandsNextInv
<1>3. StandsInv /\ [AnNext]_anVars
      => [Is(Finished) /\ prediction' # None
          => \/ prediction' = prediction
             \/ \E s \in Web : At(s, "relaunch") /\ RelaunchSave(s)]_anVars
  BY StandsNextInv DEF Stands
<1> QED BY <1>1, <1>2, <1>3, PTL DEF AnSpec, FinishedStands

-----------------------------------------------------------------------------
(* An incident goes when it is due, when nothing overlaps.                  *)

OneSlot == \A s, u \in Slots : s = u

\* The date that the purge reads is never older than the stay in the trash, unless a form
\* put the incident there or dated it.
DateStarts == InTrash => /\ binned # None
                         /\ incident.since # None /\ ~forged => incident.since <= binned
\* What the slot has read is what is there.
SlotReads == \A s \in Slots :
    /\ At(s, "report") => job[s].copy # None /\ ~job[s].copy.deleted
    /\ At(s, "put") => Exists /\ job[s].copy # None
    /\ At(s, "destroy") => InTrash
    /\ At(s, "purge") => Expired
DueInv == AnInv /\ DateStarts /\ SlotReads
Due == Exists /\ incident' = None => incident.deleted /\ (Purging /\ ~forged => binned > Kept)

\* The slot begins with what it has read.
LEMMA RequestDue ==
    ASSUME OneSlot, DueInv, NEW s \in Slots, TrashRequests(s) \/ PurgeSelect(s)
    PROVE  DateStarts' /\ SlotReads' /\ Due
<1> USE DEF DueInv, AnInv, AnTypeOK, TrashTypeOK
<1>1. ASSUME NEW op \in Ops, NEW copy, Begin(s, op, copy),
             op = "report" => copy # None /\ ~copy.deleted,
             op = "put" => Exists /\ copy # None,
             op = "destroy" => InTrash, op = "purge" => Expired
      PROVE  DateStarts' /\ SlotReads' /\ Due
  <2>1. UNCHANGED <<incident, binned, forged>> BY <1>1 DEF Begin
  <2>2. DateStarts' /\ Due BY <2>1 DEF DateStarts, Due, InTrash, Exists
  <2>3. job'[s].op = op /\ job'[s].copy = copy BY <1>1 DEF Begin
  <2>4. \A u \in Slots : u = s BY DEF OneSlot
  <2>5. SlotReads' BY <1>1, <2>1, <2>3, <2>4 DEF SlotReads, At, Exists, InTrash, Expired
  <2> QED BY <2>2, <2>5
<1>2. {"report", "put", "delete", "restore", "destroy", "purge"} \subseteq Ops BY DEF Ops
<1>3. ASSUME NEW photo \in BOOLEAN, Report(s, photo) PROVE DateStarts' /\ SlotReads' /\ Due
  <2> DEFINE copy == [photo |-> photo, deleted |-> FALSE, since |-> None]
  <2>1. copy \in Row BY DEF Row
  <2>2. copy # None /\ ~copy.deleted BY <2>1, RowFields
  <2> QED BY <1>1, <1>2, <1>3, <2>2 DEF Report
<1>4. ASSUME Exists, NEW photo \in BOOLEAN, NEW d \in BOOLEAN,
             NEW since \in FormDates \cup {incident.since}, Put(s, photo, d, since)
      PROVE  DateStarts' /\ SlotReads' /\ Due
  <2> DEFINE copy == [photo |-> photo, deleted |-> d, since |-> since]
  <2>1. incident \in Row BY <1>4 DEF Exists
  <2>2. since \in Ages \cup {None} BY <1>4, <2>1, FormDatesAssumption DEF Row
  <2>3. copy \in Row BY <2>2 DEF Row
  <2>4. copy # None BY <2>3, RowFields
  <2>5. Begin(s, "put", copy) /\ "put" \in Ops BY <1>2, <1>4 DEF Put
  <2> HIDE DEF copy
  <2> QED BY <1>1, <1>4, <2>4, <2>5
<1>5. CASE DeleteIncident(s) \/ BulkDelete(s) \/ Restore(s) \/ ForceDelete(s) \/ PurgeSelect(s)
  BY <1>1, <1>2, <1>5 DEF DeleteIncident, BulkDelete, Restore, ForceDelete, PurgeSelect
<1> QED BY <1>3, <1>4, <1>5 DEF TrashRequests

\* A statement ends what the slot has read, unless a day passes first.
LEMMA StatementDue ==
    ASSUME OneSlot, DueInv, NEW s \in Slots, ReportSave(s) \/ TrashSave(s)
    PROVE  DateStarts' /\ SlotReads' /\ Due
<1> USE DEF DueInv, AnInv, AnTypeOK, TrashTypeOK
<1>1. PICK op \in {"idle", "predict"} : Goto(s, op) BY DEF ReportSave, TrashSave
<1>2. job'[s].op = op
  <2>1. op \in Ops BY DEF Ops
  <2> QED BY <1>1, <2>1, GotoOthers
<1>3. \A u \in Slots : u = s BY DEF OneSlot
<1>4. SlotReads' BY <1>2, <1>3 DEF SlotReads, At
<1>5. job[s].copy \in Row \cup {None} BY DEF Job
<1>6. CASE ReportSave(s)
  <2>1. incident' = job[s].copy /\ job[s].copy # None /\ ~job[s].copy.deleted
    BY <1>6 DEF ReportSave, SlotReads
  <2> QED BY <1>4, <2>1 DEF DateStarts, Due, InTrash, Exists
<1>7. CASE At(s, "delete") /\ TrashSave(s)
  <2>1. Stored(Columns([incident EXCEPT !.deleted = TRUE, !.since = 0]))
    BY <1>7 DEF TrashSave, PutSave, At
  <2>2. CASE Exists
    <3> DEFINE new == [incident EXCEPT !.deleted = TRUE, !.since = 0]
    <3>0. incident \in Row /\ 0 \in Ages BY <2>2, KeptAssumption DEF Exists, Ages
    <3>1. new \in Row /\ new.deleted /\ new.since = 0 BY <3>0 DEF Row
    <3>2. new # None BY <3>1, RowFields
    <3>3. incident' = new /\ binned' = IF binned = None THEN 0 ELSE binned
      BY <2>1, <2>2, <3>1, <3>2 DEF Stored, Columns
    <3>4. binned' \in Nat /\ 0 <= binned' BY <3>3 DEF Ages
    <3> QED BY <1>4, <3>1, <3>2, <3>3, <3>4, NoneAssumption DEF DateStarts, Due
  <2>3. CASE ~Exists
    <3>1. incident' = None BY <2>1, <2>3 DEF Stored, Columns
    <3> QED BY <1>4, <2>3, <3>1 DEF DateStarts, Due, InTrash, Exists
  <2> QED BY <2>2, <2>3
<1>8. CASE At(s, "restore") /\ TrashSave(s)
  <2>1. Stored(Columns([incident EXCEPT !.deleted = FALSE])) BY <1>8 DEF TrashSave, PutSave, At
  <2>2. CASE Exists
    <3> DEFINE new == [incident EXCEPT !.deleted = FALSE]
    <3>1. new \in Row /\ ~new.deleted BY <2>2 DEF Exists, Row
    <3>2. new # None BY <3>1, RowFields
    <3>3. incident' = new BY <2>1, <2>2 DEF Stored, Columns
    <3> QED BY <1>4, <3>1, <3>2, <3>3 DEF DateStarts, Due, InTrash
  <2>3. CASE ~Exists
    <3>1. incident' = None BY <2>1, <2>3 DEF Stored, Columns
    <3> QED BY <1>4, <2>3, <3>1 DEF DateStarts, Due, InTrash, Exists
  <2> QED BY <2>2, <2>3
<1>9. CASE At(s, "put") /\ TrashSave(s)
  <2> DEFINE copy == job[s].copy
  <2>1. PutSave(s) BY <1>9 DEF TrashSave, At
  <2>2. /\ Exists /\ copy # None /\ Stored(copy) /\ incident' = copy
        /\ forged' <=> forged \/ (copy.deleted /\ Trashing(copy) # Trashing(incident))
    BY <2>1, <1>9 DEF PutSave, SlotReads, Stored
  <2> HIDE DEF copy
  <2>3. CASE ~copy.deleted BY <1>4, <2>2, <2>3 DEF DateStarts, Due, InTrash
  <2>4. CASE copy.deleted
    <3>1. binned' = IF binned = None THEN 0 ELSE binned BY <2>2, <2>4 DEF Stored
    <3>2. binned' # None BY <3>1, NoneAssumption
    <3>3. ASSUME ~forged', incident'.since # None PROVE incident'.since <= binned'
      <4>1. ~forged /\ Trashing(copy) = Trashing(incident) BY <2>2, <2>4, <3>3
      <4>2. Trashing(copy) = <<copy.deleted, copy.since>>
            /\ Trashing(incident) = <<incident.deleted, incident.since>>
        BY <2>2 DEF Trashing, Exists
      <4>3. copy.deleted = incident.deleted
        <5>1. Trashing(copy)[1] = Trashing(incident)[1] BY <4>1
        <5>2. Trashing(copy)[1] = copy.deleted BY <4>2
        <5>3. Trashing(incident)[1] = incident.deleted BY <4>2
        <5> QED BY <5>1, <5>2, <5>3, Zenon
      <4>s. copy.since = incident.since
        <5>1. Trashing(copy)[2] = Trashing(incident)[2] BY <4>1
        <5>2. Trashing(copy)[2] = copy.since BY <4>2
        <5>3. Trashing(incident)[2] = incident.since BY <4>2
        <5> QED BY <5>1, <5>2, <5>3, Zenon
      <4>d. incident.deleted BY <2>4, <4>3, Zenon
      <4>4. InTrash /\ binned # None BY <2>2, <4>d DEF InTrash, DateStarts
      <4> QED BY <2>2, <3>1, <3>3, <4>1, <4>s, <4>4 DEF DateStarts
    <3> QED BY <1>4, <2>2, <3>2, <3>3 DEF DateStarts, Due
  <2> QED BY <2>3, <2>4
<1>10. CASE TrashSave(s) /\ job[s].op \in {"destroy", "purge"}
  <2>1. incident' = None BY <1>10 DEF TrashSave, PutSave, Stored, At
  <2>2. InTrash BY <1>10 DEF SlotReads, At, Expired
  <2>3. ASSUME NEW u \in Beat, At(u, "purge"), ~forged PROVE binned > Kept
    <3>1. u \in Slots BY DEF Slots
    <3>2. Expired BY <2>3, <3>1 DEF SlotReads
    <3>3. incident \in Row BY <3>2 DEF Expired, InTrash, Exists
    <3>4. incident.since \in Nat /\ incident.since > Kept /\ incident.since <= binned
      BY <2>3, <3>2, <3>3, KeptAssumption DEF DateStarts, Expired, Row, Ages
    <3>5. binned \in Nat BY <3>2, KeptAssumption DEF Expired, DateStarts, Ages
    <3> QED BY <3>4, <3>5, KeptAssumption
  <2> QED BY <1>4, <2>1, <2>2, <2>3 DEF DateStarts, Due, InTrash, Exists, Purging
<1> QED BY <1>6, <1>7, <1>8, <1>9, <1>10 DEF TrashSave, PutSave

\* A day makes the stay and the date older alike.
LEMMA TickDue ==
    ASSUME DueInv, Tick PROVE DateStarts' /\ SlotReads' /\ Due
<1> USE DEF DueInv, AnInv, AnTypeOK, TrashTypeOK, Tick
<1>1. incident' = None <=> incident = None BY AgedRow
<1>2. incident # None => /\ incident \in Row /\ incident'.deleted = incident.deleted
                         /\ incident'.since = Older(incident.since)
  BY AgedRow
<1>3. ASSUME NEW a \in Ages, NEW b \in Ages, a <= b PROVE Older(a) <= Older(b)
  BY <1>3, KeptAssumption, NoneAssumption DEF Older, Ages
<1>4. ASSUME NEW a \in Ages, a > Kept PROVE Older(a) > Kept
  BY <1>4 DEF Older
<1>5. DateStarts'
  <2> SUFFICES ASSUME InTrash' PROVE DateStarts' BY DEF DateStarts
  <2>1. InTrash /\ incident \in Row BY <1>1, <1>2 DEF InTrash, Exists
  <2>2. binned \in Ages /\ (incident.since # None => incident.since \in Ages)
    BY <2>1 DEF DateStarts, Row
  <2>3. binned' # None BY <2>2, OlderAges, NoneAssumption DEF Ages
  <2>4. incident'.since # None /\ ~forged' => incident'.since <= binned'
    <3>1. incident.since = None => incident'.since = None BY <1>2, <2>1 DEF InTrash, Exists, Older
    <3> QED BY <1>2, <1>3, <2>1, <2>2, <3>1 DEF DateStarts, InTrash, Exists
  <2> QED BY <2>3, <2>4 DEF DateStarts
<1>6. ASSUME NEW s \in Slots
      PROVE  /\ job'[s].op = job[s].op /\ (job'[s].copy = None <=> job[s].copy = None)
             /\ job[s].copy # None => /\ job'[s].copy.deleted = job[s].copy.deleted
                                      /\ job'[s].copy.since = Older(job[s].copy.since)
  <2>1. job[s].copy \in Row \cup {None} BY DEF Job
  <2>2. job'[s].op = job[s].op /\ job'[s].copy = Aged(job[s].copy) BY DEF Job
  <2> QED BY <2>1, <2>2, AgedRow
<1>7. Expired => Expired'
  <2> SUFFICES ASSUME Expired PROVE Expired' OBVIOUS
  <2>1. incident # None /\ incident.since # None /\ incident.since \in Ages
    BY <1>2 DEF Expired, InTrash, Exists, Row
  <2>2. incident'.since > Kept BY <1>2, <1>4, <2>1 DEF Expired
  <2>3. incident'.since # None BY <1>2, <2>1, OlderAges
  <2> QED BY <1>1, <1>2, <2>1, <2>2, <2>3 DEF Expired, InTrash, Exists
<1>8. SlotReads'
  BY <1>1, <1>2, <1>6, <1>7 DEF SlotReads, At, Exists, InTrash
<1> QED BY <1>1, <1>5, <1>8 DEF Due, Exists

LEMMA DueNextInv ==
    ASSUME OneSlot, DueInv, [AnNext]_anVars PROVE DueInv' /\ Due
<1>1. AnInv' BY AnNextInv DEF DueInv
<1>2. ASSUME NEW s \in Slots, UNCHANGED <<incident, binned, forged>>,
             job'[s].op \notin {"report", "put", "destroy", "purge"}
      PROVE  DueInv' /\ Due
  <2>1. \A u \in Slots : u = s BY DEF OneSlot
  <2> QED BY <1>1, <1>2, <2>1 DEF DueInv, DateStarts, SlotReads, Due, At, InTrash, Exists
<1>3. ASSUME NEW s \in Slots, TrashRequests(s) \/ PurgeSelect(s) PROVE DueInv' /\ Due
  BY <1>1, <1>3, RequestDue DEF DueInv
<1>4. ASSUME NEW s \in Slots, ReportSave(s) \/ TrashSave(s) PROVE DueInv' /\ Due
  BY <1>1, <1>4, StatementDue DEF DueInv
<1>5. ASSUME NEW s \in Slots,
             \/ Relaunch(s) \/ RelaunchSave(s) \/ Predict(s) \/ EnqueueNothing(s) \/ Enqueue(s)
             \/ WebCrash(s)
      PROVE  DueInv' /\ Due
  <2>1. UNCHANGED <<incident, binned, forged>>
    BY <1>5 DEF Relaunch, RelaunchSave, Predict, EnqueueNothing, Enqueue, WebCrash, Crash,
                Keeps, Begin
  <2>2. \/ \E op \in {"idle", "enqueue"} : Goto(s, op)
        \/ Begin(s, "relaunch", incident)
    BY <1>5 DEF Relaunch, RelaunchSave, Predict, EnqueueNothing, Enqueue, WebCrash, Crash
  <2>3. job'[s].op \in {"idle", "enqueue", "relaunch"}
    <3>1. {"idle", "enqueue"} \subseteq Ops BY DEF Ops
    <3>2. Begin(s, "relaunch", incident) => job'[s].op = "relaunch"
      BY DEF Begin, DueInv, AnInv, AnTypeOK, TrashTypeOK
    <3> QED BY <2>2, <3>1, <3>2, GotoOthers DEF DueInv
  <2> QED BY <1>2, <2>1, <2>3
<1>6. ASSUME UNCHANGED trashVars PROVE DueInv' /\ Due
  <2>1. UNCHANGED <<incident, binned, forged, job>> BY <1>6 DEF trashVars
  <2> QED BY <1>1, <2>1
      DEF DueInv, DateStarts, SlotReads, Due, At, InTrash, Exists, Expired
<1>7. ASSUME NEW t \in Sends, TaskSteps(t) \/ WorkerDies(t) PROVE DueInv' /\ Due
  <2>1. Worker BY <1>7 DEF TaskSteps, Start, Processing, RequestFails, Fails, Answered, WorkerDies
  <2> QED BY <1>6, <2>1 DEF Worker
<1>8. CASE Tick BY <1>1, <1>8, TickDue DEF DueInv
<1>9. CASE UNCHANGED anVars BY <1>6, <1>9 DEF anVars
<1> QED BY <1>3, <1>4, <1>5, <1>7, <1>8, <1>9 DEF AnNext, WebSteps, TrashPart, Slots

\* When nothing overlaps, an incident goes only by the hand of a super admin, from the trash,
\* or after all of its days there, however often it was deleted, restored, edited and deleted
\* again: unless a form of PUT put it there or dated it since its last deletion.
THEOREM IncidentGoesWhenDue ==
    ASSUME OneSlot PROVE AnSpec => GoneWhenDue
<1>1. AnInit => DueInv
  <2> SUFFICES ASSUME AnInit PROVE DueInv OBVIOUS
  <2>1. incident = None /\ \A s \in Slots : job[s].op = "idle"
    BY DEF AnInit, TrashInit, Idle
  <2> QED BY <2>1, AnInitInv DEF DueInv, DateStarts, SlotReads, InTrash, Exists, At
<1>2. DueInv /\ [AnNext]_anVars => DueInv' BY DueNextInv
<1>3. DueInv /\ [AnNext]_anVars
      => [Exists /\ incident' = None =>
            incident.deleted /\ (Purging /\ ~forged => binned > Kept)]_trashVars
  BY DueNextInv DEF Due
<1> QED BY <1>1, <1>2, <1>3, PTL DEF AnSpec, GoneWhenDue

-----------------------------------------------------------------------------
(* The assistant.                                                          *)

\* A step of the assistant's is none of the analysis's.
THEOREM AssistantKeepsAnalysis == AssistSpec => AnSpec
<1>1. AssistInit => AnInit BY DEF AssistInit
<1>2. [AssistNext]_assistVars => [AnNext]_anVars
  BY DEF AssistNext, AnStep, AskQuestion, AskSteps, SaveQuestion, ServiceFails, SaveReply,
         AskerDies, assistVars
<1> QED BY <1>1, <1>2, PTL DEF AssistSpec, AnSpec

\* The messages of a role among the first i.
Said(messages, i, role) == {k \in 1 .. i : messages[k] = role}

\* A message that is appended counts once, at the end, for its own role.
LEMMA SaidAppended ==
    ASSUME NEW n \in Nat, NEW messages, NEW longer, NEW role,
           \A k \in 1 .. n : longer[k] = messages[k]
    PROVE  /\ \A i \in 0 .. n :
                Cardinality(Said(longer, i, role)) = Cardinality(Said(messages, i, role))
           /\ Cardinality(Said(messages, n, role)) \in Nat
           /\ longer[n + 1] = role => Cardinality(Said(longer, n + 1, role))
                                        = Cardinality(Said(messages, n, role)) + 1
           /\ longer[n + 1] # role => Cardinality(Said(longer, n + 1, role))
                                        = Cardinality(Said(messages, n, role))
<1>1. \A i \in 0 .. n : Said(longer, i, role) = Said(messages, i, role) BY DEF Said
<1>2. IsFiniteSet(Said(messages, n, role))
  <2>1. IsFiniteSet(1 .. n) BY FS_Interval
  <2> QED BY <2>1, FS_Subset DEF Said
<1>3. Cardinality(Said(messages, n, role)) \in Nat BY <1>2, FS_CardinalityType
<1>4. CASE longer[n + 1] = role
  <2>1. Said(longer, n + 1, role) = Said(messages, n, role) \cup {n + 1}
    BY <1>4 DEF Said
  <2>2. n + 1 \notin Said(messages, n, role) BY DEF Said
  <2> QED BY <1>1, <1>2, <1>3, <1>4, <2>1, <2>2, FS_AddElement
<1>5. CASE longer[n + 1] # role
  <2>1. Said(longer, n + 1, role) = Said(messages, n, role) BY <1>5 DEF Said
  <2> QED BY <1>1, <1>3, <1>5, <2>1
<1> QED BY <1>4, <1>5

\* The requests whose question is with the service.
Asking == {s \in Askers : ask[s] = "asking"}
Counts(role) == Cardinality(Said(chat, Len(chat), role))
ChatTypeOK == /\ chat \in Seq({"user", "assistant"}) /\ calls \in Nat
              /\ ask \in [Askers -> {"idle", "question", "asking"}]
              /\ IsFiniteSet(Asking)
\* Each of them has a question in the conversation that has no reply yet.
AskedFirst == ~wiped => /\ calls <= Counts("user")
                        /\ Counts("assistant") + Cardinality(Asking) <= Counts("user")
                        /\ \A i \in 0 .. Len(chat) :
                             Cardinality(Said(chat, i, "assistant"))
                               <= Cardinality(Said(chat, i, "user"))
ChatInv == ChatTypeOK /\ AskedFirst

LEMMA CountsNat == ASSUME ChatTypeOK, NEW role PROVE Counts(role) \in Nat
<1>1. Len(chat) \in Nat BY DEF ChatTypeOK
<1>2. IsFiniteSet(1 .. Len(chat)) BY <1>1, FS_Interval
<1>3. IsFiniteSet(Said(chat, Len(chat), role)) BY <1>2, FS_Subset DEF Said
<1> QED BY <1>3, FS_CardinalityType DEF Counts

LEMMA ChatInitInv == AssistInit => ChatInv
<1> SUFFICES ASSUME AssistInit PROVE ChatInv OBVIOUS
<1>1. chat = <<>> /\ calls = 0 /\ Asking = {} BY DEF AssistInit, Asking
<1>2. \A role : \A i \in 0 .. Len(chat) : Said(chat, i, role) = {} BY <1>1 DEF Said
<1>3. ChatTypeOK BY <1>1, FS_EmptySet DEF AssistInit, ChatTypeOK
<1>4. \A role : \A i \in 0 .. Len(chat) : Cardinality(Said(chat, i, role)) = 0 BY <1>2, FS_EmptySet
<1>5. Len(chat) \in 0 .. Len(chat) BY <1>1
<1>6. Counts("user") = 0 /\ Counts("assistant") = 0 /\ Cardinality(Asking) = 0
  BY <1>1, <1>4, <1>5, FS_EmptySet DEF Counts
<1> QED BY <1>1, <1>3, <1>4, <1>6 DEF ChatInv, AskedFirst

\* A request that comes to the service or leaves it.
LEMMA AskingGoes ==
    ASSUME ChatTypeOK, NEW s \in Askers, NEW at \in {"idle", "question", "asking"}, Goes(s, at)
    PROVE  /\ ask' \in [Askers -> {"idle", "question", "asking"}] /\ IsFiniteSet(Asking')
           /\ Cardinality(Asking) \in Nat /\ Cardinality(Asking') \in Nat
           /\ Cardinality(Asking') <= Cardinality(Asking) + (IF at = "asking" THEN 1 ELSE 0)
           /\ at # "asking" /\ ask[s] = "asking" => Cardinality(Asking') = Cardinality(Asking) - 1
<1> USE DEF ChatTypeOK
<1>1. ask' \in [Askers -> {"idle", "question", "asking"}] BY DEF Goes
<1>2. Cardinality(Asking) \in Nat BY FS_CardinalityType
<1>3. CASE at = "asking"
  <2>1. Asking' = Asking \cup {s} BY <1>3 DEF Asking, Goes
  <2>2. /\ IsFiniteSet(Asking \cup {s})
        /\ Cardinality(Asking \cup {s})
             = IF s \in Asking THEN Cardinality(Asking) ELSE Cardinality(Asking) + 1
    BY FS_AddElement
  <2>3. IsFiniteSet(Asking') /\ Cardinality(Asking') = Cardinality(Asking \cup {s})
    BY <2>1, <2>2
  <2> HIDE DEF ChatTypeOK
  <2> QED BY <1>1, <1>2, <1>3, <2>2, <2>3
<1>4. CASE at # "asking"
  <2>1. Asking' = Asking \ {s} BY <1>4 DEF Asking, Goes
  <2>2. ask[s] = "asking" <=> s \in Asking BY DEF Asking
  <2>3. /\ IsFiniteSet(Asking \ {s})
        /\ Cardinality(Asking \ {s})
             = IF s \in Asking THEN Cardinality(Asking) - 1 ELSE Cardinality(Asking)
    BY FS_RemoveElement
  <2>4. IsFiniteSet(Asking') /\ Cardinality(Asking') = Cardinality(Asking \ {s})
    BY <2>1, <2>3
  <2>5. Cardinality(Asking') \in Nat BY <2>4, FS_CardinalityType
  <2> HIDE DEF ChatTypeOK
  <2> QED BY <1>1, <1>2, <1>4, <2>2, <2>3, <2>4, <2>5
<1> QED BY <1>3, <1>4

\* A message that is stored, with what becomes of its request.
LEMMA StoreKeeps ==
    ASSUME ChatInv, NEW role \in {"user", "assistant"}, chat' = Append(chat, role),
           UNCHANGED wiped, ask' \in [Askers -> {"idle", "question", "asking"}],
           IsFiniteSet(Asking'), calls' \in Nat,
           Cardinality(Asking) \in Nat, Cardinality(Asking') \in Nat,
           role = "user" => calls' = calls + 1 /\ Cardinality(Asking') <= Cardinality(Asking) + 1,
           role = "assistant" => calls' = calls /\ Cardinality(Asking') = Cardinality(Asking) - 1
    PROVE  ChatInv'
<1> USE DEF ChatInv, ChatTypeOK
<1>1. PICK longer : longer = chat' OBVIOUS
<1>2. longer \in Seq({"user", "assistant"}) BY <1>1
<1>3. /\ Len(chat) \in Nat /\ Len(longer) = Len(chat) + 1 /\ longer[Len(chat) + 1] = role
      /\ \A k \in 1 .. Len(chat) : longer[k] = chat[k]
  BY <1>1
<1>4. ASSUME NEW r
      PROVE  /\ \A i \in 0 .. Len(chat) :
                  Cardinality(Said(longer, i, r)) = Cardinality(Said(chat, i, r))
             /\ Counts(r) \in Nat /\ Counts(r)' \in Nat
             /\ role = r => Counts(r)' = Counts(r) + 1
             /\ role # r => Counts(r)' = Counts(r)
  <2>1. Counts(r)' = Cardinality(Said(longer, Len(chat) + 1, r)) BY <1>1, <1>3 DEF Counts
  <2> DEFINE n == Len(chat)
  <2>2. n \in Nat /\ (\A k \in 1 .. n : longer[k] = chat[k]) /\ longer[n + 1] = role BY <1>3
  <2>3. Counts(r) = Cardinality(Said(chat, n, r)) BY DEF Counts
  <2> HIDE DEF ChatInv, ChatTypeOK, n
  <2>4. /\ \A i \in 0 .. n :
                Cardinality(Said(longer, i, r)) = Cardinality(Said(chat, i, r))
        /\ Cardinality(Said(chat, n, r)) \in Nat
        /\ longer[n + 1] = r => Cardinality(Said(longer, n + 1, r))
                                  = Cardinality(Said(chat, n, r)) + 1
        /\ longer[n + 1] # r => Cardinality(Said(longer, n + 1, r))
                                  = Cardinality(Said(chat, n, r))
    BY <2>2, SaidAppended
  <2> QED BY <2>1, <2>2, <2>3, <2>4 DEF n
<1>5. ChatTypeOK' BY <1>1, <1>2
<1>6. AskedFirst'
  <2> SUFFICES ASSUME ~wiped PROVE AskedFirst' BY DEF AskedFirst
  <2>1. /\ calls <= Counts("user")
        /\ Counts("assistant") + Cardinality(Asking) <= Counts("user")
        /\ \A i \in 0 .. Len(chat) :
             Cardinality(Said(chat, i, "assistant")) <= Cardinality(Said(chat, i, "user"))
    BY DEF AskedFirst
  <2>2. /\ Counts("user") \in Nat /\ Counts("assistant") \in Nat
        /\ Counts("user")' = IF role = "user" THEN Counts("user") + 1 ELSE Counts("user")
        /\ Counts("assistant")'
             = IF role = "user" THEN Counts("assistant") ELSE Counts("assistant") + 1
    BY <1>4
  <2>3. calls' <= Counts("user")' BY <2>1, <2>2
  <2>4. Counts("assistant")' + Cardinality(Asking') <= Counts("user")' BY <2>1, <2>2
  <2>5. Counts("assistant")' <= Counts("user")' BY <2>2, <2>4
  <2>6. ASSUME NEW i \in 0 .. Len(longer)
        PROVE  Cardinality(Said(longer, i, "assistant")) <= Cardinality(Said(longer, i, "user"))
    <3>1. CASE i \in 0 .. Len(chat) BY <1>4, <2>1, <3>1
    <3>2. CASE i \notin 0 .. Len(chat)
      <4>1. i = Len(longer) BY <1>3, <3>2
      <4> QED BY <1>1, <2>5, <4>1 DEF Counts
    <3> QED BY <3>1, <3>2
  <2> QED BY <1>1, <2>3, <2>4, <2>6 DEF AskedFirst
<1> QED BY <1>5, <1>6

\* Nothing is stored, and nobody comes to the service.
LEMMA ChatUnchanged ==
    ASSUME ChatInv, UNCHANGED <<chat, calls, wiped>>,
           ask' \in [Askers -> {"idle", "question", "asking"}], IsFiniteSet(Asking'),
           Cardinality(Asking) \in Nat, Cardinality(Asking') \in Nat,
           Cardinality(Asking') <= Cardinality(Asking)
    PROVE  ChatInv'
<1>1. \A r : Counts(r)' = Counts(r) BY DEF Counts
<1>2. Counts("user") \in Nat /\ Counts("assistant") \in Nat BY CountsNat DEF ChatInv
<1> QED BY <1>1, <1>2 DEF ChatInv, ChatTypeOK, AskedFirst

LEMMA ChatNextInv == ChatInv /\ [AssistNext]_assistVars => ChatInv'
<1> SUFFICES ASSUME ChatInv, [AssistNext]_assistVars PROVE ChatInv' OBVIOUS
<1>0. ChatTypeOK BY DEF ChatInv
<1>1. ASSUME UNCHANGED <<chat, ask, calls, wiped>> PROVE ChatInv'
  <2>1. Asking' = Asking /\ \A r : Counts(r)' = Counts(r) BY <1>1 DEF Asking, Counts
  <2> QED BY <1>1, <2>1 DEF ChatInv, ChatTypeOK, AskedFirst
<1>2. CASE AnStep
  <2>1. CASE Exists /\ incident' = None
    <3>1. wiped' /\ chat' = <<>> /\ UNCHANGED <<ask, calls>> BY <1>2, <2>1 DEF AnStep
    <3>2. Asking' = Asking BY <3>1 DEF Asking
    <3> QED BY <1>0, <3>1, <3>2 DEF ChatInv, ChatTypeOK, AskedFirst
  <2>2. CASE ~(Exists /\ incident' = None) BY <1>1, <1>2, <2>2 DEF AnStep
  <2> QED BY <2>1, <2>2
<1>3. ASSUME NEW s \in Askers, AskQuestion(s) \/ ServiceFails(s) \/ AskerDies(s) PROVE ChatInv'
  <2>1. PICK at \in {"idle", "question"} : Goes(s, at)
    BY <1>3 DEF AskQuestion, ServiceFails, AskerDies
  <2>2. UNCHANGED <<chat, calls, wiped>> BY <1>3 DEF AskQuestion, ServiceFails, AskerDies
  <2> QED BY <1>0, <2>1, <2>2, AskingGoes, ChatUnchanged
<1>4. ASSUME NEW s \in Askers, SaveQuestion(s) PROVE ChatInv'
  <2>1. CASE Exists
    <3>1. /\ Goes(s, "asking") /\ calls' = calls + 1 /\ UNCHANGED wiped
          /\ chat' = Append(chat, "user")
      BY <1>4, <2>1 DEF SaveQuestion, CallService, Store
    <3> QED BY <1>0, <3>1, AskingGoes, StoreKeeps DEF ChatTypeOK
  <2>2. CASE ~Exists
    <3>1. Goes(s, "idle") /\ UNCHANGED <<chat, calls, wiped>>
      BY <1>4, <2>2 DEF SaveQuestion, Store
    <3> QED BY <1>0, <3>1, AskingGoes, ChatUnchanged
  <2> QED BY <2>1, <2>2
<1>5. ASSUME NEW s \in Askers, SaveReply(s) PROVE ChatInv'
  <2>1. Goes(s, "idle") /\ ask[s] = "asking" /\ UNCHANGED <<calls, wiped>>
    BY <1>5 DEF SaveReply
  <2>2. CASE Exists
    <3>1. chat' = Append(chat, "assistant") BY <1>5, <2>2 DEF SaveReply, Store
    <3> QED BY <1>0, <2>1, <3>1, AskingGoes, StoreKeeps DEF ChatTypeOK
  <2>3. CASE ~Exists
    <3>1. UNCHANGED chat BY <1>5, <2>3 DEF SaveReply, Store
    <3> QED BY <1>0, <2>1, <3>1, AskingGoes, ChatUnchanged
  <2> QED BY <2>2, <2>3
<1>6. CASE UNCHANGED assistVars BY <1>1, <1>6 DEF assistVars, chatVars
<1> QED BY <1>2, <1>3, <1>4, <1>5, <1>6 DEF AssistNext, AskSteps

\* Whoever asks at the same time, whatever fails or dies, no question that the service was
\* sent is missing from the conversation, and no reply stands there before its question.
THEOREM QuestionsKept == AssistSpec => []QuestionKept
<1>1. ChatInv => QuestionKept
  <2> SUFFICES ASSUME ChatInv, ~wiped PROVE QuestionKept BY DEF QuestionKept
  <2>1. DOMAIN chat = 1 .. Len(chat) /\ Len(chat) \in Nat BY DEF ChatInv, ChatTypeOK
  <2>2. Count("user") = Counts("user") BY <2>1 DEF Count, Counts, Said
  <2>3. calls <= Counts("user") BY DEF ChatInv, AskedFirst
  <2>4. Counts("user") \in Nat BY CountsNat DEF ChatInv
  <2>5. \A i \in DOMAIN chat : Cardinality(Said(chat, i, "assistant"))
                                 <= Cardinality(Said(chat, i, "user"))
    BY <2>1 DEF ChatInv, AskedFirst
  <2>6. Count("user") >= calls BY <2>2, <2>3, <2>4 DEF ChatInv, ChatTypeOK
  <2> QED BY <2>5, <2>6 DEF QuestionKept, Said
<1> QED BY <1>1, ChatInitInv, ChatNextInv, PTL DEF AssistSpec

=============================================================================
