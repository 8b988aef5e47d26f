----------------------------- MODULE IncidentTasks -----------------------------
(***************************************************************************)
(* The tasks of one incident (Mapapi/views/task.py), its progress, which     *)
(* every save of a task recomputes, and the four ways of closing it.        *)
(*                                                                         *)
(* A handler reads the task, saves all its columns, then, in the model's     *)
(* save(), reads the incident and counts its tasks, and last saves the      *)
(* progress.  Nothing is locked, nothing is a transaction.  Of the status   *)
(* only what the tasks and the progress depend on is kept.                  *)
(***************************************************************************)
EXTENDS Naturals, FiniteSets

CONSTANTS Tasks,    \* the primary keys tasks may come to have
          NoTask,
          Web       \* the threads of the web server

ASSUME TasksAssumption == IsFiniteSet(Tasks) /\ NoTask \notin Tasks

VARIABLES etat,     \* "open", "resolved", or "definitive"
          progress, \* the incident's progress column
          task,     \* the task rows
          job       \* what each thread has read and has still to write
vars == <<etat, progress, task, job>>

Etats == {"open", "resolved", "definitive"}
\* Nothing tells a task that is 'in_progress' from one that is 'pending'.
States == {"pending", "done", "failed"}
\* A task: its state, whether the leader confirmed it, and whether it has a proof and
\* a failure reason.
Row == [state : States, confirmed : BOOLEAN, proof : BOOLEAN, reason : BOOLEAN]
Absent == [state |-> "absent", confirmed |-> FALSE, proof |-> FALSE, reason |-> FALSE]
Exists(t) == task[t] # Absent
Over(t) == task[t].state \in {"done", "failed"}

\* `row`, `seen` and `value` are the task, the incident's status and its progress as the
\* handler read or computed them; "unread" when it reads the status after the save.
Ops == {"idle", "create", "create_by_leader", "save", "delete", "recount", "progress",
        "close", "resolve", "validate", "reopen"}
Seen == Etats \cup {"unread"}
Job == [op : Ops, id : Tasks \cup {NoTask}, row : Row \cup {Absent}, seen : Seen, value : 0 .. 100]
Idle == [op |-> "idle", id |-> NoTask, row |-> Absent,
         seen |-> "unread", value |-> 0]

Init == /\ etat = "open" /\ progress = 0
        /\ task = [t \in Tasks |-> Absent]
        /\ job = [s \in Web |-> Idle]

\* round(done * 100 / total): to the nearest, ties to the even neighbour.
Percent(done, total) ==
    LET up == (200 * done + total) \div (2 * total)
        tie == (200 * done + total) % (2 * total) = 0 IN
    IF tie /\ up % 2 = 1 THEN up - 1 ELSE up

\* Faulty variant: every task counts.
CountedAll == {t \in Tasks : Exists(t)}
Counted == {t \in Tasks : Exists(t) /\ task[t].confirmed}
Done == {t \in Counted : task[t].state = "done"}
\* The progress of an incident whose status was read as `seen`.
Progress(seen) == IF seen \in {"resolved", "definitive"} THEN 100
                  ELSE IF Counted = {} THEN 0
                  ELSE Percent(Cardinality(Done), Cardinality(Counted))

-----------------------------------------------------------------------------
(* Tasks.                                                                  *)

Handle(s, op, t, row, seen) ==
    /\ job[s] = Idle
    /\ job' = [job EXCEPT ![s] = [op |-> op, id |-> t, row |-> row, seen |-> seen, value |-> progress]]
    /\ UNCHANGED <<etat, progress, task>>

\* Faulty variant: the reason of a failure is not asked for.
ValidWithoutReason(row) == etat # "resolved" /\ (row.state = "done" => row.proof)
\* What the serializer accepts: an open incident, a proof for a task that is done
\* and a reason for one that failed.
Valid(row) == /\ etat # "resolved"
              /\ row.state = "done" => row.proof
              /\ row.state = "failed" => row.reason
\* A fresh primary key.  The leader's own tasks are to be confirmed as they are saved,
\* but the test for a new task looks at the primary key, which is never null.
CreateTask(s, t, row, op) ==
    /\ ~Exists(t) /\ \A u \in Web : job[u].id # t
    /\ op \in {"create", "create_by_leader"}
    /\ Valid(row) /\ ~row.confirmed
    /\ Handle(s, op, t, row, etat)
\* Faulty variant: the confirmation is a field of the form.
EditConfirmation(s, t, row) == Exists(t) /\ Valid(row) /\ Handle(s, "save", t, row, etat)
EditTask(s, t, row) ==
    /\ Exists(t) /\ Valid(row)
    /\ row.confirmed = task[t].confirmed
    /\ Handle(s, "save", t, row, etat)
ConfirmTask(s, t) ==
    Exists(t) /\ Handle(s, "save", t, [task[t] EXCEPT !.confirmed = TRUE], "unread")
CompleteTask(s, t) ==
    Exists(t) /\ Handle(s, "save", t, [task[t] EXCEPT !.state = "done", !.proof = TRUE], "unread")
FailTask(s, t) ==
    Exists(t) /\ Handle(s, "save", t, [task[t] EXCEPT !.state = "failed", !.reason = TRUE], "unread")
RelaunchTask(s, t) ==
    /\ Exists(t) /\ task[t].state = "failed"
    /\ Handle(s, "save", t, [task[t] EXCEPT !.state = "pending"], "unread")
DeleteTask(s, t) == Exists(t) /\ Handle(s, "delete", t, Absent, etat)

\* A row deleted meanwhile is inserted again.
\* Faulty variant: the tasks are not counted again after the save.
SaveUncounted(s) ==
    /\ job[s].op \in {"create", "create_by_leader", "save", "delete"}
    /\ task' = [task EXCEPT ![job[s].id] = job[s].row]
    /\ job' = [job EXCEPT ![s].op = "progress"]
    /\ UNCHANGED <<etat, progress>>
TaskSave(s) ==
    /\ job[s].op \in {"create", "create_by_leader", "save", "delete"}
    /\ task' = [task EXCEPT ![job[s].id] = job[s].row]
    /\ job' = [job EXCEPT ![s].op = "recount"]
    /\ UNCHANGED <<etat, progress>>
Recount(s) ==
    /\ job[s].op = "recount"
    /\ LET seen == IF job[s].seen = "unread" THEN etat ELSE job[s].seen IN
       job' = [job EXCEPT ![s].op = "progress", ![s].value = Progress(seen)]
    /\ UNCHANGED <<etat, progress, task>>
ProgressSave(s) ==
    /\ job[s].op = "progress"
    /\ progress' = job[s].value
    /\ job' = [job EXCEPT ![s] = Idle]
    /\ UNCHANGED <<etat, task>>

-----------------------------------------------------------------------------
(* The incident's status.                                                  *)

\* The close endpoint looks at the tasks first.
\* Faulty variant: only confirmed tasks are looked at.
CloseUnconfirmed(s) ==
    /\ etat # "resolved" /\ \A t \in Counted : Over(t)
    /\ Handle(s, "close", NoTask, Absent, "unread")
CloseIncident(s) ==
    /\ etat # "resolved" /\ \A t \in Tasks : Exists(t) => Over(t)
    /\ Handle(s, "close", NoTask, Absent, "unread")
\* So does PUT with the status 'resolved'.
PutResolved(s) ==
    /\ \A t \in Tasks : Exists(t) => Over(t)
    /\ Handle(s, "close", NoTask, Absent, "unread")
\* The handle endpoint and the validation of a resolution do not.
HandleResolve(s) == etat = "open" /\ Handle(s, "resolve", NoTask, Absent, "unread")
Validate(s) == etat = "open" /\ Handle(s, "validate", NoTask, Absent, "unread")
\* PUT with another status.
Reopen(s) == Handle(s, "reopen", NoTask, Absent, "unread")

\* Saving a resolved incident sets its progress; the validation writes it only if it
\* read another, and PUT saves the one it read.
StatusSave(s) ==
    /\ \/ job[s].op \in {"close", "resolve"} /\ etat' = "resolved" /\ progress' = 100
       \/ /\ job[s].op = "validate" /\ etat' = "definitive"
          /\ progress' = IF job[s].value = 100 THEN progress ELSE 100
       \/ job[s].op = "reopen" /\ etat' = "open" /\ progress' = job[s].value
    /\ job' = [job EXCEPT ![s] = Idle] /\ UNCHANGED task

Crash(s) == job[s] # Idle /\ job' = [job EXCEPT ![s] = Idle] /\ UNCHANGED <<etat, progress, task>>

Next ==
    \/ \E s \in Web :
         \/ \E t \in Tasks :
              \/ \E row \in Row : (\E op \in Ops : CreateTask(s, t, row, op)) \/ EditTask(s, t, row)
              \/ ConfirmTask(s, t) \/ CompleteTask(s, t) \/ FailTask(s, t)
              \/ RelaunchTask(s, t) \/ DeleteTask(s, t)
         \/ TaskSave(s) \/ Recount(s) \/ ProgressSave(s)
         \/ CloseIncident(s) \/ PutResolved(s) \/ HandleResolve(s) \/ Validate(s) \/ Reopen(s)
         \/ StatusSave(s) \/ Crash(s)

Spec == Init /\ [][Next]_vars

-----------------------------------------------------------------------------
(* Properties.                                                             *)

TypeOK == /\ etat \in Etats /\ progress \in 0 .. 100
          /\ task \in [Tasks -> Row \cup {Absent}]
          /\ job \in [Web -> Job]

\* However the handlers overlap, and although complete and fail do not go through the
\* serializer, a task that is done has a proof and one that failed a reason.
OutcomeJustified(row) == /\ row.state = "done" => row.proof
                         /\ row.state = "failed" => row.reason
OutcomesJustified == \A t \in Tasks : OutcomeJustified(task[t])

\* When handlers do not overlap, the progress a task handler writes is that of the
\* incident's tasks and status at that moment.
ProgressAccurate == [][\A s \in Web : ProgressSave(s) => progress' = Progress(etat)]_vars

\* When handlers do not overlap, the leader's confirmation of a task is never lost.
ConfirmationStands ==
    [][\A t \in Tasks : Exists(t) /\ task[t].confirmed /\ task'[t] # Absent
                        => task'[t].confirmed]_vars

\* When handlers do not overlap, the close endpoint and PUT leave no open task
\* behind.
CloseLeavesNoTask ==
    [][\A s \in Web : job[s].op = "close" /\ StatusSave(s) => \A t \in Tasks : Exists(t) => Over(t)]_vars
=============================================================================
