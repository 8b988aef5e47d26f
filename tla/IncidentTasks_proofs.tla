-------------------------- MODULE IncidentTasks_proofs --------------------------
(***************************************************************************)
(* Whatever the number of web threads and however their handlers overlap,   *)
(* a task that is done has a proof and one that failed has a reason, and    *)
(* the progress is a percentage.  When they do not overlap, confirmations   *)
(* stand, the progress is right when it is saved, and closing leaves no     *)
(* open task.                                                               *)
(***************************************************************************)
EXTENDS IncidentTasks, Integers, FiniteSetTheorems, TLAPS

\* The columns a handler is about to save are justified themselves: they come from the
\* serializer, or from a justified row and an outcome given with its proof or reason.
CopiesJustified == \A s \in Web : OutcomeJustified(job[s].row)
TInv == TypeOK /\ OutcomesJustified /\ CopiesJustified

-----------------------------------------------------------------------------
\* Rounding a share of the tasks gives a percentage.
LEMMA PercentBound == ASSUME NEW d \in Nat, NEW n \in Nat, n > 0, d <= n
                      PROVE Percent(d, n) \in 0 .. 100
<1> DEFINE a == 200 * d + n
           b == 2 * n
           up == a \div b
<1>1. a \in Nat /\ b \in Nat /\ b > 0 BY SMT
<1>2. up \in Int /\ up >= 0 BY <1>1, SMT
<1>3. a < 101 * b BY SMT
<1>4. up <= 100 BY <1>1, <1>3, SMT
<1>5. Percent(d, n) \in {up, up - 1} BY DEF Percent
<1>6. up % 2 = 1 => up >= 1 BY <1>2, SMT
<1> QED BY <1>2, <1>4, <1>5, <1>6, SMT DEF Percent

\* So is the progress update_progress() computes, whatever the tasks.
LEMMA ProgressBound == ASSUME NEW seen PROVE Progress(seen) \in 0 .. 100
<1>1. CASE seen \in {"resolved", "definitive"} \/ Counted = {} BY <1>1 DEF Progress
<1>2. CASE seen \notin {"resolved", "definitive"} /\ Counted # {}
  <2>1. IsFiniteSet(Counted) /\ Done \subseteq Counted
    <3>1. Counted \subseteq Tasks BY DEF Counted
    <3> QED BY <3>1, FS_Subset, TasksAssumption DEF Done
  <2>2. Cardinality(Counted) \in Nat /\ Cardinality(Counted) # 0
    BY <1>2, <2>1, FS_CardinalityType, FS_EmptySet
  <2>3. Cardinality(Done) \in Nat /\ Cardinality(Done) <= Cardinality(Counted)
    BY <2>1, FS_Subset, FS_CardinalityType
  <2>4. Percent(Cardinality(Done), Cardinality(Counted)) \in 0 .. 100
    BY <2>2, <2>3, PercentBound
  <2> QED BY <1>2, <2>4 DEF Progress
<1> QED BY <1>1, <1>2

-----------------------------------------------------------------------------
\* No task at first.
LEMMA InitInv == Init => TInv
BY DEF Init, TInv, TypeOK, OutcomesJustified, CopiesJustified, OutcomeJustified,
       Etats, Job, Ops, Seen, Idle, Absent

\* A handler that reads and computes a justified copy keeps the invariant.
LEMMA HandleInv ==
    ASSUME TInv, NEW s \in Web, NEW op \in Ops, NEW t \in Tasks \cup {NoTask},
           NEW r \in Row \cup {Absent}, OutcomeJustified(r), NEW seen \in Seen,
           Handle(s, op, t, r, seen)
    PROVE  TInv'
<1>1. TypeOK' BY DEF TInv, TypeOK, Handle, Job
<1>2. OutcomesJustified' BY DEF TInv, OutcomesJustified, OutcomeJustified, Handle
<1>3. CopiesJustified' BY DEF TInv, TypeOK, CopiesJustified, OutcomeJustified, Handle
<1> QED BY <1>1, <1>2, <1>3 DEF TInv

\* Every endpoint of a task reads and computes a justified copy.
LEMMA RequestsInv ==
    ASSUME TInv, NEW s \in Web, NEW t \in Tasks, NEW row \in Row, NEW op \in Ops,
           \/ CreateTask(s, t, row, op) \/ EditTask(s, t, row) \/ ConfirmTask(s, t)
           \/ CompleteTask(s, t) \/ FailTask(s, t) \/ RelaunchTask(s, t) \/ DeleteTask(s, t)
    PROVE  TInv'
<1> USE DEF TInv, TypeOK
<1>1. etat \in Seen /\ "unread" \in Seen BY DEF Seen
<1>2. "save" \in Ops /\ "delete" \in Ops BY DEF Ops
<1>3. Valid(row) => OutcomeJustified(row) BY DEF Valid, OutcomeJustified
<1>4. OutcomeJustified(task[t]) /\ (Exists(t) => task[t] \in Row)
  BY DEF OutcomesJustified, Exists
<1>5. CASE CreateTask(s, t, row, op)
  BY <1>1, <1>3, <1>5, HandleInv DEF CreateTask
<1>6. CASE EditTask(s, t, row)
  BY <1>1, <1>2, <1>3, <1>6, HandleInv DEF EditTask
<1>7. CASE ConfirmTask(s, t)
  <2> DEFINE r == [task[t] EXCEPT !.confirmed = TRUE]
  <2>1. r \in Row /\ OutcomeJustified(r) BY <1>4, <1>7 DEF ConfirmTask, Row, OutcomeJustified
  <2> QED BY <1>1, <1>2, <1>7, <2>1, HandleInv DEF ConfirmTask
<1>8. CASE CompleteTask(s, t)
  <2> DEFINE r == [task[t] EXCEPT !.state = "done", !.proof = TRUE]
  <2>1. r \in Row /\ OutcomeJustified(r)
    BY <1>4, <1>8 DEF CompleteTask, Row, States, OutcomeJustified
  <2> QED BY <1>1, <1>2, <1>8, <2>1, HandleInv DEF CompleteTask
<1>9. CASE FailTask(s, t)
  <2> DEFINE r == [task[t] EXCEPT !.state = "failed", !.reason = TRUE]
  <2>1. r \in Row /\ OutcomeJustified(r)
    BY <1>4, <1>9 DEF FailTask, Row, States, OutcomeJustified
  <2> QED BY <1>1, <1>2, <1>9, <2>1, HandleInv DEF FailTask
<1>10. CASE RelaunchTask(s, t)
  <2> DEFINE r == [task[t] EXCEPT !.state = "pending"]
  <2>1. r \in Row /\ OutcomeJustified(r)
    BY <1>4, <1>10 DEF RelaunchTask, Row, States, OutcomeJustified
  <2> QED BY <1>1, <1>2, <1>10, <2>1, HandleInv DEF RelaunchTask
<1>11. CASE DeleteTask(s, t)
  <2>1. OutcomeJustified(Absent) BY DEF OutcomeJustified, Absent
  <2> QED BY <1>1, <1>2, <1>11, <2>1, HandleInv DEF DeleteTask
<1> QED BY <1>5, <1>6, <1>7, <1>8, <1>9, <1>10, <1>11

\* The handlers of the status carry no task.
LEMMA ClosingInv ==
    ASSUME TInv, NEW s \in Web,
           CloseIncident(s) \/ PutResolved(s) \/ HandleResolve(s) \/ Validate(s) \/ Reopen(s)
    PROVE  TInv'
<1>1. PICK op \in Ops : Handle(s, op, NoTask, Absent, "unread")
  BY DEF CloseIncident, PutResolved, HandleResolve, Validate, Reopen, Ops
<1>2. OutcomeJustified(Absent) /\ "unread" \in Seen BY DEF OutcomeJustified, Absent, Seen
<1> QED BY <1>1, <1>2, HandleInv

-----------------------------------------------------------------------------
\* A handler that has counted goes on to save the percentage.
LEMMA CountedIsJob ==
    ASSUME NEW j \in Job, NEW value \in 0 .. 100
    PROVE  [j EXCEPT !.op = "progress", !.value = value] \in Job
<1>1. "progress" \in Ops BY DEF Ops
<1> QED BY <1>1 DEF Job

\* Every step keeps the invariant: copies are saved as they are, and counts are percentages.
LEMMA StepInv == TInv /\ [Next]_vars => TInv'
<1> SUFFICES ASSUME TInv, [Next]_vars PROVE TInv' OBVIOUS
<1> USE DEF TInv, TypeOK, OutcomesJustified, CopiesJustified, OutcomeJustified
<1>1. CASE UNCHANGED vars BY <1>1 DEF vars
<1>2. ASSUME NEW s \in Web, TaskSave(s) PROVE TInv'
  <2>1. TypeOK'
    <3>1. job[s].row \in Row \cup {Absent} /\ [job[s] EXCEPT !.op = "recount"] \in Job
      BY DEF Job, Ops
    <3> QED BY <1>2, <3>1 DEF TaskSave
  <2>2. OutcomesJustified' BY <1>2 DEF TaskSave, Job
  <2>3. CopiesJustified' BY <1>2 DEF TaskSave, Job
  <2> QED BY <2>1, <2>2, <2>3
<1>3. ASSUME NEW s \in Web, Recount(s) PROVE TInv'
  <2> DEFINE seen == IF job[s].seen = "unread" THEN etat ELSE job[s].seen
  <2>1. Progress(seen) \in 0 .. 100 BY ProgressBound
  <2>2. job' = [job EXCEPT ![s].op = "progress", ![s].value = Progress(seen)]
    BY <1>3 DEF Recount
  <2> HIDE DEF seen
  <2>3. job' \in [Web -> Job]
    <3>1. job[s] \in Job OBVIOUS
    <3>2. [job[s] EXCEPT !.op = "progress", !.value = Progress(seen)] \in Job
      BY <2>1, <3>1, CountedIsJob
    <3> QED BY <2>2, <3>2
  <2>4. TypeOK' /\ OutcomesJustified' BY <1>3, <2>3 DEF Recount
  <2>5. CopiesJustified' BY <1>3, <2>2 DEF Job
  <2> QED BY <2>4, <2>5
<1>4. ASSUME NEW s \in Web, ProgressSave(s) PROVE TInv'
  BY <1>4 DEF ProgressSave, Job, Ops, Seen, Idle, Absent
<1>5. ASSUME NEW s \in Web, StatusSave(s) PROVE TInv'
  BY <1>5 DEF StatusSave, Job, Ops, Seen, Idle, Absent, Etats
<1>6. ASSUME NEW s \in Web, Crash(s) PROVE TInv'
  BY <1>6 DEF Crash, Job, Ops, Seen, Idle, Absent
<1>7. ASSUME NEW s \in Web, NEW t \in Tasks, NEW row \in Row, NEW op \in Ops,
             CreateTask(s, t, row, op) \/ EditTask(s, t, row)
      PROVE  TInv'
  BY <1>7, RequestsInv
<1>8. ASSUME NEW s \in Web, NEW t \in Tasks,
             \/ ConfirmTask(s, t) \/ CompleteTask(s, t) \/ FailTask(s, t)
             \/ RelaunchTask(s, t) \/ DeleteTask(s, t)
      PROVE  TInv'
  <2>1. [state |-> "pending", confirmed |-> FALSE, proof |-> FALSE, reason |-> FALSE] \in Row
    BY DEF Row, States
  <2>2. "save" \in Ops BY DEF Ops
  <2> QED BY <1>8, <2>1, <2>2, RequestsInv
<1>9. ASSUME NEW s \in Web, CloseIncident(s) \/ PutResolved(s) \/ HandleResolve(s) \/ Validate(s) \/ Reopen(s)
      PROVE  TInv'
  BY <1>9, ClosingInv
<1>10. "save" \in Ops BY DEF Ops
<1> HIDE DEF TInv, TypeOK, OutcomesJustified, CopiesJustified, OutcomeJustified
<1> QED BY <1>1, <1>2, <1>3, <1>4, <1>5, <1>6, <1>7, <1>8, <1>9, <1>10 DEF Next

\* The inductive invariant, for every number of tasks and of web threads.
THEOREM Invariance == Spec => []TInv
<1> QED BY InitInv, StepInv, PTL DEF Spec

\* Types, in particular that the progress stays between 0 and 100.
THEOREM TypeCorrect == Spec => []TypeOK
<1>1. TInv => TypeOK BY DEF TInv
<1> QED BY <1>1, Invariance, PTL

\* A task that is done has a proof and one that failed a reason, races included.
THEOREM Justified == Spec => []OutcomesJustified
<1>1. TInv => OutcomesJustified BY DEF TInv
<1> QED BY <1>1, Invariance, PTL

-----------------------------------------------------------------------------
(* When handlers do not overlap, what one has read is still so when it      *)
(* saves.                                                                   *)

OneThread == \A s, u \in Web : s = u

Creates == {"create", "create_by_leader"}
UpToDate(j) ==
    /\ j.op \in Creates \cup {"save", "delete", "recount"} => j.seen \in {"unread", etat}
    /\ j.op \in Creates => task[j.id] = Absent
    /\ j.op = "save" => j.row # Absent /\ (task[j.id].confirmed => j.row.confirmed)
    /\ j.op = "delete" => j.row = Absent
    /\ j.op = "progress" => j.value = Progress(etat)
    /\ j.op = "close" => \A t \in Tasks : Exists(t) => Over(t)
SerialInv == TInv /\ \A s \in Web : UpToDate(job[s])

\* A handler that has just read is up to date.
LEMMA HandleUpToDate ==
    ASSUME OneThread, TypeOK, NEW s \in Web, NEW op, op # "progress", NEW t, NEW r, NEW seen,
           Handle(s, op, t, r, seen), NEW value, value = progress,
           UpToDate([op |-> op, id |-> t, row |-> r, seen |-> seen, value |-> value])
    PROVE  \A u \in Web : UpToDate(job[u])'
<1> DEFINE j == [op |-> op, id |-> t, row |-> r, seen |-> seen, value |-> value]
<1> SUFFICES ASSUME NEW u \in Web PROVE UpToDate(job[u])'
  OBVIOUS
<1>1. u = s BY DEF OneThread
<1>2. job'[s] = j /\ UNCHANGED <<etat, task>> BY DEF Handle, TypeOK
<1>3. j.op # "progress" OBVIOUS
<1> HIDE DEF j
<1>4. UpToDate(j) BY DEF j
<1> QED BY <1>1, <1>2, <1>3, <1>4 DEF UpToDate, Exists, Over

\* The endpoints of a task.
LEMMA RequestsUpToDate ==
    ASSUME OneThread, TypeOK, NEW s \in Web, NEW t \in Tasks, NEW row \in Row, NEW op \in Ops,
           \/ CreateTask(s, t, row, op) \/ EditTask(s, t, row) \/ ConfirmTask(s, t)
           \/ CompleteTask(s, t) \/ FailTask(s, t) \/ RelaunchTask(s, t) \/ DeleteTask(s, t)
    PROVE  \A u \in Web : UpToDate(job[u])'
<1> DEFINE G == \A u \in Web : UpToDate(job[u])'
<1>v. PICK value : value = progress OBVIOUS
<1>a. Exists(t) => task[t] \in Row BY DEF Exists, TypeOK
<1>r. \A r \in Row : r # Absent BY DEF Row, Absent, States
<1>1. CASE CreateTask(s, t, row, op)
  <2>1. op \in Creates /\ task[t] = Absent /\ Handle(s, op, t, row, etat)
    BY <1>1 DEF CreateTask, Exists, Creates
  <2>2. PICK seen : seen = etat OBVIOUS
  <2>3. UpToDate([op |-> op, id |-> t, row |-> row, seen |-> seen, value |-> value])
    BY <2>1, <2>2 DEF UpToDate, Creates
  <2> QED BY <2>1, <2>2, <2>3, <1>v, HandleUpToDate DEF Creates
<1>2. ASSUME NEW r \in Row, NEW seen, seen \in {"unread", etat}, task[t].confirmed => r.confirmed,
             Handle(s, "save", t, r, seen)
      PROVE  G
  <2>1. UpToDate([op |-> "save", id |-> t, row |-> r, seen |-> seen, value |-> value])
    BY <1>2, <1>r DEF UpToDate, Creates
  <2> QED BY <1>2, <1>v, <2>1, HandleUpToDate
<1>3. CASE EditTask(s, t, row)
  <2>1. PICK seen : seen = etat OBVIOUS
  <2> QED BY <1>2, <1>3, <2>1 DEF EditTask
<1>4. CASE ConfirmTask(s, t)
  <2>1. PICK r : r = [task[t] EXCEPT !.confirmed = TRUE] OBVIOUS
  <2>2. r \in Row /\ r.confirmed BY <1>4, <1>a, <2>1 DEF ConfirmTask, Row
  <2> QED BY <1>2, <1>4, <2>1, <2>2 DEF ConfirmTask
<1>5. CASE CompleteTask(s, t)
  <2>1. PICK r : r = [task[t] EXCEPT !.state = "done", !.proof = TRUE] OBVIOUS
  <2>2. r \in Row /\ r.confirmed = task[t].confirmed
    BY <1>5, <1>a, <2>1 DEF CompleteTask, Row, States
  <2> QED BY <1>2, <1>5, <2>1, <2>2 DEF CompleteTask
<1>6. CASE FailTask(s, t)
  <2>1. PICK r : r = [task[t] EXCEPT !.state = "failed", !.reason = TRUE] OBVIOUS
  <2>2. r \in Row /\ r.confirmed = task[t].confirmed
    BY <1>6, <1>a, <2>1 DEF FailTask, Row, States
  <2> QED BY <1>2, <1>6, <2>1, <2>2 DEF FailTask
<1>7. CASE RelaunchTask(s, t)
  <2>1. PICK r : r = [task[t] EXCEPT !.state = "pending"] OBVIOUS
  <2>2. r \in Row /\ r.confirmed = task[t].confirmed
    BY <1>7, <1>a, <2>1 DEF RelaunchTask, Row, States
  <2> QED BY <1>2, <1>7, <2>1, <2>2 DEF RelaunchTask
<1>8. CASE DeleteTask(s, t)
  <2>1. PICK seen : seen = etat OBVIOUS
  <2>2. UpToDate([op |-> "delete", id |-> t, row |-> Absent, seen |-> seen, value |-> value])
    BY <2>1 DEF UpToDate, Creates
  <2> QED BY <1>8, <1>v, <2>1, <2>2, HandleUpToDate DEF DeleteTask
<1> QED BY <1>1, <1>3, <1>4, <1>5, <1>6, <1>7, <1>8

\* The handlers of the status: closing has looked at every task.
LEMMA ClosingUpToDate ==
    ASSUME OneThread, TypeOK, NEW s \in Web,
           CloseIncident(s) \/ PutResolved(s) \/ HandleResolve(s) \/ Validate(s) \/ Reopen(s)
    PROVE  \A u \in Web : UpToDate(job[u])'
<1>v. PICK value : value = progress OBVIOUS
<1>1. PICK op \in {"close", "resolve", "validate", "reopen"} :
        /\ Handle(s, op, NoTask, Absent, "unread")
        /\ op = "close" => \A t \in Tasks : Exists(t) => Over(t)
  BY DEF CloseIncident, PutResolved, HandleResolve, Validate, Reopen
<1>2. UpToDate([op |-> op, id |-> NoTask, row |-> Absent, seen |-> "unread", value |-> value])
  BY <1>1 DEF UpToDate, Creates
<1> QED BY <1>v, <1>1, <1>2, HandleUpToDate

\* Counting sees the tasks and the status as they are.
LEMMA ProgressStable ==
    ASSUME UNCHANGED <<etat, task>>
    PROVE  Progress(etat)' = Progress(etat)
<1>1. Counted' = Counted BY DEF Counted, Exists
<1>2. Done' = Done BY <1>1 DEF Done
<1> QED BY <1>1, <1>2 DEF Progress

\* From one statement to the next: the status the count uses is the incident's, and the
\* tasks it counts do not change before the progress is saved.
LEMMA StepsUpToDate ==
    ASSUME OneThread, SerialInv, NEW s \in Web,
           TaskSave(s) \/ Recount(s) \/ ProgressSave(s) \/ StatusSave(s) \/ Crash(s)
    PROVE  \A u \in Web : UpToDate(job[u])'
<1> SUFFICES ASSUME NEW u \in Web PROVE UpToDate(job[u])'
  OBVIOUS
<1>1. u = s BY DEF OneThread
<1>t. job \in [Web -> Job] /\ job[s] \in Job /\ UpToDate(job[s])
  BY DEF SerialInv, TInv, TypeOK
<1>2. CASE TaskSave(s)
  <2>1. job' = [job EXCEPT ![s] = [job[s] EXCEPT !.op = "recount"]] /\ etat' = etat
    BY <1>2 DEF TaskSave
  <2>2. job'[s].op = "recount" /\ job'[s].seen = job[s].seen
    BY <1>t, <2>1 DEF Job
  <2>3. job[s].seen \in {"unread", etat}
    BY <1>2, <1>t DEF TaskSave, UpToDate, Creates
  <2> QED BY <1>1, <2>1, <2>2, <2>3 DEF UpToDate, Creates
<1>3. CASE Recount(s)
  <2>1. PICK seen : seen = IF job[s].seen = "unread" THEN etat ELSE job[s].seen OBVIOUS
  <2>2. seen = etat
    BY <1>3, <1>t, <2>1 DEF Recount, UpToDate
  <2>3. job' = [job EXCEPT ![s] = [job[s] EXCEPT !.op = "progress", !.value = Progress(etat)]]
    BY <1>3, <2>1, <2>2 DEF Recount
  <2>4. job'[s].op = "progress" /\ job'[s].value = Progress(etat)
    BY <1>t, <2>3 DEF Job
  <2>5. Progress(etat)' = Progress(etat)
    BY <1>3, ProgressStable DEF Recount
  <2> QED BY <1>1, <2>4, <2>5 DEF UpToDate, Creates
<1>4. CASE ProgressSave(s) \/ StatusSave(s) \/ Crash(s)
  <2>1. job'[s].op = "idle"
    BY <1>4, <1>t DEF ProgressSave, StatusSave, Crash, Idle
  <2> QED BY <1>1, <2>1 DEF UpToDate, Creates
<1> QED BY <1>2, <1>3, <1>4

\* The invariant is inductive.
LEMMA SerialStep == OneThread /\ SerialInv /\ [Next]_vars => SerialInv'
<1> SUFFICES ASSUME OneThread, SerialInv, [Next]_vars PROVE SerialInv' OBVIOUS
<1>t. TInv /\ TypeOK BY DEF SerialInv, TInv
<1>i. TInv' BY <1>t, StepInv
<1> DEFINE G == \A u \in Web : UpToDate(job[u])'
<1>1. CASE UNCHANGED vars
  <2>1. Progress(etat)' = Progress(etat) BY <1>1, ProgressStable DEF vars
  <2> QED BY <1>1, <1>i, <2>1 DEF vars, SerialInv, UpToDate, Exists, Over
<1>2. ASSUME NEW s \in Web, NEW t \in Tasks, NEW row \in Row, NEW op \in Ops,
             CreateTask(s, t, row, op) \/ EditTask(s, t, row)
      PROVE  G
  BY <1>t, <1>2, RequestsUpToDate
<1>3. ASSUME NEW s \in Web, NEW t \in Tasks,
             \/ ConfirmTask(s, t) \/ CompleteTask(s, t) \/ FailTask(s, t)
             \/ RelaunchTask(s, t) \/ DeleteTask(s, t)
      PROVE  G
  <2>1. [state |-> "pending", confirmed |-> FALSE, proof |-> FALSE, reason |-> FALSE] \in Row
    BY DEF Row, States
  <2>2. "save" \in Ops BY DEF Ops
  <2> QED BY <1>t, <1>3, <2>1, <2>2, RequestsUpToDate
<1>4. ASSUME NEW s \in Web,
             CloseIncident(s) \/ PutResolved(s) \/ HandleResolve(s) \/ Validate(s) \/ Reopen(s)
      PROVE  G
  BY <1>t, <1>4, ClosingUpToDate
<1>5. ASSUME NEW s \in Web, TaskSave(s) \/ Recount(s) \/ ProgressSave(s) \/ StatusSave(s) \/ Crash(s)
      PROVE  G
  BY <1>5, StepsUpToDate
<1>6. "save" \in Ops BY DEF Ops
<1> QED BY <1>i, <1>1, <1>2, <1>3, <1>4, <1>5, <1>6 DEF Next, SerialInv

LEMMA SerialInit == Init => SerialInv
<1> SUFFICES ASSUME Init PROVE SerialInv OBVIOUS
<1>1. \A s \in Web : job[s].op = "idle" BY DEF Init, Idle
<1> QED BY <1>1, InitInv DEF SerialInv, UpToDate, Creates

-----------------------------------------------------------------------------
\* When handlers do not overlap, the progress saved is that of the tasks and the status.
THEOREM ProgressIsRight == ASSUME OneThread PROVE Spec => ProgressAccurate
<1> DEFINE Right == \A s \in Web : ProgressSave(s) => progress' = Progress(etat)
<1>1. SerialInv /\ [Next]_vars => [Right]_vars
  BY DEF SerialInv, UpToDate, ProgressSave
<1>2. SerialInv /\ [Next]_vars => SerialInv' BY OneThread, SerialStep
<1> QED BY <1>1, <1>2, SerialInit, PTL DEF Spec, ProgressAccurate

\* When handlers do not overlap, a task keeps the leader's confirmation as long as it exists.
THEOREM ConfirmationsKept == ASSUME OneThread PROVE Spec => ConfirmationStands
<1> DEFINE Stands == \A t \in Tasks : Exists(t) /\ task[t].confirmed /\ task'[t] # Absent
                                      => task'[t].confirmed
<1>1. SerialInv /\ [Next]_vars => [Stands]_vars
  <2> SUFFICES ASSUME SerialInv, Next, NEW t \in Tasks, Exists(t), task[t].confirmed,
                      task'[t] # Absent
               PROVE  task'[t].confirmed
    OBVIOUS
  <2>1. ASSUME NEW s \in Web, TaskSave(s) PROVE task'[t].confirmed
    <3>1. task' = [task EXCEPT ![job[s].id] = job[s].row] /\ task \in [Tasks -> Row \cup {Absent}]
      BY <2>1 DEF TaskSave, SerialInv, TInv, TypeOK
    <3>2. CASE job[s].id # t BY <3>1, <3>2
    <3>3. CASE job[s].id = t
      <4>1. task'[t] = job[s].row BY <3>1, <3>3
      <4>2. UpToDate(job[s]) BY DEF SerialInv
      <4> QED BY <2>1, <3>3, <4>1, <4>2 DEF TaskSave, UpToDate, Creates, Exists
    <3> QED BY <3>2, <3>3
  <2>2. ASSUME NEW s \in Web, NEW op, NEW u, NEW row, NEW seen, Handle(s, op, u, row, seen)
        PROVE  task'[t].confirmed
    BY <2>2 DEF Handle
  <2>3. ASSUME NEW s \in Web, NEW u \in Tasks, NEW row \in Row,
               (\E op \in Ops : CreateTask(s, u, row, op)) \/ EditTask(s, u, row)
        PROVE  task'[t].confirmed
    BY <2>2, <2>3 DEF CreateTask, EditTask
  <2>4. ASSUME NEW s \in Web, NEW u \in Tasks,
               \/ ConfirmTask(s, u) \/ CompleteTask(s, u) \/ FailTask(s, u)
               \/ RelaunchTask(s, u) \/ DeleteTask(s, u)
        PROVE  task'[t].confirmed
    BY <2>2, <2>4 DEF ConfirmTask, CompleteTask, FailTask, RelaunchTask, DeleteTask
  <2>5. ASSUME NEW s \in Web,
               CloseIncident(s) \/ PutResolved(s) \/ HandleResolve(s) \/ Validate(s) \/ Reopen(s)
        PROVE  task'[t].confirmed
    BY <2>2, <2>5 DEF CloseIncident, PutResolved, HandleResolve, Validate, Reopen
  <2>6. ASSUME NEW s \in Web, Recount(s) \/ ProgressSave(s) \/ StatusSave(s) \/ Crash(s)
        PROVE  task'[t].confirmed
    BY <2>6 DEF Recount, ProgressSave, StatusSave, Crash
  <2> QED BY <2>1, <2>3, <2>4, <2>5, <2>6 DEF Next
<1>2. SerialInv /\ [Next]_vars => SerialInv' BY OneThread, SerialStep
<1> QED BY <1>1, <1>2, SerialInit, PTL DEF Spec, ConfirmationStands

\* When handlers do not overlap, the endpoints that look at the tasks before closing leave
\* none of them open.
THEOREM ClosedHasNoOpenTask == ASSUME OneThread PROVE Spec => CloseLeavesNoTask
<1> DEFINE Closed == \A s \in Web : job[s].op = "close" /\ StatusSave(s)
                                     => \A t \in Tasks : Exists(t) => Over(t)
<1>1. SerialInv /\ [Next]_vars => [Closed]_vars
  BY DEF SerialInv, UpToDate
<1>2. SerialInv /\ [Next]_vars => SerialInv' BY OneThread, SerialStep
<1> QED BY <1>1, <1>2, SerialInit, PTL DEF Spec, CloseLeavesNoTask
=============================================================================
