# Verification of the Map Action API

TLA+ modules for the Map Action API (Django REST, PostgreSQL, Celery): the life of a reported
incident, from `declared` to `resolved_definitive`, with the organisations that take it, collaborate
on it, are assigned to it and split it into tasks, the beat tasks that act when nobody does, the
analysis of its photo, the trash, and the accounts, members, calls and lists around it. TLC checks
small instances; TLAPS proves the results marked below for every value of the constants.

## 1. The system

Requests run in threads of the web server, periodic and asynchronous tasks in Celery workers.
PostgreSQL is used in autocommit mode (`ATOMIC_REQUESTS` is not set), and no handler of the incident
takes a row lock: each reads a model instance, tests its guards on that copy and later writes some
(`save(update_fields=...)`) or all (`save()`) of the columns, over whatever the row has become; a
bare `save()` inserts a row again that was deleted meanwhile. Every handler has this shape, and most
of the difficulty comes from it.

| Component | State | Operations | Hard behaviour | Correct when |
|---|---|---|---|---|
| Incident lifecycle (`views/incident.py`) | `etat`, `taken_by`, `take_in_charge_mode`, `taken_in_charge_at`, two warning flags, `validation_deadline` | take in charge (internal, leader, join), handle, PUT, prepare, return, declare resolved, validate, reject, close, disengage | full-row saves from stale copies; handlers of four statements; crashes between them | status, leader, mode and clock agree; status and leader follow the workflow |
| Beat tasks (`tasks.py`, `CELERY_BEAT_SCHEDULE`) | none of their own | tacit validation after 72 h, anti-freeze warnings at 75 % and 90 % and return to `declared` at 100 %, purge | they select rows and save them one by one later; deadlines race answers | nobody freezes an incident; nothing is done before its time |
| Collaboration (`views/collaboration.py`, `signals.py`) | one row per (incident, user): role, status | request, bulk request, accept, refuse, edit, delete | a `post_save` signal deletes the row just created; replacement in two statements | roles are earned, closed incidents take nobody, who leaves leaves nobody behind |
| Assignment to an organisation | `IncidentOrgAssignment`: status, deadline | assign, accept, decline, tacit acceptance at 72 h | answer racing the deadline; an acceptance is two saves | answers final, acceptance engages, silence ends |
| Tasks (`views/task.py`) and progress | `IncidentTask`: state, confirmation, proof, reason; `Incident.progress` | create, edit, confirm, complete, fail, relaunch, delete; every save recounts | recount after the save, in other statements; full-row saves | outcomes justified, progress that of the tasks, confirmation kept |
| Trash | the row itself, `is_deleted`, `deleted_at` | report, delete, bulk delete, restore, destroy, PUT, purge after 30 days | restoring leaves the date; restore and PUT race the purge | only what was due disappears, and it does disappear |
| AI prediction and assistant (`views/prediction.py`, `tasks.py`) | `Prediction.status`, result, `ChatHistory` | analyse, automatic retry, two relaunches, question and reply | late answer of an earlier attempt, messages lost or doubled, service failures | a finished analysis stays finished, analyses end, questions are kept |
| IVR calls (`ivr_views.py`) | `IVRCall`, interactions | chain of Twilio webhooks | repeated and overlapping webhooks, lists that change while they are read out, swallowed exceptions | the incident says what the caller chose, and there is one |
| Partner suggestions and discussion access | suggestion status, collaboration | suggest, accept, reject, admit to the discussion | three statements, crashes, the lifecycle writing in between | an accepted suggestion has brought its partner in |
| Agents and field reports | `IncidentAssignment`, `FieldReport` | assign an agent, edit, withdraw, report | report and status are two statements; an edition may change the agent and the incident | a reported assignment has its report, or a manager's word |
| Organisations, members (`views/organisation.py`) | role, activity, phone | create, add, edit, remove, deactivate | removals by each other, endpoints without the rule | an active administrator is left |
| Accounts (`views/user.py`, `authentication.py`) | PIN, agent code, OTP, reset code | create, regenerate, request, verify, reset, points | full-row saves that bring old secrets back; PUT of any column but the secrets | drawn PINs are changed, codes are used in time |
| Conversation | messages in order of date | send, erase, read page by page | dates before commits, equal dates, changing page sizes | the whole history, once |
| Lists, filters, pages, figures | none | lists by role, map, badges, dashboards, impact, collaborations | the same rule written in several queries; pages of a list that changes | the lists and figures agree |
| Notifications, WebSocket, other resources | rows | plain CRUD and broadcast | - | - |

Handlers of different components meet in the tables: disengaging, validating and the beat tasks
write collaborations; accepting a collaboration or a suggestion writes the incident's mode or the
team; accepting an assignment engages the incident; saving a task writes its progress; the signal on
`Collaboration` deletes the row being created; deleting an incident takes its prediction and its
conversation with it. Notifications and e-mails are outputs only and are left out.

`PROJECT.json` lists every component, also those that are not modelled, and the hazards at their
lines.

## 2. The modules

| Module | Models |
|---|---|
| `IncidentWorkflow` | the abstract specification: status and leader, each handler one atomic step, and a form of PUT that writes both as it likes |
| `IncidentState` | the shared rows, slots, reads and saves, the creation of a collaboration and its signal, time, crashes |
| `IncidentLifecycle` | every handler of `views/incident.py` that moves an incident, and the two beat tasks |
| `Collaboration` | the endpoints of `views/collaboration.py`, composed with `IncidentLifecycle` |
| `OrgAssignment` | the assignment to organisations, composed with `IncidentLifecycle` |
| `IncidentTasks` | tasks, progress, and what of the status they depend on |
| `Trash` | the existence of one incident: report, trash, restoration, destruction, purge |
| `Analysis` | the prediction, its task messages and its workers, composed with `Trash` |
| `Assistant` | the conversation with the assistant, composed with `Analysis` |
| `IvrCall` | one call: the webhooks, the threads that serve them, the caller who hears the menus |
| `Teamwork` | suggestions, admission to the discussion, agents and field reports, beside a lifecycle and collaborations that are left free to write anything |
| `OrgMembers` | the members of one organisation and who may edit and remove them |
| `Account` | one account, its secrets and the requests that save it |
| `Conversation` | a conversation and one reader who scrolls back |
| `Listings` | the lists, filters, badges and figures as sets of incidents, and offset paging |
| `Screens` | `Listings` and `Conversation` side by side |
| `MC...` | instances for TLC (symmetry of users, threads, assignments or tasks where no liveness is checked) |
| `IncidentLifecycle_proofs` | the invariant of the lifecycle, its refinement of `IncidentWorkflow` |
| `Coordination_proofs` | the compositions `Collaboration` and `OrgAssignment` |
| `IncidentTasks_proofs`, `Teamwork_proofs`, `OrgMembers_proofs`, `Account_proofs` | the module of that name |
| `Assistant_proofs` | `Trash`, `Analysis` and `Assistant` |
| `Screens_proofs` | what people see and hear: `Listings`, `Conversation`, `Screens`, `IvrCall` |

**State of the lifecycle.** `row` is the incident's columns: `takenBy` is `taken_by`, `mode` is
`take_in_charge_mode`, `age` is now minus `taken_in_charge_at` (`None` for NULL), `left` is
`validation_deadline` minus now, `w75`/`w90` are the warning flags. `collab[u]` is the collaboration
of user `u` on the incident (the pair is unique in the database), `NoCollab` for none; row ids are
not kept. `submitted` is a history variable; `overrides` counts the forms of PUT that wrote columns
of the workflow. `job[s]` is what slot `s`, a web thread or a worker process, has read and has still
to write. The other modules follow the same plan: the rows, history variables for what properties
speak of, and `job` (`task` and `ask` for Celery messages and the assistant's requests).

**Actions.** A handler is one action for its reads and guards, followed by one action per statement
that commits; `At(s, op)` says which comes next. Several SELECTs of one handler are one action: what
matters is the distance between the guards and the writes. `Save` writes `row` with the columns of
`update_fields` changed, or the whole snapshot when the code calls `save()` bare. `Crash(s)`,
`ThreadDies(t)`, `WorkerDies(t)` drop the statements to come. `Tick` advances the ages of the row
and of every copy of it. A single slot that is both a web thread and a worker (`Web = Workers =
{s1}`) is the system in which handlers do not overlap; crashes remain.

**Abstractions.**

* *Lifecycle.* One incident at a time: no handler's guard relates two incidents. Users are the
  operative members of organisations, administrators or office agents; the super admin needs no
  identity. A PUT that carries none of the workflow's columns, or one of the two statuses the code
  has branches for (`in_progress`, `resolved`), is `EditIncident`. Any other one is `Override`: a
  form is a set of columns and their values (`Forms`, any set of them in the theorems), and
  `overrides` counts those that are saved, up to `MaxOverrides`. A POST that carries such columns is
  the POST without them followed by such a PUT. Dates in the future, and leaders who are in no
  organisation, which a form may write too, are not told apart from a date of now and from a member.
  The checks of the dates of a resolution and of the end date of a request only refuse requests, so
  the request that is refused is one that is not made. In `IncidentLifecycle` closing does not look
  at tasks, which are in `IncidentTasks`; there, in turn, statuses other than `resolved` and
  `resolved_definitive` are one value, and `in_progress` tasks behave as `pending` ones.
* *Collaborations.* `Arrivals` are the rows of other incidents that an edition may bring here; an
  edition that takes a row to another incident is a deletion.
* *Trash and analysis.* The incident is a photo, the flag and the date. A PUT writes the flag as it
  likes, and as date the one it read or one of `FormDates`; a date in the future is not told apart
  from one of now. `forged` says that a form, since the last deletion, put the incident in the trash
  or dated it. Task messages are drawn from a finite set; an answer of the service is listed or not;
  `mirror` stands for the legacy columns filled from the first answer. The assistant is asked at
  most `Questions` times.
* *Calls.* Zones are the lists an edit may alternate between, categories are fixed; an incident is
  its zone and its category. Each of the five statements of the recording may raise, for whatever
  reason (`ProcessRaises`), and `swallowed` says that one did. The caller posts what he heard, and
  posts a form again when no answer comes (`Repeats`).
* *Team, members, accounts.* `Teamwork` lets every other handler write the incident and the
  collaborations arbitrarily between two statements, so that its results hold whatever they do. An
  assignment of an agent is a row of its own (`Rows`), whose agent, status and incident an edition
  may change; `byHand` are the rows that a manager's form was to make `reported`, or to change while
  they said so. `OrgMembers` is one organisation; "citizen" is everybody outside it. A form of `PUT
  /user/<id>` is a set of columns and their values (`Forms`), and `waived` says that one ended the
  obligation to change the PIN. `Account` draws each one-time code at most once and keeps ages
  instead of dates; of the secrets it keeps the PIN, the one-time code and the code of a reset, of
  which a guard or a property speaks, and not the password, which is only saved.
* *Lists.* Sets of incidents for a viewer; of a row only the columns that some list looks at. Rows
  have any status with any leader or none, since PUT writes both. Search by text, the order beside
  the date and the formatting of the answers are left out.

**Mutants.** Definitions whose comment begins "Faulty variant" are the code with one plausible
mistake; they are in no specification. `PROJECT.json` names for each property the variant that TLC
must find to break it.

## 3. The runs

Delays of the lifecycle are scaled down to `Warn75 = 1 < Warn90 = 2 < RevertAfter = 3` and a
validation delay of 1: each threshold is a distinct instant and can be passed unseen, and beyond the
last one the code tells nothing apart. In the same way the trash keeps an incident for one tick, and
a one-time code or a reset code is late one tick after it was asked for.

| Run | Bounds | Question | Result |
|---|---|---|---|
| `LifecycleRace` | 2 administrators, 1 web thread, 1 worker | what no interleaving of the handlers breaks, until a form of PUT (with the status `declared` or `resolved_definitive`; the run ends there, by `UntilOverride`) writes it: `FreeWhenDeclared`, `WarningsOrdered`, `DefinitiveWasSubmitted`, and the inductive invariant `IInv` | holds |
| `LifecycleFair` | 1 user, 1 web thread, 1 worker, 1 form of PUT (the status `in_validation`) | `TacitValidation`, `AntiGel` under `FairSpec` | holds |
| `CollabSerial` | 2 administrators, no overlap, 1 form of PUT (all columns: resolved for good, without leader), 1 leader's row elsewhere | refinement `FollowsWorkflow`; `LeaderRoleEarned`, `ClosedToNewcomers`, `LeavesNobodyBehind` | holds |
| `AssignFair` | 1 administrator, 1 assignment, organisations with and without administrator, no overlap, 1 form of PUT (the status `declared`) | `OrgTypeOK`, `AnswerStands`, `AcceptanceEngages`, `AssignmentAnswered` | holds |
| `TasksSerial` | 2 tasks, no overlap | `OutcomesJustified`, `ProgressAccurate`, `ConfirmationStands`, `CloseLeavesNoTask` | holds |
| `AssistFair` | requests and purge do not overlap each other, while 1 analysis at a time (2 messages, 1 retry) and 1 thread of the assistant (1 question) run beside them; PUT may put the incident in the trash with the date it has | `PredictionHasIncident`, `QuestionKept`, `GoneWhenDue`, `FinishedStands`; `TrashEmptied`, `AnalysisEnds` under `AnFairness` | holds |
| `IvrRepeats` | 2 threads, 1 repetition, 3 lists of zones of which one is empty, 2 categories | `AsHeard`, `ThankedHasIncident` | holds |
| `AccountOverlap` | 2 threads, 1 one-time code, 1 form of PUT (a field agent who need not change the PIN) | `AccountTypeOK`, `PinChosen`, `CodesInTime` | holds |
| `MembersSerial` | 1 thread, 3 users, 1 founder, 2 numbers | `OrgManageable` | holds |
| `TeamCrash` | 2 threads that die anywhere, 1 user, 1 assignment, 2 agents, a suggestion or an assignment but not both at once, everything else free | `SuggestionJoins`, `ReportedHasReport` | holds |
| `ScreensFree` | lists: 3 incidents, of which one takes every combination of columns a list looks at, 3 members of 2 organisations, a citizen, a super admin; pages: size 1; conversation: 3 messages, 2 writers, 2 dates, page sizes 0, 1 and 5 of at most 2 | `ListedOnce`, `MineAgrees`, `CollaborationsOpen`, `FiguresAddUp`, `PagesSkipNothing`, `HistoryWhole` | holds |
| `LifecycleOverride` | as `LifecycleRace`, no form | a rejection stands (`RejectionStands`) | violated |

`CHECK_DEADLOCK FALSE` stands where a system may stop because a bound is used up: calls that end,
codes that are drawn, members and partners who are all gone.

`LifecycleOverride` is the disagreement that `findings` in `PROJECT.json` quotes: the beat tasks
select, and save without looking again, so that a rejection that falls in between is lost, although
the code says of them that they act on eligible rows only (`tasks.py:154`).

**Why the bounds are enough to meet the hard cases.** In the lifecycle two users are the leader and
somebody else (heir, competitor, guest); a third would only repeat the second, since handlers speak
of "the user", "the leader" and "the others". One web thread and one worker give every interleaving
of a request with a beat task; two web threads make the state space of the race run too large for
TLC, and the properties of that run are proved for any number of threads instead. The properties of
the race are claimed until a form of PUT writes the columns, and the run ends there
(`UntilOverride`); what the inductive invariant says beyond is proved. In the other runs one form is
the least that breaks what it can break: a resolution for good out of nowhere, and without a leader,
for the workflow; a validation without deadline for `TacitValidation`; `declared` with a leader for
assignments. The theorems are about any forms and any number of them. The properties of the "no
overlap" runs are not claimed of overlapping handlers: several fail there, as `LifecycleOverride`
shows for one of them, and the hazards name the lines. One assignment suffices for what `AssignFair`
asks, which is about the life of one. Two tasks give every comparison of the counts that `Progress`
makes except the rounding, which the proof covers.

In `AssistFair` two messages are the report's and a relaunch's, the second being sent while the
first waits, runs, fails or is retried; `FinishedStands` is stated for one running task because the
start of a task is itself a read and a save, and for requests that do not overlap because a relaunch
that overtakes the report of an incident without photo is undone by that report. In `IvrRepeats` the
two threads are a form and its repetition. Zones may change after the caller pressed a digit
(`edited`), but then `AsHeard` claims nothing of the zone: the code chooses by position in the list
as it is at that moment. `ThankedHasIncident` claims nothing of a call in which an exception was
swallowed. The empty list is there because a caller may press a digit when no zone was offered. In
`AccountOverlap` the second thread is any request that saves the whole account over the first; one
code can be drawn, used, brought back by a copy and used again. The form makes an account a field
agent's and clears `must_change_pin`, which the serializer accepts: `PinChosen` claims nothing of an
account that was so waived. In `MembersSerial` three users are the administrator who is removed,
another and an office agent; with two threads two administrators do remove each other, which is why
the property speaks of requests that do not overlap. In `TeamCrash` two threads are two answers to
one suggestion, or a report and an edition of its assignment (`OneMatter` keeps the two apart: they
share the incident's row, which the rest of the system writes as it likes, and nothing else), and
two agents are the one an edition takes the assignment from and the one it gives it to; the theorems
cover any number. `LeaderRoleEarned` and `ClosedToNewcomers` are about the endpoints of the
lifecycle and of collaborations; the acceptance of a suggestion, which brings a partner in with the
role suggested, and the discussion, which makes a leader of who took the incident, are in
`Teamwork`. In `ScreensFree` page size 1 with three incidents makes every page a boundary; the three
kinds of behaviour (`watching`) share no state.

**Fairness.** Beat sends every task periodically and Celery restarts a worker that dies, so the
selection of a row by a task is strongly fair (it is disabled while the slot works on something
else), and so is the save that follows, because the worker does not die at the same statement for
ever. A request that started ends, by its next statement or by dying (weak fairness of the
disjunction: a web thread is never promised to finish). Workers take what is queued, and the client
of the model service has a timeout, so each step of an analysis is weakly fair; a message the broker
lost or a worker that died is not redone by anything, and `AnalysisEnds` says so (`lost`). Time
passes, and so does a deadline. No request is ever assumed to be made: the liveness properties rest
on beat and on messages already sent.

**Disagreements that no run shows.** Met while modelling, beside the finding above; each is modelled
as the code has it, except those that concern what is not modelled (Section 5).

* For the same reason the anti-freeze task returns to `declared` an incident that its leader has
  moved on since the selection (`tasks.py:230`).
* `IncidentSerializer` leaves every column but the progress writable (`serializer.py:298`), so that
  a PUT (`incident.py:293`) gives any status, `resolved_definitive` included, which the diagram at
  `incident.py:2046` gives to the validation alone; and a PUT of `is_deleted` puts an incident in
  the trash with the date that a restoration has left there, so that the next purge takes it
  although it has not been there "plus de 30 jours" (`tasks.py:288`).
* `CollaborationSerializer` leaves `incident` writable (`serializer.py:606`): an edition gives a
  leader's row to another incident, although the role is "exclusivement" that of who takes it
  (`serializer.py:616`).
* A contributor is to be accepted at once where nobody leads (`collaboration.py:317`); with no
  leader there is nobody to notify, and the signal deletes the collaboration (`signals.py:246`).
* Any exception of the account or the incident of a call is swallowed (`ivr_views.py:379`), and the
  caller is told that the incident was registered (`ivr_views.py:384`).
* `HandleIncidentView` takes an incident without `taken_in_charge_at` (`incident.py:1714`), so the
  anti-freeze clock of `models.py:657` never starts, and resolves it with open tasks although
  `serializer.py:309` and the close endpoint look at them.
* The return to `declared` leaves the leader's collaboration `accepted` (`tasks.py:230`), which
  `permissions.py:64` takes for leadership.
* Reports count as verified, "= pris en compte par une org (etat ≠ 'declared')" (`impact.py:270`),
  but a PUT gives any status to an incident that no organisation has taken, and `declared` to one
  that is led.
* Contributors who are offered the leadership cannot accept it: the answer is the leader's
  (`incident.py:2244` against the comment at 2243).
* `if not self.pk` (`models.py:1276`) is never true with a UUID key, so that a leader's task is not
  confirmed at once as `task.py:44` expects.
* The check of the 100 m around the incident (`serializer.py:840`) never runs, since the incident is
  read-only in the form.
* `OrganisationDetailView` filters on a column `status` that does not exist (`organisation.py:304`).
* The trash docstring (`incident.py:61`) says that lists leave deleted incidents out; filter,
  search, "my incidents", and the figures by month and week do not.
* The map counts `in_validation` as resolved, the dashboard as active.
* A super admin who posts to a discussion meets an unbound name (`message.py:585`), and a discussion
  stays open after `resolved_definitive` (`message.py:569`).
* Deleting a collaboration deletes its author's messages with it (`models.py:1193`).
* A page of an offset-paged list skips an incident when another one leaves the list while it is
  read.
* A PATCH that makes a member a field agent draws a code but no PIN (`organisation.py:872`).

## 4. The proofs

`tlapm` checks every proof with Z3, Zenon and LS4. Every safety invariant and every action property
of a passing run is stated by a theorem, for every value of the constants.

**The argument.** What the code guarantees is seldom inductive, because a handler carries a copy of
the row and a list of statements it has still to execute. Three kinds of strengthening recur:

* of what holds *however handlers overlap*, the invariant asks the same of every copy that a slot
  may still save (`RowInv`, `CopiesRead`, `Chosen`), and of each pending operation what its
  statement relies on and nobody can take away (`JobInv`, `Justified`, `JobTyped`);
* of what holds only *when they do not overlap*, the invariant says that what a slot has read is
  still true (`Current`, `Foreseen`, `UpToDate`, `SlotReads`, `Warranted`). The theorem then assumes
  that there is one slot (`OneSlot`), one thread (`OneThread`) or one web thread beside the workers
  (`OneWeb`). Without it the property is false, as the hazards of `PROJECT.json` say line by line;
* an action property follows from the invariant and the one statement that could break it.

**The theorems**, by module. *Any overlap* means any number of threads and workers.

* `IncidentLifecycle_proofs`. *Any overlap:* `Invariance` (`IInv`), and from it `TypeCorrect`,
  `DeclaredIsFree`, `WarningsInOrder`, `DefinitiveMeansSubmitted`. `ReadForKeeps`, `SaveKeeps` and
  `WriteKeeps` say what a read, a save of the incident and a write of the collaborations need to
  keep `IInv`; the other lemmas apply them action by action. *`OneSlot`:* `Implements`, the
  refinement of `IncidentWorkflow`, from `SerialInv`, which adds `Current` to `IInv`. A form of PUT
  is a step `Override` of the workflow: what it wrote is not the handlers' doing, but they read it,
  and follow the workflow from there. For the same reason the invariant speaks of rows and copies
  only while `overrides = 0`, and `Current` relates what a slot read to the row as it is.
* `Coordination_proofs`. *Any overlap:* `IInv` survives both compositions (`CollabInvariance`,
  `OrgInvariance`), and with it the race-proof properties (`CollabSafe`, `OrgSafe`); `OrgTypes`,
  because a slot that is about to answer holds an assignment that was made (`OrgInv`). *`OneSlot`:*
  - `CollabInv` adds `Foreseen` to `SerialInv`: who is about to be admitted asks for a role that is
    not the leader's, of an incident that is not closed; an edit makes no leader of somebody who was
    not; who reopens an incident leaves nobody accepted behind. From it `CollabImplements`,
    `NobodyLeftBehind`, `LeadershipEarned` and `ClosedStaysClosed`. Admission is one lemma,
    `NextAdmits`: which step may create a collaboration or make it a leader's, and when.
  - `AnswersAreFinal`: the assignment that is about to be answered is still pending
    (`OrgSerialInv`).
  - `AcceptanceCounts`: the incident is still what the acceptance read, and who accepted is of the
    organisation (`EngageInv`).
* `IncidentTasks_proofs`. *Any overlap:* `Justified`, and `TypeCorrect`, whose only hard part is
  that the rounded share of done tasks is between 0 and 100 (`PercentBound`), from cardinalities of
  finite sets. *`OneThread`:* `ProgressIsRight`, `ConfirmationsKept` and `ClosedHasNoOpenTask`: the
  status, the task, the progress and the absence of open tasks that a handler read are those it
  saves for (`UpToDate`).
* `Assistant_proofs`. *Any overlap:* `AnalysisTypeCorrect`; `PredictionBelongs`, for a worker that
  started its task holds a prediction (`CopiesRead`) and saves it where there is still one;
  `AssistantKeepsAnalysis`, which says that the assistant's steps are steps or stutters of the
  analysis, so that the others hold beside it; `QuestionsKept`, since each call of the service has a
  stored question that nobody has answered (`AskedFirst`), counted before every message. *`OneWeb`
  and `Concurrency = 1`:* `FinishedAnalysisStands`: a task that runs is alone, none runs on a
  finished analysis (`FinishedIdle`), and the report comes before everything else (`StandsInv`).
  *`OneSlot`:* `IncidentGoesWhenDue`: unless a form dated it (`forged`), the date that the purge
  reads is never older than the stay in the trash (`DateStarts`), and what a slot read of the
  incident still holds (`SlotReads`).
* `Account_proofs`. *Any overlap:* `AccountTypeCorrect`: what a request has still to do is the rest
  of what one of them does, whoever saves a row has read one, and whoever marks a reset code finds
  it (`TypeInv`). `AccountInvariance`, `DrawnPinForced` and `CodeInTime`, for any forms of PUT:
  until one waives it a drawn PIN must be changed, and the age of a code is the time since it was
  sent, in the row and in every copy.
* `OrgMembers_proofs`. *Any overlap:* `MembersTypeCorrect`. *`OneThread`:* `Manageable`: a request
  that is about to demote or remove an administrator leaves another one, or leaves him what he is
  (`Warranted`). Founders, accounts and numbers are any.
* `Screens_proofs`. *Any overlap:*
  - `HistoryIsWhole`: the cursor divides (`Divides`) what is shown from what is owed; identifiers
    being unique, the order of dates and identifiers is total, so a page leaves no gap.
  - `PagesAreWhole`: ahead of an incident that was not seen yet there are at least as many others as
    the pages already read hold (`StillAhead`). The property claims nothing once an incident has
    left the list, or has come between the two queries of the last page.
  - `ListsPartition`, `InterventionsAgree`, `ListedCollaborationsOpen` and `FiguresAgree`:
    consequences of the definitions of lists and figures for rows of any content (`RowsTyped`), of
    any number.
  - `ScreensAreBoth`: the screens refine the lists and the conversation.
  - `CallTypeCorrect`, `CallAsHeard` and `ThanksDeserved`: the call and every copy of it say what
    the caller chose or nothing, who is at a later step has a call, nobody is asked twice, and a
    recording that was answered has opened its incident or swallowed an exception (`CallInv`).
* `Teamwork_proofs`. *Any overlap, whoever dies and whatever the rest of the system writes:*
  `TeamInvariance`, `SuggestionAccepted` and `ReportFiled`: a request about to write `accepted` has
  joined its partner; an assignment, and what a request is about to save over it, is backed by a
  report of the agent it names or by a manager's word (`Justified`); `About` says whom each request
  may be about.

**Assumptions.** Those named in the modules: administrators are users, NULL is no value of a column,
delays are increasing, tasks, incidents, messages and members are finitely many, members of
organisations are not citizens, lists are numbered. TLC evaluates them in each run. The others are
hypotheses of the theorem that needs them, as above; the run of the property satisfies them.

**Only model-checked.** The liveness properties (`TacitValidation`, `AntiGel`, `AssignmentAnswered`,
`TrashEmptied`, `AnalysisEnds`), which rest on fairness and so on ENABLED, out of the prover's
reach. `RejectionStands` is violated, and no theorem says otherwise. `IvrTypeOK`, `AnTypeOK`,
`MembersTypeOK`, `TeamTypeOK` and the `TypeOK`s are proved and in no run of their own; `IInv` is
both.

**What the proofs showed.** `AsHeard` was once written with a history variable that was set only
when zones had been offered; the proof of `CallAsHeard` stopped at a caller who presses a digit
while there is no zone, and is then given the first that is created. `FinishedStands` needed
requests that do not overlap: the case is the report that relaunching overtakes, in Section 3.
`QuestionKept` is inductive only with a count that includes the questions the service is working on.

## 5. Not modelled, and plan

Not modelled: notifications, e-mails and WebSocket (outputs, no decision reads them back); the
create-read-update-delete of zones, categories, contacts, events and the other independent
resources; e-mail login and token refresh, which keep no state of the repository's own; attachments
and the marks of what has been read; the figures by month, week and zone; configuration, admin pages
and templates. Within modelled components: the end date of a request, deadlines of agents'
assignments, the deletion of an account that leads an incident (`SET_NULL` on `taken_by`), and logos
and descriptions of organisations.

What is left, in this order:

1. What survives two web threads. Two super admins who assign at once are two slots in
   `OrgAssignment`; of the properties proved under `OneSlot` and `OneThread`, those that need only
   that some pairs of handlers do not overlap can be stated with that weaker hypothesis.
2. The refinement of `IncidentWorkflow` by `OrgAssignment`, where an acceptance takes the incident
   for an organisation.
3. The deletion of accounts, across `OrgMembers`, the lifecycle and `Teamwork`.
