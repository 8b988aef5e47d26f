----------------------------- MODULE IncidentState -----------------------------
(***************************************************************************)
(* The state the incident endpoints, the collaboration endpoints and the    *)
(* Celery beat tasks of the Map Action API share: the row of one incident   *)
(* in the table `Incident`, its rows in the table `Collaboration`, and what *)
(* each request or task in flight has read and has still to write.          *)
(*                                                                         *)
(* The database is in autocommit mode and no handler locks a row: a handler *)
(* reads the incident, checks its guards on that copy, and later writes the *)
(* columns of `update_fields` (or every column, when it calls `save()` bare) *)
(* over whatever the row has become.  Every handler is therefore a read     *)
(* action followed by one action per statement that commits, run by a       *)
(* `slot`: a thread of the web server or a process of the Celery worker.    *)
(* A slot may die between two statements.  A single slot that does both     *)
(* kinds of work is the system in which no two handlers overlap.            *)
(*                                                                         *)
(* Time is kept as ages: `age` is now - taken_in_charge_at and `left` is    *)
(* validation_deadline - now, in ticks, each stopping at the value past     *)
(* which the code no longer tells two instants apart.                       *)
(***************************************************************************)
EXTENDS Naturals

CONSTANTS
    Users,              \* the operative members of organisations
    Admins,             \* those who are org_admin; the others are office agents
    NoUser,             \* SQL NULL in taken_by
    None,               \* SQL NULL in the other columns; no snapshot in a slot
    Web,                \* the slots that run requests
    Workers,            \* the slots that run beat tasks
    Warn75, Warn90,     \* 75 % and 90 % of the anti-freeze delay
    RevertAfter,        \* the anti-freeze delay of the incident's severity
    ValidationDelay,    \* the 72 hours a super admin has to decide
    Forms,              \* what forms of PUT /incident/<id> carry of the workflow's columns
    MaxOverrides        \* bound: how many such forms are saved

ASSUME UsersAssumption == Admins \subseteq Users /\ NoUser \notin Users
ASSUME DelaysAssumption ==
    /\ Warn75 \in Nat \ {0} /\ Warn90 \in Nat
    /\ RevertAfter \in Nat /\ ValidationDelay \in Nat \ {0}
    /\ Warn75 < Warn90 /\ Warn90 < RevertAfter
VARIABLES
    row,        \* the incident's columns
    collab,     \* the collaboration of each user on the incident, if any
    job,        \* what each slot has read and has still to write
    submitted,  \* history: an organisation has declared the incident resolved
    overrides   \* history: the forms saved that wrote columns of the workflow

vars == <<row, collab, job, submitted, overrides>>
Slots == Web \cup Workers

-----------------------------------------------------------------------------
(* Types.                                                                  *)

Etats == {"declared", "in_progress", "taken_into_account", "resolution_prepared",
          "in_validation", "resolved", "resolved_definitive"}

Row == [etat    : Etats,
        takenBy : Users \cup {NoUser},
        mode    : {None, "internal", "collaborative"},
        age     : (0 .. RevertAfter) \cup {None},
        w75     : BOOLEAN,
        w90     : BOOLEAN,
        left    : (0 .. ValidationDelay) \cup {None}]

ASSUME NoneAssumption == None \notin Nat \cup {"internal", "collaborative"} \cup Row

\* The serializer of a PUT exposes every column but the progress, and checks nothing of the
\* workflow: a form carries any of the columns, with any values.
Columns == {"etat", "takenBy", "mode", "age", "w75", "w90", "left"}
ASSUME FormsAssumption == /\ Forms \subseteq [carries : SUBSET Columns, values : Row]
                          /\ MaxOverrides \in Nat

Roles == {"leader", "contributor", "observer"}
Statuses == {"pending", "accepted", "declined", "terminated"}
NoCollab == [role |-> "none", status |-> "none"]
Collab == [role : Roles, status : Statuses] \cup {NoCollab}

\* What a slot may be about to do, for which user's collaboration, the values it
\* is to have, and the incident that was read when a later statement depends on it.
Ops == {"idle", "take_internal", "add_leader", "take_leader", "create_leader",
        "reset_contributors", "join", "cancel", "cancel_open", "open",
        "handle_take", "handle_resolve", "edit", "override", "close", "prepare", "return",
        "declare", "validate", "reject", "terminate", "disengage", "share", "offer",
        "leave", "release", "reopen", "auto_validate", "revert", "warn90", "warn75",
        "request", "replace", "bulk", "rewrite", "move", "delete",
        "assign", "accept", "decline", "accept_tacitly", "engage", "engage_tacitly"}
Job == [op : Ops, user : Users \cup {NoUser}, new : Collab, snap : Row \cup {None}]
Idle == [op |-> "idle", user |-> NoUser, new |-> NoCollab, snap |-> None]

\* An incident just reported.  A POST may carry the columns of the workflow as a PUT may: it is
\* the POST without them followed by that PUT.
Init == /\ row = [etat |-> "declared", takenBy |-> NoUser, mode |-> None, age |-> None,
                  w75 |-> FALSE, w90 |-> FALSE, left |-> None]
        /\ collab = [u \in Users |-> NoCollab]
        /\ job = [s \in Slots |-> Idle]
        /\ submitted = FALSE /\ overrides = 0

-----------------------------------------------------------------------------
(* Slots.                                                                  *)

At(s, op) == job[s].op = op

\* A handler that passed its guards and has written nothing yet.
ReadFor(s, op, u, new, snap) ==
    /\ job[s] = Idle
    /\ job' = [job EXCEPT ![s] = [op |-> op, user |-> u, new |-> new, snap |-> snap]]
    /\ UNCHANGED <<row, collab, submitted, overrides>>
Read(s, op, u, snap) == ReadFor(s, op, u, NoCollab, snap)

\* The handler's next statement; with none left, the slot is free.
Goto(s, op) == job' = [job EXCEPT ![s] = IF op = "idle" THEN Idle ELSE [@ EXCEPT !.op = op]]

\* A save of the incident, and a write of the collaboration table.
Save(s, new, op) == row' = new /\ Goto(s, op) /\ UNCHANGED <<collab, submitted, overrides>>
Write(s, new, op) == collab' = new /\ Goto(s, op) /\ UNCHANGED <<row, submitted, overrides>>

\* Of the incident these handlers keep, only status, leader and mode matter later.
Copy == [row EXCEPT !.age = None, !.w75 = FALSE, !.w90 = FALSE, !.left = None]

Accepted(u, role) == collab[u] = [role |-> role, status |-> "accepted"]
IsIncidentLeader(u) == Accepted(u, "leader") \/ row.takenBy = u

\* Collaboration.objects.create, by three handlers.  A row the user already has
\* makes the unique constraint fail the request.  When the incident that was read
\* has no leader there is nobody to notify and the post_save signal cancels the row.
Create(s, opensMode) ==
    LET u == job[s].user IN
    \/ collab[u] # NoCollab /\ Write(s, collab, "idle")
    \/ /\ collab[u] = NoCollab /\ job[s].snap.takenBy = NoUser
       /\ Write(s, [collab EXCEPT ![u] = job[s].new], IF opensMode THEN "cancel_open" ELSE "cancel")
    \/ /\ collab[u] = NoCollab /\ job[s].snap.takenBy # NoUser
       /\ Write(s, [collab EXCEPT ![u] = job[s].new], IF opensMode THEN "open" ELSE "idle")
CancelCreated(s) ==
    /\ job[s].op \in {"cancel", "cancel_open"}
    /\ Write(s, [collab EXCEPT ![job[s].user] = NoCollab],
             IF At(s, "cancel_open") THEN "open" ELSE "idle")
\* Switching the incident to collaborative mode, as a statement of its own.
OpenMode(s) == At(s, "open") /\ Save(s, [row EXCEPT !.mode = "collaborative"], "idle")

-----------------------------------------------------------------------------
(* Time and crashes.                                                       *)

Later(r) == [r EXCEPT !.age = IF @ = None \/ @ = RevertAfter THEN @ ELSE @ + 1,
                      !.left = IF @ = None \/ @ = 0 THEN @ ELSE @ - 1]
Tick == /\ row' = Later(row)
        /\ job' = [s \in Slots |-> IF job[s].snap = None THEN job[s]
                                   ELSE [job[s] EXCEPT !.snap = Later(@)]]
        /\ UNCHANGED <<collab, submitted, overrides>>

\* A killed process or a broken connection: the statements still to come are lost.
Crash(s) == job[s] # Idle /\ Goto(s, "idle") /\ UNCHANGED <<row, collab, submitted, overrides>>

-----------------------------------------------------------------------------
\* The columns, the collaborations and every slot stay in their domains.
TypeOK == /\ row \in Row
          /\ collab \in [Users -> Collab]
          /\ job \in [Slots -> Job]
          /\ submitted \in BOOLEAN /\ overrides \in Nat
=============================================================================
