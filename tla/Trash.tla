--------------------------------- MODULE Trash ---------------------------------
(***************************************************************************)
(* The existence of one incident: the report that creates it, the trash a   *)
(* super admin moves it to and brings it back from, and the daily purge of   *)
(* what has been in the trash for more than 30 days.                        *)
(*                                                                         *)
(* As everywhere a handler reads the row and saves some of its columns, or   *)
(* all of them, in a later statement.  Saving all the columns of a row that  *)
(* was deleted meanwhile inserts it again; saving some of them fails.        *)
(***************************************************************************)
EXTENDS Naturals

CONSTANTS Web,          \* the threads of the web server
          Beat,         \* the worker processes that run the purge
          Kept,         \* the 30 days the trash keeps an incident
          None,         \* no row, SQL NULL, no copy
          FormDates     \* what forms of PUT may write in deleted_at

ASSUME KeptAssumption == Kept \in Nat

VARIABLES incident,     \* the row, as far as its existence and analysis depend on it
          reported,     \* history: the report has been made
          binned,       \* history: for how long the incident has been in the trash
          forged,       \* history: a form put it there or dated it, not the trash's endpoints
          job           \* what each slot has read and has still to write

trashVars == <<incident, reported, binned, forged, job>>
Slots == Web \cup Beat

\* deleted_at is kept as the time since; past Kept two dates are no longer told apart.
Ages == 0 .. Kept + 1
Row == [photo : BOOLEAN, deleted : BOOLEAN, since : Ages \cup {None}]
ASSUME NoneAssumption == None \notin Nat \cup Row
ASSUME FormDatesAssumption == FormDates \subseteq Ages \cup {None}

Ops == {"idle", "report", "predict", "enqueue", "relaunch",
        "delete", "restore", "put", "destroy", "purge"}
Job == [op : Ops, copy : Row \cup {None}]
Idle == [op |-> "idle", copy |-> None]
At(s, op) == job[s].op = op
Goto(s, op) == job' = [job EXCEPT ![s] = IF op = "idle" THEN Idle ELSE [@ EXCEPT !.op = op]]

TrashInit == /\ incident = None /\ reported = FALSE /\ binned = None /\ forged = FALSE
             /\ job = [s \in Slots |-> Idle]

Exists == incident # None
InTrash == Exists /\ incident.deleted
\* The purge's filter; an incident trashed before the column existed has no date.
Expired == InTrash /\ incident.since # None /\ incident.since > Kept

-----------------------------------------------------------------------------
\* A handler that has read `copy` and passed its guards.
Begin(s, op, copy) ==
    /\ job[s] = Idle
    /\ job' = [job EXCEPT ![s] = [op |-> op, copy |-> copy]]
    /\ UNCHANGED <<incident, reported, binned, forged>>

\* A statement that makes the row `new`; the history follows.
Stored(new) ==
    /\ incident' = new
    /\ binned' = IF new = None \/ ~new.deleted THEN None
                 ELSE IF binned = None THEN 0 ELSE binned
    /\ UNCHANGED reported

\* POST /incident/: the form is valid; what follows its first save is in Analysis.  A form
\* that carries the columns of the trash is the POST without them followed by that Put.
Report(s, photo) ==
    ~reported /\ Begin(s, "report", [photo |-> photo, deleted |-> FALSE, since |-> None])
ReportSave(s) ==
    /\ At(s, "report") /\ ~reported
    /\ incident' = job[s].copy /\ reported' = TRUE /\ binned' = None /\ forged' = FALSE
    /\ Goto(s, "predict")

\* DELETE /incident/<id> dates an incident that is in the trash again; the bulk
\* endpoint leaves it alone.
DeleteIncident(s) == Exists /\ Begin(s, "delete", incident)
BulkDelete(s) == Exists /\ ~incident.deleted /\ Begin(s, "delete", incident)
\* One by one or in bulk.
Restore(s) == InTrash /\ Begin(s, "restore", incident)
ForceDelete(s) == InTrash /\ Begin(s, "destroy", incident)
\* PUT /incident/<id> saves every column of the row it read and of the form, is_deleted and
\* deleted_at among them; a multipart form that does not mention is_deleted clears it.
Put(s, photo, deleted, since) ==
    Exists /\ Begin(s, "put", [photo |-> photo, deleted |-> deleted, since |-> since])

\* The beat task selects what it will delete, and deletes it, whatever it has become,
\* in one transaction.
\* Faulty variant: only what expires on that very day is purged.
PurgeOnTheDay(s) == InTrash /\ incident.since = Kept /\ Begin(s, "purge", incident)
PurgeSelect(s) == Expired /\ Begin(s, "purge", incident)

\* Some columns of a row, if it is still there (otherwise the save raises).
Columns(new) == IF Exists THEN new ELSE None
Trashing(r) == IF r = None THEN <<FALSE, None>> ELSE <<r.deleted, r.since>>
PutSave(s) ==
    /\ At(s, "put") /\ Stored(job[s].copy)
    /\ forged' = (forged \/ (job[s].copy.deleted /\ Trashing(job[s].copy) # Trashing(incident)))
\* Faulty variant: the date of an earlier stay in the trash is kept.
TrashSaveKeepsDate(s) ==
    /\ \/ /\ At(s, "delete") /\ forged' = FALSE
          /\ Stored(Columns([incident EXCEPT !.deleted = TRUE,
                                              !.since = IF @ = None THEN 0 ELSE @]))
       \/ At(s, "restore") /\ Stored(Columns([incident EXCEPT !.deleted = FALSE])) /\ UNCHANGED forged
       \/ PutSave(s)
       \/ job[s].op \in {"destroy", "purge"} /\ Stored(None) /\ UNCHANGED forged
    /\ Goto(s, "idle")
TrashSave(s) ==
    /\ \/ /\ At(s, "delete") /\ forged' = FALSE
          /\ Stored(Columns([incident EXCEPT !.deleted = TRUE, !.since = 0]))
       \/ At(s, "restore") /\ Stored(Columns([incident EXCEPT !.deleted = FALSE])) /\ UNCHANGED forged
       \/ PutSave(s)
       \/ job[s].op \in {"destroy", "purge"} /\ Stored(None) /\ UNCHANGED forged
    /\ Goto(s, "idle")

Crash(s) == job[s] # Idle /\ Goto(s, "idle") /\ UNCHANGED <<incident, reported, binned, forged>>

Older(age) == IF age = None \/ age > Kept THEN age ELSE age + 1
Aged(r) == IF r = None THEN None ELSE [r EXCEPT !.since = Older(@)]
Tick == /\ incident' = Aged(incident) /\ binned' = Older(binned)
        /\ job' = [s \in Slots |-> [job[s] EXCEPT !.copy = Aged(@)]]
        /\ UNCHANGED <<reported, forged>>

TrashRequests(s) ==
    \/ \E photo \in BOOLEAN : Report(s, photo)
    \/ Exists /\ \E photo, d \in BOOLEAN, since \in FormDates \cup {incident.since} : Put(s, photo, d, since)
    \/ DeleteIncident(s) \/ BulkDelete(s) \/ Restore(s) \/ ForceDelete(s)

-----------------------------------------------------------------------------
(* Properties.                                                             *)

TrashTypeOK == /\ incident \in Row \cup {None} /\ reported \in BOOLEAN
               /\ binned \in Ages \cup {None} /\ forged \in BOOLEAN
               /\ job \in [Slots -> Job]

\* When the purge and requests do not overlap, an incident only disappears because a
\* super admin destroys it in the trash or because the purge finds it there; and it has
\* lain there for all of the 30 days, although restoring it leaves the date of its deletion,
\* unless a form of PUT, since its last deletion, put it in the trash or wrote that date.
Purging == \E s \in Beat : At(s, "purge")
GoneWhenDue ==
    [][Exists /\ incident' = None =>
         incident.deleted /\ (Purging /\ ~forged => binned > Kept)]_trashVars

\* What has expired does not stay: it is purged, restored or deleted anew.
TrashEmptied == Expired ~> ~Expired

=============================================================================
