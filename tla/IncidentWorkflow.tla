--------------------------- MODULE IncidentWorkflow ---------------------------
(***************************************************************************)
(* What the endpoints' documentation promises of an incident: its status   *)
(* and its leader change together, by the steps of the workflow and by no  *)
(* others.  A handler is one atomic step here.  A form of PUT may write both *)
(* as it likes; the handlers follow the workflow before and after.           *)
(***************************************************************************)
EXTENDS Naturals

CONSTANTS Users, NoUser
VARIABLES etat, leader,
          overrides     \* the forms that wrote them

\* The steps of the resolution file; none of them touches the leader.
Moves == { <<"taken_into_account", "resolution_prepared">>,     \* prepare
           <<"resolution_prepared", "taken_into_account">>,     \* return
           <<"taken_into_account", "in_validation">>,           \* declare resolved
           <<"resolution_prepared", "in_validation">>,          \* declare resolved
           <<"in_validation", "taken_into_account">>,           \* reject
           <<"in_validation", "resolved_definitive">> }         \* validate, or 72 hours

Init == etat = "declared" /\ leader = NoUser /\ overrides = 0

Take(u) == /\ etat = "declared" /\ (leader = NoUser \/ overrides > 0)
           /\ etat' = "taken_into_account" /\ leader' = u
\* Taking over an incident whose leader has left.
Lead(u) == /\ etat \notin {"declared", "resolved"} /\ leader = NoUser
           /\ leader' = u /\ UNCHANGED etat
Move == <<etat, etat'>> \in Moves /\ UNCHANGED leader
\* The leader leaves, or loses the incident by the anti-freeze rule.
Leave == /\ etat = "taken_into_account"
         /\ etat' \in {"taken_into_account", "declared"} /\ leader' = NoUser
\* Closing without validation, and the two statuses that PUT is meant for.
Close == etat # "resolved" /\ etat' = "resolved" /\ UNCHANGED leader
Put == etat' \in {"in_progress", "resolved"} /\ UNCHANGED leader
Step == (\E u \in Users : Take(u) \/ Lead(u)) \/ Move \/ Leave \/ Close \/ Put

Etats == {"declared", "in_progress", "taken_into_account", "resolution_prepared",
          "in_validation", "resolved", "resolved_definitive"}
Override == /\ overrides' = overrides + 1
            /\ etat' \in Etats /\ leader' \in Users \cup {NoUser}

Next == \/ Step /\ UNCHANGED overrides
        \/ Override

Spec == Init /\ [][Next]_<<etat, leader, overrides>>
=============================================================================
