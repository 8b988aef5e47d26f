------------------------------- MODULE MCScreens -------------------------------
(* Instances of Screens for TLC. *)
EXTENDS Screens, TLC

CONSTANTS a, g, b, citizen, admin, A, B
ASSUME Members = {a, g, b} /\ Others = {citizen, admin} /\ Orgs = {A, B}

\* An office agent and a field agent of A, an office agent of B.
MCOrgOf == a :> A @@ g :> A @@ b :> B @@ citizen :> None @@ admin :> None

Declared(p) == [etat |-> "declared", deleted |-> FALSE, leader |-> None, mode |-> None,
                reporter |-> p, assigned |-> {}, agents |-> {}, acted |-> FALSE, analysed |-> FALSE,
                collab |-> [u \in Members |-> None]]
Taken(etat, u, mode) == [Declared(citizen) EXCEPT !.etat = etat, !.leader = u, !.mode = mode]

\* What the lists look at: for one status every combination of mode and people, and
\* every status, declared under a leader or taken by a citizen too (PUT allows both).
MCFirstRows ==
    {[Declared(p) EXCEPT !.assigned = o, !.agents = s, !.deleted = d] :
       p \in {citizen, g}, o \in {{}, {A}}, s \in {{}, {g}}, d \in BOOLEAN}
    \cup {[Taken("in_progress", u, mode) EXCEPT !.reporter = p, !.assigned = o, !.agents = s,
                                                !.collab[a] = c] :
            u \in {a, b}, mode \in {"internal", "collaborative"},
            p \in {citizen, g}, o \in {{}, {A}}, c \in {None, "pending", "accepted"}, s \in {{}, {g}}}
    \cup {[Taken(etat, u, mode) EXCEPT !.acted = done, !.analysed = ~done,
                                    !.collab[b] = "accepted"] :
            etat \in Etats, u \in {a, b, citizen},
            mode \in {"internal", "collaborative"}, done \in BOOLEAN}
\* A report by a field agent, and an incident that B has resolved.
MCRows == {Declared(g), Taken("resolved", b, "collaborative")}

\* Requests and authors of messages can be exchanged.
Symmetry == Permutations(Writers) \cup Permutations(People)
=============================================================================
