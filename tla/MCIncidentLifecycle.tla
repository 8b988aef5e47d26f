------------------------- MODULE MCIncidentLifecycle -------------------------
(* Instances of IncidentLifecycle for TLC. *)
EXTENDS IncidentLifecycle, TLC

\* Administrators can be exchanged (not in runs with liveness).
Symmetry == Permutations(Admins)

\* Forms of PUT that carry one of the workflow's columns.
Form(c, values) == [carries |-> {c}, values |-> values]
Blank == [etat |-> "declared", takenBy |-> NoUser, mode |-> None, age |-> None,
          w75 |-> FALSE, w90 |-> FALSE, left |-> None]
StatusForms == {Form("etat", [Blank EXCEPT !.etat = e]) :
                    e \in {"declared", "resolved_definitive"}}
FairForms == {Form("etat", [Blank EXCEPT !.etat = "in_validation"])}

\* What a form has written is looked at, and not what follows from it.
UntilOverride == overrides = 0
=============================================================================
