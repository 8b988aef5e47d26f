--------------------------- MODULE MCOrgAssignment ---------------------------
(* Instances of OrgAssignment for TLC. *)
EXTENDS OrgAssignment, TLC

\* Assignments can be exchanged (not in runs with liveness).
Symmetry == Permutations(Assignments)

\* Forms of PUT that carry one of the workflow's columns.
Form(c, values) == [carries |-> {c}, values |-> values]
Blank == [etat |-> "declared", takenBy |-> NoUser, mode |-> None, age |-> None,
          w75 |-> FALSE, w90 |-> FALSE, left |-> None]
AssignForms == {Form("etat", Blank)}
=============================================================================
