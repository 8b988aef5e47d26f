--------------------------- MODULE MCCollaboration ---------------------------
(* Instances of Collaboration for TLC. *)
EXTENDS Collaboration, TLC

\* Members with the same role can be exchanged.
Symmetry == Permutations(Admins) \cup Permutations(Users \ Admins)

\* A form of PUT that carries all of the workflow's columns.
Form(values) == [carries |-> Columns, values |-> values]
Blank == [etat |-> "declared", takenBy |-> NoUser, mode |-> None, age |-> None,
          w75 |-> FALSE, w90 |-> FALSE, left |-> None]
\* A leader of another incident.
OtherRows == {[role |-> "leader", status |-> "accepted"]}
SerialForms == {Form([Blank EXCEPT !.etat = "resolved_definitive"])}
=============================================================================
