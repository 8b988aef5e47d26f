---------------------------- MODULE MCIncidentTasks ----------------------------
(* Instances of IncidentTasks for TLC. *)
EXTENDS IncidentTasks, TLC

\* Tasks can be exchanged.
Symmetry == Permutations(Tasks)
=============================================================================
