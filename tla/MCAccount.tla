------------------------------- MODULE MCAccount -------------------------------
(* Instances of Account for TLC. *)
EXTENDS Account, TLC

\* Threads can be exchanged.
Symmetry == Permutations(Threads)

\* A form that makes an account an agent's and ends the obligation to change the PIN.
OneForm == {[carries |-> {"role", "forced"}, values |-> Fresh("field")]}
=============================================================================
