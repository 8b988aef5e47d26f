------------------------------- MODULE MCIvrCall -------------------------------
(* Instances of IvrCall for TLC: two zones, which edits may remove and create again. *)
EXTENDS IvrCall, TLC

CONSTANTS north, south, waste, fire

ThreeLists == {<<north, south>>, <<south>>, <<>>}
TwoCategories == <<waste, fire>>
\* Threads can be exchanged.
Symmetry == Permutations(Threads)
=============================================================================
