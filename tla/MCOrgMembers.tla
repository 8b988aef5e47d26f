----------------------------- MODULE MCOrgMembers -----------------------------
(* Instances of OrgMembers for TLC. *)
EXTENDS OrgMembers, TLC

\* Accounts that do not found the organisation can be exchanged, and numbers.
Symmetry == Permutations(Users \ Founders) \cup Permutations(Phones)
=============================================================================
