------------------------------ MODULE MCTeamwork ------------------------------
(* Instances of Teamwork for TLC. *)
EXTENDS Teamwork, TLC

CONSTANTS w1, w2, a, g, h, A, B
ASSUME Threads = {w1, w2} /\ Users = {a} /\ Agents = {g, h} /\ Orgs = {A, B}

\* An administrator who may lead, speak and be suggested (the super admin answers too),
\* and two field agents of the same organisation; the incident was reported by a citizen.
MCOrgOf == a :> A @@ g :> A @@ h :> A
MCSymmetry == Permutations(Threads) \cup Permutations(Agents)

\* Partners and agents share the incident's row and nothing else: a suggestion is followed, or
\* an assignment, not both at once.
OneMatter == (\A p \in Partners : suggestion[p] = None) \/ (\A r \in Rows : assignment[r] = None)
=============================================================================
