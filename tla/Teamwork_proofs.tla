---------------------------- MODULE Teamwork_proofs ----------------------------
(***************************************************************************)
(* The safety properties of Teamwork, for any number of threads, partners and *)
(* agents, whatever the rest of the system writes.                           *)
(*                                                                         *)
(* What a request is about to write justifies itself: whoever is about to mark *)
(* a suggestion as accepted has put the partner in the team, whoever is about *)
(* to mark assignments as reported has saved the report, and a form that is    *)
(* about to be saved with that status has a report or a manager's word behind  *)
(* it.  A crash forgets the intention, and nothing takes the justification     *)
(* away: the word about a row is forgotten only when nobody writes that row.   *)
(***************************************************************************)
EXTENDS Teamwork, TLAPS

\* What a request is about: its partner, speaker or agent, and what it has done.
About(j) ==
    /\ j \in Job
    /\ j.at \in {"suggest", "join", "overwrite", "accept", "reject"}
         => j.who \in Partners /\ j.new \in PartnerRoles
    /\ j.at \in {"create", "admit"} => j.who \in Users
    /\ j.at \in {"report", "mark"} => j.who \in Agents
    /\ j.at \in {"assign", "edit", "withdraw"} => j.who \in Rows
    /\ j.at \in {"assign", "edit"} => j.new \in Assignment
Justified(j) == /\ j.at = "accept" => j.who \in joined
                /\ j.at = "mark" => j.who \in reports
                /\ j.at \in {"assign", "edit"} => Backed(j.who, j.new)
TeamInv == /\ TeamTypeOK
           /\ \A t \in Threads : About(job[t]) /\ Justified(job[t])
           /\ SuggestionJoins /\ ReportedHasReport

LEMMA IdleAbout == About(Idle) /\ Justified(Idle)
BY DEF About, Justified, Idle, Job, Steps

\* A thread that ends its request, or takes a justified step, keeps the invariant on jobs
\* when no partner leaves `joined`, no report is withdrawn, and a manager's word about a row
\* is forgotten only when nobody writes it.
LEMMA JobsKept ==
    ASSUME TeamInv, joined \subseteq joined', reports \subseteq reports',
           \A r \in byHand \ byHand' : \A s \in Threads : job[s].who # r,
           NEW t \in Threads, NEW j, About(j), Justified(j)',
           job' = [job EXCEPT ![t] = j]
    PROVE  /\ job' \in [Threads -> Job]
           /\ \A s \in Threads : About(job'[s]) /\ Justified(job[s])'
<1>1. job \in [Threads -> Job] BY DEF TeamInv, TeamTypeOK
<1>2. job' \in [Threads -> Job] BY <1>1 DEF About
<1>3. ASSUME NEW s \in Threads PROVE About(job'[s]) /\ Justified(job[s])'
  <2>1. CASE s = t BY <2>1, <1>1 DEF Justified
  <2>2. CASE s # t
    <3>1. job'[s] = job[s] BY <2>2, <1>1
    <3>2. About(job[s]) /\ Justified(job[s]) BY DEF TeamInv
    <3> QED BY <3>1, <3>2 DEF Justified, Backed
  <2> QED BY <2>1, <2>2
<1> QED BY <1>2, <1>3

\* A request that begins: it has written nothing and claims nothing yet.
LEMMA BeginInv ==
    ASSUME TeamInv, NEW t \in Threads, NEW at, NEW who, NEW new, Begin(t, at, who, new),
           About([at |-> at, who |-> who, new |-> new]),
           at \notin {"accept", "mark", "assign", "edit"}
    PROVE  TeamInv'
<1> DEFINE j == [at |-> at, who |-> who, new |-> new]
<1>1. Justified(j)' BY DEF Justified
<1>2. /\ job' = [job EXCEPT ![t] = j]
      /\ joined' = joined /\ reports' = reports /\ byHand' = byHand
  BY DEF Begin, partnerVars, fieldVars
<1> HIDE DEF j
<1>3. About(j) BY DEF j
<1>4. /\ job' \in [Threads -> Job]
      /\ \A s \in Threads : About(job'[s]) /\ Justified(job[s])'
  BY <1>1, <1>2, <1>3, JobsKept
<1>5. \A s \in Threads : About(job[s])' BY <1>4 DEF About
<1> QED
  BY <1>4, <1>5 DEF TeamInv, TeamTypeOK, SuggestionJoins, ReportedHasReport, Backed, Begin,
     partnerVars, fieldVars

\* A manager's form: what it is about to write is what the row already says, or his word.
LEMMA ManagesInv ==
    ASSUME TeamInv, NEW t \in Threads, NEW at \in {"assign", "edit"}, NEW r \in Rows,
           NEW new \in Assignment, Manages(t, at, r, new),
           at = "assign" => Unused(r), at = "edit" => assignment[r] # None
    PROVE  TeamInv'
<1> DEFINE j == [at |-> at, who |-> r, new |-> new]
<1>1. /\ job' = [job EXCEPT ![t] = j]
      /\ byHand' = IF new.status = "reported" /\ new # assignment[r] THEN byHand \cup {r}
                   ELSE IF at = "assign" THEN byHand \ {r} ELSE byHand
      /\ UNCHANGED <<incident, collab, suggestion, joined, assignment, reports>>
  BY DEF Manages, partnerVars
<1>2. About(j) BY DEF About, Job, Steps
<1>3. Justified(j)'
  <2>1. CASE new # assignment[r] BY <1>1, <2>1 DEF Justified, Backed
  <2>2. CASE new = assignment[r]
    <3>1. at = "edit" /\ byHand' = byHand
      BY <1>1, <2>2, NoAssignmentAssumption DEF Unused
    <3>2. Backed(r, new) BY <2>2, <3>1 DEF TeamInv, ReportedHasReport
    <3> QED BY <1>1, <3>1, <3>2 DEF Justified, Backed
  <2> QED BY <2>1, <2>2
<1> HIDE DEF j
<1>4. \A x \in byHand \ byHand' : x = r /\ Unused(r) BY <1>1
<1>5. /\ job' \in [Threads -> Job]
      /\ \A s \in Threads : About(job'[s]) /\ Justified(job[s])'
  BY <1>1, <1>2, <1>3, <1>4, JobsKept DEF Unused
<1>6. \A s \in Threads : About(job[s])' BY <1>5 DEF About
<1>7. ReportedHasReport'
  BY <1>1, <1>4 DEF TeamInv, ReportedHasReport, Backed, Unused
<1> QED BY <1>1, <1>5, <1>6, <1>7 DEF TeamInv, TeamTypeOK, SuggestionJoins

LEMMA RequestsInv == ASSUME TeamInv, NEW t \in Threads, Requests(t) PROVE TeamInv'
<1>1. ASSUME NEW u \in Actors, NEW p \in Partners, NEW role \in PartnerRoles, NEW same \in BOOLEAN,
             SuggestPartner(t, u, p, role, same)
      PROVE  TeamInv'
  <2>1. Begin(t, "suggest", p, role) BY <1>1 DEF SuggestPartner
  <2>2. About([at |-> "suggest", who |-> p, new |-> role])
    BY PeopleAssumption DEF About, Job, Steps
  <2> QED BY <2>1, <2>2, BeginInv
<1>2. ASSUME NEW u \in Actors, NEW p \in Partners,
             AcceptSuggestion(t, u, p) \/ RejectSuggestion(t, u, p)
      PROVE  TeamInv'
  <2>1. Begin(t, "join", p, suggestion[p].role) \/ Begin(t, "reject", p, suggestion[p].role)
    BY <1>2 DEF AcceptSuggestion, RejectSuggestion
  <2>2. suggestion[p].role \in PartnerRoles
    BY <1>2 DEF AcceptSuggestion, RejectSuggestion, Pending, TeamInv, TeamTypeOK, Suggestion
  <2>3. /\ About([at |-> "join", who |-> p, new |-> suggestion[p].role])
        /\ About([at |-> "reject", who |-> p, new |-> suggestion[p].role])
    BY <2>2, PeopleAssumption DEF About, Job, Steps
  <2> QED BY <2>1, <2>3, BeginInv
<1>3. ASSUME NEW u \in Users, Discuss(t, u) PROVE TeamInv'
  <2>1. Begin(t, "create", u, None) \/ Begin(t, "admit", u, None) BY <1>3 DEF Discuss
  <2>2. /\ About([at |-> "create", who |-> u, new |-> None])
        /\ About([at |-> "admit", who |-> u, new |-> None])
    BY DEF About, Job, Steps
  <2> QED BY <2>1, <2>2, BeginInv
<1>4. ASSUME NEW u \in Actors, NEW r \in Rows, NEW g \in Agents, NEW status \in Statuses,
             \/ AssignAgent(t, u, r, [agent |-> g, status |-> status])
             \/ EditAssignment(t, u, r, [agent |-> g, status |-> status])
      PROVE  TeamInv'
  <2>1. [agent |-> g, status |-> status] \in Assignment BY DEF Assignment
  <2> QED BY <1>4, <2>1, ManagesInv DEF AssignAgent, EditAssignment
<1>7. ASSUME NEW r \in Rows, NEW new \in Assignment, MoveAssignmentHere(t, r, new)
      PROVE  TeamInv'
  BY <1>7, ManagesInv DEF MoveAssignmentHere
<1>5. ASSUME NEW u \in Actors, NEW r \in Rows, WithdrawAgent(t, u, r) PROVE TeamInv'
  <2>1. Begin(t, "withdraw", r, None) BY <1>5 DEF WithdrawAgent
  <2>2. About([at |-> "withdraw", who |-> r, new |-> None]) BY DEF About, Job, Steps
  <2> QED BY <2>1, <2>2, BeginInv
<1>6. ASSUME NEW g \in Agents, FileReport(t, g) PROVE TeamInv'
  <2>1. Begin(t, "report", g, None) BY <1>6 DEF FileReport
  <2>2. About([at |-> "report", who |-> g, new |-> None]) BY DEF About, Job, Steps
  <2> QED BY <2>1, <2>2, BeginInv
<1> QED BY <1>1, <1>2, <1>3, <1>4, <1>5, <1>6, <1>7 DEF Requests, Statuses

-----------------------------------------------------------------------------
(* The statements.                                                         *)

\* Every statement but the two that have another one to come ends the request.
LEMMA EndInv ==
    ASSUME TeamInv, NEW t \in Threads, End(t), joined \subseteq joined', reports \subseteq reports',
           byHand' = byHand
    PROVE  /\ job' \in [Threads -> Job]
           /\ \A s \in Threads : (About(job[s]) /\ Justified(job[s]))'
<1>1. About(Idle) /\ Justified(Idle)' BY IdleAbout DEF About, Justified, Idle
<1>2. job' = [job EXCEPT ![t] = Idle] BY DEF End
<1>3. /\ job' \in [Threads -> Job]
      /\ \A s \in Threads : About(job'[s]) /\ Justified(job[s])'
  BY <1>1, <1>2, JobsKept
<1> QED BY <1>3 DEF About

LEMMA SuggestInv == ASSUME TeamInv, NEW t \in Threads, Suggest(t) PROVE TeamInv'
<1> DEFINE p == job[t].who
           row == [role |-> job[t].new, status |-> "pending"]
<1>1. p \in Partners /\ row \in Suggestion
  BY DEF Suggest, At, TeamInv, About, Suggestion
<1>2. /\ incident' = incident /\ collab' = collab /\ joined' = joined
      /\ assignment' = assignment /\ byHand' = byHand /\ reports' = reports
      /\ suggestion' \in {suggestion, [suggestion EXCEPT ![p] = row]}
  BY DEF Suggest, fieldVars
<1>3. /\ job' \in [Threads -> Job]
      /\ \A s \in Threads : (About(job[s]) /\ Justified(job[s]))'
  BY <1>2, EndInv DEF Suggest
<1>4. suggestion' \in [Partners -> Suggestion \cup {None}]
  BY <1>1, <1>2 DEF TeamInv, TeamTypeOK
<1>5. SuggestionJoins' BY <1>1, <1>2 DEF TeamInv, TeamTypeOK, SuggestionJoins
<1> QED BY <1>2, <1>3, <1>4, <1>5 DEF TeamInv, TeamTypeOK, ReportedHasReport, Backed

\* The two saves of an acceptance that may put the partner in the team.
LEMMA JoinInv ==
    ASSUME TeamInv, NEW t \in Threads, Join(t) \/ Overwrite(t)
    PROVE  TeamInv'
<1> DEFINE p == job[t].who
           c == [role |-> job[t].new, status |-> "accepted"]
<1>1. /\ job[t] \in Job /\ About(job[t])
      /\ p \in Partners /\ p \in Users /\ c \in Collab /\ job[t].new \in PartnerRoles
  BY PeopleAssumption DEF Join, Overwrite, At, TeamInv, TeamTypeOK, About, Collab
<1>2. /\ incident' = incident /\ suggestion' = suggestion
      /\ assignment' = assignment /\ byHand' = byHand /\ reports' = reports
  BY DEF Join, Overwrite, fieldVars
<1>3. \/ UNCHANGED <<collab, joined>> /\ (Goto(t, "overwrite") \/ End(t))
      \/ /\ collab' \in {[collab EXCEPT ![p] = c], [collab EXCEPT ![p] = None]}
         /\ joined' = joined \cup {p} /\ Goto(t, "accept")
  <2>1. collab \in [Users -> Collab \cup {None}] BY DEF TeamInv, TeamTypeOK
  <2>2. ASSUME collab' \in {Created(p, c), [collab EXCEPT ![p] = c]}, Brought(p, c),
               collab' = [collab EXCEPT ![p] = c] \/ collab' = Created(p, c)
        PROVE  /\ collab' \in {[collab EXCEPT ![p] = c], [collab EXCEPT ![p] = None]}
               /\ joined' = joined \cup {p}
    <3>1. collab'[p] = c \/ incident.takenBy = None
      BY <1>1, <2>1, <2>2 DEF Created
    <3> QED BY <2>2, <3>1 DEF Created, Brought
  <2> QED BY <2>2 DEF Join, Overwrite
<1>4. collab' \in [Users -> Collab \cup {None}]
  BY <1>1, <1>3 DEF TeamInv, TeamTypeOK
<1>5. joined \subseteq joined' /\ joined' \subseteq Partners
  BY <1>1, <1>3 DEF TeamInv, TeamTypeOK
<1>6. ASSUME NEW at \in {"overwrite", "accept"}, Goto(t, at), at = "accept" => p \in joined'
      PROVE  job' \in [Threads -> Job] /\ \A s \in Threads : (About(job[s]) /\ Justified(job[s]))'
  <2>0. PICK j : j = [job[t] EXCEPT !.at = at] OBVIOUS
  <2>1. job' = [job EXCEPT ![t] = j] BY <1>6, <2>0 DEF Goto
  <2>2. j.at = at /\ j.who = p /\ j.new = job[t].new /\ j \in Job
    BY <1>1, <2>0 DEF Job, Steps
  <2>3. About(j) BY <1>1, <2>2 DEF About
  <2>4. Justified(j)' BY <1>6, <2>2 DEF Justified
  <2>5. /\ job' \in [Threads -> Job]
        /\ \A s \in Threads : About(job'[s]) /\ Justified(job[s])'
    BY <1>2, <1>5, <2>1, <2>3, <2>4, JobsKept
  <2> QED BY <2>5 DEF About
<1>7. /\ job' \in [Threads -> Job]
      /\ \A s \in Threads : (About(job[s]) /\ Justified(job[s]))'
  BY <1>2, <1>3, <1>5, <1>6, EndInv
<1>8. SuggestionJoins' BY <1>2, <1>5 DEF TeamInv, SuggestionJoins
<1> QED
  BY <1>2, <1>4, <1>5, <1>7, <1>8 DEF TeamInv, TeamTypeOK, ReportedHasReport, Backed

LEMMA AnswerInv == ASSUME TeamInv, NEW t \in Threads, Accept(t) \/ Reject(t) PROVE TeamInv'
<1> DEFINE p == job[t].who
           row(answer) == [role |-> job[t].new, status |-> answer]
<1>1. p \in Partners /\ row("accepted") \in Suggestion /\ row("rejected") \in Suggestion
  BY DEF Accept, Reject, At, TeamInv, About, Suggestion
<1>2. /\ incident' = incident /\ collab' = collab /\ joined' = joined
      /\ assignment' = assignment /\ byHand' = byHand /\ reports' = reports /\ End(t)
  BY DEF Accept, Reject, AnswerSuggestion, fieldVars
<1>3. \/ p \in joined /\ suggestion' = [suggestion EXCEPT ![p] = row("accepted")]
      \/ suggestion' = [suggestion EXCEPT ![p] = row("rejected")]
  BY DEF Accept, Reject, AnswerSuggestion, At, TeamInv, Justified
<1>4. /\ job' \in [Threads -> Job]
      /\ \A s \in Threads : (About(job[s]) /\ Justified(job[s]))'
  BY <1>2, EndInv
<1>5. suggestion' \in [Partners -> Suggestion \cup {None}]
  BY <1>1, <1>3 DEF TeamInv, TeamTypeOK
<1>6. SuggestionJoins' BY <1>1, <1>2, <1>3 DEF TeamInv, TeamTypeOK, SuggestionJoins
<1> QED BY <1>2, <1>4, <1>5, <1>6 DEF TeamInv, TeamTypeOK, ReportedHasReport, Backed

LEMMA AdmitInv == ASSUME TeamInv, NEW t \in Threads, Admit(t) PROVE TeamInv'
<1> DEFINE u == job[t].who
<1>1. u \in Users BY DEF Admit, At, TeamInv, About
<1>2. /\ incident' = incident /\ suggestion' = suggestion /\ joined' = joined
      /\ assignment' = assignment /\ byHand' = byHand /\ reports' = reports /\ End(t)
  BY DEF Admit, partnerVars, fieldVars
<1>3. ASSUME collab[u] # None PROVE collab' \in [Users -> Collab \cup {None}]
  <2>1. collab' = [collab EXCEPT ![u].status = "accepted"] BY <1>3 DEF Admit
  <2>2. collab[u] \in Collab BY <1>1, <1>3 DEF TeamInv, TeamTypeOK
  <2>3. [collab[u] EXCEPT !.status = "accepted"] \in Collab BY <2>2 DEF Collab
  <2> QED BY <1>1, <2>1, <2>3 DEF TeamInv, TeamTypeOK
<1>4. ASSUME collab[u] = None PROVE collab' \in [Users -> Collab \cup {None}]
  <2>1. collab' \in {collab, [collab EXCEPT ![u] = None],
                     [collab EXCEPT ![u] = [role |-> "leader", status |-> "accepted"]]}
    BY <1>4 DEF Admit, Created
  <2>2. [role |-> "leader", status |-> "accepted"] \in Collab BY DEF Collab
  <2> QED BY <1>1, <2>1, <2>2 DEF TeamInv, TeamTypeOK
<1>5. /\ job' \in [Threads -> Job]
      /\ \A s \in Threads : (About(job[s]) /\ Justified(job[s]))'
  BY <1>2, EndInv
<1>6. collab' \in [Users -> Collab \cup {None}] BY <1>3, <1>4
<1> QED BY <1>2, <1>5, <1>6 DEF TeamInv, TeamTypeOK, SuggestionJoins, ReportedHasReport, Backed

LEMMA SaveAssignmentInv == ASSUME TeamInv, NEW t \in Threads, SaveAssignment(t) PROVE TeamInv'
<1> DEFINE r == job[t].who
           new == job[t].new
<1>1. /\ r \in Rows
      /\ job[t].at \in {"assign", "edit"} => new \in Assignment /\ Backed(r, new)
  BY DEF SaveAssignment, At, TeamInv, About, Justified
<1>2. /\ incident' = incident /\ collab' = collab /\ suggestion' = suggestion /\ joined' = joined
      /\ byHand' = byHand /\ reports' = reports /\ End(t)
  BY DEF SaveAssignment, partnerVars
<1>3. \/ assignment' = assignment
      \/ assignment' = [assignment EXCEPT ![r] = new] /\ new \in Assignment /\ Backed(r, new)
      \/ assignment' = [assignment EXCEPT ![r] = None]
  BY <1>1 DEF SaveAssignment
<1>4. assignment' \in [Rows -> Assignment \cup {None}]
  BY <1>1, <1>3 DEF TeamInv, TeamTypeOK
<1>5. ReportedHasReport'
  <2>1. ASSUME NEW x \in Rows, assignment'[x] # None PROVE Backed(x, assignment'[x])
    <3>1. assignment \in [Rows -> Assignment \cup {None}] BY DEF TeamInv, TeamTypeOK
    <3>2. CASE assignment'[x] = assignment[x]
      BY <2>1, <3>2 DEF TeamInv, ReportedHasReport
    <3>3. CASE assignment'[x] # assignment[x]
      BY <1>1, <1>3, <2>1, <3>1, <3>3
    <3> QED BY <3>2, <3>3
  <2> QED BY <1>2, <2>1 DEF ReportedHasReport, Backed
<1>6. /\ job' \in [Threads -> Job]
      /\ \A s \in Threads : (About(job[s]) /\ Justified(job[s]))'
  BY <1>2, EndInv
<1> QED BY <1>2, <1>4, <1>5, <1>6 DEF TeamInv, TeamTypeOK, SuggestionJoins

LEMMA SaveReportInv == ASSUME TeamInv, NEW t \in Threads, SaveReport(t) PROVE TeamInv'
<1>0. PICK j : j = [job[t] EXCEPT !.at = "mark"] OBVIOUS
<1>1. /\ incident' = incident /\ collab' = collab /\ suggestion' = suggestion /\ joined' = joined
      /\ assignment' = assignment /\ byHand' = byHand
      /\ reports' = reports \cup {job[t].who} /\ job' = [job EXCEPT ![t] = j]
  BY <1>0 DEF SaveReport, Goto, partnerVars
<1>2. job[t] \in Job /\ job[t].who \in Agents
  BY DEF SaveReport, At, TeamInv, TeamTypeOK, About
<1>3. j \in Job /\ j.at = "mark" /\ j.who = job[t].who BY <1>0, <1>2 DEF Job, Steps
<1>4. About(j) /\ Justified(j)' BY <1>1, <1>2, <1>3 DEF About, Justified
<1>5. /\ job' \in [Threads -> Job]
      /\ \A s \in Threads : About(job'[s]) /\ Justified(job[s])'
  BY <1>1, <1>4, JobsKept
<1>6. \A s \in Threads : About(job[s])' BY <1>5 DEF About
<1> QED BY <1>1, <1>2, <1>5, <1>6 DEF TeamInv, TeamTypeOK, SuggestionJoins, ReportedHasReport, Backed

LEMMA MarkReportedInv == ASSUME TeamInv, NEW t \in Threads, MarkReported(t) PROVE TeamInv'
<1>1. /\ incident' = incident /\ collab' = collab /\ suggestion' = suggestion /\ joined' = joined
      /\ byHand' = byHand /\ reports' = reports /\ End(t)
      /\ assignment' = [r \in Rows |-> IF assignment[r] # None /\ assignment[r].agent = job[t].who
                                       THEN [assignment[r] EXCEPT !.status = "reported"]
                                       ELSE assignment[r]]
  BY DEF MarkReported, partnerVars
<1>2. job[t].who \in reports BY DEF MarkReported, At, TeamInv, Justified
<1>t. assignment \in [Rows -> Assignment \cup {None}] BY DEF TeamInv, TeamTypeOK
<1>3. ASSUME NEW r \in Rows
      PROVE  /\ assignment'[r] \in Assignment \cup {None}
             /\ assignment'[r] # None => Backed(r, assignment'[r])
  <2>1. CASE assignment[r] # None /\ assignment[r].agent = job[t].who
    <3>1. assignment'[r] = [assignment[r] EXCEPT !.status = "reported"] BY <1>1, <2>1
    <3>2. assignment[r] \in Assignment BY <1>t, <2>1
    <3>3. assignment'[r] \in Assignment /\ assignment'[r].agent = job[t].who
      BY <2>1, <3>1, <3>2 DEF Assignment, Statuses
    <3> QED BY <1>2, <3>3 DEF Backed
  <2>2. CASE ~(assignment[r] # None /\ assignment[r].agent = job[t].who)
    <3>1. assignment'[r] = assignment[r] BY <1>1, <2>2
    <3> QED BY <1>t, <3>1 DEF TeamInv, ReportedHasReport
  <2> QED BY <2>1, <2>2
<1>4. assignment' \in [Rows -> Assignment \cup {None}] BY <1>1, <1>3
<1>5. ReportedHasReport' BY <1>1, <1>3 DEF ReportedHasReport, Backed
<1>6. /\ job' \in [Threads -> Job]
      /\ \A s \in Threads : (About(job[s]) /\ Justified(job[s]))'
  BY <1>1, EndInv
<1> QED BY <1>1, <1>4, <1>5, <1>6 DEF TeamInv, TeamTypeOK, SuggestionJoins

\* A crash forgets what was to be written; nobody else writes what the invariant speaks of.
LEMMA ThreadDiesInv == ASSUME TeamInv, NEW t \in Threads, ThreadDies(t) PROVE TeamInv'
<1>1. UNCHANGED <<incident, collab, suggestion, joined, assignment, byHand, reports>> /\ End(t)
  BY DEF ThreadDies, partnerVars, fieldVars
<1>2. /\ job' \in [Threads -> Job]
      /\ \A s \in Threads : (About(job[s]) /\ Justified(job[s]))'
  BY <1>1, EndInv
<1> QED BY <1>1, <1>2 DEF TeamInv, TeamTypeOK, SuggestionJoins, ReportedHasReport, Backed

LEMMA ElsewhereInv ==
    ASSUME TeamInv, \/ LifecycleElsewhere
                    \/ \E u \in Users : CollaborationElsewhere(u)
                    \/ \E u \in Actors : TogglePublic(u)
                    \/ UNCHANGED teamVars
    PROVE  TeamInv'
<1>1. UNCHANGED <<suggestion, joined, assignment, byHand, reports, job>>
  BY DEF LifecycleElsewhere, CollaborationElsewhere, TogglePublic, partnerVars, fieldVars, teamVars
<1>2. incident' \in Incident
  BY DEF LifecycleElsewhere, CollaborationElsewhere, TogglePublic, teamVars, TeamInv, TeamTypeOK, Incident
<1>3. collab' \in [Users -> Collab \cup {None}]
  BY DEF LifecycleElsewhere, CollaborationElsewhere, TogglePublic, teamVars, TeamInv, TeamTypeOK
<1>4. \A s \in Threads : (About(job[s]) /\ Justified(job[s]))'
  BY <1>1 DEF TeamInv, About, Justified, Backed
<1> QED BY <1>1, <1>2, <1>3, <1>4 DEF TeamInv, TeamTypeOK, SuggestionJoins, ReportedHasReport, Backed

-----------------------------------------------------------------------------
(* Theorems.                                                               *)

\* The inductive invariant: the justification of what is about to be written holds at every
\* step, whoever dies and whatever the other handlers write.
THEOREM TeamInvariance == TeamSpec => []TeamInv
<1>1. TeamInit => TeamInv
  <2> SUFFICES ASSUME TeamInit PROVE TeamInv OBVIOUS
  <2>1. incident \in Incident BY DEF TeamInit, Incident
  <2>2. \A t \in Threads : job[t] = Idle BY DEF TeamInit
  <2>3. Idle \in Job BY DEF Idle, Job, Steps
  <2>4. TeamTypeOK BY <2>1, <2>3 DEF TeamInit, TeamTypeOK
  <2>5. \A t \in Threads : About(job[t]) /\ Justified(job[t]) BY <2>2, IdleAbout
  <2>6. SuggestionJoins BY DEF TeamInit, SuggestionJoins
  <2>7. ReportedHasReport BY PeopleAssumption DEF TeamInit, ReportedHasReport
  <2> QED BY <2>4, <2>5, <2>6, <2>7 DEF TeamInv
<1>2. TeamInv /\ [TeamNext]_teamVars => TeamInv'
  BY RequestsInv, SuggestInv, JoinInv, AnswerInv, AdmitInv, SaveAssignmentInv, SaveReportInv,
     MarkReportedInv, ThreadDiesInv, ElsewhereInv DEF TeamNext, Statements
<1> QED BY <1>1, <1>2, PTL DEF TeamSpec

\* The columns and the requests in flight stay in their types.
THEOREM TeamTypes == TeamSpec => []TeamTypeOK
<1>1. TeamInv => TeamTypeOK BY DEF TeamInv
<1> QED BY <1>1, TeamInvariance, PTL

\* Accepting a suggestion is two saves, the row of the partner first: a crash between them
\* leaves a partner in the team and the suggestion pending, never the reverse.
THEOREM SuggestionAccepted == TeamSpec => []SuggestionJoins
<1>1. TeamInv => SuggestionJoins BY DEF TeamInv
<1> QED BY <1>1, TeamInvariance, PTL

\* Filing a report is two saves, the report first: whoever dies, withdraws, edits or moves
\* assignments, one that says 'reported' has its agent's report or a manager's word.
THEOREM ReportFiled == TeamSpec => []ReportedHasReport
<1>1. TeamInv => ReportedHasReport BY DEF TeamInv
<1> QED BY <1>1, TeamInvariance, PTL
=============================================================================
