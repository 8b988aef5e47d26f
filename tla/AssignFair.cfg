CONSTANTS
  Users = {a}
  Admins = {a}
  NoUser = NoUser
  None = None
  Web = {s1}
  Workers = {s1}
  Warn75 = 1
  Warn90 = 2
  RevertAfter = 3
  ValidationDelay = 1
  Forms <- AssignForms
  MaxOverrides = 1
  Orgs = {{a}, {}}
  Assignments = {x}
SPECIFICATION OrgFairSpec
INVARIANT OrgTypeOK
PROPERTY AnswerStands AcceptanceEngages AssignmentAnswered
