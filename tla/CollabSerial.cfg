CONSTANTS
  Users = {a, b}
  Admins = {a, b}
  NoUser = NoUser
  None = None
  Web = {s1}
  Workers = {s1}
  Warn75 = 1
  Warn90 = 2
  RevertAfter = 3
  ValidationDelay = 1
  Forms <- SerialForms
  MaxOverrides = 1
  Arrivals <- OtherRows
SPECIFICATION CollabSpec
SYMMETRY Symmetry
PROPERTY LeaderRoleEarned ClosedToNewcomers LeavesNobodyBehind FollowsWorkflow
