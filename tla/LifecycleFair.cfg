CONSTANTS
  Users = {a}
  Admins = {a}
  NoUser = NoUser
  None = None
  Web = {w1}
  Workers = {c1}
  Warn75 = 1
  Warn90 = 2
  RevertAfter = 3
  ValidationDelay = 1
  Forms <- FairForms
  MaxOverrides = 1
SPECIFICATION FairSpec
PROPERTY TacitValidation AntiGel
