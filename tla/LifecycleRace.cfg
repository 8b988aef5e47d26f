CONSTANTS
  Users = {a, b}
  Admins = {a, b}
  NoUser = NoUser
  None = None
  Web = {w1}
  Workers = {c1}
  Warn75 = 1
  Warn90 = 2
  RevertAfter = 3
  ValidationDelay = 1
  Forms <- StatusForms
  MaxOverrides = 1
SPECIFICATION Spec
SYMMETRY Symmetry
CONSTRAINT UntilOverride
INVARIANT IInv FreeWhenDeclared WarningsOrdered DefinitiveWasSubmitted
