CONSTANTS
  w1 = w1
  w2 = w2
  Threads = {w1, w2}
  a = a
  g = g
  h = h
  A = A
  B = B
  Users = {a}
  Partners = {a}
  PartnerRoles = {"contributor"}
  FormStatuses = {"pending", "reported"}
  Agents = {g, h}
  Rows = {x}
  Orgs = {A, B}
  OrgOf <- MCOrgOf
  ReportedBy = None
  Super = Super
  None = None
SPECIFICATION TeamSpec
INVARIANT SuggestionJoins ReportedHasReport
SYMMETRY MCSymmetry
CONSTRAINT OneMatter
CHECK_DEADLOCK FALSE
