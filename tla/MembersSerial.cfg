CONSTANTS
  Threads = {w1}
  Users = {u1, u2, u3}
  Founders = {u1}
  Phones = {p1, p2}
  Super = Super
  None = None
SPECIFICATION MembersSpec
SYMMETRY Symmetry
INVARIANT OrgManageable
CHECK_DEADLOCK FALSE
