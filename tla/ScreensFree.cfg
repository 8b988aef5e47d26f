CONSTANTS
  a = a
  g = g
  b = b
  citizen = citizen
  admin = admin
  A = A
  B = B
  Incidents = {1, 2, 3}
  Members = {a, g, b}
  Others = {citizen, admin}
  SuperAdmins = {admin}
  Orgs = {A, B}
  OrgOf <- MCOrgOf
  Readers = {a}
  Movable = {g}
  FirstRows <- MCFirstRows
  Rows <- MCRows
  PageSize = 1
  None = None
  Writers = {w1, w2}
  People = {p, q}
  Ids = {1, 2, 3}
  MaxDate = 1
  Limits = {0, 1, 5}
  MaxLimit = 2
  NoMessage = NoMessage
SPECIFICATION ScreenSpec
SYMMETRY Symmetry
INVARIANT ListedOnce MineAgrees CollaborationsOpen FiguresAddUp PagesSkipNothing HistoryWhole
