CONSTANTS
  Threads = {w1, w2}
  Repeats = 1
  north = north
  south = south
  waste = waste
  fire = fire
  Null = Null
  ZoneLists <- ThreeLists
  Categories <- TwoCategories
SPECIFICATION IvrSpec
SYMMETRY Symmetry
INVARIANT AsHeard ThankedHasIncident
CHECK_DEADLOCK FALSE
