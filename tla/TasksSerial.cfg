CONSTANTS
  Tasks = {x, y}
  NoTask = NoTask
  Web = {s1}
SPECIFICATION Spec
SYMMETRY Symmetry
INVARIANT OutcomesJustified
PROPERTY ProgressAccurate ConfirmationStands CloseLeavesNoTask
