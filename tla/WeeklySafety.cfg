SPECIFICATION Spec
CONSTANTS
  Jobs = {j1, j2}
  Bundles = {b1}
  Profiles = {p1, p2}
  Root = Root
  MaxRetained = 1
  MaxCrashes = 1
  None = None
SYMMETRY Symmetry
INVARIANTS
  StagedIsNeverLost
  CompleteIsWhole
  CancelledInTimePublishesNothing
  PendingIsRecoverable
CHECK_DEADLOCK FALSE
