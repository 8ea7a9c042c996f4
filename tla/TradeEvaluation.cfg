SPECIFICATION Spec
CONSTANTS
  a1 = a1
  a2 = a2
  a3 = a3
  b1 = b1
  b2 = b2
  b3 = b3
  c1 = c1
  f1 = f1
  f2 = f2
  PositionsOf <- MCPositionsOf
  Requests <- MCRequests
  None = None
  CheckpointInterval = 3
  MaxStops = 1
INVARIANTS
  SpaceIsExact
  IndexesAreStable
  CompleteIsEveryTrade
  OnlyWaiversRefuse
  AdjustmentsAreLegal
CHECK_DEADLOCK FALSE
