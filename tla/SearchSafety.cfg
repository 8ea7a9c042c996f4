SPECIFICATION Spec
CONSTANTS
  Processes = {p1, p2}
  d1 = d1
  d2 = d2
  t1 = t1
  Pairs = {d1, d2}
  ThreeWays = {t1}
  Requests <- MCRequests
  Total <- MCTotal
  Qualified <- MCQualified
  Gains <- MCGains
  CheckpointInterval = 3
  MaxBatch = 2
  MaxStarts = 3
  Nobody = Nobody
SYMMETRY Symmetry
INVARIANTS
  StoreHoldsTheQualified
  CountsReconcile
  OutcomesAreSnapshots
PROPERTIES
  ProgressOnlyAdvances
CHECK_DEADLOCK FALSE
