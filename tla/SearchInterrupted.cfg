SPECIFICATION Spec
CONSTANTS
  Processes = {p1}
  d1 = d1
  d2 = d2
  t1 = t1
  Pairs = {d1, d2}
  ThreeWays = {t1}
  Requests <- MCRequests
  Total <- MCTotal
  Qualified <- MCQualified
  Gains <- MCGains
  CheckpointInterval = 3
  MaxBatch = 2
  MaxStarts = 2
  Nobody = Nobody
INVARIANTS
  InterruptedCanResume
CHECK_DEADLOCK FALSE
