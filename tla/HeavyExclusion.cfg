SPECIFICATION Spec
CONSTANTS
  Threads = {t1, t2, t3}
  b1 = b1
  p1 = p1
  p2 = p2
  whole = whole
  Whole = whole
  Works <- MCWorks
  Capacity <- MCCapacity
  Nobody = Nobody
SYMMETRY Symmetry
INVARIANTS
  ExclusiveWork
  NestedIsAdmitted
  OneCalculationEach
  NothingIsLeftBehind
  NobodyWaitsInACircle
