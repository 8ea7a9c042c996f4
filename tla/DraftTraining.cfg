SPECIFICATION FairSpec
CONSTANTS
  Settings = {s1}
  Targets = {1, 2}
  Arenas = 1
  Retained = 2
  Promoters = {q1, q2}
  None = None
  MaxJobs = 2
  MaxFaults = 1
INVARIANTS
  MatchesUninterrupted
  StoppedKeepsItsWork
  PromotedOnce
  EndIsRecoverable
PROPERTIES
  JobsEnd
CHECK_DEADLOCK FALSE
