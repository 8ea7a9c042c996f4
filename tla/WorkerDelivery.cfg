SPECIFICATION LinkSpec
CONSTANTS
  Calls = {c1, c2}
  Cancellable = {}
  Polls = {q1}
  Secrets = {s1, s2}
  Values = {work, restarted}
  None = None
  Opens = {c1, c2}
  Closes = {}
  Tabs = {t1}
  Work = work
  Restarted = restarted
  MaxFaults = 1
  MaxRestarts = 1
SYMMETRY Symmetry
INVARIANTS
  RunsOnce
  AnswersAreTheOperations
  StoredIsWhatIsLive
CHECK_DEADLOCK FALSE
