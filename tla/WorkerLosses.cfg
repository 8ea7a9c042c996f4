SPECIFICATION FairLinkSpec
CONSTANTS
  Calls = {c1}
  Cancellable = {}
  Polls = {q1}
  Secrets = {1, 2, 3}
  Values = {work, restarted}
  None = None
  Opens = {}
  Closes = {c1}
  Tabs = {t1}
  Work = work
  Restarted = restarted
  MaxFaults = 3
  MaxRestarts = 0
ACTION_CONSTRAINT
  FreshInOrder
PROPERTIES
  RevokedIsNoticed
CHECK_DEADLOCK FALSE
