SPECIFICATION FairSpec
CONSTANTS
  Calls = {c1, c2}
  Cancellable = {c1}
  Polls = {q1}
  Secrets = {s1, s2, s3}
  Values = {v1}
  None = None
INVARIANTS
  AcknowledgedIsReturned
  SlotBelongsToSession
  NoWakeupIsLost
PROPERTIES
  ImplementsExchange
  EverybodyReturns
CHECK_DEADLOCK FALSE
