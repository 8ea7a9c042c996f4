SPECIFICATION FairRoomSpec
CONSTANTS
  TeamCount = 2
  RosterSize = 1
  Players = {p1, p2}
  User = 2
  Leagues = {l1}
  Orders = {o1, o2}
  Tabs = {t1}
  Nothing = Nothing
  MaxActs = 2
  MaxEspn = 2
  MaxLosses = 1
PROPERTIES
  ImplementsLedger
  AutoCatchesUp
