SPECIFICATION Spec
CONSTANTS
  tabA = tabA
  tabB = tabB
  a1 = a1
  a2 = a2
  Tab <- Tabs2
  Attempt <- Attempts2
  None = None
  Duration <- Durations2
  MaxLoads = 2
  MaxLosses = 1
CHECK_DEADLOCK FALSE
INVARIANTS
  StatisticsExact
  OwnCountedOnce
  OngoingUnfinished
  StoredOnce
PROPERTIES
  EveryAttemptStored
