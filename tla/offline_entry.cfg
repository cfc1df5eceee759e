SPECIFICATION Spec
CONSTANTS
  tabA = tabA
  tabB = tabB
  Tab <- Tabs2
  Call = {1, 2}
  MaxCall <- Calls
  Copy = {1, 2}
  MaxMishaps = 2
CHECK_DEADLOCK FALSE
PROPERTY
  OfflineKeepsEntry
