SPECIFICATION Spec
CONSTANTS
  w1 = w1
  w2 = w2
  won = won
  wins = wins
  a1 = a1
  a2 = a2
  a3 = a3
  Code = {1, 2}
  OldCodes = {1}
  Theme <- ThemeNames
  Name = {"", "ann"}
  Attempt <- Attempts3
  None = None
  Anonymous = ""
  MaxTries = 2
  MaxCrashes = 1
  Widget <- Widgets2
  Record <- Records2
  Counts <- Wins
  MaxChanges = 1
SYMMETRY Symmetries
CHECK_DEADLOCK FALSE
INVARIANTS
  ServesMigrated
  NoOrphans
  CacheAgrees
  LinksMeanOneThing
PROPERTIES
  LinksKept
