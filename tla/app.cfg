SPECIFICATION AppSpec
CONSTANTS
  t1 = t1
  t2 = t2
  t3 = t3
  NoSlot = NoSlot
  s1 = s1
  s2 = s2
  Token <- Tokens3
  Slot <- Slots2
  Gamemode <- Modes
  Critical <- CriticalModes
  NoMode = NoMode
  NoToken = NoToken
  NumSquares = 2
  MaxOff = 4
INVARIANTS
  MenuHoldsGame
  NoLostResume
  MenuTellsGamemode
PROPERTIES
  ResetEnds
  Spec
