SPECIFICATION Spec
CONSTANTS
  t1 = t1
  t2 = t2
  s1 = s1
  s2 = s2
  Token <- Tokens2
  Slot <- Slots2
  Gamemode <- Modes
  Critical <- CriticalModes
  NoMode = NoMode
  NoToken = NoToken
  NumSquares = 3
  MaxOff = 6
PROPERTY OverIsFinal
