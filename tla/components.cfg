SPECIFICATION MCSpec
CONSTANTS
  Parts = {"gamemodes", "findwin", "trace", "difficulty"}
  q1 = q1
  q2 = q2
  q3 = q3
  q4 = q4
  red = red
  green = green
  blue = blue
  Square <- Squares4
  Color <- Colors3
  NoColor = NoColor
  Procs = 3
  MaxUint = 9
  GameSize = 2
  MaxCount = 14
  Device = {"mouse", "touch"}
  Gap = {1, 3}
  SmoothGap = 2
  Micros = 5
  Nanos = 2
  Short <- ShortPairs
  Shaved <- ShavedTimes
  DeltaRange = 32
  IndexRange = 3
  MaxInputs = 4
  Client = {1, 2, 3}
  Row = {1, 2}
  Cell = {1, 2}
  Pos <- Sharing3
  MaxCounter = 5
  Growth <- Growth5
CHECK_DEADLOCK FALSE
SYMMETRY SquareSymmetry
INVARIANTS
  OddOneExists
  GleichIsFair
  EndsFitGame
  FindwinAgrees
  TestedOnce
  TraceReadable
  TraceBounded
  NeverTooEasy
