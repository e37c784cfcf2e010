SPECIFICATION Spec
CONSTANTS
  GoKinds <- AllKinds
  Exhaustible <- AllKinds
  Pipelined = FALSE
  Positions <- OnePosition
  StartPos = "startpos"
  MaxGo = 4
  MaxGame = 0
  MaxPipe = 2
CHECK_DEADLOCK FALSE
PROPERTIES
  GoesAreAnswered
  InfiniteWaitsForStop
