SPECIFICATION Spec
CONSTANTS
  GoKinds <- AllKinds
  Exhaustible <- AllKinds
  Pipelined = FALSE
  Positions <- TwoPositions
  StartPos = "startpos"
  MaxGo = 3
  MaxGame = 1
  MaxPipe = 2
CHECK_DEADLOCK FALSE
INVARIANTS
  GoHandedOver
  StatsRight
PROPERTIES
  AnswersTheRightGo
  NoReconfiguration
