SPECIFICATION Spec
CONSTANTS
  EvalMax = 1000
  Position <- Game
  Roots <- AllGames
  Evals <- NearAndFar
  MaxDepth = 5
  MaxPly = 5
  AspirationDepth = 2
  AspirationMargin = 4
  LMPMoves = 1
  LMRMoves = 9
  LMRReduction <- Reduced
  Contempt = 0
  TableSizes <- Four
  MaxGen = 65535
CHECK_DEADLOCK FALSE
INVARIANTS FramesFit AnnouncedIsTrue ShallowMatesStand
PROPERTIES ScoresAreBounds Termination
