SPECIFICATION FairSpec
CONSTANTS
  Clocks <- LowClocks
  OtherClocks <- TheirClocks
  Increments <- NoneOrSome
  MovesToGo <- ToGo
  Stages <- BothStages
  Movetimes <- SomeTimes
  MovesOfGame = 2
  PonderOption = TRUE
  MaxDepth = 2
  Tick = 10
  PollInterval = 20
  LongestMove = 80
CHECK_DEADLOCK FALSE
INVARIANT TimeKept
PROPERTY MovesAreMade
