SPECIFICATION FairSpec
CONSTANTS
  BlockCount = 2
  MaxStarts = 2
  MaxCommands = 2
CHECK_DEADLOCK FALSE
INVARIANTS
  ResultsCounted
  NothingLeftBehind
  AttemptsAccounted
PROPERTIES
  IsBlockQueue
  NobodyWaitsInVain
