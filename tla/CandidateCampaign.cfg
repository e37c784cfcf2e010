SPECIFICATION FairSpec
CONSTANTS
  TimeControls <- MCTimeControls
  Modes = {"full", "baseline", "skip"}
  MaxCrashes = 2
  MaxLosses = 1
  MaxRetries = 1
CHECK_DEADLOCK FALSE
INVARIANTS
  SprtIsEarned
  FirstDeepEnough
PROPERTIES
  NotAskedAgain
  EndsWhenQuiet
