SPECIFICATION Spec
CONSTANTS
  Starts <- MCStarts
  MaxFrames = 2
  MaxCuts = 1
INVARIANTS SearchLeavesUsable StagedListIsRight
CHECK_DEADLOCK FALSE
