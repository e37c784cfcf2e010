SPECIFICATION LogSpec
CONSTANTS
  EvalMax = 10
  Keys <- SomeKeys
  Sizes <- Two
  Window = 2
  MaxGen = 2
  Moves <- NoneOrMove
  Depths <- UpTo99
  Plies <- Root
  Scores <- QuietOrMate
INVARIANTS
  EntriesRight
PROPERTIES
  EvictionRight
  IsLossyCache
