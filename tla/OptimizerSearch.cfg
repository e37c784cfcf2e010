SPECIFICATION FairSpec
CONSTANTS
  Lowest <- MCLowest
  Highest <- MCHighest
  FirstStep <- MCFirstStep
  MinStep <- MCMinStep
  Baseline <- MCBaseline
  MaxPasses = 4
  MaxEvaluations = 5
  MaxGames = 7
  MinBlocks = 1
  MaxBlocks = 2
  Levels = {0, 3, 4}
  Exploratory = TRUE
  ConfirmBlocks = 2
  Limits = {0, 1}
  MaxFaults = 2
CHECK_DEADLOCK FALSE
INVARIANTS
  BooksRight
PROPERTIES
  Descends
  ConfirmsTheAnchor
  Concludes
