SPECIFICATION FairSpec
CONSTANTS
  Book <- MCBook
  Seeds <- MCSeeds
  Rank <- MCRank
  BlockIndex = 0
  BlockSize = 1
  SeedsOf <- MCSeedsOf
  Results = {"accepted_h1"}
  MaxStarts = 2
  MaxStops = 1
  MaxKills = 1
CHECK_DEADLOCK FALSE
INVARIANTS
  CountedIsWhole
  
PROPERTIES
  MonitorEnds
