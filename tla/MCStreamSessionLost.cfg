CONSTANTS
  HoldTicks = 1
  MaxTerminations = 1
SPECIFICATION FairSpec
PROPERTY TerminatedStreamEnds
