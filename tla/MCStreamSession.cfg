CONSTANTS
  HoldTicks = 2
  MaxTerminations = 2
SPECIFICATION FairSpec
INVARIANT HomePollOneThread
INVARIANT InputOnlyWhileConnected
INVARIANT HomeBacksOutFirst
PROPERTY QuitNeedsLongPress
PROPERTY StopEndsStream
PROPERTY QuitLeaves
PROPERTY HeldHomeQuits
