CONSTANTS
  QueueBound = 2
  DropLimit = 3
  WireBound = 2
  MaxRequests = 1
  MaxLosses = 1
  MaxErrors = 2
SPECIFICATION FairSpec
PROPERTY EveryBrokenPictureRecovers
