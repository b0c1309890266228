CONSTANTS
  Frames = {0, 1}
  NoFrame = NoFrame
  NumBuffers = 2
  MaxQueueMessages = 4
  IndexMod = 8
  MaxFrames = 10
SPECIFICATION FairSpec
INVARIANT QueueInv
INVARIANT NoNullDraw
INVARIANT NeverOlderThanQueued
INVARIANT ShowsRecentPicture
PROPERTY ImplementsFifo
PROPERTY QueuedIsDrawn
PROPERTY StopCompletes
