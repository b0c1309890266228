CONSTANTS
  SyncInterlace = FALSE
  DelayFrames = 4
  MaxDrawn = 6
SPECIFICATION FlipFairSpec
INVARIANT TextureUntouched
INVARIANT ShownIsComplete
PROPERTY NeverBackwards
PROPERTY FrameIsShown
