CONSTANTS
  BufferSize = 3
  BufferCount = 4
  PacketSizes = {1, 4, 7}
  MaxPackets = 5
SPECIFICATION FairSpec
INVARIANT RingInOrder
INVARIANT TearsOnlyFromCarry
INVARIANT CarryStaysInside
INVARIANT NoDmaFromFreedMemory
INVARIANT PlayingMeansDma
PROPERTY BufferedIsPlayed
PROPERTY StopReturns
