CONSTANTS
  HeaderPieces = 2
  BodyPieces = 2
  MaxRequests = 3
  OtherTables <- MCOtherTables
SPECIFICATION FairSpec
CHECK_DEADLOCK FALSE
INVARIANT FreshAnswer
INVARIANT WholeAnswer
INVARIANT NoSocketLeft
PROPERTY PlainReturns
PROPERTY TlsReturnsWhenClosed
