SPECIFICATION Spec
CONSTANTS
  HeaderSize = 2
  RecvBufSize = 4
  BodySizes = {1, 5}
  Messages = 2
  MaxReads = 4
INVARIANTS AssertHolds
CHECK_DEADLOCK FALSE
