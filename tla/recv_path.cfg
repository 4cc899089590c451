SPECIFICATION FairSpec
CONSTANTS
  HeaderSize = 2
  RecvBufSize = 6
  BodySizes = {0, 2}
  Messages = 3
  MaxReads = 3
INVARIANTS DeliveredIntact Accounted
PROPERTIES AllDelivered
CHECK_DEADLOCK FALSE
