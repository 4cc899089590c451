SPECIFICATION FairSpec
CONSTANTS
  BufSize = 11
  BodySizes = {1, 6}
  MsgId = 4
  MaxCalls = 3
  MaxConns = 1
PROPERTIES SentInTheEnd
CHECK_DEADLOCK FALSE
