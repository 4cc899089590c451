SPECIFICATION FairSpec
CONSTANTS
  BufSize = 11
  BodySizes = {1, 2, 6}
  MsgId = 4
  MaxCalls = 4
  MaxConns = 2
INVARIANTS Intact NeverReordered WriterAwake
PROPERTIES AllSent
CHECK_DEADLOCK FALSE
