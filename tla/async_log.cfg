SPECIFICATION FairSpec
CONSTANTS
  Producers = {p1, p2}
  MaxItems = 3
INVARIANTS InOrder WrittenAtStop
PROPERTIES AllWritten DestroyReturns
CHECK_DEADLOCK FALSE
