SPECIFICATION FairSpec
CONSTANTS
  OsSockets = {o1}
  MaxSocks = 2
  MaxGroups = 2
  MaxGroupSize = 1
  Threads = {t1, t2}
  Requests = {{"in", "oneshot"}}
  Ready = {"receive"}
  MaxCtls = 3
  MaxFailures = 1
INVARIANTS FreedAlone AssertionsHold FreedQuiet QueuesRight WantedWatched
PROPERTIES DueIsTold CloseReturns
CHECK_DEADLOCK FALSE
