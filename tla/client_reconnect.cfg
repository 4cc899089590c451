SPECIFICATION FairSpec
CONSTANTS
  IoThreads = {t1, t2}
  App = app
  MaxSession = 1
  ClientSession = 1
  SerialMax = 2
  Straddle = TRUE
  MaxReads = 2
  MaxData = 0
  ListenMax = 2
  Reconnect = TRUE
  AllowShutdown = FALSE
  MaxCalls = 1
  MaxConns = 2
INVARIANT OneAttempt
PROPERTY ShutIsRecycled
CHECK_DEADLOCK FALSE
