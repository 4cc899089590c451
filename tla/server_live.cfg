SPECIFICATION FairSpec
CONSTANTS
  IoThreads = {t1, t2}
  App = app
  MaxSession = 1
  ClientSession = 0
  SerialMax = 2
  Straddle = FALSE
  MaxReads = 1
  MaxData = 0
  ListenMax = 2
  Reconnect = FALSE
  AllowShutdown = TRUE
  MaxCalls = 0
  MaxConns = 2
PROPERTIES EndIsTold ShutdownEnds
CHECK_DEADLOCK FALSE
