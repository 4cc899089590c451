SPECIFICATION Spec
CONSTANTS
  IoThreads = {t1}
  App = app
  MaxSession = 1
  ClientSession = 1
  SerialMax = 2
  Straddle = FALSE
  MaxReads = 1
  MaxData = 0
  ListenMax = 1
  Reconnect = TRUE
  AllowShutdown = FALSE
  MaxCalls = 4
  MaxConns = 2
INVARIANTS ConnectFromInit
CHECK_DEADLOCK FALSE
