SPECIFICATION WatchedSpec
CONSTANTS
  IoThreads = {t1, t2}
  App = app
  MaxSession = 1
  ClientSession = 1
  SerialMax = 2
  Straddle = TRUE
  MaxReads = 2
  MaxData = 1
  ListenMax = 1
  Reconnect = FALSE
  AllowShutdown = FALSE
  MaxCalls = 3
  MaxConns = 2
SYMMETRY Symmetry
INVARIANT RecycledQuiet
PROPERTY ToldAsPromised
CHECK_DEADLOCK FALSE
