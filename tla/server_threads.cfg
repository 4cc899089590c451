SPECIFICATION WatchedSpec
CONSTANTS
  IoThreads = {t1, t2}
  App = app
  MaxSession = 2
  ClientSession = 0
  SerialMax = 2
  Straddle = FALSE
  MaxReads = 1
  MaxData = 0
  ListenMax = 1
  Reconnect = FALSE
  AllowShutdown = FALSE
  MaxCalls = 0
  MaxConns = 2
SYMMETRY Symmetry
INVARIANTS TypeOK SingleOwner NoServerComplaint AcceptsRefilled ListeningExact ListenBound ViewSettles
PROPERTIES NoStaleHandler ToldAsPromised
CHECK_DEADLOCK FALSE
