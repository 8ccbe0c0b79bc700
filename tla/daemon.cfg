SPECIFICATION DaemonFairSpec
CONSTANTS
  x = x
  nl = nl
  Byte <- MCByte
  NL = nl
  Files <- MCTwoFiles
  MaxLen = 2
  MaxGen = 0
  MaxCrashes = 1
  MaxErrors = 0
  MaxStoreFaults = 0
  MaxQueue = 1
  PoliteRewrite = TRUE
  SinkKinds = {"stdout", "sqlite", "file"}
  MaxSinkErrors = 1
  MaxStops = 1
INVARIANTS StoredInOrderOnce NothingSkippedUnlessItFailed
PROPERTIES CtrlCStops
CHECK_DEADLOCK FALSE
