SPECIFICATION FairSpec
CONSTANTS
  x = x
  nl = nl
  Byte <- MCByte
  NL = nl
  Files <- MCOneFile
  MaxLen = 3
  MaxGen = 1
  MaxCrashes = 1
  MaxErrors = 1
  MaxStoreFaults = 1
  MaxQueue = 2
  PoliteRewrite = TRUE
INVARIANTS TypeOK TakenExactlyOnce OffsetAtLineEnd NothingLostInFlight IdleMeansCaughtUp
PROPERTIES OffsetMovesForward StaleOffsetHeals
CHECK_DEADLOCK FALSE
