SPECIFICATION FairSpec
CONSTANTS
  x = x
  nl = nl
  Byte <- MCByte
  NL = nl
  Files <- MCTwoFiles
  MaxLen = 2
  MaxGen = 0
  MaxCrashes = 0
  MaxErrors = 0
  MaxStoreFaults = 0
  MaxQueue = 1
  PoliteRewrite = TRUE
PROPERTIES ImplementsLineFeed
CHECK_DEADLOCK FALSE
