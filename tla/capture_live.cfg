SPECIFICATION Spec
CONSTANTS
  FileCount = 1
  Shapes <- MCEdits
  MaxRecords = 3
  MaxTurns = 3
  MaxRuns = 0
  MaxBindGap = 1
  Modes = {"live"}
INVARIANTS EveryEditHasItsRow
CHECK_DEADLOCK FALSE
