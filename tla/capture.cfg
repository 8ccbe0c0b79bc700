SPECIFICATION Spec
CONSTANTS
  FileCount = 2
  Shapes <- MCShapes
  MaxRecords = 3
  MaxTurns = 3
  MaxRuns = 2
  MaxBindGap = 1
  Modes = {"once", "live"}
INVARIANTS BindsTheGoverningDecision RewoundGovernsNothing FailureLeavesNoTrace OnceKeepsEveryEdit
PROPERTIES RepeatedRunChangesNothing
CHECK_DEADLOCK FALSE
