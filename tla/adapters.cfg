SPECIFICATION Spec
CONSTANTS
  MsThreshold = 10
  MaxSecs = 10
  MaxRecords = 3
  Tools = {"claude_code", "codex", "copilot", "windsurf", "otel", "vscode", "cursor", "zed", "gemini"}
  Records <- MCRecords
INVARIANTS
  IdsAreUnique
  RepeatsAddNothing
  NothingIsLost
  LiveCoversOnce
  VerdictReachesTheEdit
CHECK_DEADLOCK FALSE
