SPECIFICATION Spec
CONSTANTS
  MsThreshold = 10
  MaxSecs = 10
  MaxMessages = 4
  Sessions = {1, 2}
  Tools = {"hermes", "opencode", "vscode", "cursor", "zed"}
  StoreOf <- MCStoreOf
  TextAt <- MCTexts
INVARIANTS
  ConversationIsRead
  TurnsKeepTheirOrder
PROPERTIES
  LaterReadsKeepIds
CHECK_DEADLOCK FALSE
