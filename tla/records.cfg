SPECIFICATION Spec
CONSTANTS
  Byte = {x, nl}
  NL = nl
  MaxLen = 7
INVARIANTS SplitMatchesReference PollsMatchOneReading
CHECK_DEADLOCK FALSE
