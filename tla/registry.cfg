SPECIFICATION Spec
CONSTANTS
  PathOf <- MCPaths
  MaxFailures = 1
  MaxRemovals = 1
PROPERTIES TriedIsObserved StaysObserved
CHECK_DEADLOCK FALSE
