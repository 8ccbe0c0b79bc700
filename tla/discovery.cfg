SPECIFICATION Spec
CONSTANTS
  Catalog <- MCCatalog
  WrittenBy <- MCWrittenBy
  ExtOf <- MCExtOf
  Rollouts <- MCRollouts
  WordsIn <- MCWordsIn
  SlugDirs <- MCSlugDirs
  Env <- MCEnv
  AllSettings <- MCSettings
  Unset <- MCUnset
  MaxFiles = 2
  MaxRuns = 2
INVARIANTS OneAdapterPerFile NoSessionIsMissed ScopeIsKept
CHECK_DEADLOCK FALSE
