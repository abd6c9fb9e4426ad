CONSTANTS
  NoFile = NoFile
  Files <- MCFiles
  Garbage <- MCGarbage
  MAX_TABLES = 2
  DEFAULT_DATABASES = 1
  SAVE_SLOTS = 1
  MAX_FAILURES = 2
SPECIFICATION Spec
INVARIANTS
  ServingTablesHaveRows
