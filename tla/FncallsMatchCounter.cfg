SPECIFICATION Spec
CONSTANTS
  none = none
  NoRegex = none
  Builds <- TwoTables
  Names <- MCNames
  Args <- MCArgs
  Locs <- MCLocs
  MAX_HASH_ENTRIES = 8
  SAFE_LOAD_FACTOR = 25
INVARIANTS EveryMatchHandled
CHECK_DEADLOCK FALSE
