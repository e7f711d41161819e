SPECIFICATION Spec
CONSTANTS
  none = none
  NoRegex = none
  Builds <- MCBuilds
  Names <- MCNames
  Args <- MCArgs
  Locs <- MCLocs
  MAX_HASH_ENTRIES = 8
  SAFE_LOAD_FACTOR = 25
INVARIANTS TypeOK CutsInsideText OutputIsRight OneTableComplete RawUnderDecl
CHECK_DEADLOCK FALSE
