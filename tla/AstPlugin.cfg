SPECIFICATION Spec
CONSTANTS
  f1 = f1  f2 = f2  f3 = f3
  Functions = {f1, f2, f3}
  InMain = {f1, f2}
  WithBody = {f1, f3}
  Arguments <- MCArguments
  CallbackBound = 3
INVARIANTS TypeOK LogIsComplete OwnDescriptors NothingLeftBehind
PROPERTY RecordsAreFresh
CHECK_DEADLOCK FALSE
