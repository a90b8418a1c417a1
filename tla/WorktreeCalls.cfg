SPECIFICATION Spec
CONSTANTS
  None = None
  c1 = c1
  c2 = c2
  main = main
  fix = fix
  feat = feat
  x = x
  y = y
  Merge = main
  Branches = {main, fix, feat}
  Names = {x, y}
  OwnRef <- MCOwn
  NewRef <- MCNew
  Work = {w1}
  Callers = {c1, c2}
  Requests <- MCRequests
  MaxCalls = 2
  MaxTasks = 1
  Considerate = TRUE
SYMMETRY Alike
PROPERTIES
  WorkKept
  FailedCreateUndone
  TaskGoesWithTree
CHECK_DEADLOCK FALSE
