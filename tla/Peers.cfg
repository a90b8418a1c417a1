SPECIFICATION Spec
CONSTANTS
  None = None
  main = main
  feat = feat
  fix = fix
  mainTree = mainTree
  workTree = workTree
  other = other
  s1 = s1
  s2 = s2
  s3 = s3
  alpha = alpha
  bravo = bravo
  Merge = main
  Branches = {main, feat, fix}
  Main = mainTree
  Checkouts = {mainTree, workTree}
  Elsewhere = other
  Pids = {1, 2, 3}
  Sids = {s1, s2, s3}
  Names = {alpha, bravo}
  Conventional = {alpha}
  Starts <- MCStarts
  Worlds <- MCWorlds
  Requests <- MCRequests
  MaxCalls = 1
  MaxMoves = 2
  MaxMissed = 1
INVARIANTS
  StandingGrounded
  StandingAnswered
  BoundIsKept
  RunningMainKeptAlone
CHECK_DEADLOCK FALSE
