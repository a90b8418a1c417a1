SPECIFICATION Spec
CONSTANTS
  None = None
  NoFile = NoFile
  otter = otter
  frog = frog
  main = main
  den = den
  pond = pond
  fixa = fixa
  fixb = fixb
  A = A
  B = B
  w1 = w1
  n1 = n1
  Merge = main
  Branches = {main, den, pond, fixa, fixb}
  Teams = {otter, frog}
  OwnBranch <- MCOwn
  Tasks = {A, B}
  NameOf <- MCNames
  Work = {w1, n1}
  New = {n1}
  Requests <- MCRequests
  Begun <- MCBegun
  FirstFiles <- MCFiles
  MaxCommits = 2
  MaxCalls <- MCCalls
  Considerate = TRUE
INVARIANTS NothingLost WorkStaysHome ParksFindable RangeIsOwn
PROPERTIES HistoryKept
CHECK_DEADLOCK FALSE
