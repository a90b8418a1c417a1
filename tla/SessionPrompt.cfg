SPECIFICATION HistorySpec
CONSTANTS
  None = None
  NoFile = NoFile
  s1 = s1
  s2 = s2
  s3 = s3
  wt1 = wt1
  Sids = {s1, s2, s3}
  Pids = {1, 2}
  Jobs = {"j"}
  MaxAt = 2
  Slugs = {wt1}
  Tasks = {"A"}
  h1 = h1
  h2 = h2
  Shas = {h1, h2}
  Orcs = {}
  Teams = {}
  Initially <- MCInitially
  Lags = FALSE
  Garbles = TRUE
  Shares = FALSE
SYMMETRY MCSymmetry
VIEW MCView
PROPERTIES ListedBoundaryHeld BoundaryFollowsClear
CHECK_DEADLOCK FALSE
