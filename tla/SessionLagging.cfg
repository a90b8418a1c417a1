SPECIFICATION Spec
CONSTANTS
  None = None
  NoFile = NoFile
  s1 = s1
  s2 = s2
  s3 = s3
  wt1 = wt1
  Sids = {s1, s2, s3}
  Pids = {1, 2}
  Jobs = {}
  MaxAt = 2
  Slugs = {wt1}
  Tasks = {"A"}
  Shas = {1}
  Orcs = {}
  Teams = {}
  Initially <- MCInitially
  Lags = TRUE
  Garbles = FALSE
  Shares = TRUE
SYMMETRY SidSymmetry
INVARIANTS ProofTruthful
PROPERTIES CarryIsProven
CHECK_DEADLOCK FALSE
