SPECIFICATION Spec
CONSTANTS
  None = None
  NoFile = NoFile
  Stray = Stray
  A = A
  B = B
  a1 = a1
  b1 = b1
  s1 = s1
  s2 = s2
  feat = feat
  other = other
  Sids = {s1, s2}
  Pids = {1}
  Jobs = {}
  MaxAt = 1
  Slugs = {feat, other}
  Tasks = {A, B}
  Shas = {a1, b1}
  Orcs = {}
  Teams = {"t"}
  Procs = {p1, p2}
  p1 = p1
  p2 = p2
  Requests <- MCRequests
  Initially <- MCInitially
INVARIANTS NoLostUpdate
PROPERTIES ImplementsStore EveryCallReturns
