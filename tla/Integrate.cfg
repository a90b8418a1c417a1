SPECIFICATION Spec
CONSTANTS
  None = None
  Revert = Revert
  c1 = c1
  c2 = c2
  Callers = {c1, c2}
  Regions = {"x", "y"}
  FileOf <- MCFileOf
  Contents = {0, 1, 2}
  Typed = {2}
  Chunks <- MCChunks
  Starts <- MCStarts
  MaxEdits = 2
  MaxNonce = 2
INVARIANTS LeftoverProvable
PROPERTIES OkIsExact ForeignKept UserWorkKept CommittedChunkStays EveryCallEnds
CHECK_DEADLOCK FALSE
