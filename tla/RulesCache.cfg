SPECIFICATION RulesSpec
CONSTANTS
  old = old  mid = mid  new = new  dev = dev
  oldText = oldText  midText = midText  newText = newText  devText = devText
  mine = mine
  Roots <- MCRoots
  Checkouts = {dev}
  Texts <- MCTexts
  NoText = NoText
  RulesAt <- MCRulesAt
  VersionIn <- MCVersionIn
  Sessions = {s1, s2}
  NoSession = NoSession
  NoRoot = NoRoot
  MaxSyncs = 3
  MaxRulesEdits = 1
  MaxInstalls = 1
  MaxFaults = 1
SYMMETRY MCSymmetry
INVARIANTS KeyGrounded
PROPERTIES EditsBackedUp ForwardOnly
CHECK_DEADLOCK FALSE
