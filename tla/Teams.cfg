SPECIFICATION TeamsSpec
CONSTANTS
  p1 = p1  p2 = p2  orcaSite = orcaSite  goSite = goSite  side = side
  Procs = {p1, p2}
  Name = "ivory"
  Other = {"other"}
  Sites = {orcaSite, goSite, side}
  OrcaSite = orcaSite
  GoSite = goSite
  Beginnings <- MCBeginnings
  Negated = {side}
  Tracked = {}
  MaxCalls = 3
  MaxOrca = 1
  MaxWrites = 1
SYMMETRY ProcSymmetry
VIEW MCView
INVARIANTS LeadSetUp
PROPERTIES NothingTaken TeamNotGuessed
CHECK_DEADLOCK FALSE
