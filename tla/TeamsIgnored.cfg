SPECIFICATION TeamsSpec
CONSTANTS
  p1 = p1  p2 = p2  orcaSite = orcaSite  goSite = goSite  side = side
  Procs = {p1, p2}
  Name = "ivory"
  Other = {"other"}
  Sites = {orcaSite, goSite, side}
  OrcaSite = orcaSite
  GoSite = goSite
  Beginnings <- MCBeginnings
  Negated = {}
  Tracked = {}
  MaxCalls = 2
  MaxOrca = 0
  MaxWrites = 0
SYMMETRY ProcSymmetry
INVARIANTS RulesIgnored
CHECK_DEADLOCK FALSE
