SPECIFICATION UpkeepSpec
CONSTANTS
  first = first  second = second  dev = dev
  firstText = firstText  secondText = secondText  devText = devText  mine = mine
  Roots <- MCRoots
  Checkouts = {dev}
  Texts <- MCTexts
  NoText = NoText
  RulesAt <- MCRulesAt
  VersionIn <- MCVersionIn
  Trackers = {"beads", "none", "jira"}
  ShippedTrackers = {"beads", "none"}
  RootOf <- MCRootOf
  Settings <- MCSettings
  PlainLanguages = {"English", "Ukrainian"}
  Home <- MCHome
  FlagSets <- MCFlagSets
  Choices <- MCChoices
  Beginnings <- MCBeginnings
  MaxEdits = 2
  MaxDeaths = 1
INVARIANTS LegacyKept AdapterFollows DoneTruthful
PROPERTIES PersonsWorkKept LoopEnds
CHECK_DEADLOCK FALSE
