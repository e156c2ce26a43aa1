\* Either back-end, everybody may do everything.
CONSTANTS
  Names <- ThreeNames
  Categories <- TwoCategories
  Defaults <- OneDefault
  Peers <- TwoPeers
  Programs <- OneProgram
  Servers <- TwoServers
  Policies <- OnePolicy
  Tool = ":1.1"
  Other = ":1.2"
  Calls <- OtherDoes
  MaxSpent = 0
  MaxLives = 1
  MaxSignals = 1
SPECIFICATION Spec
INVARIANTS CategoryLevelIsSet
CHECK_DEADLOCK FALSE
