\* The command line tool, another client, restarts, refusals and signals.
CONSTANTS
  Names <- ThreeNames
  Categories <- TwoCategories
  Defaults <- OneDefault
  Peers <- TwoPeers
  Programs <- SomePrograms
  Servers <- TwoServers
  Policies <- SomePolicies
  Tool = ":1.1"
  Other = ":1.2"
  Calls <- OtherDoes
  MaxSpent = 1
  MaxLives = 2
  MaxSignals = 2
SPECIFICATION FairSpec
INVARIANTS SuccessIsReal NothingAfterRefusal ResetIsComplete
PROPERTIES QuitsWhenTold Finishes
CHECK_DEADLOCK FALSE
