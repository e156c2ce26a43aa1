\* Two clients, either back-end: opens, closes, departures and the service name.
CONSTANTS
  Clients <- TwoClients
  Modulus = 4
  FirstId = 3
  MaxCalls = 2
  MaxStops = 1
SPECIFICATION FairSpec
INVARIANTS OneStreamPerPeer WatchesMatch VanishedIsForgotten RulesInStep AbsenceIsNoticed
PROPERTIES VanishedAreForgotten StreamsOfTheGoneEnd
CHECK_DEADLOCK FALSE
