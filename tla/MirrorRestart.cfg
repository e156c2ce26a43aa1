\* The server dies and is started again, is stopped and started, one category.
CONSTANTS
  Names <- OneName
  Levels <- OneLevel
  Modulus = 2
  Reenters = FALSE
  Stops = TRUE
  MaxCalls = 1
  MaxBus = 2
  MaxLives = 2
SPECIFICATION FairMirrorSpec
INVARIANTS InStep
PROPERTIES EventuallyConnected
