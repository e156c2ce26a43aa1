\* Two categories of one server: the answer of GetAll, the order of the signals,
\* and handlers of the application which call the API from the inside of others.
CONSTANTS
  Names <- TwoNames
  Levels <- OneLevel
  Modulus = 3
  Reenters = TRUE
  Stops = FALSE
  MaxCalls = 3
  MaxBus = 1
  MaxLives = 1
SPECIFICATION MirrorSpec
INVARIANTS InStep SignalsAreExpected TypeOK IdsAreNotZero AnnouncedOrPending
