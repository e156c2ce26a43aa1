\* A queue of one message.
CONSTANTS
  Threads <- NoThreads
  MainLogs = TRUE
  Lengths <- EmptyAndLong
  MaxMessages = 6
  HeaderSize = 1
  PrefixSize = 1
  PipeCapacity = 3
  PipeBuf = 2
  Backlog = 1
  Backlogs <- NoBacklogs
  KeepsReadfd = FALSE
  Pings = TRUE
  Disposes = FALSE
  Modulus = 16
  StartIndex = 3
  MaxPaused = 2
  SkipReactions <- StayOpen
  MessageReactions <- AnyReaction
SPECIFICATION StreamSpec
INVARIANTS Accounting
CHECK_DEADLOCK FALSE
