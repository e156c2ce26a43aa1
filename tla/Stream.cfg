\* A sender and a receiver on a pipe which is smaller than one packet.
CONSTANTS
  Threads <- NoThreads
  MainLogs = TRUE
  Lengths <- EmptyAndLong
  MaxMessages = 5
  HeaderSize = 1
  PrefixSize = 1
  PipeCapacity = 3
  PipeBuf = 2
  Backlog = 2
  Backlogs <- NoBacklogs
  KeepsReadfd = FALSE
  Pings = TRUE
  Disposes = FALSE
  Modulus = 16
  StartIndex = 3
  MaxPaused = 1
  SkipReactions <- AnyReaction
  MessageReactions <- AnyReaction
SPECIFICATION FairStream
INVARIANTS Accounting
PROPERTIES NothingTakenWhilePaused ImplementsDelivery EventuallyDelivered EventuallyShut
CHECK_DEADLOCK FALSE
