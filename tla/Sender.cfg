\* The main loop alone: an application which logs, pings, closes, changes the
\* limit of the queue and may drop the sender.
CONSTANTS
  Threads <- NoThreads
  MainLogs = TRUE
  Lengths <- EmptyAndLong
  MaxMessages = 4
  HeaderSize = 1
  PrefixSize = 1
  PipeCapacity = 2
  PipeBuf = 2
  Backlog = 2
  Backlogs <- OtherBacklogs
  KeepsReadfd = FALSE
  Pings = TRUE
  Disposes = TRUE
SPECIFICATION FairSpec
INVARIANTS NothingLost OneWatch
PROPERTIES WholePackets EventuallySent EventuallyClosed
CHECK_DEADLOCK FALSE
