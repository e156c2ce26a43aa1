\* Another thread logs while the main thread writes, logs, pings and while the
\* server closes; the server keeps its copy of the reading end.
CONSTANTS
  Threads <- OneThread
  MainLogs = TRUE
  Lengths <- EmptyAndShort
  MaxMessages = 4
  HeaderSize = 1
  PrefixSize = 1
  PipeCapacity = 2
  PipeBuf = 2
  Backlog = 2
  Backlogs <- NoBacklogs
  KeepsReadfd = TRUE
  Pings = TRUE
  Disposes = FALSE
SPECIFICATION Spec
INVARIANTS NoLostWakeup ByeIsLast NewestKept
CHECK_DEADLOCK FALSE
