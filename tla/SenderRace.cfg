\* The assertion of dbus_log_sender_send with another thread logging.
CONSTANTS
  Threads <- OneThread
  MainLogs = FALSE
  Lengths <- EmptyAndShort
  MaxMessages = 4
  HeaderSize = 1
  PrefixSize = 1
  PipeCapacity = 2
  PipeBuf = 2
  Backlog = 2
  Backlogs <- NoBacklogs
  KeepsReadfd = FALSE
  Pings = FALSE
  Disposes = FALSE
SPECIFICATION Spec
INVARIANTS SendFindsNoCurrent
CHECK_DEADLOCK FALSE
