\* Two threads log while senders come, go and fail in the middle of it.
CONSTANTS
  s1 = s1
  s2 = s2
  s3 = s3
  t1 = t1
  t2 = t2
  Main = main
  Threads <- OneThread
  Senders <- TwoSenders
  MaxCalls = 3
  Modulus = 2
  Backlogs <- SomeBacklogs
SPECIFICATION Spec
SYMMETRY SenderSymmetry
INVARIANTS SendersMatch Broadcast Consecutive
\* Nothing happens any more once the core is disposed of and all have closed.
CHECK_DEADLOCK FALSE
