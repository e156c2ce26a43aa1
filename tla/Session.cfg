\* Client objects which start their streams automatically or not.
CONSTANTS
  Objects <- TwoObjects
  MaxCalls = 3
  MaxLives = 2
SPECIFICATION FairSpec
INVARIANTS OneOwner FinalizedInOrder CurrentIsRead
PROPERTIES EventuallyStarted GoneIsClosed
CHECK_DEADLOCK FALSE
