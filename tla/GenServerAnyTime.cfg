\* SIGTERM reaches any process at any time, fork may fail, and the second child
\* overflows childPIDs.
SPECIFICATION FairSpec
CONSTANTS
  Processes = 3
  Conns = {c1, c2}
  MaxChildren = 1
  QuietStop = FALSE
  ForkMayFail = TRUE
INVARIANTS
  TypeOK
  OnlyListenerAccepts
  RecordedChildrenDie
PROPERTIES
  HandlerEnds
