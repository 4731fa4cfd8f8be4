\* The way the study uses the server: it is stopped while its clients stream.
SPECIFICATION FairSpec
CONSTANTS
  Processes = 3
  Conns = {c1, c2}
  MaxChildren = 2
  QuietStop = TRUE
  ForkMayFail = FALSE
INVARIANTS
  PortIsFree
  OnlyChildrenSignalled
PROPERTIES
  StopEndsClients
