\* One connection more than childPIDs has room for.
SPECIFICATION Spec
CONSTANTS
  Processes = 4
  Conns = {c1, c2, c3}
  MaxChildren = 2
  QuietStop = TRUE
  ForkMayFail = FALSE
INVARIANTS
  ListenerHoldsReady
