\* A buffer that overflows.
SPECIFICATION Spec
CONSTANTS
  Cpus = {c1, c2}
  Skbs = {x1, x2}
  MaxEvents = 4
  RingSize = 1
  Window = 1
  MaxDelay = 2
  MaxOther = 1
SYMMETRY Symmetry
CHECK_DEADLOCK FALSE
INVARIANTS
  LossIsNoticed
