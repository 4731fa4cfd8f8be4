\* Two CPUs with their idle threads and one more thread, two queues, one packet.
SPECIFICATION Spec
CONSTANTS
  Cpus = {c1, c2}
  Threads = {idle, p1}
  Idle = idle
  Qdiscs = {q1, q2}
  Skbs = {x1}
  NULL = NULL
SYMMETRY Symmetry
INVARIANTS
  TypeOK
  RecordsAreTrue
  LeftIsEarly
