\* Events in any order: the smallest instance in which REMOVED overtakes
\* the CREATED event of the same container.
SPECIFICATION Spec
CONSTANTS
  Handlers = {h1, h2}
  Containers = {k1}
  MntNs = {m1}
  MapIds = {x1, x2, x3, x4}
  Sboms = {s1, s2}
  Attestable = {s1}
  None = None
  MaxRunning = 2
  MaxCreated = 1
  SerialEvents = FALSE
  FreshNamespaces = TRUE
SYMMETRY OperatorSymmetry
INVARIANTS RemovedIsCleanedUp
\* Every container is removed in the end and then nothing happens.
CHECK_DEADLOCK FALSE
