\* Events of a container arrive in order and a namespace id is not reused
\* before the REMOVED event of the container it named. expected_hashes has
\* room for one entry less than there are namespaces, so that it fills up.
SPECIFICATION Spec
CONSTANTS
  Handlers = {h1, h2, h3}
  Containers = {k1, k2}
  MntNs = {m1, m2}
  MapIds = {x1, x2, x3, x4}
  Sboms = {s1, s2}
  Attestable = {s1, s2}
  None = None
  MaxRunning = 1
  MaxCreated = 2
  SerialEvents = TRUE
  FreshNamespaces = TRUE
SYMMETRY OperatorSymmetry
INVARIANTS RemovedIsCleanedUp
PROPERTIES KeepsPolicy
\* Every container is removed in the end and then nothing happens.
CHECK_DEADLOCK FALSE
