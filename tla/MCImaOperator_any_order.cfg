\* Events of a container arrive in any order and namespace ids are reused at
\* once. Two CREATED and a REMOVED can run together, and both namespaces can
\* have an entry in expected_hashes.
SPECIFICATION Spec
CONSTANTS
  Handlers = {h1, h2, h3}
  Containers = {k1, k2}
  MntNs = {m1, m2}
  MapIds = {x1, x2, x3, x4}
  Sboms = {s1, s2}
  Attestable = {s1}
  None = None
  MaxRunning = 2
  MaxCreated = 2
  SerialEvents = FALSE
  FreshNamespaces = FALSE
SYMMETRY OperatorSymmetry
INVARIANTS TypeOK FdHasOneOwner InstalledMapsAreWhole InnerMapsArePrivate
\* Every container is removed in the end and then nothing happens.
CHECK_DEADLOCK FALSE
