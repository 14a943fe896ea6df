\* Two processes beside the runtime, two pid namespaces, one more thread for
\* each, and room for one process that is being set up.
CONSTANTS
  p1 = p1
  p2 = p2
  runtime = runtime
  Pids = {p1, p2, runtime}
  Runtime = runtime
  PidNs = {hostNs, otherNs}
  HostNs = hostNs
  MaxThreads = 1
  MaxStates = 1
  Enforce = TRUE
  None = None
SYMMETRY Symmetry
SPECIFICATION Spec
INVARIANTS
  TypeOK
  ExemptionIsExact
  OpensAreJudged
CHECK_DEADLOCK FALSE
