\* Two containers of two images, whose SBOMs list the same file differently,
\* and every registry, one tag or attestation of which may change at any
\* time. Events come in order.
\* The second container may reuse the first one's namespace id.
SPECIFICATION SystemSpec
CONSTANTS
  k1 = k1
  k2 = k2
  s1 = s1
  s2 = s2
  Handlers = {h1, h2}
  Containers = {k1, k2}
  MntNs = {m1, m2}
  MapIds = {x1, x2}
  Sboms = {s1, s2}
  Attestable = {s1, s2}
  None = None
  MaxRunning = 2
  MaxCreated = 1
  SerialEvents = TRUE
  FreshNamespaces = TRUE
  RegistryHosts = {"docker.io", "localhost"}
  Events <- TwoImages
  Pulled <- TheirImages
  Digests = {d1, d2}
  Sha256Digests = {d1, d2}
  Documents <- Docs
  Unparsable = Unparsable
  NoSbom = NoSbom
  FetchError = FetchError
  NoTag = NoTag
  NoSpdx = NoTag
  Malformed = Malformed
  MaxChanges = 1
  ExecFiles <- Execs
  MaxFilepathLen = 4
  MaxAllowedFileHashes = 2
  Hashes = {"one", "two"}
  Components = {"", ".", "app", "sh", "usr", "lib", "x"}
  NoTable = NoTable
  NoPath = NoPath
  NotSha256 = NotSha256
  Missing = Missing
SYMMETRY SigwardSymmetry
INVARIANTS JudgedByOwnImage UnmovedTagKeepsManifest
\* Every container is removed in the end and then nothing happens.
CHECK_DEADLOCK FALSE
