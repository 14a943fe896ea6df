\* The table holds two hashes and keys of three components, documents have up
\* to three files, so that both limits are met and passed.
SPECIFICATION Growth
CONSTANTS
  MaxFilepathLen = 4
  MaxAllowedFileHashes = 2
  Hashes = {"h1", "h2"}
  Components = {"", ".", "..", "app", "bin", "usr", "a", "b"}
  BadHash = "bad"
  NoHash = "none"
  MaxFiles = 3
  Files <- SomeFiles
  KernelPaths <- Paths
INVARIANTS LookupFindsLatest LongPathsFindOnlyTheirPrefix ListedStaysListed
\* A document stops growing at MaxFiles.
CHECK_DEADLOCK FALSE
