\* Two gadgets that print, ring buffers with room for one event.
SPECIFICATION FairSystemSpec
CONSTANTS
  app = app
  own = own
  bare = bare
  d1 = d1
  Configs <- Starts
  Containers = {app, own, bare}
  NsOf <- NamespaceOf
  DigestOf <- ImageDigestOf
  Digests = {d1}
  Namespaces <- NamespaceNames
  Blank = Blank
  Relabelled = {"shop"}
  NoLabel = NoLabel
  Key = Key
  None = None
  Calls <- CallsMade
  RingRoom = 1
INVARIANTS TypeOK RunsAsConfigured AllOrNothing OnlyForbiddenRefused ForbiddenAreRefused TextsTellTheTruth
PROPERTIES KeepsContract SignalEndsAgent EventsComeOut
