\* Three callers, so that a leader can have a follower while the third
\* fetches another image or arrives late, and one registry change. No tag
\* and no SPDX layer come to the same answer: one value stands for both.
SPECIFICATION Spec
CONSTANTS
  Callers = {c1, c2, c3}
  Images = {i1, i2}
  Digests = {d1, d2}
  Sha256Digests = {d1}
  Sboms = {s1}
  NoImage = NoImage
  NoSbom = NoSbom
  FetchError = FetchError
  NoTag = NoTag
  NoSpdx = NoTag
  Malformed = Malformed
  None = None
  MaxChanges = 1
SYMMETRY FetcherSymmetry
INVARIANTS TypeOK CacheIsGenuine OneFlightPerImage
PROPERTIES KeepsContract
