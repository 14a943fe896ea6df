----------------------------- MODULE SbomGrowth -----------------------------
(***************************************************************************)
(* Documents grown file by file, and what the kernel finds in the table    *)
(* made of each, compared with what the document says (SbomListing).       *)
(***************************************************************************)
EXTENDS SbomListing

CONSTANTS
  Files,        \* the files documents are made of
  KernelPaths,  \* the paths looked up
  NoHash,       \* nothing found
  MaxFiles      \* bound on a document's length

ASSUME GrowthConstants ==
  /\ Files \subseteq SpdxFiles /\ MaxFiles \in Nat
  /\ \A path \in KernelPaths : KernelPath(path)

VARIABLE listing

NothingListed == listing = <<>>
AddEntry(f) == Len(listing) < MaxFiles /\ listing' = Append(listing, f)
Grows == \E f \in Files : AddEntry(f)
Growth == NothingListed /\ [][Grows]_listing

Found(path) == Lookup(HashTable(listing), path, NoHash)

\* A kernel path that is short enough finds the hash of the last file that
\* vouches for it, and nothing else; only a document with more names than
\* the table has room for leaves out the later ones (ParseFiles,
\* populateExpectedHashes and attest_file agree on names, keys and limits).
LookupFindsLatest ==
  \A path \in KernelPaths :
    Len(path) < MaxFilepathLen =>
      IF Placed(listing, path) THEN Says(listing, path, Found(path)) ELSE Found(path) = NoHash

\* A kernel path too long for a key is looked up under its beginning: it
\* finds nothing, or the hash of a file listed under exactly that beginning,
\* never one listed for itself (the kernel reads MAX_FILEPATH_LEN - 1 bytes).
LongPathsFindOnlyTheirPrefix ==
  \A path \in KernelPaths :
    Len(path) >= MaxFilepathLen =>
      LET prefix == SubSeq(path, 1, MaxFilepathLen - 1)
      IN \/ Found(path) = NoHash
         \/ Placed(listing, prefix) /\ Says(listing, prefix, Found(path))

\* Adding a file to a document never takes away a path that was listed, even
\* when the inner map is full (innerMap.Put fails, and the loop goes on).
ListedStaysListed ==
  \A n \in DOMAIN listing :
    DOMAIN HashTable(SubSeq(listing, 1, n)) \subseteq DOMAIN HashTable(listing)
=============================================================================
