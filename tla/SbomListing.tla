---------------------------- MODULE SbomListing ----------------------------
(***************************************************************************)
(* What an SPDX document says of the files of an image, by itself: file by *)
(* file, without the keys, the table and the loops of SbomDocument. These  *)
(* are the definitions that what the kernel finds is compared with.        *)
(***************************************************************************)
EXTENDS SbomDocument

CONSTANT Components   \* what strings.Split can leave between two slashes

ASSUME ComponentsAssumption == {"", "."} \subseteq Components

\* What json.Unmarshal returns
Names == Seq(Components) \ {<<>>}
Checksums == [algorithm : STRING, checksumValue : STRING]
SpdxFiles == [fileName : Names, fileTypes : SUBSET STRING, checksums : Seq(Checksums)]
Documented == Seq(SpdxFiles)

\* A path as the kernel writes it: absolute, and nothing left to resolve
KernelPath(path) ==
  /\ path \in Names /\ Len(path) > 1 /\ path[1] = ""
  /\ \A i \in 2..Len(path) : path[i] \notin {"", ".", ".."}

\* "/bin/x" may be listed as /bin/x, bin/x, ./bin/x or .//bin/x.
Spellings(path) == {path, Tail(path), <<".">> \o Tail(path), <<".">> \o path}

\* h is the file's first SHA256, and a usable one
Hashed(f, h) ==
  /\ h \in Hashes
  /\ \E i \in DOMAIN f.checksums :
       /\ f.checksums[i] = [algorithm |-> "SHA256", checksumValue |-> h]
       /\ \A j \in 1..(i - 1) : f.checksums[j].algorithm # "SHA256"

\* The file vouches for the path with hash h: it is executable by its type or
\* by its place.
Vouches(f, path, h) ==
  /\ f.fileName \in Spellings(path)
  /\ \/ "BINARY" \in f.fileTypes
     \/ \E i \in DOMAIN f.fileName : f.fileName[i] \in {"bin", "lib", "lib64", "sbin"}
  /\ Hashed(f, h)

\* The names the first n files ask room for in a table
AsksRoom(f) == Kept(f) /\ Fits(Normalized(f.fileName)) /\ \E h \in Hashes : Hashed(f, h)
Asked(doc, n) == {Normalized(doc[m].fileName) : m \in {i \in 1..n : AsksRoom(doc[i])}}

\* A file vouches for the path while there is room.
Placed(doc, path) ==
  \E n \in DOMAIN doc :
    /\ \E h \in Hashes : Vouches(doc[n], path, h)
    /\ Cardinality(Asked(doc, n - 1)) < MaxAllowedFileHashes

\* The last file that vouches for the path does so with h.
Says(doc, path, h) ==
  \E n \in DOMAIN doc :
    /\ Vouches(doc[n], path, h)
    /\ \A m \in (n + 1)..Len(doc), g \in Hashes : ~Vouches(doc[m], path, g)
=============================================================================
