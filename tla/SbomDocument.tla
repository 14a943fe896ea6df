---------------------------- MODULE SbomDocument ----------------------------
(***************************************************************************)
(* From an SPDX document to the table of hashes the kernel consults:       *)
(* ParseFiles and its filters (internal/sbom/sbom.go), the loop of         *)
(* populateExpectedHashes that fills an inner map (internal/attest/ima.go) *)
(* and the key attest_file looks up (gadgets/sigward/program.bpf.c).       *)
(*                                                                         *)
(* A file name is the sequence strings.Split(name, "/") returns: "/bin/x"  *)
(* is <<"", "bin", "x">>, "./bin/x" is <<".", "bin", "x">>, "" is <<"">>.  *)
(* Lengths are counted in components, one for each byte of the code; a key *)
(* leaves out the NUL bytes that pad it.                                   *)
(***************************************************************************)
EXTENDS Naturals, SequencesExt

CONSTANTS
  MaxFilepathLen,        \* 64 in the code, both sides
  MaxAllowedFileHashes,  \* 512 in the code, both sides
  Hashes                 \* checksum values that decode to 32 bytes

ASSUME SizesAssumption ==
  /\ MaxFilepathLen \in Nat \ {0} /\ MaxAllowedFileHashes \in Nat \ {0}
-----------------------------------------------------------------------------
(* ParseFiles. A document is the sequence of its files, each a record      *)
(* [fileName, fileTypes, checksums] with checksums a sequence of           *)
(* [algorithm, checksumValue].                                             *)

isBinary(fileTypes) == "BINARY" \in fileTypes

\* filepath.Clean drops "." and empty components, which are not among these;
\* a name with "..", which it also resolves, is refused below in any case.
isUnderBinOrLib(name) == ToSet(name) \cap {"bin", "lib", "lib64", "sbin"} # {}

isSafeSBOMPath(name) == name # <<"">> /\ ".." \notin ToSet(name)

\* Index of the first SHA256 checksum, 0 if there is none
Sha256At(f) == SelectInSeq(f.checksums, LAMBDA c : c.algorithm = "SHA256")

Kept(f) ==
  /\ isBinary(f.fileTypes) \/ isUnderBinOrLib(f.fileName)
  /\ isSafeSBOMPath(f.fileName)
  /\ Sha256At(f) # 0

FileInfo(f) ==
  [FileName |-> f.fileName, SHA256 |-> f.checksums[Sha256At(f)].checksumValue]

ParseFiles(doc) ==
  LET parsed[n \in 0..Len(doc)] ==
        IF n = 0 THEN <<>>
        ELSE IF Kept(doc[n]) THEN Append(parsed[n - 1], FileInfo(doc[n]))
        ELSE parsed[n - 1]
  IN parsed[Len(doc)]
-----------------------------------------------------------------------------
(* populateExpectedHashes *)

\* Mutant of TrimDotSlash: the SPDX prefix stays.
TrimDotSlash_dropped(name) == name

TrimDotSlash(name) == IF Len(name) > 1 /\ Head(name) = "." THEN Tail(name) ELSE name
IsAbsolute(name) == Len(name) > 1 /\ Head(name) = ""
Normalized(name) ==
  LET trimmed == TrimDotSlash(name)
  IN IF IsAbsolute(trimmed) THEN trimmed ELSE <<"">> \o trimmed

Fits(name) == Len(name) < MaxFilepathLen

\* copy(key[:], name) takes at most the whole array
SbomKey(name) == SubSeq(name, 1, IF Len(name) < MaxFilepathLen THEN Len(name) ELSE MaxFilepathLen)

EmptyTable == [k \in {} |-> ""]

\* Mutant of Put: a full map makes room by evicting (an LRU map).
Put_evicting(table, key, value) ==
  IF key \in DOMAIN table \/ Cardinality(DOMAIN table) < MaxAllowedFileHashes
  THEN [k \in DOMAIN table \union {key} |-> IF k = key THEN value ELSE table[k]]
  ELSE [k \in {key} |-> value]

\* innerMap.Put: an existing key is overwritten, a new one needs room; the
\* error of a full map is logged and the loop goes on
Put(table, key, value) ==
  IF key \in DOMAIN table \/ Cardinality(DOMAIN table) < MaxAllowedFileHashes
  THEN [k \in DOMAIN table \union {key} |-> IF k = key THEN value ELSE table[k]]
  ELSE table

\* Mutant of AddFile: a long name is cut to size instead of being skipped.
AddFile_truncating(table, f) ==
  LET name == Normalized(f.FileName)
      key == IF Fits(name) THEN name ELSE SubSeq(name, 1, MaxFilepathLen - 1)
  IN IF f.SHA256 \in Hashes THEN Put(table, key, f.SHA256) ELSE table

AddFile(table, f) ==
  LET name == Normalized(f.FileName)
  IN IF Fits(name) /\ f.SHA256 \in Hashes
     THEN Put(table, SbomKey(name), f.SHA256)
     ELSE table

FillTable(files) ==
  LET filled[n \in 0..Len(files)] ==
        IF n = 0 THEN EmptyTable ELSE AddFile(filled[n - 1], files[n])
  IN filled[Len(files)]

HashTable(doc) == FillTable(ParseFiles(doc))
-----------------------------------------------------------------------------
(* attest_file's key: bpf_probe_read_kernel_str copies the path up to its  *)
(* NUL, at most MAX_FILEPATH_LEN - 1 bytes of it                           *)

KernelKey(path) ==
  SubSeq(path, 1, IF Len(path) < MaxFilepathLen THEN Len(path) ELSE MaxFilepathLen - 1)

\* bpf_map_lookup_elem(inner, &fkey)
Lookup(table, path, missing) ==
  IF KernelKey(path) \in DOMAIN table THEN table[KernelKey(path)] ELSE missing
=============================================================================
