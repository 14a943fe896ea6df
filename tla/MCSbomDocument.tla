--------------------------- MODULE MCSbomDocument ---------------------------
(***************************************************************************)
(* An instance of SbomGrowth: names of every shape the code treats apart.  *)
(***************************************************************************)
EXTENDS SbomGrowth, TLC

CONSTANT BadHash   \* does not decode to 32 bytes

FileNames ==
  {<<"", "app">>, <<".", "app">>, <<"", "bin", "a">>, <<"bin", "a">>,
   <<".", "", "bin", "a">>, <<".", "usr", "bin">>, <<"usr", "bin", "a">>,
   <<"bin", "..", "app">>, <<"">>}
Paths ==
  {<<"", "app">>, <<"", "bin", "a">>, <<"", "usr", "bin">>, <<"", "usr", "bin", "a">>,
   <<"", "usr", "bin", "a", "b">>, <<"", "bin", "a", "b">>}

Sha1 == [algorithm |-> "SHA1", checksumValue |-> "other"]
Sha256(v) == [algorithm |-> "SHA256", checksumValue |-> v]

\* Every name with every hash as a binary, and as a text; and files that
\* carry no SHA256, or one of the wrong length before another one
SomeFiles ==
  [fileName : FileNames, fileTypes : {{"BINARY", "OTHER"}},
   checksums : {<<Sha1, Sha256(v)>> : v \in Hashes}]
  \union [fileName : FileNames, fileTypes : {{"TEXT"}},
          checksums : {<<Sha1, Sha256(v)>> : v \in {CHOOSE h \in Hashes : TRUE}}]
  \union [fileName : {<<"bin", "a">>}, fileTypes : {{"BINARY"}},
          checksums : {<<>>, <<Sha1>>, <<Sha256(BadHash), Sha256(CHOOSE h \in Hashes : TRUE)>>}]
=============================================================================
