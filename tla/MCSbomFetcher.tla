--------------------------- MODULE MCSbomFetcher ---------------------------
(* Model-checking instance of SbomFetcher; the .cfg file gives the sizes. *)
EXTENDS SbomFetcher, TLC

\* Callers, images and SBOMs are interchangeable: no action and no safety
\* property names one.
FetcherSymmetry ==
  Permutations(Callers) \union Permutations(Images) \union Permutations(Sboms)
=============================================================================
