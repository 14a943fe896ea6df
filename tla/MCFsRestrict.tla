---------------------------- MODULE MCFsRestrict ----------------------------
(* FsRestrict for TLC: a runtime and the processes it starts. *)
EXTENDS FsRestrict, TLC

CONSTANTS p1, p2, runtime

\* The processes but the runtime are interchangeable: all start as unused ids.
Symmetry == Permutations({p1, p2})
=============================================================================
