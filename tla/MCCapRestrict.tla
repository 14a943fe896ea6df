---------------------------- MODULE MCCapRestrict ----------------------------
(* CapRestrict for TLC: a few threads and fewer records. *)
EXTENDS CapRestrict, TLC

CONSTANTS t1, t2

\* All threads start alike.
Symmetry == Permutations(Threads)
=============================================================================
