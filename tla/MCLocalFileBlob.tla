--------------------------- MODULE MCLocalFileBlob ---------------------------
(* An instance of LocalFileBlob for TLC. *)
EXTENDS LocalFileBlob, TLC

Symmetry == Permutations(Procs)
=============================================================================
