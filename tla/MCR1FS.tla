------------------------------- MODULE MCR1FS -------------------------------
(***************************************************************************)
(* Symmetry for the runs of R1FS.                                          *)
(***************************************************************************)
EXTENDS R1FS, TLC

CallSymmetry == Permutations(Calls)
=============================================================================
