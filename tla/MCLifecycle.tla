---------------------------- MODULE MCLifecycle -----------------------------
(***************************************************************************)
(* Three runs of the program: enough for one to serve, one to start beside *)
(* it and one to come after, or to follow two that were killed.            *)
(***************************************************************************)
EXTENDS Lifecycle, TLC

CONSTANTS p1, p2, p3, i1, i2, i3, i4

Symmetry == Permutations(Proc) \cup Permutations(Inode)
=============================================================================
