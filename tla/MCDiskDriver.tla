----------------------------- MODULE MCDiskDriver -----------------------------
(* Instances of DiskDriver for TLC. *)
EXTENDS DiskDriver, TLC

Symmetry == Permutations(Writers) \cup Permutations(Readers)
=============================================================================
