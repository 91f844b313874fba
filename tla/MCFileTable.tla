----------------------------- MODULE MCFileTable -----------------------------
(* A small table for TLC. *)
EXTENDS FileTable, TLC

Symmetry == Permutations(Servers)

=============================================================================
