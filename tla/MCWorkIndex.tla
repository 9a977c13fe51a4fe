----------------------------- MODULE MCWorkIndex ----------------------------
(* Small instances of WorkIndex for TLC. *)
EXTENDS WorkIndex, TLC

Symmetry == Permutations(Workers) \cup Permutations(Workspaces)
=============================================================================
