------------------------------- MODULE MCJobs -------------------------------
(* Small instances of Jobs for TLC. *)
EXTENDS JobsRefinement, TLC

CONSTANTS RejectedByOld, RejectedByNew  \* what each package version rejects

MCRejected == [v \in Versions |-> IF v = 0 THEN RejectedByOld ELSE RejectedByNew]

Symmetry == Permutations(Workers)
=============================================================================
