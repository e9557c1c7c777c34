------------------------- MODULE MCDatasetVersioning -------------------------
(***************************************************************************)
(* Instances of DatasetVersioning for TLC.                                 *)
(***************************************************************************)
EXTENDS DatasetVersioning, TLC

IdSymmetry == Permutations(Samples) \cup Permutations(CommitIds) \cup Permutations(RefIds) \cup Permutations(Writers)

=============================================================================
