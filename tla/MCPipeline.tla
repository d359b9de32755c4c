----------------------------- MODULE MCPipeline -----------------------------
(* Small instances of Pipeline for TLC. *)
EXTENDS Pipeline, TLC

MCSymmetry == Permutations(Batches) \cup Permutations(Workers)
=============================================================================
