------------------------------ MODULE MCPipeline ------------------------------
(* Small instances of Pipeline for TLC, with the inductive invariant of its *)
(* proofs; the bounds are in the .cfg files.                                *)
EXTENDS PipelineProofs
=============================================================================
