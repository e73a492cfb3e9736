----------------------------- MODULE MCPipeline -----------------------------
(***************************************************************************)
(* Pipeline for TLC.  The cfg files choose the instance; workers are       *)
(* interchangeable, so the safety runs reduce by their permutations.       *)
(***************************************************************************)
EXTENDS Pipeline, TLC

Symmetry == Permutations(Workers)
=============================================================================
