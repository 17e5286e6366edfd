--------------------------- MODULE MCToolPipeline ---------------------------
(* Model-checking instance of ToolPipeline. *)
EXTENDS ToolPipeline, TLC

WorkerSymmetry == Permutations(Worker)
=============================================================================
