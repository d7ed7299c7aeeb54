----------------------------- MODULE MCPipeline -----------------------------
(* The instances of Pipeline that TLC checks are in the .cfg files. *)
EXTENDS Pipeline
=============================================================================
