----------------------------- MODULE MCIngestor -----------------------------
(* The instances of Ingestor that TLC checks are in the .cfg files. *)
EXTENDS Ingestor
=============================================================================
