---------------------------- MODULE MCIngestApi ----------------------------
(* Small instances of IngestApi for TLC. *)
EXTENDS IngestApi, TLC

\* Requests are interchangeable, and so are actors.
Interchangeable == Permutations(Events) \cup Permutations(Actors)
=============================================================================
