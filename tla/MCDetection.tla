---------------------------- MODULE MCDetection ----------------------------
(* Small instances of Detection for TLC. *)
EXTENDS Detection, TLC

\* Concurrent calls are interchangeable.
Interchangeable == Permutations(Threads)
=============================================================================
