-------------------------- MODULE MC_WorkerThreads --------------------------
(* Small instances of WorkerThreads for TLC. *)
EXTENDS WorkerThreads, TLC
=============================================================================
