-------------------------- MODULE MC_EpollExample --------------------------
(* Small instances of EpollExample for TLC. *)
EXTENDS EpollExample, TLC

CONSTANTS c1, c2, c3

\* One client sends enough to need several reads.
SentBound == (c1 :> 3) @@ (c2 :> 0) @@ (c3 :> 0)
=============================================================================
