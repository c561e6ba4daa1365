--------------------------- MODULE MC_EpollServer ---------------------------
(* Small instances of EpollServer for TLC. *)
EXTENDS EpollServer, TLC

CONSTANTS c1, c2, c3

\* One client sends enough to need several reads.
SentBound == (c1 :> 3) @@ (c2 :> 1) @@ (c3 :> 0)
=============================================================================
