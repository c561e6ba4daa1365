--------------------------- MODULE MC_RequestPool ---------------------------
(* Small instances of RequestPool for TLC. *)
EXTENDS RequestPool, TLC
=============================================================================
