--------------------------- MODULE MC_EchoServer ---------------------------
(* Small instances of EchoServer for TLC. *)
EXTENDS EchoServer, TLC
============================================================================
