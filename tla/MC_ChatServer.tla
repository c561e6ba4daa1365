--------------------------- MODULE MC_ChatServer ---------------------------
(* Small instances of ChatServer for TLC. *)
EXTENDS ChatServer, TLC
=============================================================================
