--------------------------- MODULE MC_HttpServer ---------------------------
(* Small instances of HttpServer for TLC. *)
EXTENDS HttpServer, TLC

CONSTANTS c1, c2, c3

\* One request can fill the buffer, one cannot, and one client sends none.
SentBound == (c1 :> 2) @@ (c2 :> 0) @@ (c3 :> 1)
=============================================================================
