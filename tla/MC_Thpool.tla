----------------------------- MODULE MC_Thpool -----------------------------
(* Small instances of Thpool for TLC. *)
EXTENDS Thpool, TLC

CONSTANTS p1, w1, w2, j1, j2, c1

OnePool == {p1}
TwoThreads == p1 :> <<w1, w2>>
=============================================================================
