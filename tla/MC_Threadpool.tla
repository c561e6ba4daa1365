---------------------------- MODULE MC_Threadpool ----------------------------
(* Small instances of Threadpool for TLC. *)
EXTENDS Threadpool, TLC

CONSTANTS w1, w2, w3, c1, c2, t1, t2, t3

TwoWorkers == {w1, w2}
ThreeWorkers == {w1, w2, w3}
OneClient == {c1}
TwoClients == {c1, c2}
TwoTasks == {t1, t2}
ThreeTasks == {t1, t2, t3}

Interchangeable == Permutations(Workers) \cup Permutations(Tasks)
==============================================================================
