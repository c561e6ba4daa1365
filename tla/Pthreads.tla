------------------------------ MODULE Pthreads ------------------------------
(***************************************************************************)
(* What the programs of this repository use of POSIX threads, as far as    *)
(* their state can tell: which of the threads blocked on a condition       *)
(* variable a call wakes.  The set of threads blocked on a condition       *)
(* variable is the set of threads whose program counter is at the wait.    *)
(***************************************************************************)
EXTENDS FiniteSets

\* The sets of threads pthread_cond_signal may wake: one of the waiters,
\* whichever the implementation likes, and none when nobody waits.
Signal(waiters) ==
  IF waiters = {} THEN {{}} ELSE {{w} : w \in waiters}

\* The sets of threads pthread_cond_broadcast may wake: all the waiters.
Broadcast(waiters) == {waiters}
=============================================================================
