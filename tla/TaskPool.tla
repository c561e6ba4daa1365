------------------------------ MODULE TaskPool ------------------------------
(***************************************************************************)
(* What a pool of worker threads promises, whatever its threads, mutexes   *)
(* and condition variables do: tasks start in the order in which they were *)
(* submitted, each at most once; nothing is accepted when the pool is full *)
(* or shutting down; a graceful shutdown closes the pool only when every   *)
(* accepted task has been executed, an immediate one starts no further     *)
(* task and closes the pool when the running ones are over.                *)
(***************************************************************************)
EXTENDS Naturals, Sequences

CONSTANTS
  Tasks,      \* the tasks; each is submitted successfully at most once
  Capacity    \* how many tasks may be pending

VARIABLES
  pending,    \* accepted and not started, oldest first
  running,    \* started and not finished
  done,       \* finished
  mode        \* "open", "graceful", "immediate" or "closed"

poolVars == <<pending, running, done, mode>>

Modes == {"open", "graceful", "immediate", "closed"}

Pool_Init ==
  /\ pending = <<>>
  /\ running = {}
  /\ done = {}
  /\ mode = "open"

Queued(t) == \E k \in DOMAIN pending : pending[k] = t

Submit(t) ==
  /\ mode = "open"
  /\ Len(pending) < Capacity
  /\ ~ Queued(t)
  /\ t \notin running
  /\ t \notin done
  /\ pending' = Append(pending, t)
  /\ UNCHANGED <<running, done, mode>>

Start ==
  /\ mode \in {"open", "graceful"}
  /\ pending # <<>>
  /\ running' = running \cup {Head(pending)}
  /\ pending' = Tail(pending)
  /\ UNCHANGED <<done, mode>>

Finish(t) ==
  /\ t \in running
  /\ running' = running \ {t}
  /\ done' = done \cup {t}
  /\ UNCHANGED <<pending, mode>>

Shut(m) ==
  /\ mode = "open"
  /\ mode' = m
  /\ UNCHANGED <<pending, running, done>>

\* The tasks still pending after an immediate shutdown are never started.
Close ==
  /\ mode \in {"graceful", "immediate"}
  /\ mode = "graceful" => pending = <<>>
  /\ running = {}
  /\ mode' = "closed"
  /\ UNCHANGED <<pending, running, done>>

Pool_Next ==
  \/ \E t \in Tasks : Submit(t) \/ Finish(t)
  \/ Start
  \/ \E m \in {"graceful", "immediate"} : Shut(m)
  \/ Close

Pool_Spec == Pool_Init /\ [][Pool_Next]_poolVars
=============================================================================
