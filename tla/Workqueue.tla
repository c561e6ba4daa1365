------------------------------ MODULE Workqueue ------------------------------
(***************************************************************************)
(* The work queue of libevent-thread/workqueue.c: a stack of waiting jobs  *)
(* under jobs_mutex, worker threads that sleep on jobs_cond, and a         *)
(* shutdown that marks every worker before it takes the mutex.             *)
(*                                                                         *)
(* The worker side is complete here.  The functions that the owner of the  *)
(* queue calls are given as the changes they make step by step; the owner  *)
(* (see EchoServer) says when it takes these steps.                        *)
(***************************************************************************)
EXTENDS Integers, Sequences, FiniteSets, Pthreads

CONSTANTS
  Workers,  \* the worker threads, numWorkers of them
  Owner,    \* the thread that calls the functions of workqueue.h
  Jobs,     \* the jobs
  Nobody,   \* the owner of a free mutex
  NoJob     \* the null pointer to a job

ASSUME WorkersAssumption ==
  /\ IsFiniteSet(Workers)
  /\ Workers # {}
  /\ Owner \notin Workers
  /\ Nobody \notin Workers \cup {Owner}

ASSUME JobsAssumption == NoJob \notin Jobs

VARIABLES
  workers,       \* workqueue->workers: the linked worker structures, last first
  terminate,     \* worker->terminate
  freed,         \* the worker structures freed
  waiting_jobs,  \* workqueue->waiting_jobs: last added first
  jobs_mutex,    \* the thread that owns it
  wpc,           \* where each worker is
  job            \* the job each worker executes

queueVars == <<workers, terminate, freed, waiting_jobs, jobs_mutex, wpc, job>>

WorkerPcs == {"unborn", "lock", "wait", "run", "free", "exit", "gone"}

At(where) == {w \in Workers : wpc[w] = where}

GotoWorker(w, where) == wpc' = [wpc EXCEPT ![w] = where]

Waking(woken) == [w \in Workers |-> IF w \in woken THEN "lock" ELSE wpc[w]]

QueueInit ==
  /\ workers = <<>>
  /\ terminate = [w \in Workers |-> FALSE]
  /\ freed = {}
  /\ waiting_jobs = <<>>
  /\ jobs_mutex = Nobody
  /\ wpc = [w \in Workers |-> "unborn"]
  /\ job = [w \in Workers |-> NoJob]

-----------------------------------------------------------------------------
(* worker_function *)

WorkerWait(w) ==
  /\ wpc[w] = "lock"
  /\ jobs_mutex = Nobody
  /\ waiting_jobs = <<>>
  /\ ~ terminate[w]
  /\ GotoWorker(w, "wait")
  /\ UNCHANGED <<workers, terminate, freed, waiting_jobs, jobs_mutex, job>>

\* pthread_cond_wait may return without a signal.
SpuriousWakeup(w) ==
  /\ wpc[w] = "wait"
  /\ GotoWorker(w, "lock")
  /\ UNCHANGED <<workers, terminate, freed, waiting_jobs, jobs_mutex, job>>

\* LL_REMOVE of the job added last.
WithoutFirst_Kept == waiting_jobs
WithoutFirst == Tail(waiting_jobs)

\* The job is unlinked and executed.
WorkerTake(w) ==
  /\ wpc[w] = "lock"
  /\ jobs_mutex = Nobody
  /\ waiting_jobs # <<>>
  /\ ~ terminate[w]
  /\ job' = [job EXCEPT ![w] = Head(waiting_jobs)]
  /\ waiting_jobs' = WithoutFirst
  /\ GotoWorker(w, "run")
  /\ UNCHANGED <<workers, terminate, freed, jobs_mutex>>

\* Both breaks leave the loop with the mutex locked.
WorkerStop(w) ==
  /\ wpc[w] = "lock"
  /\ jobs_mutex = Nobody
  /\ terminate[w]
  /\ jobs_mutex' = w
  /\ GotoWorker(w, "free")
  /\ UNCHANGED <<workers, terminate, freed, waiting_jobs, job>>

\* The structure is freed, although shutdown may be looking at it, and the
\* thread ends; nobody unlocks the mutex.
WorkerFree(w) ==
  /\ wpc[w] = "free"
  /\ freed' = freed \cup {w}
  /\ GotoWorker(w, "exit")
  /\ UNCHANGED <<workers, terminate, waiting_jobs, jobs_mutex, job>>

\* job_function returns.
JobReturns(w) ==
  /\ wpc[w] = "run"
  /\ job' = [job EXCEPT ![w] = NoJob]
  /\ GotoWorker(w, "lock")
  /\ UNCHANGED <<workers, terminate, freed, waiting_jobs, jobs_mutex>>

-----------------------------------------------------------------------------
(* workqueue_init *)

\* The structure is allocated and the thread started: it runs before it is
\* linked.
StartWorker(w) ==
  /\ wpc[w] = "unborn"
  /\ GotoWorker(w, "lock")
  /\ UNCHANGED <<workers, terminate, freed, waiting_jobs, jobs_mutex, job>>

\* LL_ADD: the structure gets its next field, which leads to the list as it is now,
\* and then becomes the head of the list.
LinkNext == workers

LinkHead(w, next) ==
  /\ workers' = <<w>> \o next
  /\ UNCHANGED <<terminate, freed, waiting_jobs, jobs_mutex, wpc, job>>

-----------------------------------------------------------------------------
(* workqueue_add_job *)

AddLock ==
  /\ jobs_mutex = Nobody
  /\ jobs_mutex' = Owner
  /\ UNCHANGED <<workers, terminate, freed, waiting_jobs, wpc, job>>

Signalled_None == {{}}
Signalled == Signal(At("wait"))

\* The job is linked, a worker is signalled and the mutex is unlocked.
AddSignal(j) ==
  /\ waiting_jobs' = <<j>> \o waiting_jobs
  /\ \E woken \in Signalled : wpc' = Waking(woken)
  /\ jobs_mutex' = Nobody
  /\ UNCHANGED <<workers, terminate, freed, job>>

-----------------------------------------------------------------------------
(* workqueue_shutdown *)

\* A structure of the list is marked, without the mutex.
Mark(w) ==
  /\ terminate' = [terminate EXCEPT ![w] = TRUE]
  /\ UNCHANGED <<workers, freed, waiting_jobs, jobs_mutex, wpc, job>>

ClearLock ==
  /\ jobs_mutex = Nobody
  /\ jobs_mutex' = Owner
  /\ UNCHANGED <<workers, terminate, freed, waiting_jobs, wpc, job>>

Unlinked_Never == workers
Unlinked == <<>>

\* All workers and jobs are taken off the queue, the workers are woken and the mutex
\* is unlocked.
Clear ==
  /\ workers' = Unlinked
  /\ waiting_jobs' = <<>>
  /\ \E woken \in Broadcast(At("wait")) : wpc' = Waking(woken)
  /\ jobs_mutex' = Nobody
  /\ UNCHANGED <<terminate, freed, job>>
=============================================================================
