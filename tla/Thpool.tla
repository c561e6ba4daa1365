------------------------------- MODULE Thpool -------------------------------
(***************************************************************************)
(* The thread pool of threadpool/c-Thread-Pool-master/thpool.c: a linked   *)
(* queue of jobs under rwmutex, a binary semaphore has_jobs built from a   *)
(* mutex and a condition variable, counters under thcount_lock, and two    *)
(* flags, threads_keepalive and threads_on_hold, shared by every pool of   *)
(* the process.                                                            *)
(*                                                                         *)
(* The critical sections of the job queue and of the semaphore are two     *)
(* steps, because the handler of SIGUSR1 can hold a thread inside of them; *)
(* those of the counters are one, except the last, after which the pool    *)
(* may be freed.  A failing malloc ends the process and is left out.       *)
(***************************************************************************)
EXTENDS Integers, Sequences, FiniteSets, Pthreads

CONSTANTS
  Pools,        \* the pools of the process
  Threads,      \* thpool_p->threads: a sequence of workers for each pool
  Clients,      \* the threads that call the API
  Jobs,         \* the jobs; each is added once
  JobsAddWork,  \* whether jobs call thpool_add_work
  Garbage,      \* whether malloc may return memory that is not zero
  MaxPauses,    \* how often thpool_pause is called
  Nobody,       \* the owner of a free mutex
  NoJob,        \* the null pointer to a job
  NoPool

Workers == UNION {{Threads[p][n] : n \in DOMAIN Threads[p]} : p \in Pools}

ASSUME ThreadsAssumption ==
  /\ Threads \in [Pools -> Seq(Workers)]
  /\ \A p, q \in Pools : \A m \in DOMAIN Threads[p], n \in DOMAIN Threads[q] :
       Threads[p][m] = Threads[q][n] => p = q /\ m = n
  /\ Clients \cap Workers = {}
  /\ Nobody \notin Clients \cup Workers

ASSUME JobsAssumption == NoJob \notin Jobs /\ NoPool \notin Pools

ASSUME OptionsAssumption ==
  JobsAddWork \in BOOLEAN /\ Garbage \in BOOLEAN /\ MaxPauses \in Nat

VARIABLES
  pool,       \* struct thpool_ with its job queue and semaphore, for each pool
  prev,       \* job->prev
  threads_keepalive,
  threads_on_hold,
  pc,         \* where each thread is
  job,        \* job_p of each worker
  call,       \* the pool and the job of each thread's call of the API
  phase,      \* which of its three loops each thread in thpool_wait is in
  signalled,  \* the workers with SIGUSR1 pending
  held,       \* the workers in thread_hold
  pauses,     \* how often thpool_pause was called
  \* history
  added,      \* the jobs added to each pool, in order
  pulled,     \* how many jobs were pulled from each pool
  done,       \* the jobs executed
  before,     \* what had been added when each client called thpool_wait
  paused      \* whether the last of the calls of pause and resume was a pause

queueVars  == <<pool, prev>>
flagVars   == <<threads_keepalive, threads_on_hold>>
threadVars == <<pc, job, call, phase>>
signalVars == <<signalled, held, pauses, paused>>
historyVars == <<added, pulled, done, before>>
vars == <<queueVars, flagVars, threadVars, signalVars, historyVars>>

WorkerPcs == {"unborn", "init", "loop", "bsem", "bsem_in", "wait", "check", "inc",
              "pull", "pull_in", "pull_post", "run", "add", "post", "dec", "bye",
              "unlock", "dead", "crashed"}

ClientPcs == {"idle", "init", "add", "post", "wait_len", "wait_working", "kill", "crashed"}

PoolStates == {"none", "init", "live", "dying", "freed"}

PoolOf(w) == CHOOSE p \in Pools : \E n \in DOMAIN Threads[p] : Threads[p][n] = w

Members(p) == {Threads[p][n] : n \in DOMAIN Threads[p]}

At(p, where) == {w \in Members(p) : pc[w] = where}

\* A worker that is not in the signal handler.
Runs(w) == w \notin held

Goto(x, where) == pc' = [pc EXCEPT ![x] = where]

\* pc after x goes on to where and the workers in woken, which waited for the
\* semaphore, go back to the test of its value.
GotoWaking(x, where, woken) ==
  pc' = [y \in DOMAIN pc |->
           IF y = x THEN where ELSE IF y \in woken THEN "bsem" ELSE pc[y]]

-----------------------------------------------------------------------------
EmptyPool == [state |-> "none", front |-> NoJob, rear |-> NoJob, len |-> 0, v |-> 0,
              rwmutex |-> Nobody, semmutex |-> Nobody, thcount_lock |-> Nobody,
              alive |-> 0, working |-> 0]

Init ==
  /\ pool = [p \in Pools |-> EmptyPool]
  /\ prev = [j \in Jobs |-> NoJob]
  /\ threads_keepalive = 0
  /\ threads_on_hold = 0
  /\ pc = [x \in Workers \cup Clients |-> IF x \in Workers THEN "unborn" ELSE "idle"]
  /\ job = [w \in Workers |-> NoJob]
  /\ call = [x \in Workers \cup Clients |-> [pool |-> NoPool, job |-> NoJob]]
  /\ phase = [c \in Clients |-> 1]
  /\ signalled = {}
  /\ held = {}
  /\ pauses = 0
  /\ added = [p \in Pools |-> <<>>]
  /\ pulled = [p \in Pools |-> 0]
  /\ done = {}
  /\ before = [c \in Clients |-> {}]
  /\ paused = FALSE

-----------------------------------------------------------------------------
(* thpool_init *)

\* The flags are reset, for the other pools too, the pool and its queue are
\* made and the threads created; from here on they run.
InitPool(c, p) ==
  /\ pc[c] = "idle"
  /\ pool[p].state = "none"
  /\ threads_on_hold' = 0
  /\ threads_keepalive' = 1
  /\ pool' = [pool EXCEPT ![p].state = "init"]
  /\ pc' = [y \in DOMAIN pc |->
              IF y = c THEN "init" ELSE IF y \in Members(p) THEN "init" ELSE pc[y]]
  /\ call' = [call EXCEPT ![c].pool = p]
  /\ UNCHANGED <<prev, job, phase, signalVars, historyVars>>

\* jobqueue_clear, called to initialise the queue, reads the field len of the
\* memory malloc returned; if it is not 0 it follows the pointer front, which
\* nothing has set, and the process ends with all its pools.
InitReadsGarbage(c, p) ==
  /\ Garbage
  /\ pc[c] = "idle"
  /\ pool[p].state = "none"
  /\ pool' = [q \in Pools |-> [EmptyPool EXCEPT !.state = "freed"]]
  /\ pc' = [x \in DOMAIN pc |-> "crashed"]
  /\ signalled' = {}
  /\ held' = {}
  /\ UNCHANGED <<prev, flagVars, job, call, phase, pauses, paused, historyVars>>

\* The busy wait for all threads.
InitReturns(c) ==
  LET p == call[c].pool IN
  /\ pc[c] = "init"
  /\ pool[p].alive = Len(Threads[p])
  /\ pool' = [pool EXCEPT ![p].state = "live"]
  /\ Goto(c, "idle")
  /\ UNCHANGED <<prev, flagVars, job, call, phase, signalVars, historyVars>>

-----------------------------------------------------------------------------
(* thpool_add_work *)

\* A client, or a job of a pool, calls thpool_add_work.
AddCall(x, p, j) ==
  /\ \/ x \in Clients /\ pc[x] = "idle" /\ pool[p].state = "live"
     \/ JobsAddWork /\ x \in Members(p) /\ pc[x] = "run" /\ Runs(x)
  /\ \A q \in Pools : \A k \in DOMAIN added[q] : added[q][k] # j
  /\ \A y \in DOMAIN pc : pc[y] \in {"add", "post"} => call[y].job # j
  /\ call' = [call EXCEPT ![x] = [pool |-> p, job |-> j]]
  /\ Goto(x, "add")
  /\ UNCHANGED <<queueVars, flagVars, job, phase, signalVars, historyVars>>

\* jobqueue_push up to the post, under rwmutex.
AddPush(x) ==
  LET p == call[x].pool
      j == call[x].job
      q == pool[p]
  IN
  /\ pc[x] = "add"
  /\ Runs(x)
  /\ q.rwmutex = Nobody
  /\ pool' = [pool EXCEPT ![p].rwmutex = x,
                          ![p].front = IF q.len = 0 THEN j ELSE q.front,
                          ![p].rear = j,
                          ![p].len = q.len + 1]
  /\ prev' = [i \in Jobs |->
                IF i = j THEN NoJob
                ELSE IF q.len # 0 /\ i = q.rear THEN j ELSE prev[i]]
  /\ added' = [added EXCEPT ![p] = Append(added[p], j)]
  /\ Goto(x, "post")
  /\ UNCHANGED <<flagVars, job, call, phase, signalVars, pulled, done, before>>

\* bsem_post, then the unlock of rwmutex.
AddPost(x) ==
  LET p == call[x].pool IN
  /\ pc[x] = "post"
  /\ Runs(x)
  /\ pool[p].semmutex = Nobody
  /\ pool' = [pool EXCEPT ![p].v = 1, ![p].rwmutex = Nobody]
  /\ \E woken \in Signal(At(p, "wait")) :
       GotoWaking(x, IF x \in Clients THEN "idle" ELSE "run", woken)
  /\ UNCHANGED <<prev, flagVars, job, call, phase, signalVars, historyVars>>

-----------------------------------------------------------------------------
(* thpool_wait *)

WaitCall(c, p) ==
  /\ pc[c] = "idle"
  /\ pool[p].state = "live"
  /\ call' = [call EXCEPT ![c].pool = p]
  /\ phase' = [phase EXCEPT ![c] = 1]
  /\ before' = [before EXCEPT ![c] = {added[p][k] : k \in DOMAIN added[p]}]
  /\ Goto(c, "wait_len")
  /\ UNCHANGED <<queueVars, flagVars, job, signalVars, added, pulled, done>>

\* The condition of the loops, len || num_threads_working: what is read first and
\* what is read second.
Polled_WorkingFirst(c) ==
  LET q == pool[call[c].pool] IN IF pc[c] = "wait_len" THEN q.working ELSE q.len

Polled(c) ==
  LET q == pool[call[c].pool] IN IF pc[c] = "wait_len" THEN q.len ELSE q.working

\* One read of the condition, without a lock; it is the same in the three loops.
\* A loop ends when both are 0; the first two also end by timeout; the last one
\* returns.
Poll(c) ==
  LET value == Polled(c) IN
  /\ pc[c] \in {"wait_len", "wait_working"}
  /\ \/ /\ value # 0
        /\ \E ph \in {phase[c], phase[c] + 1} \cap 1..3 :
             phase' = [phase EXCEPT ![c] = ph]
        /\ Goto(c, "wait_len")
     \/ /\ value = 0
        /\ pc[c] = "wait_len"
        /\ Goto(c, "wait_working")
        /\ UNCHANGED phase
     \/ /\ value = 0
        /\ pc[c] = "wait_working"
        /\ IF phase[c] < 3
           THEN Goto(c, "wait_len") /\ phase' = [phase EXCEPT ![c] = phase[c] + 1]
           ELSE Goto(c, "idle") /\ phase' = phase
  /\ UNCHANGED <<queueVars, flagVars, job, call, signalVars, historyVars>>

-----------------------------------------------------------------------------
(* thpool_destroy *)

\* Nobody else is calling the API: that is up to the program.
Destroy(c, p) ==
  /\ pc[c] = "idle"
  /\ pool[p].state = "live"
  /\ \A d \in Clients : pc[d] = "idle"
  /\ threads_keepalive' = 0
  /\ pool' = [pool EXCEPT ![p].state = "dying"]
  /\ call' = [call EXCEPT ![c].pool = p]
  /\ Goto(c, "kill")
  /\ UNCHANGED <<prev, threads_on_hold, job, phase, signalVars, historyVars>>

AllGone_OnTimeout(p) == TRUE
AllGone(p) == pool[p].alive = 0

\* One round of the two loops: bsem_post_all while threads are alive.
KillPost(c) ==
  LET p == call[c].pool IN
  /\ pc[c] = "kill"
  /\ ~ AllGone(p)
  /\ pool[p].semmutex = Nobody
  /\ pool' = [pool EXCEPT ![p].v = 1]
  /\ \E woken \in Broadcast(At(p, "wait")) :
       GotoWaking(c, "kill", woken)
  /\ UNCHANGED <<prev, flagVars, job, call, phase, signalVars, historyVars>>

\* The jobs left in the queue are freed, then everything else.
KillDone(c) ==
  /\ pc[c] = "kill"
  /\ AllGone(call[c].pool)
  /\ pool' = [pool EXCEPT ![call[c].pool].state = "freed",
                          ![call[c].pool].front = NoJob,
                          ![call[c].pool].rear = NoJob,
                          ![call[c].pool].len = 0,
                          ![call[c].pool].v = 0]
  /\ Goto(c, "idle")
  /\ UNCHANGED <<prev, flagVars, job, call, phase, signalVars, historyVars>>

-----------------------------------------------------------------------------
(* thpool_pause, thpool_resume and the signal handler thread_hold *)

Pause(c, p) ==
  /\ pc[c] = "idle"
  /\ pool[p].state = "live"
  /\ pauses < MaxPauses
  /\ signalled' = signalled \cup
       {w \in {Threads[p][n] : n \in 1..pool[p].alive} : pc[w] # "dead"}
  /\ pauses' = pauses + 1
  /\ paused' = TRUE
  /\ UNCHANGED <<queueVars, flagVars, threadVars, held, historyVars>>

Resume(c) ==
  /\ pc[c] = "idle"
  /\ paused
  /\ threads_on_hold' = 0
  /\ paused' = FALSE
  /\ UNCHANGED <<queueVars, threads_keepalive, threadVars, signalled, held, pauses,
                 historyVars>>

\* The signal is delivered, wherever the worker is.
Hold(w) ==
  /\ w \in signalled
  /\ Runs(w)
  /\ signalled' = signalled \ {w}
  /\ held' = IF pc[w] = "dead" THEN held ELSE held \cup {w}
  /\ threads_on_hold' = IF pc[w] = "dead" THEN threads_on_hold ELSE 1
  /\ UNCHANGED <<queueVars, threads_keepalive, threadVars, pauses, paused, historyVars>>

\* The handler wakes from its sleep and finds the flag reset.
Release(w) ==
  /\ w \in held
  /\ threads_on_hold = 0
  /\ held' = held \ {w}
  /\ UNCHANGED <<queueVars, flagVars, threadVars, signalled, pauses, paused, historyVars>>

-----------------------------------------------------------------------------
(* thread_do *)

\* A step of worker w from one point to another that changes its pool only.
Step(w, from, to, newpool) ==
  /\ pc[w] = from
  /\ Runs(w)
  /\ pool' = [pool EXCEPT ![PoolOf(w)] = newpool]
  /\ Goto(w, to)
  /\ UNCHANGED <<prev, flagVars, job, call, phase, signalVars, historyVars>>

P(w) == pool[PoolOf(w)]

\* num_threads_alive += 1.
CountAlive(w) ==
  /\ P(w).thcount_lock = Nobody
  /\ Step(w, "init", "loop", [P(w) EXCEPT !.alive = @ + 1])

\* The condition of the loop.
LoopTest_Forever(w) == Step(w, "loop", "bsem", P(w))
LoopTest(w) == Step(w, "loop", IF threads_keepalive = 1 THEN "bsem" ELSE "bye", P(w))

\* bsem_wait: the lock, then the test of v under it.
SemLock(w) ==
  /\ P(w).semmutex = Nobody
  /\ Step(w, "bsem", "bsem_in", [P(w) EXCEPT !.semmutex = w])

SemTest(w) ==
  IF P(w).v # 1
  THEN Step(w, "bsem_in", "wait", [P(w) EXCEPT !.semmutex = Nobody])
  ELSE Step(w, "bsem_in", "check", [P(w) EXCEPT !.semmutex = Nobody, !.v = 0])

SpuriousWakeup(w) == Step(w, "wait", "bsem", P(w))

\* The second test of threads_keepalive.
AliveTest(w) == Step(w, "check", IF threads_keepalive = 1 THEN "inc" ELSE "loop", P(w))

\* num_threads_working++.
CountWorking(w) ==
  /\ P(w).thcount_lock = Nobody
  /\ Step(w, "inc", "pull", [P(w) EXCEPT !.working = @ + 1])

PullLock(w) ==
  /\ P(w).rwmutex = Nobody
  /\ Step(w, "pull", "pull_in", [P(w) EXCEPT !.rwmutex = w])

\* The new front when jobs remain.
Behind_Rear(q) == prev[q.rear]
Behind(q) == prev[q.front]

\* jobqueue_pull under rwmutex, up to its post.
Pull(w) ==
  LET p == PoolOf(w)
      q == pool[p]
  IN
  /\ pc[w] = "pull_in"
  /\ Runs(w)
  /\ job' = [job EXCEPT ![w] = IF q.len = 0 THEN NoJob ELSE q.front]
  /\ pool' = [pool EXCEPT
       ![p].front = IF q.len = 0 THEN @ ELSE IF q.len = 1 THEN NoJob ELSE Behind(q),
       ![p].rear = IF q.len = 1 THEN NoJob ELSE @,
       ![p].len = IF q.len = 0 THEN 0 ELSE q.len - 1,
       ![p].rwmutex = IF q.len > 1 THEN w ELSE Nobody]
  /\ pulled' = [pulled EXCEPT ![p] = IF q.len = 0 THEN @ ELSE @ + 1]
  /\ Goto(w, IF q.len > 1 THEN "pull_post" ELSE IF q.len = 1 THEN "run" ELSE "dec")
  /\ UNCHANGED <<prev, flagVars, call, phase, signalVars, added, done, before>>

\* The semaphore after the pull of a job that leaves jobs behind.
Raised_Not(q) == q.v
Raised(q) == 1

\* Make sure has_jobs has the right value: bsem_post when jobs remain.
PullPost(w) ==
  /\ pc[w] = "pull_post"
  /\ Runs(w)
  /\ P(w).semmutex = Nobody
  /\ pool' = [pool EXCEPT ![PoolOf(w)].v = Raised(P(w)), ![PoolOf(w)].rwmutex = Nobody]
  /\ \E woken \in Signal(At(PoolOf(w), "wait")) : GotoWaking(w, "run", woken)
  /\ UNCHANGED <<prev, flagVars, job, call, phase, signalVars, historyVars>>

\* The job returns.
RunJob(w) ==
  /\ pc[w] = "run"
  /\ Runs(w)
  /\ done' = done \cup {job[w]}
  /\ Goto(w, "dec")
  /\ UNCHANGED <<queueVars, flagVars, job, call, phase, signalVars, added, pulled, before>>

\* num_threads_working--.
UncountWorking(w) ==
  /\ P(w).thcount_lock = Nobody
  /\ Step(w, "dec", "loop", [P(w) EXCEPT !.working = @ - 1])

\* num_threads_alive --, then the unlock.
UncountAlive(w) ==
  /\ P(w).thcount_lock = Nobody
  /\ Step(w, "bye", "unlock", [P(w) EXCEPT !.alive = @ - 1, !.thcount_lock = w])

LastUnlock(w) == Step(w, "unlock", "dead", [P(w) EXCEPT !.thcount_lock = Nobody])

-----------------------------------------------------------------------------
WorkerStep(w) ==
  \/ CountAlive(w)
  \/ LoopTest(w)
  \/ SemLock(w)
  \/ SemTest(w)
  \/ AliveTest(w)
  \/ CountWorking(w)
  \/ PullLock(w)
  \/ Pull(w)
  \/ PullPost(w)
  \/ RunJob(w)
  \/ UncountWorking(w)
  \/ UncountAlive(w)
  \/ LastUnlock(w)

ApiCall(c) ==
  \/ \E p \in Pools : InitPool(c, p) \/ InitReadsGarbage(c, p)
  \/ \E p \in Pools : WaitCall(c, p) \/ Destroy(c, p) \/ Pause(c, p)
  \/ Resume(c)

ClientStep(c) ==
  \/ InitReturns(c)
  \/ Poll(c)
  \/ KillPost(c)
  \/ KillDone(c)

AddStep(x) == AddPush(x) \/ AddPost(x)

\* All pools are freed and all threads are gone.
Terminated ==
  /\ \A p \in Pools : pool[p].state = "freed"
  /\ \A w \in Workers : pc[w] = "dead"
  /\ UNCHANGED vars

Next ==
  \/ \E c \in Clients : ApiCall(c) \/ ClientStep(c)
  \/ \E x \in Clients \cup Workers :
       AddStep(x) \/ \E p \in Pools, j \in Jobs : AddCall(x, p, j)
  \/ \E w \in Workers : WorkerStep(w) \/ SpuriousWakeup(w) \/ Hold(w) \/ Release(w)
  \/ Terminated

Spec == Init /\ [][Next]_vars

\* Threads that can run do, jobs end, signals arrive; nobody has to call the API.
\* A mutex that is released again and again is granted to every thread that
\* keeps asking for it.
Fairness ==
  /\ \A c \in Clients : WF_vars(ClientStep(c)) /\ SF_vars(KillPost(c))
  /\ \A x \in Clients \cup Workers : SF_vars(AddStep(x))
  /\ \A w \in Workers : /\ WF_vars(WorkerStep(w))
                        /\ SF_vars(SemLock(w) \/ PullLock(w) \/ PullPost(w))
                        /\ WF_vars(Hold(w))
                        /\ WF_vars(Release(w))

FairSpec == Spec /\ Fairness

-----------------------------------------------------------------------------
(* Properties *)

TypeOK ==
  /\ pool \in [Pools -> [state : PoolStates, front : Jobs \cup {NoJob},
                         rear : Jobs \cup {NoJob}, len : Nat, v : {0, 1},
                         rwmutex : Clients \cup Workers \cup {Nobody},
                         semmutex : Clients \cup Workers \cup {Nobody},
                         thcount_lock : Workers \cup {Nobody},
                         alive : Nat, working : Nat]]
  /\ prev \in [Jobs -> Jobs \cup {NoJob}]
  /\ threads_keepalive \in {0, 1}
  /\ threads_on_hold \in {0, 1}
  /\ pc \in [Workers \cup Clients -> WorkerPcs \cup ClientPcs]
  /\ \A w \in Workers : pc[w] \in WorkerPcs
  /\ \A c \in Clients : pc[c] \in ClientPcs
  /\ job \in [Workers -> Jobs \cup {NoJob}]
  /\ call \in [Workers \cup Clients ->
                 [pool : Pools \cup {NoPool}, job : Jobs \cup {NoJob}]]
  /\ phase \in [Clients -> 1..3]
  /\ signalled \subseteq Workers
  /\ held \subseteq Workers
  /\ pauses \in 0..MaxPauses
  /\ added \in [Pools -> Seq(Jobs)]
  /\ pulled \in [Pools -> Nat]
  /\ done \subseteq Jobs
  /\ before \in [Clients -> SUBSET Jobs]
  /\ paused \in BOOLEAN

\* The linked queue holds the jobs added and not pulled, in the order of their
\* addition: front is the oldest, prev leads from each to the next, rear is the
\* newest and len is their number (jobqueue_push and jobqueue_pull, lines 438-491).
QueueLinked ==
  TypeOK /\ \A p \in {q \in Pools : pool[q].state # "freed"} :
    LET n == Len(added[p])
        m == pulled[p]
    IN  /\ pool[p].len = n - m
        /\ m < n => pool[p].front = added[p][m + 1] /\ pool[p].rear = added[p][n]
        /\ \A i \in (m + 1)..(n - 1) : prev[added[p][i]] = added[p][i + 1]

\* While the queue is not empty its semaphore is up, or somebody has taken it
\* down and is on the way to the queue, or the one who holds the queue is about
\* to post; and when the semaphore is up nobody sleeps on it without another
\* worker being about to test it.  So no job is left behind by sleeping workers
\* (lines 456, 486-488 and 544-551).
JobsAnnounced ==
  \A p \in Pools : pool[p].state = "live" /\ threads_keepalive = 1 =>
    /\ pool[p].len > 0 =>
         \/ pool[p].v = 1
         \/ \E w \in Members(p) : pc[w] \in {"check", "inc", "pull", "pull_in", "pull_post"}
         \/ \E x \in Clients \cup Workers : pc[x] = "post" /\ call[x].pool = p
    /\ pool[p].v = 1 /\ At(p, "wait") # {} =>
         At(p, "bsem") \cup At(p, "bsem_in") # {}

\* thpool_wait returns only when every job that had been added before the call
\* has been executed, although it reads len and num_threads_working one after
\* the other and without a lock: a worker counts itself as working before it
\* takes a job out of the queue (lines 355-365), and len is read first (line 226).
WaitSound ==
  [][\A c \in Clients :
       pc[c] \in {"wait_len", "wait_working"} /\ pc'[c] = "idle" => before[c] \subseteq done]_vars

\* thpool_destroy frees the pool only when its threads have nothing left to do
\* but to leave: no job is running and none of them will touch the queue or the
\* semaphore again (the loops of lines 245-255).
FreedPoolIsQuiet ==
  \A p \in Pools : pool[p].state = "freed" =>
    \A w \in Members(p) : pc[w] \in {"unlock", "dead", "crashed"}

\* A job added to a pool with threads is executed (lines 349-378), unless the pool
\* is destroyed or threads_keepalive, which all pools share, is reset by the
\* destruction of another (lines 238 and 349).
AddedJobsRun ==
  \A p \in Pools, j \in Jobs :
    (Members(p) # {} /\ \E k \in DOMAIN added[p] : added[p][k] = j)
       ~> (j \in done \/ pool[p].state \in {"dying", "freed"} \/ threads_keepalive = 0)

\* Calls return: thpool_init, which waits for its threads to count themselves (line
\* 158); thpool_wait on a pool with threads (lines 195-228), unless a pool is
\* destroyed; and thpool_destroy, whose posts to the semaphore, repeated until no
\* thread is alive, reach every thread, asleep or busy (lines 245-255).
CallsReturn ==
  \A c \in Clients :
    /\ pc[c] = "init" ~> pc[c] = "idle"
    /\ pc[c] \in {"wait_len", "wait_working"} ~>
         (pc[c] = "idle" \/ threads_keepalive = 0 \/ Members(call[c].pool) = {})
    /\ pc[c] = "kill" ~> pc[c] = "idle"
=============================================================================
