----------------------------- MODULE Threadpool -----------------------------
(***************************************************************************)
(* The thread pool of threadpool/threadpool-master/src/threadpool.c: a     *)
(* ring of tasks, worker threads, one mutex (lock) and one condition       *)
(* variable (notify).                                                      *)
(*                                                                         *)
(* A critical section is one step: it starts with lock free and, unless    *)
(* the code forgets or fails to unlock, leaves it free.  The accesses      *)
(* outside of critical sections (creation, the joins of                    *)
(* threadpool_destroy, threadpool_free, the execution of a task) are steps *)
(* of their own.  The calls whose failure the code tests fail only when    *)
(* they are in Faults.                                                     *)
(***************************************************************************)
EXTENDS Integers, Sequences, FiniteSets, Pthreads

CONSTANTS
  Workers,     \* the threads threadpool_create starts: thread_count of them
  Clients,     \* the threads that call the API
  Main,        \* the client that calls threadpool_create
  Destroyers,  \* the clients that may call threadpool_destroy
  Tasks,       \* the (function, argument) pairs the clients submit
  QueueSize,   \* queue_size
  Faults,      \* the library calls that may fail
  NoThread,    \* the owner of a free mutex
  NoTask       \* the content of a queue slot never written

Calls == {"malloc", "mutex_init", "cond_init", "pthread_create", "lock",
          "signal", "broadcast", "unlock", "join"}

ASSUME ThreadsAssumption ==
  /\ IsFiniteSet(Workers)
  /\ Clients \cap Workers = {}
  /\ Main \in Clients
  /\ Destroyers \subseteq Clients
  /\ NoThread \notin Clients \cup Workers

ASSUME TasksAssumption == NoTask \notin Tasks

ASSUME QueueSizeAssumption == QueueSize \in Nat \ {0}

ASSUME FaultsAssumption == Faults \subseteq Calls

VARIABLES
  \* struct threadpool_t
  lock,          \* the thread that owns pool->lock, or NoThread
  queue,         \* pool->queue
  head,          \* pool->head
  tail,          \* pool->tail
  count,         \* pool->count
  shutdown,      \* pool->shutdown: "no", "immediate" or "graceful"
  threads,       \* pool->threads: the ids pthread_create has stored
  thread_count,  \* pool->thread_count
  started,       \* pool->started
  heap,          \* the blocks allocated and not freed
  inited,        \* the synchronisation objects initialised and not destroyed
  \* the threads
  pc,            \* where each thread is
  task,          \* the local variable task of each worker
  handle,        \* what threadpool_create returned, "none" before it does
  ret,           \* the result of each client's last call
  \* history
  accepted,      \* the tasks written to the queue, in order
  taken,         \* the tasks grabbed by the workers, in order
  done           \* the tasks executed

ring    == <<queue, head, tail, count>>
create  == <<threads, thread_count, heap, inited, handle>>
history == <<accepted, taken, done>>
vars == <<lock, ring, shutdown, create, started, pc, task, ret, history>>

Blocks == {"pool", "threads", "queue"}

Codes == {"none", "ok", "invalid", "lock_failure", "queue_full", "shutdown",
          "thread_failure"}

WorkerPcs == {"unborn", "lock", "wait", "run", "exit"}

\* "create" to "free_err" are points of threadpool_create, which only Main
\* calls; "abort" is its call of threadpool_destroy.
ClientPcs == {"create", "init", "start", "count", "err", "abort",
              "idle", "join", "free", "free_lock", "end"}

At(where) == {w \in Workers : pc[w] = where}

\* The threads whose creation and exit the fields thread_count and started
\* count.
Born == {w \in Workers : pc[w] # "unborn"}

\* The index that lies i places after head, wrapping once at queue_size.
Slot(i) == IF head + i < QueueSize THEN head + i ELSE head + i - QueueSize

\* The index after i.
Following(i) == IF i + 1 = QueueSize THEN 0 ELSE i + 1

\* Are we full ?
Full_OneTooMany == count > QueueSize
Full == count = QueueSize

\* Whom the signal of threadpool_add and the broadcast of threadpool_destroy
\* may wake.
WakeOne_Never == {{}}
WakeOne_WhenEmpty == IF count = 0 THEN Signal(At("wait")) ELSE {{}}
WakeOne == Signal(At("wait"))

WakeAll_One == Signal(At("wait"))
WakeAll == Broadcast(At("wait"))

\* When a worker leaves its loop.
MustStop_DrainsAlways == shutdown # "no" /\ count = 0
MustStop == shutdown = "immediate" \/ (shutdown = "graceful" /\ count = 0)

\* The loop of pthread_join over threads[0 .. thread_count - 1] is over; a
\* join that fails does not wait for its thread.
Joined_OneTooFew(unjoined) ==
  \A i \in (1..(thread_count - 1)) \ unjoined : pc[threads[i]] = "exit"
Joined(unjoined) ==
  \A i \in (1..thread_count) \ unjoined : pc[threads[i]] = "exit"

\* The tasks in the ring, oldest first.
Pending == [k \in 1..count |-> queue[Slot(k - 1)]]

-----------------------------------------------------------------------------
Init ==
  /\ lock = NoThread
  /\ queue = [i \in 0..(QueueSize - 1) |-> NoTask]
  /\ head = 0
  /\ tail = 0
  /\ count = 0
  /\ shutdown = "no"
  /\ threads = <<>>
  /\ thread_count = 0
  /\ started = 0
  /\ heap = {}
  /\ inited = {}
  /\ pc = [x \in Workers \cup Clients |->
             IF x \in Workers THEN "unborn"
             ELSE IF x = Main THEN "create" ELSE "idle"]
  /\ task = [w \in Workers |-> NoTask]
  /\ handle = "none"
  /\ ret = [c \in Clients |-> "none"]
  /\ accepted = <<>>
  /\ taken = <<>>
  /\ done = {}

-----------------------------------------------------------------------------
(* threadpool_create *)

\* The first malloc: the structure itself.
CreatePool(ok) ==
  /\ pc[Main] = "create"
  /\ ~ ok => "malloc" \in Faults
  /\ heap' = IF ok THEN {"pool"} ELSE {}
  /\ handle' = IF ok THEN "none" ELSE "null"
  /\ pc' = [pc EXCEPT ![Main] = IF ok THEN "init" ELSE "idle"]
  /\ UNCHANGED <<lock, ring, shutdown, threads, thread_count, inited, started,
                 task, ret, history>>

\* What the four calls of lines 114-122 may leave behind: the two blocks are
\* allocated before any result is looked at, and cond_init is only reached
\* when mutex_init succeeds.
InitOutcomes ==
  {o \in [blocks : SUBSET {"threads", "queue"},
          objects : {{}, {"lock"}, {"lock", "notify"}}] :
     /\ o.blocks # {"threads", "queue"} => "malloc" \in Faults
     /\ o.objects = {} => "mutex_init" \in Faults
     /\ o.objects = {"lock"} => "cond_init" \in Faults}

CreateInit(o) ==
  /\ pc[Main] = "init"
  /\ heap' = heap \cup o.blocks
  /\ inited' = o.objects
  /\ pc' = [pc EXCEPT ![Main] =
              IF /\ o.objects = {"lock", "notify"}
                 /\ o.blocks = {"threads", "queue"}
              THEN "start" ELSE "err"]
  /\ UNCHANGED <<lock, ring, shutdown, threads, thread_count, started, handle,
                 task, ret, history>>

\* The label err: threadpool_free finds no thread started.  It frees the
\* queue and destroys the objects only when threads was allocated, and locks
\* the mutex before it destroys it.
CreateErr ==
  /\ pc[Main] = "err"
  /\ IF "threads" \in heap
     THEN /\ heap' = {}
          /\ inited' = {}
     ELSE /\ heap' = heap \ {"pool"}
          /\ UNCHANGED inited
  /\ handle' = "null"
  /\ pc' = [pc EXCEPT ![Main] = "idle"]
  /\ UNCHANGED <<lock, ring, shutdown, threads, thread_count, started, task,
                 ret, history>>

\* pthread_create succeeds: the new thread runs before it is counted.
StartThread(w) ==
  /\ pc[Main] = "start"
  /\ pc[w] = "unborn"
  /\ threads' = Append(threads, w)
  /\ pc' = [pc EXCEPT ![w] = "lock", ![Main] = "count"]
  /\ UNCHANGED <<lock, ring, shutdown, thread_count, started, heap, inited,
                 handle, task, ret, history>>

CountThread_FromIndex ==
  /\ pc[Main] = "count"
  /\ thread_count' = Len(threads) - 1
  /\ started' = Len(threads) - 1
  /\ pc' = [pc EXCEPT ![Main] = "start"]
  /\ UNCHANGED <<lock, ring, shutdown, threads, heap, inited, handle, task,
                 ret, history>>

CountThread ==
  /\ pc[Main] = "count"
  /\ thread_count' = thread_count + 1
  /\ started' = started + 1
  /\ pc' = [pc EXCEPT ![Main] = "start"]
  /\ UNCHANGED <<lock, ring, shutdown, threads, heap, inited, handle, task,
                 ret, history>>

\* pthread_create fails: threadpool_destroy(pool, 0), then NULL is returned.
StartThreadFails ==
  /\ pc[Main] = "start"
  /\ At("unborn") # {}
  /\ "pthread_create" \in Faults
  /\ handle' = "null"
  /\ pc' = [pc EXCEPT ![Main] = "abort"]
  /\ UNCHANGED <<lock, ring, shutdown, threads, thread_count, started, heap,
                 inited, task, ret, history>>

CreateReturns ==
  /\ pc[Main] = "start"
  /\ At("unborn") = {}
  /\ handle' = "live"
  /\ pc' = [pc EXCEPT ![Main] = "idle"]
  /\ UNCHANGED <<lock, ring, shutdown, threads, thread_count, started, heap,
                 inited, task, ret, history>>

-----------------------------------------------------------------------------
(* threadpool_add *)

\* The threads that can call the API: the clients, and the workers from
\* within a task, as those of tests/heavy.c do.  A caller does not use the
\* pool any more once it is freed.
MayCall(x) ==
  /\ handle = "live"
  /\ "pool" \in heap
  /\ pc[x] \in {"idle", "run"}

Returns(x, code) == ret' = IF x \in Clients THEN [ret EXCEPT ![x] = code] ELSE ret

\* The first test of threadpool_add and threadpool_destroy: the pool is NULL.
CallOnNull(c) ==
  /\ handle = "null"
  /\ pc[Main] \in {"idle", "end"}
  /\ pc[c] = "idle"
  /\ Returns(c, "invalid")
  /\ UNCHANGED <<lock, ring, shutdown, create, started, pc, task, history>>

AddLockFails(x) ==
  /\ MayCall(x)
  /\ "lock" \in Faults
  /\ Returns(x, "lock_failure")
  /\ UNCHANGED <<lock, ring, shutdown, create, started, pc, task, history>>

\* The unlock at the end of threadpool_add; err is the code found so far.
AddUnlocks(x, err) ==
  \/ /\ lock' = NoThread
     /\ Returns(x, err)
  \/ /\ "unlock" \in Faults
     /\ lock' = x
     /\ Returns(x, "lock_failure")

\* The queue is full, which is tested before shutdown, or the pool is
\* shutting down.
AddRefused(x) ==
  /\ MayCall(x)
  /\ lock = NoThread
  /\ Full \/ shutdown # "no"
  /\ AddUnlocks(x, IF Full THEN "queue_full" ELSE "shutdown")
  /\ UNCHANGED <<ring, shutdown, create, started, pc, task, history>>

\* The task is queued and a waiting worker is signalled.  When the signal
\* fails the caller is told so but the task stays in the queue.
Add(x, t) ==
  /\ MayCall(x)
  /\ lock = NoThread
  /\ \A k \in DOMAIN accepted : accepted[k] # t
  /\ ~ Full
  /\ shutdown = "no"
  /\ queue' = [queue EXCEPT ![tail] = t]
  /\ tail' = Following(tail)
  /\ count' = count + 1
  /\ accepted' = Append(accepted, t)
  /\ \/ /\ \E woken \in WakeOne :
             pc' = [y \in DOMAIN pc |-> IF y \in woken THEN "lock" ELSE pc[y]]
        /\ AddUnlocks(x, "ok")
     \/ /\ "signal" \in Faults
        /\ pc' = pc
        /\ AddUnlocks(x, "lock_failure")
  /\ UNCHANGED <<head, shutdown, create, started, task, taken, done>>

-----------------------------------------------------------------------------
(* threadpool_destroy *)

\* A client destroys a pool it was given; threadpool_create one it could not
\* complete.
MayDestroy(c) ==
  \/ c \in Destroyers /\ pc[c] = "idle" /\ MayCall(c)
  \/ c = Main /\ pc[c] = "abort"

DestroyLockFails(c) ==
  /\ MayDestroy(c)
  /\ "lock" \in Faults
  /\ Returns(c, "lock_failure")
  /\ pc' = [pc EXCEPT ![c] = "end"]
  /\ UNCHANGED <<lock, ring, shutdown, create, started, task, history>>

\* Another thread is destroying the pool: the function returns with the lock
\* taken.
DestroyAgain(c) ==
  /\ MayDestroy(c)
  /\ lock = NoThread
  /\ shutdown # "no"
  /\ lock' = c
  /\ Returns(c, "shutdown")
  /\ pc' = [pc EXCEPT ![c] = "end"]
  /\ UNCHANGED <<ring, shutdown, create, started, task, history>>

Destroy_Unchecked(c, how) ==
  /\ MayDestroy(c)
  /\ pc[c] = "abort" => how = "immediate"
  /\ lock = NoThread
  /\ shutdown' = how
  /\ \E failed \in {"", "broadcast", "unlock"} :
       /\ failed \in Faults \cup {""}
       /\ lock' = IF failed = "" THEN NoThread ELSE c
       /\ IF failed = "" THEN ret' = ret ELSE Returns(c, "lock_failure")
       /\ \E woken \in IF failed = "broadcast" THEN {{}} ELSE WakeAll :
            pc' = [y \in DOMAIN pc |->
                     IF y \in woken THEN "lock"
                     ELSE IF y = c THEN IF failed = "" THEN "join" ELSE "end"
                     ELSE pc[y]]
  /\ UNCHANGED <<ring, create, started, task, history>>

\* Shutdown is recorded, all waiting workers are woken and the lock is
\* released; when one of the two calls fails, the lock is left taken and
\* nothing is joined or freed.
Destroy(c, how) ==
  /\ MayDestroy(c)
  /\ pc[c] = "abort" => how = "immediate"
  /\ lock = NoThread
  /\ shutdown = "no"
  /\ shutdown' = how
  /\ \E failed \in {"", "broadcast", "unlock"} :
       /\ failed \in Faults \cup {""}
       /\ lock' = IF failed = "" THEN NoThread ELSE c
       /\ IF failed = "" THEN ret' = ret ELSE Returns(c, "lock_failure")
       /\ \E woken \in IF failed = "broadcast" THEN {{}} ELSE WakeAll :
            pc' = [y \in DOMAIN pc |->
                     IF y \in woken THEN "lock"
                     ELSE IF y = c THEN IF failed = "" THEN "join" ELSE "end"
                     ELSE pc[y]]
  /\ UNCHANGED <<ring, create, started, task, history>>

\* All the joins; any failed one makes the result threadpool_thread_failure
\* and keeps the pool allocated.
Join(c, unjoined) ==
  /\ pc[c] = "join"
  /\ unjoined # {} => "join" \in Faults
  /\ Joined(unjoined)
  /\ IF unjoined = {}
     THEN /\ pc' = [pc EXCEPT ![c] = "free"]
          /\ ret' = ret
     ELSE /\ pc' = [pc EXCEPT ![c] = "end"]
          /\ Returns(c, "thread_failure")
  /\ UNCHANGED <<lock, ring, shutdown, create, started, task, history>>

\* threadpool_free up to the lock.  It does nothing while threads are
\* started, and threadpool_destroy does not look at what it returns.
FreeArrays(c) ==
  /\ pc[c] = "free"
  /\ IF started > 0
     THEN /\ pc' = [pc EXCEPT ![c] = "end"]
          /\ Returns(c, "ok")
          /\ UNCHANGED heap
     ELSE /\ pc' = [pc EXCEPT ![c] = "free_lock"]
          /\ heap' = heap \ {"threads", "queue"}
          /\ ret' = ret
  /\ UNCHANGED <<lock, ring, shutdown, threads, thread_count, started, inited,
                 handle, task, history>>

\* The rest of threadpool_free: lock, destroy the objects, free the pool.
FreePool(c) ==
  /\ pc[c] = "free_lock"
  /\ lock = NoThread
  /\ heap' = heap \ {"pool"}
  /\ inited' = {}
  /\ pc' = [pc EXCEPT ![c] = "end"]
  /\ Returns(c, "ok")
  /\ UNCHANGED <<lock, ring, shutdown, threads, thread_count, started, handle,
                 task, history>>

-----------------------------------------------------------------------------
(* threadpool_thread *)

WorkerWait(w) ==
  /\ pc[w] = "lock"
  /\ lock = NoThread
  /\ count = 0
  /\ shutdown = "no"
  /\ pc' = [pc EXCEPT ![w] = "wait"]
  /\ UNCHANGED <<lock, ring, shutdown, create, started, task, ret, history>>

\* pthread_cond_wait may return without a signal.
SpuriousWakeup(w) ==
  /\ pc[w] = "wait"
  /\ pc' = [pc EXCEPT ![w] = "lock"]
  /\ UNCHANGED <<lock, ring, shutdown, create, started, task, ret, history>>

WorkerTake_Unchecked(w) ==
  /\ pc[w] = "lock"
  /\ lock = NoThread
  /\ ~ MustStop
  /\ task' = [task EXCEPT ![w] = queue[head]]
  /\ taken' = Append(taken, queue[head])
  /\ head' = Following(head)
  /\ count' = count - 1
  /\ pc' = [pc EXCEPT ![w] = "run"]
  /\ UNCHANGED <<lock, queue, tail, shutdown, create, started, ret, accepted,
                 done>>

WorkerTake(w) ==
  /\ pc[w] = "lock"
  /\ lock = NoThread
  /\ count # 0
  /\ ~ MustStop
  /\ task' = [task EXCEPT ![w] = queue[head]]
  /\ taken' = Append(taken, queue[head])
  /\ head' = Following(head)
  /\ count' = count - 1
  /\ pc' = [pc EXCEPT ![w] = "run"]
  /\ UNCHANGED <<lock, queue, tail, shutdown, create, started, ret, accepted,
                 done>>

WorkerFinish(w) ==
  /\ pc[w] = "run"
  /\ done' = done \cup {task[w]}
  /\ pc' = [pc EXCEPT ![w] = "lock"]
  /\ UNCHANGED <<lock, ring, shutdown, create, started, task, ret, accepted,
                 taken>>

WorkerExit(w) ==
  /\ pc[w] = "lock"
  /\ lock = NoThread
  /\ MustStop
  /\ started' = started - 1
  /\ pc' = [pc EXCEPT ![w] = "exit"]
  /\ UNCHANGED <<lock, ring, shutdown, create, task, ret, history>>

-----------------------------------------------------------------------------
\* The pool is gone, or was never made, and every thread is done with it.
Terminated ==
  /\ pc[Main] \in {"idle", "end"}
  /\ handle # "none"
  /\ "pool" \notin heap
  /\ UNCHANGED vars

CreateStep ==
  \/ \E ok \in BOOLEAN : CreatePool(ok)
  \/ \E o \in InitOutcomes : CreateInit(o)
  \/ CreateErr
  \/ \E w \in Workers : StartThread(w)
  \/ CountThread
  \/ StartThreadFails
  \/ CreateReturns

AddStep(x) ==
  \/ AddLockFails(x)
  \/ AddRefused(x)
  \/ \E t \in Tasks : Add(x, t)

ShutdownStep(c) ==
  \/ DestroyLockFails(c)
  \/ DestroyAgain(c)
  \/ \E how \in {"immediate", "graceful"} : Destroy(c, how)

JoinStep(c) ==
  \/ \E unjoined \in SUBSET (1..thread_count) : Join(c, unjoined)
  \/ FreeArrays(c)
  \/ FreePool(c)

WorkerStep(w) ==
  \/ WorkerWait(w)
  \/ WorkerTake(w)
  \/ WorkerFinish(w)
  \/ WorkerExit(w)

Next ==
  \/ CreateStep
  \/ \E x \in Clients \cup Workers : AddStep(x)
  \/ \E c \in Clients : CallOnNull(c) \/ ShutdownStep(c) \/ JoinStep(c)
  \/ \E w \in Workers : WorkerStep(w) \/ SpuriousWakeup(w)
  \/ Terminated

Spec == Init /\ [][Next]_vars

\* The operating system runs every thread that can run, and tasks end.
\* Nobody is obliged to submit a task or to destroy the pool, except
\* threadpool_create when it fails.
Fairness ==
  /\ WF_vars(CreateStep)
  /\ WF_vars(pc[Main] = "abort" /\ ShutdownStep(Main))
  /\ \A c \in Clients : WF_vars(JoinStep(c))
  /\ \A w \in Workers : WF_vars(WorkerStep(w))

FairSpec == Spec /\ Fairness

-----------------------------------------------------------------------------
(* Properties *)

TypeOK ==
  /\ lock \in Clients \cup Workers \cup {NoThread}
  /\ queue \in [0..(QueueSize - 1) -> Tasks \cup {NoTask}]
  /\ head \in 0..(QueueSize - 1)
  /\ tail \in 0..(QueueSize - 1)
  /\ count \in 0..QueueSize
  /\ shutdown \in {"no", "immediate", "graceful"}
  /\ threads \in Seq(Workers)
  /\ thread_count \in Nat
  /\ started \in Int
  /\ heap \subseteq Blocks
  /\ inited \subseteq {"lock", "notify"}
  /\ pc \in [Workers \cup Clients -> WorkerPcs \cup ClientPcs]
  /\ \A w \in Workers : pc[w] \in WorkerPcs
  /\ \A c \in Clients : pc[c] \in ClientPcs
  /\ task \in [Workers -> Tasks \cup {NoTask}]
  /\ handle \in {"none", "live", "null"}
  /\ ret \in [Clients -> Codes]
  /\ accepted \in Seq(Tasks)
  /\ taken \in Seq(Tasks)
  /\ done \subseteq Tasks

\* The workers grab the tasks in the order in which threadpool_add wrote them
\* to the ring, none twice and none left out: what was queued is what was
\* grabbed followed by what the ring holds from head on (lines 177-180 and
\* 285-289), however the indices wrap.
TasksInOrder == accepted = taken \o Pending

\* No wakeup is lost: as long as a worker sleeps in pthread_cond_wait, the
\* queued tasks are no more than the workers that are awake and about to look
\* at the queue, so no task waits for a worker that nobody will wake (one
\* signal per task, line 183; the while of line 274).
WakeupsCoverQueue ==
  At("wait") # {} => count <= Cardinality(At("lock"))

\* A worker that can still touch the pool finds all of it allocated and its
\* mutex and condition variable initialised: threadpool_free only runs when
\* the joins of threadpool_destroy have seen every worker leave (lines
\* 226-235), also when threadpool_create gives up half way (line 130).
NoUseAfterFree ==
  (\E w \in Workers : pc[w] \in {"lock", "wait", "run"})
     => heap = Blocks /\ inited = {"lock", "notify"}

\* When threadpool_destroy returns 0 it has released everything: threadpool_free
\* never declines because of the started threads it counts (line 242, whose
\* result line 235 ignores).
DestroyFrees ==
  \A c \in Clients : pc[c] = "end" /\ ret[c] = "ok" => heap = {} /\ inited = {}

\* At most one thread gets past the test of shutdown in threadpool_destroy
\* (line 210), so the pool is joined and freed once, and it is still allocated
\* while that thread works on it.
OneDestroyer ==
  LET Destroying == {c \in Clients : pc[c] \in {"join", "free", "free_lock"}}
  IN  \A c \in Destroying : "pool" \in heap /\ Destroying = {c}

\* The pool implements TaskPool: FIFO start, no start after an immediate
\* shutdown, no submission after a shutdown or beyond queue_size, and it only
\* closes with nothing running.
TP == INSTANCE TaskPool WITH
        Capacity <- QueueSize,
        pending <- Pending,
        running <- {task[w] : w \in At("run")},
        mode <- IF shutdown # "no" /\ "pool" \notin heap THEN "closed"
                ELSE IF shutdown = "no" THEN "open" ELSE shutdown

\* Every step of the pool is a step of the abstract pool or changes nothing
\* the abstract pool can see.
ImplementsTaskPool == TP!Pool_Spec

\* An accepted task is executed unless an immediate shutdown intervenes (the
\* loop of threadpool_thread, lines 268-296).
AcceptedTasksEnd ==
  \A t \in Tasks :
    (\E k \in DOMAIN accepted : accepted[k] = t)
       ~> (t \in done \/ shutdown = "immediate")

\* A call of threadpool_destroy that starts the shutdown stops and joins all
\* the workers and returns (README.rst: "Stops and joins all worker threads on
\* destroy."; lines 226-238).
DestroyReturns == \A c \in Clients : pc[c] = "join" ~> pc[c] = "end"
=============================================================================
