----------------------------- MODULE EchoServer -----------------------------
(***************************************************************************)
(* The echo server of libevent-thread/echoserver_threaded.c on top of its  *)
(* work queue: the main thread accepts connections and makes a job of each *)
(* one, a worker runs the connection's own event loop until the connection *)
(* is closed, and the handler of SIGINT and SIGTERM, which runs on the     *)
(* main thread wherever that is, shuts the queue down.                     *)
(*                                                                         *)
(* libevent is external: the loop of a connection closes it at some point  *)
(* (end of file, error, timeout, failed write) and returns afterwards.     *)
(* The bytes that are echoed are left out.  One signal arrives at most,    *)
(* and the memory of a freed worker is not given to a later one.           *)
(***************************************************************************)
EXTENDS Workqueue

CONSTANTS
  Connections,  \* the connections clients make
  Descriptors,  \* the descriptors accept may return
  NoFd          \* -1

ASSUME ConnectionsAssumption == Connections = Jobs

ASSUME DescriptorsAssumption == IsFiniteSet(Descriptors) /\ NoFd \notin Descriptors

VARIABLES
  pc,        \* where the main thread is, apart from the signal handler
  newest,    \* the worker workqueue_init has started last
  next,      \* newest->next: the list it leads to
  at,        \* where each call of workqueue_shutdown is
  walk,      \* the structures each call still has to visit
  adding,    \* the job workqueue_add_job is called with
  loopexit,  \* event_base_loopexit was called on evbase_accept
  hit,       \* where the signal has found the main thread
  client,    \* client_t and the job of each connection
  stage,     \* what has become of each connection
  open       \* the descriptors that are open

mainVars == <<pc, newest, next, at, walk, adding, loopexit, hit>>
connVars == <<client, stage, open>>
vars == <<queueVars, mainVars, connVars>>

\* The calls of workqueue_shutdown: by runServer when workqueue_init has failed,
\* and by the signal handler.
Calls == {"runServer", "killServer"}

InShutdown == {"mark", "next", "clear", "clear_in"}

MainPcs == {"boot", "start", "link", "link_in", "loop", "add", "add_in", "failed",
            "exit", "crashed"}

Stages == {"backlog", "queued", "served", "closing", "refused", "closed"}

\* The blocks of a connection in the order in which on_accept allocates them.
Blocks == <<"client", "output_buffer", "evbase", "buf_ev", "job">>

AllBlocks == {Blocks[i] : i \in DOMAIN Blocks}

NoClient == [fd |-> NoFd, blocks |-> {}]

Running == pc \notin {"exit", "crashed"}

Killed == hit # "none"

\* The handler runs on the main thread, which goes on when the handler returns.
MainAt(where) == pc = where /\ at["killServer"] \notin InShutdown

GotoMain(where) ==
  /\ pc' = where
  /\ UNCHANGED <<newest, next, at, walk, adding, loopexit, hit>>

Init ==
  /\ QueueInit
  /\ pc = "boot"
  /\ newest = Nobody
  /\ next = <<>>
  /\ at = [x \in Calls |-> "idle"]
  /\ walk = [x \in Calls |-> <<>>]
  /\ adding = NoJob
  /\ loopexit = FALSE
  /\ hit = "none"
  /\ client = [c \in Connections |-> NoClient]
  /\ stage = [c \in Connections |-> "backlog"]
  /\ open = {}

\* The process ends, and with it all its threads.
ProcessEnds(how) ==
  /\ pc' = how
  /\ wpc' = [w \in Workers |-> "gone"]
  /\ UNCHANGED <<workers, terminate, freed, waiting_jobs, jobs_mutex, job>>
  /\ UNCHANGED <<newest, next, at, walk, adding, loopexit, hit, connVars>>

-----------------------------------------------------------------------------
(* closeClient, closeAndFreeClient: the descriptors open and the client      *)
(* afterwards.                                                               *)

ClosedClient_KeepsFd(cl) == cl
ClosedClient(cl) == [cl EXCEPT !.fd = NoFd]

FreedClient(cl) ==
  [ClosedClient(cl) EXCEPT !.blocks = @ \ {"buf_ev", "evbase", "output_buffer", "client"}]

WithoutJob(cl) == [cl EXCEPT !.blocks = @ \ {"job"}]

-----------------------------------------------------------------------------
(* runServer *)

\* Everything up to evbase_accept, or an error on the way.
Boot == pc = "boot" /\ GotoMain("start") /\ UNCHANGED <<queueVars, connVars>>

BootFails == pc = "boot" /\ ProcessEnds("exit")

\* The loop of workqueue_init.
Start(w) ==
  /\ MainAt("start")
  /\ StartWorker(w)
  /\ pc' = "link"
  /\ newest' = w
  /\ UNCHANGED <<next, at, walk, adding, loopexit, hit, connVars>>

Link ==
  /\ MainAt("link")
  /\ pc' = "link_in"
  /\ next' = LinkNext
  /\ UNCHANGED <<queueVars, newest, at, walk, adding, loopexit, hit, connVars>>

Linked ==
  /\ MainAt("link_in")
  /\ LinkHead(newest, next)
  /\ GotoMain("start")
  /\ UNCHANGED connVars

\* workqueue_shutdown begins.
CallShutdown(x) ==
  /\ at' = [at EXCEPT ![x] = "mark"]
  /\ walk' = [walk EXCEPT ![x] = workers]

\* malloc or pthread_create fails: the queue is shut down and runServer returns.
StartFails ==
  /\ MainAt("start")
  /\ At("unborn") # {}
  /\ pc' = "failed"
  /\ CallShutdown("runServer")
  /\ UNCHANGED <<queueVars, newest, next, adding, loopexit, hit, connVars>>

InitFailed ==
  /\ MainAt("failed")
  /\ at["runServer"] = "done"
  /\ ProcessEnds("exit")

InitReturns ==
  /\ MainAt("start")
  /\ At("unborn") = {}
  /\ GotoMain("loop")
  /\ UNCHANGED <<queueVars, connVars>>

\* The accept loop ends: runServer returns, and main with it.
LoopExit ==
  /\ MainAt("loop")
  /\ loopexit
  /\ ProcessEnds("exit")

-----------------------------------------------------------------------------
(* on_accept *)

\* A connection is accepted and all its blocks allocated; main goes on with
\* workqueue_add_job.
Accept(c, fd) ==
  /\ MainAt("loop")
  /\ stage[c] = "backlog"
  /\ fd \notin open
  /\ open' = open \cup {fd}
  /\ client' = [client EXCEPT ![c] = [fd |-> fd, blocks |-> AllBlocks]]
  /\ stage' = [stage EXCEPT ![c] = "queued"]
  /\ adding' = c
  /\ pc' = "add"
  /\ UNCHANGED <<queueVars, newest, next, at, walk, loopexit, hit>>

\* The call that makes block n fails (n = 1 also stands for setnonblock): the
\* descriptor is closed and the blocks before n are freed.
AcceptFails(c, fd, n) ==
  LET made == [fd |-> fd, blocks |-> {Blocks[i] : i \in 1..(n - 1)}] IN
  /\ MainAt("loop")
  /\ stage[c] = "backlog"
  /\ fd \notin open
  /\ client' = [client EXCEPT ![c] = FreedClient(made)]
  /\ stage' = [stage EXCEPT ![c] = "refused"]
  /\ UNCHANGED <<queueVars, mainVars, open>>

\* workqueue_add_job.
Add ==
  /\ MainAt("add")
  /\ AddLock
  /\ GotoMain("add_in")
  /\ UNCHANGED connVars

AddReturns ==
  /\ MainAt("add_in")
  /\ AddSignal(adding)
  /\ GotoMain("loop")
  /\ UNCHANGED connVars

-----------------------------------------------------------------------------
(* sighandler, killServer *)

\* event_base_loopexit, then workqueue_shutdown.  Before evbase_accept exists
\* the former is given a null pointer.
Kill ==
  /\ ~ Killed
  /\ pc \notin {"boot", "exit", "crashed"}
  /\ hit' = pc
  /\ loopexit' = TRUE
  /\ CallShutdown("killServer")
  /\ UNCHANGED <<queueVars, pc, newest, next, adding, connVars>>

KillTooEarly == pc = "boot" /\ ProcessEnds("crashed")

-----------------------------------------------------------------------------
(* workqueue_shutdown; when the handler has interrupted a call of runServer, *)
(* that call waits for the handler.                                          *)

ShutdownAt(x, where) ==
  /\ Running
  /\ at[x] = where
  /\ x = "killServer" \/ at["killServer"] \notin InShutdown

GotoShutdown(x, where) ==
  /\ at' = [at EXCEPT ![x] = where]
  /\ UNCHANGED <<pc, newest, next, adding, loopexit, hit, connVars>>

ShutdownMark(x) ==
  /\ ShutdownAt(x, "mark")
  /\ walk[x] # <<>>
  /\ Mark(Head(walk[x]))
  /\ GotoShutdown(x, "next")
  /\ UNCHANGED walk

ShutdownNext(x) ==
  /\ ShutdownAt(x, "next")
  /\ walk' = [walk EXCEPT ![x] = Tail(@)]
  /\ GotoShutdown(x, "mark")
  /\ UNCHANGED queueVars

\* The structure may have been freed before it is marked or before its next field is
\* read.  Its memory either still is as it was or leads astray.
ShutdownAstray(x) ==
  /\ ShutdownAt(x, "mark") \/ ShutdownAt(x, "next")
  /\ walk[x] # <<>>
  /\ Head(walk[x]) \in freed
  /\ ProcessEnds("crashed")

ShutdownMarked(x) ==
  /\ ShutdownAt(x, "mark")
  /\ walk[x] = <<>>
  /\ GotoShutdown(x, "clear")
  /\ UNCHANGED <<queueVars, walk>>

ShutdownLock(x) ==
  /\ ShutdownAt(x, "clear")
  /\ ClearLock
  /\ GotoShutdown(x, "clear_in")
  /\ UNCHANGED walk

ShutdownReturns(x) ==
  /\ ShutdownAt(x, "clear_in")
  /\ Clear
  /\ GotoShutdown(x, "done")
  /\ UNCHANGED walk

ShutdownStep(x) ==
  \/ ShutdownMark(x)
  \/ ShutdownNext(x)
  \/ ShutdownAstray(x)
  \/ ShutdownMarked(x)
  \/ ShutdownLock(x)
  \/ ShutdownReturns(x)

-----------------------------------------------------------------------------
(* server_job_function and the callbacks of a connection *)

\* The worker enters the event loop of the connection.
Serve(w) ==
  /\ WorkerTake(w)
  /\ stage' = [stage EXCEPT ![Head(waiting_jobs)] = "served"]
  /\ UNCHANGED <<mainVars, client, open>>

\* buffered_on_error, or buffered_on_read whose write fails.
CloseClient(w) ==
  LET c == job[w] IN
  /\ wpc[w] = "run"
  /\ client[c].fd # NoFd
  /\ open' = open \ {client[c].fd}
  /\ client' = [client EXCEPT ![c] = ClosedClient(@)]
  /\ stage' = [stage EXCEPT ![c] = "closing"]
  /\ UNCHANGED <<queueVars, mainVars>>

\* The loop has no event left: closeAndFreeClient, and the job is freed.
FreeClient(w) ==
  LET c == job[w] IN
  /\ wpc[w] = "run"
  /\ stage[c] = "closing"
  /\ JobReturns(w)
  /\ open' = open \ {client[c].fd}
  /\ client' = [client EXCEPT ![c] = WithoutJob(FreedClient(@))]
  /\ stage' = [stage EXCEPT ![c] = "closed"]
  /\ UNCHANGED mainVars

-----------------------------------------------------------------------------
MainStep ==
  \/ Boot
  \/ BootFails
  \/ \E w \in Workers : Start(w)
  \/ Link
  \/ Linked
  \/ StartFails
  \/ InitFailed
  \/ InitReturns
  \/ LoopExit
  \/ Add
  \/ AddReturns
  \/ \E x \in Calls : ShutdownStep(x)

Environment ==
  \/ \E c \in Connections, fd \in Descriptors :
       Accept(c, fd) \/ \E n \in DOMAIN Blocks : AcceptFails(c, fd, n)
  \/ Kill
  \/ KillTooEarly

ServerWaits(w) == WorkerWait(w) /\ UNCHANGED <<mainVars, connVars>>
ServerStops(w) == WorkerStop(w) /\ UNCHANGED <<mainVars, connVars>>
ServerFrees(w) == WorkerFree(w) /\ UNCHANGED <<mainVars, connVars>>
ServerWakes(w) == SpuriousWakeup(w) /\ UNCHANGED <<mainVars, connVars>>

ServerStep(w) ==
  \/ ServerWaits(w)
  \/ Serve(w)
  \/ CloseClient(w)
  \/ FreeClient(w)
  \/ ServerStops(w)
  \/ ServerFrees(w)

Next ==
  \/ MainStep
  \/ Environment
  \/ \E w \in Workers : ServerStep(w) \/ ServerWakes(w)

Spec == Init /\ [][Next]_vars

\* Threads that can run do.  A connection is closed at some point: by its client,
\* or by the read and write timeouts of ten seconds.
Fairness ==
  /\ WF_vars(MainStep)
  /\ \A w \in Workers : WF_vars(ServerStep(w))

FairSpec == Spec /\ Fairness

-----------------------------------------------------------------------------
(* Properties *)

TypeOK ==
  /\ workers \in Seq(Workers)
  /\ Len(workers) <= Cardinality(Workers)
  /\ terminate \in [Workers -> BOOLEAN]
  /\ freed \subseteq Workers
  /\ waiting_jobs \in Seq(Jobs)
  /\ jobs_mutex \in Workers \cup {Owner, Nobody}
  /\ wpc \in [Workers -> WorkerPcs]
  /\ job \in [Workers -> Jobs \cup {NoJob}]
  /\ pc \in MainPcs
  /\ newest \in Workers \cup {Nobody}
  /\ next \in Seq(Workers)
  /\ at \in [Calls -> InShutdown \cup {"idle", "done"}]
  /\ walk \in [Calls -> Seq(Workers)]
  /\ adding \in Jobs \cup {NoJob}
  /\ loopexit \in BOOLEAN
  /\ hit \in MainPcs \cup {"none"}
  /\ client \in [Connections -> [fd : Descriptors \cup {NoFd}, blocks : SUBSET AllBlocks]]
  /\ stage \in [Connections -> Stages]
  /\ open \subseteq Descriptors

\* workqueue_shutdown walks the list without the mutex while workers it has marked
\* free their structures (workqueue.c, lines 41 and 56), may run a second time when
\* workqueue_init fails after a signal, and may be interrupted by itself.  A call
\* writes into a freed structure only if two things come together: workqueue_init has
\* failed, and the signal arrived inside LL_ADD (lines 15-16: the new structure then
\* leads to the list that the handler took apart) or inside the shutdown after the
\* failure.  And whatever happens one structure at most is freed, so this is the only
\* one that a walk can read or write too late: the first worker to stop keeps
\* jobs_mutex, and no other gets as far as its free.
ShutdownWalk ==
  /\ TypeOK
  /\ \A x \in Calls :
       at[x] = "mark" /\ walk[x] # <<>> /\ Head(walk[x]) \in freed /\ Running =>
         pc = "failed" /\ hit \in {"link_in", "failed"}
  /\ \A w \in At("free") \cup At("exit") : jobs_mutex = w
  /\ Cardinality(freed) <= 1

\* A connection is in the hands of one thread at a time: the one that adds it,
\* the queue, or one worker, and whoever has it finds all of it allocated; so
\* nothing is served twice, freed twice or used after it is freed
\* (workqueue_add_job, worker_function, server_job_function).
OneHandAtATime ==
  LET Queued == {waiting_jobs[k] : k \in DOMAIN waiting_jobs}
      Served == {job[w] : w \in At("run")}
  IN  /\ Cardinality(Queued) = Len(waiting_jobs)
      /\ Cardinality(Served) = Cardinality(At("run"))
      /\ Queued \cap Served = {}
      /\ pc \in {"add", "add_in"} => adding \notin Queued \cup Served
      /\ \A c \in Queued \cup Served : client[c].blocks = AllBlocks

\* A descriptor that is open belongs to exactly one connection, and a connection
\* never keeps the number of a descriptor that was closed and may by now be
\* another connection's (closeClient resets fd, lines 83-90); and nothing of a
\* connection, descriptor or memory, is left when it is over, whether it was
\* served or on_accept gave up on it at any point (lines 162-168 and 174-265).
DescriptorsOwned ==
  /\ \A c \in Connections : stage[c] \in {"refused", "closed"} => client[c] = NoClient
  /\ open = {client[c].fd : c \in Connections} \ {NoFd}
  /\ \A c, d \in Connections :
       client[c].fd = client[d].fd /\ client[c].fd # NoFd => c = d

\* An accepted connection is served and closed, unless the server is shut down
\* first.
AcceptedAreServed ==
  \A c \in Connections :
    stage[c] = "queued" ~> (stage[c] = "closed" \/ Killed \/ ~ Running)

\* "Kill the server.  This function can be called from another thread to kill the
\* server, causing runServer() to return." (echoserver_threaded.c, line 350):
\* once the signal has found the server waiting for connections, the process ends.
KillEndsServer == (hit = "loop") ~> ~ Running
=============================================================================
