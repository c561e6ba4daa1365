----------------------------- MODULE ChatServer -----------------------------
(***************************************************************************)
(* epoll/server_epoll_pthread_pool.c: a chat server.  The main thread      *)
(* accepts clients, keeps the last message of each in client[] and queues  *)
(* a job for every message; a pool of threads sends the message to all the *)
(* other clients.  The argument of every job is the address of the same    *)
(* variable, sockfd of the main loop, which the job reads when it runs.    *)
(*                                                                         *)
(* The file has lost the ends of three for statements (lines 118, 127 and  *)
(* 195); they are read as loops over all clients and over all events.      *)
(* Which events there are, and when, is left open.  Finding and copying a  *)
(* record is one step (entries of client[] are only ever appended), and    *)
(* mark, which nobody reads, is left out.                                  *)
(***************************************************************************)
EXTENDS Integers, Sequences, FiniteSets, Pthreads

CONSTANTS
  Threads,       \* the pool's threads
  MaxConns,      \* how many connections clients make
  Fds,           \* the descriptors they may get
  MaxEvents,     \* how many messages are received and accepts fail, together
  Main,          \* the main thread
  Nothing        \* no thread, connection, descriptor or job

\* Connections are numbered in the order in which they are accepted, messages in the
\* order in which they are received.
Conns == 1..MaxConns
Messages == 1..MaxEvents

\* What a failing accept returns.
BadFd == -1

\* An empty chatRecord.
Empty == 0

ASSUME ThreadsAssumption == IsFiniteSet(Threads) /\ Threads # {} /\ Main \notin Threads

ASSUME BoundsAssumption == MaxConns \in Nat /\ MaxEvents \in Nat

ASSUME FdsAssumption == IsFiniteSet(Fds) /\ Fds \subseteq Nat

ASSUME NothingAssumption == Nothing \notin Threads \cup Conns \cup Fds \cup Messages \cup {Main}

VARIABLES
  \* the pool
  queueLock, queueHead, curQueueSize, shutdown,
  pool,          \* "none", "live" or "freed"
  pc,            \* where each thread, and the main thread, is
  worker,        \* the job of each thread, named after its message
  who,           \* the value of sockfd it has read
  buf,           \* the record it has copied
  next,          \* the entry of client[] it comes to next
  done,          \* the jobs that are over
  \* the main loop
  sockfd,
  client,        \* the entries 1..client_count of client[]
  user_count,
  owner,         \* the connection behind each descriptor
  came,          \* how many connections have been accepted so far
  failures,      \* how often accept has failed
  \* what was said
  origin,        \* the connection each message came from
  offered,       \* the messages that send was called with for each connection
  last           \* the message received last, if nothing has happened since

queue   == <<queueHead, curQueueSize>>
thePool == <<queueLock, queue, shutdown, pool>>
myjob   == <<who, buf, next>>
crew    == <<worker, myjob, done>>
clients == <<client, user_count, owner, came, failures>>
chat    == <<sockfd, clients, origin, last>>
vars == <<thePool, pc, crew, chat, offered>>

At(where) == {w \in Threads : pc[w] = where}

Goto(x, where) == pc' = [pc EXCEPT ![x] = where]

Connected == {owner[f] : f \in Fds} \ {Nothing}

Init ==
  /\ queueLock = Nothing
  /\ queueHead = <<>>
  /\ curQueueSize = 0
  /\ shutdown = FALSE
  /\ pool = "none"
  /\ pc = [x \in Threads \cup {Main} |-> "none"]
  /\ worker = [w \in Threads |-> Nothing]
  /\ who = [w \in Threads |-> Nothing]
  /\ buf = [w \in Threads |-> Empty]
  /\ next = [w \in Threads |-> 0]
  /\ done = {}
  /\ sockfd = Nothing
  /\ client = <<>>
  /\ user_count = 0
  /\ owner = [f \in Fds |-> Nothing]
  /\ came = 0
  /\ failures = 0
  /\ origin = <<>>
  /\ offered = [c \in Conns |-> {}]
  /\ last = Nothing

-----------------------------------------------------------------------------
(* poolInit, poolAddWorker, poolDestroy *)

poolInit ==
  /\ pc[Main] = "none"
  /\ pool' = "live"
  /\ pc' = [x \in Threads \cup {Main} |-> IF x = Main THEN "loop" ELSE "lock"]
  /\ UNCHANGED <<queueLock, queue, shutdown, crew, chat, offered>>

\* The job of the message received last is appended to the list.
AddJob ==
  /\ pc[Main] = "add"
  /\ queueLock = Nothing
  /\ queueHead' = Append(queueHead, Len(origin))
  /\ curQueueSize' = curQueueSize + 1
  /\ Goto(Main, "signal")
  /\ UNCHANGED <<queueLock, shutdown, pool, crew, chat, offered>>

\* Moves the main thread on and wakes the threads in ws.
MainWakes(where, ws) ==
  pc' = [x \in Threads \cup {Main} |->
           IF x = Main THEN where ELSE IF x \in ws THEN "lock" ELSE pc[x]]

\* Whom pthread_cond_signal and pthread_cond_broadcast may wake.
Signalled_None == {{}}
Signalled == Signal(At("wait"))

WokenAll_None == {{}}
WokenAll == Broadcast(At("wait"))

AddSignal ==
  /\ pc[Main] = "signal"
  /\ \E ws \in Signalled : MainWakes("loop", ws)
  /\ UNCHANGED <<thePool, crew, chat, offered>>

\* epoll_wait fails and the main loop ends; the flag is set without the lock.
SetShutdown ==
  /\ pc[Main] = "loop"
  /\ shutdown' = TRUE
  /\ Goto(Main, "broadcast")
  /\ UNCHANGED <<queueLock, queue, pool, crew, chat, offered>>

DestroyBroadcast ==
  /\ pc[Main] = "broadcast"
  /\ \E ws \in WokenAll : MainWakes("join", ws)
  /\ UNCHANGED <<thePool, crew, chat, offered>>

\* All threads are joined; the list, the pool and client[] are freed.
DestroyFree ==
  /\ pc[Main] = "join"
  /\ At("exit") = Threads
  /\ queueHead' = <<>>
  /\ pool' = "freed"
  /\ Goto(Main, "end")
  /\ UNCHANGED <<queueLock, curQueueSize, shutdown, crew, chat, offered>>

-----------------------------------------------------------------------------
(* threadRoutine *)

Lock(w) ==
  /\ pc[w] = "lock"
  /\ queueLock = Nothing
  /\ queueLock' = w
  /\ Goto(w, "test")
  /\ UNCHANGED <<queue, shutdown, pool, crew, chat, offered>>

\* The thread has found nothing to do and goes to sleep, in two steps: the flag
\* may be set between the test and the wait.
Test(w) ==
  /\ pc[w] = "test"
  /\ curQueueSize = 0
  /\ ~ shutdown
  /\ Goto(w, "sleep")
  /\ UNCHANGED <<thePool, crew, chat, offered>>

Sleep(w) ==
  /\ pc[w] = "sleep"
  /\ queueLock' = Nothing
  /\ Goto(w, "wait")
  /\ UNCHANGED <<queue, shutdown, pool, crew, chat, offered>>

SpuriousWakeup(w) ==
  /\ pc[w] = "wait"
  /\ Goto(w, "lock")
  /\ UNCHANGED <<thePool, crew, chat, offered>>

\* Whether a thread leaves.
Leaves_WithJobs == shutdown
Leaves == curQueueSize = 0 /\ shutdown

Exit(w) ==
  /\ pc[w] = "test"
  /\ Leaves
  /\ queueLock' = Nothing
  /\ Goto(w, "exit")
  /\ UNCHANGED <<queue, shutdown, pool, crew, chat, offered>>

\* curQueueSize after a job is taken.
Taken_Uncounted == curQueueSize
Taken == curQueueSize - 1

Take(w) ==
  /\ pc[w] = "test"
  /\ curQueueSize # 0
  /\ curQueueSize' = Taken
  /\ worker' = [worker EXCEPT ![w] = Head(queueHead)]
  /\ queueHead' = Tail(queueHead)
  /\ queueLock' = Nothing
  /\ Goto(w, "read")
  /\ UNCHANGED <<shutdown, pool, myjob, done, chat, offered>>

-----------------------------------------------------------------------------
(* myprocess *)

\* The argument is read: whatever sockfd is by now.  Between two iterations of
\* the loop sockfd is out of scope, and its place keeps the value.
ReadArg(w) ==
  /\ pc[w] = "read"
  /\ who' = [who EXCEPT ![w] = sockfd]
  /\ Goto(w, "copy")
  /\ UNCHANGED <<thePool, worker, buf, next, done, chat, offered>>

\* The record of the first client with that descriptor.
RecordOf(f) ==
  LET found == {k \in DOMAIN client : client[k].fd = f}
  IN  IF found = {} THEN Empty
      ELSE client[CHOOSE k \in found : \A j \in found : k <= j].record

Copy(w) ==
  /\ pc[w] = "copy"
  /\ buf' = [buf EXCEPT ![w] = RecordOf(who[w])]
  /\ next' = [next EXCEPT ![w] = 1]
  /\ Goto(w, "send")
  /\ UNCHANGED <<thePool, worker, who, done, chat, offered>>

\* The connection send would write to: none if the entry has the descriptor of the
\* sender, if its descriptor is closed or -1, or if there is nothing to write.
Addressee(w) ==
  LET f == client[next[w]].fd
  IN  IF f \in {who[w], BadFd} \/ buf[w] = Empty THEN Nothing ELSE owner[f]

\* One round of the loop over client[].  The sockets do not block: send may take the
\* message, or part of it, or fail, which is printed and changes nothing else.
Send(w) ==
  /\ pc[w] = "send"
  /\ next[w] \in DOMAIN client
  /\ offered' = [c \in Conns |-> IF c = Addressee(w) THEN offered[c] \cup {buf[w]}
                                ELSE offered[c]]
  /\ next' = [next EXCEPT ![w] = @ + 1]
  /\ UNCHANGED <<thePool, pc, worker, who, buf, done, chat>>

\* myprocess returns and the job is freed.
SentAll(w) ==
  /\ pc[w] = "send"
  /\ next[w] \notin DOMAIN client
  /\ done' = done \cup {worker[w]}
  /\ worker' = [worker EXCEPT ![w] = Nothing]
  /\ who' = [who EXCEPT ![w] = Nothing]
  /\ buf' = [buf EXCEPT ![w] = Empty]
  /\ next' = [next EXCEPT ![w] = 0]
  /\ Goto(w, "lock")
  /\ UNCHANGED <<thePool, chat, offered>>

-----------------------------------------------------------------------------
(* The main loop *)

\* client_count and user_count after accept, and the entry of client[].
NewClient(f) ==
  /\ client' = Append(client, [fd |-> f, record |-> Empty])
  /\ user_count' = user_count + 1

\* A connection gets the lowest descriptor that is free.
Accept(f) ==
  /\ pc[Main] = "loop"
  /\ came < MaxConns
  /\ owner[f] = Nothing
  /\ \A g \in Fds : owner[g] = Nothing => f <= g
  /\ came' = came + 1
  /\ owner' = [owner EXCEPT ![f] = came + 1]
  /\ sockfd' = Nothing
  /\ NewClient(f)
  /\ last' = Nothing
  /\ UNCHANGED <<thePool, pc, crew, failures, origin, offered>>

\* What accept returns is not looked at: a client is counted, with the descriptor -1,
\* for which addfd does nothing.
AcceptFails ==
  /\ pc[Main] = "loop"
  /\ failures + Len(origin) < MaxEvents
  /\ failures' = failures + 1
  /\ sockfd' = Nothing
  /\ NewClient(BadFd)
  /\ last' = Nothing
  /\ UNCHANGED <<thePool, pc, crew, owner, came, origin, offered>>

\* A message is kept in every entry with the descriptor; then poolAddWorker.
Receive(f) ==
  /\ pc[Main] = "loop"
  /\ owner[f] # Nothing
  /\ failures + Len(origin) < MaxEvents
  /\ sockfd' = f
  /\ LET m == Len(origin) + 1 IN
     /\ client' = [k \in DOMAIN client |->
                     IF client[k].fd = f THEN [client[k] EXCEPT !.record = m] ELSE client[k]]
     /\ last' = m
  /\ origin' = Append(origin, owner[f])
  /\ Goto(Main, "add")
  /\ UNCHANGED <<thePool, crew, user_count, owner, came, failures, offered>>

\* The end of a client's data, or an error: it is the record of the newest entry,
\* client[client_count], that is cleared.
Leave(f) ==
  /\ pc[Main] = "loop"
  /\ owner[f] # Nothing
  /\ sockfd' = f
  /\ client' = [client EXCEPT ![Len(client)].record = Empty]
  /\ user_count' = user_count - 1
  /\ owner' = [owner EXCEPT ![f] = Nothing]
  /\ last' = Nothing
  /\ UNCHANGED <<thePool, pc, crew, came, failures, origin, offered>>

\* Any other event, such as EPOLLOUT, or a recv that finds nothing: it changes no
\* more than sockfd.
OtherEvent(f) ==
  /\ pc[Main] = "loop"
  /\ owner[f] # Nothing
  /\ sockfd' = f
  /\ last' = Nothing
  /\ UNCHANGED <<thePool, pc, crew, clients, origin, offered>>

-----------------------------------------------------------------------------
PoolStep ==
  \/ poolInit
  \/ AddJob
  \/ AddSignal
  \/ DestroyBroadcast
  \/ DestroyFree

LoopStep ==
  \/ SetShutdown
  \/ \E f \in Fds : Accept(f)
  \/ AcceptFails
  \/ \E f \in Fds : Receive(f)
  \/ \E f \in Fds : Leave(f)
  \/ \E f \in Fds : OtherEvent(f)

ThreadStep(w) ==
  \/ Lock(w)
  \/ Test(w)
  \/ Sleep(w)
  \/ Exit(w)
  \/ Take(w)
  \/ ReadArg(w)
  \/ Copy(w)
  \/ Send(w)
  \/ SentAll(w)

Next ==
  \/ PoolStep
  \/ LoopStep
  \/ \E w \in Threads : ThreadStep(w)
  \/ \E w \in Threads : SpuriousWakeup(w)

Spec == Init /\ [][Next]_vars

\* Every thread that can run does, and gets the lock if it keeps asking for it;
\* clients need not do anything.
FairSpec ==
  /\ Spec
  /\ WF_vars(PoolStep) /\ SF_vars(AddJob)
  /\ \A w \in Threads : WF_vars(ThreadStep(w)) /\ SF_vars(Lock(w))

-----------------------------------------------------------------------------
(* Properties *)

\* Types, what the assertions of lines 49 and 99-100 need, that the counter and the
\* list agree, and what user_count, which line 209 prints as the number of clients,
\* really counts: the clients that are connected and every accept that failed, as
\* nothing ever takes one of those off.
TypeOK ==
  /\ queueLock \in Threads \cup {Nothing}
  /\ queueHead \in Seq(Messages)
  /\ curQueueSize \in 0..MaxEvents
  /\ shutdown \in BOOLEAN
  /\ pool \in {"none", "live", "freed"}
  /\ pc[Main] \in {"none", "loop", "add", "signal", "broadcast", "join", "end"}
  /\ \A w \in Threads :
       pc[w] \in {"none", "lock", "test", "sleep", "wait", "read", "copy", "send", "exit"}
  /\ worker \in [Threads -> Messages \cup {Nothing}]
  /\ who \in [Threads -> Fds \cup {Nothing}]
  /\ buf \in [Threads -> Messages \cup {Empty}]
  /\ next \in [Threads -> Nat]
  /\ done \subseteq Messages
  /\ sockfd \in Fds \cup {Nothing}
  /\ client \in Seq([fd : Fds \cup {BadFd}, record : Messages \cup {Empty}])
  /\ failures \in Nat
  /\ user_count = Cardinality(Connected) + failures
  /\ owner \in [Fds -> Conns \cup {Nothing}]
  /\ came \in 0..MaxConns
  /\ origin \in Seq(Conns)
  /\ offered \in [Conns -> SUBSET Messages]
  /\ last \in Messages \cup {Nothing}
  /\ pool = "live" => curQueueSize = Len(queueHead)

\* What the pool of this server promises is what the abstract pool does.
Mode == IF pool = "freed" THEN "closed" ELSE IF shutdown THEN "graceful" ELSE "open"

Running == {worker[w] : w \in Threads} \ {Nothing}

TP == INSTANCE TaskPool
        WITH Tasks <- Messages, Capacity <- MaxEvents + 1,
             pending <- queueHead, running <- Running, mode <- Mode

\* The pool of lines 6-110 implements TaskPool: jobs start in order, each once,
\* and poolDestroy frees the pool only when all of them are over.
ImplementsTaskPool == TP!Pool_Spec

\* The loop of lines 127-133 leaves nobody out: when it ends, send has been called for
\* every client that is connected, whoever came and left meanwhile, but the one with
\* the descriptor that the thread takes for the sender's.
AllOffered ==
  \A w \in Threads :
    pc[w] = "send" /\ next[w] \notin DOMAIN client /\ buf[w] # Empty =>
      \A c \in Connected : owner[who[w]] = c \/ buf[w] \in offered[c]


\* poolDestroy returns, unless one thread had found nothing to do and not yet
\* begun to wait when the broadcast came: it misses the broadcast, but it is the
\* only one, as it holds queueLock, and all the others leave (lines 61-70, 88-97).
DestroyReturns ==
  pc[Main] = "join" ~>
    \/ pc[Main] = "end"
    \/ Cardinality(At("wait")) = 1 /\ At("wait") \cup At("exit") = Threads
=============================================================================
