-------------------------- MODULE EchoServer_proofs --------------------------
(***************************************************************************)
(* Proofs about the threaded echo server on its work queue: the walk of    *)
(* workqueue_shutdown, the hands a connection passes through, and the      *)
(* descriptors and memory of connections.                                  *)
(***************************************************************************)
EXTENDS EchoServer, FiniteSetTheorems, FunctionTheorems, SequenceTheorems, TLAPS

\* What a list holds, and that it holds nothing twice.
Elements(q) == {q[k] : k \in DOMAIN q}

Distinct(q) == \A i, k \in DOMAIN q : q[i] = q[k] => i = k

Queue == Elements(waiting_jobs)

\* A list of workers that have been started, none of them twice.
Chain(q) == Distinct(q) /\ \A w \in Elements(q) : wpc[w] # "unborn"

Unmarked(q) == \A w \in Elements(q) : ~ terminate[w]

\* The signal has interrupted LL_ADD or the shutdown after a failed workqueue_init,
\* and that shutdown is under way.
Exposed == pc = "failed" /\ hit \in {"link_in", "failed"}

\* Which call of workqueue_shutdown runs when: that of runServer after a failure,
\* that of the handler while the main thread stays where the signal found it.
CallInv ==
  /\ at["runServer"] # "idle" => pc \in {"failed", "exit", "crashed"}
  /\ hit = "none" <=> at["killServer"] = "idle"
  /\ pc = "boot" => hit = "none"
  /\ at["killServer"] \in InShutdown /\ Running => hit = pc

\* The list of workers and whatever leads into it hold no worker twice, and not the
\* one that is still to be linked.  Unless the code is exposed no worker that a walk
\* has yet to reach is marked; and only marked workers stop.
ListInv ==
  /\ Chain(workers)
  /\ pc \in {"link", "link_in"} =>
       /\ newest \in Workers /\ wpc[newest] # "unborn" /\ ~ terminate[newest]
       /\ newest \notin Elements(workers)
       /\ at["killServer"] \in {"mark", "next"} => newest \notin Elements(walk["killServer"])
  /\ pc = "link_in" =>
       /\ Chain(next) /\ newest \notin Elements(next)
       /\ hit # "link_in" => next = workers
  /\ \A w \in Workers : wpc[w] = "unborn" => ~ terminate[w]
  /\ hit # "link_in" /\ at["killServer"] \notin InShutdown /\ Running /\ pc # "failed" =>
       Unmarked(workers)
  /\ \A x \in Calls :
       /\ at[x] \in {"mark", "next"} => Chain(walk[x])
       /\ at[x] = "next" => walk[x] # <<>>
       /\ Running /\ ~ Exposed =>
            /\ at[x] = "mark" => Unmarked(walk[x])
            /\ at[x] = "next" => Unmarked(Tail(walk[x]))
  /\ \A w \in freed \cup At("free") \cup At("exit") : terminate[w]

\* Who owns the mutex: the first worker that stopped, for good, and the main
\* thread while it is in workqueue_add_job or at the end of workqueue_shutdown,
\* the handler that interrupts it included.
MutexInv ==
  /\ \A w \in freed \cup At("free") \cup At("exit") : jobs_mutex = w
  /\ pc = "add_in" => jobs_mutex = Owner /\ at["killServer"] # "clear_in"
  /\ \A x \in Calls : at[x] = "clear_in" => jobs_mutex = Owner
  /\ ~ \A x \in Calls : at[x] = "clear_in"

\* Who has a connection: nobody before it is accepted, then one of the thread that
\* adds it, the queue, and one worker.
HandsInv ==
  /\ Distinct(waiting_jobs)
  /\ \A w \in At("run") : job[w] \in Connections /\ job[w] \notin Queue
  /\ \A v, w \in At("run") : job[v] = job[w] => v = w
  /\ pc \in {"add", "add_in"} =>
       /\ adding \in Connections /\ adding \notin Queue
       /\ stage[adding] = "queued" /\ client[adding].blocks = AllBlocks
       /\ \A w \in At("run") : job[w] # adding
  /\ \A c \in Queue \cup {job[w] : w \in At("run")} :
       stage[c] \in {"queued", "served", "closing"} /\ client[c].blocks = AllBlocks

\* Descriptors and memory: a connection in the backlog has neither.
FdInv ==
  /\ DescriptorsOwned
  /\ \A c \in Connections : stage[c] = "backlog" => client[c].fd = NoFd

ServerInv == TypeOK /\ CallInv /\ ListInv /\ MutexInv /\ HandsInv /\ FdInv

-----------------------------------------------------------------------------
(* Sequences without repetition, and the sets of threads a call wakes. *)

\* The elements of a sequence without repetition are as many as it is long.
LEMMA DistinctElements ==
  ASSUME NEW S, NEW q \in Seq(S), Distinct(q)
  PROVE  Cardinality(Elements(q)) = Len(q)
<1>1. DOMAIN q = 1..Len(q) /\ Len(q) \in Nat /\ q \in [1..Len(q) -> Elements(q)]
  BY DEF Elements
<1>2. q \in Bijection(1..Len(q), Elements(q))
  BY <1>1, Fun_IsBij DEF Elements, Distinct
<1>3. IsFiniteSet(1..Len(q)) /\ Cardinality(1..Len(q)) = Len(q)
  <2>1. ASSUME NEW n \in Nat  PROVE IsFiniteSet(1..n) /\ Cardinality(1..n) = n
    <3>1. 1 \in Int /\ n \in Int
      OBVIOUS
    <3>2. IsFiniteSet(1..n) /\ Cardinality(1..n) = IF 1 > n THEN 0 ELSE n - 1 + 1
      BY <3>1, FS_Interval, Zenon
    <3>. QED  BY <3>2
  <2>. QED  BY <1>1, <2>1
<1>. QED  BY <1>2, <1>3, FS_Bijection DEF ExistsBijection

\* It is no longer than the set it draws from.
LEMMA DistinctBound ==
  ASSUME NEW S, IsFiniteSet(S), NEW q \in Seq(S), Distinct(q)
  PROVE  Len(q) <= Cardinality(S)
<1>1. Elements(q) \in SUBSET S
  BY DEF Elements
<1>2. Cardinality(Elements(q)) = Len(q)
  BY DistinctElements
<1>3. Cardinality(Elements(q)) <= Cardinality(S)
  BY <1>1, FS_Subset
<1>. QED  BY <1>2, <1>3

\* LL_ADD puts a new element first and keeps a list free of repetitions.
LEMMA PushProperties ==
  ASSUME NEW S, NEW q \in Seq(S), NEW x \in S
  PROVE  /\ <<x>> \o q \in Seq(S)
         /\ Elements(<<x>> \o q) = {x} \cup Elements(q)
         /\ x \notin Elements(q) /\ Distinct(q) => Distinct(<<x>> \o q)
<1>. DEFINE p == <<x>> \o q
<1>1. /\ p \in Seq(S) /\ Len(p) = Len(q) + 1 /\ Len(q) \in Nat
      /\ DOMAIN p = 1..(Len(q) + 1) /\ DOMAIN q = 1..Len(q)
      /\ \A i \in 1..(Len(q) + 1) : p[i] = IF i = 1 THEN x ELSE q[i - 1]
  <2>1. <<x>> \in Seq(S) /\ Len(<<x>>) = 1 /\ <<x>>[1] = x
    OBVIOUS
  <2>2. /\ p \in Seq(S) /\ Len(p) = 1 + Len(q)
        /\ \A i \in 1..(1 + Len(q)) : p[i] = IF i <= 1 THEN <<x>>[i] ELSE q[i - 1]
    BY <2>1, ConcatProperties
  <2>3. Len(q) \in Nat /\ DOMAIN q = 1..Len(q) /\ DOMAIN p = 1..Len(p)
    BY <2>2
  <2>. HIDE DEF p
  <2>4. \A i \in 1..(Len(q) + 1) : p[i] = IF i = 1 THEN x ELSE q[i - 1]
    BY <2>1, <2>2, <2>3
  <2>. QED  BY <2>2, <2>3, <2>4
<1>. HIDE DEF p
<1>2. {p[k] : k \in DOMAIN p} = {x} \cup {q[k] : k \in DOMAIN q}
  <2>1. ASSUME NEW k \in DOMAIN p  PROVE p[k] \in {x} \cup {q[j] : j \in DOMAIN q}
    <3>1. CASE k = 1
      BY <1>1, <3>1
    <3>2. CASE k # 1
      <4>1. k - 1 \in DOMAIN q /\ p[k] = q[k - 1]
        BY <1>1, <3>2
      <4>. QED  BY <4>1
    <3>. QED  BY <3>1, <3>2
  <2>2. x \in {p[k] : k \in DOMAIN p}
    <3>1. 1 \in DOMAIN p /\ p[1] = x
      BY <1>1
    <3>. QED  BY <3>1
  <2>3. ASSUME NEW j \in DOMAIN q  PROVE q[j] \in {p[k] : k \in DOMAIN p}
    <3>1. j + 1 \in DOMAIN p /\ p[j + 1] = q[j]
      BY <1>1
    <3>. QED  BY <3>1
  <2>. QED  BY <2>1, <2>2, <2>3
<1>3. ASSUME \A k \in DOMAIN q : q[k] # x, \A i, k \in DOMAIN q : q[i] = q[k] => i = k,
             NEW i \in DOMAIN p, NEW k \in DOMAIN p, p[i] = p[k]
      PROVE  i = k
  <2>1. CASE i = 1 \/ k = 1
    <3>1. \A j \in DOMAIN p : j # 1 => j - 1 \in DOMAIN q /\ p[j] = q[j - 1] /\ p[j] # x
      BY <1>1, <1>3
    <3>2. p[1] = x
      BY <1>1
    <3>. QED  BY <1>3, <2>1, <3>1, <3>2
  <2>2. CASE i # 1 /\ k # 1
    <3>1. i - 1 \in DOMAIN q /\ k - 1 \in DOMAIN q /\ q[i - 1] = q[k - 1]
      BY <1>1, <1>3, <2>2
    <3>2. i - 1 = k - 1
      BY <1>3, <3>1
    <3>. QED  BY <1>1, <3>2
  <2>. QED  BY <2>1, <2>2
<1>. QED  BY <1>1, <1>2, <1>3 DEF p, Elements, Distinct

\* LL_REMOVE of the first element keeps the others, and it is not among them if
\* there is no repetition.
LEMMA PopProperties ==
  ASSUME NEW S, NEW q \in Seq(S), q # <<>>
  PROVE  /\ Tail(q) \in Seq(S) /\ Head(q) \in Elements(q)
         /\ Elements(Tail(q)) \subseteq Elements(q)
         /\ Distinct(q) => Head(q) \notin Elements(Tail(q)) /\ Distinct(Tail(q))
<1>1. /\ Tail(q) \in Seq(S) /\ Len(q) \in Nat \ {0} /\ DOMAIN q = 1..Len(q)
      /\ DOMAIN Tail(q) = 1..(Len(q) - 1) /\ Head(q) = q[1]
      /\ \A k \in 1..(Len(q) - 1) : Tail(q)[k] = q[k + 1]
  OBVIOUS
<1>2. 1 \in DOMAIN q /\ \A k \in DOMAIN Tail(q) : k + 1 \in DOMAIN q /\ k + 1 # 1
  BY <1>1
<1>3. Distinct(q) => Distinct(Tail(q))
  BY <1>1, <1>2 DEF Distinct
<1>. QED  BY <1>1, <1>2, <1>3 DEF Elements, Distinct

\* Signal and broadcast wake none but waiting workers, and move them to the lock.
LEMMA WakingProperties ==
  ASSUME wpc \in [Workers -> WorkerPcs],
         NEW woken \in Signalled \cup Broadcast(At("wait")), wpc' = Waking(woken)
  PROVE  /\ wpc' \in [Workers -> WorkerPcs]
         /\ \A w \in Workers : wpc'[w] = wpc[w] \/ (wpc[w] = "wait" /\ wpc'[w] = "lock")
<1>1. woken \subseteq At("wait")
  BY DEF Signalled, Signal, Broadcast
<1>. QED  BY <1>1 DEF Waking, At, WorkerPcs

-----------------------------------------------------------------------------
(* Each part of the invariant is preserved. *)

\* The ways the process ends, and the steps that change nothing but where the
\* main thread and its calls of workqueue_shutdown are and what they have read.
Ends == \/ BootFails \/ LoopExit \/ KillTooEarly \/ InitFailed
        \/ \E x \in Calls : ShutdownAstray(x)

Moves == \/ Boot \/ Link \/ StartFails \/ InitReturns \/ Kill
         \/ \E x \in Calls : ShutdownNext(x) \/ ShutdownMarked(x)

\* When the process ends its workers are gone and nothing else has changed.
LEMMA EndsEffect ==
  Ends => /\ pc' \in {"exit", "crashed"} /\ wpc' = [w \in Workers |-> "gone"]
          /\ UNCHANGED <<workers, terminate, freed, waiting_jobs, jobs_mutex, job,
                         newest, next, at, walk, adding, loopexit, hit, connVars>>
BY DEF Ends, BootFails, LoopExit, KillTooEarly, ShutdownAstray, InitFailed, ProcessEnds

\* What the moves of the main thread leave alone.
LEMMA MovesEffect == Moves => UNCHANGED <<queueVars, newest, adding, connVars>>
BY DEF Moves, Boot, Link, StartFails, InitReturns, Kill, ShutdownNext, ShutdownMarked, GotoMain,
   GotoShutdown

\* Where the moves lead.
LEMMA MovesLead ==
  Moves =>
    /\ \/ pc' = pc
       \/ pc \in {"boot", "start", "link"} /\ pc' \in {"start", "link_in", "failed", "loop"}
    /\ \A x \in Calls : at' = at \/ \E where \in {"mark", "clear"}, y \in Calls :
                          at' = [at EXCEPT ![y] = where]
BY DEF Moves, Boot, Link, StartFails, InitReturns, Kill, ShutdownNext, ShutdownMarked, GotoMain,
   GotoShutdown, CallShutdown, MainAt, Calls

\* A shutdown that goes on: the main thread stays where it is.
LEMMA ShutdownEffect ==
  ASSUME NEW x \in Calls,
         ShutdownMark(x) \/ ShutdownLock(x) \/ ShutdownReturns(x)
  PROVE  /\ UNCHANGED <<pc, newest, next, walk, adding, loopexit, hit, connVars, freed, job>>
         /\ Running
         /\ x = "killServer" \/ at["killServer"] \notin InShutdown
         /\ at[x] \in InShutdown
         /\ \E where \in {"next", "clear_in", "done"} : at' = [at EXCEPT ![x] = where]
BY DEF ShutdownMark, ShutdownLock, ShutdownReturns, ShutdownAt, GotoShutdown, Mark, ClearLock,
   Clear, InShutdown

\* The blocks of a connection: on_accept makes the job last, and what it frees when
\* it gives up is all it had made.
LEMMA BlocksFreed ==
  /\ AllBlocks = {"client", "output_buffer", "evbase", "buf_ev", "job"}
  /\ \A n \in DOMAIN Blocks, fd \in Descriptors :
       FreedClient([fd |-> fd, blocks |-> {Blocks[i] : i \in 1..(n - 1)}]) = NoClient
  /\ \A cl \in [fd : Descriptors \cup {NoFd}, blocks : SUBSET AllBlocks] :
       /\ WithoutJob(FreedClient(cl)) = NoClient
       /\ ClosedClient(cl) = [fd |-> NoFd, blocks |-> cl.blocks]
<1>1. DOMAIN Blocks = 1..5
  BY DEF Blocks
<1>2. /\ Blocks[1] = "client" /\ Blocks[2] = "output_buffer" /\ Blocks[3] = "evbase"
      /\ Blocks[4] = "buf_ev" /\ Blocks[5] = "job"
  BY DEF Blocks
<1>3. AllBlocks = {"client", "output_buffer", "evbase", "buf_ev", "job"}
  <2>1. \A i \in 1..5 : i \in {1, 2, 3, 4, 5}
    OBVIOUS
  <2>. QED  BY <1>1, <1>2, <2>1 DEF AllBlocks
<1>4. ASSUME NEW n \in DOMAIN Blocks
      PROVE  {Blocks[i] : i \in 1..(n - 1)} \subseteq {"client", "output_buffer", "evbase", "buf_ev"}
  <2>1. \A i \in 1..(n - 1) : i \in {1, 2, 3, 4}
    BY <1>1
  <2>. QED  BY <1>2, <2>1
<1>. DEFINE Freed == {"buf_ev", "evbase", "output_buffer", "client"}
<1>5. ASSUME NEW fd, NEW b, b \subseteq {"client", "output_buffer", "evbase", "buf_ev"}
      PROVE  FreedClient([fd |-> fd, blocks |-> b]) = NoClient
  <2>0. ClosedClient([fd |-> fd, blocks |-> b]) = [fd |-> NoFd, blocks |-> b]
    BY DEF ClosedClient
  <2>1. FreedClient([fd |-> fd, blocks |-> b]) = [fd |-> NoFd, blocks |-> b \ Freed]
    BY <2>0 DEF FreedClient
  <2>2. b \ Freed = {}
    BY <1>5
  <2>. QED  BY <2>1, <2>2 DEF NoClient
<1>6. ASSUME NEW cl \in [fd : Descriptors \cup {NoFd}, blocks : SUBSET AllBlocks]
      PROVE  /\ WithoutJob(FreedClient(cl)) = NoClient
             /\ ClosedClient(cl) = [fd |-> NoFd, blocks |-> cl.blocks]
  <2>1. ClosedClient(cl) = [fd |-> NoFd, blocks |-> cl.blocks]
    BY DEF ClosedClient
  <2>2. FreedClient(cl) = [fd |-> NoFd, blocks |-> cl.blocks \ Freed]
    BY <2>1 DEF FreedClient
  <2>3. (cl.blocks \ Freed) \ {"job"} = {}
    BY <1>3
  <2>4. WithoutJob(FreedClient(cl))
          = [fd |-> NoFd, blocks |-> (cl.blocks \ Freed) \ {"job"}]
    BY <2>2 DEF WithoutJob
  <2>. QED  BY <2>1, <2>3, <2>4 DEF NoClient
<1>. QED  BY <1>3, <1>4, <1>5, <1>6

\* Every step keeps the types; the list of workers never outgrows their number.
LEMMA ServerTypePreserved == ServerInv /\ [Next]_vars => TypeOK'
<1>. SUFFICES ASSUME ServerInv, [Next]_vars  PROVE TypeOK'
  OBVIOUS
<1>. USE WorkersAssumption, JobsAssumption, ConnectionsAssumption, DescriptorsAssumption
     DEF TypeOK
<1>t. TypeOK
  BY DEF ServerInv
<1>n. Cardinality(Workers) \in Nat \ {0}
  BY FS_CardinalityType, FS_EmptySet
<1>1. CASE UNCHANGED vars
  BY <1>t, <1>1 DEF vars, queueVars, mainVars, connVars
<1>2. CASE Ends
  BY <1>t, <1>2, EndsEffect DEF connVars, MainPcs, WorkerPcs
<1>3. CASE Moves
  <2>1. /\ at' \in [Calls -> InShutdown \cup {"idle", "done"}]
        /\ walk' \in [Calls -> Seq(Workers)]
    <3>1. CASE Boot \/ Link \/ InitReturns
      BY <1>t, <3>1 DEF Boot, Link, InitReturns, GotoMain
    <3>2. CASE StartFails \/ Kill
      <4>1. "mark" \in InShutdown /\ workers \in Seq(Workers)
        BY <1>t DEF InShutdown
      <4>2. \E x \in Calls : /\ at' = [at EXCEPT ![x] = "mark"]
                             /\ walk' = [walk EXCEPT ![x] = workers]
        BY <3>2 DEF StartFails, Kill, CallShutdown, Calls
      <4>. QED  BY <1>t, <4>1, <4>2
    <3>3. ASSUME NEW x \in Calls, ShutdownMarked(x)
          PROVE  /\ at' \in [Calls -> InShutdown \cup {"idle", "done"}]
                 /\ walk' \in [Calls -> Seq(Workers)]
      BY <1>t, <3>3 DEF ShutdownMarked, GotoShutdown, InShutdown
    <3>4. ASSUME NEW x \in Calls, ShutdownNext(x)
          PROVE  /\ at' \in [Calls -> InShutdown \cup {"idle", "done"}]
                 /\ walk' \in [Calls -> Seq(Workers)]
      <4>1. walk[x] # <<>>
        BY <3>4 DEF ShutdownNext, ShutdownAt, ServerInv, ListInv
      <4>2. Tail(walk[x]) \in Seq(Workers)
        BY <1>t, <4>1, HeadTailProperties
      <4>. QED  BY <1>t, <3>4, <4>2 DEF ShutdownNext, GotoShutdown, InShutdown
    <3>. QED  BY <1>3, <3>1, <3>2, <3>3, <3>4 DEF Moves
  <2>2. next' \in Seq(Workers) /\ loopexit' \in BOOLEAN /\ hit' \in MainPcs \cup {"none"}
    BY <1>t, <1>3 DEF Moves, Boot, Link, LinkNext, StartFails, InitReturns, Kill, ShutdownNext,
       ShutdownMarked, GotoMain, GotoShutdown
  <2>3. pc' \in MainPcs
    BY <1>t, <1>3, MovesLead DEF MainPcs
  <2>. QED  BY <1>t, <1>3, <2>1, <2>2, <2>3, MovesEffect DEF queueVars, connVars
<1>4. ASSUME NEW w \in Workers, Start(w)  PROVE TypeOK'
  BY <1>t, <1>4 DEF Start, StartWorker, GotoWorker, MainPcs, WorkerPcs, connVars
<1>5. CASE Linked
  <2>1. newest \in Workers /\ newest \notin Elements(next) /\ Distinct(next)
    BY <1>5 DEF Linked, MainAt, ServerInv, ListInv, Chain
  <2>2. workers' = <<newest>> \o next
    BY <1>5 DEF Linked, LinkHead
  <2>3. workers' \in Seq(Workers) /\ Distinct(workers')
    BY <1>t, <2>1, <2>2, PushProperties
  <2>4. Len(workers') <= Cardinality(Workers)
    BY <2>3, DistinctBound
  <2>. QED
    BY <1>t, <1>5, <2>3, <2>4 DEF Linked, LinkHead, GotoMain, MainPcs, connVars
<1>6. ASSUME NEW c \in Connections, NEW fd \in Descriptors, Accept(c, fd)  PROVE TypeOK'
  <2>1. [fd |-> fd, blocks |-> AllBlocks]
          \in [fd : Descriptors \cup {NoFd}, blocks : SUBSET AllBlocks]
    OBVIOUS
  <2>2. client' \in [Connections -> [fd : Descriptors \cup {NoFd}, blocks : SUBSET AllBlocks]]
    BY <1>t, <1>6, <2>1 DEF Accept
  <2>3. /\ open' \subseteq Descriptors /\ adding' \in Jobs /\ pc' \in MainPcs
        /\ stage' \in [Connections -> Stages]
    BY <1>t, <1>6 DEF Accept, MainPcs, Stages
  <2>. QED  BY <1>t, <1>6, <2>2, <2>3 DEF Accept, queueVars
<1>7. ASSUME NEW c \in Connections, NEW fd \in Descriptors, NEW n \in DOMAIN Blocks,
             AcceptFails(c, fd, n)
      PROVE  TypeOK'
  <2>1. client' = [client EXCEPT ![c] = NoClient]
    BY <1>7, BlocksFreed DEF AcceptFails
  <2>2. client' \in [Connections -> [fd : Descriptors \cup {NoFd}, blocks : SUBSET AllBlocks]]
    BY <1>t, <2>1 DEF NoClient
  <2>3. stage' \in [Connections -> Stages]
    BY <1>t, <1>7 DEF AcceptFails, Stages
  <2>. QED  BY <1>t, <1>7, <2>2, <2>3 DEF AcceptFails, queueVars, mainVars
<1>8. CASE Add
  BY <1>t, <1>8 DEF Add, AddLock, GotoMain, MainPcs, connVars
<1>9. CASE AddReturns
  <2>1. adding \in Jobs
    BY <1>9 DEF AddReturns, MainAt, ServerInv, HandsInv
  <2>2. waiting_jobs' \in Seq(Jobs)
    BY <1>t, <1>9, <2>1, PushProperties DEF AddReturns, AddSignal
  <2>3. wpc' \in [Workers -> WorkerPcs]
    <3>1. PICK woken \in Signalled : wpc' = Waking(woken)
      BY <1>9 DEF AddReturns, AddSignal
    <3>. QED  BY <1>t, <3>1, WakingProperties
  <2>. QED  BY <1>t, <1>9, <2>2, <2>3 DEF AddReturns, AddSignal, GotoMain, MainPcs, connVars
<1>10. ASSUME NEW x \in Calls, ShutdownMark(x)  PROVE TypeOK'
  <2>1. Head(walk[x]) \in Workers
    BY <1>t, <1>10, HeadTailProperties DEF ShutdownMark
  <2>. QED
    BY <1>t, <1>10, <2>1 DEF ShutdownMark, Mark, GotoShutdown, InShutdown, connVars
<1>16. ASSUME NEW x \in Calls, ShutdownLock(x)  PROVE TypeOK'
  BY <1>t, <1>16 DEF ShutdownLock, ClearLock, GotoShutdown, InShutdown, connVars
<1>11. ASSUME NEW x \in Calls, ShutdownReturns(x)  PROVE TypeOK'
  <2>1. wpc' \in [Workers -> WorkerPcs]
    <3>1. PICK woken \in Broadcast(At("wait")) : wpc' = Waking(woken)
      BY <1>11 DEF ShutdownReturns, Clear
    <3>. QED  BY <1>t, <3>1, WakingProperties
  <2>2. workers' \in Seq(Workers) /\ Len(workers') = 0 /\ waiting_jobs' \in Seq(Jobs)
    BY <1>11 DEF ShutdownReturns, Clear, Unlinked
  <2>. QED
    BY <1>t, <1>n, <1>11, <2>1, <2>2 DEF ShutdownReturns, Clear, GotoShutdown, connVars
<1>12. ASSUME NEW w \in Workers, ServerWaits(w) \/ ServerStops(w) \/ ServerFrees(w) \/ ServerWakes(w)
       PROVE  TypeOK'
  BY <1>t, <1>12 DEF ServerWaits, WorkerWait, ServerStops, WorkerStop, ServerFrees, WorkerFree,
     ServerWakes, SpuriousWakeup, GotoWorker, WorkerPcs, mainVars, connVars
<1>13. ASSUME NEW w \in Workers, Serve(w)  PROVE TypeOK'
  <2>1. Head(waiting_jobs) \in Jobs /\ Tail(waiting_jobs) \in Seq(Jobs)
    BY <1>t, <1>13, HeadTailProperties DEF Serve, WorkerTake
  <2>. QED
    BY <1>t, <1>13, <2>1 DEF Serve, WorkerTake, WithoutFirst, GotoWorker, WorkerPcs, Stages, mainVars
<1>14. ASSUME NEW w \in Workers, CloseClient(w)  PROVE TypeOK'
  <2>1. job[w] \in Connections
    BY <1>14 DEF CloseClient, ServerInv, HandsInv, At
  <2>2. client' = [client EXCEPT ![job[w]] = [fd |-> NoFd, blocks |-> client[job[w]].blocks]]
    BY <1>t, <1>14, <2>1, BlocksFreed DEF CloseClient
  <2>3. client' \in [Connections -> [fd : Descriptors \cup {NoFd}, blocks : SUBSET AllBlocks]]
    BY <1>t, <2>1, <2>2
  <2>4. open' \subseteq Descriptors /\ stage' \in [Connections -> Stages]
    BY <1>t, <1>14 DEF CloseClient, Stages
  <2>. QED  BY <1>t, <1>14, <2>3, <2>4 DEF CloseClient, queueVars, mainVars
<1>15. ASSUME NEW w \in Workers, FreeClient(w)  PROVE TypeOK'
  <2>1. job[w] \in Connections
    BY <1>15 DEF FreeClient, ServerInv, HandsInv, At
  <2>2. client' = [client EXCEPT ![job[w]] = NoClient]
    <3>1. client[job[w]] \in [fd : Descriptors \cup {NoFd}, blocks : SUBSET AllBlocks]
      BY <1>t, <2>1
    <3>2. WithoutJob(FreedClient(client[job[w]])) = NoClient
      BY <3>1, BlocksFreed
    <3>. QED  BY <1>15, <3>2 DEF FreeClient
  <2>3. client' \in [Connections -> [fd : Descriptors \cup {NoFd}, blocks : SUBSET AllBlocks]]
    BY <1>t, <2>2 DEF NoClient
  <2>4. /\ open' \subseteq Descriptors /\ stage' \in [Connections -> Stages]
        /\ job' \in [Workers -> Jobs \cup {NoJob}] /\ wpc' \in [Workers -> WorkerPcs]
    BY <1>t, <1>15 DEF FreeClient, JobReturns, GotoWorker, WorkerPcs, Stages
  <2>. QED  BY <1>t, <1>15, <2>3, <2>4 DEF FreeClient, JobReturns, mainVars
<1>. QED
  BY <1>1, <1>2, <1>3, <1>4, <1>5, <1>6, <1>7, <1>8, <1>9, <1>10, <1>11, <1>12, <1>13,
     <1>14, <1>15, <1>16
     DEF Next, MainStep, ShutdownStep, Environment, ServerStep, Ends, Moves

\* The handler runs once, and the call it interrupts waits for it.
LEMMA CallPreserved == ServerInv /\ [Next]_vars => CallInv'
<1>. SUFFICES ASSUME ServerInv, [Next]_vars  PROVE CallInv'
  OBVIOUS
<1>. USE DEF CallInv, Calls
<1>t. TypeOK /\ CallInv /\ at \in [Calls -> InShutdown \cup {"idle", "done"}] /\ pc \in MainPcs
  BY DEF ServerInv, TypeOK
<1>1. ASSUME UNCHANGED <<pc, at, hit>>  PROVE CallInv'
  BY <1>t, <1>1 DEF Running
<1>2. CASE Ends
  BY <1>t, <1>2, EndsEffect DEF Running
<1>3. ASSUME UNCHANGED <<at, hit>>, at["killServer"] \notin InShutdown, at["runServer"] = "idle",
             pc' # "boot"
      PROVE  CallInv'
  BY <1>t, <1>3
<1>4. ASSUME NEW where \in MainPcs \ {"failed", "exit", "crashed"}, MainAt(where)
      PROVE  at["killServer"] \notin InShutdown /\ at["runServer"] = "idle"
  BY <1>t, <1>4 DEF MainAt
<1>5. CASE Boot
  BY <1>t, <1>5 DEF Boot, GotoMain, Running, MainPcs, InShutdown
<1>6. CASE Link \/ InitReturns \/ Linked \/ Add \/ AddReturns
  <2>1. /\ UNCHANGED <<at, hit>> /\ pc' # "boot"
        /\ MainAt("link") \/ MainAt("start") \/ MainAt("link_in") \/ MainAt("add") \/ MainAt("add_in")
    BY <1>6 DEF Link, InitReturns, Linked, Add, AddReturns, GotoMain
  <2>. QED  BY <1>3, <1>4, <2>1 DEF MainPcs
<1>7. ASSUME NEW w \in Workers, Start(w)  PROVE CallInv'
  <2>1. UNCHANGED <<at, hit>> /\ MainAt("start") /\ pc' # "boot"
    BY <1>7 DEF Start
  <2>. QED  BY <1>3, <1>4, <2>1 DEF MainPcs
<1>8. ASSUME NEW c \in Connections, NEW fd \in Descriptors, Accept(c, fd)  PROVE CallInv'
  <2>1. UNCHANGED <<at, hit>> /\ MainAt("loop") /\ pc' # "boot"
    BY <1>8 DEF Accept
  <2>. QED  BY <1>3, <1>4, <2>1 DEF MainPcs
<1>9. CASE StartFails
  BY <1>t, <1>9 DEF StartFails, MainAt, CallShutdown, Running
<1>10. CASE Kill
  BY <1>t, <1>10 DEF Kill, Killed, CallShutdown, MainPcs, Running, InShutdown
<1>11. ASSUME NEW x \in Calls, ShutdownStep(x), ~ ShutdownAstray(x)  PROVE CallInv'
  <2>1. /\ UNCHANGED <<pc, hit>> /\ Running /\ at[x] \in InShutdown
        /\ \E where \in InShutdown \cup {"done"} : at' = [at EXCEPT ![x] = where]
    BY <1>11 DEF ShutdownStep, ShutdownMark, ShutdownNext, ShutdownMarked, ShutdownLock,
       ShutdownReturns, ShutdownAt, GotoShutdown, InShutdown
  <2>2. "idle" \notin InShutdown
    BY DEF InShutdown
  <2>. QED  BY <1>t, <2>1, <2>2 DEF Running
<1>12. CASE UNCHANGED vars
  BY <1>1, <1>12 DEF vars, mainVars
<1>13. ASSUME NEW w \in Workers, ServerStep(w) \/ ServerWakes(w)  PROVE CallInv'
  <2>1. UNCHANGED mainVars
    BY <1>13 DEF ServerStep, ServerWaits, ServerStops, ServerFrees, ServerWakes, Serve, CloseClient,
       FreeClient
  <2>. QED  BY <1>1, <2>1 DEF mainVars
<1>14. ASSUME NEW c \in Connections, NEW fd \in Descriptors, NEW n \in DOMAIN Blocks,
              AcceptFails(c, fd, n)
       PROVE  CallInv'
  BY <1>1, <1>14 DEF AcceptFails, mainVars
<1>. HIDE DEF CallInv, Calls
<1>. QED
  BY <1>2, <1>5, <1>6, <1>7, <1>8, <1>9, <1>10, <1>11, <1>12, <1>13, <1>14
     DEF Next, MainStep, Environment, Ends

\* A chain stays a chain while no worker becomes unborn.
LEMMA ChainStays ==
  ASSUME NEW q, Elements(q) \subseteq Workers, Chain(q),
         \A w \in Workers : wpc[w] # "unborn" => wpc'[w] # "unborn"
  PROVE  Distinct(q) /\ \A w \in Elements(q) : wpc'[w] # "unborn"
BY DEF Chain

\* A step that leaves the lists, the calls and all marks alone and makes none but marked
\* workers stop keeps the invariant of the list, whatever the main thread does outside
\* workqueue_init.
LEMMA ListUnchanged ==
  ASSUME ServerInv,
         UNCHANGED <<workers, terminate, newest, next, at, walk, hit>>,
         \/ pc' = pc
         \/ pc' \notin {"link", "link_in", "failed"} /\ pc \notin {"failed", "exit", "crashed"},
         \A w \in Workers : wpc'[w] = "unborn" <=> wpc[w] = "unborn",
         \A w \in freed' \cup At("free")' \cup At("exit")' : terminate[w]
  PROVE  ListInv'
<1>t. /\ ListInv /\ Elements(workers) \subseteq Workers /\ Elements(next) \subseteq Workers
      /\ \A x \in Calls : Elements(walk[x]) \subseteq Workers
  BY DEF ServerInv, TypeOK, Elements
<1>1. Chain(workers)' /\ (pc = "link_in" => Chain(next)')
  BY <1>t, ChainStays DEF ListInv, Chain
<1>2. \A x \in Calls : at[x] \in {"mark", "next"} => Chain(walk[x])'
  BY <1>t, ChainStays DEF ListInv, Chain
<1>3. pc' \in {"link", "link_in"} =>
        /\ newest' \in Workers /\ wpc'[newest'] # "unborn" /\ ~ terminate'[newest']
        /\ newest' \notin Elements(workers')
        /\ at'["killServer"] \in {"mark", "next"} => newest' \notin Elements(walk'["killServer"])
  BY <1>t DEF ListInv
<1>4. pc' = "link_in" =>
        /\ Chain(next)' /\ newest' \notin Elements(next')
        /\ hit' # "link_in" => next' = workers'
  BY <1>t, <1>1 DEF ListInv
<1>5. \A w \in Workers : wpc'[w] = "unborn" => ~ terminate'[w]
  BY <1>t DEF ListInv
<1>6. /\ hit' # "link_in" /\ at'["killServer"] \notin InShutdown /\ Running' /\ pc' # "failed"
           => Unmarked(workers)'
      /\ Running' => Running
      /\ Running' /\ ~ Exposed' => ~ Exposed
  BY <1>t DEF ListInv, Running, Exposed, Unmarked
<1>7. \A x \in Calls :
        /\ at'[x] \in {"mark", "next"} => Chain(walk[x])'
        /\ at'[x] = "next" => walk'[x] # <<>>
        /\ Running' /\ ~ Exposed' =>
             /\ at'[x] = "mark" => Unmarked(walk[x])'
             /\ at'[x] = "next" => Unmarked(Tail(walk[x]))'
  BY <1>t, <1>2, <1>6 DEF ListInv, Unmarked
<1>. QED  BY <1>1, <1>3, <1>4, <1>5, <1>6, <1>7 DEF ListInv

\* What the calls of workqueue_shutdown keep of the invariant of the list, a call
\* that makes a mark, goes to its next structure or ends apart.
LEMMA ListCalls ==
  ASSUME ServerInv, UNCHANGED <<workers, terminate, freed, wpc, newest, next, walk, hit, pc>>,
         NEW x \in Calls, NEW where \in {"clear", "clear_in"},
         at[x] \in InShutdown, at' = [at EXCEPT ![x] = where]
  PROVE  ListInv'
<1>1. ListInv /\ at \in [Calls -> InShutdown \cup {"idle", "done"}] /\ "killServer" \in Calls
  BY DEF ServerInv, TypeOK, Calls
<1>2. \A y \in Calls : at'[y] = at[y] \/ (at[y] \in InShutdown /\ at'[y] = where)
  BY <1>1
<1>3. where \in InShutdown /\ where \notin {"mark", "next"}
  BY DEF InShutdown
<1>. QED  BY <1>1, <1>2, <1>3 DEF ListInv, Chain, Unmarked, Running, Exposed, At

\* The lists stay free of repetitions, marks are only made by the walk, and only
\* marked workers stop.
LEMMA ListPreserved == ServerInv /\ [Next]_vars => ListInv'
<1>. SUFFICES ASSUME ServerInv, [Next]_vars  PROVE ListInv'
  OBVIOUS
<1>t. TypeOK /\ TypeOK' /\ CallInv /\ CallInv' /\ ListInv
  BY ServerTypePreserved, CallPreserved DEF ServerInv
<1>w. /\ workers \in Seq(Workers) /\ next \in Seq(Workers) /\ wpc \in [Workers -> WorkerPcs]
      /\ terminate \in [Workers -> BOOLEAN] /\ freed \subseteq Workers
      /\ walk \in [Calls -> Seq(Workers)] /\ at \in [Calls -> InShutdown \cup {"idle", "done"}]
      /\ Elements(workers) \subseteq Workers /\ Elements(next) \subseteq Workers
      /\ \A x \in Calls : Elements(walk[x]) \subseteq Workers
      /\ pc \in MainPcs /\ "runServer" \in Calls /\ "killServer" \in Calls
      /\ \A w \in freed \cup At("free") \cup At("exit") : terminate[w]
  BY <1>t DEF TypeOK, Elements, Calls, ListInv
<1>1. CASE UNCHANGED vars
  BY <1>w, <1>1, ListUnchanged DEF vars, queueVars, mainVars, At
<1>2. CASE Ends
  BY <1>t, <1>w, <1>2, EndsEffect DEF ListInv, Chain, Unmarked, Running, At
<1>3. CASE Boot \/ InitReturns
  BY <1>w, <1>3, ListUnchanged DEF Boot, InitReturns, GotoMain, MainAt, queueVars, At
<1>4. CASE Link
  <2>1. /\ pc = "link" /\ pc' = "link_in" /\ next' = workers
        /\ UNCHANGED <<workers, terminate, freed, wpc, newest, at, walk, hit>>
    BY <1>4 DEF Link, LinkNext, MainAt, queueVars
  <2>. QED  BY <1>t, <2>1 DEF ListInv, Chain, Unmarked, Running, Exposed, At
<1>5. CASE StartFails
  <2>1. /\ pc = "start" /\ pc' = "failed" /\ at["killServer"] \notin InShutdown
        /\ at' = [at EXCEPT !["runServer"] = "mark"]
        /\ walk' = [walk EXCEPT !["runServer"] = workers]
        /\ UNCHANGED <<workers, terminate, freed, wpc, newest, next, hit>>
    BY <1>5 DEF StartFails, MainAt, CallShutdown, queueVars
  <2>2. hit # "link_in" => Unmarked(workers)
    BY <1>t, <2>1 DEF ListInv, Running
  <2>3. at'["runServer"] = "mark" /\ walk'["runServer"] = workers
    BY <1>w, <2>1
  <2>4. at'["killServer"] = at["killServer"] /\ walk'["killServer"] = walk["killServer"]
    BY <1>w, <2>1 DEF Calls
  <2>5. \A x \in Calls : x = "runServer" \/ x = "killServer"
    BY DEF Calls
  <2>6. at'["killServer"] \notin {"mark", "next"}
    BY <2>1, <2>4 DEF InShutdown
  <2>. QED
    BY <1>t, <2>1, <2>2, <2>3, <2>5, <2>6 DEF ListInv, Chain, Unmarked, Running, Exposed, At
<1>6. CASE Kill
  <2>1. /\ hit = "none" /\ hit' = pc /\ pc' = pc /\ Running
        /\ at' = [at EXCEPT !["killServer"] = "mark"]
        /\ walk' = [walk EXCEPT !["killServer"] = workers]
        /\ UNCHANGED <<workers, terminate, freed, wpc, newest, next>>
    BY <1>6 DEF Kill, Killed, CallShutdown, Running, queueVars
  <2>2. at["killServer"] \notin InShutdown
    BY <1>t, <2>1 DEF CallInv, InShutdown
  <2>3. pc # "failed" => Unmarked(workers) /\ at["runServer"] = "idle"
    BY <1>t, <2>1, <2>2 DEF ListInv, CallInv, Running
  <2>4. at'["killServer"] = "mark" /\ walk'["killServer"] = workers
    BY <1>w, <2>1
  <2>5. at'["runServer"] = at["runServer"] /\ walk'["runServer"] = walk["runServer"]
    BY <1>w, <2>1 DEF Calls
  <2>6. \A x \in Calls : x = "runServer" \/ x = "killServer"
    BY DEF Calls
  <2>7. "mark" \in InShutdown
    BY DEF InShutdown
  <2>. QED
    BY <1>t, <2>1, <2>2, <2>3, <2>4, <2>5, <2>6, <2>7
       DEF ListInv, Chain, Unmarked, Running, Exposed, At
<1>7. ASSUME NEW w \in Workers, Start(w)  PROVE ListInv'
  <2>1. /\ pc = "start" /\ pc' = "link" /\ wpc[w] = "unborn" /\ newest' = w
        /\ wpc' = [wpc EXCEPT ![w] = "lock"] /\ at["killServer"] \notin InShutdown
        /\ UNCHANGED <<workers, terminate, freed, next, at, walk, hit>>
    BY <1>7 DEF Start, StartWorker, GotoWorker, MainAt
  <2>2. /\ w \notin Elements(workers) /\ ~ terminate[w]
        /\ \A v \in Workers : wpc'[v] = IF v = w THEN "lock" ELSE wpc[v]
    BY <1>t, <1>w, <2>1 DEF ListInv, Chain
  <2>3. at["killServer"] \notin {"mark", "next"}
    BY <2>1 DEF InShutdown
  <2>4. \A x \in Calls : at[x] \in {"mark", "next"} => Chain(walk[x])'
    BY <1>t, <1>w, <2>1, <2>2 DEF ListInv, Chain
  <2>. QED
    BY <1>t, <1>w, <2>1, <2>2, <2>3, <2>4 DEF ListInv, Chain, Unmarked, Running, Exposed, At
<1>8. CASE Linked
  <2>1. /\ workers' = <<newest>> \o next /\ pc = "link_in" /\ pc' = "start"
        /\ at["killServer"] \notin InShutdown
        /\ UNCHANGED <<terminate, freed, wpc, newest, next, at, walk, hit>>
    BY <1>8 DEF Linked, LinkHead, GotoMain, MainAt
  <2>2. newest \in Workers /\ wpc[newest] # "unborn" /\ ~ terminate[newest]
    BY <1>t, <2>1 DEF ListInv
  <2>3. Chain(next) /\ newest \notin Elements(next)
    BY <1>t, <2>1 DEF ListInv
  <2>4. Distinct(workers') /\ Elements(workers') = {newest} \cup Elements(next)
    BY <1>w, <2>1, <2>2, <2>3, PushProperties DEF Chain
  <2>5. hit # "link_in" => Unmarked(workers) /\ next = workers
    BY <1>t, <2>1 DEF ListInv, Running
  <2>6. Chain(workers)' /\ (hit # "link_in" => Unmarked(workers)')
    BY <2>1, <2>2, <2>3, <2>4, <2>5 DEF Chain, Unmarked
  <2>. QED
    BY <1>t, <2>1, <2>6 DEF ListInv, Chain, Unmarked, Running, Exposed, At
<1>9. ASSUME \/ \E c \in Connections, fd \in Descriptors : Accept(c, fd)
             \/ \E c \in Connections, fd \in Descriptors, n \in DOMAIN Blocks : AcceptFails(c, fd, n)
             \/ Add
             \/ \E w \in Workers : CloseClient(w)
      PROVE  ListInv'
  <2>1. /\ UNCHANGED <<workers, terminate, freed, wpc, newest, next, at, walk, hit>>
        /\ pc' = pc \/ (pc \in {"loop", "add"} /\ pc' \in {"add", "add_in"})
    BY <1>9 DEF Accept, AcceptFails, Add, AddLock, CloseClient, GotoMain, MainAt, queueVars, mainVars
  <2>. QED  BY <1>w, <2>1, ListUnchanged DEF At
<1>10. CASE AddReturns
  <2>1. PICK woken \in Signalled : wpc' = Waking(woken)
    BY <1>10 DEF AddReturns, AddSignal
  <2>2. \A w \in Workers : wpc'[w] = wpc[w] \/ (wpc[w] = "wait" /\ wpc'[w] = "lock")
    BY <1>w, <2>1, WakingProperties
  <2>3. /\ UNCHANGED <<workers, terminate, freed, newest, next, at, walk, hit>>
        /\ pc = "add_in" /\ pc' = "loop"
    BY <1>10 DEF AddReturns, AddSignal, GotoMain, MainAt
  <2>4. \A w \in freed' \cup At("free")' \cup At("exit")' : terminate[w]
    BY <1>w, <2>2, <2>3 DEF At
  <2>. QED  BY <2>2, <2>3, <2>4, ListUnchanged
<1>11. ASSUME NEW x \in Calls, ShutdownLock(x) \/ ShutdownMarked(x)  PROVE ListInv'
  <2>1. /\ UNCHANGED <<workers, terminate, freed, wpc, newest, next, walk, hit, pc>>
        /\ at[x] \in InShutdown
        /\ \E where \in {"clear", "clear_in"} : at' = [at EXCEPT ![x] = where]
    BY <1>11 DEF ShutdownLock, ShutdownMarked, ShutdownAt, ClearLock, GotoShutdown, InShutdown,
       queueVars
  <2>. QED  BY <2>1, ListCalls
<1>13. ASSUME NEW x \in Calls, ShutdownNext(x)  PROVE ListInv'
  <2>1. /\ UNCHANGED <<workers, terminate, freed, wpc, newest, next, hit, pc>>
        /\ at[x] = "next" /\ at' = [at EXCEPT ![x] = "mark"]
        /\ walk' = [walk EXCEPT ![x] = Tail(walk[x])]
    BY <1>13 DEF ShutdownNext, ShutdownAt, GotoShutdown, queueVars
  <2>2. walk[x] # <<>> /\ Chain(walk[x])
    BY <1>t, <2>1 DEF ListInv
  <2>3. /\ Elements(Tail(walk[x])) \subseteq Elements(walk[x]) /\ Distinct(Tail(walk[x]))
    BY <1>w, <2>2, PopProperties DEF Chain
  <2>4. /\ at'[x] = "mark" /\ walk'[x] = Tail(walk[x])
        /\ \A y \in Calls \ {x} : at'[y] = at[y] /\ walk'[y] = walk[y]
    BY <1>w, <2>1
  <2>5. Chain(walk[x])' /\ Elements(walk'[x]) \subseteq Elements(walk[x])
    BY <2>1, <2>2, <2>3, <2>4 DEF Chain
  <2>6. \A y \in Calls : at'[y] \in InShutdown <=> at[y] \in InShutdown
    BY <2>1, <2>4 DEF InShutdown
  <2>7. \A y \in Calls :
          /\ at'[y] \in {"mark", "next"} => Chain(walk[y])'
          /\ at'[y] = "next" => walk'[y] # <<>>
          /\ Running' /\ ~ Exposed' =>
               /\ at'[y] = "mark" => Unmarked(walk[y])'
               /\ at'[y] = "next" => Unmarked(Tail(walk[y]))'
    <3>1. ASSUME NEW y \in Calls \ {x}, at[y] \in {"mark", "next"}  PROVE Chain(walk[y])'
      BY <1>t, <2>1, <2>4, <3>1 DEF ListInv, Chain
    <3>2. Running' = Running /\ Exposed' = Exposed
      BY <2>1 DEF Running, Exposed
    <3>3. Running /\ ~ Exposed => Unmarked(walk[x])'
      BY <1>t, <2>1, <2>4 DEF ListInv, Unmarked
    <3>4. ASSUME NEW y \in Calls \ {x}, Running, ~ Exposed
          PROVE  /\ at'[y] = "mark" => Unmarked(walk[y])'
                 /\ at'[y] = "next" => Unmarked(Tail(walk[y]))'
      BY <1>t, <2>1, <2>4, <3>4 DEF ListInv, Unmarked
    <3>. QED  BY <1>t, <2>4, <2>5, <3>1, <3>2, <3>3, <3>4 DEF ListInv
  <2>8. at["killServer"] \in {"mark", "next"} <=> at'["killServer"] \in {"mark", "next"}
    BY <1>w, <2>1, <2>4
  <2>9. Elements(walk'["killServer"]) \subseteq Elements(walk["killServer"])
    BY <1>w, <2>4, <2>5
  <2>. QED
    BY <1>t, <1>w, <2>1, <2>6, <2>7, <2>8, <2>9 DEF ListInv, Chain, Unmarked, Running, At
<1>14. ASSUME NEW x \in Calls, ShutdownMark(x)  PROVE ListInv'
  <2>1. PICK m : m = Head(walk[x])
    OBVIOUS
  <2>2. /\ UNCHANGED <<workers, freed, wpc, newest, next, walk, hit, pc>> /\ Running
        /\ x = "killServer" \/ at["killServer"] \notin InShutdown
        /\ at[x] = "mark" /\ at' = [at EXCEPT ![x] = "next"] /\ walk[x] # <<>>
        /\ terminate' = [terminate EXCEPT ![m] = TRUE]
    BY <1>14, <2>1 DEF ShutdownMark, Mark, ShutdownAt, GotoShutdown
  <2>3. /\ m \in Elements(walk[x]) /\ m \in Workers /\ m \notin Elements(Tail(walk[x]))
        /\ Elements(Tail(walk[x])) \subseteq Elements(walk[x]) /\ wpc[m] # "unborn"
    <3>1. Chain(walk[x])
      BY <1>t, <2>2 DEF ListInv
    <3>. QED  BY <1>w, <2>1, <2>2, <3>1, PopProperties DEF Chain
  <2>4. \A w \in Workers : terminate'[w] <=> (terminate[w] \/ w = m)
    BY <1>w, <2>2
  <2>5. /\ at'[x] = "next" /\ \A y \in Calls \ {x} : at'[y] = at[y]
        /\ \A y \in Calls : at'[y] \in InShutdown <=> at[y] \in InShutdown
    BY <1>w, <2>2 DEF InShutdown
  <2>6. pc \in {"link", "link_in"} => newest # m
    <3>1. ASSUME pc \in {"link", "link_in"}  PROVE x = "killServer"
      BY <1>t, <2>2, <3>1 DEF CallInv, Calls
    <3>. QED  BY <1>t, <2>2, <2>3, <3>1 DEF ListInv
  <2>7. ~ Exposed => \A y \in Calls \ {x} : at[y] \notin {"mark", "next"}
    <3>1. CASE x = "killServer"
      <4>1. hit = pc
        BY <1>t, <2>2, <3>1 DEF CallInv, InShutdown
      <4>2. ~ Exposed => pc # "failed"
        BY <4>1 DEF Exposed
      <4>. QED  BY <1>t, <2>2, <3>1, <4>2 DEF CallInv, Calls, Running
    <3>2. CASE x = "runServer"
      BY <2>2, <3>2 DEF Calls, InShutdown
    <3>. QED  BY <3>1, <3>2 DEF Calls
  <2>8. Running /\ ~ Exposed => Unmarked(Tail(walk[x]))'
    <3>1. Running /\ ~ Exposed => Unmarked(walk[x])
      BY <1>t, <2>2 DEF ListInv
    <3>. QED  BY <1>w, <2>2, <2>3, <2>4, <3>1 DEF Unmarked
  <2>9. \A y \in Calls :
          /\ at'[y] \in {"mark", "next"} => Chain(walk[y])'
          /\ at'[y] = "next" => walk'[y] # <<>>
          /\ Running' /\ ~ Exposed' =>
               /\ at'[y] = "mark" => Unmarked(walk[y])'
               /\ at'[y] = "next" => Unmarked(Tail(walk[y]))'
    <3>1. \A y \in Calls : at[y] \in {"mark", "next"} => Chain(walk[y])'
      BY <1>t, <2>2 DEF ListInv, Chain
    <3>2. Running' = Running /\ Exposed' = Exposed
      BY <2>2 DEF Running, Exposed
    <3>. QED  BY <1>t, <2>2, <2>5, <2>7, <2>8, <3>1, <3>2 DEF ListInv
  <2>10. hit' # "link_in" /\ at'["killServer"] \notin InShutdown /\ Running' /\ pc' # "failed"
           => Unmarked(workers)'
    <3>1. at["killServer"] \notin InShutdown => x = "runServer" /\ pc = "failed"
      BY <1>t, <2>2 DEF CallInv, Calls, InShutdown, Running
    <3>. QED  BY <1>w, <2>2, <2>5, <3>1
  <2>11. at'["killServer"] \in {"mark", "next"} => at["killServer"] \in {"mark", "next"}
    BY <1>w, <2>2, <2>5
  <2>12. \A w \in freed' \cup At("free")' \cup At("exit")' : terminate'[w]
    BY <1>t, <1>w, <2>2, <2>4 DEF ListInv, At
  <2>13. \A w \in Workers : wpc'[w] = "unborn" => ~ terminate'[w]
    BY <1>t, <2>2, <2>3, <2>4 DEF ListInv
  <2>14. Chain(workers)' /\ (pc = "link_in" => Chain(next)')
    BY <1>t, <2>2 DEF ListInv, Chain
  <2>15. pc' \in {"link", "link_in"} =>
           /\ newest' \in Workers /\ wpc'[newest'] # "unborn" /\ ~ terminate'[newest']
           /\ newest' \notin Elements(workers')
           /\ at'["killServer"] \in {"mark", "next"} => newest' \notin Elements(walk'["killServer"])
    BY <1>t, <2>2, <2>4, <2>6, <2>11 DEF ListInv
  <2>16. pc' = "link_in" =>
           /\ Chain(next)' /\ newest' \notin Elements(next')
           /\ hit' # "link_in" => next' = workers'
    BY <1>t, <2>2, <2>14 DEF ListInv
  <2>. QED  BY <2>9, <2>10, <2>12, <2>13, <2>14, <2>15, <2>16 DEF ListInv
<1>15. ASSUME NEW x \in Calls, ShutdownReturns(x)  PROVE ListInv'
  <2>1. PICK woken \in Broadcast(At("wait")) : wpc' = Waking(woken)
    BY <1>15 DEF ShutdownReturns, Clear
  <2>2. \A w \in Workers : wpc'[w] = wpc[w] \/ (wpc[w] = "wait" /\ wpc'[w] = "lock")
    BY <1>w, <2>1, WakingProperties
  <2>3. Elements(workers') = {} /\ Distinct(workers')
    BY <1>15 DEF ShutdownReturns, Clear, Unlinked, Elements, Distinct
  <2>4. /\ UNCHANGED <<terminate, freed, newest, next, walk, hit, pc>> /\ Running
        /\ x = "killServer" \/ at["killServer"] \notin InShutdown
        /\ at[x] = "clear_in" /\ at' = [at EXCEPT ![x] = "done"]
    BY <1>15 DEF ShutdownReturns, Clear, ShutdownAt, GotoShutdown
  <2>5. /\ at'[x] = "done" /\ \A y \in Calls \ {x} : at'[y] = at[y]
    BY <1>w, <2>4
  <2>6. pc = "link_in" => hit = "link_in"
    <3>1. pc = "link_in" => x = "killServer"
      BY <1>t, <2>4 DEF CallInv, Calls
    <3>. QED  BY <1>t, <2>4, <3>1 DEF CallInv, InShutdown
  <2>7. Chain(workers)' /\ Unmarked(workers)'
    BY <2>3 DEF Chain, Unmarked
  <2>8. pc = "link_in" => Chain(next)'
    BY <1>t, <1>w, <2>2, <2>4 DEF ListInv, Chain
  <2>9. \A y \in Calls :
          /\ at'[y] \in {"mark", "next"} => Chain(walk[y])'
          /\ at'[y] = "next" => walk'[y] # <<>>
          /\ Running' /\ ~ Exposed' =>
               /\ at'[y] = "mark" => Unmarked(walk[y])'
               /\ at'[y] = "next" => Unmarked(Tail(walk[y]))'
    <3>1. \A y \in Calls : at[y] \in {"mark", "next"} => Chain(walk[y])'
      BY <1>t, <1>w, <2>2, <2>4 DEF ListInv, Chain
    <3>2. Running' = Running /\ Exposed' = Exposed
      BY <2>4 DEF Running, Exposed
    <3>. QED  BY <1>t, <2>4, <2>5, <3>1, <3>2 DEF ListInv, Unmarked
  <2>10. at'["killServer"] \in {"mark", "next"} => at["killServer"] \in {"mark", "next"}
    BY <1>w, <2>5
  <2>11. \A w \in freed' \cup At("free")' \cup At("exit")' : terminate'[w]
    BY <1>t, <1>w, <2>2, <2>4 DEF ListInv, At
  <2>12. \A w \in Workers : wpc'[w] = "unborn" => ~ terminate'[w]
    BY <1>t, <2>2, <2>4 DEF ListInv
  <2>13. pc' \in {"link", "link_in"} =>
           /\ newest' \in Workers /\ wpc'[newest'] # "unborn" /\ ~ terminate'[newest']
           /\ newest' \notin Elements(workers')
           /\ at'["killServer"] \in {"mark", "next"} => newest' \notin Elements(walk'["killServer"])
    BY <1>t, <2>2, <2>3, <2>4, <2>10 DEF ListInv
  <2>14. pc' = "link_in" =>
           /\ Chain(next)' /\ newest' \notin Elements(next')
           /\ hit' # "link_in" => next' = workers'
    BY <1>t, <2>4, <2>6, <2>8 DEF ListInv
  <2>. QED  BY <2>7, <2>9, <2>11, <2>12, <2>13, <2>14 DEF ListInv
<1>16. ASSUME NEW w \in Workers, ServerWaits(w) \/ ServerWakes(w) \/ Serve(w) \/ FreeClient(w)
       PROVE  ListInv'
  <2>1. /\ UNCHANGED <<workers, terminate, freed, newest, next, at, walk, hit, pc>>
        /\ wpc[w] # "unborn" /\ \E where \in {"wait", "lock", "run"} : wpc' = [wpc EXCEPT ![w] = where]
    BY <1>16 DEF ServerWaits, WorkerWait, ServerWakes, SpuriousWakeup, Serve, WorkerTake,
       FreeClient, JobReturns, GotoWorker, mainVars
  <2>2. \A v \in Workers : wpc'[v] = wpc[v] \/ (wpc[v] # "unborn" /\ wpc'[v] \in {"wait", "lock", "run"})
    BY <1>w, <2>1
  <2>3. \A v \in freed' \cup At("free")' \cup At("exit")' : terminate[v]
    BY <1>w, <2>1, <2>2 DEF At
  <2>. QED  BY <2>1, <2>2, <2>3, ListUnchanged
<1>17. ASSUME NEW w \in Workers, ServerStops(w) \/ ServerFrees(w)  PROVE ListInv'
  <2>1. /\ UNCHANGED <<workers, terminate, newest, next, at, walk, hit, pc>>
        /\ freed' \in {freed, freed \cup {w}} /\ terminate[w] /\ wpc[w] # "unborn"
        /\ \E where \in {"free", "exit"} : wpc' = [wpc EXCEPT ![w] = where]
    BY <1>w, <1>17 DEF ServerStops, WorkerStop, ServerFrees, WorkerFree, GotoWorker, mainVars, At
  <2>2. \A v \in Workers : wpc'[v] = wpc[v] \/ (v = w /\ wpc'[v] \in {"free", "exit"})
    BY <1>w, <2>1
  <2>3. \A v \in freed' \cup At("free")' \cup At("exit")' : terminate[v]
    BY <1>w, <2>1, <2>2 DEF At
  <2>. QED  BY <2>1, <2>2, <2>3, ListUnchanged
<1>. QED
  BY <1>1, <1>2, <1>3, <1>4, <1>5, <1>6, <1>7, <1>8, <1>9, <1>10, <1>11, <1>13, <1>14,
     <1>15, <1>16, <1>17
     DEF Next, MainStep, ShutdownStep, Environment, ServerStep, Ends

\* The mutex a stopping worker takes is never unlocked.
LEMMA MutexPreserved == ServerInv /\ [Next]_vars => MutexInv'
<1>. SUFFICES ASSUME ServerInv, [Next]_vars  PROVE MutexInv'
  OBVIOUS
<1>. USE WorkersAssumption DEF MutexInv, At
<1>t. TypeOK /\ CallInv /\ MutexInv
  BY DEF ServerInv
<1>w. /\ wpc \in [Workers -> WorkerPcs] /\ freed \subseteq Workers
      /\ at \in [Calls -> InShutdown \cup {"idle", "done"}]
      /\ "runServer" \in Calls /\ "killServer" \in Calls
  BY <1>t DEF TypeOK, Calls
<1>1. CASE UNCHANGED vars
  BY <1>t, <1>1 DEF vars, queueVars, mainVars
<1>2. CASE Ends
  BY <1>t, <1>2, EndsEffect
<1>3. CASE Moves
  <2>1. \A y \in Calls : at'[y] = at[y] \/ at'[y] # "clear_in"
    BY <1>w, <1>3, MovesLead
  <2>2. pc' = "add_in" => pc = "add_in"
    BY <1>3, MovesLead
  <2>. QED  BY <1>t, <1>w, <1>3, <2>1, <2>2, MovesEffect DEF queueVars
<1>4. ASSUME NEW w \in Workers, Start(w)  PROVE MutexInv'
  BY <1>t, <1>w, <1>4 DEF Start, StartWorker, GotoWorker
<1>5. ASSUME \/ Linked
             \/ \E c \in Connections, fd \in Descriptors : Accept(c, fd)
             \/ \E c \in Connections, fd \in Descriptors, n \in DOMAIN Blocks : AcceptFails(c, fd, n)
             \/ \E w \in Workers : CloseClient(w)
      PROVE  MutexInv'
  <2>1. /\ UNCHANGED <<freed, wpc, jobs_mutex, at>>
        /\ pc' = pc \/ pc' \in {"start", "add"}
    BY <1>5 DEF Linked, LinkHead, Accept, AcceptFails, CloseClient, GotoMain, queueVars, mainVars
  <2>. QED  BY <1>t, <2>1
<1>6. CASE Add
  <2>1. at["killServer"] # "clear_in"
    BY <1>6 DEF Add, MainAt, InShutdown
  <2>. QED  BY <1>t, <1>w, <1>6, <2>1 DEF Add, AddLock, GotoMain
<1>7. CASE AddReturns
  <2>1. PICK woken \in Signalled : wpc' = Waking(woken)
    BY <1>7 DEF AddReturns, AddSignal
  <2>2. \A w \in Workers : wpc'[w] = wpc[w] \/ (wpc[w] = "wait" /\ wpc'[w] = "lock")
    BY <1>w, <2>1, WakingProperties
  <2>3. /\ jobs_mutex = Owner /\ UNCHANGED <<freed, at>> /\ pc = "add_in" /\ pc' = "loop"
        /\ at["killServer"] # "clear_in"
    BY <1>t, <1>7 DEF AddReturns, AddSignal, GotoMain, MainAt
  <2>4. \A x \in Calls : at[x] # "clear_in"
    BY <1>t, <2>3 DEF CallInv, Calls
  <2>. QED  BY <1>t, <1>w, <2>2, <2>3, <2>4
<1>8. ASSUME NEW x \in Calls, ShutdownMark(x)  PROVE MutexInv'
  <2>1. /\ UNCHANGED <<freed, wpc, jobs_mutex, pc>> /\ at' = [at EXCEPT ![x] = "next"]
    BY <1>8 DEF ShutdownMark, Mark, GotoShutdown
  <2>2. \A y \in Calls : at'[y] = at[y] \/ at'[y] # "clear_in"
    BY <1>w, <2>1
  <2>. QED  BY <1>t, <1>w, <2>1, <2>2
<1>9. ASSUME NEW x \in Calls, ShutdownLock(x)  PROVE MutexInv'
  <2>1. /\ jobs_mutex = Nobody /\ jobs_mutex' = Owner /\ UNCHANGED <<freed, wpc, pc>>
        /\ at[x] = "clear" /\ at' = [at EXCEPT ![x] = "clear_in"]
    BY <1>9 DEF ShutdownLock, ShutdownAt, ClearLock, GotoShutdown
  <2>2. /\ freed \cup At("free") \cup At("exit") = {}
        /\ \A y \in Calls : at[y] # "clear_in" /\ pc # "add_in"
    BY <1>t, <1>w, <2>1
  <2>3. at'[x] = "clear_in" /\ \A y \in Calls \ {x} : at'[y] # "clear_in"
    BY <1>w, <2>1, <2>2
  <2>4. \E y \in Calls : y # x
    BY DEF Calls
  <2>. QED  BY <1>w, <2>1, <2>2, <2>3, <2>4
<1>10. ASSUME NEW x \in Calls, ShutdownReturns(x)  PROVE MutexInv'
  <2>1. PICK woken \in Broadcast(At("wait")) : wpc' = Waking(woken)
    BY <1>10 DEF ShutdownReturns, Clear
  <2>2. \A w \in Workers : wpc'[w] = wpc[w] \/ (wpc[w] = "wait" /\ wpc'[w] = "lock")
    BY <1>w, <2>1, WakingProperties
  <2>3. /\ at[x] = "clear_in" /\ UNCHANGED <<freed, pc>> /\ jobs_mutex = Owner
        /\ at' = [at EXCEPT ![x] = "done"]
    BY <1>t, <1>10 DEF ShutdownReturns, Clear, ShutdownAt, GotoShutdown
  <2>4. freed' \cup At("free")' \cup At("exit")' = {}
    BY <1>t, <1>w, <2>2, <2>3
  <2>5. \A y \in Calls : at'[y] # "clear_in"
    BY <1>t, <1>w, <2>3 DEF Calls
  <2>6. pc # "add_in"
    <3>1. CASE x = "killServer"
      BY <1>t, <2>3, <3>1
    <3>2. CASE x = "runServer"
      BY <1>t, <2>3, <3>2 DEF CallInv
    <3>. QED  BY <3>1, <3>2 DEF Calls
  <2>. QED  BY <1>w, <2>3, <2>4, <2>5, <2>6
<1>11. ASSUME NEW w \in Workers, ServerWaits(w) \/ ServerWakes(w) \/ Serve(w) \/ FreeClient(w)
      PROVE  MutexInv'
  <2>1. /\ UNCHANGED <<freed, jobs_mutex, at, pc>>
        /\ \E where \in {"wait", "lock", "run"} : wpc' = [wpc EXCEPT ![w] = where]
    BY <1>11 DEF ServerWaits, WorkerWait, ServerWakes, SpuriousWakeup, Serve, WorkerTake,
       FreeClient, JobReturns, GotoWorker, mainVars
  <2>2. \A v \in Workers : wpc'[v] = wpc[v] \/ wpc'[v] \in {"wait", "lock", "run"}
    BY <1>w, <2>1
  <2>. QED  BY <1>t, <1>w, <2>1, <2>2
<1>12. ASSUME NEW w \in Workers, ServerStops(w) \/ ServerFrees(w)  PROVE MutexInv'
  BY <1>t, <1>w, <1>12 DEF ServerStops, WorkerStop, ServerFrees, WorkerFree, GotoWorker, mainVars
<1>. HIDE DEF MutexInv, At
<1>. QED
  BY <1>1, <1>2, <1>3, <1>4, <1>5, <1>6, <1>7, <1>8, <1>9, <1>10, <1>11, <1>12
     DEF Next, MainStep, ShutdownStep, Environment, ServerStep, Ends, Moves

\* A connection goes from one hand to the next and is never in two.
LEMMA HandsPreserved == ServerInv /\ [Next]_vars => HandsInv'
<1>. SUFFICES ASSUME ServerInv, [Next]_vars  PROVE HandsInv'
  OBVIOUS
<1>. USE ConnectionsAssumption DEF HandsInv, At
<1>t. TypeOK /\ HandsInv
  BY DEF ServerInv
<1>w. /\ wpc \in [Workers -> WorkerPcs] /\ job \in [Workers -> Jobs \cup {NoJob}]
      /\ waiting_jobs \in Seq(Jobs) /\ Queue \subseteq Jobs
      /\ stage \in [Connections -> Stages]
      /\ client \in [Connections -> [fd : Descriptors \cup {NoFd}, blocks : SUBSET AllBlocks]]
  BY <1>t DEF TypeOK, Queue, Elements
<1>1. CASE UNCHANGED vars
  BY <1>t, <1>1 DEF vars, queueVars, mainVars, connVars, Queue
<1>2. CASE Ends
  BY <1>t, <1>2, EndsEffect DEF connVars, Queue
<1>3. CASE Moves
  <2>1. pc' \in {"add", "add_in"} => pc \in {"add", "add_in"}
    BY <1>3, MovesLead
  <2>. QED  BY <1>t, <1>3, <2>1, MovesEffect DEF queueVars, connVars, Queue
<1>4. ASSUME \/ Linked \/ Add \/ \E x \in Calls : ShutdownMark(x) \/ ShutdownLock(x)
      PROVE  HandsInv'
  <2>1. /\ UNCHANGED <<waiting_jobs, wpc, job, adding, client, stage>>
        /\ \/ pc' = pc
           \/ pc = "link_in" /\ pc' = "start"
           \/ pc = "add" /\ pc' = "add_in"
    BY <1>4 DEF Linked, LinkHead, ShutdownMark, Mark, ShutdownLock, ClearLock, GotoShutdown, Add,
       AddLock, GotoMain, MainAt, connVars
  <2>. QED  BY <1>t, <2>1 DEF Queue
<1>5. ASSUME NEW w \in Workers,
             Start(w) \/ ServerWaits(w) \/ ServerWakes(w) \/ ServerStops(w) \/ ServerFrees(w)
      PROVE  HandsInv'
  <2>1. /\ UNCHANGED <<waiting_jobs, job, adding, client, stage>>
        /\ pc' = pc \/ (pc = "start" /\ pc' = "link")
        /\ \E where \in WorkerPcs \ {"run"} : wpc' = [wpc EXCEPT ![w] = where]
    BY <1>5 DEF Start, StartWorker, ServerWaits, WorkerWait, ServerWakes, SpuriousWakeup, ServerStops,
       WorkerStop, ServerFrees, WorkerFree, GotoWorker, MainAt, mainVars, connVars, WorkerPcs
  <2>2. At("run")' \subseteq At("run")
    BY <1>w, <2>1
  <2>. HIDE DEF At
  <2>. QED  BY <1>t, <2>1, <2>2 DEF Queue
<1>6. ASSUME NEW c \in Connections, NEW fd \in Descriptors, Accept(c, fd)  PROVE HandsInv'
  <2>1. /\ client' = [client EXCEPT ![c] = [fd |-> fd, blocks |-> AllBlocks]]
        /\ stage' = [stage EXCEPT ![c] = "queued"] /\ stage[c] = "backlog"
        /\ adding' = c /\ pc' = "add" /\ UNCHANGED <<waiting_jobs, wpc, job>>
    BY <1>6 DEF Accept, queueVars
  <2>2. c \notin Queue /\ \A w \in At("run") : job[w] # c
    BY <1>t, <2>1
  <2>3. stage'[c] = "queued" /\ client'[c].blocks = AllBlocks
    BY <1>w, <2>1
  <2>4. \A d \in Connections \ {c} : stage'[d] = stage[d] /\ client'[d] = client[d]
    BY <1>w, <2>1
  <2>5. \A d \in Queue \cup {job[w] : w \in At("run")} : d \in Connections \ {c}
    BY <1>t, <1>w, <2>2
  <2>. HIDE DEF At
  <2>6. Queue' = Queue /\ At("run")' = At("run")
    BY <2>1 DEF Queue, At
  <2>. QED  BY <1>t, <2>1, <2>2, <2>3, <2>4, <2>5, <2>6
<1>7. ASSUME NEW c \in Connections, NEW fd \in Descriptors, NEW n \in DOMAIN Blocks,
             AcceptFails(c, fd, n)
      PROVE  HandsInv'
  <2>1. /\ stage' = [stage EXCEPT ![c] = "refused"] /\ stage[c] = "backlog"
        /\ \A d \in Connections \ {c} : client'[d] = client[d]
        /\ UNCHANGED <<waiting_jobs, wpc, job, pc, adding>>
    BY <1>w, <1>7 DEF AcceptFails, queueVars, mainVars
  <2>2. \A d \in Connections \ {c} : stage'[d] = stage[d]
    BY <1>w, <2>1
  <2>3. \A d \in Queue \cup {job[w] : w \in At("run")} : d \in Connections \ {c}
    BY <1>t, <1>w, <2>1
  <2>. HIDE DEF At
  <2>4. Queue' = Queue /\ At("run")' = At("run")
    BY <2>1 DEF Queue, At
  <2>. QED  BY <1>t, <2>1, <2>2, <2>3, <2>4
<1>8. CASE AddReturns
  <2>1. PICK woken \in Signalled : wpc' = Waking(woken)
    BY <1>8 DEF AddReturns, AddSignal
  <2>2. \A w \in Workers : wpc'[w] = wpc[w] \/ (wpc[w] = "wait" /\ wpc'[w] = "lock")
    BY <1>w, <2>1, WakingProperties
  <2>3. At("run")' = At("run")
    BY <1>w, <2>2
  <2>4. /\ waiting_jobs' = <<adding>> \o waiting_jobs /\ pc = "add_in" /\ pc' = "loop"
        /\ UNCHANGED <<job, client, stage>>
    BY <1>8 DEF AddReturns, AddSignal, GotoMain, MainAt, connVars
  <2>5. /\ adding \in Connections /\ adding \notin Queue
        /\ stage[adding] = "queued" /\ client[adding].blocks = AllBlocks
        /\ \A w \in At("run") : job[w] # adding
    BY <1>t, <2>4
  <2>6. Queue' = {adding} \cup Queue /\ Distinct(waiting_jobs')
    BY <1>t, <1>w, <2>4, <2>5, PushProperties DEF Queue
  <2>. HIDE DEF At
  <2>. QED  BY <1>t, <2>3, <2>4, <2>5, <2>6
<1>9. ASSUME NEW x \in Calls, ShutdownReturns(x)  PROVE HandsInv'
  <2>1. PICK woken \in Broadcast(At("wait")) : wpc' = Waking(woken)
    BY <1>9 DEF ShutdownReturns, Clear
  <2>2. \A w \in Workers : wpc'[w] = wpc[w] \/ (wpc[w] = "wait" /\ wpc'[w] = "lock")
    BY <1>w, <2>1, WakingProperties
  <2>3. At("run")' = At("run")
    BY <1>w, <2>2
  <2>4. waiting_jobs' = <<>> /\ UNCHANGED <<job, client, stage, adding, pc>>
    BY <1>9 DEF ShutdownReturns, Clear, GotoShutdown, connVars
  <2>5. Queue' = {} /\ Distinct(waiting_jobs')
    BY <2>4 DEF Queue, Elements, Distinct
  <2>. HIDE DEF At
  <2>. QED  BY <1>t, <2>3, <2>4, <2>5
<1>10. ASSUME NEW w \in Workers, Serve(w)  PROVE HandsInv'
  <2>. DEFINE c == Head(waiting_jobs)
  <2>1. /\ waiting_jobs # <<>> /\ waiting_jobs' = Tail(waiting_jobs) /\ wpc[w] = "lock"
        /\ job' = [job EXCEPT ![w] = c] /\ wpc' = [wpc EXCEPT ![w] = "run"]
        /\ stage' = [stage EXCEPT ![c] = "served"]
        /\ UNCHANGED <<client, pc, adding>>
    BY <1>10 DEF Serve, WorkerTake, WithoutFirst, GotoWorker, mainVars
  <2>2. /\ c \in Queue /\ Queue' \subseteq Queue /\ c \notin Queue' /\ Distinct(waiting_jobs')
    BY <1>t, <1>w, <2>1, PopProperties DEF Queue
  <2>3. c \in Connections /\ client[c].blocks = AllBlocks
    BY <1>t, <1>w, <2>2
  <2>4. /\ At("run")' = At("run") \cup {w} /\ w \notin At("run") /\ job'[w] = c
        /\ \A v \in At("run") : job'[v] = job[v]
    BY <1>w, <2>1
  <2>5. stage'[c] = "served" /\ \A d \in Connections \ {c} : stage'[d] = stage[d]
    BY <1>w, <2>1, <2>3
  <2>. HIDE DEF c, At
  <2>. QED  BY <1>t, <1>w, <2>1, <2>2, <2>3, <2>4, <2>5
<1>11. ASSUME NEW w \in Workers, CloseClient(w)  PROVE HandsInv'
  <2>. DEFINE c == job[w]
  <2>1. /\ wpc[w] = "run" /\ client' = [client EXCEPT ![c] = ClosedClient(client[c])]
        /\ stage' = [stage EXCEPT ![c] = "closing"]
        /\ UNCHANGED <<waiting_jobs, wpc, job, pc, adding>>
    BY <1>11 DEF CloseClient, queueVars, mainVars
  <2>2. c \in Connections /\ c \notin Queue /\ client[c].blocks = AllBlocks
    BY <1>t, <2>1
  <2>3. client'[c].blocks = AllBlocks /\ stage'[c] = "closing"
    BY <1>w, <2>1, <2>2 DEF ClosedClient
  <2>4. \A d \in Connections \ {c} : client'[d] = client[d] /\ stage'[d] = stage[d]
    BY <1>w, <2>1, <2>2
  <2>5. pc \in {"add", "add_in"} => adding \in Connections \ {c}
    BY <1>t, <2>1
  <2>. HIDE DEF c, At
  <2>6. Queue' = Queue /\ At("run")' = At("run")
    BY <2>1 DEF Queue, At
  <2>. QED  BY <1>t, <1>w, <2>1, <2>2, <2>3, <2>4, <2>5, <2>6
<1>12. ASSUME NEW w \in Workers, FreeClient(w)  PROVE HandsInv'
  <2>. DEFINE c == job[w]
  <2>1. /\ wpc[w] = "run" /\ wpc' = [wpc EXCEPT ![w] = "lock"] /\ job' = [job EXCEPT ![w] = NoJob]
        /\ stage' = [stage EXCEPT ![c] = "closed"]
        /\ UNCHANGED <<waiting_jobs, pc, adding>>
    BY <1>12 DEF FreeClient, JobReturns, GotoWorker, mainVars
  <2>2. c \in Connections /\ c \notin Queue /\ \A v \in At("run") \ {w} : job[v] # c
    BY <1>t, <2>1
  <2>3. \A d \in Connections \ {c} : client'[d] = client[d] /\ stage'[d] = stage[d]
    BY <1>w, <1>12, <2>1 DEF FreeClient
  <2>4. At("run")' = At("run") \ {w} /\ \A v \in At("run") \ {w} : job'[v] = job[v]
    BY <1>w, <2>1
  <2>5. pc \in {"add", "add_in"} => adding \in Connections \ {c}
    BY <1>t, <2>1
  <2>. HIDE DEF c, At
  <2>6. Queue' = Queue
    BY <2>1 DEF Queue
  <2>. QED  BY <1>t, <1>w, <2>1, <2>2, <2>3, <2>4, <2>5, <2>6
<1>. HIDE DEF HandsInv, At
<1>. QED
  BY <1>1, <1>2, <1>3, <1>4, <1>5, <1>6, <1>7, <1>8, <1>9, <1>10, <1>11, <1>12
     DEF Next, MainStep, ShutdownStep, Environment, ServerStep, Ends, Moves

\* A step that leaves the connections alone keeps their descriptors.
LEMMA FdUnchanged == FdInv /\ UNCHANGED connVars => FdInv'
BY DEF FdInv, DescriptorsOwned, connVars

\* A descriptor is opened for one connection, which forgets it when it is closed.
LEMMA FdPreserved == ServerInv /\ [Next]_vars => FdInv'
<1>. SUFFICES ASSUME ServerInv, [Next]_vars  PROVE FdInv'
  OBVIOUS
<1>. USE DescriptorsAssumption DEF FdInv, DescriptorsOwned
<1>t. /\ TypeOK /\ HandsInv /\ FdInv /\ stage \in [Connections -> Stages]
      /\ client \in [Connections -> [fd : Descriptors \cup {NoFd}, blocks : SUBSET AllBlocks]]
  BY DEF ServerInv, TypeOK
<1>1. ASSUME NEW c \in Connections, NEW fd \in Descriptors, Accept(c, fd)  PROVE FdInv'
  <2>1. /\ stage[c] = "backlog" /\ stage' = [stage EXCEPT ![c] = "queued"]
        /\ client' = [client EXCEPT ![c] = [fd |-> fd, blocks |-> AllBlocks]]
        /\ fd \notin open /\ open' = open \cup {fd}
    BY <1>1 DEF Accept
  <2>2. client'[c].fd = fd /\ stage'[c] = "queued" /\ client[c].fd = NoFd
    BY <1>t, <2>1
  <2>3. \A d \in Connections \ {c} :
          client'[d] = client[d] /\ stage'[d] = stage[d] /\ client[d].fd # fd
    BY <1>t, <2>1
  <2>. QED  BY <1>t, <2>1, <2>2, <2>3
<1>2. ASSUME NEW c \in Connections, client' = [client EXCEPT ![c] = NoClient],
             NEW s \in {"refused", "closed"}, stage' = [stage EXCEPT ![c] = s],
             open' = open \ {client[c].fd}
      PROVE  FdInv'
  <2>1. client'[c] = NoClient /\ client'[c].fd = NoFd /\ stage'[c] = s
    BY <1>t, <1>2 DEF NoClient
  <2>2. \A d \in Connections \ {c} : client'[d] = client[d] /\ stage'[d] = stage[d]
    BY <1>t, <1>2
  <2>. QED  BY <1>t, <1>2, <2>1, <2>2
<1>3. ASSUME NEW c \in Connections, NEW fd \in Descriptors, NEW n \in DOMAIN Blocks,
             AcceptFails(c, fd, n)
      PROVE  FdInv'
  <2>1. client' = [client EXCEPT ![c] = NoClient]
    BY <1>3, BlocksFreed DEF AcceptFails
  <2>2. client[c].fd = NoFd /\ NoFd \notin open
    BY <1>t, <1>3 DEF AcceptFails
  <2>. QED  BY <1>2, <1>3, <2>1, <2>2 DEF AcceptFails
<1>4. ASSUME NEW w \in Workers, CloseClient(w)  PROVE FdInv'
  <2>. DEFINE c == job[w]
  <2>1. c \in Connections
    BY <1>t, <1>4 DEF CloseClient, HandsInv, At
  <2>2. /\ client' = [client EXCEPT ![c] = ClosedClient(client[c])]
        /\ stage' = [stage EXCEPT ![c] = "closing"] /\ open' = open \ {client[c].fd}
    BY <1>4 DEF CloseClient
  <2>3. client'[c].fd = NoFd /\ stage'[c] = "closing"
    BY <1>t, <2>1, <2>2 DEF ClosedClient
  <2>4. \A d \in Connections \ {c} : client'[d] = client[d] /\ stage'[d] = stage[d]
    BY <1>t, <2>2
  <2>. HIDE DEF c
  <2>. QED  BY <1>t, <2>1, <2>2, <2>3, <2>4
<1>5. ASSUME NEW w \in Workers, FreeClient(w)  PROVE FdInv'
  <2>1. job[w] \in Connections
    BY <1>t, <1>5 DEF FreeClient, HandsInv, At
  <2>2. WithoutJob(FreedClient(client[job[w]])) = NoClient
    BY <1>t, <2>1, BlocksFreed
  <2>3. PICK c \in Connections : c = job[w]
    BY <2>1
  <2>4. /\ client' = [client EXCEPT ![c] = NoClient] /\ stage' = [stage EXCEPT ![c] = "closed"]
        /\ open' = open \ {client[c].fd}
    BY <1>5, <2>2, <2>3 DEF FreeClient
  <2>. QED  BY <1>2, <2>4
<1>. HIDE DEF FdInv, DescriptorsOwned
<1>6. CASE Ends \/ Moves \/ UNCHANGED vars
  BY <1>t, <1>6, EndsEffect, MovesEffect, FdUnchanged DEF vars
<1>7. ASSUME NEW w \in Workers,
             \/ Start(w) \/ ServerWaits(w) \/ ServerStops(w) \/ ServerFrees(w) \/ ServerWakes(w)
             \/ Serve(w)
      PROVE  FdInv'
  <2>1. CASE Serve(w)
    <3>1. Head(waiting_jobs) \in Elements(waiting_jobs) /\ UNCHANGED <<client, open>>
      BY <1>t, <2>1, PopProperties DEF TypeOK, Serve, WorkerTake
    <3>2. Head(waiting_jobs) \in Connections
      BY <1>t, <2>1, HeadTailProperties, ConnectionsAssumption DEF TypeOK, Serve, WorkerTake
    <3>3. client[Head(waiting_jobs)].blocks = AllBlocks /\ stage'[Head(waiting_jobs)] = "served"
      BY <1>t, <2>1, <3>1, <3>2 DEF HandsInv, Queue, Serve
    <3>4. \A d \in Connections \ {Head(waiting_jobs)} : stage'[d] = stage[d]
      BY <1>t, <2>1 DEF Serve
    <3>. QED  BY <1>t, <3>1, <3>2, <3>3, <3>4 DEF FdInv, DescriptorsOwned
  <2>2. CASE ~ Serve(w)
    BY <1>t, <1>7, <2>2, FdUnchanged
       DEF Start, ServerWaits, ServerStops, ServerFrees, ServerWakes
  <2>. QED  BY <2>1, <2>2
<1>8. CASE Linked \/ Add \/ AddReturns
  BY <1>t, <1>8, FdUnchanged DEF Linked, Add, AddReturns
<1>9. ASSUME NEW x \in Calls, ShutdownMark(x) \/ ShutdownLock(x) \/ ShutdownReturns(x)
      PROVE  FdInv'
  BY <1>t, <1>9, ShutdownEffect, FdUnchanged
<1>. QED
  BY <1>1, <1>3, <1>4, <1>5, <1>6, <1>7, <1>8, <1>9
     DEF Next, MainStep, ShutdownStep, Environment, ServerStep, Ends, Moves

-----------------------------------------------------------------------------
(* The theorems. *)

\* The invariant holds initially.
LEMMA ServerInvInit == Init => ServerInv
<1>. SUFFICES ASSUME Init  PROVE ServerInv
  OBVIOUS
<1>. USE DEF Init, QueueInit
<1>1. TypeOK
  <2>1. Cardinality(Workers) \in Nat
    BY WorkersAssumption, FS_CardinalityType
  <2>2. client \in [Connections -> [fd : Descriptors \cup {NoFd}, blocks : SUBSET AllBlocks]]
    BY DEF NoClient
  <2>3. workers \in Seq(Workers) /\ Len(workers) = 0 /\ waiting_jobs \in Seq(Jobs)
    OBVIOUS
  <2>4. terminate \in [Workers -> BOOLEAN] /\ loopexit \in BOOLEAN
    OBVIOUS
  <2>5. /\ wpc \in [Workers -> WorkerPcs] /\ stage \in [Connections -> Stages]
        /\ pc \in MainPcs /\ hit \in MainPcs \cup {"none"}
    BY DEF MainPcs, WorkerPcs, Stages
  <2>6. Len(workers) <= Cardinality(Workers)
    BY <2>1, <2>3
  <2>7. /\ next \in Seq(Workers) /\ at \in [Calls -> InShutdown \cup {"idle", "done"}]
        /\ walk \in [Calls -> Seq(Workers)]
    OBVIOUS
  <2>. QED  BY <2>2, <2>3, <2>4, <2>5, <2>6, <2>7 DEF TypeOK
<1>2. CallInv /\ ListInv /\ MutexInv
  <2>1. \A x \in Calls : at[x] = "idle"
    OBVIOUS
  <2>2. "runServer" \in Calls /\ "killServer" \in Calls /\ "idle" \notin InShutdown
    BY DEF Calls, InShutdown
  <2>3. Elements(workers) = {} /\ Distinct(workers) /\ freed \cup At("free") \cup At("exit") = {}
    BY DEF Elements, Distinct, At
  <2>. QED
    BY <2>1, <2>2, <2>3 DEF CallInv, ListInv, MutexInv, Chain, Unmarked, Exposed
<1>3. HandsInv
  BY DEF HandsInv, At, Queue, Elements, Distinct
<1>4. FdInv
  BY DEF FdInv, DescriptorsOwned, NoClient
<1>. QED  BY <1>1, <1>2, <1>3, <1>4 DEF ServerInv

\* The inductive invariant of the server.
THEOREM ServerInvariant == Spec => []ServerInv
<1>1. ServerInv /\ [Next]_vars => ServerInv'
  BY ServerTypePreserved, CallPreserved, ListPreserved, MutexPreserved, HandsPreserved, FdPreserved
     DEF ServerInv
<1>. QED  BY <1>1, ServerInvInit, PTL DEF Spec

\* However many workers there are and wherever the signal interrupts the main thread,
\* workqueue_shutdown writes into a freed structure only after a failed workqueue_init,
\* with the signal inside LL_ADD or inside the shutdown itself; and one structure at
\* most is ever freed: the first worker to stop keeps the mutex.
THEOREM ShutdownIsSafe == Spec => []ShutdownWalk
<1>1. ServerInv => ShutdownWalk
  <2>. SUFFICES ASSUME ServerInv  PROVE ShutdownWalk
    OBVIOUS
  <2>t. TypeOK /\ ListInv /\ MutexInv
    BY DEF ServerInv
  <2>1. ASSUME NEW x \in Calls, at[x] = "mark", walk[x] # <<>>, Head(walk[x]) \in freed, Running
        PROVE  pc = "failed" /\ hit \in {"link_in", "failed"}
    <3>1. Head(walk[x]) \in Elements(walk[x])
      BY <2>t, <2>1, PopProperties DEF TypeOK
    <3>2. terminate[Head(walk[x])]
      BY <2>t, <2>1 DEF ListInv
    <3>3. Exposed
      BY <2>t, <2>1, <3>1, <3>2 DEF ListInv, Unmarked
    <3>. QED  BY <3>3 DEF Exposed
  <2>2. Cardinality(freed) <= 1
    <3>1. freed \subseteq {jobs_mutex}
      BY <2>t DEF MutexInv
    <3>2. IsFiniteSet({jobs_mutex}) /\ Cardinality({jobs_mutex}) = 1
      BY FS_Singleton
    <3>. QED  BY <3>1, <3>2, FS_Subset
  <2>. QED  BY <2>t, <2>1, <2>2 DEF ShutdownWalk, MutexInv
<1>. QED  BY <1>1, ServerInvariant, PTL

\* A connection is in one hand at a time, and whoever has it finds all of it
\* allocated.
THEOREM ConnectionsInOneHand == Spec => []OneHandAtATime
<1>1. ServerInv => OneHandAtATime
  <2>. SUFFICES ASSUME ServerInv  PROVE OneHandAtATime
    OBVIOUS
  <2>t. TypeOK /\ HandsInv
    BY DEF ServerInv
  <2>. DEFINE Served == {job[w] : w \in At("run")}
  <2>1. Cardinality(Queue) = Len(waiting_jobs)
    BY <2>t, DistinctElements DEF TypeOK, HandsInv, Queue
  <2>2. Cardinality(Served) = Cardinality(At("run"))
    <3>1. IsFiniteSet(At("run"))
      BY WorkersAssumption, FS_Subset DEF At
    <3>. DEFINE f == [w \in At("run") |-> job[w]]
    <3>2. f \in [At("run") -> Served] /\ \A v, w \in At("run") : f[v] = f[w] => v = w
      BY <2>t DEF HandsInv
    <3>3. \A c \in Served : \E w \in At("run") : f[w] = c
      OBVIOUS
    <3>. HIDE DEF f, Served
    <3>4. f \in Bijection(At("run"), Served)
      BY <3>2, <3>3, Fun_IsBij
    <3>. QED  BY <3>1, <3>4, FS_Bijection DEF ExistsBijection
  <2>3. /\ Queue \cap Served = {}
        /\ pc \in {"add", "add_in"} => adding \notin Queue \cup Served
        /\ \A c \in Queue \cup Served : client[c].blocks = AllBlocks
    BY <2>t DEF HandsInv
  <2>. QED  BY <2>1, <2>2, <2>3 DEF OneHandAtATime, Queue, Elements
<1>. QED  BY <1>1, ServerInvariant, PTL

\* An open descriptor belongs to exactly one connection, and nothing of a
\* connection that is over is left.
THEOREM DescriptorsAreOwned == Spec => []DescriptorsOwned
<1>1. ServerInv => DescriptorsOwned
  BY DEF ServerInv, FdInv
<1>. QED  BY <1>1, ServerInvariant, PTL
=============================================================================
