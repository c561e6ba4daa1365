-------------------------- MODULE ChatServer_proofs --------------------------
(***************************************************************************)
(* Proofs about ChatServer, for any number of threads, connections,        *)
(* descriptors and messages: the counter and the list of the pool agree,   *)
(* the pool implements TaskPool, and the broadcast of poolDestroy misses   *)
(* one thread at most.                                                     *)
(***************************************************************************)
EXTENDS ChatServer, FiniteSetTheorems, SequenceTheorems, WellFoundedInduction, TLAPS

Everyone == Threads \cup {Main}

MainPcs == {"none", "loop", "add", "signal", "broadcast", "join", "end"}

ThreadPcs == {"none", "lock", "test", "sleep", "wait", "read", "copy", "send", "exit"}

\* How many jobs poolAddWorker has queued, and how many of them threads have taken.
Added == IF pc[Main] = "add" THEN Len(origin) - 1 ELSE Len(origin)

Started == Added - Len(queueHead)

PcInv == /\ pc \in [Everyone -> MainPcs \cup ThreadPcs]
         /\ pc[Main] \in MainPcs
         /\ \A w \in Threads : pc[w] \in ThreadPcs

\* The life of the pool, as the main thread sees it.
LifeInv ==
  /\ pc[Main] = "none" => \A w \in Threads : pc[w] = "none"
  /\ shutdown <=> pc[Main] \in {"broadcast", "join", "end"}
  /\ pool = "freed" <=> pc[Main] = "end"
  /\ \A w \in Threads : pc[w] = "exit" => shutdown /\ curQueueSize = 0
  /\ pc[Main] = "end" => \A w \in Threads : pc[w] = "exit"

\* The list holds the jobs queued last, in their order, and its size is right.
QueueInv ==
  /\ queueHead \in Seq(Messages)
  /\ origin \in Seq(Conns)
  /\ Len(origin) <= MaxEvents
  /\ pc[Main] = "add" => Len(origin) > 0
  /\ curQueueSize = Len(queueHead)
  /\ Len(queueHead) <= Added
  /\ \A k \in 1..Len(queueHead) : queueHead[k] = Started + k

\* The jobs taken are with one thread each, or over.
JobsInv ==
  /\ worker \in [Threads -> Messages \cup {Nothing}]
  /\ done \subseteq 1..Started
  /\ \A w \in Threads :
       /\ worker[w] # Nothing <=> pc[w] \in {"read", "copy", "send"}
       /\ worker[w] # Nothing => worker[w] \in 1..Started /\ worker[w] \notin done
  /\ \A v, w \in Threads : worker[v] = worker[w] /\ worker[v] # Nothing => v = w

\* The descriptors of connected clients, and what the main loop keeps of them.
ClientInv ==
  /\ owner \in [Fds -> Conns \cup {Nothing}]
  /\ came \in 0..MaxConns
  /\ Connected \subseteq 1..came
  /\ \A f, g \in Fds : owner[f] = owner[g] /\ owner[f] # Nothing => f = g
  /\ failures \in Nat
  /\ user_count = Cardinality(Connected) + failures
  /\ client \in Seq([fd : Fds \cup {BadFd}, record : Messages \cup {Empty}])
  /\ Connected # {} => client # <<>>

\* The rest has its type.
OtherInv ==
  /\ queueLock \in Threads \cup {Nothing}
  /\ pool \in {"none", "live", "freed"}
  /\ shutdown \in BOOLEAN
  /\ who \in [Threads -> Fds \cup {Nothing}]
  /\ buf \in [Threads -> Messages \cup {Empty}]
  /\ next \in [Threads -> Nat]
  /\ \A w \in Threads : pc[w] = "send" => next[w] > 0
  /\ sockfd \in Fds \cup {Nothing}
  /\ offered \in [Conns -> SUBSET Messages]
  /\ last \in Messages \cup {Nothing}

ChatInv == PcInv /\ LifeInv /\ QueueInv /\ JobsInv /\ ClientInv /\ OtherInv

-----------------------------------------------------------------------------
(* Points of the threads. *)

\* One thread goes on and the others stay.
LEMMA GotoEffect ==
  ASSUME PcInv, NEW x \in Everyone, NEW where, Goto(x, where)
  PROVE  pc'[x] = where /\ \A y \in Everyone \ {x} : pc'[y] = pc[y]
BY DEF PcInv, Goto

\* The main thread goes on and wakes some of the threads that wait.
LEMMA WakesEffect ==
  ASSUME PcInv, NEW where, NEW ws, ws \subseteq At("wait"), MainWakes(where, ws)
  PROVE  /\ pc'[Main] = where
         /\ \A w \in Threads : pc'[w] = pc[w] \/ (pc[w] = "wait" /\ pc'[w] = "lock")
BY ThreadsAssumption DEF PcInv, MainWakes, At, Everyone

\* Signal and broadcast wake only threads that wait.
LEMMA WokenWait ==
  ASSUME NEW ws, ws \in Signalled \/ ws \in WokenAll
  PROVE  ws \subseteq At("wait")
BY DEF Signalled, WokenAll, Signal, Broadcast

\* Every step leads to a point that its thread has.
LEMMA PcStep ==
  ASSUME PcInv, [Next]_vars
  PROVE  PcInv'
<1>m. Main \notin Threads
  BY ThreadsAssumption
<1>1. ASSUME NEW w \in Threads, NEW where \in ThreadPcs, Goto(w, where)  PROVE PcInv'
  BY <1>m, <1>1 DEF PcInv, Goto, Everyone
<1>2. ASSUME NEW where \in MainPcs, Goto(Main, where)  PROVE PcInv'
  BY <1>m, <1>2 DEF PcInv, Goto, Everyone
<1>3. ASSUME NEW where \in MainPcs, NEW ws, MainWakes(where, ws)  PROVE PcInv'
  <2>1. "lock" \in ThreadPcs
    BY DEF ThreadPcs
  <2>2. pc' \in [Everyone -> MainPcs \cup ThreadPcs]
    BY <1>m, <1>3, <2>1 DEF PcInv, MainWakes, Everyone
  <2>. QED  BY <1>m, <1>3, <2>1, <2>2 DEF PcInv, MainWakes, Everyone
<1>4. CASE UNCHANGED pc
  BY <1>4 DEF PcInv
<1>5. CASE PoolStep
  <2>1. CASE poolInit
    BY <1>m, <2>1 DEF poolInit, PcInv, MainPcs, ThreadPcs, Everyone
  <2>2. CASE AddJob \/ DestroyFree
    BY <1>2, <2>2 DEF AddJob, DestroyFree, MainPcs
  <2>3. CASE AddSignal \/ DestroyBroadcast
    BY <1>3, <2>3 DEF AddSignal, DestroyBroadcast, MainPcs
  <2>. QED  BY <1>5, <2>1, <2>2, <2>3 DEF PoolStep
<1>6. CASE LoopStep
  BY <1>2, <1>4, <1>6 DEF LoopStep, SetShutdown, Accept, AcceptFails, Receive, Leave, OtherEvent,
     MainPcs
<1>7. ASSUME NEW w \in Threads, ThreadStep(w) \/ SpuriousWakeup(w)  PROVE PcInv'
  BY <1>1, <1>4, <1>7 DEF ThreadStep, SpuriousWakeup, Lock, Test, Sleep, Exit, Take, ReadArg, Copy, Send,
     SentAll, ThreadPcs
<1>8. CASE UNCHANGED vars
  BY <1>4, <1>8 DEF vars
<1>. QED  BY <1>5, <1>6, <1>7, <1>8 DEF Next

-----------------------------------------------------------------------------
(* The records. *)

\* A set of numbers has a least one.
LEMMA LeastNumber ==
  ASSUME NEW S, S \subseteq Nat, S # {}
  PROVE  \E k \in S : \A j \in S : k <= j
<1>. DEFINE R == {ss \in Nat \X Nat : ss[1] < ss[2]}
<1>1. IsWellFoundedOn(R, Nat)
  BY NatLessThanWellFounded DEF OpToRel
<1>. HIDE DEF R
<1>2. PICK k \in S : \A j \in S : ~ (<<j, k>> \in R)
  BY <1>1, WFMin
<1>3. \A j \in S : ~ (j < k)
  BY <1>2 DEF R
<1>. QED  BY <1>3

\* myprocess finds a message or an empty record.
LEMMA RecordType ==
  ASSUME ClientInv, NEW f
  PROVE  RecordOf(f) \in Messages \cup {Empty}
<1>. DEFINE found == {k \in DOMAIN client : client[k].fd = f}
            first == CHOOSE k \in found : \A j \in found : k <= j
<1>1. CASE found = {}
  BY <1>1 DEF RecordOf
<1>2. CASE found # {}
  <2>1. found \subseteq Nat
    BY DEF ClientInv
  <2>2. first \in found
    BY <1>2, <2>1, LeastNumber
  <2>3. PICK k \in DOMAIN client : k = first
    BY <2>2
  <2>4. client[k] \in [fd : Fds \cup {BadFd}, record : Messages \cup {Empty}]
    <3>1. PICK S : S = [fd : Fds \cup {BadFd}, record : Messages \cup {Empty}]
      OBVIOUS
    <3>2. client \in Seq(S)
      BY <3>1 DEF ClientInv
    <3>3. client[k] \in S
      BY <2>3, <3>2
    <3>. QED  BY <3>1, <3>3
  <2>5. client[first].record \in Messages \cup {Empty}
    BY <2>3, <2>4
  <2>. QED  BY <1>2, <2>5 DEF RecordOf
<1>. QED  BY <1>1, <1>2

-----------------------------------------------------------------------------
(* The steps the list and the jobs notice. *)

Reading == {"read", "copy", "send"}

\* A step that moves no job and no message.
Quiet ==
  /\ UNCHANGED <<queueHead, curQueueSize, origin, worker, done, shutdown>>
  /\ pc'[Main] = "add" <=> pc[Main] = "add"
  /\ \A w \in Threads : pc'[w] \in Reading <=> pc[w] \in Reading
  /\ pool' = "freed" <=> pool = "freed"

\* The other steps are the six that queue, receive, take or end a job, set the flag,
\* or free the pool.
LEMMA QuietCases ==
  ASSUME ChatInv, [Next]_vars
  PROVE  \/ Quiet \/ AddJob \/ SetShutdown \/ DestroyFree
         \/ \E f \in Fds : Receive(f)
         \/ \E w \in Threads : Take(w) \/ SentAll(w)
<1>m. Main \notin Threads /\ PcInv /\ LifeInv
  BY ThreadsAssumption DEF ChatInv
<1>1. CASE UNCHANGED vars
  BY <1>1 DEF vars, thePool, queue, crew, chat, Quiet
<1>2. CASE poolInit
  <2>1. \A w \in Threads : pc[w] = "none" /\ pc'[w] = "lock"
    BY <1>m, <1>2 DEF poolInit, LifeInv
  <2>2. pc[Main] = "none" /\ pc'[Main] = "loop"
    BY <1>m, <1>2 DEF poolInit
  <2>. QED  BY <1>m, <1>2, <2>1, <2>2 DEF poolInit, Quiet, Reading, queue, crew, chat, LifeInv
<1>3. CASE AddSignal \/ DestroyBroadcast
  <2>1. PICK where \in {"loop", "join"}, ws \in SUBSET At("wait") : MainWakes(where, ws)
    BY <1>3, WokenWait DEF AddSignal, DestroyBroadcast
  <2>2. /\ pc'[Main] = where
        /\ \A w \in Threads : pc'[w] = pc[w] \/ (pc[w] = "wait" /\ pc'[w] = "lock")
    BY <1>m, <2>1, WakesEffect
  <2>. QED  BY <1>3, <2>2 DEF AddSignal, DestroyBroadcast, Quiet, Reading, thePool, queue, crew, chat, clients
<1>4. ASSUME AcceptFails \/ \E f \in Fds : Leave(f) \/ OtherEvent(f) \/ Accept(f)  PROVE Quiet
  BY <1>4 DEF Leave, OtherEvent, Accept, AcceptFails, Quiet, thePool, queue, crew
<1>5. ASSUME NEW w \in Threads,
             \/ Lock(w) \/ Test(w) \/ Sleep(w) \/ Exit(w) \/ ReadArg(w) \/ Copy(w)
             \/ SpuriousWakeup(w)
      PROVE  Quiet
  <2>1. \E where : Goto(w, where) /\ (pc[w] \in Reading <=> where \in Reading)
    BY <1>5 DEF Lock, Test, Sleep, Exit, ReadArg, Copy, SpuriousWakeup, Reading
  <2>2. \A v \in Threads : pc'[v] \in Reading <=> pc[v] \in Reading
    BY <1>m, <2>1, GotoEffect DEF Everyone
  <2>3. pc'[Main] = pc[Main]
    BY <1>m, <2>1, GotoEffect DEF Everyone
  <2>. QED  BY <1>5, <2>2, <2>3 DEF Lock, Test, Sleep, Exit, ReadArg, Copy, SpuriousWakeup, Quiet,
            thePool, queue, crew, chat
<1>6. ASSUME NEW w \in Threads, Send(w)  PROVE Quiet
  BY <1>6 DEF Send, Quiet, thePool, queue, chat
<1>. QED  BY <1>1, <1>2, <1>3, <1>4, <1>5, <1>6 DEF Next, PoolStep, LoopStep, ThreadStep

\* The numbers of jobs are numbers.
LEMMA Numbers ==
  ASSUME QueueInv
  PROVE  /\ Added \in Nat /\ Started \in Nat /\ Len(queueHead) \in Nat /\ Len(origin) \in Nat
         /\ Added <= MaxEvents /\ Started <= Added /\ Started + Len(queueHead) = Added
<1>1. Len(queueHead) \in Nat /\ Len(origin) \in Nat /\ MaxEvents \in Nat
  BY BoundsAssumption DEF QueueInv
<1>2. Added \in Nat /\ Added <= Len(origin) /\ Len(queueHead) <= Added
  BY <1>1 DEF QueueInv, Added
<1>. QED  BY <1>1, <1>2 DEF QueueInv, Started

\* What the four steps that move jobs do to the numbers of jobs queued and taken.
LEMMA JobNumbers ==
  ASSUME ChatInv
  PROVE  /\ Quiet => Added' = Added /\ Started' = Started
         /\ AddJob => Added' = Added + 1 /\ Started' = Started /\ Len(origin) = Added + 1
         /\ \A f \in Fds : Receive(f) => Added' = Added /\ Started' = Started
         /\ \A w \in Threads : Take(w) =>
              /\ Added' = Added /\ Started' = Started + 1 /\ Len(queueHead) > 0
              /\ Head(queueHead) = Started + 1
         /\ \A w \in Threads : SentAll(w) => Added' = Added /\ Started' = Started
         /\ SetShutdown => Added' = Added /\ Started' = Started
         /\ DestroyFree => Added' = Added /\ Started' = Started /\ queueHead = <<>>
<1>1. /\ PcInv /\ QueueInv /\ Main \notin Threads /\ Main \in Everyone /\ Threads \subseteq Everyone
      /\ Added \in Nat /\ Started \in Nat /\ Len(queueHead) \in Nat /\ Len(origin) \in Nat
      /\ Started + Len(queueHead) = Added
  BY ThreadsAssumption, Numbers DEF ChatInv, Everyone
<1>2. Quiet => Added' = Added /\ Started' = Started
  BY DEF Quiet, Added, Started
<1>3. ASSUME AddJob
      PROVE  Added' = Added + 1 /\ Started' = Started /\ Len(origin) = Added + 1
  <2>1. pc[Main] = "add" /\ pc'[Main] = "signal" /\ origin' = origin
    BY <1>1, <1>3, GotoEffect DEF AddJob, chat, clients
  <2>2. Len(queueHead') = Len(queueHead) + 1
    BY <1>1, <1>3 DEF AddJob, QueueInv
  <2>. QED  BY <1>1, <2>1, <2>2 DEF Added, Started
<1>4. ASSUME NEW f \in Fds, Receive(f)  PROVE Added' = Added /\ Started' = Started
  <2>1. pc[Main] = "loop" /\ pc'[Main] = "add" /\ queueHead' = queueHead
    BY <1>1, <1>4, GotoEffect DEF Receive, thePool, queue
  <2>2. owner[f] \in Conns
    BY <1>4 DEF Receive, ChatInv, ClientInv
  <2>3. Len(origin') = Len(origin) + 1
    BY <1>1, <1>4, <2>2 DEF Receive, QueueInv
  <2>. QED  BY <1>1, <2>1, <2>3 DEF Added, Started
<1>5. ASSUME NEW w \in Threads, Take(w)
      PROVE  /\ Added' = Added /\ Started' = Started + 1 /\ Len(queueHead) > 0
             /\ Head(queueHead) = Started + 1
  <2>1. pc'[Main] = pc[Main] /\ origin' = origin
    BY <1>1, <1>5, GotoEffect DEF Take, chat, clients
  <2>2. Len(queueHead) > 0
    BY <1>1, <1>5 DEF Take, QueueInv
  <2>3. Head(queueHead) = queueHead[1] /\ Len(queueHead') = Len(queueHead) - 1
    BY <1>1, <1>5, <2>2 DEF Take, QueueInv
  <2>4. queueHead[1] = Started + 1
    BY <1>1, <2>2 DEF QueueInv
  <2>. QED  BY <1>1, <2>1, <2>2, <2>3, <2>4 DEF Added, Started
<1>6. ASSUME NEW w \in Threads, SentAll(w)  PROVE Added' = Added /\ Started' = Started
  <2>1. pc'[Main] = pc[Main] /\ origin' = origin /\ queueHead' = queueHead
    BY <1>1, <1>6, GotoEffect DEF SentAll, chat, thePool, queue
  <2>. QED  BY <2>1 DEF Added, Started
<1>7. ASSUME SetShutdown  PROVE Added' = Added /\ Started' = Started
  <2>1. pc[Main] = "loop" /\ pc'[Main] = "broadcast" /\ origin' = origin /\ queueHead' = queueHead
    BY <1>1, <1>7, GotoEffect DEF SetShutdown, chat, queue
  <2>. QED  BY <2>1 DEF Added, Started
<1>8. ASSUME DestroyFree  PROVE Added' = Added /\ Started' = Started /\ queueHead = <<>>
  <2>1. pc[Main] = "join" /\ pc'[Main] = "end" /\ origin' = origin /\ queueHead' = <<>>
    BY <1>1, <1>8, GotoEffect DEF DestroyFree, chat, clients
  <2>2. PICK w \in Threads : pc[w] = "exit"
    BY <1>8, ThreadsAssumption DEF DestroyFree, At
  <2>3. Len(queueHead) = 0
    BY <1>1, <2>2 DEF ChatInv, LifeInv, QueueInv
  <2>4. queueHead = <<>>
    BY <1>1, <2>3, EmptySeq DEF QueueInv
  <2>. QED  BY <2>1, <2>4 DEF Added, Started
<1>. QED  BY <1>2, <1>3, <1>4, <1>5, <1>6, <1>7, <1>8

-----------------------------------------------------------------------------
(* The invariant, part by part. *)

\* The list: a job goes to its end, and the oldest is taken from its head.
LEMMA QueueStep ==
  ASSUME ChatInv, [Next]_vars
  PROVE  QueueInv'
<1>1. /\ PcInv /\ QueueInv /\ Main \notin Threads /\ Main \in Everyone /\ Threads \subseteq Everyone
      /\ Added \in Nat /\ Started \in Nat /\ Len(queueHead) \in Nat /\ Len(origin) \in Nat
      /\ Started + Len(queueHead) = Added /\ MaxEvents \in Nat /\ Added <= MaxEvents
  BY ThreadsAssumption, BoundsAssumption, Numbers DEF ChatInv, Everyone
<1>2. ASSUME UNCHANGED <<queueHead, curQueueSize, origin>>, Added' = Added, Started' = Started,
             pc'[Main] = "add" => pc[Main] = "add"
      PROVE  QueueInv'
  BY <1>1, <1>2 DEF QueueInv
<1>3. CASE Quiet
  BY <1>2, <1>3, JobNumbers DEF Quiet
<1>4. CASE SetShutdown
  <2>1. pc'[Main] = "broadcast"
    BY <1>1, <1>4, GotoEffect DEF SetShutdown
  <2>. QED  BY <1>2, <1>4, <2>1, JobNumbers DEF SetShutdown, queue, chat, clients
<1>5. CASE DestroyFree
  <2>1. pc'[Main] = "end"
    BY <1>1, <1>5, GotoEffect DEF DestroyFree
  <2>. QED  BY <1>2, <1>5, <2>1, JobNumbers DEF DestroyFree, chat, clients
<1>6. ASSUME NEW w \in Threads, SentAll(w)  PROVE QueueInv'
  <2>1. pc'[Main] = pc[Main]
    BY <1>1, <1>6, GotoEffect DEF SentAll
  <2>. QED  BY <1>2, <1>6, <2>1, JobNumbers DEF SentAll, thePool, queue, chat, clients
<1>7. CASE AddJob
  <2>1. Added' = Added + 1 /\ Started' = Started /\ Len(origin) = Added + 1
    BY <1>7, JobNumbers
  <2>2. pc'[Main] = "signal" /\ origin' = origin
    BY <1>1, <1>7, GotoEffect DEF AddJob, chat, clients
  <2>3. Len(origin) \in Messages
    BY <1>1, <2>1 DEF QueueInv, Messages
  <2>4. /\ queueHead' \in Seq(Messages) /\ Len(queueHead') = Len(queueHead) + 1
        /\ \A k \in 1..Len(queueHead) : queueHead'[k] = queueHead[k]
        /\ queueHead'[Len(queueHead) + 1] = Len(origin)
    BY <1>1, <1>7, <2>3 DEF AddJob, QueueInv
  <2>5. \A k \in 1..Len(queueHead') : queueHead'[k] = Started' + k
    <3>1. \A k \in 1..Len(queueHead) : queueHead[k] = Started + k
      BY <1>1 DEF QueueInv
    <3>2. \A k \in 1..(Len(queueHead) + 1) : k \in 1..Len(queueHead) \/ k = Len(queueHead) + 1
      BY <1>1
    <3>. QED  BY <1>1, <2>1, <2>4, <3>1, <3>2
  <2>6. curQueueSize' = Len(queueHead')
    BY <1>1, <1>7, <2>4 DEF AddJob, QueueInv
  <2>7. origin' \in Seq(Conns) /\ Len(origin') <= MaxEvents /\ Len(queueHead') <= Added'
    BY <1>1, <2>1, <2>2, <2>4 DEF QueueInv
  <2>. QED  BY <2>2, <2>4, <2>5, <2>6, <2>7 DEF QueueInv
<1>8. ASSUME NEW f \in Fds, Receive(f)  PROVE QueueInv'
  <2>1. Added' = Added /\ Started' = Started
    BY <1>8, JobNumbers
  <2>2. owner[f] \in Conns
    BY <1>8 DEF Receive, ChatInv, ClientInv
  <2>3. origin' \in Seq(Conns) /\ Len(origin') = Len(origin) + 1
    BY <1>1, <1>8, <2>2 DEF Receive, QueueInv
  <2>m. Len(origin) < MaxEvents
    BY <1>1, <1>8 DEF Receive, ChatInv, ClientInv
  <2>4. queueHead' = queueHead /\ curQueueSize' = curQueueSize
    BY <1>8 DEF Receive, thePool, queue
  <2>. QED  BY <1>1, <2>1, <2>3, <2>m, <2>4 DEF QueueInv
<1>9. ASSUME NEW w \in Threads, Take(w)  PROVE QueueInv'
  <2>1. Added' = Added /\ Started' = Started + 1 /\ Len(queueHead) > 0
    BY <1>9, JobNumbers
  <2>2. pc'[Main] = pc[Main] /\ origin' = origin
    BY <1>1, <1>9, GotoEffect DEF Take, chat, clients
  <2>3. /\ queueHead' \in Seq(Messages) /\ Len(queueHead') = Len(queueHead) - 1
        /\ \A k \in 1..(Len(queueHead) - 1) : queueHead'[k] = queueHead[k + 1]
    BY <1>1, <1>9, <2>1 DEF Take, QueueInv
  <2>4. \A k \in 1..Len(queueHead') : queueHead'[k] = Started' + k
    <3>1. \A k \in 1..Len(queueHead) : queueHead[k] = Started + k
      BY <1>1 DEF QueueInv
    <3>2. \A k \in 1..(Len(queueHead) - 1) : k + 1 \in 1..Len(queueHead)
      BY <1>1
    <3>. QED  BY <1>1, <2>1, <2>3, <3>1, <3>2
  <2>5. curQueueSize' = Len(queueHead')
    BY <1>1, <1>9, <2>3 DEF Take, Taken, QueueInv
  <2>6. Len(queueHead') <= Added'
    BY <1>1, <2>1, <2>3
  <2>. QED  BY <1>1, <2>2, <2>3, <2>4, <2>5, <2>6 DEF QueueInv
<1>. QED  BY <1>3, <1>4, <1>5, <1>6, <1>7, <1>8, <1>9, QuietCases

\* The jobs: the one taken is new to everybody, the one that is over was one thread's.
LEMMA JobsStep ==
  ASSUME ChatInv, [Next]_vars
  PROVE  JobsInv'
<1>1. /\ PcInv /\ QueueInv /\ JobsInv /\ Main \notin Threads
      /\ Main \in Everyone /\ Threads \subseteq Everyone
      /\ Added \in Nat /\ Started \in Nat /\ Started <= Added /\ Added <= MaxEvents
      /\ MaxEvents \in Nat /\ Len(queueHead) \in Nat /\ Started + Len(queueHead) = Added
      /\ Nothing \notin Messages
  BY ThreadsAssumption, BoundsAssumption, NothingAssumption, Numbers DEF ChatInv, Everyone
<1>2. ASSUME UNCHANGED <<worker, done>>, Started' = Started,
             \A w \in Threads : pc'[w] \in Reading <=> pc[w] \in Reading
      PROVE  JobsInv'
  BY <1>1, <1>2 DEF JobsInv, Reading
<1>3. CASE Quiet
  BY <1>2, <1>3, JobNumbers DEF Quiet
<1>4. CASE AddJob \/ SetShutdown \/ DestroyFree \/ \E f \in Fds : Receive(f)
  <2>1. \A w \in Threads : pc'[w] = pc[w]
    BY <1>1, <1>4, GotoEffect DEF AddJob, SetShutdown, DestroyFree, Receive
  <2>2. worker' = worker /\ done' = done
    BY <1>4 DEF AddJob, SetShutdown, DestroyFree, Receive, crew
  <2>3. Started' = Started
    BY <1>4, JobNumbers
  <2>. QED  BY <1>2, <2>1, <2>2, <2>3
<1>5. ASSUME NEW w \in Threads, Take(w)  PROVE JobsInv'
  <2>1. PICK j : j = Head(queueHead)
    OBVIOUS
  <2>2. j = Started + 1 /\ Started' = Started + 1 /\ Len(queueHead) > 0
    BY <1>5, <2>1, JobNumbers
  <2>3. j \in Messages /\ j \in 1..Started'
    BY <1>1, <2>2 DEF Messages
  <2>4. pc'[w] = "read" /\ \A v \in Threads \ {w} : pc'[v] = pc[v]
    BY <1>1, <1>5, GotoEffect DEF Take
  <2>5. worker' \in [Threads -> Messages \cup {Nothing}] /\ worker'[w] = j
        /\ \A v \in Threads \ {w} : worker'[v] = worker[v]
    BY <1>1, <1>5, <2>1, <2>3 DEF Take, JobsInv
  <2>6. done' = done /\ 1..Started \subseteq 1..Started' /\ j \notin 1..Started
    BY <1>1, <1>5, <2>2 DEF Take
  <2>7. done' \subseteq 1..Started' /\ j \notin done
    BY <1>1, <2>6 DEF JobsInv
  <2>8. \A v \in Threads \ {w} : worker'[v] # j
    BY <1>1, <2>3, <2>5, <2>6 DEF JobsInv
  <2>9. ASSUME NEW v \in Threads
        PROVE  /\ worker'[v] # Nothing <=> pc'[v] \in {"read", "copy", "send"}
               /\ worker'[v] # Nothing => worker'[v] \in 1..Started' /\ worker'[v] \notin done'
    BY <1>1, <2>3, <2>4, <2>5, <2>6, <2>7, <2>9 DEF JobsInv
  <2>10. ASSUME NEW u \in Threads, NEW v \in Threads, worker'[u] = worker'[v], worker'[u] # Nothing
         PROVE  u = v
    BY <1>1, <2>5, <2>8, <2>10 DEF JobsInv
  <2>. QED  BY <2>5, <2>7, <2>9, <2>10 DEF JobsInv
<1>6. ASSUME NEW w \in Threads, SentAll(w)  PROVE JobsInv'
  <2>1. PICK j : j = worker[w]
    OBVIOUS
  <2>2. pc[w] = "send" /\ j # Nothing /\ j \in 1..Started /\ j \in Messages
    BY <1>1, <1>6, <2>1 DEF SentAll, JobsInv
  <2>3. Started' = Started
    BY <1>6, JobNumbers
  <2>4. pc'[w] = "lock" /\ \A v \in Threads \ {w} : pc'[v] = pc[v]
    BY <1>1, <1>6, GotoEffect DEF SentAll
  <2>5. worker' \in [Threads -> Messages \cup {Nothing}] /\ worker'[w] = Nothing
        /\ \A v \in Threads \ {w} : worker'[v] = worker[v]
    BY <1>1, <1>6 DEF SentAll, JobsInv
  <2>6. done' = done \cup {j}
    BY <1>6, <2>1 DEF SentAll
  <2>7. \A v \in Threads \ {w} : worker[v] # j
    BY <1>1, <2>1, <2>2 DEF JobsInv
  <2>8. done' \subseteq 1..Started'
    BY <1>1, <2>2, <2>3, <2>6 DEF JobsInv
  <2>9. ASSUME NEW v \in Threads
        PROVE  /\ worker'[v] # Nothing <=> pc'[v] \in {"read", "copy", "send"}
               /\ worker'[v] # Nothing => worker'[v] \in 1..Started' /\ worker'[v] \notin done'
    BY <1>1, <2>3, <2>4, <2>5, <2>6, <2>7, <2>9 DEF JobsInv
  <2>10. ASSUME NEW u \in Threads, NEW v \in Threads, worker'[u] = worker'[v], worker'[u] # Nothing
         PROVE  u = v
    BY <1>1, <2>5, <2>10 DEF JobsInv
  <2>. QED  BY <2>5, <2>8, <2>9, <2>10 DEF JobsInv
<1>. QED  BY <1>3, <1>4, <1>5, <1>6, QuietCases

\* The life of the pool: threads leave only when the flag is set and the list is empty,
\* and from then on nobody adds a job.
LEMMA LifeStep ==
  ASSUME ChatInv, [Next]_vars
  PROVE  LifeInv'
<1>1. /\ PcInv /\ LifeInv /\ Main \notin Threads /\ Main \in Everyone /\ Threads \subseteq Everyone
  BY ThreadsAssumption DEF ChatInv, Everyone
<1>2. CASE UNCHANGED vars
  BY <1>1, <1>2 DEF vars, thePool, queue, LifeInv
<1>3. CASE poolInit
  <2>1. pc'[Main] = "loop" /\ \A w \in Threads : pc'[w] = "lock"
    BY <1>1, <1>3 DEF poolInit
  <2>. QED  BY <1>1, <1>3, <2>1 DEF poolInit, LifeInv
<1>4. CASE AddJob
  <2>1. pc[Main] = "add" /\ pc'[Main] = "signal" /\ \A w \in Threads : pc'[w] = pc[w]
    BY <1>1, <1>4, GotoEffect DEF AddJob
  <2>. QED  BY <1>1, <1>4, <2>1 DEF AddJob, LifeInv
<1>5. CASE AddSignal
  <2>1. PICK ws : ws \subseteq At("wait") /\ MainWakes("loop", ws)
    BY <1>5, WokenWait DEF AddSignal
  <2>2. /\ pc'[Main] = "loop"
        /\ \A w \in Threads : pc'[w] = pc[w] \/ (pc[w] = "wait" /\ pc'[w] = "lock")
    BY <1>1, <2>1, WakesEffect
  <2>. QED  BY <1>1, <1>5, <2>2 DEF AddSignal, LifeInv, thePool, queue
<1>6. CASE DestroyBroadcast
  <2>1. PICK ws : ws \subseteq At("wait") /\ MainWakes("join", ws)
    BY <1>6, WokenWait DEF DestroyBroadcast
  <2>2. /\ pc'[Main] = "join"
        /\ \A w \in Threads : pc'[w] = pc[w] \/ (pc[w] = "wait" /\ pc'[w] = "lock")
    BY <1>1, <2>1, WakesEffect
  <2>. QED  BY <1>1, <1>6, <2>2 DEF DestroyBroadcast, LifeInv, thePool, queue
<1>7. CASE SetShutdown \/ DestroyFree
  <2>1. /\ pc'[Main] = IF SetShutdown THEN "broadcast" ELSE "end"
        /\ \A w \in Threads : pc'[w] = pc[w]
    BY <1>1, <1>7, GotoEffect DEF SetShutdown, DestroyFree
  <2>2. CASE SetShutdown
    BY <1>1, <2>1, <2>2 DEF SetShutdown, LifeInv, queue
  <2>3. CASE DestroyFree /\ ~ SetShutdown
    BY <1>1, <2>1, <2>3 DEF DestroyFree, LifeInv, At
  <2>. QED  BY <1>7, <2>2, <2>3
<1>8. ASSUME AcceptFails \/ \E f \in Fds : Receive(f) \/ Leave(f) \/ OtherEvent(f) \/ Accept(f)
      PROVE  LifeInv'
  <2>1. /\ pc[Main] = "loop" /\ pc'[Main] \in {"loop", "add"}
        /\ \A w \in Threads : pc'[w] = pc[w]
    BY <1>1, <1>8, GotoEffect DEF Receive, Leave, OtherEvent, Accept, AcceptFails
  <2>2. UNCHANGED <<shutdown, pool, curQueueSize>>
    BY <1>8 DEF Receive, Leave, OtherEvent, Accept, AcceptFails, thePool, queue
  <2>. QED  BY <1>1, <2>1, <2>2 DEF LifeInv
<1>9. ASSUME NEW w \in Threads, ThreadStep(w) \/ SpuriousWakeup(w), ~ Send(w)  PROVE LifeInv'
  <2>1. PICK where : Goto(w, where) /\ pc[w] \notin {"none", "exit"} /\ (where = "exit" => Leaves)
    BY <1>9 DEF ThreadStep, SpuriousWakeup, Lock, Test, Sleep, Exit, Take, ReadArg, Copy, SentAll
  <2>2. pc'[w] = where /\ pc'[Main] = pc[Main] /\ \A v \in Threads \ {w} : pc'[v] = pc[v]
    BY <1>1, <2>1, GotoEffect
  <2>3. UNCHANGED <<shutdown, pool>>
    BY <1>9 DEF ThreadStep, SpuriousWakeup, Lock, Test, Sleep, Exit, Take, ReadArg, Copy, SentAll, thePool
  <2>4. curQueueSize = 0 => curQueueSize' = 0
    BY <1>9 DEF ThreadStep, SpuriousWakeup, Lock, Test, Sleep, Exit, Take, ReadArg, Copy, SentAll, thePool,
       queue
  <2>. QED  BY <1>1, <2>1, <2>2, <2>3, <2>4 DEF LifeInv, Leaves
<1>10. ASSUME NEW w \in Threads, Send(w)  PROVE LifeInv'
  BY <1>1, <1>10 DEF Send, thePool, queue, LifeInv
<1>. QED  BY <1>2, <1>3, <1>4, <1>5, <1>6, <1>7, <1>8, <1>9, <1>10 DEF Next, PoolStep, LoopStep

\* The clients: user_count counts the connections that have a descriptor and the accepts
\* that failed, and the entry of client[] that is cleared when one leaves exists.
LEMMA ClientStep ==
  ASSUME ChatInv, [Next]_vars
  PROVE  ClientInv'
<1>. DEFINE Entry == [fd : Fds \cup {BadFd}, record : Messages \cup {Empty}]
<1>1. /\ ClientInv /\ client \in Seq(Entry) /\ Nothing \notin Conns /\ MaxEvents \in Nat
      /\ Len(origin) \in Nat /\ MaxConns \in Nat /\ came \in Nat /\ came <= MaxConns
  BY BoundsAssumption, NothingAssumption DEF ChatInv, ClientInv, QueueInv
<1>2. IsFiniteSet(Connected) /\ Cardinality(Connected) \in Nat
  <2>1. IsFiniteSet(1..came)
    BY <1>1, FS_Interval
  <2>. QED  BY <1>1, <2>1, FS_Subset, FS_CardinalityType DEF ClientInv
<1>3. ASSUME UNCHANGED <<owner, came, failures, user_count>>, client' \in Seq(Entry), Len(client') = Len(client)
      PROVE  ClientInv'
  <2>1. client' = <<>> <=> client = <<>>
    BY <1>1, <1>3, EmptySeq
  <2>2. Connected' = Connected
    BY <1>3 DEF Connected
  <2>. QED  BY <1>1, <1>3, <2>1, <2>2 DEF ClientInv
<1>4. CASE UNCHANGED <<client, owner, came, failures, user_count>>
  BY <1>1, <1>3, <1>4
<1>5. ASSUME NEW f \in Fds, Receive(f)  PROVE ClientInv'
  <2>1. Len(origin) + 1 \in Messages
    BY <1>1, <1>5 DEF Receive, Messages, ClientInv
  <2>2. \A k \in DOMAIN client : client[k] \in Entry /\ [client[k] EXCEPT !.record = Len(origin) + 1] \in Entry
    <3>1. \A e \in Entry : [e EXCEPT !.record = Len(origin) + 1] \in Entry
      BY <2>1
    <3>. HIDE DEF Entry
    <3>. QED  BY <1>1, <3>1
  <2>. HIDE DEF Entry
  <2>3. client' \in [1..Len(client) -> Entry]
    BY <1>1, <1>5, <2>2 DEF Receive
  <2>4. client' \in Seq(Entry) /\ Len(client') = Len(client)
    BY <1>1, <2>3
  <2>. QED  BY <1>3, <1>5, <2>4 DEF Receive
<1>6. ASSUME NEW f \in Fds, Accept(f)  PROVE ClientInv'
  <2>. PICK c : c = came + 1
    OBVIOUS
  <2>1. c \in Conns /\ c \notin 1..came /\ owner[f] = Nothing /\ c # Nothing
    BY <1>1, <1>6 DEF Accept, Conns
  <2>2. /\ owner' \in [Fds -> Conns \cup {Nothing}] /\ owner'[f] = c
        /\ \A g \in Fds \ {f} : owner'[g] = owner[g]
    BY <1>1, <1>6, <2>1 DEF Accept, ClientInv
  <2>3. Connected' = Connected \cup {c} /\ c \notin Connected
    <3>1. c \notin Connected
      BY <1>1, <2>1 DEF ClientInv
    <3>2. Connected' = {owner'[g] : g \in Fds} \ {Nothing}
      BY DEF Connected
    <3>. QED  BY <2>1, <2>2, <3>1, <3>2 DEF Connected
  <2>4. /\ came' \in 0..MaxConns /\ 1..came' = 1..came \cup {c}
        /\ user_count' = user_count + 1 /\ failures' = failures
    BY <1>1, <1>6 DEF Accept, NewClient
  <2>5. user_count' = Cardinality(Connected') + failures'
    <3>1. Cardinality(Connected') = Cardinality(Connected) + 1
      BY <1>2, <2>3, FS_AddElement
    <3>. QED  BY <1>1, <1>2, <2>4, <3>1 DEF ClientInv
  <2>6. \A g \in Fds : owner[g] # c
    BY <2>1, <2>3 DEF Connected
  <2>7. \A g, h \in Fds : owner'[g] = owner'[h] /\ owner'[g] # Nothing => g = h
    BY <1>1, <2>2, <2>6 DEF ClientInv
  <2>8. client' \in Seq(Entry) /\ client' # <<>>
    <3>1. [fd |-> f, record |-> Empty] \in Entry
      OBVIOUS
    <3>. HIDE DEF Entry
    <3>. QED  BY <1>1, <1>6, <3>1, AppendProperties DEF Accept, NewClient
  <2>. QED  BY <1>1, <2>2, <2>3, <2>4, <2>5, <2>7, <2>8 DEF ClientInv
<1>7. ASSUME NEW f \in Fds, Leave(f)  PROVE ClientInv'
  <2>1. PICK c \in Conns : c = owner[f] /\ c # Nothing
    BY <1>1, <1>7 DEF Leave, ClientInv
  <2>2. /\ owner' \in [Fds -> Conns \cup {Nothing}] /\ owner'[f] = Nothing
        /\ \A g \in Fds \ {f} : owner'[g] = owner[g]
    BY <1>1, <1>7 DEF Leave, ClientInv
  <2>3. c \in Connected
    BY <2>1 DEF Connected
  <2>4. \A g \in Fds \ {f} : owner[g] # c
    BY <1>1, <2>1 DEF ClientInv
  <2>5. Connected' = Connected \ {c}
    BY <2>1, <2>2, <2>4 DEF Connected
  <2>6. came' = came /\ failures' = failures /\ user_count' = user_count - 1
    BY <1>7 DEF Leave
  <2>7. user_count' = Cardinality(Connected') + failures'
    <3>1. Cardinality(Connected') = Cardinality(Connected) - 1
      BY <1>2, <2>3, <2>5, FS_RemoveElement
    <3>. QED  BY <1>1, <1>2, <2>6, <3>1 DEF ClientInv
  <2>8. \A g, h \in Fds : owner'[g] = owner'[h] /\ owner'[g] # Nothing => g = h
    BY <1>1, <2>2 DEF ClientInv
  <2>9. client' \in Seq(Entry) /\ client' # <<>>
    <3>1. client # <<>>
      BY <1>1, <2>3 DEF ClientInv
    <3>2. Len(client) \in 1..Len(client) /\ client[Len(client)] \in Entry
      <4>. HIDE DEF Entry
      <4>. QED  BY <1>1, <3>1, LenProperties, EmptySeq
    <3>3. [client[Len(client)] EXCEPT !.record = Empty] \in Entry
      BY <3>2
    <3>. HIDE DEF Entry
    <3>4. client' = [client EXCEPT ![Len(client)] = [client[Len(client)] EXCEPT !.record = Empty]]
      BY <1>7 DEF Leave
    <3>5. client' \in Seq(Entry) /\ Len(client') = Len(client)
      BY <1>1, <3>2, <3>3, <3>4, ExceptSeq
    <3>. QED  BY <1>1, <3>1, <3>5, EmptySeq
  <2>. QED  BY <1>1, <2>2, <2>5, <2>6, <2>7, <2>8, <2>9 DEF ClientInv
<1>8. ASSUME PoolStep \/ SetShutdown \/ (\E f \in Fds : OtherEvent(f))
             \/ (\E w \in Threads : ThreadStep(w) \/ SpuriousWakeup(w)) \/ UNCHANGED vars
      PROVE  UNCHANGED <<client, owner, came, failures, user_count>>
  BY <1>8 DEF PoolStep, poolInit, AddJob, AddSignal, DestroyBroadcast, DestroyFree, SetShutdown,
     OtherEvent, ThreadStep, SpuriousWakeup, Lock, Test, Sleep, Exit, Take, ReadArg, Copy, Send, SentAll,
     chat, clients, vars
<1>9. CASE AcceptFails
  <2>1. /\ UNCHANGED <<owner, came>> /\ failures' = failures + 1 /\ user_count' = user_count + 1
        /\ Connected' = Connected
    BY <1>9 DEF AcceptFails, NewClient, Connected
  <2>2. user_count' = Cardinality(Connected') + failures' /\ failures' \in Nat
    BY <1>1, <1>2, <2>1 DEF ClientInv
  <2>3. client' \in Seq(Entry) /\ client' # <<>>
    <3>1. [fd |-> BadFd, record |-> Empty] \in Entry
      OBVIOUS
    <3>. HIDE DEF Entry
    <3>. QED  BY <1>1, <1>9, <3>1, AppendProperties DEF AcceptFails, NewClient
  <2>. QED  BY <1>1, <2>1, <2>2, <2>3 DEF ClientInv
<1>. QED  BY <1>4, <1>5, <1>6, <1>7, <1>8, <1>9 DEF Next, LoopStep

\* The rest: what a thread sends is a message, whatever descriptor it has read.
LEMMA OtherStep ==
  ASSUME ChatInv, [Next]_vars
  PROVE  OtherInv'
<1>1. /\ OtherInv /\ PcInv /\ ClientInv /\ MaxEvents \in Nat /\ Len(origin) \in Nat
      /\ Main \notin Threads /\ Main \in Everyone /\ Threads \subseteq Everyone
  BY BoundsAssumption, ThreadsAssumption DEF ChatInv, QueueInv, Everyone
<1>2. ASSUME UNCHANGED <<buf, next, offered>>,
             \A w \in Threads : pc'[w] = "send" => pc[w] = "send",
             queueLock' \in Threads \cup {Nothing}, pool' \in {"none", "live", "freed"},
             shutdown' \in BOOLEAN, who' \in [Threads -> Fds \cup {Nothing}],
             sockfd' \in Fds \cup {Nothing}, last' \in Messages \cup {Nothing}
      PROVE  OtherInv'
  BY <1>1, <1>2 DEF OtherInv
<1>3. CASE UNCHANGED vars
  BY <1>1, <1>3 DEF vars, thePool, crew, myjob, chat, clients, OtherInv
<1>4. CASE PoolStep
  <2>1. \A w \in Threads : pc'[w] = "send" => pc[w] = "send"
    <3>1. CASE AddJob \/ DestroyFree
      BY <1>1, <3>1, GotoEffect DEF AddJob, DestroyFree
    <3>2. CASE poolInit \/ AddSignal \/ DestroyBroadcast
      BY <1>1, <3>2 DEF poolInit, AddSignal, DestroyBroadcast, MainWakes
    <3>. QED  BY <1>4, <3>1, <3>2 DEF PoolStep
  <2>. QED  BY <1>1, <1>2, <1>4, <2>1 DEF PoolStep, poolInit, AddJob, AddSignal, DestroyBroadcast,
            DestroyFree, thePool, crew, myjob, chat, OtherInv
<1>5. CASE LoopStep
  <2>1. \A w \in Threads : pc'[w] = pc[w]
    BY <1>1, <1>5, GotoEffect DEF LoopStep, SetShutdown, Accept, AcceptFails, Receive, Leave, OtherEvent
  <2>2. CASE SetShutdown
    BY <1>1, <1>2, <2>1, <2>2 DEF SetShutdown, crew, myjob, chat, OtherInv
  <2>3. CASE AcceptFails \/ \E f \in Fds : Leave(f) \/ OtherEvent(f) \/ Accept(f)
    BY <1>1, <1>2, <2>1, <2>3 DEF Leave, OtherEvent, Accept, AcceptFails, thePool, crew, myjob, OtherInv
  <2>4. ASSUME NEW f \in Fds, Receive(f)  PROVE OtherInv'
    <3>1. Len(origin) + 1 \in Messages
      BY <1>1, <2>4 DEF Receive, Messages, ClientInv
    <3>. QED  BY <1>1, <1>2, <2>1, <2>4, <3>1 DEF Receive, thePool, crew, myjob, OtherInv
  <2>. QED  BY <1>5, <2>2, <2>3, <2>4 DEF LoopStep
<1>6. ASSUME NEW w \in Threads, Copy(w)  PROVE OtherInv'
  <2>1. PICK m \in Messages \cup {Empty} : m = RecordOf(who[w])
    BY <1>1, RecordType
  <2>2. buf' \in [Threads -> Messages \cup {Empty}]
    BY <1>1, <1>6, <2>1 DEF Copy, OtherInv
  <2>3. /\ next' \in [Threads -> Nat] /\ next'[w] = 1
        /\ \A v \in Threads \ {w} : next'[v] = next[v]
    BY <1>1, <1>6 DEF Copy, OtherInv
  <2>4. \A v \in Threads \ {w} : pc'[v] = pc[v]
    BY <1>1, <1>6, GotoEffect DEF Copy
  <2>5. \A v \in Threads : pc'[v] = "send" => next'[v] > 0
    BY <1>1, <2>3, <2>4 DEF OtherInv
  <2>. QED  BY <1>1, <1>6, <2>2, <2>3, <2>5 DEF Copy, thePool, chat, OtherInv
<1>7. ASSUME NEW w \in Threads, Send(w)  PROVE OtherInv'
  <2>1. next[w] \in Nat /\ next[w] > 0 /\ next[w] \in DOMAIN client
    BY <1>1, <1>7 DEF Send, OtherInv
  <2>2. \A c \in Conns : c = Addressee(w) => buf[w] \in Messages
    <3>1. Nothing \notin Conns
      BY NothingAssumption
    <3>. QED  BY <1>1, <3>1 DEF Addressee, OtherInv
  <2>3. offered' \in [Conns -> SUBSET Messages]
    <3>1. PICK a : a = Addressee(w)
      OBVIOUS
    <3>2. offered' = [c \in Conns |-> IF c = a THEN offered[c] \cup {buf[w]} ELSE offered[c]]
      BY <1>7, <3>1 DEF Send
    <3>. QED  BY <1>1, <2>2, <3>1, <3>2 DEF OtherInv
  <2>4. next' \in [Threads -> Nat] /\ \A v \in Threads : next[v] > 0 => next'[v] > 0
    BY <1>1, <1>7, <2>1 DEF Send, OtherInv
  <2>5. UNCHANGED <<pc, queueLock, pool, shutdown, who, buf, sockfd, last>>
    BY <1>7 DEF Send, thePool, chat
  <2>. QED  BY <1>1, <2>3, <2>4, <2>5 DEF OtherInv
<1>8. ASSUME NEW w \in Threads, SentAll(w)  PROVE OtherInv'
  <2>1. /\ next' \in [Threads -> Nat] /\ buf' \in [Threads -> Messages \cup {Empty}]
        /\ who' \in [Threads -> Fds \cup {Nothing}] /\ pc'[w] = "lock"
        /\ \A v \in Threads \ {w} : next'[v] = next[v] /\ pc'[v] = pc[v]
    BY <1>1, <1>8, GotoEffect DEF SentAll, OtherInv
  <2>2. UNCHANGED <<queueLock, pool, shutdown, sockfd, last, offered>>
    BY <1>8 DEF SentAll, thePool, chat
  <2>3. \A v \in Threads : pc'[v] = "send" => next'[v] > 0
    BY <1>1, <2>1 DEF OtherInv
  <2>. QED  BY <1>1, <2>1, <2>2, <2>3 DEF OtherInv
<1>9. ASSUME NEW w \in Threads,
             \/ Lock(w) \/ Test(w) \/ Sleep(w) \/ Exit(w) \/ Take(w) \/ ReadArg(w)
             \/ SpuriousWakeup(w)
      PROVE  OtherInv'
  <2>1. \E where : where # "send" /\ Goto(w, where)
    BY <1>9 DEF Lock, Test, Sleep, Exit, Take, ReadArg, SpuriousWakeup
  <2>2. \A v \in Threads : pc'[v] = "send" => pc[v] = "send"
    BY <1>1, <2>1, GotoEffect
  <2>. QED  BY <1>1, <1>2, <1>9, <2>2 DEF Lock, Test, Sleep, Exit, Take, ReadArg, SpuriousWakeup, thePool,
            crew, myjob, chat, OtherInv
<1>. QED  BY <1>3, <1>4, <1>5, <1>6, <1>7, <1>8, <1>9 DEF Next, ThreadStep

-----------------------------------------------------------------------------
(* The theorems. *)

\* The server before poolInit.
LEMMA ChatInit == Init => ChatInv
<1>. SUFFICES ASSUME Init  PROVE ChatInv
  OBVIOUS
<1>1. PcInv
  BY DEF Init, PcInv, MainPcs, ThreadPcs, Everyone
<1>2. pc[Main] = "none" /\ \A w \in Threads : pc[w] = "none"
  BY DEF Init
<1>3. LifeInv
  BY <1>2 DEF Init, LifeInv
<1>4. QueueInv /\ Started = 0
  <2>1. Len(queueHead) = 0 /\ Len(origin) = 0 /\ queueHead \in Seq(Messages) /\ origin \in Seq(Conns)
    BY DEF Init
  <2>2. Added = 0 /\ Started = 0
    BY <1>2, <2>1 DEF Added, Started
  <2>. QED  BY <1>2, <2>1, <2>2, BoundsAssumption DEF Init, QueueInv
<1>5. JobsInv
  BY <1>2 DEF Init, JobsInv
<1>6. ClientInv
  <2>1. Connected = {}
    BY DEF Init, Connected
  <2>2. user_count = Cardinality(Connected) + failures
    BY <2>1, FS_EmptySet DEF Init
  <2>. QED  BY <2>1, <2>2, BoundsAssumption DEF Init, ClientInv
<1>7. OtherInv
  BY DEF Init, OtherInv
<1>. QED  BY <1>1, <1>3, <1>4, <1>5, <1>6, <1>7 DEF ChatInv

\* The main thread, the threads of the pool and the clients can do nothing that
\* breaks the invariant.
LEMMA ChatInvariant == Spec => []ChatInv
<1>1. ChatInv /\ [Next]_vars => ChatInv'
  BY PcStep, LifeStep, QueueStep, JobsStep, ClientStep, OtherStep DEF ChatInv
<1>. QED  BY <1>1, ChatInit, PTL DEF Spec

\* The types, that the counter of the pool is the length of its list (the assertions of
\* poolAddWorker and threadRoutine), as it is changed under queueLock only, together with
\* the list, and that user_count is the number of connected clients and of failed accepts
\* together: every client takes off one when it leaves, and nobody does for an accept
\* that returned -1.
THEOREM ServerTypes == Spec => []TypeOK
<1>1. ChatInv => TypeOK
  <2>. SUFFICES ASSUME ChatInv  PROVE TypeOK
    OBVIOUS
  <2>1. /\ Added \in Nat /\ Started \in Nat /\ Len(queueHead) \in Nat /\ Added <= MaxEvents
        /\ Started <= Added /\ Started + Len(queueHead) = Added /\ MaxEvents \in Nat
    BY Numbers, BoundsAssumption DEF ChatInv
  <2>2. curQueueSize \in 0..MaxEvents /\ curQueueSize = Len(queueHead)
    BY <2>1 DEF ChatInv, QueueInv
  <2>3. done \subseteq Messages
    <3>1. 1..Started \subseteq Messages
      BY <2>1 DEF Messages
    <3>. QED  BY <3>1 DEF ChatInv, JobsInv
  <2>4. user_count = Cardinality(Connected) + failures /\ failures \in Nat
    BY DEF ChatInv, ClientInv
  <2>5. /\ pc[Main] \in {"none", "loop", "add", "signal", "broadcast", "join", "end"}
        /\ \A w \in Threads :
             pc[w] \in {"none", "lock", "test", "sleep", "wait", "read", "copy", "send", "exit"}
    BY DEF ChatInv, PcInv, MainPcs, ThreadPcs
  <2>6. queueHead \in Seq(Messages) /\ origin \in Seq(Conns)
        /\ worker \in [Threads -> Messages \cup {Nothing}]
    BY DEF ChatInv, QueueInv, JobsInv
  <2>7. /\ client \in Seq([fd : Fds \cup {BadFd}, record : Messages \cup {Empty}])
        /\ owner \in [Fds -> Conns \cup {Nothing}] /\ came \in 0..MaxConns
    BY DEF ChatInv, ClientInv
  <2>8. OtherInv
    BY DEF ChatInv
  <2>. QED  BY <2>2, <2>3, <2>4, <2>5, <2>6, <2>7, <2>8 DEF TypeOK, OtherInv
<1>. QED  BY <1>1, ChatInvariant, PTL

\* poolAddWorker queues a job that is neither queued nor taken, and before poolDestroy.
LEMMA AddAbstract ==
  ASSUME ChatInv, AddJob
  PROVE  \E t \in Messages : TP!Submit(t)
<1>1. /\ PcInv /\ LifeInv /\ QueueInv /\ JobsInv
      /\ Added \in Nat /\ Started \in Nat /\ Len(queueHead) \in Nat /\ Added <= MaxEvents
      /\ Started <= Added /\ Started + Len(queueHead) = Added /\ MaxEvents \in Nat
  BY Numbers, BoundsAssumption DEF ChatInv
<1>2. PICK t : t = Len(origin)
  OBVIOUS
<1>3. t = Added + 1 /\ t \in Messages
  <2>1. Len(origin) = Added + 1 /\ Len(origin) <= MaxEvents
    BY <1>1, JobNumbers DEF QueueInv
  <2>. QED  BY <1>1, <1>2, <2>1 DEF Messages
<1>4. Mode = "open" /\ Mode' = Mode
  BY <1>1 DEF AddJob, LifeInv, Mode
<1>5. \A k \in DOMAIN queueHead : queueHead[k] # t
  <2>1. \A k \in 1..Len(queueHead) : queueHead[k] = Started + k /\ Started + k # t
    BY <1>1, <1>3 DEF QueueInv
  <2>. QED  BY <1>1, <2>1 DEF QueueInv
<1>6. t \notin Running /\ t \notin done
  <2>1. t \notin 1..Started
    BY <1>1, <1>3
  <2>. QED  BY <1>1, <2>1 DEF JobsInv, Running
<1>7. UNCHANGED <<worker, done>> /\ queueHead' = Append(queueHead, t)
  BY <1>2 DEF AddJob, crew
<1>8. Running' = Running
  BY <1>7 DEF Running
<1>9. Len(queueHead) < MaxEvents + 1
  BY <1>1
<1>10. TP!Submit(t)
  BY <1>4, <1>5, <1>6, <1>7, <1>8, <1>9 DEF TP!Submit, TP!Queued, Mode, Running
<1>. QED  BY <1>3, <1>10

\* A thread that takes a job starts the oldest one, before or after poolDestroy.
LEMMA TakeAbstract ==
  ASSUME ChatInv, NEW w \in Threads, Take(w)
  PROVE  TP!Start
<1>1. LifeInv /\ QueueInv /\ JobsInv /\ PcInv
  BY DEF ChatInv
<1>2. Len(queueHead) > 0 /\ queueHead # <<>>
  BY <1>1, JobNumbers, EmptySeq DEF QueueInv
<1>3. Mode \in {"open", "graceful"} /\ Mode' = Mode
  <2>1. pc[Main] # "end"
    BY <1>1 DEF Take, LifeInv
  <2>. QED  BY <1>1, <2>1 DEF LifeInv, Take, Mode
<1>4. PICK j : j = Head(queueHead)
  OBVIOUS
<1>5. worker[w] = Nothing /\ worker' = [worker EXCEPT ![w] = j] /\ queueHead' = Tail(queueHead)
  BY <1>1, <1>4 DEF Take, JobsInv
<1>6. j # Nothing
  <2>1. j \in Messages
    BY <1>1, <1>2, <1>4, HeadTailProperties DEF QueueInv
  <2>. QED  BY <2>1, NothingAssumption
<1>7. worker'[w] = j /\ \A v \in Threads \ {w} : worker'[v] = worker[v]
  BY <1>1, <1>5 DEF JobsInv
<1>8. Running' = Running \cup {j}
  BY <1>5, <1>6, <1>7 DEF Running
<1>9. done' = done
  BY DEF Take
<1>. QED  BY <1>2, <1>3, <1>4, <1>5, <1>8, <1>9 DEF TP!Start, Mode, Running

\* A job that has sent its message is over, and no other thread has it.
LEMMA FinishAbstract ==
  ASSUME ChatInv, NEW w \in Threads, SentAll(w)
  PROVE  \E t \in Messages : TP!Finish(t)
<1>1. JobsInv /\ PcInv
  BY DEF ChatInv
<1>2. PICK t : t = worker[w]
  OBVIOUS
<1>3. t # Nothing /\ t \in Messages
  BY <1>1, <1>2 DEF SentAll, JobsInv
<1>4. /\ worker'[w] = Nothing /\ \A v \in Threads \ {w} : worker'[v] = worker[v]
      /\ done' = done \cup {t}
  BY <1>1, <1>2 DEF SentAll, JobsInv
<1>5. \A v \in Threads \ {w} : worker[v] # t
  BY <1>1, <1>2, <1>3 DEF JobsInv
<1>6. t \in Running /\ Running' = Running \ {t}
  BY <1>2, <1>3, <1>4, <1>5 DEF Running
<1>7. queueHead' = queueHead /\ Mode' = Mode
  BY DEF SentAll, thePool, queue, Mode
<1>8. TP!Finish(t)
  BY <1>4, <1>6, <1>7 DEF TP!Finish, Mode, Running
<1>. QED  BY <1>3, <1>8

\* poolDestroy shuts the pool gracefully.
LEMMA ShutAbstract ==
  ASSUME ChatInv, SetShutdown
  PROVE  TP!Shut("graceful")
<1>1. LifeInv /\ PcInv
  BY DEF ChatInv
<1>2. Mode = "open" /\ Mode' = "graceful"
  BY <1>1 DEF SetShutdown, LifeInv, Mode
<1>3. UNCHANGED <<queueHead, worker, done>>
  BY DEF SetShutdown, queue, crew
<1>4. Running' = Running
  BY <1>3 DEF Running
<1>. QED  BY <1>2, <1>3, <1>4 DEF TP!Shut, Mode, Running

\* poolDestroy frees the pool when all threads have left: none has a job, and they left
\* no job behind.
LEMMA CloseAbstract ==
  ASSUME ChatInv, DestroyFree
  PROVE  TP!Close
<1>1. LifeInv /\ PcInv /\ JobsInv
  BY DEF ChatInv
<1>2. Mode = "graceful" /\ Mode' = "closed"
  BY <1>1 DEF DestroyFree, LifeInv, Mode
<1>3. queueHead = <<>> /\ queueHead' = queueHead
  BY JobNumbers DEF DestroyFree
<1>4. \A w \in Threads : worker[w] = Nothing
  BY <1>1 DEF DestroyFree, At, JobsInv
<1>5. UNCHANGED <<worker, done>>
  BY DEF DestroyFree, crew
<1>6. Running = {} /\ Running' = Running
  BY <1>4, <1>5 DEF Running
<1>. QED  BY <1>2, <1>3, <1>5, <1>6 DEF TP!Close, Mode, Running

\* The other steps leave the abstract pool as it is.
LEMMA QuietAbstract ==
  ASSUME \/ Quiet \/ \E f \in Fds : Receive(f)
  PROVE  UNCHANGED TP!poolVars
<1>1. UNCHANGED <<queueHead, worker, done, shutdown>> /\ (pool' = "freed" <=> pool = "freed")
  BY DEF Quiet, Receive, thePool, queue, crew
<1>2. Running' = Running /\ Mode' = Mode
  BY <1>1 DEF Running, Mode
<1>. QED  BY <1>1, <1>2 DEF TP!poolVars, Mode, Running

\* The pool of the chat server implements TaskPool, for any number of threads, clients
\* and messages: jobs start in the order of their messages, each once and on one thread,
\* none is added after poolDestroy has begun, and the pool is freed only when all of
\* them are over.
THEOREM ChatPoolImplementsTaskPool == Spec => ImplementsTaskPool
<1>1. Init => TP!Pool_Init
  <2>. SUFFICES ASSUME Init  PROVE TP!Pool_Init
    OBVIOUS
  <2>1. Mode = "open" /\ Running = {}
    BY DEF Init, Mode, Running
  <2>. QED  BY <2>1 DEF Init, TP!Pool_Init, Mode, Running
<1>2. ChatInv /\ [Next]_vars => [TP!Pool_Next]_(TP!poolVars)
  <2>. SUFFICES ASSUME ChatInv, [Next]_vars  PROVE [TP!Pool_Next]_(TP!poolVars)
    OBVIOUS
  <2>1. CASE Quiet \/ \E f \in Fds : Receive(f)
    BY <2>1, QuietAbstract
  <2>2. CASE AddJob
    BY <2>2, AddAbstract DEF TP!Pool_Next
  <2>3. ASSUME NEW w \in Threads, Take(w) \/ SentAll(w)  PROVE TP!Pool_Next
    BY <2>3, TakeAbstract, FinishAbstract DEF TP!Pool_Next
  <2>4. CASE SetShutdown
    BY <2>4, ShutAbstract DEF TP!Pool_Next
  <2>5. CASE DestroyFree
    BY <2>5, CloseAbstract DEF TP!Pool_Next
  <2>. QED  BY <2>1, <2>2, <2>3, <2>4, <2>5, QuietCases
<1>. QED  BY <1>1, <1>2, ChatInvariant, PTL DEF Spec, ImplementsTaskPool, TP!Pool_Spec

-----------------------------------------------------------------------------
(* Whom the broadcast of poolDestroy misses. *)

\* A thread between the lock and the wait, or the exit, holds queueLock.
LockInv == \A w \in Threads : pc[w] \in {"test", "sleep"} <=> queueLock = w

\* After the broadcast one thread at most sleeps or is about to.
OneMissed ==
  pc[Main] = "join" =>
    \A v, w \in Threads : pc[v] \in {"sleep", "wait"} /\ pc[w] \in {"sleep", "wait"} => v = w

\* A thread goes to sleep only while the flag is not set, so only the one that holds
\* queueLock at the broadcast can do so after it.
LEMMA MissedStep ==
  ChatInv /\ LockInv /\ OneMissed /\ [Next]_vars => LockInv' /\ OneMissed'
<1>. SUFFICES ASSUME ChatInv, LockInv, OneMissed, [Next]_vars  PROVE LockInv' /\ OneMissed'
  OBVIOUS
<1>1. /\ pc \in [Everyone -> MainPcs \cup ThreadPcs] /\ Main \notin Threads
      /\ shutdown <=> pc[Main] \in {"broadcast", "join", "end"}
      /\ pc[Main] = "none" => \A w \in Threads : pc[w] = "none"
      /\ Nothing \notin Threads /\ Everyone = Threads \cup {Main}
  BY ThreadsAssumption, NothingAssumption DEF ChatInv, PcInv, LifeInv, Everyone
<1>2. CASE poolInit
  BY <1>1, <1>2 DEF poolInit, LockInv, OneMissed
<1>3. ASSUME NEW ws \in SUBSET Threads, NEW where, ws \subseteq At("wait"), MainWakes(where, ws),
             UNCHANGED queueLock, where = "join" => ws = At("wait")
      PROVE  LockInv' /\ OneMissed'
  <2>1. /\ pc'[Main] = where
        /\ \A w \in Threads : pc'[w] = IF w \in ws THEN "lock" ELSE pc[w]
        /\ \A w \in ws : pc[w] = "wait"
    BY <1>1, <1>3 DEF MainWakes, At
  <2>2. LockInv'
    BY <1>3, <2>1 DEF LockInv
  <2>3. where = "join" => \A w \in Threads : pc'[w] \in {"sleep", "wait"} => queueLock = w
    BY <1>3, <2>1 DEF LockInv, At
  <2>. QED  BY <2>1, <2>2, <2>3 DEF OneMissed
<1>4. CASE AddSignal \/ DestroyBroadcast
  BY <1>3, <1>4 DEF AddSignal, DestroyBroadcast, Signalled, WokenAll, Signal, Broadcast, At, thePool
<1>5. ASSUME UNCHANGED <<queueLock, pc>> \/ \E p \in MainPcs : p # "join" /\ Goto(Main, p) /\ UNCHANGED queueLock
      PROVE  LockInv' /\ OneMissed'
  <2>1. \A w \in Threads : pc'[w] = pc[w]
    BY <1>1, <1>5 DEF Goto
  <2>2. pc'[Main] = "join" => pc[Main] = "join"
    BY <1>1, <1>5 DEF Goto
  <2>3. queueLock' = queueLock
    BY <1>5
  <2>. QED  BY <2>1, <2>2, <2>3 DEF LockInv, OneMissed
<1>6. CASE AddJob \/ SetShutdown \/ DestroyFree \/ UNCHANGED vars
  BY <1>5, <1>6 DEF AddJob, SetShutdown, DestroyFree, vars, thePool, MainPcs
<1>7. CASE AcceptFails \/ \E f \in Fds : Receive(f) \/ Leave(f) \/ OtherEvent(f) \/ Accept(f)
  BY <1>5, <1>7 DEF Receive, Leave, OtherEvent, Accept, AcceptFails, thePool, MainPcs
<1>8. ASSUME NEW w \in Threads, ThreadStep(w) \/ SpuriousWakeup(w), ~ Send(w)
      PROVE  LockInv' /\ OneMissed'
  <2>1. /\ \A v \in Threads : v # w => pc'[v] = pc[v]
        /\ pc'[Main] = pc[Main]
    BY <1>1, <1>8 DEF ThreadStep, SpuriousWakeup, Lock, Test, Sleep, Exit, Take, ReadArg, Copy, SentAll,
       Goto
  <2>2. \/ pc[w] = "lock" /\ pc'[w] = "test" /\ queueLock = Nothing /\ queueLock' = w
        \/ pc[w] = "test" /\ pc'[w] = "sleep" /\ ~ shutdown /\ queueLock' = queueLock
        \/ pc[w] = "sleep" /\ pc'[w] = "wait" /\ queueLock' = Nothing
        \/ pc[w] = "test" /\ pc'[w] \in {"exit", "read"} /\ queueLock' = Nothing
        \/ /\ pc[w] \in {"read", "copy", "send", "wait"} /\ pc'[w] \in {"copy", "send", "lock"}
           /\ queueLock' = queueLock
    BY <1>1, <1>8 DEF ThreadStep, SpuriousWakeup, Lock, Test, Sleep, Exit, Take, ReadArg, Copy, SentAll,
       Goto, thePool
  <2>3. LockInv'
    BY <1>1, <2>1, <2>2 DEF LockInv
  <2>4. pc'[w] \in {"sleep", "wait"} /\ pc[Main] = "join" => pc[w] \in {"sleep", "wait"}
    BY <1>1, <2>2
  <2>. QED  BY <2>1, <2>3, <2>4 DEF OneMissed
<1>9. ASSUME NEW w \in Threads, Send(w)  PROVE LockInv' /\ OneMissed'
  BY <1>5, <1>9 DEF Send, thePool
<1>. QED  BY <1>2, <1>4, <1>6, <1>7, <1>8, <1>9 DEF Next, PoolStep, LoopStep

\* poolDestroy sets shutdown without queueLock (line 61) and its broadcast may miss a
\* thread that has tested the flag and does not wait yet, but never a second one: this is
\* what DestroyReturns relies on.
THEOREM BroadcastMissesOneAtMost == Spec => []OneMissed
<1>1. Init => LockInv /\ OneMissed
  BY NothingAssumption, ThreadsAssumption DEF Init, LockInv, OneMissed
<1>. QED  BY <1>1, MissedStep, ChatInvariant, PTL DEF Spec

=============================================================================
