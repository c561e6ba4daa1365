-------------------------- MODULE Threadpool_proofs --------------------------
(***************************************************************************)
(* Proofs about Threadpool, for any number of workers, clients and tasks,  *)
(* any queue size and any set of library calls that may fail: the ring of  *)
(* tasks; the life of the pool, who may destroy it, what is allocated and  *)
(* which threads are alive; and the abstract pool it implements.           *)
(***************************************************************************)
EXTENDS Threadpool, TLAPS, FiniteSetTheorems, SequenceTheorems

-----------------------------------------------------------------------------
(* The ring *)

\* The ring holds tasks from head on, count of them, and tail is where they
\* end; a running worker holds a task.
RingInv ==
  /\ tail = Slot(count)
  /\ \A i \in 0..(count - 1) : queue[Slot(i)] \in Tasks
  /\ \A w \in Workers : pc[w] = "run" => task[w] \in Tasks

TypeInv == TypeOK /\ RingInv

\* Main is a client and no worker is one, and the two kinds of program counters
\* share only the worker's "lock".
LEMMA ThreadsDisjoint ==
  /\ Main \in Clients
  /\ Main \notin Workers
  /\ \A c \in Clients : c \notin Workers
  /\ \A c \in Destroyers : c \in Clients
BY ThreadsAssumption

\* The type invariant and the ring invariant hold initially.
LEMMA InitTypeInv == Init => TypeInv
BY ThreadsDisjoint, QueueSizeAssumption, TasksAssumption
   DEF Init, TypeInv, TypeOK, RingInv, Slot, Codes, WorkerPcs, ClientPcs, Blocks

\* The steps of threadpool_create leave the ring alone and keep the types.
LEMMA CreateTypeInv == TypeInv /\ CreateStep => TypeInv'
<1> SUFFICES ASSUME TypeInv, CreateStep PROVE TypeInv'
  OBVIOUS
<1> USE ThreadsDisjoint DEF TypeInv, TypeOK, RingInv, Slot, ring, history, Blocks,
        WorkerPcs, ClientPcs
<1>1. ASSUME NEW ok \in BOOLEAN, CreatePool(ok) PROVE TypeInv'
  BY <1>1 DEF CreatePool
<1>2. ASSUME NEW o \in InitOutcomes, CreateInit(o) PROVE TypeInv'
  BY <1>2 DEF CreateInit, InitOutcomes
<1>3. CASE CreateErr
  BY <1>3 DEF CreateErr
<1>4. ASSUME NEW w \in Workers, StartThread(w) PROVE TypeInv'
  <2>1. threads' \in Seq(Workers)
    BY <1>4, AppendProperties DEF StartThread
  <2>2. pc' = [pc EXCEPT ![w] = "lock", ![Main] = "count"]
    BY <1>4 DEF StartThread
  <2>3. /\ pc' \in [Workers \cup Clients -> WorkerPcs \cup ClientPcs]
        /\ \A v \in Workers : pc'[v] \in WorkerPcs /\ (pc'[v] = "run" => pc[v] = "run")
        /\ \A c \in Clients : pc'[c] \in ClientPcs
    BY <2>2
  <2> QED BY <1>4, <2>1, <2>3 DEF StartThread
<1>5. CASE CountThread
  BY <1>5 DEF CountThread
<1>6. CASE StartThreadFails
  BY <1>6 DEF StartThreadFails
<1>7. CASE CreateReturns
  BY <1>7 DEF CreateReturns
<1> QED
  BY <1>1, <1>2, <1>3, <1>4, <1>5, <1>6, <1>7 DEF CreateStep

\* The only step of threadpool_add that touches the ring writes a task where the
\* tasks end and moves the end by one.
LEMMA AddTypeInv ==
  ASSUME TypeInv, NEW x \in Clients \cup Workers, AddStep(x)
  PROVE  TypeInv'
<1> USE ThreadsDisjoint DEF TypeInv, TypeOK
<1>1. CASE AddLockFails(x)
  BY <1>1 DEF AddLockFails, Returns, RingInv, Slot, ring, create, history, Codes
<1>2. CASE AddRefused(x)
  BY <1>2 DEF AddRefused, AddUnlocks, Returns, RingInv, Slot, ring, create, history,
              Codes
<1>3. ASSUME NEW t \in Tasks, Add(x, t) PROVE TypeInv'
  <2>1. tail' = Following(tail) /\ count' = count + 1 /\ head' = head
        /\ queue' = [queue EXCEPT ![tail] = t] /\ count < QueueSize
    BY <1>3, QueueSizeAssumption DEF Add, Full
  <2>2. tail' \in 0..(QueueSize - 1) /\ count' \in 0..QueueSize
    BY <2>1, QueueSizeAssumption DEF Following
  <2>3. tail' = Slot(count)'
    BY <2>1, QueueSizeAssumption DEF Following, RingInv, Slot
  <2>4. \A i \in 0..(count' - 1) : (queue[Slot(i)])' \in Tasks
    <3> SUFFICES ASSUME NEW i \in 0..(count' - 1) PROVE (queue[Slot(i)])' \in Tasks
      OBVIOUS
    <3>1. Slot(i)' = Slot(i) /\ Slot(i) \in 0..(QueueSize - 1)
      BY <2>1, QueueSizeAssumption DEF Slot
    <3>2. CASE i = count
      BY <2>1, <3>1, <3>2 DEF RingInv
    <3>3. CASE i # count
      <4>1. i \in 0..(count - 1) /\ Slot(i) # tail
        BY <2>1, <3>3, QueueSizeAssumption DEF RingInv, Slot
      <4> QED BY <2>1, <3>1, <4>1 DEF RingInv
    <3> QED BY <3>2, <3>3
  <2>5. /\ pc' \in [Workers \cup Clients -> WorkerPcs \cup ClientPcs]
        /\ \A w \in Workers : pc'[w] \in WorkerPcs
        /\ \A c \in Clients : pc'[c] \in ClientPcs
        /\ \A w \in Workers : pc'[w] = "run" => pc[w] = "run"
    <3>1. PICK woken \in SUBSET Workers :
            pc' = [y \in DOMAIN pc |-> IF y \in woken THEN "lock" ELSE pc[y]]
      <4>1. CASE pc' = pc
        <5> WITNESS {} \in SUBSET Workers
        <5> QED BY <4>1
      <4>2. CASE \E woken \in WakeOne :
                   pc' = [y \in DOMAIN pc |-> IF y \in woken THEN "lock" ELSE pc[y]]
        <5>1. \A woken \in WakeOne : woken \in SUBSET Workers
          BY DEF WakeOne, Signal, At
        <5> QED BY <4>2, <5>1
      <4> QED BY <4>1, <4>2, <1>3 DEF Add
    <3> QED BY <3>1 DEF WorkerPcs, ClientPcs
  <2>6. lock' \in Clients \cup Workers \cup {NoThread} /\ ret' \in [Clients -> Codes]
    BY <1>3 DEF Add, AddUnlocks, Returns, Codes
  <2> QED
    BY <1>3, <2>1, <2>2, <2>3, <2>4, <2>5, <2>6 DEF Add, RingInv, create
<1> QED
  BY <1>1, <1>2, <1>3 DEF AddStep

\* The steps of threadpool_destroy leave the ring alone.
LEMMA DestroyTypeInv ==
  ASSUME TypeInv, NEW c \in Clients, CallOnNull(c) \/ ShutdownStep(c) \/ JoinStep(c)
  PROVE  TypeInv'
<1> USE ThreadsDisjoint DEF TypeInv, TypeOK, RingInv, Slot, ring, history, Returns,
        Codes, WorkerPcs, ClientPcs
<1>1. CASE CallOnNull(c)
  BY <1>1 DEF CallOnNull, create
<1>2. CASE DestroyLockFails(c)
  BY <1>2 DEF DestroyLockFails, create
<1>3. CASE DestroyAgain(c)
  BY <1>3 DEF DestroyAgain, create
<1>4. ASSUME NEW how \in {"immediate", "graceful"}, Destroy(c, how) PROVE TypeInv'
  <2>1. PICK failed \in {"", "broadcast", "unlock"} :
          /\ lock' = IF failed = "" THEN NoThread ELSE c
          /\ IF failed = "" THEN ret' = ret ELSE Returns(c, "lock_failure")
          /\ \E woken \in IF failed = "broadcast" THEN {{}} ELSE WakeAll :
               pc' = [y \in DOMAIN pc |->
                        IF y \in woken THEN "lock"
                        ELSE IF y = c THEN IF failed = "" THEN "join" ELSE "end"
                        ELSE pc[y]]
    BY <1>4 DEF Destroy
  <2>2. PICK woken \in SUBSET Workers :
               pc' = [y \in DOMAIN pc |->
                        IF y \in woken THEN "lock"
                        ELSE IF y = c THEN IF failed = "" THEN "join" ELSE "end"
                        ELSE pc[y]]
    <3>1. (IF failed = "broadcast" THEN {{}} ELSE WakeAll) \subseteq SUBSET Workers
      BY DEF WakeAll, Broadcast, At
    <3> HIDE DEF TypeInv
    <3> QED BY <2>1, <3>1, Zenon
  <2>3. /\ pc' \in [Workers \cup Clients -> WorkerPcs \cup ClientPcs]
        /\ \A v \in Workers : pc'[v] \in WorkerPcs /\ (pc'[v] = "run" => pc[v] = "run")
        /\ \A d \in Clients : pc'[d] \in ClientPcs
    BY <2>2
  <2>4. lock' \in Clients \cup Workers \cup {NoThread} /\ ret' \in [Clients -> Codes]
    BY <2>1
  <2> QED BY <1>4, <2>3, <2>4 DEF Destroy, create
<1>5. ASSUME NEW unjoined \in SUBSET (1..thread_count), Join(c, unjoined) PROVE TypeInv'
  BY ZenonT(30), <1>5 DEF Join, create
<1>6. CASE FreeArrays(c)
  BY ZenonT(30), <1>6 DEF FreeArrays
<1>7. CASE FreePool(c)
  BY <1>7 DEF FreePool
<1> QED
  BY <1>1, <1>2, <1>3, <1>4, <1>5, <1>6, <1>7 DEF ShutdownStep, JoinStep

\* A worker that grabs a task takes it from where the tasks begin and moves the
\* beginning by one.
LEMMA WorkerTypeInv ==
  ASSUME TypeInv, NEW w \in Workers, WorkerStep(w) \/ SpuriousWakeup(w)
  PROVE  TypeInv'
<1> USE ThreadsDisjoint DEF TypeInv, TypeOK
<1>1. CASE WorkerWait(w)
  BY <1>1 DEF WorkerWait, RingInv, Slot, ring, create, history, WorkerPcs
<1>2. CASE WorkerTake(w)
  <2>1. head' = Following(head) /\ count' = count - 1 /\ count # 0
        /\ queue' = queue /\ tail' = tail /\ task' = [task EXCEPT ![w] = queue[head]]
    BY <1>2 DEF WorkerTake
  <2>2. head' \in 0..(QueueSize - 1) /\ count' \in 0..QueueSize
    BY <2>1, QueueSizeAssumption DEF Following
  <2>3. queue[head] \in Tasks
    <3>1. 0 \in 0..(count - 1) /\ Slot(0) = head
      BY <2>1, QueueSizeAssumption DEF Slot
    <3> QED BY <3>1 DEF RingInv
  <2>4. tail' = Slot(count)'
    BY <2>1, QueueSizeAssumption DEF Following, RingInv, Slot
  <2>5. \A i \in 0..(count' - 1) : (queue[Slot(i)])' \in Tasks
    <3> SUFFICES ASSUME NEW i \in 0..(count' - 1) PROVE (queue[Slot(i)])' \in Tasks
      OBVIOUS
    <3>1. Slot(i)' = Slot(i + 1) /\ i + 1 \in 0..(count - 1)
      BY <2>1, QueueSizeAssumption DEF Following, Slot
    <3> QED BY <2>1, <3>1 DEF RingInv
  <2> QED
    BY <1>2, <2>1, <2>2, <2>3, <2>4, <2>5 DEF WorkerTake, RingInv, create, WorkerPcs
<1>3. CASE WorkerFinish(w)
  BY <1>3 DEF WorkerFinish, RingInv, Slot, ring, create, WorkerPcs
<1>4. CASE WorkerExit(w)
  BY <1>4 DEF WorkerExit, RingInv, Slot, ring, create, history, WorkerPcs
<1>5. CASE SpuriousWakeup(w)
  BY <1>5 DEF SpuriousWakeup, RingInv, Slot, ring, create, history, WorkerPcs
<1> QED
  BY <1>1, <1>2, <1>3, <1>4, <1>5 DEF WorkerStep

\* The type invariant with the ring invariant is inductive.
LEMMA NextTypeInv == TypeInv /\ [Next]_vars => TypeInv'
<1> SUFFICES ASSUME TypeInv, [Next]_vars PROVE TypeInv'
  OBVIOUS
<1>1. CASE UNCHANGED vars
  BY <1>1 DEF TypeInv, TypeOK, RingInv, Slot, vars, ring, create, history
<1>2. CASE Next
  BY <1>1, <1>2, CreateTypeInv, AddTypeInv, DestroyTypeInv, WorkerTypeInv
     DEF Next, Terminated
<1> QED
  BY <1>1, <1>2

\* Every variable of the pool keeps its type, however many threads, tasks and
\* slots there are and whichever calls fail; in particular count never leaves
\* 0..queue_size and the indices never leave the array.
THEOREM TypeCorrect == Spec => []TypeOK
<1>1. Spec => []TypeInv
  BY InitTypeInv, NextTypeInv, PTL DEF Spec
<1> QED
  BY <1>1, PTL DEF TypeInv

-----------------------------------------------------------------------------
(* The order of the tasks *)

PendingOK ==
  /\ Pending \in Seq(Tasks)
  /\ Len(Pending) = count
  /\ \A k \in 1..count : Pending[k] = queue[Slot(k - 1)]

\* What the ring holds is a sequence of count tasks.
LEMMA PendingType == TypeInv => PendingOK
<1> SUFFICES ASSUME TypeInv PROVE PendingOK
  OBVIOUS
<1>1. count \in Nat
  BY QueueSizeAssumption DEF TypeInv, TypeOK
<1>2. \A k \in 1..count : queue[Slot(k - 1)] \in Tasks
  BY <1>1 DEF TypeInv, RingInv
<1>3. Pending \in [1..count -> Tasks]
  BY <1>2 DEF Pending
<1>4. Pending \in Seq(Tasks)
  BY <1>1, <1>3, SeqDef
<1> QED
  BY <1>1, <1>3, <1>4, LenProperties DEF Pending, PendingOK

\* Queueing a task appends it to what the ring holds.
LEMMA AddPending ==
  ASSUME TypeInv, TypeInv', NEW x \in Clients \cup Workers, NEW t \in Tasks, Add(x, t)
  PROVE  Pending' = Append(Pending, t)
<1>1. /\ tail' = Following(tail) /\ count' = count + 1 /\ head' = head
      /\ queue' = [queue EXCEPT ![tail] = t] /\ count < QueueSize
  BY QueueSizeAssumption DEF Add, Full, TypeInv, TypeOK
<1>2. /\ Pending' \in Seq(Tasks) /\ Len(Pending') = count + 1
      /\ \A k \in 1..(count + 1) : Pending'[k] = queue'[Slot(k - 1)']
  <2>1. PendingOK'
    BY PendingType, PTL
  <2> QED BY <1>1, <2>1 DEF PendingOK
<1>3. /\ Append(Pending, t) \in Seq(Tasks) /\ Len(Append(Pending, t)) = count + 1
      /\ \A k \in 1..count : Append(Pending, t)[k] = queue[Slot(k - 1)]
      /\ Append(Pending, t)[count + 1] = t
  <2>1. count \in Nat
    BY QueueSizeAssumption DEF TypeInv, TypeOK
  <2> QED BY <2>1, PendingType, AppendProperties DEF PendingOK
<1>4. \A k \in 1..(count + 1) : Pending'[k] = Append(Pending, t)[k]
  <2> SUFFICES ASSUME NEW k \in 1..(count + 1) PROVE Pending'[k] = Append(Pending, t)[k]
    OBVIOUS
  <2>0. count \in Nat /\ head \in 0..(QueueSize - 1) /\ tail \in 0..(QueueSize - 1)
        /\ queue \in [0..(QueueSize - 1) -> Tasks \cup {NoTask}]
    BY QueueSizeAssumption DEF TypeInv, TypeOK
  <2>1. Slot(k - 1)' = Slot(k - 1) /\ Slot(k - 1) \in 0..(QueueSize - 1)
    BY <1>1, <2>0, QueueSizeAssumption DEF Slot
  <2>2. CASE k = count + 1
    <3>1. Slot(k - 1) = tail
      BY <2>0, <2>2 DEF TypeInv, RingInv
    <3> QED BY <1>1, <1>2, <1>3, <2>0, <2>1, <2>2, <3>1
  <2>3. CASE k # count + 1
    <3>1. k \in 1..count /\ Slot(k - 1) # tail
      BY <1>1, <2>0, <2>3, QueueSizeAssumption DEF TypeInv, RingInv, Slot
    <3> QED BY <1>1, <1>2, <1>3, <2>0, <2>1, <3>1
  <2> QED BY <2>2, <2>3
<1> QED
  BY <1>2, <1>3, <1>4, SeqEqual

\* Grabbing a task removes the oldest one the ring holds.
LEMMA TakePending ==
  ASSUME TypeInv, TypeInv', NEW w \in Workers, WorkerTake(w)
  PROVE  /\ Pending # <<>>
         /\ Head(Pending) = queue[head]
         /\ Pending' = Tail(Pending)
<1>0. count \in 0..QueueSize /\ head \in 0..(QueueSize - 1)
  BY QueueSizeAssumption DEF TypeInv, TypeOK
<1>1. head' = Following(head) /\ count' = count - 1 /\ count # 0 /\ queue' = queue
  BY DEF WorkerTake
<1>2. /\ Pending' \in Seq(Tasks) /\ Len(Pending') = count - 1
      /\ \A k \in 1..(count - 1) : Pending'[k] = queue[Slot(k - 1)']
  <2>1. PendingOK'
    BY PendingType, PTL
  <2> QED BY <1>1, <2>1 DEF PendingOK
<1>3. Pending # <<>> /\ Pending[1] = queue[head]
  BY <1>0, <1>1, PendingType, QueueSizeAssumption DEF Slot, PendingOK
<1>4. /\ Tail(Pending) \in Seq(Tasks) /\ Len(Tail(Pending)) = count - 1
      /\ \A k \in 1..(count - 1) : Tail(Pending)[k] = queue[Slot(k)]
  BY <1>0, <1>3, PendingType, HeadTailProperties DEF PendingOK
<1>5. \A k \in 1..(count - 1) : Slot(k - 1)' = Slot(k)
  BY <1>0, <1>1, QueueSizeAssumption DEF Slot, Following
<1> QED
  <2>1. \A k \in 1..Len(Pending') : Pending'[k] = Tail(Pending)[k]
    BY <1>2, <1>4, <1>5
  <2>2. Pending' = Tail(Pending)
    BY <1>2, <1>4, <2>1, SeqEqual
  <2>3. Head(Pending) = Pending[1]
    BY <1>3, PendingType DEF PendingOK
  <2> QED BY <1>3, <2>2, <2>3

\* Only threadpool_add and the workers that grab a task change the ring, the
\* submissions or the grabs.
LEMMA QuietSteps ==
  ASSUME [Next]_vars
  PROVE  \/ \E x \in Clients \cup Workers, t \in Tasks : Add(x, t)
         \/ \E w \in Workers : WorkerTake(w)
         \/ UNCHANGED <<ring, accepted, taken>>
<1>1. CASE UNCHANGED vars
  BY <1>1 DEF vars, history
<1>2. CASE CreateStep
  BY <1>2 DEF CreateStep, CreatePool, CreateInit, CreateErr, StartThread, CountThread,
              StartThreadFails, CreateReturns, history
<1>3. ASSUME NEW x \in Clients \cup Workers, AddStep(x),
             ~ \E t \in Tasks : Add(x, t)
      PROVE  UNCHANGED <<ring, accepted, taken>>
  BY <1>3 DEF AddStep, AddLockFails, AddRefused, history
<1>4. ASSUME NEW c \in Clients, CallOnNull(c) \/ ShutdownStep(c) \/ JoinStep(c)
      PROVE  UNCHANGED <<ring, accepted, taken>>
  BY <1>4 DEF CallOnNull, ShutdownStep, JoinStep, DestroyLockFails, DestroyAgain,
              Destroy, Join, FreeArrays, FreePool, history
<1>5. ASSUME NEW w \in Workers, WorkerStep(w) \/ SpuriousWakeup(w), ~ WorkerTake(w)
      PROVE  UNCHANGED <<ring, accepted, taken>>
  BY <1>5 DEF WorkerStep, WorkerWait, WorkerFinish, WorkerExit, SpuriousWakeup, history
<1> QED
  BY <1>1, <1>2, <1>3, <1>4, <1>5 DEF Next, Terminated

\* The order invariant is kept by every step.
LEMMA NextOrder == TypeInv /\ TypeInv' /\ TasksInOrder /\ [Next]_vars => TasksInOrder'
<1> SUFFICES ASSUME TypeInv, TypeInv', TasksInOrder, [Next]_vars PROVE TasksInOrder'
  OBVIOUS
<1>0. /\ Pending \in Seq(Tasks) /\ taken \in Seq(Tasks) /\ accepted \in Seq(Tasks)
      /\ accepted = taken \o Pending
  BY PendingType DEF TypeInv, TypeOK, TasksInOrder, PendingOK
<1>1. ASSUME NEW x \in Clients \cup Workers, NEW t \in Tasks, Add(x, t)
      PROVE  TasksInOrder'
  <2>1. accepted' = Append(accepted, t) /\ taken' = taken
    BY <1>1 DEF Add
  <2>2. Pending' = Append(Pending, t)
    BY <1>1, AddPending
  <2>3. Append(taken \o Pending, t) = taken \o Append(Pending, t)
    <3>1. <<t>> \in Seq(Tasks)
      OBVIOUS
    <3>2. Append(taken \o Pending, t) = (taken \o Pending) \o <<t>>
      BY <1>0, AppendIsConcat
    <3>3. Append(Pending, t) = Pending \o <<t>>
      BY <1>0, AppendIsConcat
    <3> QED BY <1>0, <3>1, <3>2, <3>3, ConcatAssociative
  <2> QED BY <1>0, <2>1, <2>2, <2>3 DEF TasksInOrder
<1>2. ASSUME NEW w \in Workers, WorkerTake(w) PROVE TasksInOrder'
  <2>1. taken' = Append(taken, queue[head]) /\ accepted' = accepted
    BY <1>2 DEF WorkerTake
  <2>2. Pending # <<>> /\ Head(Pending) = queue[head] /\ Pending' = Tail(Pending)
    BY <1>2, TakePending
  <2>3. Head(Pending) \in Tasks /\ Tail(Pending) \in Seq(Tasks)
    BY <1>0, <2>2, HeadTailProperties
  <2>4. taken \o Pending = Append(taken, Head(Pending)) \o Tail(Pending)
    <3>1. <<Head(Pending)>> \in Seq(Tasks)
      BY <2>3
    <3>2. Pending = <<Head(Pending)>> \o Tail(Pending)
      BY <1>0, <2>2, HeadTailProperties
    <3>3. Append(taken, Head(Pending)) = taken \o <<Head(Pending)>>
      BY <1>0, <2>3, AppendIsConcat
    <3> QED BY <1>0, <2>3, <3>1, <3>2, <3>3, ConcatAssociative
  <2> QED BY <1>0, <2>1, <2>2, <2>4 DEF TasksInOrder
<1>3. CASE UNCHANGED <<ring, accepted, taken>>
  BY <1>3 DEF TasksInOrder, Pending, Slot, ring
<1> QED
  BY <1>1, <1>2, <1>3, QuietSteps

\* The order invariant holds initially: nothing was submitted or grabbed.
LEMMA InitOrder == Init => TasksInOrder
<1> SUFFICES ASSUME Init PROVE TasksInOrder
  OBVIOUS
<1>1. Pending \in Seq(Tasks) /\ Len(Pending) = 0
  BY InitTypeInv, PendingType DEF Init, PendingOK
<1>2. Pending = <<>>
  BY <1>1, EmptySeq
<1> QED
  BY <1>2, ConcatEmptySeq DEF Init, TasksInOrder

\* The workers grab exactly the tasks threadpool_add queued, each once and in
\* that order, for any queue size, any number of threads, and whichever library
\* calls fail.
THEOREM FirstInFirstOut == Spec => []TasksInOrder
<1>1. Spec => []TypeInv
  BY InitTypeInv, NextTypeInv, PTL DEF Spec
<1>2. TypeInv /\ TasksInOrder /\ [Next]_vars => TasksInOrder'
  BY NextTypeInv, NextOrder
<1> QED
  BY <1>1, <1>2, InitOrder, PTL DEF Spec

-----------------------------------------------------------------------------
(* The life of the pool *)

\* The points of threadpool_create, and those of threadpool_destroy after the
\* shutdown has begun.
Creating == {"create", "init", "start", "count", "err", "abort"}

Destroying == {"join", "free", "free_lock"}

AllThere == heap = Blocks /\ inited = {"lock", "notify"}

\* Only Main creates; nobody else does anything before the pool is handed out;
\* nothing is shutting down until then; one thread at most destroys the pool,
\* and workers only leave after it began.
CallerInv ==
  /\ pc[Main] \in Creating => handle # "live" /\ shutdown = "no"
  /\ \A c \in Clients \ {Main} :
       pc[c] \notin Creating /\ (pc[c] # "idle" => handle = "live")
  /\ shutdown = "no" =>
       (\A c \in Clients : pc[c] \notin Destroying) /\ At("exit") = {}
  /\ \A c, d \in Clients : pc[c] \in Destroying /\ pc[d] \in Destroying => c = d

\* What is allocated at each point.
HeapInv ==
  /\ pc[Main] = "create" => heap = {}
  /\ pc[Main] = "init" => heap = {"pool"}
  /\ pc[Main] \in {"create", "init", "err"} => Born = {}
  /\ pc[Main] \in {"start", "count", "abort"} => AllThere
  /\ handle = "live" /\ shutdown = "no" => AllThere
  /\ \A c \in Clients : pc[c] \in {"join", "free"} => AllThere
  /\ \A c \in Clients : pc[c] = "free_lock" => heap = {"pool"}
  /\ \A c \in Clients : pc[c] \in {"free", "free_lock"} =>
       \A w \in Workers : pc[w] \in {"unborn", "exit"}
  /\ \A c \in Clients : pc[c] = "end" /\ ret[c] = "ok" =>
       heap = {} /\ inited = {} /\ shutdown # "no"
  /\ NoUseAfterFree

\* thread_count and started count the threads created and alive, up to the
\* thread Main has created and not counted yet.
CountInv ==
  /\ \A w \in Born : \E i \in 1..Len(threads) : threads[i] = w
  /\ Cardinality(Born) = Len(threads)
  /\ thread_count = IF pc[Main] = "count" THEN Len(threads) - 1 ELSE Len(threads)
  /\ started = thread_count - Cardinality(At("exit"))

LifeInv == TypeInv /\ CallerInv /\ HeapInv /\ CountInv

-----------------------------------------------------------------------------
\* The sets a call of signal or broadcast may wake consist of waiting workers.
LEMMA WokenAreWaiting ==
  /\ \A woken \in WakeOne : woken \subseteq At("wait")
  /\ \A woken \in WakeAll : woken \subseteq At("wait")
BY DEF WakeOne, WakeAll, Signal, Broadcast

\* A submission moves no thread except waiting workers, which it may wake.
LEMMA AddMoves ==
  ASSUME TypeInv, NEW x \in Clients \cup Workers, NEW t \in Tasks, Add(x, t)
  PROVE  /\ \A c \in Clients : pc'[c] = pc[c]
         /\ \A w \in Workers : pc'[w] = pc[w] \/ (pc[w] = "wait" /\ pc'[w] = "lock")
<1>1. CASE pc' = pc
  BY <1>1
<1>2. CASE \E woken \in WakeOne :
             pc' = [y \in DOMAIN pc |-> IF y \in woken THEN "lock" ELSE pc[y]]
  <2>1. PICK woken \in SUBSET At("wait") :
             pc' = [y \in DOMAIN pc |-> IF y \in woken THEN "lock" ELSE pc[y]]
    BY <1>2, WokenAreWaiting
  <2> QED BY <2>1, ThreadsDisjoint DEF At, TypeInv, TypeOK
<1> QED
  BY <1>1, <1>2 DEF Add

\* A shutdown moves its caller, to the joins when everything went well, and
\* waiting workers.
LEMMA DestroyMoves ==
  ASSUME TypeInv, NEW c \in Clients, NEW how \in {"immediate", "graceful"},
         Destroy(c, how)
  PROVE  /\ \A d \in Clients \ {c} : pc'[d] = pc[d]
         /\ \/ pc'[c] = "join" /\ ret' = ret
            \/ pc'[c] = "end" /\ ret' = [ret EXCEPT ![c] = "lock_failure"]
         /\ \A w \in Workers : pc'[w] = pc[w] \/ (pc[w] = "wait" /\ pc'[w] = "lock")
<1>1. PICK failed \in {"", "broadcast", "unlock"} :
        /\ IF failed = "" THEN ret' = ret ELSE Returns(c, "lock_failure")
        /\ \E woken \in IF failed = "broadcast" THEN {{}} ELSE WakeAll :
             pc' = [y \in DOMAIN pc |->
                      IF y \in woken THEN "lock"
                      ELSE IF y = c THEN IF failed = "" THEN "join" ELSE "end"
                      ELSE pc[y]]
  BY DEF Destroy
<1>2. PICK woken \in SUBSET At("wait") :
             pc' = [y \in DOMAIN pc |->
                      IF y \in woken THEN "lock"
                      ELSE IF y = c THEN IF failed = "" THEN "join" ELSE "end"
                      ELSE pc[y]]
  <2>1. (IF failed = "broadcast" THEN {{}} ELSE WakeAll) \subseteq SUBSET At("wait")
    BY WokenAreWaiting
  <2> QED BY <1>1, <2>1, Zenon
<1> QED
  BY <1>1, <1>2, ThreadsDisjoint DEF At, TypeInv, TypeOK, Returns

-----------------------------------------------------------------------------
(* The callers and the heap *)

\* The invariants hold initially.
LEMMA InitCallerHeap == Init => CallerInv /\ HeapInv
BY ThreadsDisjoint DEF Init, CallerInv, HeapInv, Creating, Destroying, At, Born,
   AllThere, NoUseAfterFree

\* They are kept by the steps of threadpool_create.
LEMMA CreateCallerHeap ==
  ASSUME TypeInv, CallerInv, HeapInv, CreateStep
  PROVE  CallerInv' /\ HeapInv'
<1> USE ThreadsDisjoint DEF CallerInv, HeapInv, Creating, Destroying, At, Born,
        AllThere, NoUseAfterFree, Blocks, TypeInv, TypeOK
<1>1. ASSUME NEW ok \in BOOLEAN, CreatePool(ok) PROVE CallerInv' /\ HeapInv'
  BY <1>1 DEF CreatePool
<1>2. ASSUME NEW o \in InitOutcomes, CreateInit(o) PROVE CallerInv' /\ HeapInv'
  BY <1>2 DEF CreateInit, InitOutcomes
<1>3. CASE CreateErr
  BY <1>3 DEF CreateErr
<1>4. ASSUME NEW w \in Workers, StartThread(w) PROVE CallerInv' /\ HeapInv'
  BY <1>4 DEF StartThread
<1>5. CASE CountThread
  BY <1>5 DEF CountThread
<1>6. CASE StartThreadFails
  BY <1>6 DEF StartThreadFails
<1>7. CASE CreateReturns
  BY <1>7 DEF CreateReturns
<1> QED
  BY <1>1, <1>2, <1>3, <1>4, <1>5, <1>6, <1>7 DEF CreateStep

\* They are kept by the submissions.
LEMMA AddCallerHeap ==
  ASSUME TypeInv, CallerInv, HeapInv, NEW x \in Clients \cup Workers, AddStep(x)
  PROVE  CallerInv' /\ HeapInv'
<1> USE ThreadsDisjoint DEF CallerInv, HeapInv, Creating, Destroying, At, Born,
        AllThere, NoUseAfterFree, Blocks, TypeInv, TypeOK
<1>1. CASE AddLockFails(x)
  BY <1>1 DEF AddLockFails, Returns, create, MayCall
<1>2. CASE AddRefused(x)
  BY <1>2 DEF AddRefused, AddUnlocks, Returns, create, MayCall
<1>3. ASSUME NEW t \in Tasks, Add(x, t) PROVE CallerInv' /\ HeapInv'
  <2>1. /\ \A c \in Clients : pc'[c] = pc[c]
        /\ \A w \in Workers : pc'[w] = pc[w] \/ (pc[w] = "wait" /\ pc'[w] = "lock")
    BY <1>3, AddMoves
  <2>2. UNCHANGED <<heap, inited, handle, shutdown>>
    BY <1>3 DEF Add, create
  <2>3. \A c \in Clients : pc[c] = "end" => ret'[c] = ret[c]
    BY <1>3 DEF Add, AddUnlocks, Returns, MayCall
  <2> QED BY SMTT(30), <2>1, <2>2, <2>3
<1> QED
  BY <1>1, <1>2, <1>3 DEF AddStep
\* They are kept by the steps of threadpool_destroy: only the caller that finds
\* shutdown unset goes on to the joins, and it frees nothing before they are over.
LEMMA DestroyCallerHeap ==
  ASSUME LifeInv, NEW c \in Clients, CallOnNull(c) \/ ShutdownStep(c) \/ JoinStep(c)
  PROVE  CallerInv' /\ HeapInv'
<1> USE ThreadsDisjoint DEF LifeInv, CallerInv, HeapInv, Creating, Destroying, At, Born,
        AllThere, NoUseAfterFree, Blocks, TypeInv, TypeOK
<1>1. CASE CallOnNull(c)
  BY <1>1 DEF CallOnNull, create, Returns
<1>2. CASE DestroyLockFails(c)
  BY <1>2 DEF DestroyLockFails, create, Returns, MayDestroy, MayCall
<1>3. CASE DestroyAgain(c)
  BY <1>3 DEF DestroyAgain, create, Returns, MayDestroy, MayCall
<1>4. ASSUME NEW how \in {"immediate", "graceful"}, Destroy(c, how)
      PROVE  CallerInv' /\ HeapInv'
  <2>1. /\ \A d \in Clients \ {c} : pc'[d] = pc[d]
        /\ \/ pc'[c] = "join" /\ ret' = ret
           \/ pc'[c] = "end" /\ ret' = [ret EXCEPT ![c] = "lock_failure"]
        /\ \A w \in Workers : pc'[w] = pc[w] \/ (pc[w] = "wait" /\ pc'[w] = "lock")
    BY <1>4, DestroyMoves
  <2>2. UNCHANGED <<heap, inited, handle>> /\ shutdown = "no" /\ shutdown' = how
    BY <1>4 DEF Destroy, create
  <2>3. \/ pc[c] = "idle" /\ handle = "live"
        \/ pc[c] = "abort" /\ c = Main
    BY <1>4 DEF Destroy, MayDestroy, MayCall
  <2> HIDE DEF TypeInv
  <2>4. CallerInv'
    BY <2>1, <2>2, <2>3
  <2>5. HeapInv'
    BY <2>1, <2>2, <2>3 DEF TypeInv
  <2> QED BY <2>4, <2>5
<1>5. ASSUME NEW unjoined \in SUBSET (1..thread_count), Join(c, unjoined)
      PROVE  CallerInv' /\ HeapInv'
  <2>0. /\ UNCHANGED <<heap, inited, handle, shutdown>>
        /\ pc[c] = "join"
        /\ \A x \in (Clients \cup Workers) \ {c} : pc'[x] = pc[x]
    BY <1>5 DEF Join, create
  <2>1. CASE unjoined = {}
    <3>1. pc[Main] # "count" /\ thread_count = Len(threads)
      BY <1>5 DEF Join, CountInv
    <3>2. \A w \in Workers : pc[w] \in {"unborn", "exit"}
      BY <1>5, <2>1, <3>1 DEF Join, Joined, CountInv
    <3>3. pc'[c] = "free" /\ ret' = ret
      BY <1>5, <2>1 DEF Join
    <3> HIDE DEF TypeInv
    <3>4. CallerInv'
      BY <2>0, <3>3
    <3>5. HeapInv'
      BY <2>0, <3>2, <3>3
    <3> QED BY <3>4, <3>5
  <2>2. CASE unjoined # {}
    <3>1. pc'[c] = "end" /\ ret' = [ret EXCEPT ![c] = "thread_failure"]
      BY <1>5, <2>2 DEF Join, Returns
    <3>2. CallerInv'
      BY <2>0, <3>1
    <3>3. HeapInv'
      BY ZenonT(30), <2>0, <3>1
    <3> QED BY <3>2, <3>3
  <2> QED BY <2>1, <2>2
<1>6. CASE FreeArrays(c)
  <2>1. pc[Main] # "count"
    BY <1>6 DEF FreeArrays
  <2>2. Born = At("exit")
    BY <1>6 DEF FreeArrays, WorkerPcs
  <2>3. Cardinality(Born) \in Nat
    BY ThreadsAssumption, FS_Subset, FS_CardinalityType
  <2>4. started = 0
    <3> HIDE DEF Born, At, TypeInv, CallerInv, HeapInv
    <3> QED BY <2>1, <2>2, <2>3 DEF CountInv
  <2>5. /\ UNCHANGED <<inited, handle, shutdown, ret>>
        /\ heap' = heap \ {"threads", "queue"}
        /\ pc[c] = "free" /\ pc'[c] = "free_lock"
        /\ \A x \in (Clients \cup Workers) \ {c} : pc'[x] = pc[x]
    BY <1>6, <2>4 DEF FreeArrays
  <2> HIDE DEF TypeInv
  <2>6. CallerInv'
    BY <2>5
  <2>7. HeapInv'
    BY <2>5
  <2> QED BY <2>6, <2>7
<1>7. CASE FreePool(c)
  BY <1>7 DEF FreePool, Returns
<1> QED
  BY <1>1, <1>2, <1>3, <1>4, <1>5, <1>6, <1>7 DEF ShutdownStep, JoinStep

\* They are kept by the workers.
LEMMA WorkerCallerHeap ==
  ASSUME TypeInv, CallerInv, HeapInv, NEW w \in Workers,
         WorkerStep(w) \/ SpuriousWakeup(w)
  PROVE  CallerInv' /\ HeapInv'
<1> USE ThreadsDisjoint DEF CallerInv, HeapInv, Creating, Destroying, At, Born,
        AllThere, NoUseAfterFree, Blocks, TypeInv, TypeOK
<1>1. CASE WorkerWait(w)
  BY <1>1 DEF WorkerWait, create
<1>2. CASE WorkerTake(w)
  BY <1>2 DEF WorkerTake, create
<1>3. CASE WorkerFinish(w)
  BY <1>3 DEF WorkerFinish, create
<1>4. CASE WorkerExit(w)
  BY <1>4 DEF WorkerExit, create, MustStop
<1>5. CASE SpuriousWakeup(w)
  BY <1>5 DEF SpuriousWakeup, create
<1> QED
  BY <1>1, <1>2, <1>3, <1>4, <1>5 DEF WorkerStep

-----------------------------------------------------------------------------
(* The counts of threads *)

\* The sets of workers the counts are about are finite.
LEMMA FiniteWorkers ==
  \A S \in SUBSET Workers : IsFiniteSet(S) /\ Cardinality(S) \in Nat
BY ThreadsAssumption, FS_Subset, FS_CardinalityType

\* The counts are right initially: there is no thread.
LEMMA InitCount == Init => CountInv
<1> SUFFICES ASSUME Init PROVE CountInv
  OBVIOUS
<1>1. Born = {} /\ At("exit") = {}
  BY DEF Init, Born, At
<1> QED
  <2>1. pc[Main] = "create" /\ Len(threads) = 0 /\ thread_count = 0 /\ started = 0
    BY ThreadsDisjoint DEF Init
  <2>2. Cardinality(Born) = 0 /\ Cardinality(At("exit")) = 0
    BY <1>1, FS_EmptySet, Zenon
  <2> QED BY <1>1, <2>1, <2>2 DEF CountInv

\* A step that neither creates nor counts nor ends a thread.
CountsKept ==
  /\ Born' = Born
  /\ At("exit")' = At("exit")
  /\ pc'[Main] = "count" <=> pc[Main] = "count"
  /\ UNCHANGED <<threads, thread_count, started>>

\* Most steps are of this kind.
LEMMA MostStepsKeepCounts ==
  ASSUME TypeInv, [Next]_vars,
         ~ CountThread,
         \A w \in Workers : ~ StartThread(w) /\ ~ WorkerExit(w)
  PROVE  CountsKept
<1> USE ThreadsDisjoint DEF CountsKept, Born, At
<1>1. CASE UNCHANGED vars
  BY <1>1 DEF vars, create
<1>2. CASE CreateStep
  BY <1>2 DEF TypeInv, TypeOK, CreateStep, CreatePool, CreateInit, CreateErr, StartThreadFails,
     CreateReturns
<1>3. ASSUME NEW x \in Clients \cup Workers, AddStep(x) PROVE CountsKept
  <2>1. CASE AddLockFails(x) \/ AddRefused(x)
    BY <2>1 DEF AddLockFails, AddRefused, create
  <2>2. ASSUME NEW t \in Tasks, Add(x, t) PROVE CountsKept
    <3>1. UNCHANGED <<threads, thread_count, started>>
      BY <2>2 DEF Add, create
    <3> QED BY <2>2, <3>1, AddMoves
  <2> QED BY <1>3, <2>1, <2>2 DEF AddStep
<1>4. ASSUME NEW c \in Clients, CallOnNull(c) \/ ShutdownStep(c) \/ JoinStep(c)
      PROVE  CountsKept
  <2>1. ASSUME NEW how \in {"immediate", "graceful"}, Destroy(c, how) PROVE CountsKept
    <3>1. UNCHANGED <<threads, thread_count, started>>
      BY <2>1 DEF Destroy, create
    <3>2. pc[c] # "count"
      BY <2>1 DEF Destroy, MayDestroy
    <3> QED BY <2>1, <3>1, <3>2, DestroyMoves
  <2>2. CASE CallOnNull(c)
    BY <2>2 DEF CallOnNull, create
  <2>3. CASE DestroyLockFails(c) \/ DestroyAgain(c)
    BY <2>3 DEF DestroyLockFails, DestroyAgain, create, MayDestroy, MayCall, TypeInv, TypeOK
  <2>4. CASE JoinStep(c)
    BY <2>4 DEF JoinStep, Join, FreeArrays, FreePool, create, TypeInv, TypeOK
  <2> QED BY <1>4, <2>1, <2>2, <2>3, <2>4 DEF ShutdownStep
<1>5. ASSUME NEW w \in Workers, WorkerStep(w) \/ SpuriousWakeup(w) PROVE CountsKept
  BY <1>5 DEF WorkerStep, WorkerWait, WorkerTake, WorkerFinish, SpuriousWakeup, create,
     TypeInv, TypeOK
<1> QED
  BY <1>1, <1>2, <1>3, <1>4, <1>5 DEF Next, Terminated
\* The counts are kept: a thread is counted once, after it was created, and
\* discounted once, when it leaves.
LEMMA NextCount == LifeInv /\ [Next]_vars => CountInv'
<1> SUFFICES ASSUME LifeInv, [Next]_vars PROVE CountInv'
  OBVIOUS
<1> USE DEF LifeInv
<1>0. /\ Born \in SUBSET Workers /\ At("exit") \in SUBSET Workers
      /\ threads \in Seq(Workers) /\ thread_count \in Nat /\ started \in Int
      /\ pc \in [Workers \cup Clients -> WorkerPcs \cup ClientPcs]
  BY DEF Born, At, TypeInv, TypeOK
<1>1. ASSUME NEW w \in Workers, StartThread(w) PROVE CountInv'
  <2>1. /\ pc[Main] = "start" /\ pc'[Main] = "count" /\ w \notin Born
        /\ threads' = Append(threads, w) /\ UNCHANGED <<thread_count, started>>
        /\ Born' = Born \cup {w} /\ At("exit")' = At("exit")
    BY <1>0, <1>1, ThreadsDisjoint DEF StartThread, Born, At
  <2>2. Cardinality(Born') = Cardinality(Born) + 1
    BY <1>0, <2>1, FiniteWorkers, FS_AddElement
  <2>3. /\ Len(threads') = Len(threads) + 1 /\ Len(threads) \in Nat
        /\ \A i \in 1..Len(threads) : threads'[i] = threads[i]
        /\ threads'[Len(threads) + 1] = w
    BY <1>0, <2>1, AppendProperties, LenProperties
  <2>4. \A v \in Born' : \E i \in 1..Len(threads') : threads'[i] = v
    <3> SUFFICES ASSUME NEW v \in Born' PROVE \E i \in 1..Len(threads') : threads'[i] = v
      OBVIOUS
    <3>1. CASE v = w
      BY <2>3, <3>1
    <3>2. CASE v \in Born
      BY <2>3, <3>2 DEF CountInv
    <3> QED BY <2>1, <3>1, <3>2
  <2> QED BY <2>1, <2>2, <2>3, <2>4 DEF CountInv
<1>2. CASE CountThread
  <2>1. /\ pc[Main] = "count" /\ pc'[Main] = "start" /\ threads' = threads
        /\ thread_count' = thread_count + 1 /\ started' = started + 1
        /\ Born' = Born /\ At("exit")' = At("exit")
    BY <1>0, <1>2, ThreadsDisjoint DEF CountThread, Born, At
  <2>2. Len(threads) \in Nat /\ Cardinality(At("exit")) \in Nat
    BY <1>0, FiniteWorkers, LenProperties
  <2> QED BY <1>0, <2>1, <2>2 DEF CountInv
<1>3. ASSUME NEW w \in Workers, WorkerExit(w) PROVE CountInv'
  <2>1. /\ pc'[Main] = pc[Main] /\ UNCHANGED <<threads, thread_count>>
        /\ started' = started - 1 /\ w \notin At("exit")
        /\ Born' = Born /\ At("exit")' = At("exit") \cup {w}
    BY <1>0, <1>3, ThreadsDisjoint DEF WorkerExit, Born, At, create
  <2>2. Cardinality(At("exit")') = Cardinality(At("exit")) + 1
    BY <1>0, <2>1, FiniteWorkers, FS_AddElement
  <2>3. Cardinality(At("exit")) \in Nat
    BY <1>0, FiniteWorkers
  <2> QED BY SMTT(30), <1>0, <2>1, <2>2, <2>3 DEF CountInv
<1>4. CASE CountsKept
  BY <1>4 DEF CountsKept, CountInv
<1> QED
  BY <1>1, <1>2, <1>3, <1>4, MostStepsKeepCounts

\* The life invariant is inductive.
LEMMA NextLife == LifeInv /\ [Next]_vars => LifeInv'
<1> SUFFICES ASSUME LifeInv, [Next]_vars PROVE LifeInv'
  OBVIOUS
<1>1. TypeInv' /\ CountInv'
  BY NextTypeInv, NextCount DEF LifeInv
<1>2. CASE UNCHANGED vars
  BY <1>1, <1>2 DEF LifeInv, vars, create, CallerInv, HeapInv, At, Born, AllThere,
     NoUseAfterFree
<1>3. CASE Next
  <2>1. CASE CreateStep
    BY <2>1, CreateCallerHeap, <1>1 DEF LifeInv
  <2>2. CASE \E x \in Clients \cup Workers : AddStep(x)
    BY <2>2, AddCallerHeap, <1>1 DEF LifeInv
  <2>3. CASE \E c \in Clients : CallOnNull(c) \/ ShutdownStep(c) \/ JoinStep(c)
    BY <2>3, DestroyCallerHeap, <1>1 DEF LifeInv
  <2>4. CASE \E w \in Workers : WorkerStep(w) \/ SpuriousWakeup(w)
    BY <2>4, WorkerCallerHeap, <1>1 DEF LifeInv
  <2>5. CASE Terminated
    BY <1>2, <2>5 DEF Terminated
  <2> QED BY <1>3, <2>1, <2>2, <2>3, <2>4, <2>5 DEF Next
<1> QED
  BY <1>2, <1>3

\* The life invariant holds throughout.
LEMMA Life == Spec => []LifeInv
<1>1. Init => LifeInv
  BY InitTypeInv, InitCallerHeap, InitCount DEF LifeInv
<1> QED
  BY <1>1, NextLife, PTL DEF Spec

\* No worker ever reaches into freed memory or uses a mutex that is not
\* initialised, whichever library calls fail, during creation, shutdown or
\* aborted creation.
THEOREM WorkersNeverSeeFreedPool == Spec => []NoUseAfterFree
<1>1. LifeInv => NoUseAfterFree
  BY DEF LifeInv, HeapInv
<1> QED
  BY <1>1, Life, PTL

\* When threadpool_destroy reports success nothing of the pool is left: the count
\* of started threads is exact when threadpool_free looks at it.
THEOREM SuccessfulDestroyFreesAll == Spec => []DestroyFrees
<1>1. LifeInv => DestroyFrees
  BY DEF LifeInv, HeapInv, DestroyFrees
<1> QED
  BY <1>1, Life, PTL

\* The pool is torn down by one thread at most.
THEOREM PoolDestroyedOnce == Spec => []OneDestroyer
<1>1. LifeInv => OneDestroyer
  BY DEF LifeInv, HeapInv, CallerInv, OneDestroyer, Destroying, AllThere, Blocks
<1> QED
  BY <1>1, Life, PTL
-----------------------------------------------------------------------------
(* Wakeups *)

\* Nobody sleeps once the shutdown has begun, and until then every queued task
\* has a worker on its way to the queue.
WakeInv ==
  /\ shutdown # "no" => At("wait") = {}
  /\ WakeupsCoverQueue

\* The signal of threadpool_add wakes one waiting worker if there is one.
LEMMA AddWakes ==
  ASSUME TypeInv, "signal" \notin Faults,
         NEW x \in Clients \cup Workers, NEW t \in Tasks, Add(x, t)
  PROVE  \/ At("wait") = {} /\ pc' = pc
         \/ \E w \in At("wait") : pc' = [pc EXCEPT ![w] = "lock"]
<1>1. PICK woken \in WakeOne :
        pc' = [y \in DOMAIN pc |-> IF y \in woken THEN "lock" ELSE pc[y]]
  BY DEF Add
<1>2. CASE At("wait") = {}
  BY <1>1, <1>2 DEF WakeOne, Signal, TypeInv, TypeOK
<1>3. CASE At("wait") # {}
  <2>1. PICK w \in At("wait") : woken = {w}
    BY <1>3 DEF WakeOne, Signal
  <2>2. pc' = [pc EXCEPT ![w] = "lock"]
    BY <1>1, <2>1 DEF TypeInv, TypeOK
  <2> QED BY <2>2
<1> QED
  BY <1>2, <1>3

\* A worker that starts waiting finds the queue empty.  A submission adds a task
\* and, when somebody waits, an awake worker.  A grab removes one of each.
LEMMA NextWake ==
  ASSUME TypeInv, WakeInv, [Next]_vars, {"signal", "broadcast"} \cap Faults = {}
  PROVE  WakeInv'
<1> USE ThreadsDisjoint DEF WakeInv, WakeupsCoverQueue
<1>0. /\ pc \in [Workers \cup Clients -> WorkerPcs \cup ClientPcs]
      /\ count \in Nat
      /\ At("lock") \in SUBSET Workers /\ Cardinality(At("lock")) \in Nat
      /\ IsFiniteSet(At("lock"))
  BY FiniteWorkers, QueueSizeAssumption DEF At, TypeInv, TypeOK
<1>a. ASSUME At("wait")' = At("wait"), At("lock")' = At("lock"),
             UNCHANGED <<count, shutdown>>
      PROVE  WakeInv'
  BY <1>a
<1>b. ASSUME NEW w \in Workers, pc[w] # "lock", At("lock")' = At("lock") \cup {w},
             At("wait")' \subseteq At("wait"), UNCHANGED <<count, shutdown>>
      PROVE  WakeInv'
  <2>1. Cardinality(At("lock")') = Cardinality(At("lock")) + 1
    BY <1>0, <1>b, FS_AddElement DEF At
  <2> HIDE DEF At
  <2> QED BY <1>0, <1>b, <2>1
<1>1. CASE UNCHANGED vars
  BY <1>1, <1>a DEF vars, ring, At
<1>2. CASE CreateStep
  <2>1. ASSUME NEW w \in Workers, StartThread(w) PROVE WakeInv'
    BY <1>0, <1>b, <2>1 DEF StartThread, At, ring
  <2>2. CASE ~ \E w \in Workers : StartThread(w)
    <3>1. At("wait")' = At("wait") /\ At("lock")' = At("lock")
      BY <1>0, <1>2, <2>2 DEF CreateStep, CreatePool, CreateInit, CreateErr, CountThread,
         StartThreadFails, CreateReturns, At
    <3>2. UNCHANGED <<count, shutdown>>
      BY <1>2, <2>2 DEF CreateStep, CreatePool, CreateInit, CreateErr, CountThread,
         StartThreadFails, CreateReturns, ring
    <3> QED BY <1>a, <3>1, <3>2
  <2> QED BY <2>1, <2>2
<1>3. ASSUME NEW x \in Clients \cup Workers, AddStep(x) PROVE WakeInv'
  <2>1. CASE AddLockFails(x) \/ AddRefused(x)
    BY <1>a, <2>1 DEF AddLockFails, AddRefused, ring, At
  <2>2. ASSUME NEW t \in Tasks, Add(x, t) PROVE WakeInv'
    <3>1. shutdown = "no" /\ shutdown' = "no" /\ count' = count + 1
      BY <2>2 DEF Add
    <3>2. CASE At("wait") = {} /\ pc' = pc
      BY <3>1, <3>2 DEF At
    <3>3. ASSUME NEW w \in At("wait"), pc' = [pc EXCEPT ![w] = "lock"] PROVE WakeInv'
      <4>1. At("lock")' = At("lock") \cup {w} /\ w \notin At("lock") /\ At("wait") # {}
        BY <1>0, <3>3 DEF At
      <4>2. Cardinality(At("lock")') = Cardinality(At("lock")) + 1
        BY <1>0, <4>1, FS_AddElement
      <4> QED BY <1>0, <3>1, <4>1, <4>2
    <3> QED BY <2>2, <3>2, <3>3, AddWakes
  <2> QED BY <1>3, <2>1, <2>2 DEF AddStep
<1>4. ASSUME NEW c \in Clients, CallOnNull(c) \/ ShutdownStep(c) \/ JoinStep(c)
      PROVE  WakeInv'
  <2>1. ASSUME NEW how \in {"immediate", "graceful"}, Destroy(c, how) PROVE WakeInv'
    <3>1. PICK woken \in WakeAll, q \in {"join", "end"} :
            pc' = [y \in DOMAIN pc |->
                     IF y \in woken THEN "lock" ELSE IF y = c THEN q ELSE pc[y]]
      BY <2>1 DEF Destroy
    <3>2. At("wait")' = {}
      BY <1>0, <3>1 DEF WakeAll, Broadcast, At
    <3> QED BY <3>2
  <2>2. CASE CallOnNull(c)
    BY <1>a, <2>2 DEF CallOnNull, ring, At
  <2>3. CASE DestroyLockFails(c) \/ DestroyAgain(c)
    BY <1>0, <1>a, <2>3 DEF DestroyLockFails, DestroyAgain, ring, At
  <2>4. CASE JoinStep(c)
    BY <1>0, <1>a, <2>4 DEF JoinStep, Join, FreeArrays, FreePool, ring, At
  <2> QED BY <1>4, <2>1, <2>2, <2>3, <2>4 DEF ShutdownStep
<1>5. ASSUME NEW w \in Workers, WorkerStep(w) \/ SpuriousWakeup(w) PROVE WakeInv'
  <2>1. CASE WorkerWait(w)
    <3>1. count' = 0 /\ shutdown' = "no"
      BY <2>1 DEF WorkerWait, ring
    <3>2. Cardinality(At("lock")') \in Nat
      <4>1. At("lock")' \in SUBSET Workers
        BY DEF At
      <4> QED BY <4>1, FiniteWorkers
    <3> QED BY <3>1, <3>2
  <2>2. CASE WorkerTake(w)
    <3>1. /\ count' = count - 1 /\ count # 0 /\ shutdown' = shutdown
          /\ At("lock")' = At("lock") \ {w} /\ w \in At("lock")
          /\ At("wait")' = At("wait")
      BY <1>0, <2>2 DEF WorkerTake, At
    <3>2. Cardinality(At("lock")') = Cardinality(At("lock")) - 1
      BY <1>0, <3>1, FS_RemoveElement
    <3> QED BY <1>0, <3>1, <3>2
  <2>3. CASE WorkerFinish(w)
    BY <1>0, <1>b, <2>3 DEF WorkerFinish, At, ring
  <2>4. CASE WorkerExit(w)
    <3>1. shutdown # "no" /\ shutdown' = shutdown
      BY <2>4 DEF WorkerExit, MustStop
    <3>2. At("wait")' = {}
      BY <1>0, <2>4, <3>1 DEF WorkerExit, At
    <3> QED BY <3>2
  <2>5. CASE SpuriousWakeup(w)
    BY <1>0, <1>b, <2>5 DEF SpuriousWakeup, At, ring
  <2> QED BY <1>5, <2>1, <2>2, <2>3, <2>4, <2>5 DEF WorkerStep
<1> QED
  BY <1>1, <1>2, <1>3, <1>4, <1>5 DEF Next, Terminated

\* If signal and broadcast do not fail, no wakeup is lost, for any number of
\* workers and submitters: a worker sleeps only while the tasks in the queue are
\* covered by workers that are awake.
THEOREM NoLostWakeup ==
  ASSUME {"signal", "broadcast"} \cap Faults = {}
  PROVE  Spec => []WakeupsCoverQueue
<1>1. Init => WakeInv
  BY DEF Init, WakeInv, WakeupsCoverQueue, At
<1>2. TypeInv /\ WakeInv /\ [Next]_vars => WakeInv'
  BY NextWake
<1>3. WakeInv => WakeupsCoverQueue
  BY DEF WakeInv
<1>4. Spec => []TypeInv
  BY InitTypeInv, NextTypeInv, PTL DEF Spec
<1> QED
  BY <1>1, <1>2, <1>3, <1>4, PTL DEF Spec

-----------------------------------------------------------------------------
(* The abstract pool *)

\* What the histories say of the tasks: none was submitted twice, those that ran or
\* run were grabbed, and no two workers run the same one.
HistoryInv ==
  /\ \A i, k \in DOMAIN accepted : accepted[i] = accepted[k] => i = k
  /\ \A t \in done : \E k \in DOMAIN taken : taken[k] = t
  /\ \A w \in At("run") : \E k \in DOMAIN taken : taken[k] = task[w]
  /\ \A v, w \in At("run") : task[v] = task[w] => v = w

\* A graceful shutdown is one of a pool all of whose threads were started, and
\* they leave only when the queue is empty.
DrainInv ==
  /\ handle = "live" => At("unborn") = {}
  /\ shutdown = "graceful" => handle = "live"
  /\ shutdown = "graceful" /\ At("exit") # {} => count = 0

\* What the abstract pool sees of the workers and of the shutdown.
Running == {task[w] : w \in At("run")}

Mode == IF shutdown # "no" /\ "pool" \notin heap THEN "closed"
        ELSE IF shutdown = "no" THEN "open" ELSE shutdown

\* A step that the abstract pool cannot see.
Invisible ==
  /\ UNCHANGED <<ring, shutdown, task, history>>
  /\ \A w \in Workers : pc'[w] = "run" <=> pc[w] = "run"
  /\ shutdown # "no" => ("pool" \in heap' <=> "pool" \in heap)

\* The abstract pool sees submissions, grabs, the ends of tasks, the start of the
\* shutdown and the free of the pool; the other steps of threadpool.c it does not.
LEMMA VisibleSteps ==
  ASSUME LifeInv, [Next]_vars
  PROVE  \/ \E x \in Clients \cup Workers, t \in Tasks : Add(x, t)
         \/ \E w \in Workers : WorkerTake(w) \/ WorkerFinish(w)
         \/ \E c \in Clients, how \in {"immediate", "graceful"} : Destroy(c, how)
         \/ \E c \in Clients : FreePool(c)
         \/ Invisible
<1>0. /\ pc \in [Workers \cup Clients -> WorkerPcs \cup ClientPcs]
      /\ pc[Main] \in Creating => shutdown = "no"
  BY DEF LifeInv, TypeInv, TypeOK, CallerInv
<1> USE ThreadsDisjoint
<1>1. CASE UNCHANGED vars
  BY <1>1 DEF vars, create, Invisible
<1>2. CASE CreateStep
  <2>1. shutdown = "no" /\ UNCHANGED <<ring, shutdown, task, history>>
    BY <1>0, <1>2 DEF CreateStep, CreatePool, CreateInit, CreateErr, StartThread, CountThread,
       StartThreadFails, CreateReturns, Creating
  <2>2. \A w \in Workers : pc'[w] = "run" <=> pc[w] = "run"
    BY <1>0, <1>2 DEF CreateStep, CreatePool, CreateInit, CreateErr, StartThread, CountThread,
       StartThreadFails, CreateReturns
  <2> QED BY <2>1, <2>2 DEF Invisible
<1>3. ASSUME NEW x \in Clients \cup Workers, AddStep(x), ~ \E t \in Tasks : Add(x, t)
      PROVE  Invisible
  BY <1>3 DEF AddStep, AddLockFails, AddRefused, create, Invisible
<1>4. ASSUME NEW c \in Clients, CallOnNull(c) \/ ShutdownStep(c) \/ JoinStep(c),
             ~ FreePool(c), ~ \E how \in {"immediate", "graceful"} : Destroy(c, how)
      PROVE  Invisible
  <2>1. UNCHANGED <<ring, shutdown, task, history>>
    BY <1>4 DEF CallOnNull, ShutdownStep, JoinStep, DestroyLockFails, DestroyAgain, Join,
       FreeArrays
  <2>2. \A w \in Workers : pc'[w] = pc[w]
    BY <1>0, <1>4 DEF CallOnNull, ShutdownStep, JoinStep, DestroyLockFails, DestroyAgain,
       Join, FreeArrays
  <2>3. "pool" \in heap' <=> "pool" \in heap
    BY <1>4 DEF CallOnNull, ShutdownStep, JoinStep, DestroyLockFails, DestroyAgain, Join,
       FreeArrays, create
  <2> QED BY <2>1, <2>2, <2>3 DEF Invisible
<1>5. ASSUME NEW w \in Workers, WorkerStep(w) \/ SpuriousWakeup(w),
             ~ WorkerTake(w), ~ WorkerFinish(w)
      PROVE  Invisible
  BY <1>0, <1>5 DEF WorkerStep, WorkerWait, WorkerExit, SpuriousWakeup, create, Invisible
<1> QED
  BY <1>1, <1>2, <1>3, <1>4, <1>5 DEF Next, Terminated

\* The grabbed tasks are the first submitted ones.
LEMMA TakenFirst ==
  ASSUME TypeInv, TasksInOrder
  PROVE  /\ \A k \in DOMAIN taken : k \in DOMAIN accepted /\ accepted[k] = taken[k]
         /\ \A k \in DOMAIN Pending :
              \E i \in DOMAIN accepted : accepted[i] = Pending[k] /\ i \notin DOMAIN taken
<1>1. /\ Pending \in Seq(Tasks) /\ taken \in Seq(Tasks)
      /\ accepted = taken \o Pending /\ accepted \in Seq(Tasks)
  BY PendingType DEF TypeInv, TypeOK, TasksInOrder, PendingOK
<1>2. /\ Len(accepted) = Len(taken) + Len(Pending)
      /\ \A i \in 1..(Len(taken) + Len(Pending)) :
           accepted[i] = IF i <= Len(taken) THEN taken[i] ELSE Pending[i - Len(taken)]
  BY <1>1, ConcatProperties
<1>3. \A k \in DOMAIN taken : k \in DOMAIN accepted /\ accepted[k] = taken[k]
  BY <1>1, <1>2, LenProperties
<1>4. ASSUME NEW k \in DOMAIN Pending
      PROVE  \E i \in DOMAIN accepted : accepted[i] = Pending[k] /\ i \notin DOMAIN taken
  <2>1. /\ k \in 1..Len(Pending) /\ Len(taken) \in Nat /\ Len(Pending) \in Nat
        /\ DOMAIN accepted = 1..Len(accepted) /\ DOMAIN taken = 1..Len(taken)
    BY <1>1, LenProperties
  <2>2. /\ k + Len(taken) \in DOMAIN accepted /\ k + Len(taken) \notin DOMAIN taken
        /\ accepted[k + Len(taken)] = Pending[k]
    BY <1>2, <2>1
  <2> QED BY <2>2
<1> QED
  BY <1>3, <1>4

TakenAccepted == \A k \in DOMAIN taken : k \in DOMAIN accepted /\ accepted[k] = taken[k]

\* The same as a fact about every state of the pool, the next one included.
LEMMA TakenAreAccepted == TypeInv /\ TasksInOrder => TakenAccepted
BY TakenFirst DEF TakenAccepted

\* The histories are kept by every step: a submission is of a new task, and a grab
\* takes one that nobody has grabbed.
LEMMA NextHistory ==
  ASSUME LifeInv, LifeInv', TasksInOrder, TasksInOrder', HistoryInv, [Next]_vars
  PROVE  HistoryInv'
<1>0. /\ pc \in [Workers \cup Clients -> WorkerPcs \cup ClientPcs]
      /\ task \in [Workers -> Tasks \cup {NoTask}]
      /\ accepted \in Seq(Tasks) /\ taken \in Seq(Tasks) /\ TypeInv
      /\ accepted' \in Seq(Tasks) /\ taken' \in Seq(Tasks) /\ TypeInv'
  BY DEF LifeInv, TypeInv, TypeOK
<1>a. ASSUME UNCHANGED <<accepted, taken, done, task>>,
             \A w \in Workers : pc'[w] = "run" => pc[w] = "run"
      PROVE  HistoryInv'
  BY <1>a DEF HistoryInv, At
<1>1. ASSUME NEW x \in Clients \cup Workers, NEW t \in Tasks, Add(x, t)
      PROVE  HistoryInv'
  <2>1. /\ accepted' = Append(accepted, t) /\ UNCHANGED <<taken, done, task>>
        /\ \A k \in DOMAIN accepted : accepted[k] # t
    BY <1>1 DEF Add
  <2>2. \A w \in Workers : pc'[w] = "run" => pc[w] = "run"
    BY <1>0, <1>1, AddMoves
  <2>3. /\ Len(accepted) \in Nat /\ DOMAIN accepted = 1..Len(accepted)
        /\ DOMAIN accepted' = 1..(Len(accepted) + 1)
        /\ \A k \in 1..Len(accepted) : accepted'[k] = accepted[k]
        /\ accepted'[Len(accepted) + 1] = t
    BY <1>0, <2>1, AppendProperties, LenProperties
  <2>4. \A i, k \in DOMAIN accepted' : accepted'[i] = accepted'[k] => i = k
    <3> SUFFICES ASSUME NEW i \in DOMAIN accepted', NEW k \in DOMAIN accepted',
                        accepted'[i] = accepted'[k]
                 PROVE  i = k
      OBVIOUS
    <3>1. CASE i \in DOMAIN accepted /\ k \in DOMAIN accepted
      BY <2>3, <3>1 DEF HistoryInv
    <3>2. CASE i \notin DOMAIN accepted \/ k \notin DOMAIN accepted
      BY <2>1, <2>3, <3>2
    <3> QED BY <3>1, <3>2
  <2> QED BY <2>1, <2>2, <2>4 DEF HistoryInv, At
<1>2. ASSUME NEW w \in Workers, WorkerTake(w) PROVE HistoryInv'
  <2>1. /\ accepted' = accepted /\ done' = done
        /\ taken' = Append(taken, queue[head])
        /\ task' = [task EXCEPT ![w] = queue[head]]
        /\ pc' = [pc EXCEPT ![w] = "run"]
    BY <1>2 DEF WorkerTake
  <2>2. /\ Len(taken) \in Nat /\ DOMAIN taken = 1..Len(taken)
        /\ DOMAIN taken' = 1..(Len(taken) + 1)
        /\ \A k \in 1..Len(taken) : taken'[k] = taken[k]
        /\ taken'[Len(taken) + 1] = queue[head]
    <3>1. queue[head] \in Tasks
      <4>1. Pending # <<>> /\ Head(Pending) = queue[head] /\ Pending \in Seq(Tasks)
        BY <1>0, <1>2, TakePending, PendingType DEF PendingOK
      <4> QED BY <4>1, HeadTailProperties
    <3> QED BY <1>0, <2>1, <3>1, AppendProperties, LenProperties
  <2>3. \A k \in DOMAIN taken : taken[k] # queue[head]
    <3> SUFFICES ASSUME NEW k \in DOMAIN taken, taken[k] = queue[head] PROVE FALSE
      OBVIOUS
    <3>1. TakenAccepted'
      BY <1>0, TakenAreAccepted, PTL
    <3> QED BY <2>1, <2>2, <3>1 DEF HistoryInv, TakenAccepted
  <2>4. \A t \in done' : \E k \in DOMAIN taken' : taken'[k] = t
    BY <2>1, <2>2 DEF HistoryInv
  <2>5. \A v \in At("run")' : v = w \/ (v \in At("run") /\ task'[v] = task[v])
    BY <1>0, <2>1 DEF At
  <2>6. task'[w] = queue[head]
    BY <1>0, <2>1
  <2>7. \A v \in At("run") : \E k \in DOMAIN taken : taken[k] = task[v]
    BY DEF HistoryInv
  <2>8. \A v \in At("run")' : \E k \in DOMAIN taken' : taken'[k] = task'[v]
    BY <2>2, <2>5, <2>6, <2>7
  <2>9. \A u, v \in At("run")' : task'[u] = task'[v] => u = v
    BY <2>3, <2>5, <2>6, <2>7 DEF HistoryInv
  <2> QED BY <2>1, <2>4, <2>8, <2>9 DEF HistoryInv
<1>3. ASSUME NEW w \in Workers, WorkerFinish(w) PROVE HistoryInv'
  BY <1>0, <1>3 DEF WorkerFinish, HistoryInv, At
<1>4. ASSUME NEW c \in Clients, NEW how \in {"immediate", "graceful"}, Destroy(c, how)
      PROVE  HistoryInv'
  <2>1. UNCHANGED <<accepted, taken, done, task>>
    BY <1>4 DEF Destroy, history
  <2>2. \A w \in Workers : pc'[w] = "run" => pc[w] = "run"
    BY <1>0, <1>4, DestroyMoves
  <2> QED BY <1>a, <2>1, <2>2
<1>5. ASSUME NEW c \in Clients, FreePool(c) PROVE HistoryInv'
  BY <1>0, <1>5, <1>a, ThreadsDisjoint DEF FreePool, history
<1>6. CASE Invisible
  BY <1>6, <1>a DEF Invisible, history
<1> QED
  BY <1>1, <1>2, <1>3, <1>4, <1>5, <1>6, VisibleSteps

\* Nobody leaves a graceful shutdown before the queue is empty, and nothing is
\* queued afterwards.
LEMMA NextDrain ==
  ASSUME LifeInv, DrainInv, [Next]_vars
  PROVE  DrainInv'
<1>0. /\ pc \in [Workers \cup Clients -> WorkerPcs \cup ClientPcs]
      /\ pc[Main] \in Creating => shutdown = "no" /\ handle # "live"
      /\ shutdown = "no" => At("exit") = {}
      /\ TypeInv
  BY DEF LifeInv, TypeInv, TypeOK, CallerInv
<1> USE ThreadsDisjoint DEF DrainInv
<1>1. CASE UNCHANGED vars
  BY <1>1 DEF vars, create, ring, At
<1>2. CASE CreateStep
  <2>1. CASE CreateReturns
    BY <1>0, <2>1 DEF CreateReturns, Creating, At
  <2>2. CASE ~ CreateReturns
    <3>1. shutdown' = "no" /\ shutdown = "no" /\ (handle' = handle \/ handle' # "live")
      BY <1>0, <1>2, <2>2 DEF CreateStep, CreatePool, CreateInit, CreateErr, StartThread,
         CountThread, StartThreadFails, Creating
    <3>2. handle # "live"
      BY <1>0, <1>2 DEF CreateStep, CreatePool, CreateInit, CreateErr, StartThread,
         CountThread, StartThreadFails, CreateReturns, Creating
    <3> QED BY <3>1, <3>2
  <2> QED BY <2>1, <2>2
<1>3. ASSUME NEW x \in Clients \cup Workers, AddStep(x) PROVE DrainInv'
  <2>1. CASE AddLockFails(x) \/ AddRefused(x)
    BY <2>1 DEF AddLockFails, AddRefused, ring, create, At
  <2>2. ASSUME NEW t \in Tasks, Add(x, t) PROVE DrainInv'
    <3>1. shutdown' = "no" /\ handle' = handle
      BY <2>2 DEF Add, create
    <3>2. At("unborn")' = At("unborn")
      BY <1>0, <2>2, AddMoves DEF At
    <3> QED BY <3>1, <3>2
  <2> QED BY <1>3, <2>1, <2>2 DEF AddStep
<1>4. ASSUME NEW c \in Clients, CallOnNull(c) \/ ShutdownStep(c) \/ JoinStep(c)
      PROVE  DrainInv'
  <2>1. ASSUME NEW how \in {"immediate", "graceful"}, Destroy(c, how) PROVE DrainInv'
    <3>1. At("unborn")' = At("unborn") /\ At("exit")' = At("exit")
      BY <1>0, <2>1, DestroyMoves DEF At
    <3>2. /\ shutdown = "no" /\ shutdown' = how /\ handle' = handle
          /\ how = "graceful" => handle = "live"
      BY <2>1 DEF Destroy, MayDestroy, MayCall, create
    <3> QED BY <1>0, <3>1, <3>2
  <2>2. CASE CallOnNull(c)
    BY <2>2 DEF CallOnNull, ring, create, At
  <2>3. CASE DestroyLockFails(c) \/ DestroyAgain(c) \/ JoinStep(c)
    <3>1. UNCHANGED <<count, shutdown, handle>>
      BY <2>3 DEF DestroyLockFails, DestroyAgain, JoinStep, Join, FreeArrays, FreePool,
         ring, create
    <3>2. \A w \in Workers : pc'[w] = pc[w]
      BY <1>0, <2>3 DEF DestroyLockFails, DestroyAgain, JoinStep, Join, FreeArrays, FreePool
    <3> QED BY <3>1, <3>2 DEF At
  <2> QED BY <1>4, <2>1, <2>2, <2>3 DEF ShutdownStep
<1>5. ASSUME NEW w \in Workers, WorkerStep(w) \/ SpuriousWakeup(w) PROVE DrainInv'
  <2>1. CASE WorkerExit(w)
    BY <1>0, <2>1 DEF WorkerExit, MustStop, ring, create, At
  <2>2. CASE WorkerTake(w)
    BY <1>0, <2>2 DEF WorkerTake, create, At
  <2>3. CASE WorkerWait(w) \/ WorkerFinish(w) \/ SpuriousWakeup(w)
    BY <1>0, <2>3 DEF WorkerWait, WorkerFinish, SpuriousWakeup, ring, create, At
  <2> QED BY <1>5, <2>1, <2>2, <2>3 DEF WorkerStep
<1> QED
  BY <1>1, <1>2, <1>3, <1>4, <1>5 DEF Next, Terminated

-----------------------------------------------------------------------------
\* Initially the abstract pool is open and has no task.
LEMMA InitAbstract == Init => TP!Pool_Init
<1> SUFFICES ASSUME Init PROVE TP!Pool_Init
  OBVIOUS
<1>1. Pending \in Seq(Tasks) /\ Len(Pending) = 0
  BY InitTypeInv, PendingType DEF Init, PendingOK
<1>2. Pending = <<>>
  BY <1>1, EmptySeq
<1>3. At("run") = {}
  BY ThreadsDisjoint DEF Init, At
<1> QED
  BY <1>2, <1>3 DEF Init, TP!Pool_Init

\* threadpool_add submits a task that the abstract pool has never seen, to a pool
\* that is open and not full.
LEMMA AddAbstract ==
  ASSUME LifeInv, LifeInv', TasksInOrder, HistoryInv,
         NEW x \in Clients \cup Workers, NEW t \in Tasks, Add(x, t)
  PROVE  TP!Submit(t)
<1>0. TypeInv /\ TypeInv' /\ task \in [Workers -> Tasks \cup {NoTask}]
  BY DEF LifeInv, TypeInv, TypeOK
<1>1. /\ shutdown = "no" /\ shutdown' = "no" /\ count < QueueSize
      /\ \A k \in DOMAIN accepted : accepted[k] # t
      /\ UNCHANGED <<task, taken, done>>
  BY <1>0, QueueSizeAssumption DEF Add, Full, TypeInv, TypeOK
<1>2. /\ \A k \in DOMAIN taken : taken[k] # t
      /\ \A k \in DOMAIN Pending : Pending[k] # t
  BY <1>0, <1>1, TakenFirst
<1>3. Pending' = Append(Pending, t) /\ Len(Pending) = count
  BY <1>0, AddPending, PendingType DEF PendingOK
<1>4. t \notin Running /\ t \notin done
  BY <1>2 DEF HistoryInv, Running
<1>5. At("run")' = At("run")
  BY <1>0, AddMoves DEF At
<1>6. Running' = Running
  BY <1>1, <1>5 DEF Running
<1> QED
  BY <1>1, <1>2, <1>3, <1>4, <1>6 DEF TP!Submit, TP!Queued, Running

\* A worker that grabs a task starts the oldest pending one, and does so neither
\* after an immediate shutdown nor in a pool that is closed.
LEMMA TakeAbstract ==
  ASSUME LifeInv, LifeInv', NEW w \in Workers, WorkerTake(w)
  PROVE  TP!Start
<1>0. /\ TypeInv /\ TypeInv' /\ task \in [Workers -> Tasks \cup {NoTask}]
      /\ pc \in [Workers \cup Clients -> WorkerPcs \cup ClientPcs]
      /\ shutdown \in {"no", "immediate", "graceful"}
  BY DEF LifeInv, TypeInv, TypeOK
<1>1. /\ pc[w] = "lock" /\ ~ MustStop
      /\ task' = [task EXCEPT ![w] = queue[head]] /\ pc' = [pc EXCEPT ![w] = "run"]
      /\ UNCHANGED <<shutdown, heap, done>>
  BY DEF WorkerTake, create
<1>2. "pool" \in heap
  BY <1>1 DEF LifeInv, HeapInv, NoUseAfterFree, Blocks
<1>3. Mode \in {"open", "graceful"} /\ Mode' = Mode
  BY <1>0, <1>1, <1>2 DEF Mode, MustStop
<1>4. Pending # <<>> /\ Head(Pending) = queue[head] /\ Pending' = Tail(Pending)
  BY <1>0, TakePending
<1>5. At("run")' = At("run") \cup {w} /\ w \notin At("run")
  BY <1>0, <1>1 DEF At
<1>6. task'[w] = queue[head] /\ \A v \in At("run") : task'[v] = task[v]
  BY <1>0, <1>1 DEF At
<1>7. Running' = Running \cup {queue[head]}
  BY <1>5, <1>6 DEF Running
<1> QED
  BY <1>1, <1>3, <1>4, <1>7 DEF TP!Start, Running, Mode

\* A worker that ends its task finishes it: no other worker runs the same one.
LEMMA FinishAbstract ==
  ASSUME LifeInv, HistoryInv, NEW w \in Workers, WorkerFinish(w)
  PROVE  \E t \in Tasks : TP!Finish(t)
<1>0. /\ TypeInv /\ task \in [Workers -> Tasks \cup {NoTask}]
      /\ pc \in [Workers \cup Clients -> WorkerPcs \cup ClientPcs]
  BY DEF LifeInv, TypeInv, TypeOK
<1>1. /\ pc[w] = "run" /\ done' = done \cup {task[w]} /\ pc' = [pc EXCEPT ![w] = "lock"]
      /\ UNCHANGED <<ring, shutdown, heap, task>>
  BY DEF WorkerFinish, create
<1>2. task[w] \in Tasks
  BY <1>0, <1>1 DEF TypeInv, RingInv
<1>3. At("run")' = At("run") \ {w} /\ w \in At("run")
  BY <1>0, <1>1 DEF At
<1>4. \A v \in At("run") : task[v] = task[w] => v = w
  BY <1>3 DEF HistoryInv
<1>5. Running' = Running \ {task[w]} /\ task[w] \in Running
  BY <1>1, <1>3, <1>4 DEF Running
<1>6. Pending' = Pending /\ Mode' = Mode
  BY <1>1 DEF Pending, Slot, ring, Mode
<1>7. PICK t \in Tasks : t = task[w]
  BY <1>2
<1>8. TP!Finish(t)
  BY <1>1, <1>5, <1>6, <1>7 DEF TP!Finish, Running, Mode
<1> QED
  BY <1>8

\* threadpool_destroy shuts the abstract pool, in the way its flag says.
LEMMA DestroyAbstract ==
  ASSUME LifeInv, NEW c \in Clients, NEW how \in {"immediate", "graceful"},
         Destroy(c, how)
  PROVE  TP!Shut(how)
<1>0. TypeInv
  BY DEF LifeInv
<1>1. /\ shutdown = "no" /\ shutdown' = how
      /\ UNCHANGED <<ring, heap, task, done>>
  BY DEF Destroy, create, history
<1>2. "pool" \in heap
  BY DEF Destroy, MayDestroy, MayCall, LifeInv, HeapInv, AllThere, Blocks
<1>3. At("run")' = At("run")
  BY <1>0, DestroyMoves DEF At
<1>4. Pending' = Pending /\ Running' = Running
  BY <1>1, <1>3 DEF Pending, Slot, ring, Running
<1>5. Mode = "open" /\ Mode' = how
  BY <1>1, <1>2 DEF Mode
<1> QED
  BY <1>1, <1>4, <1>5 DEF TP!Shut, Running, Mode

\* threadpool_free closes the abstract pool: all workers have left by then, and,
\* if there is one at all, a graceful shutdown has emptied the queue.
LEMMA FreeAbstract ==
  ASSUME LifeInv, DrainInv, Workers # {}, NEW c \in Clients, FreePool(c)
  PROVE  TP!Close
<1>0. /\ TypeInv /\ pc \in [Workers \cup Clients -> WorkerPcs \cup ClientPcs]
      /\ shutdown \in {"no", "immediate", "graceful"}
  BY DEF LifeInv, TypeInv, TypeOK
<1>1. /\ pc[c] = "free_lock" /\ heap' = heap \ {"pool"}
      /\ pc' = [pc EXCEPT ![c] = "end"]
      /\ UNCHANGED <<ring, shutdown, task, done>>
  BY DEF FreePool, history
<1>2. /\ shutdown # "no" /\ heap = {"pool"}
      /\ \A w \in Workers : pc[w] \in {"unborn", "exit"}
  BY <1>1 DEF LifeInv, CallerInv, HeapInv, Destroying
<1>3. At("run") = {} /\ At("run")' = {}
  BY <1>0, <1>1, <1>2, ThreadsDisjoint DEF At
<1>4. Running = {} /\ Running' = {}
  BY <1>3 DEF Running
<1>5. Mode = shutdown /\ Mode' = "closed"
  BY <1>1, <1>2 DEF Mode
<1>6. ASSUME shutdown = "graceful" PROVE Pending = <<>>
  <2>1. At("unborn") = {}
    BY <1>6 DEF DrainInv
  <2>2. At("exit") # {}
    BY <1>2, <2>1 DEF At
  <2>3. count = 0
    BY <1>6, <2>2 DEF DrainInv
  <2> QED BY <1>0, <2>3, PendingType, EmptySeq DEF PendingOK
<1>7. Pending' = Pending
  BY <1>1 DEF Pending, Slot, ring
<1> QED
  BY <1>0, <1>1, <1>2, <1>4, <1>5, <1>6, <1>7 DEF TP!Close, Running, Mode

\* The other steps leave the abstract pool as it is.
LEMMA InvisibleAbstract == Invisible => UNCHANGED TP!poolVars
<1> SUFFICES ASSUME Invisible PROVE UNCHANGED TP!poolVars
  OBVIOUS
<1>1. At("run")' = At("run") /\ task' = task /\ done' = done
  BY DEF Invisible, history, At
<1>2. Running' = Running
  BY <1>1 DEF Running
<1>3. Pending' = Pending
  BY DEF Invisible, Pending, Slot, ring
<1>4. Mode' = Mode
  BY DEF Invisible, Mode
<1> QED
  BY <1>1, <1>2, <1>3, <1>4 DEF TP!poolVars, Running, Mode

\* Every step of the pool is one of the abstract pool, or one it cannot see.
LEMMA NextAbstract ==
  ASSUME Workers # {}, LifeInv, LifeInv', TasksInOrder, HistoryInv, DrainInv,
         [Next]_vars
  PROVE  [TP!Pool_Next]_(TP!poolVars)
<1>1. ASSUME NEW x \in Clients \cup Workers, NEW t \in Tasks, Add(x, t)
      PROVE  TP!Pool_Next
  BY <1>1, AddAbstract DEF TP!Pool_Next
<1>2. ASSUME NEW w \in Workers, WorkerTake(w) PROVE TP!Pool_Next
  BY <1>2, TakeAbstract DEF TP!Pool_Next
<1>3. ASSUME NEW w \in Workers, WorkerFinish(w) PROVE TP!Pool_Next
  BY <1>3, FinishAbstract DEF TP!Pool_Next
<1>4. ASSUME NEW c \in Clients, NEW how \in {"immediate", "graceful"}, Destroy(c, how)
      PROVE  TP!Pool_Next
  BY <1>4, DestroyAbstract DEF TP!Pool_Next
<1>5. ASSUME NEW c \in Clients, FreePool(c) PROVE TP!Pool_Next
  BY <1>5, FreeAbstract DEF TP!Pool_Next
<1> QED
  BY <1>1, <1>2, <1>3, <1>4, <1>5, InvisibleAbstract, VisibleSteps

\* A pool with at least one worker implements TaskPool, whichever library calls
\* fail: tasks start in the order of their submission and once each, none is
\* accepted beyond queue_size or after threadpool_destroy, none is started after an
\* immediate shutdown, and the pool is freed only when nothing runs and, after
\* a graceful shutdown, nothing is left in the queue.
THEOREM ThreadpoolImplementsTaskPool ==
  ASSUME Workers # {}
  PROVE  Spec => ImplementsTaskPool
<1>1. Init => HistoryInv /\ DrainInv
  BY ThreadsDisjoint DEF Init, HistoryInv, DrainInv, At
<1>2. LifeInv /\ LifeInv' /\ TasksInOrder /\ TasksInOrder' /\ HistoryInv /\ [Next]_vars
        => HistoryInv'
  BY NextHistory
<1>3. LifeInv /\ DrainInv /\ [Next]_vars => DrainInv'
  BY NextDrain
<1>4. LifeInv /\ LifeInv' /\ TasksInOrder /\ HistoryInv /\ DrainInv /\ [Next]_vars
        => [TP!Pool_Next]_(TP!poolVars)
  BY NextAbstract
<1> QED
  BY <1>1, <1>2, <1>3, <1>4, InitAbstract, Life, FirstInFirstOut, PTL
     DEF Spec, ImplementsTaskPool, TP!Pool_Spec

=============================================================================
