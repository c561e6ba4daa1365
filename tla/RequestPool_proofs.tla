------------------------- MODULE RequestPool_proofs -------------------------
(***************************************************************************)
(* Proofs about the Windows thread pool of RequestPool: the counters and   *)
(* the semaphore account for every queued request, no thread executes a    *)
(* deleted one, and Destroy misses no more threads than had missed its     *)
(* flag, for any number of threads and requests.                           *)
(***************************************************************************)
EXTENDS RequestPool, FiniteSetTheorems, FunctionTheorems, SequenceTheorems, TLAPS

\* What the calls of the dialog establish one after the other.
PhaseInv ==
  /\ m_phThreadList = "null" =>
       dialog = "idle" /\ m_RequestQueue = <<>> /\ \A w \in Threads : pc[w] = "none"
  /\ dialog = "add" =>
       /\ m_RequestQueue = <<>> /\ semaphore = 0
       /\ m_usSemaphoreCount = 0 /\ m_usPendingReqCount = 0
       /\ \A w \in Threads : pc[w] \in {"none", "wait"}
  /\ ~ m_bDestroyed => \A w \in Threads : pc[w] \notin {"leave_exit", "exit"}
  /\ dialog \in {"release", "join"} => m_bDestroyed

\* The threads that AutoCounter counts.
Active ==
  {w \in Threads : pc[w] \in {"check", "pop", "execute", "check2", "renotify", "leave", "leave_exit"}}

ActiveInv == m_lActiveThread = Cardinality(Active)

\* m_usSemaphoreCount is behind the semaphore by the threads that have yet to count down.
SemaphoreInv ==
  ~ m_bDestroyed /\ m_phThreadList # "null" =>
    m_usSemaphoreCount = semaphore + Cardinality(At("count"))

\* The threads on their way from the semaphore to the queue.
Coming == At("count") \cup At("enter") \cup At("check") \cup At("pop")

\* The requests fit the counter of the pending ones.
Countable == Cardinality(Requests) < Word

QueueInv ==
  Countable /\ Serving =>
    Len(m_RequestQueue) = semaphore + m_usPendingReqCount + Cardinality(Coming)

\* The requests the dialog has made.
Made == m_RequestList \cup refused \cup deleted

\* The requests that are queued or being executed.
Queued == {m_RequestQueue[k] : k \in DOMAIN m_RequestQueue}
Held == {pRequest[w] : w \in At("execute")}

\* Every one of them is there once, kept by the dialog, and not yet executed.
RequestInv ==
  /\ \A w \in Threads : pc[w] = "execute" <=> pRequest[w] # NoRequest
  /\ \A i, k \in DOMAIN m_RequestQueue : m_RequestQueue[i] = m_RequestQueue[k] => i = k
  /\ \A w, v \in At("execute") : pRequest[w] = pRequest[v] => w = v
  /\ Queued \cap Held = {}
  /\ Queued \cup Held \subseteq (m_RequestList \cup refused) \ (deleted \cup executed)
  /\ Serving => (Queued \cup Held) \cap refused = {}
  /\ executed \subseteq Made

\* The counters of requests cannot exceed their number.
BoundInv ==
  /\ failures <= Cardinality(executed)
  /\ m_usPendingReqCount <= Cardinality(Made)

PoolInv ==
  /\ TypeOK
  /\ PhaseInv
  /\ ActiveInv
  /\ SemaphoreInv
  /\ QueueInv
  /\ RequestInv
  /\ BoundInv

-----------------------------------------------------------------------------
(* Counts of threads and of requests, and unsigned shorts. *)

\* A set of threads is finite and no larger than the number of threads.
LEMMA ThreadSets ==
  /\ N \in 1..64
  /\ \A S \in SUBSET Threads : IsFiniteSet(S) /\ Cardinality(S) \in 0..N
<1>1. IsFiniteSet(Threads) /\ N \in 1..64
  BY ThreadsAssumption
<1>2. ASSUME NEW S \in SUBSET Threads  PROVE IsFiniteSet(S) /\ Cardinality(S) \in 0..N
  <2>1. IsFiniteSet(S) /\ Cardinality(S) <= N
    BY <1>1, FS_Subset DEF N
  <2>2. Cardinality(S) \in Nat
    BY <2>1, FS_CardinalityType
  <2>. QED  BY <1>1, <2>1, <2>2
<1>. QED  BY <1>1, <1>2

\* A set of threads with one more or one less.
LEMMA ThreadCounts ==
  ASSUME NEW S \in SUBSET Threads
  PROVE  /\ \A w \in Threads \ S : Cardinality(S \cup {w}) = Cardinality(S) + 1
         /\ \A w \in S : Cardinality(S \ {w}) = Cardinality(S) - 1 /\ Cardinality(S) > 0
<1>1. IsFiniteSet(S) /\ Cardinality(S) \in Nat
  BY ThreadSets
<1>2. ASSUME NEW w \in Threads \ S
      PROVE  Cardinality(S \cup {w}) = Cardinality(S) + 1
  BY <1>1, FS_AddElement
<1>3. ASSUME NEW w \in S
      PROVE  Cardinality(S \ {w}) = Cardinality(S) - 1 /\ Cardinality(S) > 0
  <2>1. Cardinality(S \ {w}) = Cardinality(S) - 1
    BY <1>1, FS_RemoveElement
  <2>2. Cardinality(S \ {w}) \in 0..N
    BY ThreadSets
  <2>. QED  BY <1>1, <2>1, <2>2, ThreadSets
<1>. QED  BY <1>2, <1>3

\* The same of sets of requests.
LEMMA RequestCounts ==
  /\ Cardinality(Requests) \in Nat
  /\ \A S \in SUBSET Requests :
       /\ Cardinality(S) \in Nat /\ Cardinality(S) <= Cardinality(Requests)
       /\ \A r \in Requests \ S : Cardinality(S \cup {r}) = Cardinality(S) + 1
<1>1. IsFiniteSet(Requests) /\ Cardinality(Requests) \in Nat
  BY RequestsAssumption, FS_CardinalityType
<1>2. ASSUME NEW S \in SUBSET Requests
      PROVE  /\ Cardinality(S) \in Nat /\ Cardinality(S) <= Cardinality(Requests)
             /\ \A r \in Requests \ S : Cardinality(S \cup {r}) = Cardinality(S) + 1
  <2>1. IsFiniteSet(S) /\ Cardinality(S) <= Cardinality(Requests)
    BY <1>1, FS_Subset
  <2>2. Cardinality(S) \in Nat
    BY <2>1, FS_CardinalityType
  <2>3. ASSUME NEW r \in Requests \ S  PROVE Cardinality(S \cup {r}) = Cardinality(S) + 1
    BY <2>1, FS_AddElement
  <2>. QED  BY <2>1, <2>2, <2>3
<1>. QED  BY <1>1, <1>2

\* Counting an unsigned short up and down; a counter that is not at the end of its range
\* does not wrap.
LEMMA Words ==
  ASSUME NEW x \in Nat
  PROVE  /\ Up(x) \in 0..(Word - 1) /\ Up(x) <= x + 1 /\ (x < Word - 1 => Up(x) = x + 1)
         /\ Down(x) \in 0..(Word - 1) /\ (x > 0 /\ x < Word => Down(x) = x - 1)
<1>0. Word \in Nat
  BY DEF Word
<1>1. Up(x) \in 0..(Word - 1)
  <2>1. Up(x) \in Int /\ 0 <= Up(x) /\ Up(x) < Word
    BY DEF Up, Word
  <2>. QED  BY <1>0, <2>1
<1>2. Up(x) <= x + 1
  BY DEF Up, Word
<1>3. ASSUME x < Word - 1  PROVE Up(x) = x + 1
  BY <1>3 DEF Up, Word
<1>4. Down(x) \in 0..(Word - 1)
  <2>1. Down(x) \in Int /\ 0 <= Down(x) /\ Down(x) < Word
    BY DEF Down, Word
  <2>. QED  BY <1>0, <2>1
<1>5. ASSUME x > 0, x < Word  PROVE Down(x) = x - 1
  BY <1>5 DEF Down, Word
<1>. QED  BY <1>1, <1>2, <1>3, <1>4, <1>5

\* A counter that is far from the ends of its range is counted up and down by one.
LEMMA SmallWords ==
  ASSUME NEW x \in 0..128
  PROVE  Up(x) = x + 1 /\ (x > 0 => Down(x) = x - 1)
<1>1. Word = 65536
  BY DEF Word
<1>2. x \in Nat /\ x < Word - 1 /\ x < Word
  BY <1>1
<1>. QED  BY <1>2, Words

\* A step of one thread moves that thread only.
LEMMA Moved ==
  ASSUME TypeOK, NEW w \in Threads, NEW where, Goto(w, where)
  PROVE  pc'[w] = where /\ \A v \in Threads \ {w} : pc'[v] = pc[v]
BY DEF TypeOK, Goto

\* So that the set of threads at one place changes by that thread.
LEMMA MovedAt ==
  ASSUME TypeOK, NEW w \in Threads, NEW where, Goto(w, where), NEW place
  PROVE  /\ place = where => At(place)' = At(place) \cup {w}
         /\ place # where => At(place)' = At(place) \ {w}
         /\ w \in At(place) <=> pc[w] = place
<1>1. pc'[w] = where /\ \A v \in Threads \ {w} : pc'[v] = pc[v]
  BY Moved
<1>. QED  BY <1>1 DEF At

-----------------------------------------------------------------------------
(* The counters. *)

\* m_lActiveThread counts the threads between the constructor and the destructor of
\* AutoCounter (lines 376-424).
LEMMA ActiveKept ==
  TypeOK /\ PhaseInv /\ ActiveInv /\ [Next]_vars => ActiveInv' /\ m_lActiveThread' \in 0..N
<1>. SUFFICES ASSUME TypeOK, PhaseInv, ActiveInv, [Next]_vars  PROVE ActiveInv'
  <2>1. Active' \in SUBSET Threads
    BY DEF Active
  <2>. QED  BY <2>1, ThreadSets DEF ActiveInv
<1>0. /\ Active \in SUBSET Threads /\ Cardinality(Active) \in 0..N /\ N \in 1..64
      /\ m_lActiveThread = Cardinality(Active)
  BY ThreadSets DEF Active, ActiveInv
<1>1. ASSUME Active' = Active, m_lActiveThread' = m_lActiveThread  PROVE ActiveInv'
  BY <1>0, <1>1 DEF ActiveInv
<1>2. ASSUME NEW w \in Threads, NEW where, Goto(w, where), m_lActiveThread' = m_lActiveThread,
             w \in Active <=> where \in {"check", "pop", "execute", "check2", "renotify",
                                         "leave", "leave_exit"}
      PROVE  ActiveInv'
  <2>1. Active' = Active
    BY <1>2, Moved DEF Active
  <2>. QED  BY <1>1, <1>2, <2>1
<1>3. CASE CallStep
  <2>1. ASSUME NEW w \in Threads, AddThread(w)  PROVE ActiveInv'
    BY <1>2, <2>1 DEF AddThread, pool, counters, Active
  <2>2. CASE DestroyPool
    <3>1. m_lActiveThread' = m_lActiveThread
      BY <2>2 DEF DestroyPool, counters
    <3>2. Active' = Active
      BY <2>2 DEF DestroyPool, Joined, At, Active
    <3>. QED  BY <1>1, <3>1, <3>2
  <2>3. CASE AddThreadFails \/ CreateReturns \/ CancelRequests \/ SetDestroyFlag \/ Release
             \/ DestroyPoolFails
    <3>1. m_lActiveThread' = m_lActiveThread /\ pc' = pc
      BY <2>3 DEF AddThreadFails, CreateReturns, CancelRequests, SetDestroyFlag, Release,
           DestroyPoolFails, pool, counters, workers
    <3>. QED  BY <1>1, <3>1 DEF Active
  <2>. QED  BY <1>3, <2>1, <2>2, <2>3 DEF CallStep
<1>4. CASE Click
  <2>1. ASSUME NEW ok \in BOOLEAN, Create(ok)  PROVE ActiveInv'
    <3>1. m_lActiveThread' = 0 /\ \A w \in Threads : pc'[w] = "none"
      BY <2>1 DEF Create, workers, PhaseInv
    <3>2. Active' = {}
      BY <3>1 DEF Active
    <3>. QED  BY <3>1, <3>2, FS_EmptySet DEF ActiveInv
  <2>2. ASSUME NEW r \in Requests, Post(r) \/ PostRefused(r)  PROVE ActiveInv'
    <3>1. m_lActiveThread' = m_lActiveThread /\ pc' = pc
      BY <2>2 DEF Post, PostRefused, pool, counters, workers
    <3>. QED  BY <1>1, <3>1 DEF Active
  <2>3. CASE Destroy
    <3>1. m_lActiveThread' = m_lActiveThread /\ pc' = pc
      BY <2>3 DEF Destroy, pool, counters, workers
    <3>. QED  BY <1>1, <3>1 DEF Active
  <2>. QED  BY <1>4, <2>1, <2>2, <2>3 DEF Click
<1>5. ASSUME NEW w \in Threads, ThreadStep(w)  PROVE ActiveInv'
  <2>1. CASE Wait(w) \/ CountDown(w)
    BY <1>2, <2>1 DEF Wait, CountDown, counters, Active
  <2>2. CASE Enter(w)
    <3>1. w \in Threads \ Active /\ Active' = Active \cup {w} /\ m_lActiveThread' = Up(m_lActiveThread)
      BY <2>2, Moved DEF Enter, Active
    <3>2. PICK S \in SUBSET Threads : S = Active
      BY <1>0
    <3>3. Cardinality(S \cup {w}) = Cardinality(S) + 1
      BY <3>1, <3>2, ThreadCounts
    <3>4. m_lActiveThread \in 0..128 => Up(m_lActiveThread) = m_lActiveThread + 1
      BY SmallWords
    <3>. QED  BY <1>0, <3>1, <3>2, <3>3, <3>4 DEF ActiveInv
  <2>3. CASE Check(w)
    <3>1. PICK where \in {"leave_exit", "pop", "renotify"} : Goto(w, where)
      BY <2>3 DEF Check
    <3>. QED  BY <1>2, <2>3, <3>1 DEF Check, pool, counters, Active
  <2>4. CASE Pop(w)
    <3>1. PICK where \in {"leave", "execute"} : Goto(w, where)
      BY <2>4 DEF Pop
    <3>. QED  BY <1>2, <2>4, <3>1 DEF Pop, counters, Active
  <2>5. ASSUME NEW ok \in BOOLEAN, Execute(w, ok)  PROVE ActiveInv'
    <3>1. PICK where \in {"leave", "check2"} : Goto(w, where)
      BY <2>5 DEF Execute
    <3>. QED  BY <1>2, <2>5, <3>1 DEF Execute, pool, counters, Active
  <2>6. CASE Renotify(w)
    BY <1>2, <2>6 DEF Renotify, Active
  <2>7. CASE Leave(w)
    <3>1. PICK where \in {"wait", "exit"} : Goto(w, where)
      BY <2>7 DEF Leave
    <3>2. w \in Active /\ Active' = Active \ {w} /\ m_lActiveThread' = Down(m_lActiveThread)
      BY <2>7, <3>1, Moved DEF Leave, Active
    <3>3. PICK S \in SUBSET Threads : S = Active
      BY <1>0
    <3>4. Cardinality(S \ {w}) = Cardinality(S) - 1 /\ Cardinality(S) > 0
      BY <3>2, <3>3, ThreadCounts
    <3>5. m_lActiveThread \in 1..128 => Down(m_lActiveThread) = m_lActiveThread - 1
      BY SmallWords
    <3>. QED  BY <1>0, <3>2, <3>3, <3>4, <3>5 DEF ActiveInv
  <2>. QED  BY <1>5, <2>1, <2>2, <2>3, <2>4, <2>5, <2>6, <2>7 DEF ThreadStep
<1>6. CASE UNCHANGED vars
  <2>1. m_lActiveThread' = m_lActiveThread /\ pc' = pc
    BY <1>6 DEF vars, pool, counters, workers
  <2>. QED  BY <1>1, <2>1 DEF Active
<1>. QED  BY <1>3, <1>4, <1>5, <1>6 DEF Next

\* The calls of the dialog come one after the other: a pool without a thread list is
\* empty, a pool to which threads are added is idle, and no thread has left a pool that
\* is not destroyed.
LEMMA PhaseKept ==
  TypeOK /\ PhaseInv /\ [Next]_vars => PhaseInv'
<1>. SUFFICES ASSUME TypeOK, PhaseInv, [Next]_vars  PROVE PhaseInv'
  OBVIOUS
<1>3. CASE CallStep
  <2>1. ASSUME NEW w \in Threads, AddThread(w)  PROVE PhaseInv'
    BY <2>1, Moved DEF AddThread, pool, counters, caller, PhaseInv
  <2>2. CASE AddThreadFails
    BY <2>2 DEF AddThreadFails, pool, counters, workers, PhaseInv
  <2>3. CASE CreateReturns
    BY <2>3 DEF CreateReturns, counters, workers, PhaseInv
  <2>4. CASE CancelRequests
    BY <2>4 DEF CancelRequests, counters, workers, PhaseInv
  <2>5. CASE SetDestroyFlag
    BY <2>5 DEF SetDestroyFlag, counters, workers, PhaseInv
  <2>6. CASE Release
    <3>1. /\ dialog' \in {"join", "idle"} /\ dialog = "release"
          /\ UNCHANGED <<m_bDestroyed, counters, m_RequestQueue, m_phThreadList, workers>>
      BY <2>6 DEF Release
    <3>. QED  BY <3>1 DEF counters, workers, PhaseInv
  <2>7. CASE DestroyPool
    <3>1. /\ dialog = "join" /\ dialog' = "idle" /\ m_bDestroyed' = m_bDestroyed
          /\ m_phThreadList' = "null" /\ m_RequestQueue' = <<>>
      BY <2>7 DEF DestroyPool
    <3>2. \A w \in Threads : pc'[w] = "none"
      BY <2>7 DEF DestroyPool, Joined, At
    <3>. QED  BY <3>1, <3>2 DEF PhaseInv
  <2>8. CASE DestroyPoolFails
    BY <2>8 DEF DestroyPoolFails, pool, counters, workers, PhaseInv
  <2>. QED  BY <1>3, <2>1, <2>2, <2>3, <2>4, <2>5, <2>6, <2>7, <2>8 DEF CallStep
<1>4. CASE Click
  <2>1. ASSUME NEW ok \in BOOLEAN, Create(ok)  PROVE PhaseInv'
    <3>1. /\ m_phThreadList = "null" /\ m_RequestQueue = <<>> /\ \A w \in Threads : pc[w] = "none"
      BY <2>1 DEF Create, PhaseInv
    <3>2. /\ dialog' \in {"idle", "add"} /\ (m_phThreadList' = "null" => dialog' = "idle")
          /\ semaphore' = 0 /\ m_usSemaphoreCount' = 0 /\ m_usPendingReqCount' = 0
          /\ UNCHANGED <<m_bDestroyed, m_RequestQueue, pc>>
      BY <2>1 DEF Create, workers
    <3>. QED  BY <3>1, <3>2 DEF PhaseInv
  <2>2. ASSUME NEW r \in Requests, Post(r) \/ PostRefused(r)  PROVE PhaseInv'
    <3>1. CASE Post(r)
      BY <3>1 DEF Post, workers, caller, PhaseInv
    <3>2. CASE PostRefused(r)
      BY <3>2 DEF PostRefused, pool, counters, workers, caller, PhaseInv
    <3>. QED  BY <2>2, <3>1, <3>2
  <2>3. CASE Destroy
    BY <2>3 DEF Destroy, pool, counters, workers, PhaseInv
  <2>. QED  BY <1>4, <2>1, <2>2, <2>3 DEF Click
<1>5. ASSUME NEW w \in Threads, ThreadStep(w)  PROVE PhaseInv'
  <2>1. CASE pc[w] = "wait"
    <3>1. Wait(w)
      BY <1>5, <2>1 DEF ThreadStep, Wait, CountDown, Enter, Check, Pop, Execute, Renotify, Leave
    <3>2. dialog # "add" /\ m_phThreadList # "null"
      BY <2>1, <3>1 DEF Wait, PhaseInv
    <3>. QED  BY <3>1, <3>2, Moved DEF Wait, caller, PhaseInv
  <2>2. CASE pc[w] # "wait"
    <3>1. pc[w] # "none" /\ m_phThreadList # "null" /\ dialog # "add"
      BY <1>5, <2>2 DEF ThreadStep, Wait, CountDown, Enter, Check, Pop, Execute, Renotify, Leave,
           PhaseInv
    <3>2. UNCHANGED <<m_phThreadList, dialog, m_bDestroyed>>
      BY <1>5 DEF ThreadStep, Wait, CountDown, Enter, Check, Pop, Execute, Renotify, Leave,
           pool, caller
    <3>3. PICK where : Goto(w, where) /\ (where \in {"leave_exit", "exit"} =>
                                            m_bDestroyed \/ pc[w] = "leave_exit")
      BY <1>5 DEF ThreadStep, Wait, CountDown, Enter, Check, Pop, Execute, Renotify, Leave
    <3>. QED  BY <3>1, <3>2, <3>3, Moved DEF PhaseInv
  <2>. QED  BY <2>1, <2>2
<1>6. CASE UNCHANGED vars
  BY <1>6 DEF vars, pool, counters, workers, caller, PhaseInv
<1>. QED  BY <1>3, <1>4, <1>5, <1>6 DEF Next

\* The sizes the invariants speak of.
LEMMA Sizes ==
  TypeOK =>
    /\ N \in 1..64 /\ semaphore \in 0..N
    /\ Coming \in SUBSET Threads /\ Cardinality(Coming) \in 0..N
    /\ At("count") \in SUBSET Threads /\ Cardinality(At("count")) \in 0..N
    /\ Made \in SUBSET Requests /\ Cardinality(Made) \in Nat
    /\ Cardinality(Made) <= Cardinality(Requests) /\ Cardinality(Requests) \in Nat
    /\ executed \in SUBSET Requests /\ Cardinality(executed) \in Nat
    /\ Cardinality(executed) <= Cardinality(Requests)
    /\ m_usPendingReqCount \in Nat /\ failures \in Nat /\ Len(m_RequestQueue) \in Nat
<1>. SUFFICES ASSUME TypeOK
     PROVE  /\ N \in 1..64 /\ semaphore \in 0..N
            /\ Coming \in SUBSET Threads /\ Cardinality(Coming) \in 0..N
            /\ At("count") \in SUBSET Threads /\ Cardinality(At("count")) \in 0..N
            /\ Made \in SUBSET Requests /\ Cardinality(Made) \in Nat
            /\ Cardinality(Made) <= Cardinality(Requests) /\ Cardinality(Requests) \in Nat
            /\ executed \in SUBSET Requests /\ Cardinality(executed) \in Nat
            /\ Cardinality(executed) <= Cardinality(Requests)
            /\ m_usPendingReqCount \in Nat /\ failures \in Nat /\ Len(m_RequestQueue) \in Nat
  OBVIOUS
<1>1. Coming \in SUBSET Threads /\ At("count") \in SUBSET Threads
  BY DEF Coming, At
<1>2. Made \in SUBSET Requests /\ executed \in SUBSET Requests
  BY DEF TypeOK, Made
<1>3. /\ N \in 1..64 /\ Cardinality(Coming) \in 0..N /\ Cardinality(At("count")) \in 0..N
  BY <1>1, ThreadSets
<1>4. /\ Cardinality(Made) \in Nat /\ Cardinality(Made) <= Cardinality(Requests)
      /\ Cardinality(executed) \in Nat /\ Cardinality(executed) <= Cardinality(Requests)
      /\ Cardinality(Requests) \in Nat
  BY <1>2, RequestCounts
<1>5. semaphore \in 0..N /\ m_usPendingReqCount \in Nat /\ failures \in Nat
  BY <1>4 DEF TypeOK
<1>6. Len(m_RequestQueue) \in Nat
  BY DEF TypeOK
<1>. QED  BY <1>1, <1>2, <1>3, <1>4, <1>5, <1>6

\* How the threads on their way change when one thread goes on.
LEMMA ComingMoves ==
  ASSUME TypeOK, NEW w \in Threads, NEW where, Goto(w, where)
  PROVE  /\ pc[w] = "wait" /\ where = "count" =>
              /\ Cardinality(Coming') = Cardinality(Coming) + 1
              /\ Cardinality(At("count")') = Cardinality(At("count")) + 1
         /\ pc[w] = "count" /\ where = "enter" =>
              /\ Cardinality(Coming') = Cardinality(Coming)
              /\ Cardinality(At("count")') = Cardinality(At("count")) - 1
              /\ Cardinality(At("count")) > 0
         /\ pc[w] # "count" /\ where # "count" => At("count")' = At("count")
         /\ pc[w] = "pop" /\ where = "execute" =>
              /\ Cardinality(Coming') = Cardinality(Coming) - 1
              /\ Cardinality(Coming) > 0
         /\ (w \in Coming <=> where \in {"count", "enter", "check", "pop"}) => Coming' = Coming
<1>1. /\ pc'[w] = where /\ \A v \in Threads \ {w} : pc'[v] = pc[v]
  BY Moved
<1>2. PICK S \in SUBSET Threads : S = Coming
  BY Sizes
<1>3. PICK C \in SUBSET Threads : C = At("count")
  BY Sizes
<1>4. ASSUME pc[w] = "wait", where = "count"
      PROVE  /\ Cardinality(Coming') = Cardinality(Coming) + 1
             /\ Cardinality(At("count")') = Cardinality(At("count")) + 1
  <2>1. /\ w \in Threads \ S /\ Coming' = S \cup {w}
        /\ w \in Threads \ C /\ At("count")' = C \cup {w}
    BY <1>1, <1>2, <1>3, <1>4 DEF Coming, At
  <2>2. Cardinality(S \cup {w}) = Cardinality(S) + 1 /\ Cardinality(C \cup {w}) = Cardinality(C) + 1
    BY <2>1, ThreadCounts
  <2>. QED  BY <1>2, <1>3, <2>1, <2>2
<1>5. ASSUME pc[w] = "count", where = "enter"
      PROVE  /\ Cardinality(Coming') = Cardinality(Coming)
             /\ Cardinality(At("count")') = Cardinality(At("count")) - 1
             /\ Cardinality(At("count")) > 0
  <2>1. Coming' = Coming /\ w \in C /\ At("count")' = C \ {w}
    BY <1>1, <1>3, <1>5 DEF Coming, At
  <2>2. Cardinality(C \ {w}) = Cardinality(C) - 1 /\ Cardinality(C) > 0
    BY <2>1, ThreadCounts
  <2>. QED  BY <1>3, <2>1, <2>2
<1>6. ASSUME pc[w] # "count", where # "count"  PROVE At("count")' = At("count")
  BY <1>1, <1>6 DEF At
<1>7. ASSUME pc[w] = "pop", where = "execute"
      PROVE  Cardinality(Coming') = Cardinality(Coming) - 1 /\ Cardinality(Coming) > 0
  <2>1. w \in S /\ Coming' = S \ {w}
    BY <1>1, <1>2, <1>7 DEF Coming, At
  <2>2. Cardinality(S \ {w}) = Cardinality(S) - 1 /\ Cardinality(S) > 0
    BY <2>1, ThreadCounts
  <2>. QED  BY <1>2, <2>1, <2>2
<1>8. ASSUME w \in Coming <=> where \in {"count", "enter", "check", "pop"}  PROVE Coming' = Coming
  BY <1>1, <1>8 DEF Coming, At
<1>. QED  BY <1>4, <1>5, <1>6, <1>7, <1>8

\* While the pool is not destroyed, m_usSemaphoreCount is the count of the semaphore and the
\* threads that have taken a unit and not yet counted down (lines 239-273 and 435-451).
LEMMA SemaphoreKept ==
  TypeOK /\ PhaseInv /\ SemaphoreInv /\ [Next]_vars => SemaphoreInv'
<1>. SUFFICES ASSUME TypeOK, PhaseInv, SemaphoreInv, [Next]_vars,
                     ~ m_bDestroyed', m_phThreadList' # "null"
              PROVE  (m_usSemaphoreCount = semaphore + Cardinality(At("count")))'
  BY DEF SemaphoreInv
<1> DEFINE Goal == (m_usSemaphoreCount = semaphore + Cardinality(At("count")))'
<1>0. N \in 1..64 /\ semaphore \in 0..N /\ Cardinality(At("count")) \in 0..N
  BY Sizes
<1>1. ASSUME ~ m_bDestroyed, m_phThreadList # "null"
      PROVE  m_usSemaphoreCount = semaphore + Cardinality(At("count")) /\ m_usSemaphoreCount \in 0..128
  <2>1. m_usSemaphoreCount = semaphore + Cardinality(At("count"))
    BY <1>1 DEF SemaphoreInv
  <2>. QED  BY <1>0, <2>1
<1>2. ASSUME m_usSemaphoreCount = 0, semaphore = 0,
             UNCHANGED <<m_usSemaphoreCount, semaphore>>, At("count")' = {}  PROVE Goal
  BY <1>2, FS_EmptySet
<1>3. ASSUME ~ m_bDestroyed, m_phThreadList # "null",
             UNCHANGED <<m_usSemaphoreCount, semaphore>>, At("count")' = At("count")  PROVE Goal
  BY <1>1, <1>3
<1>4. CASE CallStep
  <2>1. ASSUME NEW w \in Threads, AddThread(w)  PROVE Goal
    <3>1. At("count")' = At("count")
      BY <2>1, ComingMoves DEF AddThread
    <3>. QED  BY <1>3, <2>1, <3>1 DEF AddThread, pool, counters
  <2>2. CASE CreateReturns
    <3>1. At("count")' = {} /\ m_usSemaphoreCount = 0 /\ semaphore = 0
      BY <2>2 DEF CreateReturns, workers, PhaseInv, At
    <3>. QED  BY <1>2, <2>2, <3>1 DEF CreateReturns, counters
  <2>3. CASE AddThreadFails \/ CancelRequests
    <3>1. UNCHANGED <<m_bDestroyed, m_phThreadList, m_usSemaphoreCount, semaphore, pc>>
      BY <2>3 DEF AddThreadFails, CancelRequests, pool, counters, workers
    <3>. QED  BY <1>3, <3>1 DEF At
  <2>4. CASE SetDestroyFlag \/ Release \/ DestroyPool \/ DestroyPoolFails
    BY <2>4 DEF SetDestroyFlag, Release, DestroyPool, DestroyPoolFails, pool, PhaseInv
  <2>. QED  BY <1>4, <2>1, <2>2, <2>3, <2>4 DEF CallStep
<1>5. CASE Click
  <2>1. ASSUME NEW ok \in BOOLEAN, Create(ok)  PROVE Goal
    <3>1. m_usSemaphoreCount' = 0 /\ semaphore' = 0 /\ At("count")' = {}
      BY <2>1 DEF Create, workers, PhaseInv, At
    <3>. QED  BY <3>1, FS_EmptySet
  <2>2. ASSUME NEW r \in Requests, Post(r)  PROVE Goal
    <3>1. UNCHANGED <<m_bDestroyed, m_phThreadList, pc>>
      BY <2>2 DEF Post, workers
    <3>2. At("count")' = At("count")
      BY <3>1 DEF At
    <3>3. CASE Available /\ CanRelease(1)
      <4>1. semaphore' = semaphore + 1 /\ m_usSemaphoreCount' = Up(m_usSemaphoreCount)
        BY <2>2, <3>3 DEF Post
      <4>2. m_usSemaphoreCount \in 0..128 => Up(m_usSemaphoreCount) = m_usSemaphoreCount + 1
        BY SmallWords
      <4>. QED  BY <1>0, <1>1, <3>1, <3>2, <4>1, <4>2
    <3>4. CASE ~ (Available /\ CanRelease(1))
      BY <1>3, <2>2, <3>1, <3>2, <3>4 DEF Post
    <3>. QED  BY <3>3, <3>4
  <2>3. ASSUME NEW r \in Requests, PostRefused(r)  PROVE Goal
    <3>1. UNCHANGED <<m_bDestroyed, m_phThreadList, m_usSemaphoreCount, semaphore, pc>>
      BY <2>3 DEF PostRefused, pool, counters, workers
    <3>. QED  BY <1>3, <3>1 DEF At
  <2>4. CASE Destroy
    <3>1. UNCHANGED <<m_bDestroyed, m_phThreadList, m_usSemaphoreCount, semaphore, pc>>
      BY <2>4 DEF Destroy, pool, counters, workers
    <3>. QED  BY <1>3, <3>1 DEF At
  <2>. QED  BY <1>5, <2>1, <2>2, <2>3, <2>4 DEF Click
<1>6. ASSUME NEW w \in Threads, ThreadStep(w)  PROVE Goal
  <2>0. UNCHANGED <<m_bDestroyed, m_phThreadList>>
    BY <1>6 DEF ThreadStep, Wait, CountDown, Enter, Check, Pop, Execute, Renotify, Leave, pool
  <2>1. CASE Wait(w)
    <3>1. Cardinality(At("count")') = Cardinality(At("count")) + 1
      BY <2>1, ComingMoves DEF Wait
    <3>2. semaphore' = semaphore - 1 /\ m_usSemaphoreCount' = m_usSemaphoreCount
      BY <2>1 DEF Wait, counters
    <3>. QED  BY <1>0, <1>1, <2>0, <3>1, <3>2
  <2>2. CASE CountDown(w)
    <3>1. Cardinality(At("count")') = Cardinality(At("count")) - 1 /\ Cardinality(At("count")) > 0
      BY <2>2, ComingMoves DEF CountDown
    <3>2. semaphore' = semaphore /\ m_usSemaphoreCount' = Down(m_usSemaphoreCount)
      BY <2>2 DEF CountDown, Counted
    <3>3. m_usSemaphoreCount \in 1..128 => Down(m_usSemaphoreCount) = m_usSemaphoreCount - 1
      BY SmallWords
    <3>. QED  BY <1>0, <1>1, <2>0, <3>1, <3>2, <3>3
  <2>3. CASE Renotify(w)
    <3>1. At("count")' = At("count")
      BY <2>3, ComingMoves DEF Renotify
    <3>2. CASE Pending /\ Available /\ CanRelease(1)
      <4>1. semaphore' = semaphore + 1 /\ m_usSemaphoreCount' = Up(m_usSemaphoreCount)
        BY <2>3, <3>2 DEF Renotify
      <4>2. m_usSemaphoreCount \in 0..128 => Up(m_usSemaphoreCount) = m_usSemaphoreCount + 1
        BY SmallWords
      <4>. QED  BY <1>0, <1>1, <2>0, <3>1, <4>1, <4>2
    <3>3. CASE ~ (Pending /\ Available /\ CanRelease(1))
      BY <1>3, <2>0, <2>3, <3>1, <3>3 DEF Renotify
    <3>. QED  BY <3>2, <3>3
  <2>4. CASE Enter(w) \/ Check(w) \/ Pop(w) \/ (\E ok \in BOOLEAN : Execute(w, ok)) \/ Leave(w)
    <3>1. UNCHANGED <<m_usSemaphoreCount, semaphore>>
      BY <2>4 DEF Enter, Check, Pop, Execute, Leave, pool, counters
    <3>2. PICK where : Goto(w, where) /\ pc[w] # "count" /\ where # "count"
      BY <2>4 DEF Enter, Check, Pop, Execute, Leave
    <3>3. At("count")' = At("count")
      BY <3>2, ComingMoves
    <3>. QED  BY <1>3, <2>0, <3>1, <3>3
  <2>. QED  BY <1>6, <2>1, <2>2, <2>3, <2>4 DEF ThreadStep
<1>7. CASE UNCHANGED vars
  <2>1. UNCHANGED <<m_bDestroyed, m_phThreadList, m_usSemaphoreCount, semaphore, pc>>
    BY <1>7 DEF vars, pool, counters, workers
  <2>. QED  BY <1>3, <2>1 DEF At
<1>. QED  BY <1>4, <1>5, <1>6, <1>7 DEF Next

-----------------------------------------------------------------------------
(* The requests. *)

\* What PopRequest leaves of a queue without duplicates: all but the first.
LEMMA RemainingIsTail ==
  ASSUME NEW q \in Seq(Requests), q # <<>>,
         \A i, k \in DOMAIN q : q[i] = q[k] => i = k
  PROVE  /\ Remaining(q) = Tail(q)
         /\ Tail(q) \in Seq(Requests) /\ Len(Tail(q)) = Len(q) - 1
         /\ \A k \in DOMAIN Tail(q) : k + 1 \in DOMAIN q /\ Tail(q)[k] = q[k + 1]
         /\ {q[k] : k \in DOMAIN q} = {Tail(q)[k] : k \in DOMAIN Tail(q)} \cup {q[1]}
         /\ q[1] \in Requests
<1>1. Len(q) \in Nat /\ Len(q) > 0 /\ DOMAIN q = 1..Len(q)
  BY EmptySeq
<1>2. /\ Tail(q) \in Seq(Requests) /\ Len(Tail(q)) = Len(q) - 1
      /\ DOMAIN Tail(q) = 1..(Len(q) - 1)
      /\ \A k \in 1..(Len(q) - 1) : Tail(q)[k] = q[k + 1]
  BY <1>1, HeadTailProperties
<1>3. Remaining(q) = Tail(q)
  BY <1>1 DEF Remaining
<1>4. \A k \in DOMAIN Tail(q) : k + 1 \in DOMAIN q /\ Tail(q)[k] = q[k + 1]
  BY <1>1, <1>2
<1>5. {q[k] : k \in DOMAIN q} \subseteq {Tail(q)[k] : k \in DOMAIN Tail(q)} \cup {q[1]}
  <2>. SUFFICES ASSUME NEW k \in DOMAIN q, k # 1
       PROVE  q[k] \in {Tail(q)[j] : j \in DOMAIN Tail(q)}
    OBVIOUS
  <2>1. k - 1 \in DOMAIN Tail(q) /\ Tail(q)[k - 1] = q[k]
    BY <1>1, <1>2
  <2>. QED  BY <2>1
<1>6. 1 \in DOMAIN q /\ q[1] \in Requests
  BY <1>1
<1>. QED  BY <1>2, <1>3, <1>4, <1>5, <1>6

\* A step that leaves the queue, the threads' requests and the dialog's lists alone.
SameRequests ==
  /\ UNCHANGED <<m_RequestQueue, pRequest, m_RequestList, refused, deleted, executed>>
  /\ \A w \in Threads : pc'[w] = "execute" <=> pc[w] = "execute"

\* Such a step keeps what is said of the requests, if it does not make the pool serve.
LEMMA SameRequestsKept ==
  ASSUME RequestInv, SameRequests, Serving' => Serving
  PROVE  RequestInv'
<1>1. At("execute")' = At("execute")
  BY DEF SameRequests, At
<1>2. Queued' = Queued /\ Held' = Held /\ Made' = Made
  BY <1>1 DEF SameRequests, Queued, Held, Made
<1>. QED  BY <1>1, <1>2 DEF SameRequests, RequestInv

\* A pool with an empty queue and no thread that executes a request has nothing to keep.
LEMMA EmptyPool ==
  ASSUME m_RequestQueue' = <<>>, \A w \in Threads : pc'[w] # "execute",
         \A w \in Threads : pRequest'[w] = NoRequest, (executed \subseteq Made)'
  PROVE  RequestInv'
<1>1. At("execute")' = {}
  BY DEF At
<1>2. Queued' = {} /\ Held' = {}
  BY <1>1 DEF Queued, Held
<1>. QED  BY <1>1, <1>2 DEF RequestInv

\* Whether the pool serves is decided by the dialog's calls.
LEMMA ThreadsDoNotServe ==
  ASSUME NEW w \in Threads, ThreadStep(w)
  PROVE  UNCHANGED <<m_bDestroyed, dialog, m_phThreadList>> /\ (Serving' <=> Serving)
<1>1. UNCHANGED <<m_bDestroyed, dialog, m_phThreadList>>
  BY DEF ThreadStep, Wait, CountDown, Enter, Check, Pop, Execute, Renotify, Leave, pool, caller
<1>. QED  BY <1>1 DEF Serving

\* A posted request is new, so it is queued once; and while the pool serves there is room
\* in the semaphore for every request that finds a thread available, so none is refused
\* that is queued (lines 239-273).
LEMMA PostKept ==
  ASSUME TypeOK, PhaseInv, SemaphoreInv, RequestInv, NEW r \in Requests, Post(r)
  PROVE  RequestInv'
<1>0. N \in 1..64 /\ semaphore \in 0..N /\ Cardinality(At("count")) \in 0..N
  BY Sizes
<1>1. /\ r \notin Made
      /\ UNCHANGED <<m_bDestroyed, m_phThreadList, pc, pRequest, dialog, deleted, executed>>
      /\ m_RequestQueue' = Append(m_RequestQueue, r)
  BY DEF Post, Fresh, Made, workers, caller
<1>2. PICK q \in Seq(Requests) : q = m_RequestQueue
  BY DEF TypeOK
<1>3. /\ DOMAIN Append(q, r) = 1..(Len(q) + 1) /\ DOMAIN q = 1..Len(q) /\ Len(q) \in Nat
      /\ Append(q, r)[Len(q) + 1] = r
      /\ \A k \in 1..Len(q) : Append(q, r)[k] = q[k]
  BY <1>2, AppendProperties
<1>4. Queued' = Queued \cup {r}
  BY <1>1, <1>2, <1>3 DEF Queued
<1>5. At("execute")' = At("execute") /\ Held' = Held
  BY <1>1 DEF At, Held
<1>6. Queued \cup Held \subseteq Made
  BY DEF RequestInv, Made
<1>7. \A i, k \in DOMAIN m_RequestQueue' : m_RequestQueue'[i] = m_RequestQueue'[k] => i = k
  <2>1. \A k \in 1..Len(q) : q[k] \in Made
    BY <1>2, <1>3, <1>6 DEF Queued
  <2>2. \A i, k \in 1..Len(q) : q[i] = q[k] => i = k
    BY <1>2, <1>3 DEF RequestInv
  <2>3. \A i, k \in 1..(Len(q) + 1) : Append(q, r)[i] = Append(q, r)[k] => i = k
    BY <1>1, <1>3, <2>1, <2>2
  <2>. QED  BY <1>1, <1>2, <1>3, <2>3
<1>8. r \in (m_RequestList \cup refused)' /\ m_RequestList \subseteq m_RequestList'
      /\ refused \subseteq refused'
  BY DEF Post
<1>9. r \notin deleted \cup executed
  BY <1>1 DEF RequestInv, Made
<1>10. ASSUME Serving'  PROVE (Queued \cup Held)' \cap refused' = {}
  <2>1. Serving
    BY <1>1, <1>10 DEF Serving
  <2>2. m_usSemaphoreCount = semaphore + Cardinality(At("count"))
    BY <2>1 DEF Serving, SemaphoreInv
  <2>3. Available => CanRelease(1)
    BY <1>0, <2>2 DEF Available, CanRelease
  <2>4. refused' = refused
    BY <2>3 DEF Post
  <2>. QED  BY <1>1, <1>4, <1>5, <2>1, <2>4 DEF RequestInv, Made
<1>11. (Queued \cap Held = {})'
  BY <1>1, <1>4, <1>5, <1>6 DEF RequestInv
<1>12. (Queued \cup Held \subseteq (m_RequestList \cup refused) \ (deleted \cup executed))'
  BY <1>1, <1>4, <1>5, <1>8, <1>9 DEF RequestInv
<1>13. (executed \subseteq Made)'
  BY <1>1, <1>8 DEF RequestInv, Made
<1>14. \A w \in Threads : pc'[w] = "execute" <=> pRequest'[w] # NoRequest
  BY <1>1 DEF RequestInv
<1>15. (\A w, v \in At("execute") : pRequest[w] = pRequest[v] => w = v)'
  BY <1>1, <1>5 DEF RequestInv
<1>. QED  BY <1>7, <1>10, <1>11, <1>12, <1>13, <1>14, <1>15 DEF RequestInv

\* A thread that pops a request takes the only occurrence of it (lines 282-292).
LEMMA PopKept ==
  ASSUME TypeOK, RequestInv, NEW w \in Threads, Pop(w)
  PROVE  RequestInv'
<1>0. UNCHANGED <<m_RequestList, refused, deleted, executed>> /\ (Serving' <=> Serving)
  BY ThreadsDoNotServe DEF Pop, ThreadStep, requests
<1>1. CASE m_RequestQueue = <<>>
  <2>1. Goto(w, "leave") /\ UNCHANGED <<m_RequestQueue, pRequest>> /\ pc[w] = "pop"
    BY <1>1 DEF Pop
  <2>2. SameRequests
    BY <1>0, <2>1, Moved DEF SameRequests
  <2>. QED  BY <1>0, <2>2, SameRequestsKept
<1>2. CASE m_RequestQueue # <<>>
  <2>1. PICK q \in Seq(Requests) : q = m_RequestQueue
    BY DEF TypeOK
  <2>2. \A i, k \in DOMAIN q : q[i] = q[k] => i = k
    BY <2>1 DEF RequestInv
  <2>3. /\ Remaining(q) = Tail(q) /\ q[1] \in Requests
        /\ Len(q) \in Nat /\ DOMAIN q = 1..Len(q) /\ Len(q) > 0
        /\ \A k \in DOMAIN Tail(q) : k + 1 \in DOMAIN q /\ Tail(q)[k] = q[k + 1]
        /\ {q[k] : k \in DOMAIN q} = {Tail(q)[k] : k \in DOMAIN Tail(q)} \cup {q[1]}
        /\ DOMAIN Tail(q) \subseteq Nat \ {0}
    <3>1. q # <<>>
      BY <1>2, <2>1
    <3>2. Len(q) \in Nat /\ DOMAIN q = 1..Len(q) /\ Len(q) > 0
      BY <3>1, EmptySeq
    <3>3. Tail(q) \in Seq(Requests)
      BY <2>2, <3>1, RemainingIsTail
    <3>4. DOMAIN Tail(q) \subseteq Nat \ {0}
      BY <3>3
    <3>. QED  BY <2>2, <3>1, <3>2, <3>4, RemainingIsTail
  <2>4. m_RequestQueue' = Tail(q)
    BY <1>2, <2>1, <2>3 DEF Pop
  <2>5. /\ pRequest'[w] = q[1] /\ \A v \in Threads \ {w} : pRequest'[v] = pRequest[v]
        /\ Goto(w, "execute") /\ pc[w] = "pop"
    BY <1>2, <2>1 DEF Pop, TypeOK
  <2>6. pc'[w] = "execute" /\ \A v \in Threads \ {w} : pc'[v] = pc[v]
    BY <2>5, Moved
  <2>7. Queued = Queued' \cup {q[1]} /\ q[1] \notin Queued'
    <3>1. Queued = Queued' \cup {q[1]}
      <4>1. Queued = {q[k] : k \in DOMAIN q}
        BY <2>1, Zenon DEF Queued
      <4>2. Queued' = {Tail(q)[k] : k \in DOMAIN Tail(q)}
        BY <2>4, Zenon DEF Queued
      <4>. QED  BY <2>3, <4>1, <4>2
    <3>2. \A k \in DOMAIN Tail(q) : Tail(q)[k] # q[1]
      <4>. SUFFICES ASSUME NEW k \in DOMAIN Tail(q), Tail(q)[k] = q[1]  PROVE FALSE
        OBVIOUS
      <4>1. k + 1 \in DOMAIN q /\ 1 \in DOMAIN q /\ q[k + 1] = q[1] /\ k \in Nat \ {0}
        BY <2>3
      <4>2. k + 1 = 1
        BY <2>2, <4>1
      <4>. QED  BY <4>1, <4>2
    <3>. QED  BY <2>4, <3>1, <3>2 DEF Queued
  <2>8. w \notin At("execute") /\ At("execute")' = At("execute") \cup {w}
    BY <2>5, <2>6 DEF At
  <2>9. Held' = Held \cup {q[1]}
    BY <2>5, <2>8 DEF Held, At
  <2>10. q[1] \in Queued /\ q[1] \notin Held /\ q[1] # NoRequest
    BY <2>3, <2>7, RequestsAssumption DEF RequestInv
  <2>11. (\A v, u \in At("execute") : pRequest[v] = pRequest[u] => v = u)'
    <3>1. \A v \in At("execute") : pRequest'[v] = pRequest[v] /\ pRequest[v] # q[1]
      BY <2>5, <2>8, <2>10 DEF Held, At
    <3>. QED  BY <2>5, <2>8, <3>1 DEF RequestInv
  <2>12. \A v \in Threads : pc'[v] = "execute" <=> pRequest'[v] # NoRequest
    BY <2>5, <2>6, <2>10 DEF RequestInv
  <2>13. (\A i, k \in DOMAIN m_RequestQueue : m_RequestQueue[i] = m_RequestQueue[k] => i = k)'
    <3>1. \A i, k \in DOMAIN Tail(q) : Tail(q)[i] = Tail(q)[k] => i = k
      <4>. SUFFICES ASSUME NEW i \in DOMAIN Tail(q), NEW k \in DOMAIN Tail(q),
                           Tail(q)[i] = Tail(q)[k]
                    PROVE  i = k
        OBVIOUS
      <4>1. i + 1 \in DOMAIN q /\ k + 1 \in DOMAIN q /\ q[i + 1] = q[k + 1] /\ i \in Nat /\ k \in Nat
        BY <2>3
      <4>2. i + 1 = k + 1
        BY <2>2, <4>1
      <4>. QED  BY <4>1, <4>2
    <3>. QED  BY <2>4, <3>1
  <2>14. (Queued \cap Held = {})'
    BY <2>7, <2>9 DEF RequestInv
  <2>15. (Queued \cup Held)' = Queued \cup Held
    BY <2>7, <2>9
  <2>16. Made' = Made
    BY <1>0 DEF Made
  <2>. QED  BY <1>0, <2>11, <2>12, <2>13, <2>14, <2>15, <2>16 DEF RequestInv
<1>. QED  BY <1>1, <1>2

\* A request that has been executed is in nobody's hands any more.
LEMMA ExecuteKept ==
  ASSUME TypeOK, RequestInv, NEW w \in Threads, NEW ok \in BOOLEAN, Execute(w, ok)
  PROVE  RequestInv' /\ executed' = executed \cup {pRequest[w]}
         /\ pRequest[w] \in Requests \ executed
<1>0. /\ UNCHANGED <<m_RequestList, refused, deleted, m_RequestQueue>> /\ (Serving' <=> Serving)
      /\ executed' = executed \cup {pRequest[w]}
  BY ThreadsDoNotServe DEF Execute, ThreadStep, pool
<1>1. /\ pRequest'[w] = NoRequest /\ \A v \in Threads \ {w} : pRequest'[v] = pRequest[v]
      /\ pc[w] = "execute"
  BY DEF Execute, TypeOK
<1>2. PICK where \in {"check2", "leave"} : Goto(w, where)
  BY DEF Execute
<1>3. pc'[w] # "execute" /\ \A v \in Threads \ {w} : pc'[v] = pc[v]
  BY <1>2, Moved
<1>4. w \in At("execute") /\ At("execute")' = At("execute") \ {w}
  BY <1>1, <1>3 DEF At
<1>5. \A v \in At("execute") \ {w} : pRequest'[v] = pRequest[v] /\ pRequest[v] # pRequest[w]
  BY <1>1, <1>4 DEF RequestInv, At
<1>6. Held' = Held \ {pRequest[w]} /\ pRequest[w] \in Held
  <2>1. pRequest[w] \in Held
    BY <1>4 DEF Held
  <2>2. Held' \subseteq Held \ {pRequest[w]}
    BY <1>4, <1>5 DEF Held
  <2>3. Held \ {pRequest[w]} \subseteq Held'
    BY <1>4, <1>5 DEF Held
  <2>. QED  BY <2>1, <2>2, <2>3
<1>7. Queued' = Queued /\ Made' = Made /\ pRequest[w] \notin Queued
  BY <1>0, <1>6 DEF Queued, Made, RequestInv
<1>8. pRequest[w] \in Made \ executed /\ pRequest[w] \in Requests
  BY <1>6, RequestsAssumption DEF RequestInv, Made, TypeOK
<1>9. (\A v, u \in At("execute") : pRequest[v] = pRequest[u] => v = u)'
  BY <1>4, <1>5 DEF RequestInv
<1>10. \A v \in Threads : pc'[v] = "execute" <=> pRequest'[v] # NoRequest
  BY <1>1, <1>3 DEF RequestInv
<1>11. (\A i, k \in DOMAIN m_RequestQueue : m_RequestQueue[i] = m_RequestQueue[k] => i = k)'
  BY <1>0 DEF RequestInv
<1>12. /\ (Queued \cap Held = {})'
       /\ (Queued \cup Held \subseteq (m_RequestList \cup refused) \ (deleted \cup executed))'
       /\ (Serving => (Queued \cup Held) \cap refused = {})'
       /\ (executed \subseteq Made)'
  BY <1>0, <1>6, <1>7, <1>8 DEF RequestInv
<1>. QED  BY <1>0, <1>8, <1>9, <1>10, <1>11, <1>12 DEF RequestInv

\* Every step keeps each request in one place, and the dialog's lists apart.
LEMMA RequestsKept ==
  TypeOK /\ PhaseInv /\ SemaphoreInv /\ RequestInv /\ [Next]_vars => RequestInv'
<1>. SUFFICES ASSUME TypeOK, PhaseInv, SemaphoreInv, RequestInv, [Next]_vars  PROVE RequestInv'
  OBVIOUS
<1>1. ASSUME \A w \in Threads : pc[w] \in {"none", "wait", "exit"}
      PROVE  \A w \in Threads : pRequest[w] = NoRequest
  BY <1>1 DEF RequestInv
<1>2. CASE CallStep
  <2>1. ASSUME NEW w \in Threads, AddThread(w)  PROVE RequestInv'
    <3>1. SameRequests /\ (Serving' <=> Serving)
      BY <2>1, Moved DEF AddThread, SameRequests, Serving, pool, caller, requests
    <3>. QED  BY <3>1, SameRequestsKept
  <2>2. CASE CreateReturns
    <3>1. /\ m_RequestQueue' = <<>> /\ UNCHANGED <<pc, pRequest, executed, Made>>
          /\ \A w \in Threads : pc[w] \in {"none", "wait"}
      BY <2>2 DEF CreateReturns, PhaseInv, workers, requests, Made
    <3>2. (executed \subseteq Made)'
      BY <3>1 DEF RequestInv
    <3>. QED  BY <1>1, <3>1, <3>2, EmptyPool
  <2>3. CASE AddThreadFails \/ SetDestroyFlag \/ Release \/ DestroyPoolFails
    <3>1. SameRequests
      BY <2>3 DEF AddThreadFails, SetDestroyFlag, Release, DestroyPoolFails, SameRequests,
           pool, workers, requests
    <3>2. Serving' => Serving
      BY <2>3 DEF AddThreadFails, SetDestroyFlag, Release, DestroyPoolFails, Serving, pool,
           PhaseInv
    <3>. QED  BY <3>1, <3>2, SameRequestsKept
  <2>4. CASE CancelRequests
    <3>1. m_RequestQueue' = <<>> /\ UNCHANGED <<pc, pRequest, requests>> /\ ~ Serving'
      BY <2>4 DEF CancelRequests, workers, Serving
    <3>2. At("execute")' = At("execute") /\ Held' = Held /\ Queued' = {} /\ Made' = Made
      BY <3>1 DEF At, Held, Queued, Made, requests
    <3>. QED  BY <3>1, <3>2 DEF RequestInv, requests
  <2>5. CASE DestroyPool
    <3>1. /\ m_RequestQueue' = <<>> /\ UNCHANGED <<pRequest, executed, refused>>
          /\ \A w \in Threads : pc[w] = "exit" /\ pc'[w] = "none"
      BY <2>5 DEF DestroyPool, Joined, At
    <3>2. Made' = Made
      BY <2>5 DEF DestroyPool, Made
    <3>3. (executed \subseteq Made)'
      BY <3>1, <3>2 DEF RequestInv
    <3>. QED  BY <1>1, <3>1, <3>3, EmptyPool
  <2>. QED  BY <1>2, <2>1, <2>2, <2>3, <2>4, <2>5 DEF CallStep
<1>3. CASE Click
  <2>1. ASSUME NEW ok \in BOOLEAN, Create(ok)  PROVE RequestInv'
    <3>1. /\ m_RequestQueue' = <<>> /\ UNCHANGED <<pc, pRequest, executed, Made>>
          /\ \A w \in Threads : pc[w] = "none"
      BY <2>1 DEF Create, PhaseInv, workers, requests, Made
    <3>2. (executed \subseteq Made)'
      BY <3>1 DEF RequestInv
    <3>. QED  BY <1>1, <3>1, <3>2, EmptyPool
  <2>2. ASSUME NEW r \in Requests, Post(r)  PROVE RequestInv'
    BY <2>2, PostKept
  <2>3. ASSUME NEW r \in Requests, PostRefused(r)  PROVE RequestInv'
    <3>1. /\ m_phThreadList = "null" /\ m_RequestQueue' = <<>> /\ UNCHANGED <<pc, pRequest, executed>>
          /\ \A w \in Threads : pc[w] = "none"
      BY <2>3 DEF PostRefused, PhaseInv, pool, workers
    <3>2. (executed \subseteq Made)'
      BY <2>3, <3>1 DEF PostRefused, RequestInv, Made
    <3>. QED  BY <1>1, <3>1, <3>2, EmptyPool
  <2>4. CASE Destroy
    <3>1. SameRequests /\ (Serving' => Serving)
      BY <2>4 DEF Destroy, SameRequests, Serving, pool, workers, requests
    <3>. QED  BY <3>1, SameRequestsKept
  <2>. QED  BY <1>3, <2>1, <2>2, <2>3, <2>4 DEF Click
<1>4. ASSUME NEW w \in Threads, ThreadStep(w)  PROVE RequestInv'
  <2>1. CASE Pop(w)
    BY <2>1, PopKept
  <2>2. ASSUME NEW ok \in BOOLEAN, Execute(w, ok)  PROVE RequestInv'
    BY <2>2, ExecuteKept
  <2>3. CASE Wait(w) \/ CountDown(w) \/ Enter(w) \/ Check(w) \/ Renotify(w) \/ Leave(w)
    <3>1. UNCHANGED <<m_RequestQueue, pRequest, m_RequestList, refused, deleted, executed>>
      BY <2>3 DEF Wait, CountDown, Enter, Check, Renotify, Leave, pool, requests
    <3>2. PICK where : Goto(w, where) /\ pc[w] # "execute" /\ where # "execute"
      BY <2>3 DEF Wait, CountDown, Enter, Check, Renotify, Leave
    <3>3. SameRequests
      BY <3>1, <3>2, Moved DEF SameRequests
    <3>. QED  BY <1>4, <3>3, ThreadsDoNotServe, SameRequestsKept
  <2>. QED  BY <1>4, <2>1, <2>2, <2>3 DEF ThreadStep
<1>5. CASE UNCHANGED vars
  <2>1. SameRequests /\ (Serving' <=> Serving)
    BY <1>5 DEF vars, SameRequests, Serving, pool, workers, caller, requests
  <2>. QED  BY <2>1, SameRequestsKept
<1>. QED  BY <1>2, <1>3, <1>4, <1>5 DEF Next

\* The pending requests and the failures are requests the dialog has made, and failed
\* requests are executed once.
LEMMA BoundsKept ==
  TypeOK /\ RequestInv /\ BoundInv /\ [Next]_vars =>
    /\ BoundInv'
    /\ m_usPendingReqCount' \in Nat /\ failures' \in Nat
<1>. SUFFICES ASSUME TypeOK, RequestInv, BoundInv, [Next]_vars
     PROVE  BoundInv' /\ m_usPendingReqCount' \in Nat /\ failures' \in Nat
  OBVIOUS
<1>0. /\ Made \in SUBSET Requests /\ Cardinality(Made) \in Nat
      /\ executed \in SUBSET Requests /\ Cardinality(executed) \in Nat
      /\ m_usPendingReqCount \in Nat /\ failures \in Nat
  BY Sizes
<1>1. ASSUME m_usPendingReqCount' \in Nat, m_usPendingReqCount' <= m_usPendingReqCount,
             Made' = Made, UNCHANGED <<failures, executed>>
      PROVE  BoundInv' /\ m_usPendingReqCount' \in Nat /\ failures' \in Nat
  BY <1>0, <1>1 DEF BoundInv
<1>2. ASSUME UNCHANGED <<m_usPendingReqCount, requests>>
      PROVE  BoundInv' /\ m_usPendingReqCount' \in Nat /\ failures' \in Nat
  BY <1>0, <1>1, <1>2 DEF requests, Made
<1>3. ASSUME NEW r \in Requests, Made' = Made \cup {r},  r \notin Made,
             m_usPendingReqCount' \in Nat, m_usPendingReqCount' <= m_usPendingReqCount + 1,
             UNCHANGED <<failures, executed>>
      PROVE  BoundInv' /\ m_usPendingReqCount' \in Nat /\ failures' \in Nat
  <2>1. PICK S \in SUBSET Requests : S = Made
    BY <1>0
  <2>2. Cardinality(S \cup {r}) = Cardinality(S) + 1
    BY <1>3, <2>1, RequestCounts
  <2>3. Cardinality(Made') = Cardinality(Made) + 1
    BY <1>3, <2>1, <2>2
  <2>. QED  BY <1>0, <1>3, <2>3 DEF BoundInv
<1>4. CASE CallStep
  <2>1. CASE DestroyPool
    <3>1. UNCHANGED <<m_usPendingReqCount, failures, executed>> /\ Made' = Made
      BY <2>1 DEF DestroyPool, counters, Made
    <3>. QED  BY <1>0, <1>1, <3>1
  <2>2. CASE ~ DestroyPool
    BY <1>2, <1>4, <2>2 DEF CallStep, AddThread, AddThreadFails, CreateReturns, CancelRequests,
         SetDestroyFlag, Release, DestroyPoolFails, pool, counters
  <2>. QED  BY <2>1, <2>2
<1>5. CASE Click
  <2>1. ASSUME NEW ok \in BOOLEAN, Create(ok)
        PROVE  BoundInv' /\ m_usPendingReqCount' \in Nat /\ failures' \in Nat
    <3>1. m_usPendingReqCount' = 0 /\ UNCHANGED <<failures, executed>> /\ Made' = Made
      BY <2>1 DEF Create, requests, Made
    <3>. QED  BY <1>0, <1>1, <3>1
  <2>2. ASSUME NEW r \in Requests, Post(r)
        PROVE  BoundInv' /\ m_usPendingReqCount' \in Nat /\ failures' \in Nat
    <3>1. Made' = Made \cup {r} /\ r \notin Made /\ UNCHANGED <<failures, executed>>
      BY <2>2 DEF Post, Made, Fresh
    <3>2. Up(m_usPendingReqCount) \in Nat /\ Up(m_usPendingReqCount) <= m_usPendingReqCount + 1
      BY <1>0, Words
    <3>3. m_usPendingReqCount' \in {m_usPendingReqCount, Up(m_usPendingReqCount)}
      BY <2>2 DEF Post
    <3>4. m_usPendingReqCount' \in Nat /\ m_usPendingReqCount' <= m_usPendingReqCount + 1
      BY <1>0, <3>2, <3>3
    <3>. QED  BY <1>3, <3>1, <3>4
  <2>3. ASSUME NEW r \in Requests, PostRefused(r)
        PROVE  BoundInv' /\ m_usPendingReqCount' \in Nat /\ failures' \in Nat
    <3>1. /\ Made' = Made \cup {r} /\ r \notin Made
          /\ UNCHANGED <<failures, executed, m_usPendingReqCount>>
      BY <2>3 DEF PostRefused, Made, Fresh, pool, counters
    <3>. QED  BY <1>0, <1>3, <3>1
  <2>4. CASE Destroy
    BY <1>2, <2>4 DEF Destroy, pool, counters
  <2>. QED  BY <1>5, <2>1, <2>2, <2>3, <2>4 DEF Click
<1>6. ASSUME NEW w \in Threads, ThreadStep(w)
      PROVE  BoundInv' /\ m_usPendingReqCount' \in Nat /\ failures' \in Nat
  <2>1. ASSUME NEW ok \in BOOLEAN, Execute(w, ok)
        PROVE  BoundInv' /\ m_usPendingReqCount' \in Nat /\ failures' \in Nat
    <3>1. PICK S \in SUBSET Requests : S = executed
      BY <1>0
    <3>2. executed' = S \cup {pRequest[w]} /\ pRequest[w] \in Requests \ S
      BY <2>1, <3>1, ExecuteKept
    <3>3. PICK r \in Requests \ S : r = pRequest[w]
      BY <3>2
    <3>4. Cardinality(S \cup {r}) = Cardinality(S) + 1
      BY RequestCounts
    <3>5. Cardinality(executed') = Cardinality(executed) + 1
      BY <3>1, <3>2, <3>3, <3>4
    <3>6. /\ failures' \in {failures, failures + 1} /\ m_usPendingReqCount' = m_usPendingReqCount
          /\ Made' = Made
      BY <2>1 DEF Execute, pool, counters, Made
    <3>. QED  BY <1>0, <3>5, <3>6 DEF BoundInv
  <2>2. CASE Renotify(w)
    <3>1. UNCHANGED <<failures, executed>> /\ Made' = Made
      BY <2>2 DEF Renotify, requests, Made
    <3>2. m_usPendingReqCount' \in Nat /\ m_usPendingReqCount' <= m_usPendingReqCount
      <4>1. CASE m_usPendingReqCount' = m_usPendingReqCount
        BY <1>0, <4>1
      <4>2. CASE m_usPendingReqCount' # m_usPendingReqCount
        <5>1. m_usPendingReqCount > 0 /\ m_usPendingReqCount' = (m_usPendingReqCount - 1) % Word
          BY <2>2, <4>2 DEF Renotify, Pending, Down
        <5>2. PICK x \in Nat : x = m_usPendingReqCount - 1
          BY <1>0, <5>1
        <5>3. x % Word \in Nat /\ x % Word <= x
          BY DEF Word
        <5>. QED  BY <1>0, <5>1, <5>2, <5>3
      <4>. QED  BY <4>1, <4>2
    <3>. QED  BY <1>1, <3>1, <3>2
  <2>3. CASE Wait(w) \/ CountDown(w) \/ Enter(w) \/ Check(w) \/ Pop(w) \/ Leave(w)
    BY <1>2, <2>3 DEF Wait, CountDown, Enter, Check, Pop, Leave, pool, counters
  <2>. QED  BY <1>6, <2>1, <2>2, <2>3 DEF ThreadStep
<1>7. CASE UNCHANGED vars
  BY <1>2, <1>7 DEF vars, pool, counters
<1>. QED  BY <1>4, <1>5, <1>6, <1>7 DEF Next

-----------------------------------------------------------------------------
(* The queue and its announcements. *)

\* The announcement of a request: one unit of the semaphore, or one more pending request.
LEMMA PostAnnounces ==
  ASSUME TypeOK, SemaphoreInv, BoundInv, QueueInv, Countable, NEW r \in Requests, Post(r), Serving
  PROVE  Len(m_RequestQueue') = (semaphore + m_usPendingReqCount + Cardinality(Coming))'
<1>0. /\ N \in 1..64 /\ semaphore \in 0..N /\ Cardinality(Coming) \in 0..N
      /\ Made \in SUBSET Requests /\ Cardinality(Made) \in Nat
      /\ Cardinality(Requests) \in Nat /\ m_usPendingReqCount \in Nat
      /\ Len(m_RequestQueue) = semaphore + m_usPendingReqCount + Cardinality(Coming)
  BY Sizes DEF QueueInv
<1>1. Len(m_RequestQueue') = Len(m_RequestQueue) + 1
  BY AppendProperties DEF Post, TypeOK
<1>2. Coming' = Coming
  BY DEF Post, workers, Coming, At
<1>3. CASE Available /\ CanRelease(1)
  <2>1. semaphore' = semaphore + 1 /\ m_usPendingReqCount' = m_usPendingReqCount
    BY <1>3 DEF Post
  <2>. QED  BY <1>0, <1>1, <1>2, <2>1
<1>4. CASE ~ (Available /\ CanRelease(1))
  <2>1. semaphore' = semaphore /\ m_usPendingReqCount' = Up(m_usPendingReqCount)
    BY <1>4 DEF Post
  <2>2. PICK S \in SUBSET Requests : S = Made
    BY <1>0
  <2>3. r \in Requests \ S
    BY <2>2 DEF Post, Fresh, Made
  <2>4. /\ Cardinality(S \cup {r}) = Cardinality(S) + 1
        /\ Cardinality(S \cup {r}) <= Cardinality(Requests)
    BY <2>3, RequestCounts
  <2>5. Word \in Nat /\ Cardinality(Requests) < Word
    BY DEF Word, Countable
  <2>6. m_usPendingReqCount < Word - 1
    BY <1>0, <2>2, <2>4, <2>5 DEF BoundInv
  <2>7. Up(m_usPendingReqCount) = m_usPendingReqCount + 1
    BY <1>0, <2>6, Words
  <2>. QED  BY <1>0, <1>1, <1>2, <2>1, <2>7
<1>. QED  BY <1>3, <1>4

\* While the pool serves, the queue holds one request for every unit of the semaphore,
\* every thread on its way to the queue and every pending request, if the requests fit the
\* unsigned short that counts the pending ones (lines 239-273, 380-419 and 435-451).
LEMMA QueueKept ==
  TypeOK /\ PhaseInv /\ SemaphoreInv /\ RequestInv /\ BoundInv /\ QueueInv /\ [Next]_vars
    => QueueInv'
<1>. SUFFICES ASSUME TypeOK, PhaseInv, SemaphoreInv, RequestInv, BoundInv, QueueInv, [Next]_vars,
                     Countable, Serving'
     PROVE  (Len(m_RequestQueue) = semaphore + m_usPendingReqCount + Cardinality(Coming))'
  BY DEF QueueInv, Countable
<1> DEFINE Goal == (Len(m_RequestQueue) = semaphore + m_usPendingReqCount + Cardinality(Coming))'
<1>0. /\ N \in 1..64 /\ semaphore \in 0..N /\ Cardinality(Coming) \in 0..N
      /\ m_usPendingReqCount \in Nat
  BY Sizes
<1>1. ASSUME Serving
      PROVE  Len(m_RequestQueue) = semaphore + m_usPendingReqCount + Cardinality(Coming)
  BY <1>1 DEF QueueInv
<1>2. ASSUME Serving, UNCHANGED <<m_RequestQueue, semaphore, m_usPendingReqCount>>,
             Coming' = Coming
      PROVE  Goal
  BY <1>1, <1>2
<1>3. ASSUME m_RequestQueue' = <<>>, semaphore' = 0, m_usPendingReqCount' = 0,
             \A w \in Threads : pc'[w] \in {"none", "wait"}
      PROVE  Goal
  <2>1. Coming' = {}
    BY <1>3 DEF Coming, At
  <2>2. Cardinality(Coming') = 0 /\ Len(<<>>) = 0
    BY <2>1, FS_EmptySet, EmptySeq
  <2>. QED  BY <1>3, <2>2
<1>4. CASE CallStep
  <2>1. ASSUME NEW w \in Threads, AddThread(w)  PROVE Goal
    <3>1. \A v \in Threads : pc'[v] \in {"none", "wait"}
      BY <2>1, Moved DEF AddThread, PhaseInv
    <3>. QED  BY <1>3, <2>1, <3>1 DEF AddThread, PhaseInv, pool, counters
  <2>2. CASE CreateReturns
    BY <1>3, <2>2 DEF CreateReturns, PhaseInv, counters, workers
  <2>3. CASE AddThreadFails
    BY <1>3, <2>3 DEF AddThreadFails, PhaseInv, pool, counters, workers
  <2>4. CASE CancelRequests \/ SetDestroyFlag \/ Release \/ DestroyPool \/ DestroyPoolFails
    BY <2>4 DEF CancelRequests, SetDestroyFlag, Release, DestroyPool, DestroyPoolFails, Serving,
         PhaseInv, pool
  <2>. QED  BY <1>4, <2>1, <2>2, <2>3, <2>4 DEF CallStep
<1>5. CASE Click
  <2>1. ASSUME NEW ok \in BOOLEAN, Create(ok)  PROVE Goal
    BY <1>3, <2>1 DEF Create, PhaseInv, workers
  <2>2. ASSUME NEW r \in Requests, Post(r)  PROVE Goal
    <3>1. Serving
      BY <2>2 DEF Post, Serving, caller
    <3>. QED  BY <2>2, <3>1, PostAnnounces
  <2>3. ASSUME NEW r \in Requests, PostRefused(r)  PROVE Goal
    BY <2>3 DEF PostRefused, Serving, pool
  <2>4. CASE Destroy
    <3>1. /\ Serving /\ UNCHANGED <<m_RequestQueue, semaphore, m_usPendingReqCount, pc>>
      BY <2>4 DEF Destroy, Serving, pool, counters, workers
    <3>. QED  BY <1>2, <3>1 DEF Coming, At
  <2>. QED  BY <1>5, <2>1, <2>2, <2>3, <2>4 DEF Click
<1>6. ASSUME NEW w \in Threads, ThreadStep(w)  PROVE Goal
  <2>0. /\ Serving /\ ~ m_bDestroyed
        /\ Len(m_RequestQueue) = semaphore + m_usPendingReqCount + Cardinality(Coming)
    BY <1>1, <1>6, ThreadsDoNotServe DEF Serving
  <2>1. CASE Wait(w)
    <3>1. Cardinality(Coming') = Cardinality(Coming) + 1
      BY <2>1, ComingMoves DEF Wait
    <3>2. semaphore' = semaphore - 1 /\ UNCHANGED <<m_RequestQueue, m_usPendingReqCount>>
      BY <2>1 DEF Wait, counters
    <3>. QED  BY <1>0, <2>0, <3>1, <3>2
  <2>2. CASE CountDown(w)
    <3>1. Cardinality(Coming') = Cardinality(Coming)
      BY <2>2, ComingMoves DEF CountDown
    <3>2. UNCHANGED <<m_RequestQueue, m_usPendingReqCount, semaphore>>
      BY <2>2 DEF CountDown
    <3>. QED  BY <2>0, <3>1, <3>2
  <2>3. CASE Enter(w) \/ Check(w) \/ (\E ok \in BOOLEAN : Execute(w, ok)) \/ Leave(w)
    <3>1. UNCHANGED <<m_RequestQueue, m_usPendingReqCount, semaphore>>
      BY <2>3 DEF Enter, Check, Execute, Leave, pool, counters
    <3>2. PICK where : /\ Goto(w, where)
                       /\ w \in Coming <=> where \in {"count", "enter", "check", "pop"}
      BY <2>0, <2>3 DEF Enter, Check, Execute, Leave, Coming, At
    <3>3. Coming' = Coming
      BY <3>2, ComingMoves
    <3>. QED  BY <1>2, <2>0, <3>1, <3>3
  <2>4. CASE Pop(w)
    <3>1. pc[w] = "pop" /\ w \in Coming /\ UNCHANGED <<m_usPendingReqCount, semaphore>>
      BY <2>4 DEF Pop, Coming, At, counters
    <3>2. PICK S \in SUBSET Threads : S = Coming
      BY Sizes
    <3>3. Cardinality(Coming) > 0
      BY <3>1, <3>2, ThreadCounts
    <3>4. m_RequestQueue # <<>>
      <4>1. Len(m_RequestQueue) > 0
        BY <1>0, <2>0, <3>3
      <4>. QED  BY <4>1, EmptySeq
    <3>5. m_RequestQueue' = Remaining(m_RequestQueue) /\ Goto(w, "execute")
      BY <2>4, <3>4 DEF Pop
    <3>6. Cardinality(Coming') = Cardinality(Coming) - 1
      BY <3>1, <3>5, ComingMoves
    <3>7. PICK q \in Seq(Requests) : q = m_RequestQueue
      BY DEF TypeOK
    <3>8. Len(m_RequestQueue') = Len(m_RequestQueue) - 1
      <4>1. \A i, k \in DOMAIN q : q[i] = q[k] => i = k
        BY <3>7 DEF RequestInv
      <4>2. Remaining(q) = Tail(q) /\ Len(Tail(q)) = Len(q) - 1
        BY <3>4, <3>7, <4>1, RemainingIsTail
      <4>. QED  BY <3>5, <3>7, <4>2
    <3>. QED  BY <1>0, <2>0, <3>1, <3>6, <3>8
  <2>5. CASE Renotify(w)
    <3>1. Coming' = Coming /\ m_RequestQueue' = m_RequestQueue
      <4>0. Goto(w, "leave") /\ w \notin Coming
        BY <2>5 DEF Renotify, Coming, At
      <4>1. Coming' = Coming
        BY <4>0, ComingMoves
      <4>. QED  BY <2>5, <4>1 DEF Renotify
    <3>2. CASE Pending /\ Available /\ CanRelease(1)
      <4>1. /\ semaphore' = semaphore + 1 /\ m_usPendingReqCount' = Down(m_usPendingReqCount)
            /\ m_usPendingReqCount > 0
        BY <2>5, <3>2 DEF Renotify, Pending
      <4>2. m_usPendingReqCount < Word
        <5>1. Word \in Nat /\ Cardinality(Requests) < Word
          BY DEF Word, Countable
        <5>2. Cardinality(Made) <= Cardinality(Requests) /\ Cardinality(Made) \in Nat
              /\ Cardinality(Requests) \in Nat
          BY Sizes
        <5>. QED  BY <1>0, <5>1, <5>2 DEF BoundInv
      <4>3. Down(m_usPendingReqCount) = m_usPendingReqCount - 1
        BY <1>0, <4>1, <4>2, Words
      <4>. QED  BY <1>0, <2>0, <3>1, <4>1, <4>3
    <3>3. CASE ~ (Pending /\ Available /\ CanRelease(1))
      BY <1>2, <2>0, <2>5, <3>1, <3>3 DEF Renotify
    <3>. QED  BY <3>2, <3>3
  <2>. QED  BY <1>6, <2>1, <2>2, <2>3, <2>4, <2>5 DEF ThreadStep
<1>7. CASE UNCHANGED vars
  <2>1. UNCHANGED <<m_RequestQueue, semaphore, m_usPendingReqCount, pc>> /\ Serving
    BY <1>7 DEF vars, pool, counters, workers, caller, Serving
  <2>. QED  BY <1>2, <2>1 DEF Coming, At
<1>. QED  BY <1>4, <1>5, <1>6, <1>7 DEF Next

-----------------------------------------------------------------------------
(* Types. *)

\* The types, given the bounds of the counters.
LEMMA TypesKept ==
  TypeOK /\ RequestInv /\ [Next]_vars /\ m_lActiveThread' \in 0..N /\ BoundInv'
    /\ m_usPendingReqCount' \in Nat /\ failures' \in Nat => TypeOK'
<1>. SUFFICES ASSUME TypeOK, RequestInv, [Next]_vars, m_lActiveThread' \in 0..N, BoundInv',
                     m_usPendingReqCount' \in Nat, failures' \in Nat
              PROVE  TypeOK'
  OBVIOUS
<1> DEFINE RequestSetsOK ==
      m_RequestList \subseteq Requests /\ refused \subseteq Requests
        /\ deleted \subseteq Requests /\ executed \subseteq Requests
<1> DEFINE ThreadsOK ==
      pc \in [Threads -> ThreadPcs] /\ pRequest \in [Threads -> Requests \cup {NoRequest}]
        /\ stragglers \subseteq Threads
<1> DEFINE CallerOK ==
      dialog \in DialogPcs /\ creating \in BOOLEAN /\ creates \in 0..MaxCreates
<1> DEFINE PoolOK ==
      /\ m_bDestroyed \in BOOLEAN /\ m_phThreadList \in {"null", "list"}
      /\ m_usSemaphoreCount \in 0..(Word - 1) /\ semaphore \in 0..N
      /\ m_RequestQueue \in Seq(Requests)
<1>0. /\ N \in 1..64 /\ N - m_lActiveThread \in Int /\ m_usSemaphoreCount \in Nat
      /\ semaphore \in 0..N /\ MaxCreates \in Nat /\ Word \in Nat /\ Word > 0 /\ creates \in Nat
      /\ RequestSetsOK /\ ThreadsOK /\ CallerOK /\ PoolOK
  <2>1. RequestSetsOK /\ ThreadsOK /\ CallerOK /\ PoolOK /\ m_lActiveThread \in 0..N
    BY DEF TypeOK
  <2>2. N \in 1..64 /\ MaxCreates \in Nat
    BY ThreadSets, OptionsAssumption
  <2>3. Word \in Nat /\ Word > 0
    BY DEF Word
  <2>4. m_usSemaphoreCount \in Nat
    BY <2>1, <2>3
  <2>5. semaphore \in 0..N /\ creates \in Nat /\ N - m_lActiveThread \in Int
    BY <2>1, <2>2
  <2>. QED  BY <2>1, <2>2, <2>3, <2>4, <2>5
<1>1. RequestSetsOK'
  <2>1. CASE DestroyPool
    BY <1>0, <2>1 DEF DestroyPool
  <2>2. ASSUME NEW r \in Requests, Post(r) \/ PostRefused(r)  PROVE RequestSetsOK'
    BY <1>0, <2>2 DEF Post, PostRefused
  <2>3. ASSUME NEW w \in Threads, NEW ok \in BOOLEAN, Execute(w, ok)  PROVE RequestSetsOK'
    <3>1. executed' = executed \cup {pRequest[w]} /\ pRequest[w] \in Requests
      BY <2>3, ExecuteKept
    <3>. QED  BY <1>0, <2>3, <3>1 DEF Execute
  <2>4. ASSUME UNCHANGED requests  PROVE RequestSetsOK'
    BY <1>0, <2>4 DEF requests
  <2>. QED  BY <2>1, <2>2, <2>3, <2>4 DEF Next, CallStep, Click, ThreadStep, AddThread,
              AddThreadFails, CreateReturns, CancelRequests, SetDestroyFlag, Release,
              DestroyPoolFails, Create, Destroy, Wait, CountDown, Enter, Check, Pop, Renotify,
              Leave, vars
<1>2. ThreadsOK'
  <2>1. ASSUME NEW w \in Threads, NEW where \in ThreadPcs, Goto(w, where)
        PROVE  pc' \in [Threads -> ThreadPcs]
    BY <1>0, <2>1 DEF Goto
  <2>2. ASSUME NEW w \in Threads, ThreadStep(w)  PROVE ThreadsOK'
    <3>1. PICK where \in ThreadPcs : Goto(w, where)
      BY <2>2 DEF ThreadStep, Wait, CountDown, Enter, Check, Pop, Execute, Renotify, Leave, ThreadPcs
    <3>2. pc' \in [Threads -> ThreadPcs]
      BY <2>1, <3>1
    <3>3. stragglers' = stragglers
      BY <2>2 DEF ThreadStep, Wait, CountDown, Enter, Check, Pop, Execute, Renotify, Leave
    <3>4. pRequest' \in [Threads -> Requests \cup {NoRequest}]
      <4>1. CASE Pop(w) /\ m_RequestQueue # <<>>
        <5>1. m_RequestQueue[1] \in Requests
          BY <1>0, <4>1, EmptySeq
        <5>. QED  BY <1>0, <4>1, <5>1 DEF Pop
      <4>2. ASSUME NEW ok \in BOOLEAN, Execute(w, ok)
            PROVE  pRequest' \in [Threads -> Requests \cup {NoRequest}]
        BY <1>0, <4>2 DEF Execute
      <4>3. ASSUME pRequest' = pRequest  PROVE pRequest' \in [Threads -> Requests \cup {NoRequest}]
        BY <1>0, <4>3
      <4>. QED  BY <2>2, <4>1, <4>2, <4>3 DEF ThreadStep, Wait, CountDown, Enter, Check, Pop,
                  Renotify, Leave
    <3>. QED  BY <1>0, <3>2, <3>3, <3>4
  <2>3. ASSUME NEW w \in Threads, AddThread(w)  PROVE ThreadsOK'
    BY <1>0, <2>1, <2>3 DEF AddThread, ThreadPcs
  <2>4. CASE DestroyPool
    <3>1. pc' \in [Threads -> ThreadPcs]
      BY <1>0, <2>4 DEF DestroyPool, ThreadPcs
    <3>. QED  BY <1>0, <2>4, <3>1 DEF DestroyPool
  <2>5. ASSUME UNCHANGED workers, stragglers' \subseteq Threads  PROVE ThreadsOK'
    BY <1>0, <2>5 DEF workers
  <2>6. CASE Release
    <3>1. stragglers' \subseteq Threads
      BY <2>6 DEF Release, At
    <3>. QED  BY <2>5, <2>6, <3>1 DEF Release
  <2>. QED  BY <1>0, <2>2, <2>3, <2>4, <2>5, <2>6 DEF Next, CallStep, Click,
              AddThreadFails, CreateReturns, CancelRequests, SetDestroyFlag,
              DestroyPoolFails, Create, Destroy, Post, PostRefused, vars
<1>3. CallerOK'
  <2>1. ASSUME NEW ok \in BOOLEAN, Create(ok)  PROVE CallerOK'
    BY <1>0, <2>1 DEF Create, DialogPcs
  <2>2. ASSUME UNCHANGED creates, creating' \in BOOLEAN, dialog' \in DialogPcs  PROVE CallerOK'
    BY <1>0, <2>2
  <2>3. CASE CallStep \/ Destroy
    BY <1>0, <2>2, <2>3 DEF CallStep, AddThread, AddThreadFails, CreateReturns, CancelRequests,
         SetDestroyFlag, Release, DestroyPool, DestroyPoolFails, Destroy, caller, DialogPcs
  <2>4. ASSUME UNCHANGED caller  PROVE CallerOK'
    BY <1>0, <2>4 DEF caller
  <2>. QED  BY <2>1, <2>3, <2>4 DEF Next, Click, Post, PostRefused, ThreadStep, Wait, CountDown,
              Enter, Check, Pop, Execute, Renotify, Leave, vars
<1>4. PoolOK'
  <2>0. /\ Up(m_usSemaphoreCount) \in 0..(Word - 1) /\ Down(m_usSemaphoreCount) \in 0..(Word - 1)
    BY <1>0, Words
  <2>1. ASSUME NEW ok \in BOOLEAN, Create(ok)  PROVE PoolOK'
    BY <1>0, <2>1 DEF Create
  <2>2. ASSUME NEW r \in Requests, Post(r)  PROVE PoolOK'
    <3>1. m_RequestQueue' \in Seq(Requests)
      BY <1>0, <2>2, AppendProperties DEF Post
    <3>2. semaphore' \in 0..N /\ m_usSemaphoreCount' \in 0..(Word - 1)
      BY <1>0, <2>0, <2>2 DEF Post, CanRelease
    <3>. QED  BY <1>0, <2>2, <3>1, <3>2 DEF Post
  <2>3. CASE Release
    <3>1. semaphore' \in 0..N
      BY <1>0, <2>3 DEF Release, CanRelease, Released, Surplus
    <3>. QED  BY <1>0, <2>3, <3>1 DEF Release, counters
  <2>4. CASE CreateReturns \/ CancelRequests \/ SetDestroyFlag \/ DestroyPool
    <3>1. /\ UNCHANGED <<m_usSemaphoreCount, semaphore>> /\ m_bDestroyed' \in BOOLEAN
          /\ m_phThreadList' \in {"null", "list"}
      BY <1>0, <2>4 DEF CreateReturns, CancelRequests, SetDestroyFlag, DestroyPool, counters
    <3>2. m_RequestQueue' = <<>> \/ m_RequestQueue' = m_RequestQueue
      BY <2>4 DEF CreateReturns, CancelRequests, SetDestroyFlag, DestroyPool
    <3>3. m_RequestQueue' \in Seq(Requests)
      BY <1>0, <3>2, EmptySeq
    <3>. QED  BY <1>0, <3>1, <3>3
  <2>5. ASSUME UNCHANGED pool  PROVE PoolOK'
    BY <1>0, <2>5 DEF pool, counters
  <2>6. ASSUME NEW w \in Threads, Pop(w)  PROVE PoolOK'
    <3>1. m_RequestQueue' \in Seq(Requests)
      <4>1. CASE m_RequestQueue = <<>>
        BY <1>0, <2>6, <4>1 DEF Pop
      <4>2. CASE m_RequestQueue # <<>>
        <5>1. PICK q \in Seq(Requests) : q = m_RequestQueue
          BY <1>0
        <5>2. \A i, k \in DOMAIN q : q[i] = q[k] => i = k
          BY <5>1 DEF RequestInv
        <5>3. Remaining(q) \in Seq(Requests)
          BY <4>2, <5>1, <5>2, RemainingIsTail
        <5>. QED  BY <2>6, <4>2, <5>1, <5>3 DEF Pop
      <4>. QED  BY <4>1, <4>2
    <3>. QED  BY <1>0, <2>6, <3>1 DEF Pop, counters
  <2>7. ASSUME NEW w \in Threads,
               Wait(w) \/ CountDown(w) \/ Enter(w) \/ Renotify(w) \/ Leave(w)
        PROVE  PoolOK'
    <3>1. semaphore' \in 0..N /\ m_usSemaphoreCount' \in 0..(Word - 1)
      <4>1. CASE Wait(w)
        BY <1>0, <4>1 DEF Wait, counters
      <4>2. CASE CountDown(w)
        BY <1>0, <2>0, <4>2 DEF CountDown, Counted
      <4>3. CASE Renotify(w)
        BY <1>0, <2>0, <4>3 DEF Renotify, CanRelease
      <4>4. CASE Enter(w) \/ Leave(w)
        BY <1>0, <4>4 DEF Enter, Leave
      <4>. QED  BY <2>7, <4>1, <4>2, <4>3, <4>4
    <3>. QED  BY <1>0, <2>7, <3>1 DEF Wait, CountDown, Enter, Renotify, Leave
  <2>. QED  BY <2>1, <2>2, <2>3, <2>4, <2>5, <2>6, <2>7 DEF Next, CallStep, Click, ThreadStep,
              AddThread, AddThreadFails, DestroyPoolFails, Destroy, PostRefused, Check, Execute, vars
<1>5. m_usPendingReqCount' \in 0..Cardinality(Requests) /\ failures' \in 0..Cardinality(Requests)
  <2>1. Made' \in SUBSET Requests /\ executed' \in SUBSET Requests
    BY <1>1 DEF Made
  <2>2. /\ Cardinality(Made') \in Nat /\ Cardinality(Made') <= Cardinality(Requests)
        /\ Cardinality(executed') \in Nat /\ Cardinality(executed') <= Cardinality(Requests)
        /\ Cardinality(Requests) \in Nat
    BY <2>1, RequestCounts
  <2>3. failures' <= Cardinality(executed') /\ m_usPendingReqCount' <= Cardinality(Made')
    BY DEF BoundInv
  <2>. QED  BY <2>2, <2>3
<1>. QED  BY <1>1, <1>2, <1>3, <1>4, <1>5 DEF TypeOK

-----------------------------------------------------------------------------
(* The theorems. *)

\* PoolInv holds initially and is kept by every step of the dialog and the threads.
LEMMA PoolInductive ==
  /\ Init => PoolInv
  /\ PoolInv /\ [Next]_vars => PoolInv'
<1>1. Init => PoolInv
  <2>. SUFFICES ASSUME Init  PROVE PoolInv
    OBVIOUS
  <2>0. /\ N \in 1..64 /\ Word \in Nat /\ Word > 0 /\ MaxCreates \in Nat
        /\ Cardinality(Requests) \in Nat
    BY ThreadSets, RequestCounts, OptionsAssumption DEF Word
  <2>1. Active = {} /\ Coming = {} /\ At("count") = {} /\ At("execute") = {} /\ Queued = {} /\ Held = {}
    BY DEF Init, Active, Coming, At, Queued, Held
  <2>2. Cardinality({}) = 0
    BY FS_EmptySet
  <2>3. TypeOK
    <3>1. pc \in [Threads -> ThreadPcs] /\ pRequest \in [Threads -> Requests \cup {NoRequest}]
      BY DEF Init, ThreadPcs
    <3>2. m_RequestQueue \in Seq(Requests)
      BY EmptySeq DEF Init
    <3>3. /\ m_bDestroyed \in BOOLEAN /\ creating \in BOOLEAN
          /\ m_phThreadList \in {"null", "list"} /\ dialog \in DialogPcs
          /\ m_RequestList \subseteq Requests /\ refused \subseteq Requests
          /\ deleted \subseteq Requests /\ executed \subseteq Requests
          /\ stragglers \subseteq Threads
      BY DEF Init, DialogPcs
    <3>4. /\ m_usSemaphoreCount \in 0..(Word - 1) /\ m_lActiveThread \in 0..N
          /\ m_usPendingReqCount \in 0..Cardinality(Requests) /\ semaphore \in 0..N
          /\ creates \in 0..MaxCreates /\ failures \in 0..Cardinality(Requests)
      BY <2>0 DEF Init
    <3>. QED  BY <3>1, <3>2, <3>3, <3>4 DEF TypeOK
  <2>4. PhaseInv
    BY DEF Init, PhaseInv
  <2>5. ActiveInv /\ SemaphoreInv /\ QueueInv
    BY <2>1, <2>2 DEF Init, ActiveInv, SemaphoreInv, QueueInv, Serving
  <2>6. RequestInv
    BY <2>1 DEF Init, RequestInv
  <2>7. BoundInv
    BY <2>2 DEF Init, BoundInv, Made
  <2>. QED  BY <2>3, <2>4, <2>5, <2>6, <2>7 DEF PoolInv
<1>2. PoolInv /\ [Next]_vars => PoolInv'
  <2>. SUFFICES ASSUME PoolInv, [Next]_vars  PROVE PoolInv'
    OBVIOUS
  <2>0. TypeOK /\ PhaseInv /\ ActiveInv /\ SemaphoreInv /\ QueueInv /\ RequestInv /\ BoundInv
    BY DEF PoolInv
  <2>1. PhaseInv' /\ ActiveInv' /\ m_lActiveThread' \in 0..N
    BY <2>0, PhaseKept, ActiveKept
  <2>2. SemaphoreInv' /\ RequestInv' /\ QueueInv'
    BY <2>0, SemaphoreKept, RequestsKept, QueueKept
  <2>3. BoundInv' /\ m_usPendingReqCount' \in Nat /\ failures' \in Nat
    BY <2>0, BoundsKept
  <2>4. TypeOK'
    BY <2>0, <2>1, <2>3, TypesKept
  <2>. QED  BY <2>1, <2>2, <2>3, <2>4 DEF PoolInv
<1>. QED  BY <1>1, <1>2

\* Every behaviour of the pool and its dialog keeps PoolInv.
THEOREM PoolInvariant == Spec => []PoolInv
BY PoolInductive, PTL DEF Spec

\* Every queued request is announced or pending while the pool serves, and
\* m_usSemaphoreCount is what its comment says, for any number of threads (lines 239-273,
\* 407-419 and 435-451); provided that the dialog makes fewer than 65536 requests, which is
\* what the unsigned short m_usPendingReqCount can count.
THEOREM QueueIsAnnounced ==
  ASSUME Cardinality(Requests) < Word
  PROVE  Spec => []RequestsAnnounced
<1>1. PoolInv => RequestsAnnounced
  <2>. SUFFICES ASSUME PoolInv  PROVE RequestsAnnounced
    OBVIOUS
  <2>1. Serving => m_usSemaphoreCount = semaphore + Cardinality(At("count"))
    BY DEF PoolInv, SemaphoreInv, Serving
  <2>2. Serving =>
          Len(m_RequestQueue) = semaphore + m_usPendingReqCount + Cardinality(Coming)
    BY DEF PoolInv, QueueInv, Countable
  <2>. QED  BY <2>1, <2>2 DEF PoolInv, RequestsAnnounced, Coming
<1>. QED  BY <1>1, PoolInvariant, PTL

\* No thread executes a request that ClearRequests has deleted, no two threads the same
\* one, and while the pool serves none that PostRequest refused (OnBnClickedDestroy, lines
\* 205-221 and 463-497); for any number of threads and requests.
THEOREM RequestsAreAlive == Spec => []RequestsAlive
<1>1. PoolInv => RequestsAlive
  <2>. SUFFICES ASSUME PoolInv  PROVE RequestsAlive
    OBVIOUS
  <2>1. Held \cap deleted = {}
    BY DEF PoolInv, RequestInv
  <2>2. Serving => (Held \cup Queued) \cap refused = {}
    BY DEF PoolInv, RequestInv
  <2>3. Cardinality(Held) = Cardinality(At("execute"))
    <3>1. PICK S \in SUBSET Threads : S = At("execute")
      BY DEF At
    <3>2. PICK f : f = [w \in S |-> pRequest[w]]
      OBVIOUS
    <3>3. PICK H : H = Held
      OBVIOUS
    <3>4. f \in [S -> H] /\ \A w, v \in S : f[w] = f[v] => w = v
      BY <3>1, <3>2, <3>3 DEF Held, PoolInv, RequestInv
    <3>5. \A h \in H : \E w \in S : f[w] = h
      BY <3>1, <3>2, <3>3 DEF Held
    <3>6. f \in Bijection(S, H)
      BY <3>4, <3>5, Fun_IsBij
    <3>7. IsFiniteSet(S)
      BY ThreadSets
    <3>8. Cardinality(S) = Cardinality(H)
      BY <3>6, <3>7, FS_Bijection DEF ExistsBijection
    <3>. QED  BY <3>1, <3>3, <3>8
  <2>. QED  BY <2>1, <2>2, <2>3 DEF RequestsAlive, Held, Queued
<1>. QED  BY <1>1, PoolInvariant, PTL

-----------------------------------------------------------------------------
(* How many threads Destroy may wait for in vain. *)

\* The threads past their test of the flag, which will wait for the semaphore again.
Past == {w \in Threads : pc[w] \in {"pop", "execute", "renotify", "leave"}}

\* While Destroy waits for the threads, the units of the semaphore are enough for all
\* that wait or will wait again, except for as many as there were stragglers.
UnitsInv ==
  dialog = "join" =>
    Cardinality(At("wait")) + Cardinality(Past) <= semaphore + Cardinality(stragglers)

\* Those who sleep on the semaphore and find no unit are no more than the stragglers.
MissedByDestroy ==
  dialog = "join" => Cardinality(At("wait")) <= semaphore + Cardinality(stragglers)

\* Destroy releases a unit for every thread that AutoCounter does not count, and those
\* that wait are among them.
LEMMA ReleaseCovers ==
  ASSUME TypeOK, ActiveInv, Release
  PROVE  UnitsInv'
<1>. SUFFICES ASSUME dialog' = "join"  PROVE UnitsInv'
  BY DEF UnitsInv
<1>1. /\ Active \in SUBSET Threads /\ At("wait") \in SUBSET Threads /\ Active \cap At("wait") = {}
  BY DEF Active, At
<1>2. /\ IsFiniteSet(Active) /\ IsFiniteSet(At("wait")) /\ N \in 1..64
      /\ Cardinality(Active) \in 0..N /\ Cardinality(At("wait")) \in 0..N
      /\ Cardinality(Active \cup At("wait")) \in 0..N
  BY <1>1, ThreadSets
<1>3. Cardinality(Active) + Cardinality(At("wait")) <= N
  <2>1. Cardinality(Active \cup At("wait")) =
          Cardinality(Active) + Cardinality(At("wait")) - Cardinality(Active \cap At("wait"))
    BY <1>2, FS_Union
  <2>. QED  BY <1>1, <1>2, <2>1, FS_EmptySet
<1>4. semaphore \in 0..N /\ m_lActiveThread = Cardinality(Active)
  BY DEF TypeOK, ActiveInv
<1>5. Cardinality(At("wait")) <= semaphore'
  BY <1>2, <1>3, <1>4 DEF Release, Surplus, Released
<1>6. At("wait")' = At("wait") /\ Past' = Past /\ stragglers' = Past
  BY DEF Release, workers, At, Past
<1>7. Cardinality(Past) \in 0..N
  BY ThreadSets DEF Past
<1>8. semaphore' \in Int
  BY <1>2, <1>4 DEF Release, Surplus, Released
<1>. QED  BY <1>2, <1>5, <1>6, <1>7, <1>8 DEF UnitsInv

\* Once the flag is set a thread waits again only if it was past its test: it takes a
\* unit, or leaves Past, for every place it gets.
LEMMA ThreadUnits ==
  ASSUME TypeOK, PhaseInv, UnitsInv, NEW w \in Threads, ThreadStep(w), dialog = "join"
  PROVE  UnitsInv'
<1>1. m_bDestroyed
  BY DEF PhaseInv
<1>2. dialog' = dialog /\ stragglers' = stragglers
  BY DEF ThreadStep, Wait, CountDown, Enter, Check, Pop, Execute, Renotify, Leave, caller
<1>3. /\ At("wait") \in SUBSET Threads /\ Past \in SUBSET Threads /\ At("wait")' \in SUBSET Threads
      /\ Past' \in SUBSET Threads /\ stragglers \in SUBSET Threads
  BY DEF At, Past, TypeOK
<1>4. /\ N \in 1..64 /\ Cardinality(At("wait")) \in 0..N /\ Cardinality(Past) \in 0..N
      /\ Cardinality(At("wait")') \in 0..N /\ Cardinality(Past') \in 0..N
      /\ Cardinality(stragglers) \in 0..N /\ semaphore \in 0..N
  BY <1>3, ThreadSets DEF TypeOK
<1>5. Cardinality(At("wait")) + Cardinality(Past) <= semaphore + Cardinality(stragglers)
  BY DEF UnitsInv
<1>6. \/ pc[w] = "wait" /\ Goto(w, "count") /\ semaphore' = semaphore - 1
      \/ /\ pc[w] \in {"count", "enter", "check", "check2", "leave_exit"}
         /\ \E p \in {"enter", "check", "leave_exit", "exit"} : Goto(w, p)
         /\ semaphore' = semaphore
      \/ pc[w] \in {"pop", "execute"} /\ (\E p \in {"execute", "leave"} : Goto(w, p)) /\ semaphore' = semaphore
      \/ pc[w] = "execute" /\ Goto(w, "check2") /\ semaphore' = semaphore
      \/ pc[w] = "renotify" /\ Goto(w, "leave") /\ semaphore' \in {semaphore, semaphore + 1}
      \/ pc[w] = "leave" /\ Goto(w, "wait") /\ semaphore' = semaphore
  <2>1. CASE Wait(w) \/ CountDown(w) \/ Enter(w) \/ Check(w)
    BY <1>1, <2>1 DEF Wait, CountDown, Enter, Check, pool
  <2>2. CASE Pop(w) \/ Renotify(w) \/ Leave(w)
    BY <2>2 DEF Pop, Renotify, Leave
  <2>3. CASE \E ok \in BOOLEAN : Execute(w, ok)
    BY <2>3 DEF Execute, pool
  <2>. QED  BY <2>1, <2>2, <2>3 DEF ThreadStep
<1>7. CASE pc[w] = "wait" /\ Goto(w, "count") /\ semaphore' = semaphore - 1
  <2>1. At("wait")' = At("wait") \ {w} /\ Past' = Past /\ w \in At("wait")
    BY <1>7, Moved DEF At, Past
  <2>. QED  BY <1>2, <1>3, <1>4, <1>5, <1>7, <2>1, ThreadCounts DEF UnitsInv
<1>8. CASE /\ pc[w] \in {"count", "enter", "check", "check2", "leave_exit"}
           /\ \E p \in {"enter", "check", "leave_exit", "exit"} : Goto(w, p)
           /\ semaphore' = semaphore
  <2>1. At("wait")' = At("wait") /\ Past' = Past
    BY <1>8, Moved DEF At, Past
  <2>. QED  BY <1>2, <1>5, <1>8, <2>1 DEF UnitsInv
<1>9. CASE pc[w] \in {"pop", "execute"} /\ (\E p \in {"execute", "leave"} : Goto(w, p)) /\ semaphore' = semaphore
  <2>1. At("wait")' = At("wait") /\ Past' = Past
    BY <1>9, Moved DEF At, Past
  <2>. QED  BY <1>2, <1>5, <1>9, <2>1 DEF UnitsInv
<1>10. CASE pc[w] = "execute" /\ Goto(w, "check2") /\ semaphore' = semaphore
  <2>1. At("wait")' = At("wait") /\ Past' = Past \ {w} /\ w \in Past
    BY <1>10, Moved DEF At, Past
  <2>. QED  BY <1>2, <1>3, <1>4, <1>5, <1>10, <2>1, ThreadCounts DEF UnitsInv
<1>11. CASE pc[w] = "renotify" /\ Goto(w, "leave") /\ semaphore' \in {semaphore, semaphore + 1}
  <2>1. At("wait")' = At("wait") /\ Past' = Past
    BY <1>11, Moved DEF At, Past
  <2>. QED  BY <1>2, <1>4, <1>5, <1>11, <2>1 DEF UnitsInv
<1>12. CASE pc[w] = "leave" /\ Goto(w, "wait") /\ semaphore' = semaphore
  <2>1. /\ At("wait")' = At("wait") \cup {w} /\ Past' = Past \ {w}
        /\ w \in Past /\ w \in Threads \ At("wait")
    BY <1>12, Moved DEF At, Past
  <2>2. Cardinality(At("wait")') = Cardinality(At("wait")) + 1
    BY <1>3, <2>1, ThreadCounts
  <2>3. Cardinality(Past') = Cardinality(Past) - 1
    BY <1>3, <2>1, ThreadCounts
  <2>. QED  BY <1>2, <1>4, <1>5, <1>12, <2>2, <2>3 DEF UnitsInv
<1>. QED  BY <1>6, <1>7, <1>8, <1>9, <1>10, <1>11, <1>12

\* Every step keeps UnitsInv.
LEMMA UnitsKept == PoolInv /\ UnitsInv /\ [Next]_vars => UnitsInv'
<1>. SUFFICES ASSUME PoolInv, UnitsInv, [Next]_vars, dialog' = "join"  PROVE UnitsInv'
  BY DEF UnitsInv
<1>1. TypeOK /\ PhaseInv /\ ActiveInv
  BY DEF PoolInv
<1>2. CASE Release
  BY <1>1, <1>2, ReleaseCovers
<1>3. ASSUME NEW w \in Threads, ThreadStep(w)  PROVE UnitsInv'
  <2>1. dialog = "join"
    BY <1>3, ThreadsDoNotServe
  <2>. QED  BY <1>1, <1>3, <2>1, ThreadUnits
<1>4. CASE UNCHANGED vars
  BY <1>4 DEF UnitsInv, At, Past, vars, pool, workers, caller
<1>5. ~ (Click \/ DestroyPool \/ DestroyPoolFails \/ CancelRequests \/ SetDestroyFlag \/ CreateReturns
         \/ AddThreadFails \/ \E w \in Threads : AddThread(w))
  BY DEF Click, Create, Post, PostRefused, Destroy, DestroyPool, DestroyPoolFails, CancelRequests,
     SetDestroyFlag, CreateReturns, AddThreadFails, AddThread, caller
<1>. QED  BY <1>2, <1>3, <1>4, <1>5 DEF Next, CallStep

\* The units that Destroy releases (lines 205-221) are enough for all the threads that
\* sleep on the semaphore, except for as many as were past their test of the flag when
\* it counted: the part of DestroyReturns that is an invariant.
THEOREM DestroyMissesStragglersOnly == Spec => []MissedByDestroy
<1>1. Init => UnitsInv
  BY DEF Init, UnitsInv
<1>2. PoolInv /\ UnitsInv => MissedByDestroy
  <2>. SUFFICES ASSUME PoolInv, UnitsInv, dialog = "join"  PROVE MissedByDestroy
    BY DEF MissedByDestroy
  <2>1. /\ N \in 1..64 /\ semaphore \in 0..N /\ stragglers \in SUBSET Threads
        /\ At("wait") \in SUBSET Threads /\ Past \in SUBSET Threads
    BY ThreadSets DEF PoolInv, TypeOK, At, Past
  <2>2. /\ Cardinality(At("wait")) \in 0..N /\ Cardinality(Past) \in 0..N
        /\ Cardinality(stragglers) \in 0..N
    BY <2>1, ThreadSets
  <2>. QED  BY <2>1, <2>2 DEF UnitsInv, MissedByDestroy
<1>. QED  BY <1>1, <1>2, UnitsKept, PoolInvariant, PTL DEF Spec

=============================================================================
