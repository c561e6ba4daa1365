---------------------------- MODULE Thpool_proofs ----------------------------
(***************************************************************************)
(* Proofs about the pool of Thpool: the linked queue, what thpool_wait     *)
(* promises, the threads thpool_destroy leaves behind, and the semaphore   *)
(* that announces the jobs, for any number of pools, threads, clients and  *)
(* jobs.                                                                   *)
(***************************************************************************)
EXTENDS Thpool, FiniteSetTheorems, FunctionTheorems, SequenceTheorems, TLAPS

\* The points at which a worker is counted in num_threads_alive, in
\* num_threads_working, and at which it has a job it has not finished.
Working == {"pull", "pull_in", "pull_post", "run", "add", "post", "dec"}

Alive == Working \cup {"loop", "bsem", "bsem_in", "wait", "check", "inc", "bye"}

InHand == {"pull_post", "run", "add", "post"}

\* The members of a pool at some points.
In(p, points) == {w \in Members(p) : pc[w] \in points}

\* The jobs pulled from a pool.
Pulled(p) == {added[p][k] : k \in 1..pulled[p]}

\* The calls of the API that are under way: the state of their pool, that
\* creation and destruction of a pool are in one hand, and that a job is only
\* added to the pool it runs in.
CallInv ==
  /\ \A c \in Clients :
       /\ pc[c] # "idle" /\ pc[c] # "crashed" => call[c].pool \in Pools
       /\ pc[c] = "init" => pool[call[c].pool].state = "init"
       /\ pc[c] = "kill" => pool[call[c].pool].state = "dying"
       /\ pc[c] \in {"add", "post", "wait_len", "wait_working"} =>
            pool[call[c].pool].state = "live"
  /\ \A c, d \in Clients :
       /\ pc[c] \in {"init", "kill"} /\ pc[d] \in {"init", "kill"}
       /\ call[c].pool = call[d].pool
       => c = d
  /\ \A w \in Workers : pc[w] \in {"add", "post"} => call[w].pool = PoolOf(w)

\* The counters of a pool, and where its threads are in each of its states.
CountInv ==
  \A p \in Pools :
    /\ pool[p].alive = Cardinality(In(p, Alive))
    /\ pool[p].working = Cardinality(In(p, Working))
    /\ pool[p].state = "none" => \A w \in Members(p) : pc[w] = "unborn"
    /\ pool[p].state = "init" => \A w \in Members(p) : pc[w] # "unborn"
    /\ pool[p].state \in {"live", "dying"} => \A w \in Members(p) : pc[w] \notin {"unborn", "init"}
    /\ pool[p].state = "freed" =>
         pool[p].len = 0 /\ \A w \in Members(p) : pc[w] \in {"unlock", "dead", "crashed"}

\* The queue of a pool that is not freed.
Linked(p) ==
  /\ pulled[p] <= Len(added[p])
  /\ pool[p].len = Len(added[p]) - pulled[p]
  /\ pulled[p] < Len(added[p]) =>
       pool[p].front = added[p][pulled[p] + 1] /\ pool[p].rear = added[p][Len(added[p])]
  /\ \A i \in (pulled[p] + 1)..(Len(added[p]) - 1) : prev[added[p][i]] = added[p][i + 1]

\* No job is added twice, to whichever pool.
AddedOnce ==
  \A p, q \in Pools : \A i \in DOMAIN added[p], k \in DOMAIN added[q] :
    added[p][i] = added[q][k] => p = q /\ i = k

\* The jobs of the calls of thpool_add_work are new.
NewJobs ==
  \A x \in Workers \cup Clients : pc[x] = "add" =>
    /\ call[x].job \in Jobs
    /\ \A p \in Pools : \A k \in DOMAIN added[p] : added[p][k] # call[x].job
    /\ \A y \in Workers \cup Clients : pc[y] = "add" /\ call[y].job = call[x].job => x = y

LinkInv ==
  /\ \A p \in Pools : pool[p].state # "freed" => Linked(p)
  /\ AddedOnce
  /\ NewJobs

\* What has become of the jobs that were pulled: they are done, or a worker is
\* about to run them or runs them.
HandInv ==
  /\ \A w \in Workers : pc[w] \in InHand => job[w] \in Jobs
  /\ \A p \in Pools : pool[p].state # "freed" =>
       Pulled(p) \subseteq done \cup {job[w] : w \in In(p, InHand)}

\* The jobs a caller of thpool_wait waits for have been added; once it has read that
\* the queue is empty they have been pulled.
WaitInv ==
  \A c \in Clients :
    /\ pc[c] \in {"wait_len", "wait_working"} =>
         before[c] \subseteq {added[call[c].pool][k] : k \in DOMAIN added[call[c].pool]}
    /\ pc[c] = "wait_working" => before[c] \subseteq Pulled(call[c].pool)

DoneInv == HandInv /\ WaitInv

PoolInv == TypeOK /\ CallInv /\ CountInv /\ LinkInv /\ DoneInv

-----------------------------------------------------------------------------
(* The threads of a pool. *)

\* Every worker is a member of the pool it belongs to and of no other.
LEMMA PoolOfWorker ==
  /\ \A w \in Workers : PoolOf(w) \in Pools /\ w \in Members(PoolOf(w))
  /\ \A p \in Pools : Members(p) \subseteq Workers
  /\ \A p \in Pools : \A w \in Members(p) : PoolOf(w) = p
<1>1. ASSUME NEW w \in Workers  PROVE PoolOf(w) \in Pools /\ w \in Members(PoolOf(w))
  <2>1. \E p \in Pools : \E n \in DOMAIN Threads[p] : Threads[p][n] = w
    BY DEF Workers
  <2>2. PoolOf(w) \in Pools /\ \E n \in DOMAIN Threads[PoolOf(w)] : Threads[PoolOf(w)][n] = w
    BY <2>1 DEF PoolOf
  <2>. QED  BY <2>2 DEF Members
<1>2. ASSUME NEW p \in Pools  PROVE Members(p) \subseteq Workers
  BY DEF Members, Workers
<1>3. ASSUME NEW p \in Pools, NEW w \in Members(p)  PROVE PoolOf(w) = p
  <2>1. PoolOf(w) \in Pools /\ w \in Members(PoolOf(w))
    BY <1>1, <1>2
  <2>. QED  BY <2>1, ThreadsAssumption DEF Members
<1>. QED  BY <1>1, <1>2, <1>3

\* A pool has as many members as num_threads.
LEMMA MembersCount ==
  ASSUME NEW p \in Pools
  PROVE  IsFiniteSet(Members(p)) /\ Cardinality(Members(p)) = Len(Threads[p])
<1>. DEFINE q == Threads[p]
<1>1. q \in Seq(Workers) /\ \A m, n \in DOMAIN q : q[m] = q[n] => m = n
  BY ThreadsAssumption
<1>2. Len(q) \in Nat /\ DOMAIN q = 1..Len(q) /\ q \in [1..Len(q) -> Members(p)]
  BY <1>1 DEF Members
<1>3. \A w \in Members(p) : \E n \in 1..Len(q) : q[n] = w
  BY <1>2 DEF Members
<1>. HIDE DEF q
<1>4. q \in Bijection(1..Len(q), Members(p))
  BY <1>1, <1>2, <1>3, Fun_IsBij
<1>5. ASSUME NEW n \in Nat  PROVE IsFiniteSet(1..n) /\ Cardinality(1..n) = n
  <2>1. 1 \in Int /\ n \in Int
    OBVIOUS
  <2>2. IsFiniteSet(1..n) /\ Cardinality(1..n) = IF 1 > n THEN 0 ELSE n - 1 + 1
    BY <2>1, FS_Interval, Zenon
  <2>. QED  BY <2>2
<1>6. IsFiniteSet(1..Len(q)) /\ Cardinality(1..Len(q)) = Len(q)
  BY <1>2, <1>5
<1>7. IsFiniteSet(Members(p)) /\ Cardinality(Members(p)) = Cardinality(1..Len(q))
  BY <1>4, <1>6, FS_Bijection DEF ExistsBijection
<1>. QED  BY <1>6, <1>7 DEF q

\* The threads of a pool at some points are finitely many; they are all of them
\* when they are as many as the pool has, and none when their number is 0.
LEMMA InCount ==
  ASSUME NEW p \in Pools, NEW points
  PROVE  /\ IsFiniteSet(In(p, points)) /\ Cardinality(In(p, points)) \in Nat
         /\ Cardinality(In(p, points)) = Len(Threads[p]) => In(p, points) = Members(p)
         /\ Cardinality(In(p, points)) = 0 <=> In(p, points) = {}
<1>1. In(p, points) \in SUBSET Members(p)
  BY DEF In
<1>2. IsFiniteSet(In(p, points))
  BY <1>1, MembersCount, FS_Subset
<1>3. Cardinality(In(p, points)) = Len(Threads[p]) => In(p, points) = Members(p)
  BY <1>1, MembersCount, FS_Subset
<1>. QED  BY <1>2, <1>3, FS_CardinalityType, FS_EmptySet

\* A step of one thread changes such a set by that thread at most.
LEMMA InChange ==
  ASSUME NEW p \in Pools, NEW points, NEW w \in Workers,
         \A v \in Members(p) \ {w} : pc'[v] \in points <=> pc[v] \in points
  PROVE  /\ w \notin Members(p) \/ (pc'[w] \in points <=> pc[w] \in points)
            => In(p, points)' = In(p, points)
         /\ w \in Members(p) /\ pc[w] \notin points /\ pc'[w] \in points
            => /\ In(p, points)' = In(p, points) \cup {w}
               /\ Cardinality(In(p, points)') = Cardinality(In(p, points)) + 1
         /\ w \in Members(p) /\ pc[w] \in points /\ pc'[w] \notin points
            => /\ In(p, points)' = In(p, points) \ {w}
               /\ Cardinality(In(p, points)') = Cardinality(In(p, points)) - 1
               /\ Cardinality(In(p, points)) > 0
<1>1. IsFiniteSet(In(p, points)) /\ Cardinality(In(p, points)) \in Nat
  BY InCount
<1>2. w \notin Members(p) \/ (pc'[w] \in points <=> pc[w] \in points)
      => In(p, points)' = In(p, points)
  BY DEF In
<1>3. ASSUME w \in Members(p), pc[w] \notin points, pc'[w] \in points
      PROVE  /\ In(p, points)' = In(p, points) \cup {w}
             /\ Cardinality(In(p, points)') = Cardinality(In(p, points)) + 1
  <2>1. In(p, points)' = In(p, points) \cup {w} /\ w \notin In(p, points)
    BY <1>3 DEF In
  <2>. QED  BY <1>1, <2>1, FS_AddElement
<1>4. ASSUME w \in Members(p), pc[w] \in points, pc'[w] \notin points
      PROVE  /\ In(p, points)' = In(p, points) \ {w}
             /\ Cardinality(In(p, points)') = Cardinality(In(p, points)) - 1
             /\ Cardinality(In(p, points)) > 0
  <2>1. In(p, points)' = In(p, points) \ {w} /\ w \in In(p, points)
    BY <1>4 DEF In
  <2>2. Cardinality(In(p, points)') = Cardinality(In(p, points)) - 1
    BY <1>1, <2>1, FS_RemoveElement
  <2>3. Cardinality(In(p, points)) # 0
    BY <1>1, <2>1, FS_EmptySet
  <2>. QED  BY <1>1, <2>1, <2>2, <2>3
<1>. QED  BY <1>2, <1>3, <1>4

-----------------------------------------------------------------------------
(* Steps that only move threads between neighbouring points and change the     *)
(* semaphore or a mutex.                                                      *)

Everyone == Workers \cup Clients

PoolRecords == [state : PoolStates, front : Jobs \cup {NoJob}, rear : Jobs \cup {NoJob},
                len : Nat, v : {0, 1},
                rwmutex : Clients \cup Workers \cup {Nobody},
                semmutex : Clients \cup Workers \cup {Nobody},
                thcount_lock : Workers \cup {Nobody}, alive : Nat, working : Nat]

\* The fields that such a step does not change.
SameFields(q, r) ==
  /\ q.state = r.state /\ q.front = r.front /\ q.rear = r.rear /\ q.len = r.len
  /\ q.alive = r.alive /\ q.working = r.working

\* A worker goes on from one point to another that counts the same.
SameCounts(from, to) ==
  /\ from \in Alive <=> to \in Alive
  /\ from \in Working <=> to \in Working
  /\ from \in InHand <=> to \in InHand
  /\ to \in {"unborn", "init", "add"} \/ from \in {"unborn", "init", "add"} => to = from
  /\ to = "post" => from = "post"
  /\ from \in {"unlock", "dead", "crashed"} => to \in {"unlock", "dead", "crashed"}

QuietStep ==
  /\ UNCHANGED <<prev, job, call, added, pulled, done, before>>
  /\ \A p \in Pools : SameFields(pool'[p], pool[p])
  /\ \A c \in Clients : pc'[c] = pc[c] \/ (pc[c] = "post" /\ pc'[c] = "idle")
  /\ \A w \in Workers : SameCounts(pc[w], pc'[w])

QuietWorker(w) ==
  \/ LoopTest(w) \/ SemLock(w) \/ SemTest(w) \/ SpuriousWakeup(w) \/ AliveTest(w)
  \/ PullLock(w) \/ PullPost(w) \/ LastUnlock(w)

Signals ==
  \/ \E c \in Clients : Resume(c) \/ \E p \in Pools : Pause(c, p)
  \/ \E w \in Workers : Hold(w) \/ Release(w)

\* The pool of every thread that runs is a record.
LEMMA PoolTypes ==
  TypeOK => /\ pool \in [Pools -> PoolRecords]
            /\ pc \in [Everyone -> WorkerPcs \cup ClientPcs]
            /\ \A w \in Workers : PoolOf(w) \in Pools /\ P(w) \in PoolRecords
BY PoolOfWorker DEF TypeOK, PoolRecords, Everyone, P

\* The effect of a step of a worker on its own pool.
LEMMA StepEffect ==
  ASSUME TypeOK, NEW w \in Workers, NEW from, NEW to, NEW newpool, Step(w, from, to, newpool)
  PROVE  /\ pc[w] = from /\ pc'[w] = to
         /\ \A y \in Everyone \ {w} : pc'[y] = pc[y]
         /\ pc' = [pc EXCEPT ![w] = to]
         /\ pool' = [pool EXCEPT ![PoolOf(w)] = newpool]
         /\ pool'[PoolOf(w)] = newpool
         /\ \A p \in Pools \ {PoolOf(w)} : pool'[p] = pool[p]
         /\ UNCHANGED <<prev, flagVars, job, call, phase, signalVars, historyVars>>
BY PoolTypes DEF Step, Goto, Everyone

\* Signal and broadcast wake only members of the pool that wait, and these go back
\* to the test of the semaphore.
LEMMA WakingEffect ==
  ASSUME TypeOK, NEW p \in Pools, NEW x \in Everyone, NEW where,
         \E woken \in Signal(At(p, "wait")) \cup Broadcast(At(p, "wait")) : GotoWaking(x, where, woken)
  PROVE  /\ pc'[x] = where /\ DOMAIN pc' = Everyone
         /\ \A y \in Everyone \ {x} :
              pc'[y] = pc[y] \/ (y \in Workers /\ pc[y] = "wait" /\ pc'[y] = "bsem")
<1>1. PICK woken \in Signal(At(p, "wait")) \cup Broadcast(At(p, "wait")) : GotoWaking(x, where, woken)
  OBVIOUS
<1>2. woken \subseteq At(p, "wait")
  BY DEF Signal, Broadcast
<1>3. \A y \in woken : y \in Workers /\ pc[y] = "wait"
  BY <1>2, PoolOfWorker DEF At
<1>4. DOMAIN pc = Everyone
  BY PoolTypes
<1>. QED  BY <1>1, <1>3, <1>4 DEF GotoWaking

\* The moves that count the same.
LEMMA NeutralMoves ==
  /\ \A a : SameCounts(a, a)
  /\ SameCounts("wait", "bsem") /\ SameCounts("loop", "bsem") /\ SameCounts("loop", "bye")
  /\ SameCounts("bsem", "bsem_in") /\ SameCounts("bsem_in", "wait")
  /\ SameCounts("bsem_in", "check") /\ SameCounts("check", "inc") /\ SameCounts("check", "loop")
  /\ SameCounts("pull", "pull_in") /\ SameCounts("pull_post", "run")
  /\ SameCounts("post", "run") /\ SameCounts("unlock", "dead")
BY DEF SameCounts, Alive, Working, InHand

\* The semaphore, the tests of the flags, the signals and the returns from a mutex
\* change neither the queue nor a count.
LEMMA QuietEffect ==
  ASSUME TypeOK, CallInv,
         \/ \E w \in Workers : QuietWorker(w)
         \/ \E x \in Everyone : AddPost(x)
         \/ \E c \in Clients : KillPost(c)
         \/ Signals
         \/ UNCHANGED vars
  PROVE  QuietStep
<1>. USE NeutralMoves
<1>p. pool \in [Pools -> PoolRecords] /\ Workers \cap Clients = {}
  BY PoolTypes, ThreadsAssumption
<1>s. \A q \in PoolRecords : SameFields(q, q)
  BY DEF SameFields
<1>1. CASE Signals \/ UNCHANGED vars
  BY <1>1, <1>p, <1>s DEF Signals, Resume, Pause, Hold, Release, vars, queueVars, threadVars, historyVars,
     QuietStep
<1>2. ASSUME NEW w \in Workers, NEW to, NEW from, NEW new, Step(w, from, to, new),
             SameFields(new, P(w)), SameCounts(from, to)
      PROVE  QuietStep
  <2>1. \A p \in Pools : SameFields(pool'[p], pool[p])
    BY <1>2, <1>p, <1>s, StepEffect DEF P
  <2>2. \A v \in Workers : SameCounts(pc[v], pc'[v])
    BY <1>2, StepEffect DEF Everyone
  <2>3. \A c \in Clients : pc'[c] = pc[c]
    BY <1>2, <1>p, StepEffect DEF Everyone
  <2>. QED  BY <1>2, <2>1, <2>2, <2>3, StepEffect DEF QuietStep, historyVars
<1>3. ASSUME NEW w \in Workers, QuietWorker(w), ~ PullPost(w)  PROVE QuietStep
  <2>1. \A new \in PoolRecords : new = P(w) => SameFields(new, P(w))
    BY <1>s
  <2>2. P(w) \in PoolRecords
    BY PoolTypes
  <2>3. /\ SameFields([P(w) EXCEPT !.semmutex = w], P(w))
        /\ SameFields([P(w) EXCEPT !.semmutex = Nobody], P(w))
        /\ SameFields([P(w) EXCEPT !.semmutex = Nobody, !.v = 0], P(w))
        /\ SameFields([P(w) EXCEPT !.rwmutex = w], P(w))
        /\ SameFields([P(w) EXCEPT !.thcount_lock = Nobody], P(w))
    BY <2>2 DEF SameFields, PoolRecords
  <2>4. CASE LoopTest(w) \/ SpuriousWakeup(w) \/ AliveTest(w)
    BY <1>2, <2>1, <2>2, <2>4 DEF LoopTest, SpuriousWakeup, AliveTest
  <2>5. CASE SemLock(w) \/ SemTest(w) \/ PullLock(w) \/ LastUnlock(w)
    BY <1>2, <2>3, <2>5 DEF SemLock, SemTest, PullLock, LastUnlock
  <2>. QED  BY <1>3, <2>4, <2>5 DEF QuietWorker
<1>4. ASSUME NEW w \in Workers, PullPost(w)  PROVE QuietStep
  <2>1. PoolOf(w) \in Pools /\ P(w) \in PoolRecords
    BY PoolTypes
  <2>2. /\ pc'[w] = "run"
        /\ \A y \in Everyone \ {w} :
              pc'[y] = pc[y] \/ (y \in Workers /\ pc[y] = "wait" /\ pc'[y] = "bsem")
    BY <1>4, <2>1, WakingEffect DEF PullPost, Everyone
  <2>3. \A p \in Pools : SameFields(pool'[p], pool[p])
    BY <1>4, <1>p, <2>1 DEF PullPost, Raised, SameFields, PoolRecords
  <2>. QED  BY <1>4, <1>p, <2>2, <2>3 DEF PullPost, QuietStep, historyVars, Everyone
<1>5. ASSUME NEW x \in Everyone, AddPost(x)  PROVE QuietStep
  <2>1. call[x].pool \in Pools
    BY <1>5, PoolOfWorker DEF CallInv, AddPost, Everyone
  <2>2. /\ pc[x] = "post" /\ pc'[x] = IF x \in Clients THEN "idle" ELSE "run"
        /\ \A y \in Everyone \ {x} :
              pc'[y] = pc[y] \/ (y \in Workers /\ pc[y] = "wait" /\ pc'[y] = "bsem")
    BY ZenonT(30), <1>5, <2>1, WakingEffect DEF AddPost
  <2>3. \A p \in Pools : SameFields(pool'[p], pool[p])
    BY <1>5, <1>p, <2>1 DEF AddPost, SameFields, PoolRecords
  <2>. QED  BY <1>5, <1>p, <2>2, <2>3 DEF AddPost, QuietStep, historyVars, Everyone
<1>6. ASSUME NEW c \in Clients, KillPost(c)  PROVE QuietStep
  <2>1. call[c].pool \in Pools
    BY <1>6 DEF CallInv, KillPost
  <2>2. /\ pc[c] = "kill" /\ pc'[c] = "kill"
        /\ \A y \in Everyone \ {c} :
              pc'[y] = pc[y] \/ (y \in Workers /\ pc[y] = "wait" /\ pc'[y] = "bsem")
    BY <1>6, <2>1, WakingEffect DEF KillPost, Everyone
  <2>3. \A p \in Pools : SameFields(pool'[p], pool[p])
    BY <1>6, <1>p, <2>1 DEF KillPost, SameFields, PoolRecords
  <2>. QED  BY <1>6, <1>p, <2>2, <2>3 DEF KillPost, QuietStep, historyVars, Everyone
<1>. QED  BY <1>1, <1>3, <1>4, <1>5, <1>6

-----------------------------------------------------------------------------
(* The types. *)

\* A thread that adds a job has a pool, its own if it is a worker, that is not freed.
LEMMA CallersPool ==
  ASSUME TypeOK, CallInv, CountInv, NEW x \in Everyone, pc[x] \in {"add", "post"}
  PROVE  call[x].pool \in Pools /\ pool[call[x].pool].state # "freed"
<1>1. CASE x \in Clients
  BY <1>1 DEF CallInv
<1>2. CASE x \in Workers
  <2>1. call[x].pool \in Pools /\ x \in Members(call[x].pool)
    BY <1>2, PoolOfWorker DEF CallInv
  <2>. QED  BY <2>1 DEF CountInv
<1>. QED  BY <1>1, <1>2 DEF Everyone

\* The pool of a worker that is not leaving it is not freed.
LEMMA WorkersPool ==
  ASSUME CountInv, NEW w \in Workers, pc[w] \notin {"unlock", "dead", "crashed"}
  PROVE  PoolOf(w) \in Pools /\ w \in Members(PoolOf(w)) /\ pool[PoolOf(w)].state # "freed"
BY PoolOfWorker DEF CountInv

\* Everything but the pools and the points of the threads keeps its type.
OtherTypes ==
  /\ prev \in [Jobs -> Jobs \cup {NoJob}]
  /\ threads_keepalive \in {0, 1}
  /\ threads_on_hold \in {0, 1}
  /\ job \in [Workers -> Jobs \cup {NoJob}]
  /\ call \in [Workers \cup Clients ->
                 [pool : Pools \cup {NoPool}, job : Jobs \cup {NoJob}]]
  /\ phase \in [Clients -> 1..3]
  /\ signalled \subseteq Workers
  /\ held \subseteq Workers
  /\ pauses \in 0..MaxPauses
  /\ added \in [Pools -> Seq(Jobs)]
  /\ pulled \in [Pools -> Nat]
  /\ done \subseteq Jobs
  /\ before \in [Clients -> SUBSET Jobs]
  /\ paused \in BOOLEAN

PcTypes ==
  /\ pc \in [Everyone -> WorkerPcs \cup ClientPcs]
  /\ \A w \in Workers : pc[w] \in WorkerPcs
  /\ \A c \in Clients : pc[c] \in ClientPcs

\* TypeOK in three parts, which the steps of thpool.c disturb one at a time: the
\* pools, the points of the threads, and the rest.
LEMMA TypeParts == TypeOK <=> pool \in [Pools -> PoolRecords] /\ PcTypes /\ OtherTypes
BY DEF TypeOK, OtherTypes, PcTypes, PoolRecords, Everyone

\* The point of a thread after each of its steps is one that its kind of thread has.
LEMMA PcTypesStep ==
  ASSUME PoolInv, [Next]_vars
  PROVE  PcTypes'
<1>p. PcTypes /\ TypeOK /\ Workers \cap Clients = {}
  BY TypeParts, ThreadsAssumption DEF PoolInv
<1>1. ASSUME NEW w \in Workers, NEW where \in WorkerPcs, Goto(w, where)  PROVE PcTypes'
  BY <1>1, <1>p DEF Goto, PcTypes, Everyone
<1>2. ASSUME NEW c \in Clients, NEW where \in ClientPcs, Goto(c, where)  PROVE PcTypes'
  BY <1>2, <1>p DEF Goto, PcTypes, Everyone
<1>3. ASSUME NEW p \in Pools, NEW x \in Everyone, NEW where,
             x \in Workers => where \in WorkerPcs, x \in Clients => where \in ClientPcs,
             \E woken \in Signal(At(p, "wait")) \cup Broadcast(At(p, "wait")) : GotoWaking(x, where, woken)
      PROVE  PcTypes'
  <2>1. /\ pc'[x] = where
        /\ \A y \in Everyone \ {x} :
              pc'[y] = pc[y] \/ (y \in Workers /\ pc[y] = "wait" /\ pc'[y] = "bsem")
    BY <1>3, <1>p, WakingEffect
  <2>2. pc' = [y \in Everyone |-> pc'[y]]
    BY <1>3, <1>p DEF GotoWaking, PcTypes
  <2>3. "bsem" \in WorkerPcs
    BY DEF WorkerPcs
  <2>4. /\ \A w \in Workers : pc'[w] \in WorkerPcs
        /\ \A c \in Clients : pc'[c] \in ClientPcs
    BY <1>3, <1>p, <2>1, <2>3 DEF PcTypes, Everyone
  <2>5. pc' \in [Everyone -> WorkerPcs \cup ClientPcs]
    BY <2>2, <2>4 DEF Everyone
  <2>. QED  BY <2>4, <2>5 DEF PcTypes
<1>4. ASSUME NEW w \in Workers, WorkerStep(w) \/ SpuriousWakeup(w), ~ PullPost(w)  PROVE PcTypes'
  BY <1>1, <1>4 DEF WorkerStep, CountAlive, LoopTest, SemLock, SemTest, SpuriousWakeup, AliveTest,
     CountWorking, PullLock, Pull, RunJob, UncountWorking, UncountAlive, LastUnlock, Step, WorkerPcs
<1>5. ASSUME NEW w \in Workers, PullPost(w)  PROVE PcTypes'
  <2>1. PoolOf(w) \in Pools /\ w \in Everyone /\ w \notin Clients /\ "run" \in WorkerPcs
    BY <1>p, PoolOfWorker DEF WorkerPcs, Everyone
  <2>. QED  BY <1>3, <1>5, <2>1 DEF PullPost
<1>6. ASSUME NEW x \in Everyone, AddPost(x)  PROVE PcTypes'
  <2>1. call[x].pool \in Pools
    BY <1>6, CallersPool DEF AddPost, PoolInv
  <2>. QED  BY <1>3, <1>6, <1>p, <2>1 DEF AddPost, WorkerPcs, ClientPcs, Everyone
<1>7. ASSUME NEW x \in Everyone, AddPush(x) \/ \E p \in Pools, j \in Jobs : AddCall(x, p, j)
      PROVE  PcTypes'
  BY <1>1, <1>2, <1>7 DEF AddPush, AddCall, WorkerPcs, ClientPcs, Everyone
<1>8. ASSUME NEW c \in Clients, KillPost(c)  PROVE PcTypes'
  <2>1. call[c].pool \in Pools /\ c \in Everyone /\ c \notin Workers /\ "kill" \in ClientPcs
    BY <1>8, <1>p DEF KillPost, PoolInv, CallInv, ClientPcs, Everyone
  <2>. QED  BY <1>3, <1>8, <2>1 DEF KillPost
<1>9. ASSUME NEW c \in Clients, ClientStep(c), ~ KillPost(c)  PROVE PcTypes'
  BY <1>2, <1>9 DEF ClientStep, InitReturns, Poll, KillDone, ClientPcs
<1>10. ASSUME NEW c \in Clients, NEW p \in Pools, InitPool(c, p) \/ InitReadsGarbage(c, p)
       PROVE  PcTypes'
  BY <1>10, <1>p, PoolOfWorker DEF InitPool, InitReadsGarbage, PcTypes, WorkerPcs, ClientPcs, Everyone
<1>11. ASSUME NEW c \in Clients, NEW p \in Pools, WaitCall(c, p) \/ Destroy(c, p)  PROVE PcTypes'
  BY <1>2, <1>11 DEF WaitCall, Destroy, ClientPcs
<1>12. CASE Signals \/ UNCHANGED vars
  BY <1>12, <1>p DEF Signals, Resume, Pause, Hold, Release, vars, threadVars, PcTypes
<1>. QED  BY <1>4, <1>5, <1>6, <1>7, <1>8, <1>9, <1>10, <1>11, <1>12
          DEF Next, ApiCall, AddStep, Terminated, Signals, Everyone

\* A worker that is counted is one of a positive number.
LEMMA CountedWorker ==
  ASSUME CountInv, NEW w \in Workers
  PROVE  /\ pc[w] \in Alive => P(w).alive > 0
         /\ pc[w] \in Working => P(w).working > 0
<1>1. PoolOf(w) \in Pools /\ w \in Members(PoolOf(w))
  BY PoolOfWorker
<1>2. P(w).alive = Cardinality(In(PoolOf(w), Alive)) /\ P(w).working = Cardinality(In(PoolOf(w), Working))
  BY <1>1 DEF CountInv, P
<1>3. /\ Cardinality(In(PoolOf(w), Alive)) \in Nat
      /\ Cardinality(In(PoolOf(w), Alive)) = 0 => In(PoolOf(w), Alive) = {}
  BY <1>1, InCount
<1>4. /\ Cardinality(In(PoolOf(w), Working)) \in Nat
      /\ Cardinality(In(PoolOf(w), Working)) = 0 => In(PoolOf(w), Working) = {}
  BY <1>1, InCount
<1>5. /\ pc[w] \in Alive => w \in In(PoolOf(w), Alive)
      /\ pc[w] \in Working => w \in In(PoolOf(w), Working)
  BY <1>1 DEF In
<1>. QED  BY <1>2, <1>3, <1>4, <1>5

\* The queue that a worker is about to pull from: if it holds jobs its front is one,
\* and so is what follows the front if it holds several.
LEMMA PulledQueue ==
  ASSUME PoolInv, NEW w \in Workers, pc[w] = "pull_in"
  PROVE  LET p == PoolOf(w)  q == pool[p] IN
         /\ p \in Pools /\ w \in Members(p) /\ q.state # "freed" /\ q \in PoolRecords
         /\ added[p] \in Seq(Jobs) /\ pulled[p] \in Nat /\ pulled[p] <= Len(added[p])
         /\ q.len = Len(added[p]) - pulled[p] /\ q.len \in Nat
         /\ q.len # 0 => /\ q.front = added[p][pulled[p] + 1] /\ q.front \in Jobs
                         /\ q.rear = added[p][Len(added[p])]
         /\ q.len > 1 => Behind(q) = added[p][pulled[p] + 2] /\ Behind(q) \in Jobs
<1>. DEFINE p == PoolOf(w)
            q == pool[p]
<1>1. p \in Pools /\ w \in Members(p) /\ q.state # "freed"
  BY WorkersPool DEF PoolInv
<1>2. q \in PoolRecords /\ q.len \in Nat /\ added[p] \in Seq(Jobs) /\ pulled[p] \in Nat
  BY <1>1, TypeParts DEF PoolInv, OtherTypes, PoolRecords
<1>3. /\ pulled[p] <= Len(added[p]) /\ q.len = Len(added[p]) - pulled[p]
      /\ pulled[p] < Len(added[p]) =>
            q.front = added[p][pulled[p] + 1] /\ q.rear = added[p][Len(added[p])]
      /\ \A i \in (pulled[p] + 1)..(Len(added[p]) - 1) : prev[added[p][i]] = added[p][i + 1]
  BY <1>1 DEF PoolInv, LinkInv, Linked
<1>. HIDE DEF p, q
<1>4. q.len # 0 => /\ q.front = added[p][pulled[p] + 1] /\ q.front \in Jobs
                   /\ q.rear = added[p][Len(added[p])]
  BY <1>2, <1>3
<1>5. q.len > 1 => Behind(q) = added[p][pulled[p] + 2] /\ Behind(q) \in Jobs
  BY SMTT(30), <1>2, <1>3, <1>4 DEF Behind
<1>. QED  BY <1>1, <1>2, <1>3, <1>4, <1>5 DEF p, q

\* The fields of the record of a pool.
LEMMA RecordFields ==
  \A q \in PoolRecords :
    /\ q.len \in Nat /\ q.alive \in Nat /\ q.working \in Nat
    /\ q.front \in Jobs \cup {NoJob} /\ q.rear \in Jobs \cup {NoJob}
BY DEF PoolRecords

\* Updates of the record of a pool.
LEMMA RecordUpdates ==
  \A q \in PoolRecords :
         /\ \A a \in PoolStates : [q EXCEPT !.state = a] \in PoolRecords
         /\ \A a \in Jobs \cup {NoJob} : [q EXCEPT !.front = a] \in PoolRecords
         /\ \A a \in Jobs \cup {NoJob} : [q EXCEPT !.rear = a] \in PoolRecords
         /\ \A a \in Nat : [q EXCEPT !.len = a] \in PoolRecords
         /\ \A a \in {0, 1} : [q EXCEPT !.v = a] \in PoolRecords
         /\ \A a \in Everyone \cup {Nobody} : [q EXCEPT !.rwmutex = a] \in PoolRecords
         /\ \A a \in Everyone \cup {Nobody} : [q EXCEPT !.semmutex = a] \in PoolRecords
         /\ \A a \in Workers \cup {Nobody} : [q EXCEPT !.thcount_lock = a] \in PoolRecords
         /\ \A a \in Nat : [q EXCEPT !.alive = a] \in PoolRecords
         /\ \A a \in Nat : [q EXCEPT !.working = a] \in PoolRecords
<1>. TAKE q \in PoolRecords
<1>1. \A a \in PoolStates : [q EXCEPT !.state = a] \in PoolRecords
  BY DEF PoolRecords
<1>2. \A a \in Jobs \cup {NoJob} : [q EXCEPT !.front = a] \in PoolRecords
  BY DEF PoolRecords
<1>3. \A a \in Jobs \cup {NoJob} : [q EXCEPT !.rear = a] \in PoolRecords
  BY DEF PoolRecords
<1>4. \A a \in Nat : [q EXCEPT !.len = a] \in PoolRecords
  BY DEF PoolRecords
<1>5. \A a \in {0, 1} : [q EXCEPT !.v = a] \in PoolRecords
  BY DEF PoolRecords
<1>6. \A a \in Everyone \cup {Nobody} : [q EXCEPT !.rwmutex = a] \in PoolRecords
  BY DEF PoolRecords, Everyone
<1>7. \A a \in Everyone \cup {Nobody} : [q EXCEPT !.semmutex = a] \in PoolRecords
  BY DEF PoolRecords, Everyone
<1>8. \A a \in Workers \cup {Nobody} : [q EXCEPT !.thcount_lock = a] \in PoolRecords
  BY DEF PoolRecords
<1>9. \A a \in Nat : [q EXCEPT !.alive = a] \in PoolRecords
  BY DEF PoolRecords
<1>10. \A a \in Nat : [q EXCEPT !.working = a] \in PoolRecords
  BY DEF PoolRecords
<1>. QED  BY <1>1, <1>2, <1>3, <1>4, <1>5, <1>6, <1>7, <1>8, <1>9, <1>10

\* The record of a pool keeps its type.
LEMMA PoolRecordsStep ==
  ASSUME PoolInv, [Next]_vars
  PROVE  pool' \in [Pools -> PoolRecords]
<1>p. pool \in [Pools -> PoolRecords] /\ TypeOK /\ OtherTypes
  BY TypeParts DEF PoolInv
<1>1. ASSUME NEW w \in Workers, NEW from, NEW to, NEW new \in PoolRecords, Step(w, from, to, new)
      PROVE  pool' \in [Pools -> PoolRecords]
  BY <1>1, <1>p, PoolOfWorker DEF Step
<1>2. ASSUME NEW w \in Workers,
             \/ CountAlive(w) \/ LoopTest(w) \/ SemLock(w) \/ SemTest(w) \/ SpuriousWakeup(w)
             \/ AliveTest(w) \/ CountWorking(w) \/ PullLock(w) \/ LastUnlock(w)
      PROVE  pool' \in [Pools -> PoolRecords]
  <2>1. P(w) \in PoolRecords
    BY <1>p, PoolTypes
  <2>2. /\ [P(w) EXCEPT !.semmutex = w] \in PoolRecords
        /\ [P(w) EXCEPT !.semmutex = Nobody] \in PoolRecords
        /\ [P(w) EXCEPT !.semmutex = Nobody, !.v = 0] \in PoolRecords
        /\ [P(w) EXCEPT !.rwmutex = w] \in PoolRecords
        /\ [P(w) EXCEPT !.thcount_lock = Nobody] \in PoolRecords
        /\ [P(w) EXCEPT !.alive = @ + 1] \in PoolRecords
        /\ [P(w) EXCEPT !.working = @ + 1] \in PoolRecords
    <3>1. P(w).alive + 1 \in Nat /\ P(w).working + 1 \in Nat
      BY <2>1, RecordFields
    <3>2. [P(w) EXCEPT !.semmutex = Nobody, !.v = 0] = [[P(w) EXCEPT !.semmutex = Nobody] EXCEPT !.v = 0]
      BY <2>1 DEF PoolRecords
    <3>3. [P(w) EXCEPT !.semmutex = Nobody] \in PoolRecords
      BY <2>1, RecordUpdates
    <3>. QED  BY <2>1, <3>1, <3>2, <3>3, RecordUpdates DEF Everyone
  <2>. QED  BY <1>1, <1>2, <2>1, <2>2 DEF CountAlive, LoopTest, SemLock, SemTest, SpuriousWakeup,
            AliveTest, CountWorking, PullLock, LastUnlock
<1>3. ASSUME NEW w \in Workers, UncountWorking(w) \/ UncountAlive(w)
      PROVE  pool' \in [Pools -> PoolRecords]
  <2>1. P(w) \in PoolRecords
    BY <1>p, PoolTypes
  <2>2. CASE UncountWorking(w)
    <3>1. P(w).working > 0
      BY <2>2, CountedWorker DEF UncountWorking, Step, PoolInv, Working
    <3>2. [P(w) EXCEPT !.working = @ - 1] \in PoolRecords
      <4>1. P(w).working - 1 \in Nat
        BY <2>1, <3>1, RecordFields
      <4>. QED  BY <2>1, <4>1, RecordUpdates
    <3>. QED  BY <1>1, <2>2, <3>2 DEF UncountWorking
  <2>3. CASE UncountAlive(w)
    <3>1. P(w).alive > 0
      BY <2>3, CountedWorker DEF UncountAlive, Step, PoolInv, Alive
    <3>2. [P(w) EXCEPT !.alive = @ - 1, !.thcount_lock = w] \in PoolRecords
      <4>1. PICK n \in Nat : n = P(w).alive - 1
        BY <2>1, <3>1, RecordFields
      <4>2. [P(w) EXCEPT !.alive = @ - 1, !.thcount_lock = w]
              = [[P(w) EXCEPT !.alive = n] EXCEPT !.thcount_lock = w]
        BY <2>1, <4>1 DEF PoolRecords
      <4>. QED  BY <2>1, <4>2, RecordUpdates
    <3>. QED  BY <1>1, <2>3, <3>2 DEF UncountAlive
  <2>. QED  BY <1>3, <2>2, <2>3
<1>4. ASSUME NEW w \in Workers, PullPost(w)  PROVE pool' \in [Pools -> PoolRecords]
  <2>1. PoolOf(w) \in Pools /\ P(w) \in PoolRecords
    BY <1>p, PoolTypes
  <2>2. PICK r : r = [[P(w) EXCEPT !.v = 1] EXCEPT !.rwmutex = Nobody]
    OBVIOUS
  <2>3. pool' = [pool EXCEPT ![PoolOf(w)] = r]
    BY <1>4, <1>p, <2>1, <2>2 DEF PullPost, Raised, P
  <2>4. r \in PoolRecords
    BY <2>1, <2>2, RecordUpdates
  <2>. QED  BY <1>p, <2>1, <2>3, <2>4
<1>5. ASSUME NEW w \in Workers, Pull(w)  PROVE pool' \in [Pools -> PoolRecords]
  <2>. DEFINE p == PoolOf(w)
              q == pool[p]
  <2>1. /\ p \in Pools /\ q \in PoolRecords /\ q.len \in Nat
        /\ q.len > 1 => Behind(q) \in Jobs
    BY <1>5, PulledQueue DEF Pull
  <2>2. PICK r : /\ r = [q EXCEPT !.front = IF q.len = 0 THEN @ ELSE IF q.len = 1 THEN NoJob ELSE Behind(q),
                                 !.rear = IF q.len = 1 THEN NoJob ELSE @,
                                 !.len = IF q.len = 0 THEN 0 ELSE q.len - 1,
                                 !.rwmutex = IF q.len > 1 THEN w ELSE Nobody]
    OBVIOUS
  <2>3. r \in PoolRecords
    <3>. HIDE DEF q
    <3>1. PICK f \in Jobs \cup {NoJob} : f = IF q.len = 0 THEN q.front ELSE IF q.len = 1 THEN NoJob ELSE Behind(q)
      BY <2>1, RecordFields
    <3>2. PICK g \in Jobs \cup {NoJob} : g = IF q.len = 1 THEN NoJob ELSE q.rear
      BY <2>1, RecordFields
    <3>3. PICK n \in Nat : n = IF q.len = 0 THEN 0 ELSE q.len - 1
      BY <2>1
    <3>4. PICK m \in Everyone \cup {Nobody} : m = IF q.len > 1 THEN w ELSE Nobody
      BY DEF Everyone
    <3>5. r = [[[[q EXCEPT !.front = f] EXCEPT !.rear = g] EXCEPT !.len = n] EXCEPT !.rwmutex = m]
      BY <2>1, <2>2, <3>1, <3>2, <3>3, <3>4 DEF PoolRecords
    <3>. QED  BY <2>1, <3>5, RecordUpdates
  <2>4. pool' = [pool EXCEPT ![p] = r]
    BY <1>5, <1>p, <2>1, <2>2 DEF Pull
  <2>. QED  BY <1>p, <2>1, <2>3, <2>4
<1>6. ASSUME NEW x \in Everyone, AddPush(x)  PROVE pool' \in [Pools -> PoolRecords]
  <2>1. call[x].pool \in Pools /\ call[x].job \in Jobs /\ x \in Clients \cup Workers
    BY <1>6, CallersPool DEF AddPush, PoolInv, LinkInv, NewJobs, Everyone
  <2>. DEFINE p == call[x].pool
              q == pool[p]
  <2>2. q \in PoolRecords
    BY <1>p, <2>1
  <2>3. PICK f \in Jobs \cup {NoJob} : f = IF q.len = 0 THEN call[x].job ELSE q.front
    BY <2>1, <2>2, RecordFields
  <2>4. PICK r : r = [[[[q EXCEPT !.rwmutex = x] EXCEPT !.front = f] EXCEPT !.rear = call[x].job]
                        EXCEPT !.len = q.len + 1]
    OBVIOUS
  <2>5. pool' = [pool EXCEPT ![p] = r]
    BY <1>6, <1>p, <2>1, <2>2, <2>3, <2>4 DEF AddPush
  <2>6. r \in PoolRecords
    <3>1. q.len + 1 \in Nat /\ x \in Everyone \cup {Nobody}
      BY <2>1, <2>2, RecordFields DEF Everyone
    <3>. HIDE DEF q
    <3>. QED  BY <2>1, <2>2, <2>3, <2>4, <3>1, RecordUpdates
  <2>. QED  BY <1>p, <2>1, <2>5, <2>6
<1>7. ASSUME NEW x \in Everyone, AddPost(x)  PROVE pool' \in [Pools -> PoolRecords]
  <2>1. call[x].pool \in Pools
    BY <1>7, CallersPool DEF AddPost, PoolInv
  <2>2. pool[call[x].pool] \in PoolRecords
    BY <1>p, <2>1
  <2>3. PICK r : r = [[pool[call[x].pool] EXCEPT !.v = 1] EXCEPT !.rwmutex = Nobody]
    OBVIOUS
  <2>4. pool' = [pool EXCEPT ![call[x].pool] = r]
    BY <1>7, <1>p, <2>1, <2>3 DEF AddPost
  <2>5. r \in PoolRecords
    BY <2>2, <2>3, RecordUpdates
  <2>. QED  BY <1>p, <2>1, <2>4, <2>5
<1>8. ASSUME NEW c \in Clients, NEW p \in Pools, InitPool(c, p) \/ Destroy(c, p)
      PROVE  pool' \in [Pools -> PoolRecords]
  BY <1>8, <1>p DEF InitPool, Destroy, PoolRecords, PoolStates
<1>9. ASSUME NEW c \in Clients, NEW p \in Pools, InitReadsGarbage(c, p)
      PROVE  pool' \in [Pools -> PoolRecords]
  BY <1>9 DEF InitReadsGarbage, PoolRecords, PoolStates, EmptyPool
<1>10. ASSUME NEW c \in Clients, InitReturns(c) \/ KillPost(c) \/ KillDone(c)
       PROVE  pool' \in [Pools -> PoolRecords]
  <2>1. PICK p \in Pools : p = call[c].pool
    BY <1>10 DEF InitReturns, KillPost, KillDone, PoolInv, CallInv
  <2>2. pool[p] \in PoolRecords
    BY <1>p
  <2>3. CASE InitReturns(c) \/ KillPost(c)
    BY <1>p, <2>1, <2>2, <2>3, RecordUpdates DEF InitReturns, KillPost, PoolStates
  <2>4. CASE KillDone(c)
    <3>1. PICK r : r = [[[[[pool[p] EXCEPT !.state = "freed"] EXCEPT !.front = NoJob] EXCEPT !.rear = NoJob]
                          EXCEPT !.len = 0] EXCEPT !.v = 0]
      OBVIOUS
    <3>2. pool' = [pool EXCEPT ![p] = r]
      BY <1>p, <2>1, <2>2, <2>4, <3>1 DEF KillDone
    <3>3. r \in PoolRecords
      BY <2>2, <3>1, RecordUpdates DEF PoolStates
    <3>. QED  BY <1>p, <3>2, <3>3
  <2>. QED  BY <1>10, <2>3, <2>4
<1>11. ASSUME UNCHANGED pool  PROVE pool' \in [Pools -> PoolRecords]
  BY <1>11, <1>p
<1>12. ASSUME NEW w \in Workers, RunJob(w) \/ Hold(w) \/ Release(w)  PROVE UNCHANGED pool
  BY <1>12 DEF RunJob, Hold, Release, queueVars
<1>13. ASSUME NEW c \in Clients, NEW p \in Pools, Poll(c) \/ Resume(c) \/ Pause(c, p) \/ WaitCall(c, p)
       PROVE  UNCHANGED pool
  BY <1>13 DEF Poll, Resume, Pause, WaitCall, queueVars
<1>14. ASSUME NEW x \in Everyone, NEW p \in Pools, NEW j \in Jobs, AddCall(x, p, j)
       PROVE  UNCHANGED pool
  BY <1>14 DEF AddCall, queueVars
<1>15. ASSUME Terminated \/ UNCHANGED vars  PROVE UNCHANGED pool
  BY <1>15 DEF Terminated, vars, queueVars
<1>16. ASSUME NEW c \in Clients, Poll(c) \/ Resume(c)  PROVE UNCHANGED pool
  BY <1>16 DEF Poll, Resume, queueVars
<1>. QED  BY <1>2, <1>3, <1>4, <1>5, <1>6, <1>7, <1>8, <1>9, <1>10, <1>11, <1>12, <1>13, <1>14, <1>15, <1>16
          DEF Next, ApiCall, ClientStep, AddStep, WorkerStep, Everyone

\* The other variables keep their types.
LEMMA OtherTypesStep ==
  ASSUME PoolInv, [Next]_vars
  PROVE  OtherTypes'
<1>p. OtherTypes /\ TypeOK /\ Workers \cap Clients = {}
  BY TypeParts, ThreadsAssumption DEF PoolInv
<1>1. ASSUME UNCHANGED <<prev, flagVars, job, call, phase, signalVars, historyVars>>  PROVE OtherTypes'
  BY <1>1, <1>p DEF flagVars, signalVars, historyVars, OtherTypes
<1>2. ASSUME NEW w \in Workers, WorkerStep(w) \/ SpuriousWakeup(w), ~ Pull(w), ~ RunJob(w)
      PROVE  OtherTypes'
  BY <1>1, <1>2 DEF WorkerStep, CountAlive, LoopTest, SemLock, SemTest, SpuriousWakeup, AliveTest,
     CountWorking, PullLock, PullPost, UncountWorking, UncountAlive, LastUnlock, Step
<1>3. ASSUME NEW w \in Workers, Pull(w)  PROVE OtherTypes'
  <2>1. PICK n : n = pool[PoolOf(w)].len
    OBVIOUS
  <2>2. /\ PoolOf(w) \in Pools /\ n \in Nat /\ pulled[PoolOf(w)] \in Nat
        /\ n # 0 => pool[PoolOf(w)].front \in Jobs
    BY <1>3, <2>1, PulledQueue DEF Pull
  <2>3. job' \in [Workers -> Jobs \cup {NoJob}]
    BY <1>3, <1>p, <2>1, <2>2 DEF Pull, OtherTypes
  <2>4. pulled' \in [Pools -> Nat]
    BY <1>3, <1>p, <2>1, <2>2 DEF Pull, OtherTypes
  <2>. QED  BY <1>3, <1>p, <2>3, <2>4 DEF Pull, OtherTypes, flagVars, signalVars
<1>4. ASSUME NEW w \in Workers, RunJob(w)  PROVE OtherTypes'
  <2>1. job[w] \in Jobs
    BY <1>4 DEF RunJob, PoolInv, DoneInv, HandInv, InHand
  <2>. QED  BY <1>4, <1>p, <2>1 DEF RunJob, OtherTypes, queueVars, flagVars, signalVars
<1>5. ASSUME NEW w \in Workers, Hold(w) \/ Release(w)  PROVE OtherTypes'
  BY <1>5, <1>p DEF Hold, Release, OtherTypes, queueVars, flagVars, threadVars, historyVars
<1>6. ASSUME NEW x \in Everyone, AddPush(x)  PROVE OtherTypes'
  <2>1. call[x].pool \in Pools /\ call[x].job \in Jobs
    BY <1>6, CallersPool DEF AddPush, PoolInv, LinkInv, NewJobs, Everyone
  <2>2. added' \in [Pools -> Seq(Jobs)]
    <3>1. added[call[x].pool] \in Seq(Jobs)
      BY <1>p, <2>1 DEF OtherTypes
    <3>2. Append(added[call[x].pool], call[x].job) \in Seq(Jobs)
      BY <2>1, <3>1
    <3>. QED  BY <1>6, <1>p, <3>2 DEF AddPush, OtherTypes
  <2>3. prev' \in [Jobs -> Jobs \cup {NoJob}]
    BY <1>6, <1>p, <2>1 DEF AddPush, OtherTypes
  <2>. QED  BY <1>6, <1>p, <2>2, <2>3 DEF AddPush, OtherTypes, flagVars, signalVars
<1>7. ASSUME NEW x \in Everyone, AddPost(x)  PROVE OtherTypes'
  BY <1>1, <1>7 DEF AddPost
<1>8. ASSUME NEW x \in Everyone, NEW p \in Pools, NEW j \in Jobs, AddCall(x, p, j)  PROVE OtherTypes'
  <2>1. call' \in [Workers \cup Clients -> [pool : Pools \cup {NoPool}, job : Jobs \cup {NoJob}]]
    BY <1>8, <1>p DEF AddCall, OtherTypes, Everyone
  <2>. QED  BY <1>8, <1>p, <2>1 DEF AddCall, OtherTypes, queueVars, flagVars, signalVars, historyVars
<1>9. ASSUME NEW c \in Clients, NEW p \in Pools,
             call' = [call EXCEPT ![c].pool = p]
      PROVE  call' \in [Workers \cup Clients -> [pool : Pools \cup {NoPool}, job : Jobs \cup {NoJob}]]
  BY <1>9, <1>p DEF OtherTypes
<1>10. ASSUME NEW c \in Clients, NEW p \in Pools, InitPool(c, p) \/ Destroy(c, p)  PROVE OtherTypes'
  BY <1>9, <1>10, <1>p DEF InitPool, Destroy, OtherTypes, queueVars, flagVars, signalVars, historyVars
<1>11. ASSUME NEW c \in Clients, NEW p \in Pools, InitReadsGarbage(c, p)  PROVE OtherTypes'
  BY <1>11, <1>p DEF InitReadsGarbage, OtherTypes, flagVars, historyVars
<1>12. ASSUME NEW c \in Clients, NEW p \in Pools, WaitCall(c, p)  PROVE OtherTypes'
  <2>1. {added[p][k] : k \in DOMAIN added[p]} \in SUBSET Jobs
    BY <1>p DEF OtherTypes
  <2>2. phase' \in [Clients -> 1..3] /\ before' \in [Clients -> SUBSET Jobs]
    BY <1>12, <1>p, <2>1 DEF WaitCall, OtherTypes
  <2>. QED  BY <1>9, <1>12, <1>p, <2>2 DEF WaitCall, OtherTypes, queueVars, flagVars, signalVars
<1>13. ASSUME NEW c \in Clients, Poll(c)  PROVE OtherTypes'
  <2>1. phase' \in [Clients -> 1..3]
    <3>1. phase \in [Clients -> 1..3] /\ phase[c] \in 1..3
      BY <1>p DEF OtherTypes
    <3>2. \/ phase' = phase
          \/ \E ph \in 1..3 : phase' = [phase EXCEPT ![c] = ph]
      <4>1. phase[c] < 3 => phase[c] + 1 \in 1..3
        BY <3>1
      <4>. QED  BY <1>13, <4>1, Zenon DEF Poll
    <3>. QED  BY <3>1, <3>2
  <2>. QED  BY <1>13, <1>p, <2>1 DEF Poll, OtherTypes, queueVars, flagVars, signalVars, historyVars
<1>14. ASSUME NEW c \in Clients, InitReturns(c) \/ KillPost(c) \/ KillDone(c)  PROVE OtherTypes'
  BY <1>1, <1>14 DEF InitReturns, KillPost, KillDone
<1>15. ASSUME NEW c \in Clients, NEW p \in Pools, Pause(c, p)  PROVE OtherTypes'
  <2>1. pool[p].alive \in Nat /\ pool[p].alive <= Len(Threads[p])
    <3>1. pool[p].alive = Cardinality(In(p, Alive))
      BY DEF PoolInv, CountInv
    <3>2. In(p, Alive) \in SUBSET Members(p)
      BY DEF In
    <3>3. Cardinality(In(p, Alive)) <= Cardinality(Members(p))
      BY <3>2, MembersCount, FS_Subset
    <3>. QED  BY <3>1, <3>3, MembersCount, InCount
  <2>2. Threads[p] \in Seq(Workers)
    BY ThreadsAssumption
  <2>3. \A n \in 1..pool[p].alive : Threads[p][n] \in Workers
    BY <2>1, <2>2
  <2>4. signalled' \subseteq Workers
    BY <1>15, <1>p, <2>3 DEF Pause, OtherTypes
  <2>5. pauses' \in 0..MaxPauses
    BY <1>15, <1>p, OptionsAssumption DEF Pause, OtherTypes
  <2>. QED  BY <1>15, <1>p, <2>4, <2>5 DEF Pause, OtherTypes, queueVars, flagVars, threadVars, historyVars
<1>16. ASSUME NEW c \in Clients, Resume(c)  PROVE OtherTypes'
  BY <1>16, <1>p DEF Resume, OtherTypes, queueVars, threadVars, historyVars
<1>17. ASSUME UNCHANGED vars  PROVE OtherTypes'
  BY <1>17, <1>p DEF vars, OtherTypes, queueVars, flagVars, threadVars, signalVars, historyVars
<1>. QED  BY <1>2, <1>3, <1>4, <1>5, <1>6, <1>7, <1>8, <1>10, <1>11, <1>12, <1>13, <1>14, <1>15, <1>16, <1>17
          DEF Next, ApiCall, ClientStep, AddStep, Terminated, Everyone

\* Every step keeps the types.
LEMMA TypeStep ==
  ASSUME PoolInv, [Next]_vars
  PROVE  TypeOK'
<1>1. pool' \in [Pools -> PoolRecords] /\ PcTypes' /\ OtherTypes'
  BY PoolRecordsStep, PcTypesStep, OtherTypesStep
<1>2. (pool \in [Pools -> PoolRecords] /\ PcTypes /\ OtherTypes => TypeOK)'
  BY TypeParts, PTL
<1>. QED  BY <1>1, <1>2

-----------------------------------------------------------------------------
(* The calls of the API. *)

\* A step that changes no call and no state of a pool, by which a client at most
\* goes on within its call or returns, and no worker begins a call.
SameCalls ==
  /\ call' = call
  /\ \A p \in Pools : pool'[p].state = pool[p].state
  /\ \A c \in Clients :
       \/ pc'[c] = pc[c]
       \/ pc'[c] = "idle"
       \/ {pc[c], pc'[c]} \subseteq {"add", "post", "wait_len", "wait_working"}
  /\ \A w \in Workers : pc'[w] \in {"add", "post"} => pc[w] \in {"add", "post"}

\* What the steps of a worker that move its counters have in common.
LEMMA CountersEffect ==
  ASSUME TypeOK, NEW w \in Workers,
         CountAlive(w) \/ CountWorking(w) \/ UncountWorking(w) \/ UncountAlive(w)
  PROVE  /\ \A y \in Everyone \ {w} : pc'[y] = pc[y]
         /\ <<pc[w], pc'[w]>> \in {<<"init", "loop">>, <<"inc", "pull">>, <<"dec", "loop">>, <<"bye", "unlock">>}
         /\ \A p \in Pools \ {PoolOf(w)} : pool'[p] = pool[p]
         /\ \A p \in Pools : /\ pool'[p].state = pool[p].state
                             /\ pool'[p].len = pool[p].len
                             /\ pool'[p].front = pool[p].front
                             /\ pool'[p].rear = pool[p].rear
         /\ UNCHANGED <<prev, job, call, phase, added, pulled, done, before>>
<1>1. P(w) \in PoolRecords /\ PoolOf(w) \in Pools
  BY PoolTypes
<1>2. ASSUME NEW from, NEW to, NEW new, Step(w, from, to, new),
             <<from, to>> \in {<<"init", "loop">>, <<"inc", "pull">>, <<"dec", "loop">>, <<"bye", "unlock">>},
             new.state = P(w).state, new.len = P(w).len, new.front = P(w).front, new.rear = P(w).rear
      PROVE  /\ \A y \in Everyone \ {w} : pc'[y] = pc[y]
             /\ <<pc[w], pc'[w]>> \in {<<"init", "loop">>, <<"inc", "pull">>, <<"dec", "loop">>, <<"bye", "unlock">>}
             /\ \A p \in Pools \ {PoolOf(w)} : pool'[p] = pool[p]
             /\ \A p \in Pools : /\ pool'[p].state = pool[p].state
                                 /\ pool'[p].len = pool[p].len
                                 /\ pool'[p].front = pool[p].front
                                 /\ pool'[p].rear = pool[p].rear
             /\ UNCHANGED <<prev, job, call, phase, added, pulled, done, before>>
  <2>1. /\ pc[w] = from /\ pc'[w] = to
        /\ \A y \in Everyone \ {w} : pc'[y] = pc[y]
        /\ pool'[PoolOf(w)] = new
        /\ \A p \in Pools \ {PoolOf(w)} : pool'[p] = pool[p]
        /\ UNCHANGED <<prev, flagVars, job, call, phase, signalVars, historyVars>>
    BY <1>2, StepEffect
  <2>. QED  BY <1>2, <2>1 DEF historyVars, P
<1>3. PICK r1, r2, r3, r4 :
        /\ r1 = [P(w) EXCEPT !.alive = @ + 1]
        /\ r2 = [P(w) EXCEPT !.working = @ + 1]
        /\ r3 = [P(w) EXCEPT !.working = @ - 1]
        /\ r4 = [P(w) EXCEPT !.alive = @ - 1, !.thcount_lock = w]
  OBVIOUS
<1>4. \A r \in {r1, r2, r3, r4} :
        r.state = P(w).state /\ r.len = P(w).len /\ r.front = P(w).front /\ r.rear = P(w).rear
  BY <1>1, <1>3 DEF PoolRecords
<1>. QED  BY <1>2, <1>3, <1>4 DEF CountAlive, CountWorking, UncountWorking, UncountAlive

\* What a pull leaves alone.
LEMMA PullEffect ==
  ASSUME PoolInv, NEW w \in Workers, Pull(w)
  PROVE  LET p == PoolOf(w)  q == pool[p] IN
         /\ \A y \in Everyone \ {w} : pc'[y] = pc[y]
         /\ pc[w] = "pull_in"
         /\ pc'[w] = IF q.len > 1 THEN "pull_post" ELSE IF q.len = 1 THEN "run" ELSE "dec"
         /\ \A r \in Pools \ {p} : pool'[r] = pool[r] /\ pulled'[r] = pulled[r]
         /\ \A r \in Pools : /\ pool'[r].state = pool[r].state
                             /\ pool'[r].alive = pool[r].alive
                             /\ pool'[r].working = pool[r].working
         /\ pool'[p].len = IF q.len = 0 THEN 0 ELSE q.len - 1
         /\ pool'[p].front = IF q.len = 0 THEN q.front ELSE IF q.len = 1 THEN NoJob ELSE Behind(q)
         /\ pool'[p].rear = IF q.len = 1 THEN NoJob ELSE q.rear
         /\ pulled'[p] = IF q.len = 0 THEN pulled[p] ELSE pulled[p] + 1
         /\ job'[w] = IF q.len = 0 THEN NoJob ELSE q.front
         /\ \A v \in Workers \ {w} : job'[v] = job[v]
         /\ UNCHANGED <<prev, call, phase, added, done, before>>
<1>1. pool \in [Pools -> PoolRecords] /\ OtherTypes /\ PcTypes /\ PoolOf(w) \in Pools
  BY TypeParts, PoolOfWorker DEF PoolInv
<1>. DEFINE p == PoolOf(w)
            q == pool[p]
<1>2. q \in PoolRecords
  BY <1>1
<1>3. PICK r : r = [q EXCEPT !.front = IF q.len = 0 THEN @ ELSE IF q.len = 1 THEN NoJob ELSE Behind(q),
                             !.rear = IF q.len = 1 THEN NoJob ELSE @,
                             !.len = IF q.len = 0 THEN 0 ELSE q.len - 1,
                             !.rwmutex = IF q.len > 1 THEN w ELSE Nobody]
  OBVIOUS
<1>4. pool' = [pool EXCEPT ![p] = r]
  BY <1>1, <1>2, <1>3 DEF Pull
<1>5. pool'[p] = r /\ \A s \in Pools \ {p} : pool'[s] = pool[s]
  BY <1>1, <1>4
<1>6. /\ r.state = q.state /\ r.alive = q.alive /\ r.working = q.working
      /\ r.len = (IF q.len = 0 THEN 0 ELSE q.len - 1)
      /\ r.front = (IF q.len = 0 THEN q.front ELSE IF q.len = 1 THEN NoJob ELSE Behind(q))
      /\ r.rear = (IF q.len = 1 THEN NoJob ELSE q.rear)
  <2>. HIDE DEF q
  <2>. QED  BY <1>2, <1>3 DEF PoolRecords
<1>7. /\ pulled'[p] = (IF q.len = 0 THEN pulled[p] ELSE pulled[p] + 1)
      /\ \A s \in Pools \ {p} : pulled'[s] = pulled[s]
  BY <1>1 DEF Pull, OtherTypes
<1>8. /\ job'[w] = (IF q.len = 0 THEN NoJob ELSE q.front)
      /\ \A v \in Workers \ {w} : job'[v] = job[v]
  BY <1>1 DEF Pull, OtherTypes
<1>9. /\ \A y \in Everyone \ {w} : pc'[y] = pc[y]
      /\ pc[w] = "pull_in"
      /\ pc'[w] = (IF q.len > 1 THEN "pull_post" ELSE IF q.len = 1 THEN "run" ELSE "dec")
  BY <1>1 DEF Pull, Goto, PcTypes, Everyone
<1>10. UNCHANGED <<prev, call, phase, added, done, before>>
  BY DEF Pull
<1>. HIDE DEF q
<1>11. q = pool[PoolOf(w)]
  BY DEF q
<1>. QED  BY <1>5, <1>6, <1>7, <1>8, <1>9, <1>10, <1>11 DEF p

\* What the push of a job leaves alone.
LEMMA PushEffect ==
  ASSUME PoolInv, NEW x \in Everyone, AddPush(x)
  PROVE  LET p == call[x].pool  j == call[x].job  q == pool[p] IN
         /\ p \in Pools /\ q.state # "freed" /\ j \in Jobs
         /\ \A y \in Everyone \ {x} : pc'[y] = pc[y]
         /\ pc[x] = "add" /\ pc'[x] = "post"
         /\ \A r \in Pools \ {p} : pool'[r] = pool[r] /\ added'[r] = added[r]
         /\ \A r \in Pools : /\ pool'[r].state = pool[r].state
                             /\ pool'[r].alive = pool[r].alive
                             /\ pool'[r].working = pool[r].working
         /\ pool'[p].len = q.len + 1
         /\ pool'[p].front = IF q.len = 0 THEN j ELSE q.front
         /\ pool'[p].rear = j
         /\ added'[p] = Append(added[p], j)
         /\ UNCHANGED <<job, call, phase, pulled, done, before>>
<1>1. pool \in [Pools -> PoolRecords] /\ OtherTypes /\ PcTypes
  BY TypeParts DEF PoolInv
<1>2. call[x].pool \in Pools /\ pool[call[x].pool].state # "freed" /\ call[x].job \in Jobs
  BY CallersPool DEF AddPush, PoolInv, LinkInv, NewJobs, Everyone
<1>. DEFINE p == call[x].pool
            j == call[x].job
            q == pool[p]
<1>3. q \in PoolRecords
  BY <1>1, <1>2
<1>4. PICK r : r = [q EXCEPT !.rwmutex = x, !.front = IF q.len = 0 THEN j ELSE q.front,
                             !.rear = j, !.len = q.len + 1]
  OBVIOUS
<1>5. pool' = [pool EXCEPT ![p] = r]
  BY <1>1, <1>2, <1>4 DEF AddPush
<1>6. pool'[p] = r /\ \A s \in Pools \ {p} : pool'[s] = pool[s]
  BY <1>1, <1>2, <1>5
<1>7. /\ r.state = q.state /\ r.alive = q.alive /\ r.working = q.working
      /\ r.len = q.len + 1 /\ r.rear = j
      /\ r.front = (IF q.len = 0 THEN j ELSE q.front)
  <2>. HIDE DEF q
  <2>. QED  BY <1>3, <1>4 DEF PoolRecords
<1>8. added'[p] = Append(added[p], j) /\ \A s \in Pools \ {p} : added'[s] = added[s]
  BY <1>1, <1>2 DEF AddPush, OtherTypes
<1>9. /\ \A y \in Everyone \ {x} : pc'[y] = pc[y]
      /\ pc[x] = "add" /\ pc'[x] = "post"
  BY <1>1 DEF AddPush, Goto, PcTypes, Everyone
<1>10. UNCHANGED <<job, call, phase, pulled, done, before>>
  BY DEF AddPush
<1>. HIDE DEF q
<1>11. q = pool[call[x].pool]
  BY DEF q
<1>. QED  BY <1>2, <1>6, <1>7, <1>8, <1>9, <1>10, <1>11 DEF p, j

\* The life of a pool: thpool_init, its return, thpool_destroy and its end.
LifeStep(c, p) ==
  \/ InitPool(c, p)
  \/ Destroy(c, p)
  \/ call[c].pool = p /\ (InitReturns(c) \/ KillDone(c))

Life == {<<"none", "init", "idle", "init">>, <<"init", "live", "init", "idle">>,
         <<"live", "dying", "idle", "kill">>, <<"dying", "freed", "kill", "idle">>}

\* What such a step does to the pool and to the caller, and what it leaves alone.
LEMMA LifeEffect ==
  ASSUME PoolInv, NEW c \in Clients, NEW p \in Pools, LifeStep(c, p)
  PROVE  /\ \A q \in Pools \ {p} : pool'[q] = pool[q]
         /\ pool'[p].alive = pool[p].alive /\ pool'[p].working = pool[p].working
         /\ <<pool[p].state, pool'[p].state, pc[c], pc'[c]>> \in Life
         /\ pool'[p].state # "freed" =>
              /\ pool'[p].len = pool[p].len
              /\ pool'[p].front = pool[p].front /\ pool'[p].rear = pool[p].rear
         /\ pool'[p].state = "freed" => pool'[p].len = 0 /\ pool[p].alive = 0
         /\ pool'[p].state = "live" => pool[p].alive = Len(Threads[p])
         /\ pool'[p].state = "dying" => \A d \in Clients : pc[d] = "idle"
         /\ \A d \in Clients \ {c} : pc'[d] = pc[d]
         /\ \A w \in Workers : pc'[w] = IF pool'[p].state = "init" /\ w \in Members(p) THEN "init" ELSE pc[w]
         /\ call'[c].pool = p /\ \A y \in Everyone \ {c} : call'[y] = call[y]
         /\ UNCHANGED <<prev, job, added, pulled, done, before>>
<1>1. pool \in [Pools -> PoolRecords] /\ OtherTypes /\ PcTypes /\ Workers \cap Clients = {}
  BY TypeParts, ThreadsAssumption DEF PoolInv
<1>2. pool[p] \in PoolRecords
  BY <1>1
<1>3. CASE InitPool(c, p)
  <2>1. PICK r : r = [pool[p] EXCEPT !.state = "init"]
    OBVIOUS
  <2>2. /\ r.state = "init" /\ r.alive = pool[p].alive /\ r.working = pool[p].working
        /\ r.len = pool[p].len /\ r.front = pool[p].front /\ r.rear = pool[p].rear
    BY <1>2, <2>1 DEF PoolRecords
  <2>3. pool'[p] = r /\ \A q \in Pools \ {p} : pool'[q] = pool[q]
    BY <1>1, <1>3, <2>1 DEF InitPool
  <2>4. /\ pc[c] = "idle" /\ pc'[c] = "init" /\ pool[p].state = "none"
        /\ \A d \in Clients \ {c} : pc'[d] = pc[d]
        /\ \A w \in Workers : pc'[w] = IF w \in Members(p) THEN "init" ELSE pc[w]
    BY <1>1, <1>3, PoolOfWorker DEF InitPool, PcTypes, Everyone
  <2>5. call'[c].pool = p /\ \A y \in Everyone \ {c} : call'[y] = call[y]
    BY <1>1, <1>3 DEF InitPool, OtherTypes, Everyone
  <2>. QED  BY <1>3, <2>2, <2>3, <2>4, <2>5 DEF InitPool, Life, historyVars
<1>4. CASE Destroy(c, p)
  <2>1. PICK r : r = [pool[p] EXCEPT !.state = "dying"]
    OBVIOUS
  <2>2. /\ r.state = "dying" /\ r.alive = pool[p].alive /\ r.working = pool[p].working
        /\ r.len = pool[p].len /\ r.front = pool[p].front /\ r.rear = pool[p].rear
    BY <1>2, <2>1 DEF PoolRecords
  <2>3. pool'[p] = r /\ \A q \in Pools \ {p} : pool'[q] = pool[q]
    BY <1>1, <1>4, <2>1 DEF Destroy
  <2>4. /\ pc[c] = "idle" /\ pc'[c] = "kill" /\ pool[p].state = "live"
        /\ \A y \in Everyone \ {c} : pc'[y] = pc[y]
        /\ \A d \in Clients : pc[d] = "idle"
    BY <1>1, <1>4 DEF Destroy, Goto, PcTypes, Everyone
  <2>5. call'[c].pool = p /\ \A y \in Everyone \ {c} : call'[y] = call[y]
    BY <1>1, <1>4 DEF Destroy, OtherTypes, Everyone
  <2>. QED  BY <1>1, <1>4, <2>2, <2>3, <2>4, <2>5 DEF Destroy, Life, historyVars, Everyone
<1>5. CASE call[c].pool = p /\ InitReturns(c)
  <2>1. PICK r : r = [pool[p] EXCEPT !.state = "live"]
    OBVIOUS
  <2>2. /\ r.state = "live" /\ r.alive = pool[p].alive /\ r.working = pool[p].working
        /\ r.len = pool[p].len /\ r.front = pool[p].front /\ r.rear = pool[p].rear
    BY <1>2, <2>1 DEF PoolRecords
  <2>3. pool'[p] = r /\ \A q \in Pools \ {p} : pool'[q] = pool[q]
    BY <1>1, <1>5, <2>1 DEF InitReturns
  <2>4. /\ pc[c] = "init" /\ pc'[c] = "idle" /\ pool[p].alive = Len(Threads[p])
        /\ \A y \in Everyone \ {c} : pc'[y] = pc[y]
    BY <1>1, <1>5 DEF InitReturns, Goto, PcTypes, Everyone
  <2>5. pool[p].state = "init"
    BY <1>5, <2>4 DEF PoolInv, CallInv
  <2>. QED  BY <1>1, <1>5, <2>2, <2>3, <2>4, <2>5 DEF InitReturns, Life, historyVars, Everyone
<1>6. CASE call[c].pool = p /\ KillDone(c)
  <2>1. PICK r : r = [pool[p] EXCEPT !.state = "freed", !.front = NoJob, !.rear = NoJob, !.len = 0, !.v = 0]
    OBVIOUS
  <2>2. /\ r.state = "freed" /\ r.alive = pool[p].alive /\ r.working = pool[p].working /\ r.len = 0
    BY <1>2, <2>1 DEF PoolRecords
  <2>3. pool' = [pool EXCEPT ![p] = r]
    BY <1>1, <1>2, <1>6, <2>1 DEF KillDone
  <2>4. pool'[p] = r /\ \A q \in Pools \ {p} : pool'[q] = pool[q]
    BY <1>1, <2>3
  <2>5. /\ pc[c] = "kill" /\ pc'[c] = "idle" /\ pool[p].alive = 0
        /\ \A y \in Everyone \ {c} : pc'[y] = pc[y]
    BY <1>1, <1>6 DEF KillDone, AllGone, Goto, PcTypes, Everyone
  <2>6. pool[p].state = "dying"
    BY <1>6, <2>5 DEF PoolInv, CallInv
  <2>. QED  BY <1>1, <1>6, <2>2, <2>4, <2>5, <2>6 DEF KillDone, Life, historyVars, Everyone
<1>. QED  BY <1>3, <1>4, <1>5, <1>6 DEF LifeStep

\* The actions of the module, sorted by what they change.
LEMMA NextCases ==
  ASSUME PoolInv, [Next]_vars
  PROVE  \/ QuietStep
         \/ \E c \in Clients, p \in Pools : LifeStep(c, p) \/ InitReadsGarbage(c, p) \/ WaitCall(c, p)
         \/ \E c \in Clients : Poll(c)
         \/ \E x \in Everyone : AddPush(x) \/ \E p \in Pools, j \in Jobs : AddCall(x, p, j)
         \/ \E w \in Workers : \/ CountAlive(w) \/ CountWorking(w) \/ UncountWorking(w) \/ UncountAlive(w)
                               \/ Pull(w) \/ RunJob(w)
<1>1. (\E w \in Workers : QuietWorker(w)) \/ (\E x \in Everyone : AddPost(x))
      \/ (\E c \in Clients : KillPost(c)) \/ Signals \/ UNCHANGED vars => QuietStep
  BY QuietEffect DEF PoolInv
<1>2. ASSUME NEW c \in Clients, InitReturns(c) \/ KillDone(c)
      PROVE  \E p \in Pools : LifeStep(c, p)
  BY <1>2 DEF PoolInv, CallInv, InitReturns, KillDone, LifeStep
<1>3. ASSUME NEW c \in Clients, NEW p \in Pools, InitPool(c, p) \/ Destroy(c, p)
      PROVE  LifeStep(c, p)
  BY <1>3 DEF LifeStep
<1>4. ASSUME NEW c \in Clients, NEW p \in Pools, Pause(c, p)  PROVE Signals
  BY <1>4 DEF Signals
<1>5. ASSUME NEW c \in Clients, Resume(c)  PROVE Signals
  BY <1>5 DEF Signals
<1>6. ASSUME NEW w \in Workers, Hold(w) \/ Release(w)  PROVE Signals
  BY <1>6 DEF Signals
<1>. QED  BY <1>1, <1>2, <1>3, <1>4, <1>5, <1>6
          DEF Next, ApiCall, ClientStep, AddStep, WorkerStep, QuietWorker, Terminated, Everyone

\* Every step keeps CallInv.
LEMMA CallStep ==
  ASSUME PoolInv, [Next]_vars
  PROVE  CallInv'
<1>p. CallInv /\ TypeOK /\ OtherTypes /\ PcTypes /\ Workers \cap Clients = {}
  BY TypeParts, ThreadsAssumption DEF PoolInv
<1>1. ASSUME SameCalls  PROVE CallInv'
  BY <1>1, <1>p DEF SameCalls, CallInv
<1>2. CASE QuietStep
  <2>1. SameCalls
    BY <1>2 DEF QuietStep, SameFields, SameCounts, SameCalls
  <2>. QED  BY <1>1, <2>1
<1>3. ASSUME NEW w \in Workers,
             CountAlive(w) \/ CountWorking(w) \/ UncountWorking(w) \/ UncountAlive(w)
      PROVE  CallInv'
  <2>1. SameCalls
    BY <1>3, <1>p, CountersEffect DEF SameCalls, Everyone
  <2>. QED  BY <1>1, <2>1
<1>4. ASSUME NEW w \in Workers, Pull(w)  PROVE CallInv'
  <2>1. SameCalls
    BY <1>4, <1>p, PullEffect DEF SameCalls, Everyone
  <2>. QED  BY <1>1, <2>1
<1>5. ASSUME NEW w \in Workers, RunJob(w)  PROVE CallInv'
  <2>1. SameCalls
    BY <1>5, <1>p DEF RunJob, Goto, SameCalls, PcTypes, Everyone, queueVars
  <2>. QED  BY <1>1, <2>1
<1>6. ASSUME NEW x \in Everyone, AddPush(x)  PROVE CallInv'
  <2>1. SameCalls
    BY <1>6, <1>p, PushEffect DEF SameCalls, Everyone
  <2>. QED  BY <1>1, <2>1
<1>7. ASSUME NEW c \in Clients, Poll(c)  PROVE CallInv'
  <2>1. SameCalls
    BY <1>7, <1>p DEF Poll, Goto, SameCalls, PcTypes, Everyone, queueVars
  <2>. QED  BY <1>1, <2>1
<1>8. ASSUME NEW c \in Clients, NEW p \in Pools, WaitCall(c, p)  PROVE CallInv'
  <2>1. /\ pc'[c] = "wait_len" /\ \A y \in Everyone \ {c} : pc'[y] = pc[y]
        /\ call'[c].pool = p /\ \A y \in Everyone \ {c} : call'[y] = call[y]
        /\ pool' = pool /\ pool[p].state = "live"
    BY <1>8, <1>p DEF WaitCall, Goto, PcTypes, OtherTypes, Everyone, queueVars
  <2>. QED  BY <1>p, <2>1 DEF CallInv, Everyone
<1>9. ASSUME NEW x \in Everyone, NEW p \in Pools, NEW j \in Jobs, AddCall(x, p, j)  PROVE CallInv'
  <2>1. /\ pc'[x] = "add" /\ \A y \in Everyone \ {x} : pc'[y] = pc[y]
        /\ call'[x].pool = p /\ \A y \in Everyone \ {x} : call'[y] = call[y]
        /\ pool' = pool /\ (x \in Clients => pool[p].state = "live")
        /\ x \in Workers => PoolOf(x) = p
    BY <1>9, <1>p, PoolOfWorker DEF AddCall, Goto, PcTypes, OtherTypes, Everyone, queueVars
  <2>. QED  BY <1>p, <2>1 DEF CallInv, Everyone
<1>10. ASSUME NEW c \in Clients, NEW p \in Pools, InitReadsGarbage(c, p)  PROVE CallInv'
  <2>1. \A y \in Everyone : pc'[y] = "crashed"
    BY <1>10, <1>p DEF InitReadsGarbage, PcTypes
  <2>. QED  BY <2>1 DEF CallInv, Everyone
<1>11. ASSUME NEW c \in Clients, NEW p \in Pools, LifeStep(c, p)  PROVE CallInv'
  <2>1. /\ \A q \in Pools \ {p} : pool'[q] = pool[q]
        /\ <<pool[p].state, pool'[p].state, pc[c], pc'[c]>> \in Life
        /\ pool'[p].state = "dying" => \A d \in Clients : pc[d] = "idle"
        /\ \A d \in Clients \ {c} : pc'[d] = pc[d]
        /\ \A w \in Workers : pc'[w] \in {"init", pc[w]}
        /\ call'[c].pool = p /\ \A y \in Everyone \ {c} : call'[y] = call[y]
    BY <1>11, LifeEffect
  <2>2. \A d \in Clients \ {c} : call'[d] = call[d]
    BY <2>1 DEF Everyone
  <2>3. ASSUME NEW d \in Clients \ {c}, pc[d] # "idle", pc[d] # "crashed"
        PROVE  call[d].pool \in Pools /\ call[d].pool # p
    <3>1. call[d].pool \in Pools
      BY <1>p, <2>3 DEF CallInv
    <3>2. ASSUME call[d].pool = p  PROVE FALSE
      <4>1. pool[p].state \in {"init", "dying", "live"} /\ pc[d] \in ClientPcs
        BY <1>p, <2>3, <3>2 DEF CallInv, PcTypes, ClientPcs
      <4>2. CASE pc[d] \in {"init", "kill"}
        <5>1. pc[c] \in {"init", "kill"} => call[c].pool = p
          BY <1>11, <1>p DEF LifeStep, InitPool, Destroy
        <5>2. pc[c] \notin {"init", "kill"}
          BY <1>p, <2>3, <3>2, <4>2, <5>1 DEF CallInv
        <5>3. pool[p].state = "none" \/ pool'[p].state = "dying"
          BY <2>1, <5>2 DEF Life
        <5>. QED  BY <2>1, <2>3, <4>1, <5>3
      <4>3. CASE pc[d] \notin {"init", "kill"}
        <5>1. pool[p].state = "live"
          BY <1>p, <2>3, <3>2, <4>1, <4>3 DEF CallInv, ClientPcs
        <5>2. pool'[p].state = "dying"
          BY <2>1, <5>1 DEF Life
        <5>. QED  BY <2>1, <2>3, <5>2
      <4>. QED  BY <4>2, <4>3
    <3>. QED  BY <3>1, <3>2
  <2>4. \A w \in Workers : pc'[w] \in {"add", "post"} => pc[w] \in {"add", "post"} /\ call'[w] = call[w]
    BY <1>p, <2>1 DEF Everyone
  <2>5. /\ pc'[c] = "init" => pool'[p].state = "init"
        /\ pc'[c] = "kill" => pool'[p].state = "dying"
        /\ pc'[c] \in {"idle", "init", "kill"}
    BY <2>1 DEF Life
  <2>6. \A d \in Clients :
          /\ pc'[d] # "idle" /\ pc'[d] # "crashed" => call'[d].pool \in Pools
          /\ pc'[d] = "init" => pool'[call'[d].pool].state = "init"
          /\ pc'[d] = "kill" => pool'[call'[d].pool].state = "dying"
          /\ pc'[d] \in {"add", "post", "wait_len", "wait_working"} => pool'[call'[d].pool].state = "live"
    BY <1>p, <2>1, <2>2, <2>3, <2>5 DEF CallInv
  <2>7. \A d, e \in Clients :
          /\ pc'[d] \in {"init", "kill"} /\ pc'[e] \in {"init", "kill"}
          /\ call'[d].pool = call'[e].pool
          => d = e
    BY <1>p, <2>1, <2>2, <2>3 DEF CallInv
  <2>. QED  BY <1>p, <2>4, <2>6, <2>7 DEF CallInv
<1>. QED  BY <1>2, <1>3, <1>4, <1>5, <1>6, <1>7, <1>8, <1>9, <1>10, <1>11, NextCases

-----------------------------------------------------------------------------
(* The counters. *)

\* A step that changes no counter and by which no worker enters or leaves a set of
\* points at which it is counted.
SameNumbers ==
  /\ \A p \in Pools : /\ pool'[p].state = pool[p].state
                      /\ pool'[p].alive = pool[p].alive
                      /\ pool'[p].working = pool[p].working
                      /\ pool[p].state = "freed" => pool'[p].len = pool[p].len
  /\ \A w \in Workers :
       /\ pc[w] \in Alive <=> pc'[w] \in Alive
       /\ pc[w] \in Working <=> pc'[w] \in Working
       /\ pc'[w] \in {"unborn", "init"} \/ pc[w] \in {"unborn", "init"} => pc'[w] = pc[w]
       /\ pc[w] \in {"unlock", "dead", "crashed"} => pc'[w] \in {"unlock", "dead", "crashed"}

\* Such a step keeps CountInv.
LEMMA SameNumbersStep ==
  ASSUME CountInv, SameNumbers
  PROVE  CountInv'
<1>1. \A p \in Pools : Members(p) \subseteq Workers
  BY PoolOfWorker
<1>2. \A p \in Pools : In(p, Alive)' = In(p, Alive) /\ In(p, Working)' = In(p, Working)
  BY <1>1 DEF SameNumbers, In
<1>. QED  BY <1>1, <1>2 DEF SameNumbers, CountInv

\* num_threads_alive and num_threads_working move with the worker that counts itself.
LEMMA CountersStep ==
  ASSUME PoolInv, NEW w \in Workers,
         CountAlive(w) \/ CountWorking(w) \/ UncountWorking(w) \/ UncountAlive(w)
  PROVE  CountInv'
<1>. DEFINE o == PoolOf(w)
<1>1. P(w) \in PoolRecords /\ o \in Pools /\ w \in Members(o) /\ TypeOK /\ CountInv
  BY PoolTypes, PoolOfWorker DEF PoolInv
<1>2. /\ \A y \in Everyone \ {w} : pc'[y] = pc[y]
      /\ <<pc[w], pc'[w]>> \in {<<"init", "loop">>, <<"inc", "pull">>, <<"dec", "loop">>, <<"bye", "unlock">>}
      /\ \A p \in Pools \ {o} : pool'[p] = pool[p]
      /\ \A p \in Pools : pool'[p].state = pool[p].state /\ pool'[p].len = pool[p].len
  BY <1>1, CountersEffect
<1>3. /\ pool'[o].alive = IF pc[w] = "init" THEN pool[o].alive + 1
                          ELSE IF pc[w] = "bye" THEN pool[o].alive - 1 ELSE pool[o].alive
      /\ pool'[o].working = IF pc[w] = "inc" THEN pool[o].working + 1
                            ELSE IF pc[w] = "dec" THEN pool[o].working - 1 ELSE pool[o].working
  <2>1. PICK r1, r2, r3, r4 :
          /\ r1 = [P(w) EXCEPT !.alive = @ + 1]
          /\ r2 = [P(w) EXCEPT !.working = @ + 1]
          /\ r3 = [P(w) EXCEPT !.working = @ - 1]
          /\ r4 = [P(w) EXCEPT !.alive = @ - 1, !.thcount_lock = w]
    OBVIOUS
  <2>2. /\ r1.alive = P(w).alive + 1 /\ r1.working = P(w).working
        /\ r2.working = P(w).working + 1 /\ r2.alive = P(w).alive
        /\ r3.working = P(w).working - 1 /\ r3.alive = P(w).alive
        /\ r4.alive = P(w).alive - 1 /\ r4.working = P(w).working
    BY <1>1, <2>1 DEF PoolRecords
  <2>3. \/ pc[w] = "init" /\ pool'[o] = r1
        \/ pc[w] = "inc" /\ pool'[o] = r2
        \/ pc[w] = "dec" /\ pool'[o] = r3
        \/ pc[w] = "bye" /\ pool'[o] = r4
    BY <1>1, <2>1, StepEffect DEF CountAlive, CountWorking, UncountWorking, UncountAlive
  <2>. QED  BY <2>2, <2>3 DEF P
<1>4. \A p \in Pools : Members(p) \subseteq Everyone /\ (p # o => w \notin Members(p))
  BY PoolOfWorker DEF Everyone
<1>5. \A p \in Pools \ {o} : In(p, Alive)' = In(p, Alive) /\ In(p, Working)' = In(p, Working)
  BY <1>2, <1>4 DEF In
<1>6. Cardinality(In(o, Alive)') = pool'[o].alive
  <2>1. \A v \in Members(o) \ {w} : pc'[v] \in Alive <=> pc[v] \in Alive
    BY <1>1, <1>2, <1>4
  <2>2. pool[o].alive = Cardinality(In(o, Alive))
    BY <1>1 DEF CountInv
  <2>3. CASE pc[w] = "init"
    <3>1. pc[w] \notin Alive /\ pc'[w] \in Alive
      BY <1>2, <2>3 DEF Alive, Working
    <3>2. Cardinality(In(o, Alive)') = Cardinality(In(o, Alive)) + 1
      BY <1>1, <2>1, <3>1, InChange
    <3>. QED  BY <1>3, <2>2, <2>3, <3>2
  <2>4. CASE pc[w] = "bye"
    <3>1. pc[w] \in Alive /\ pc'[w] \notin Alive
      BY <1>2, <2>4 DEF Alive, Working
    <3>2. Cardinality(In(o, Alive)') = Cardinality(In(o, Alive)) - 1
      BY <1>1, <2>1, <3>1, InChange
    <3>. QED  BY <1>3, <2>2, <2>4, <3>2
  <2>5. CASE pc[w] \in {"inc", "dec"}
    <3>1. pc[w] \in Alive /\ pc'[w] \in Alive
      BY <1>2, <2>5 DEF Alive, Working
    <3>2. In(o, Alive)' = In(o, Alive)
      BY <1>1, <2>1, <3>1, InChange
    <3>. QED  BY <1>3, <2>2, <2>5, <3>2
  <2>. QED  BY <1>2, <2>3, <2>4, <2>5
<1>7. Cardinality(In(o, Working)') = pool'[o].working
  <2>1. \A v \in Members(o) \ {w} : pc'[v] \in Working <=> pc[v] \in Working
    BY <1>1, <1>2, <1>4
  <2>2. pool[o].working = Cardinality(In(o, Working))
    BY <1>1 DEF CountInv
  <2>3. CASE pc[w] = "inc"
    <3>1. pc[w] \notin Working /\ pc'[w] \in Working
      BY <1>2, <2>3 DEF Working
    <3>2. Cardinality(In(o, Working)') = Cardinality(In(o, Working)) + 1
      BY <1>1, <2>1, <3>1, InChange
    <3>. QED  BY <1>3, <2>2, <2>3, <3>2
  <2>4. CASE pc[w] = "dec"
    <3>1. pc[w] \in Working /\ pc'[w] \notin Working
      BY <1>2, <2>4 DEF Working
    <3>2. Cardinality(In(o, Working)') = Cardinality(In(o, Working)) - 1
      BY <1>1, <2>1, <3>1, InChange
    <3>. QED  BY <1>3, <2>2, <2>4, <3>2
  <2>5. CASE pc[w] \in {"init", "bye"}
    <3>1. pc[w] \notin Working /\ pc'[w] \notin Working
      BY <1>2, <2>5 DEF Working
    <3>2. In(o, Working)' = In(o, Working)
      BY <1>1, <2>1, <3>1, InChange
    <3>. QED  BY <1>3, <2>2, <2>5, <3>2
  <2>. QED  BY <1>2, <2>3, <2>4, <2>5
<1>8. ASSUME NEW p \in Pools
      PROVE  /\ pool'[p].state = "none" => \A v \in Members(p) : pc'[v] = "unborn"
             /\ pool'[p].state = "init" => \A v \in Members(p) : pc'[v] # "unborn"
             /\ pool'[p].state \in {"live", "dying"} => \A v \in Members(p) : pc'[v] \notin {"unborn", "init"}
             /\ pool'[p].state = "freed" =>
                  pool'[p].len = 0 /\ \A v \in Members(p) : pc'[v] \in {"unlock", "dead", "crashed"}
  BY <1>1, <1>2, <1>4 DEF CountInv, PoolRecords
<1>9. ASSUME NEW p \in Pools
      PROVE  pool'[p].alive = Cardinality(In(p, Alive)') /\ pool'[p].working = Cardinality(In(p, Working)')
  BY <1>1, <1>2, <1>5, <1>6, <1>7 DEF CountInv
<1>. QED  BY <1>8, <1>9 DEF CountInv

\* When a pool comes to life, or is freed, its threads are where its state says.
LEMMA LifeCounts ==
  ASSUME PoolInv, NEW c \in Clients, NEW p \in Pools, LifeStep(c, p)
  PROVE  CountInv'
<1>p. CountInv /\ \A q \in Pools : Members(q) \subseteq Workers /\ Members(q) \cap Members(p) # {} => q = p
  BY PoolOfWorker DEF PoolInv
<1>m. \A q \in Pools \ {p} : Members(q) \subseteq Workers \ Members(p)
  BY PoolOfWorker
<1>n. Members(p) \subseteq Workers
  BY PoolOfWorker
<1>1. /\ \A q \in Pools \ {p} : pool'[q] = pool[q]
      /\ pool'[p].alive = pool[p].alive /\ pool'[p].working = pool[p].working
      /\ <<pool[p].state, pool'[p].state, pc[c], pc'[c]>> \in Life
      /\ pool'[p].state = "freed" => pool'[p].len = 0 /\ pool[p].alive = 0
      /\ pool'[p].state = "live" => pool[p].alive = Len(Threads[p])
      /\ \A w \in Workers : pc'[w] = IF pool'[p].state = "init" /\ w \in Members(p) THEN "init" ELSE pc[w]
  BY LifeEffect
<1>2. \A q \in Pools \ {p} : \A w \in Members(q) : pc'[w] = pc[w]
  BY <1>1, <1>m
<1>3. \A w \in Members(p) : \/ pc'[w] = pc[w]
                            \/ pool[p].state = "none" /\ pc[w] = "unborn" /\ pc'[w] = "init"
  BY <1>1, <1>p, <1>n DEF CountInv, Life
<1>4. \A q \in Pools : In(q, Alive)' = In(q, Alive) /\ In(q, Working)' = In(q, Working)
  BY <1>2, <1>3 DEF In, Alive, Working
<1>5. /\ pool[p].alive = 0 => \A w \in Members(p) : pc[w] \notin Alive
      /\ pool[p].alive = Len(Threads[p]) => \A w \in Members(p) : pc[w] \in Alive
  <2>1. pool[p].alive = Cardinality(In(p, Alive))
    BY <1>p DEF CountInv
  <2>2. /\ Cardinality(In(p, Alive)) = Len(Threads[p]) => In(p, Alive) = Members(p)
        /\ Cardinality(In(p, Alive)) = 0 => In(p, Alive) = {}
    BY InCount
  <2>. QED  BY <2>1, <2>2 DEF In
<1>6. pool'[p].state = "freed" => \A w \in Members(p) : pc'[w] \in {"unlock", "dead", "crashed"}
  <2>. SUFFICES ASSUME pool'[p].state = "freed", NEW w \in Members(p)
                PROVE  pc'[w] \in {"unlock", "dead", "crashed"}
    OBVIOUS
  <2>1. pool[p].state = "dying" /\ pool[p].alive = 0 /\ pc'[w] = pc[w]
    BY <1>1, <1>3 DEF Life
  <2>2. pc[w] \notin Alive /\ pc[w] \notin {"unborn", "init"}
    BY <1>5, <1>p, <2>1 DEF CountInv
  <2>3. pc[w] \in WorkerPcs
    BY <1>n DEF PoolInv, TypeOK
  <2>. QED  BY <2>1, <2>2, <2>3 DEF WorkerPcs, Alive, Working
<1>7. pool'[p].state = "live" => \A w \in Members(p) : pc'[w] \notin {"unborn", "init"}
  BY <1>1, <1>3, <1>5 DEF Life, Alive, Working
<1>8. /\ pool'[p].state = "init" => \A w \in Members(p) : pc'[w] # "unborn"
      /\ pool'[p].state = "dying" => \A w \in Members(p) : pc'[w] \notin {"unborn", "init"}
      /\ pool'[p].state # "none"
  BY <1>1, <1>3, <1>n, <1>p DEF Life, CountInv
<1>9. ASSUME NEW q \in Pools
      PROVE  /\ pool'[q].alive = Cardinality(In(q, Alive)') /\ pool'[q].working = Cardinality(In(q, Working)')
  BY <1>1, <1>4, <1>p DEF CountInv
<1>10. ASSUME NEW q \in Pools
       PROVE  /\ pool'[q].state = "none" => \A v \in Members(q) : pc'[v] = "unborn"
              /\ pool'[q].state = "init" => \A v \in Members(q) : pc'[v] # "unborn"
              /\ pool'[q].state \in {"live", "dying"} => \A v \in Members(q) : pc'[v] \notin {"unborn", "init"}
              /\ pool'[q].state = "freed" =>
                   pool'[q].len = 0 /\ \A v \in Members(q) : pc'[v] \in {"unlock", "dead", "crashed"}
  <2>1. CASE q = p
    BY <1>1, <1>6, <1>7, <1>8, <2>1
  <2>2. CASE q # p
    BY <1>1, <1>2, <1>p, <2>2 DEF CountInv
  <2>. QED  BY <2>1, <2>2
<1>. QED  BY <1>9, <1>10 DEF CountInv

\* Every step keeps CountInv.
LEMMA CountStep ==
  ASSUME PoolInv, [Next]_vars
  PROVE  CountInv'
<1>p. CountInv /\ TypeOK /\ PcTypes /\ Workers \cap Clients = {}
  BY TypeParts, ThreadsAssumption DEF PoolInv
<1>1. CASE QuietStep
  <2>1. SameNumbers
    BY <1>1 DEF QuietStep, SameFields, SameCounts, SameNumbers
  <2>. QED  BY <1>p, <2>1, SameNumbersStep
<1>2. ASSUME NEW w \in Workers, Pull(w)  PROVE CountInv'
  <2>1. \A q \in Pools : /\ pool'[q].state = pool[q].state
                         /\ pool'[q].alive = pool[q].alive
                         /\ pool'[q].working = pool[q].working
    BY <1>2, PullEffect
  <2>2. \A q \in Pools \ {PoolOf(w)} : pool'[q] = pool[q]
    BY <1>2, PullEffect
  <2>3. pool[PoolOf(w)].state # "freed"
    BY <1>2, PulledQueue DEF Pull
  <2>4. /\ \A y \in Workers \ {w} : pc'[y] = pc[y]
        /\ pc[w] = "pull_in" /\ pc'[w] \in {"pull_post", "run", "dec"}
    BY <1>2, PullEffect DEF Everyone
  <2>5. SameNumbers
    BY <2>1, <2>2, <2>3, <2>4 DEF SameNumbers, Alive, Working
  <2>. QED  BY <1>p, <2>5, SameNumbersStep
<1>3. ASSUME NEW w \in Workers, RunJob(w)  PROVE CountInv'
  <2>1. SameNumbers
    BY <1>3, <1>p DEF RunJob, Goto, SameNumbers, PcTypes, Everyone, queueVars, Alive, Working
  <2>. QED  BY <1>p, <2>1, SameNumbersStep
<1>4. ASSUME NEW x \in Everyone, AddPush(x)  PROVE CountInv'
  <2>1. \A q \in Pools : /\ pool'[q].state = pool[q].state
                         /\ pool'[q].alive = pool[q].alive
                         /\ pool'[q].working = pool[q].working
    BY <1>4, PushEffect
  <2>2. \A q \in Pools : pool[q].state = "freed" => pool'[q] = pool[q]
    BY <1>4, PushEffect
  <2>3. \A w \in Workers : pc'[w] = pc[w] \/ (pc[w] = "add" /\ pc'[w] = "post")
    BY <1>4, PushEffect DEF Everyone
  <2>4. SameNumbers
    BY <2>1, <2>2, <2>3 DEF SameNumbers, Alive, Working
  <2>. QED  BY <1>p, <2>4, SameNumbersStep
<1>5. ASSUME NEW x \in Everyone, NEW p \in Pools, NEW j \in Jobs, AddCall(x, p, j)  PROVE CountInv'
  <2>1. pool' = pool /\ \A w \in Workers : pc'[w] = pc[w] \/ (pc[w] = "run" /\ pc'[w] = "add")
    BY <1>5, <1>p DEF AddCall, Goto, PcTypes, Everyone, queueVars
  <2>2. SameNumbers
    BY <2>1 DEF SameNumbers, Alive, Working
  <2>. QED  BY <1>p, <2>2, SameNumbersStep
<1>6. ASSUME NEW c \in Clients, NEW p \in Pools, WaitCall(c, p)  PROVE CountInv'
  <2>1. pool' = pool /\ \A w \in Workers : pc'[w] = pc[w]
    BY <1>6, <1>p DEF WaitCall, Goto, PcTypes, Everyone, queueVars
  <2>2. SameNumbers
    BY <2>1 DEF SameNumbers
  <2>. QED  BY <1>p, <2>2, SameNumbersStep
<1>7. ASSUME NEW c \in Clients, Poll(c)  PROVE CountInv'
  <2>1. pool' = pool /\ \A w \in Workers : pc'[w] = pc[w]
    BY <1>7, <1>p DEF Poll, Goto, PcTypes, Everyone, queueVars
  <2>2. SameNumbers
    BY <2>1 DEF SameNumbers
  <2>. QED  BY <1>p, <2>2, SameNumbersStep
<1>8. ASSUME NEW c \in Clients, NEW p \in Pools, InitReadsGarbage(c, p)  PROVE CountInv'
  <2>1. \A y \in Workers : pc'[y] = "crashed"
    BY <1>8, <1>p DEF InitReadsGarbage, PcTypes, Everyone
  <2>2. \A q \in Pools : /\ pool'[q].state = "freed" /\ pool'[q].len = 0
                         /\ pool'[q].alive = 0 /\ pool'[q].working = 0
    BY <1>8 DEF InitReadsGarbage, EmptyPool
  <2>3. \A q \in Pools : Members(q) \subseteq Workers
    BY PoolOfWorker
  <2>4. \A q \in Pools : In(q, Alive)' = {} /\ In(q, Working)' = {}
    BY <2>1, <2>3 DEF In, Alive, Working
  <2>. QED  BY <2>1, <2>2, <2>3, <2>4, FS_EmptySet DEF CountInv
<1>. QED  BY <1>1, <1>2, <1>3, <1>4, <1>5, <1>6, <1>7, <1>8, CountersStep, LifeCounts, NextCases

-----------------------------------------------------------------------------
(* The queue. *)

\* A step that changes neither the queues nor their histories, and begins no call of
\* thpool_add_work.
SameQueues ==
  /\ UNCHANGED <<prev, added, pulled>>
  /\ \A p \in Pools : pool'[p].state # "freed" =>
       /\ pool[p].state # "freed"
       /\ pool'[p].len = pool[p].len
       /\ pool'[p].front = pool[p].front /\ pool'[p].rear = pool[p].rear
  /\ \A x \in Everyone : pc'[x] = "add" => pc[x] = "add" /\ call'[x] = call[x]

\* Such a step keeps LinkInv.
LEMMA SameQueuesStep ==
  ASSUME LinkInv, SameQueues
  PROVE  LinkInv'
<1>1. ASSUME NEW p \in Pools, pool'[p].state # "freed"  PROVE Linked(p)'
  BY <1>1 DEF SameQueues, LinkInv, Linked
<1>2. AddedOnce'
  BY DEF SameQueues, LinkInv, AddedOnce
<1>3. NewJobs'
  BY DEF SameQueues, LinkInv, NewJobs, Everyone
<1>. QED  BY <1>1, <1>2, <1>3 DEF LinkInv

\* jobqueue_push appends the job to the linked queue.
LEMMA PushLinks ==
  ASSUME PoolInv, NEW x \in Everyone, AddPush(x)
  PROVE  LinkInv'
<1>1. PICK p \in Pools, j \in Jobs : p = call[x].pool /\ j = call[x].job
  BY PushEffect
<1>2. pool[p].state # "freed" /\ pc[x] = "add" /\ pc'[x] = "post"
  BY <1>1, PushEffect
<1>3. /\ \A y \in Everyone \ {x} : pc'[y] = pc[y]
      /\ \A r \in Pools \ {p} : pool'[r] = pool[r] /\ added'[r] = added[r]
      /\ \A r \in Pools : pool'[r].state = pool[r].state
      /\ UNCHANGED <<call, pulled>>
  BY <1>1, PushEffect
<1>4. /\ pool'[p].len = pool[p].len + 1
      /\ pool'[p].front = IF pool[p].len = 0 THEN j ELSE pool[p].front
      /\ pool'[p].rear = j
      /\ added'[p] = Append(added[p], j)
  BY <1>1, PushEffect
<1>5. prev' = [i \in Jobs |-> IF i = j THEN NoJob
                              ELSE IF pool[p].len # 0 /\ i = pool[p].rear THEN j ELSE prev[i]]
  BY <1>1 DEF AddPush
<1>6. /\ \A q \in Pools : added[q] \in Seq(Jobs) /\ pulled[q] \in Nat
      /\ LinkInv /\ Linked(p) /\ AddedOnce /\ NewJobs
  BY <1>2 DEF PoolInv, TypeOK, LinkInv
<1>7. \A q \in Pools : \A k \in DOMAIN added[q] : added[q][k] # j
  BY <1>1, <1>2, <1>6 DEF NewJobs, Everyone
<1>8. PICK n \in Nat, m \in Nat : n = Len(added[p]) /\ m = pulled[p]
  BY <1>6
<1>9. m <= n /\ pool[p].len = n - m
  BY <1>6, <1>8 DEF Linked
<1>10. /\ Len(added'[p]) = n + 1 /\ DOMAIN added'[p] = 1..(n + 1) /\ added'[p][n + 1] = j
       /\ \A k \in 1..n : added'[p][k] = added[p][k]
       /\ DOMAIN added[p] = 1..n
  BY <1>4, <1>6, <1>8
<1>11. Linked(p)'
  <2>1. pulled'[p] <= Len(added'[p]) /\ pool'[p].len = Len(added'[p]) - pulled'[p]
    BY <1>3, <1>4, <1>8, <1>9, <1>10
  <2>2. pool'[p].front = added'[p][m + 1]
    <3>1. CASE m = n
      BY <1>4, <1>9, <1>10, <3>1
    <3>2. CASE m # n
      <4>1. pool[p].front = added[p][m + 1] /\ m + 1 \in 1..n /\ pool[p].len # 0
        BY <1>6, <1>8, <1>9, <3>2 DEF Linked
      <4>. QED  BY <1>4, <1>10, <4>1
    <3>. QED  BY <3>1, <3>2
  <2>3. pool'[p].rear = added'[p][n + 1]
    BY <1>4, <1>10
  <2>4. ASSUME NEW i \in (m + 1)..n  PROVE prev'[added'[p][i]] = added'[p][i + 1]
    <3>1. i \in 1..n /\ m < n /\ pool[p].len # 0
      BY <1>9, <2>4
    <3>2. added'[p][i] = added[p][i] /\ added[p][i] # j /\ added[p][i] \in Jobs
      BY <1>6, <1>7, <1>10, <3>1
    <3>3. pool[p].rear = added[p][n]
      BY <1>6, <1>8, <3>1 DEF Linked
    <3>4. CASE i = n
      BY <1>5, <1>10, <3>1, <3>2, <3>3, <3>4
    <3>5. CASE i # n
      <4>1. i \in (m + 1)..(n - 1) /\ i + 1 \in 1..n /\ n \in 1..n
        BY <2>4, <3>1, <3>5
      <4>2. added[p][i] # added[p][n]
        BY <1>6, <1>10, <3>1, <3>5, <4>1 DEF AddedOnce
      <4>3. prev[added[p][i]] = added[p][i + 1]
        BY <1>6, <1>8, <4>1 DEF Linked
      <4>. QED  BY <1>5, <1>10, <3>2, <3>3, <4>1, <4>2, <4>3
    <3>. QED  BY <3>4, <3>5
  <2>. QED  BY <1>3, <1>8, <1>10, <2>1, <2>2, <2>3, <2>4 DEF Linked
<1>12. ASSUME NEW q \in Pools \ {p}, pool'[q].state # "freed"  PROVE Linked(q)'
  <2>1. Linked(q) /\ added[q] \in Seq(Jobs) /\ pulled[q] \in Nat
    BY <1>3, <1>6, <1>12 DEF LinkInv
  <2>2. ASSUME NEW i \in (pulled[q] + 1)..(Len(added[q]) - 1)  PROVE prev'[added[q][i]] = prev[added[q][i]]
    <3>1. i \in DOMAIN added[q] /\ added[q][i] \in Jobs /\ added[q][i] # j
      BY <1>7, <2>1, <2>2
    <3>2. pool[p].len # 0 => added[q][i] # pool[p].rear
      <4>1. pool[p].len # 0 => pool[p].rear = added[p][n] /\ n \in DOMAIN added[p]
        BY <1>6, <1>8, <1>9, <1>10 DEF Linked
      <4>. QED  BY <1>6, <3>1, <4>1 DEF AddedOnce
    <3>. QED  BY <1>5, <3>1, <3>2
  <2>3. added'[q] = added[q] /\ pool'[q] = pool[q] /\ pulled'[q] = pulled[q]
    BY <1>3
  <2>4. \A i \in (pulled[q] + 1)..(Len(added[q]) - 1) : prev'[added[q][i]] = added[q][i + 1]
    BY <2>1, <2>2 DEF Linked
  <2>. QED  BY <2>1, <2>3, <2>4 DEF Linked
<1>13. AddedOnce'
  <2>1. \A q \in Pools : \A k \in DOMAIN added'[q] :
          \/ k \in DOMAIN added[q] /\ added'[q][k] = added[q][k]
          \/ q = p /\ k = n + 1 /\ added'[q][k] = j
    BY <1>3, <1>10
  <2>. QED  BY <1>6, <1>7, <2>1 DEF AddedOnce
<1>14. NewJobs'
  <2>1. \A y \in Everyone : pc'[y] = "add" => y # x /\ pc[y] = "add" /\ call'[y] = call[y]
    BY <1>2, <1>3
  <2>2. \A y \in Everyone : pc'[y] = "add" => call[y].job # j
    BY <1>1, <1>2, <1>6, <2>1 DEF NewJobs, Everyone
  <2>3. \A q \in Pools : \A k \in DOMAIN added'[q] :
          added'[q][k] = j \/ (k \in DOMAIN added[q] /\ added'[q][k] = added[q][k])
    BY <1>3, <1>10
  <2>. QED  BY <1>6, <2>1, <2>2, <2>3 DEF NewJobs, Everyone
<1>. QED  BY <1>2, <1>3, <1>11, <1>12, <1>13, <1>14 DEF LinkInv

\* jobqueue_pull takes the oldest job and moves front to the next.
LEMMA PullLinks ==
  ASSUME PoolInv, NEW w \in Workers, Pull(w)
  PROVE  LinkInv'
<1>1. PICK p \in Pools : p = PoolOf(w)
  BY PoolOfWorker
<1>2. LinkInv /\ pc[w] = "pull_in"
  BY DEF PoolInv, Pull
<1>3. /\ added[p] \in Seq(Jobs) /\ pulled[p] \in Nat /\ pulled[p] <= Len(added[p])
      /\ pool[p].len = Len(added[p]) - pulled[p] /\ pool[p].state # "freed"
      /\ pool[p].len > 1 => Behind(pool[p]) = added[p][pulled[p] + 2]
  BY <1>1, <1>2, PulledQueue
<1>4. /\ \A y \in Everyone \ {w} : pc'[y] = pc[y]
      /\ pc'[w] # "add"
      /\ \A r \in Pools \ {p} : pool'[r] = pool[r] /\ pulled'[r] = pulled[r]
      /\ \A r \in Pools : pool'[r].state = pool[r].state
      /\ UNCHANGED <<prev, call, added>>
  BY <1>1, PullEffect
<1>5. /\ pool'[p].len = IF pool[p].len = 0 THEN 0 ELSE pool[p].len - 1
      /\ pool'[p].front = IF pool[p].len = 0 THEN pool[p].front
                          ELSE IF pool[p].len = 1 THEN NoJob ELSE Behind(pool[p])
      /\ pool'[p].rear = IF pool[p].len = 1 THEN NoJob ELSE pool[p].rear
      /\ pulled'[p] = IF pool[p].len = 0 THEN pulled[p] ELSE pulled[p] + 1
  BY <1>1, PullEffect
<1>6. Linked(p)
  BY <1>2, <1>3 DEF LinkInv
<1>7. PICK n \in Nat, m \in Nat : n = Len(added[p]) /\ m = pulled[p]
  BY <1>3
<1>8. Linked(p)'
  <2>1. CASE m = n
    <3>1. pulled'[p] = m /\ pool'[p].len = 0 /\ added'[p] = added[p] /\ prev' = prev
      BY <1>3, <1>4, <1>5, <1>7, <2>1
    <3>. QED  BY <1>3, <1>6, <1>7, <2>1, <3>1 DEF Linked
  <2>2. CASE m # n
    <3>1. pool[p].len = n - m /\ m < n
      BY <1>3, <1>7, <2>2
    <3>2. pulled'[p] = m + 1 /\ pool'[p].len = n - (m + 1) /\ added'[p] = added[p] /\ prev' = prev
      BY <1>4, <1>5, <1>7, <3>1
    <3>3. m + 1 < n => pool'[p].front = added[p][m + 2] /\ pool'[p].rear = added[p][n]
      BY <1>3, <1>5, <1>6, <1>7, <3>1 DEF Linked
    <3>4. \A i \in (m + 2)..(n - 1) : prev[added[p][i]] = added[p][i + 1]
      BY SMTT(30), <1>6, <1>7 DEF Linked
    <3>. QED  BY <1>7, <3>1, <3>2, <3>3, <3>4 DEF Linked
  <2>. QED  BY <2>1, <2>2
<1>9. ASSUME NEW q \in Pools \ {p}, pool'[q].state # "freed"  PROVE Linked(q)'
  BY <1>2, <1>4, <1>9 DEF LinkInv, Linked
<1>10. AddedOnce'
  BY <1>2, <1>4 DEF LinkInv, AddedOnce
<1>11. NewJobs'
  BY <1>2, <1>4 DEF LinkInv, NewJobs, Everyone
<1>. QED  BY <1>8, <1>9, <1>10, <1>11 DEF LinkInv

\* Every step keeps LinkInv.
LEMMA LinkStep ==
  ASSUME PoolInv, [Next]_vars
  PROVE  LinkInv'
<1>p. LinkInv /\ TypeOK /\ OtherTypes /\ PcTypes /\ Workers \cap Clients = {}
  BY TypeParts, ThreadsAssumption DEF PoolInv
<1>1. CASE QuietStep
  <2>1. \A w \in Workers : pc'[w] = "add" => pc[w] = "add"
    BY <1>1 DEF QuietStep, SameCounts
  <2>2. SameQueues
    BY <1>1, <2>1 DEF QuietStep, SameFields, SameQueues, Everyone
  <2>. QED  BY <1>p, <2>2, SameQueuesStep
<1>2. ASSUME NEW w \in Workers,
             CountAlive(w) \/ CountWorking(w) \/ UncountWorking(w) \/ UncountAlive(w)
      PROVE  LinkInv'
  <2>1. SameQueues
    BY <1>2, <1>p, CountersEffect DEF SameQueues, Everyone
  <2>. QED  BY <1>p, <2>1, SameQueuesStep
<1>3. ASSUME NEW w \in Workers, RunJob(w)  PROVE LinkInv'
  <2>1. SameQueues
    BY <1>3, <1>p DEF RunJob, Goto, SameQueues, PcTypes, queueVars
  <2>. QED  BY <1>p, <2>1, SameQueuesStep
<1>4. ASSUME NEW x \in Everyone, NEW p \in Pools, NEW j \in Jobs, AddCall(x, p, j)  PROVE LinkInv'
  <2>1. /\ pc'[x] = "add" /\ \A y \in Everyone \ {x} : pc'[y] = pc[y]
        /\ call'[x].job = j /\ \A y \in Everyone \ {x} : call'[y] = call[y]
        /\ UNCHANGED <<pool, prev, added, pulled>>
    BY <1>4, <1>p DEF AddCall, Goto, PcTypes, OtherTypes, Everyone, queueVars, historyVars
  <2>2. /\ \A q \in Pools : \A k \in DOMAIN added[q] : added[q][k] # j
        /\ \A y \in Everyone : pc[y] = "add" => call[y].job # j
    BY <1>4, <1>p DEF AddCall, PcTypes
  <2>3. NewJobs'
    BY <1>p, <2>1, <2>2 DEF LinkInv, NewJobs, Everyone
  <2>4. AddedOnce' /\ \A q \in Pools : pool'[q].state # "freed" => Linked(q)'
    BY <1>p, <2>1 DEF LinkInv, Linked, AddedOnce
  <2>. QED  BY <2>3, <2>4 DEF LinkInv
<1>5. ASSUME NEW c \in Clients, NEW p \in Pools, WaitCall(c, p)  PROVE LinkInv'
  <2>1. SameQueues
    BY <1>5, <1>p DEF WaitCall, Goto, SameQueues, PcTypes, OtherTypes, Everyone, queueVars
  <2>. QED  BY <1>p, <2>1, SameQueuesStep
<1>6. ASSUME NEW c \in Clients, Poll(c)  PROVE LinkInv'
  <2>1. SameQueues
    BY <1>6, <1>p DEF Poll, Goto, SameQueues, PcTypes, Everyone, queueVars, historyVars
  <2>. QED  BY <1>p, <2>1, SameQueuesStep
<1>7. ASSUME NEW c \in Clients, NEW p \in Pools, InitReadsGarbage(c, p)  PROVE LinkInv'
  <2>1. SameQueues
    BY <1>7, <1>p DEF InitReadsGarbage, EmptyPool, SameQueues, PcTypes, Everyone, historyVars
  <2>. QED  BY <1>p, <2>1, SameQueuesStep
<1>8. ASSUME NEW c \in Clients, NEW p \in Pools, LifeStep(c, p)  PROVE LinkInv'
  <2>1. /\ \A q \in Pools \ {p} : pool'[q] = pool[q]
        /\ <<pool[p].state, pool'[p].state, pc[c], pc'[c]>> \in Life
        /\ pool'[p].state # "freed" =>
             /\ pool'[p].len = pool[p].len
             /\ pool'[p].front = pool[p].front /\ pool'[p].rear = pool[p].rear
        /\ \A d \in Clients \ {c} : pc'[d] = pc[d]
        /\ \A w \in Workers : pc'[w] = pc[w] \/ pc'[w] = "init"
        /\ \A y \in Everyone \ {c} : call'[y] = call[y]
        /\ UNCHANGED <<prev, added, pulled>>
    BY <1>8, LifeEffect
  <2>2. pool[p].state # "freed" /\ pc'[c] # "add"
    BY <2>1 DEF Life
  <2>3. SameQueues
    BY <1>p, <2>1, <2>2 DEF SameQueues, Everyone
  <2>. QED  BY <1>p, <2>3, SameQueuesStep
<1>. QED  BY <1>1, <1>2, <1>3, <1>4, <1>5, <1>6, <1>7, <1>8, PushLinks, PullLinks, NextCases

-----------------------------------------------------------------------------
(* The jobs that were pulled. *)

\* A step that changes neither the jobs nor who has them, and brings no client into
\* thpool_wait or from one read of its condition to the next.
SameJobs ==
  /\ UNCHANGED <<job, added, pulled, done, before>>
  /\ \A p \in Pools : pool'[p].state # "freed" => pool[p].state # "freed"
  /\ \A w \in Workers : pc'[w] \in InHand => pc[w] \in InHand
  /\ \A p \in Pools : pool'[p].state # "freed" =>
       \A w \in Members(p) : pc[w] \in InHand => pc'[w] \in InHand
  /\ \A c \in Clients : pc'[c] \in {"wait_len", "wait_working"} =>
       pc'[c] = pc[c] /\ call'[c] = call[c]

\* Such a step keeps DoneInv.
LEMMA SameJobsStep ==
  ASSUME DoneInv, SameJobs
  PROVE  DoneInv'
<1>1. \A p \in Pools : Pulled(p)' = Pulled(p)
  BY DEF SameJobs, Pulled
<1>2. HandInv'
  <2>1. \A p \in Pools : pool'[p].state # "freed" => In(p, InHand) \subseteq In(p, InHand)'
    BY DEF SameJobs, In
  <2>2. job' = job /\ done' = done
    BY DEF SameJobs
  <2>3. \A w \in Workers : pc'[w] \in InHand => job'[w] \in Jobs
    BY <2>2 DEF SameJobs, DoneInv, HandInv
  <2>4. \A p \in Pools : pool'[p].state # "freed" =>
          Pulled(p) \subseteq done \cup {job[w] : w \in In(p, InHand)}
    BY DEF SameJobs, DoneInv, HandInv
  <2>5. \A p \in Pools : pool'[p].state # "freed" =>
          Pulled(p)' \subseteq done' \cup {job'[w] : w \in In(p, InHand)'}
    BY <1>1, <2>1, <2>2, <2>4
  <2>. QED  BY <2>3, <2>5 DEF HandInv
<1>3. WaitInv'
  BY DEF SameJobs, DoneInv, WaitInv, Pulled
<1>. QED  BY <1>2, <1>3 DEF DoneInv

\* A worker that pulls a job has it in hand.
LEMMA PullHands ==
  ASSUME PoolInv, NEW w \in Workers, Pull(w)
  PROVE  DoneInv'
<1>1. PICK p \in Pools : p = PoolOf(w)
  BY PoolOfWorker
<1>2. HandInv /\ WaitInv /\ w \in Members(p) /\ PcTypes /\ Workers \cap Clients = {}
  BY <1>1, PoolOfWorker, TypeParts, ThreadsAssumption DEF PoolInv, DoneInv
<1>3. PICK n \in Nat, m \in Nat : n = pool[p].len /\ m = pulled[p]
  BY <1>1, PulledQueue DEF Pull
<1>4. n # 0 => pool[p].front = added[p][m + 1] /\ pool[p].front \in Jobs
  BY <1>1, <1>3, PulledQueue DEF Pull
<1>5. /\ \A y \in Everyone \ {w} : pc'[y] = pc[y]
      /\ pc[w] = "pull_in"
      /\ pc'[w] = IF n > 1 THEN "pull_post" ELSE IF n = 1 THEN "run" ELSE "dec"
      /\ \A r \in Pools \ {p} : pulled'[r] = pulled[r]
      /\ \A r \in Pools : pool'[r].state = pool[r].state
      /\ pulled'[p] = IF n = 0 THEN m ELSE m + 1
      /\ job'[w] = IF n = 0 THEN NoJob ELSE pool[p].front
      /\ \A v \in Workers \ {w} : job'[v] = job[v]
      /\ UNCHANGED <<call, added, done, before>>
  BY <1>1, <1>3, PullEffect
<1>6. \A v \in Workers : pc'[v] \in InHand => \/ v # w /\ pc[v] \in InHand /\ job'[v] = job[v]
                                              \/ v = w /\ job'[v] \in Jobs
  BY <1>3, <1>4, <1>5 DEF InHand, Everyone
<1>7. \A v \in Workers : pc[v] \in InHand => pc'[v] \in InHand /\ job'[v] = job[v]
  BY <1>5 DEF InHand, Everyone
<1>8. n # 0 => pc'[w] \in InHand
  BY <1>3, <1>5 DEF InHand
<1>9. \A q \in Pools : \A j : j \in Pulled(q)' => j \in Pulled(q) \/ (q = p /\ n # 0 /\ j = job'[w])
  BY <1>3, <1>4, <1>5 DEF Pulled
<1>10. \A q \in Pools : Pulled(q) \subseteq Pulled(q)'
  BY <1>3, <1>5 DEF Pulled
<1>11. HandInv'
  <2>1. \A v \in Workers : pc'[v] \in InHand => job'[v] \in Jobs
    BY <1>2, <1>6 DEF HandInv
  <2>2. ASSUME NEW q \in Pools, pool'[q].state # "freed", NEW j, j \in Pulled(q)'
        PROVE  j \in done' \/ \E v \in In(q, InHand)' : j = job'[v]
    <3>1. CASE j \in Pulled(q)
      <4>1. j \in done \/ \E v \in In(q, InHand) : j = job[v]
        BY <1>2, <1>5, <2>2, <3>1 DEF HandInv
      <4>2. \A v \in In(q, InHand) : v \in In(q, InHand)' /\ job'[v] = job[v]
        BY <1>7, PoolOfWorker DEF In
      <4>. QED  BY <1>5, <4>1, <4>2
    <3>2. CASE q = p /\ n # 0 /\ j = job'[w]
      <4>1. w \in In(q, InHand)'
        BY <1>2, <1>8, <3>2 DEF In
      <4>. QED  BY <3>2, <4>1
    <3>. QED  BY <1>9, <2>2, <3>1, <3>2
  <2>. QED  BY <2>1, <2>2 DEF HandInv
<1>12. WaitInv'
  <2>1. \A c \in Clients : pc'[c] = pc[c] /\ call'[c] = call[c] /\ before'[c] = before[c]
    BY <1>2, <1>5 DEF Everyone
  <2>2. \A c \in Clients : pc[c] = "wait_working" => call[c].pool \in Pools
    BY DEF PoolInv, CallInv
  <2>3. \A c \in Clients : pc[c] = "wait_working" => before[c] \subseteq Pulled(call[c].pool)'
    <3>. SUFFICES ASSUME NEW c \in Clients, pc[c] = "wait_working"
                  PROVE  before[c] \subseteq Pulled(call[c].pool)'
      OBVIOUS
    <3>1. PICK q \in Pools : q = call[c].pool
      BY <2>2
    <3>2. before[c] \subseteq Pulled(q)
      BY <1>2, <3>1 DEF WaitInv
    <3>3. Pulled(q)' = Pulled(call[c].pool)'
      BY <1>5, <3>1 DEF Pulled
    <3>. QED  BY <1>10, <3>2, <3>3
  <2>. QED  BY <1>2, <1>5, <2>1, <2>3 DEF WaitInv, Pulled
<1>. QED  BY <1>11, <1>12 DEF DoneInv

\* A job that returns is done.
LEMMA RunHands ==
  ASSUME PoolInv, NEW w \in Workers, RunJob(w)
  PROVE  DoneInv'
<1>1. HandInv /\ WaitInv /\ PcTypes /\ Workers \cap Clients = {}
  BY TypeParts, ThreadsAssumption DEF PoolInv, DoneInv
<1>2. /\ \A y \in Everyone \ {w} : pc'[y] = pc[y]
      /\ pc[w] = "run" /\ pc'[w] = "dec" /\ done' = done \cup {job[w]}
      /\ UNCHANGED <<pool, job, call, added, pulled, before>>
  BY <1>1 DEF RunJob, Goto, PcTypes, Everyone, queueVars
<1>3. \A v \in Workers : pc'[v] \in InHand => pc[v] \in InHand
  BY <1>2 DEF InHand, Everyone
<1>4. \A p \in Pools : \A v \in In(p, InHand) : v = w \/ v \in In(p, InHand)'
  BY <1>2, PoolOfWorker DEF In, Everyone
<1>5. \A p \in Pools : Pulled(p)' = Pulled(p)
  BY <1>2 DEF Pulled
<1>6. HandInv'
  <2>1. \A v \in Workers : pc'[v] \in InHand => job'[v] \in Jobs
    BY <1>1, <1>2, <1>3 DEF HandInv
  <2>2. ASSUME NEW q \in Pools, pool'[q].state # "freed", NEW j, j \in Pulled(q)'
        PROVE  j \in done' \/ \E v \in In(q, InHand)' : j = job'[v]
    <3>1. j \in done \/ \E v \in In(q, InHand) : j = job[v]
      BY <1>1, <1>2, <1>5, <2>2 DEF HandInv
    <3>. QED  BY <1>2, <1>4, <3>1
  <2>. QED  BY <2>1, <2>2 DEF HandInv
<1>7. WaitInv'
  BY <1>1, <1>2 DEF WaitInv, Pulled, Everyone
<1>. QED  BY <1>6, <1>7 DEF DoneInv

\* A push changes none of the jobs pulled before.
LEMMA PushHands ==
  ASSUME PoolInv, NEW x \in Everyone, AddPush(x)
  PROVE  DoneInv'
<1>1. PICK p \in Pools : p = call[x].pool
  BY PushEffect
<1>2. HandInv /\ WaitInv
  BY DEF PoolInv, DoneInv
<1>3. /\ \A y \in Everyone \ {x} : pc'[y] = pc[y]
      /\ pc[x] = "add" /\ pc'[x] = "post" /\ pool[p].state # "freed"
      /\ \A r \in Pools \ {p} : added'[r] = added[r]
      /\ \A r \in Pools : pool'[r].state = pool[r].state
      /\ added'[p] = Append(added[p], call[x].job)
      /\ UNCHANGED <<job, call, pulled, done, before>>
  BY <1>1, PushEffect
<1>4. /\ added[p] \in Seq(Jobs) /\ pulled[p] \in Nat /\ pulled[p] <= Len(added[p])
      /\ call[x].job \in Jobs
  <2>1. added[p] \in Seq(Jobs) /\ pulled[p] \in Nat
    BY DEF PoolInv, TypeOK
  <2>2. pulled[p] <= Len(added[p])
    BY <1>3 DEF PoolInv, LinkInv, Linked
  <2>. QED  BY <1>1, <2>1, <2>2, PushEffect
<1>5. \A k \in 1..Len(added[p]) : added'[p][k] = added[p][k] /\ k \in DOMAIN added'[p]
  BY <1>3, <1>4
<1>6. \A q \in Pools : Pulled(q)' = Pulled(q)
  <2>1. Pulled(p)' = Pulled(p)
    <3>1. \A k \in 1..pulled[p] : added'[p][k] = added[p][k]
      BY <1>4, <1>5
    <3>. QED  BY ZenonT(30), <1>3, <3>1 DEF Pulled
  <2>2. ASSUME NEW q \in Pools \ {p}  PROVE Pulled(q)' = Pulled(q)
    BY <1>3 DEF Pulled
  <2>. QED  BY <2>1, <2>2
<1>7. \A w \in Workers : pc'[w] \in InHand <=> pc[w] \in InHand
  BY <1>3 DEF InHand, Everyone
<1>8. \A q \in Pools : In(q, InHand)' = In(q, InHand)
  BY <1>7, PoolOfWorker DEF In
<1>9. HandInv'
  <2>1. \A w \in Workers : pc'[w] \in InHand => job'[w] \in Jobs
    BY <1>2, <1>3, <1>7 DEF HandInv
  <2>2. \A q \in Pools : pool'[q].state # "freed" =>
          Pulled(q)' \subseteq done' \cup {job'[w] : w \in In(q, InHand)'}
    BY <1>2, <1>3, <1>6, <1>8 DEF HandInv
  <2>. QED  BY <2>1, <2>2 DEF HandInv
<1>10. WaitInv'
  <2>1. ASSUME NEW c \in Clients, pc'[c] \in {"wait_len", "wait_working"}
        PROVE  pc[c] = pc'[c] /\ call[c].pool \in Pools
    BY <1>3, <2>1 DEF PoolInv, CallInv, Everyone
  <2>2. \A q \in Pools : {added[q][k] : k \in DOMAIN added[q]} \subseteq {added'[q][k] : k \in DOMAIN added'[q]}
    BY <1>3, <1>4, <1>5
  <2>. QED  BY <1>2, <1>3, <1>6, <2>1, <2>2 DEF WaitInv
<1>. QED  BY <1>9, <1>10 DEF DoneInv

\* thpool_wait: when the queue is empty all that was added has been pulled.
LEMMA PollHands ==
  ASSUME PoolInv, NEW c \in Clients, Poll(c)
  PROVE  DoneInv'
<1>1. HandInv /\ WaitInv /\ PcTypes /\ Workers \cap Clients = {}
  BY TypeParts, ThreadsAssumption DEF PoolInv, DoneInv
<1>2. /\ \A y \in Everyone \ {c} : pc'[y] = pc[y]
      /\ pc[c] \in {"wait_len", "wait_working"}
      /\ pc'[c] = "wait_working" => pc[c] = "wait_len" /\ pool[call[c].pool].len = 0
      /\ UNCHANGED <<pool, job, call, added, pulled, done, before>>
  BY <1>1 DEF Poll, Polled, Goto, PcTypes, Everyone, queueVars, historyVars
<1>3. HandInv'
  <2>1. \A w \in Workers : pc'[w] = pc[w]
    BY <1>1, <1>2 DEF Everyone
  <2>2. \A q \in Pools : In(q, InHand)' = In(q, InHand) /\ Pulled(q)' = Pulled(q)
    BY <1>2, <2>1, PoolOfWorker DEF In, Pulled
  <2>. QED  BY <1>1, <1>2, <2>1, <2>2 DEF HandInv
<1>4. pc'[c] = "wait_working" => before[c] \subseteq Pulled(call[c].pool)
  <2>. SUFFICES ASSUME pc'[c] = "wait_working"  PROVE before[c] \subseteq Pulled(call[c].pool)
    OBVIOUS
  <2>1. PICK p \in Pools : p = call[c].pool
    BY <1>2 DEF PoolInv, CallInv
  <2>2. pool[p].state = "live"
    BY <1>2, <2>1 DEF PoolInv, CallInv
  <2>3. pulled[p] <= Len(added[p]) /\ pool[p].len = Len(added[p]) - pulled[p]
    BY <2>2 DEF PoolInv, LinkInv, Linked
  <2>4. added[p] \in Seq(Jobs) /\ pulled[p] \in Nat /\ pool[p].len = 0
    BY <1>2, <2>1 DEF PoolInv, TypeOK
  <2>5. DOMAIN added[p] = 1..pulled[p]
    BY <2>3, <2>4
  <2>6. before[c] \subseteq {added[p][k] : k \in DOMAIN added[p]}
    BY <1>1, <1>2, <2>1 DEF WaitInv
  <2>. QED  BY <2>1, <2>5, <2>6 DEF Pulled
<1>5. WaitInv'
  BY <1>1, <1>2, <1>4 DEF WaitInv, Pulled, Everyone
<1>. QED  BY <1>3, <1>5 DEF DoneInv

\* Every step keeps DoneInv.
LEMMA DoneStep ==
  ASSUME PoolInv, [Next]_vars
  PROVE  DoneInv'
<1>p. DoneInv /\ TypeOK /\ OtherTypes /\ PcTypes /\ Workers \cap Clients = {}
  BY TypeParts, ThreadsAssumption DEF PoolInv
<1>m. \A p \in Pools : Members(p) \subseteq Workers
  BY PoolOfWorker
<1>1. CASE QuietStep
  <2>1. \A w \in Workers : pc'[w] \in InHand <=> pc[w] \in InHand
    BY <1>1 DEF QuietStep, SameCounts
  <2>2. SameJobs
    BY <1>1, <1>m, <2>1 DEF QuietStep, SameFields, SameJobs
  <2>. QED  BY <1>p, <2>2, SameJobsStep
<1>2. ASSUME NEW w \in Workers,
             CountAlive(w) \/ CountWorking(w) \/ UncountWorking(w) \/ UncountAlive(w)
      PROVE  DoneInv'
  <2>1. \A v \in Workers : pc'[v] \in InHand <=> pc[v] \in InHand
    BY <1>2, <1>p, CountersEffect DEF Everyone, InHand
  <2>2. SameJobs
    BY <1>2, <1>p, <1>m, <2>1, CountersEffect DEF SameJobs, Everyone
  <2>. QED  BY <1>p, <2>2, SameJobsStep
<1>3. ASSUME NEW x \in Everyone, NEW p \in Pools, NEW j \in Jobs, AddCall(x, p, j)  PROVE DoneInv'
  <2>1. /\ pc'[x] = "add" /\ \A y \in Everyone \ {x} : pc'[y] = pc[y] /\ call'[y] = call[y]
        /\ x \in Workers => pc[x] = "run"
        /\ UNCHANGED <<pool, job, added, pulled, done, before>>
    BY <1>3, <1>p DEF AddCall, Goto, PcTypes, OtherTypes, Everyone, queueVars, historyVars
  <2>2. \A v \in Workers : pc'[v] \in InHand <=> pc[v] \in InHand
    BY <2>1 DEF Everyone, InHand
  <2>3. SameJobs
    BY <1>m, <2>1, <2>2 DEF SameJobs, Everyone
  <2>. QED  BY <1>p, <2>3, SameJobsStep
<1>4. ASSUME NEW c \in Clients, NEW p \in Pools, WaitCall(c, p)  PROVE DoneInv'
  <2>1. /\ pc'[c] = "wait_len" /\ \A y \in Everyone \ {c} : pc'[y] = pc[y]
        /\ call'[c].pool = p /\ \A y \in Everyone \ {c} : call'[y] = call[y]
        /\ before'[c] = {added[p][k] : k \in DOMAIN added[p]}
        /\ \A d \in Clients \ {c} : before'[d] = before[d]
        /\ UNCHANGED <<pool, job, added, pulled, done>>
    BY <1>4, <1>p DEF WaitCall, Goto, PcTypes, OtherTypes, Everyone, queueVars
  <2>2. \A q \in Pools : In(q, InHand)' = In(q, InHand) /\ Pulled(q)' = Pulled(q)
    BY <1>p, <1>m, <2>1 DEF In, Pulled, Everyone
  <2>3. HandInv'
    BY <1>p, <2>1, <2>2 DEF DoneInv, HandInv, Everyone
  <2>4. WaitInv'
    BY <1>p, <2>1 DEF DoneInv, WaitInv, Pulled, Everyone
  <2>. QED  BY <2>3, <2>4 DEF DoneInv
<1>5. ASSUME NEW c \in Clients, NEW p \in Pools, InitReadsGarbage(c, p)  PROVE DoneInv'
  <2>1. /\ \A y \in Everyone : pc'[y] = "crashed"
        /\ \A q \in Pools : pool'[q].state = "freed"
        /\ UNCHANGED <<job, added, pulled, done, before>>
    BY <1>5, <1>p DEF InitReadsGarbage, EmptyPool, PcTypes, historyVars
  <2>2. SameJobs
    BY <2>1 DEF SameJobs, Everyone, InHand
  <2>. QED  BY <1>p, <2>2, SameJobsStep
<1>6. ASSUME NEW c \in Clients, NEW p \in Pools, LifeStep(c, p)  PROVE DoneInv'
  <2>1. /\ \A q \in Pools \ {p} : pool'[q] = pool[q]
        /\ <<pool[p].state, pool'[p].state, pc[c], pc'[c]>> \in Life
        /\ \A d \in Clients \ {c} : pc'[d] = pc[d]
        /\ \A w \in Workers : pc'[w] = IF pool'[p].state = "init" /\ w \in Members(p) THEN "init" ELSE pc[w]
        /\ \A y \in Everyone \ {c} : call'[y] = call[y]
        /\ UNCHANGED <<job, added, pulled, done, before>>
    BY <1>6, LifeEffect
  <2>2. pool'[p].state = "init" => \A w \in Members(p) : pc[w] = "unborn"
    BY <2>1 DEF Life, PoolInv, CountInv
  <2>3. \A w \in Workers : pc'[w] \in InHand <=> pc[w] \in InHand
    BY <2>1, <2>2 DEF InHand
  <2>4. pool[p].state # "freed" /\ pc'[c] \notin {"wait_len", "wait_working"}
    BY <2>1 DEF Life
  <2>5. SameJobs
    BY <1>m, <2>1, <2>3, <2>4 DEF SameJobs, Everyone
  <2>. QED  BY <1>p, <2>5, SameJobsStep
<1>. QED  BY <1>1, <1>2, <1>3, <1>4, <1>5, <1>6, PullHands, RunHands, PushHands, PollHands, NextCases

-----------------------------------------------------------------------------
(* The theorems. *)

\* The initial state, in which no pool has been made.
LEMMA PoolInit == Init => PoolInv
<1>. SUFFICES ASSUME Init  PROVE PoolInv
  OBVIOUS
<1>p. Workers \cap Clients = {} /\ \A p \in Pools : Members(p) \subseteq Workers
  BY ThreadsAssumption, PoolOfWorker
<1>1. TypeOK
  <2>1. pool \in [Pools -> PoolRecords]
    BY DEF Init, EmptyPool, PoolRecords, PoolStates
  <2>2. PcTypes
    BY <1>p DEF Init, PcTypes, WorkerPcs, ClientPcs, Everyone
  <2>3. OtherTypes
    <3>1. added \in [Pools -> Seq(Jobs)] /\ pulled \in [Pools -> Nat] /\ pauses \in 0..MaxPauses
      BY OptionsAssumption DEF Init
    <3>2. paused \in BOOLEAN
      BY DEF Init
    <3>3. /\ prev \in [Jobs -> Jobs \cup {NoJob}] /\ job \in [Workers -> Jobs \cup {NoJob}]
          /\ call \in [Workers \cup Clients -> [pool : Pools \cup {NoPool}, job : Jobs \cup {NoJob}]]
          /\ phase \in [Clients -> 1..3] /\ before \in [Clients -> SUBSET Jobs]
      BY DEF Init
    <3>. QED  BY <3>1, <3>2, <3>3 DEF Init, OtherTypes
  <2>. QED  BY <2>1, <2>2, <2>3, TypeParts
<1>2. (\A w \in Workers : pc[w] = "unborn") /\ (\A c \in Clients : pc[c] = "idle")
  BY <1>p DEF Init
<1>3. CallInv
  BY <1>2 DEF CallInv
<1>4. CountInv
  <2>1. \A p \in Pools : In(p, Alive) = {} /\ In(p, Working) = {}
    BY <1>p, <1>2 DEF In, Alive, Working
  <2>. QED  BY <1>p, <1>2, <2>1, FS_EmptySet DEF Init, EmptyPool, CountInv
<1>5. LinkInv
  <2>1. \A p \in Pools : added[p] = <<>> /\ pulled[p] = 0 /\ pool[p].len = 0
    BY DEF Init, EmptyPool
  <2>2. \A p \in Pools : Linked(p)
    BY <2>1 DEF Linked
  <2>. QED  BY <1>2, <2>1, <2>2 DEF LinkInv, AddedOnce, NewJobs
<1>6. DoneInv
  <2>1. \A p \in Pools : Pulled(p) = {}
    BY DEF Init, Pulled
  <2>. QED  BY <1>2, <2>1 DEF DoneInv, HandInv, WaitInv, InHand
<1>. QED  BY <1>1, <1>3, <1>4, <1>5, <1>6 DEF PoolInv

\* The types, the calls, the counters, the queues and the jobs in hand of all pools
\* are always as PoolInv says, whatever the order of the steps of the clients, of the
\* workers and of the signals.
THEOREM PoolInvariant == Spec => []PoolInv
<1>1. PoolInv /\ [Next]_vars => PoolInv'
  BY TypeStep, CallStep, CountStep, LinkStep, DoneStep DEF PoolInv
<1>. QED  BY <1>1, PoolInit, PTL DEF Spec

\* The linked queue of every pool that is not freed holds the jobs added and not yet
\* pulled, in their order (jobqueue_push and jobqueue_pull).
THEOREM QueueIsLinked == Spec => []QueueLinked
<1>1. PoolInv => QueueLinked
  BY DEF PoolInv, LinkInv, Linked, QueueLinked
<1>. QED  BY <1>1, PoolInvariant, PTL

\* thpool_destroy frees a pool only when its threads have nothing left to do but to
\* leave.
THEOREM FreedPoolsAreQuiet == Spec => []FreedPoolIsQuiet
<1>1. PoolInv => FreedPoolIsQuiet
  BY DEF PoolInv, CountInv, FreedPoolIsQuiet
<1>. QED  BY <1>1, PoolInvariant, PTL

\* thpool_wait returns only when every job added before the call is done: at its last
\* read no worker counts itself as working, so none has a job in hand, and the jobs
\* waited for had left the queue when it was read before.
THEOREM WaitIsSound == Spec => WaitSound
<1>1. ASSUME PoolInv, Next, NEW c \in Clients,
             pc[c] \in {"wait_len", "wait_working"}, pc'[c] = "idle"
      PROVE  before[c] \subseteq done
  <2>1. Poll(c)
    <3>. USE <1>1
    <3>1. PcTypes /\ TypeOK /\ CallInv /\ Workers \cap Clients = {}
      BY TypeParts, ThreadsAssumption DEF PoolInv
    <3>2. CASE QuietStep
      BY <3>2 DEF QuietStep
    <3>3. ASSUME NEW d \in Clients, NEW p \in Pools, LifeStep(d, p)  PROVE FALSE
      <4>1. /\ <<pool[p].state, pool'[p].state, pc[d], pc'[d]>> \in Life
            /\ \A e \in Clients \ {d} : pc'[e] = pc[e]
        BY <3>3, LifeEffect
      <4>. QED  BY <4>1 DEF Life
    <3>4. ASSUME NEW d \in Clients, NEW p \in Pools, InitReadsGarbage(d, p) \/ WaitCall(d, p)  PROVE FALSE
      BY <3>1, <3>4 DEF InitReadsGarbage, WaitCall, Goto, PcTypes, Everyone
    <3>5. ASSUME NEW d \in Clients, Poll(d)  PROVE Poll(c)
      BY <3>1, <3>5 DEF Poll, Goto, PcTypes, Everyone
    <3>6. ASSUME NEW x \in Everyone, AddPush(x)  PROVE FALSE
      BY <3>6, PushEffect DEF Everyone
    <3>7. ASSUME NEW x \in Everyone, NEW p \in Pools, NEW j \in Jobs, AddCall(x, p, j)  PROVE FALSE
      BY <3>1, <3>7 DEF AddCall, Goto, PcTypes, Everyone
    <3>8. ASSUME NEW w \in Workers,
                 CountAlive(w) \/ CountWorking(w) \/ UncountWorking(w) \/ UncountAlive(w)
          PROVE  FALSE
      BY <3>1, <3>8, CountersEffect DEF Everyone
    <3>9. ASSUME NEW w \in Workers, Pull(w)  PROVE FALSE
      BY <3>1, <3>9, PullEffect DEF Everyone
    <3>10. ASSUME NEW w \in Workers, RunJob(w)  PROVE FALSE
      BY <3>1, <3>10 DEF RunJob, Goto, PcTypes, Everyone
    <3>. QED  BY <3>2, <3>3, <3>4, <3>5, <3>6, <3>7, <3>8, <3>9, <3>10, NextCases
  <2>2. pc[c] = "wait_working" /\ pool[call[c].pool].working = 0
    BY <1>1, <2>1, TypeParts DEF Poll, Polled, Goto, PoolInv, PcTypes, Everyone
  <2>3. PICK p \in Pools : p = call[c].pool
    BY <1>1, <2>2 DEF PoolInv, CallInv
  <2>4. pool[p].state = "live" /\ before[c] \subseteq Pulled(p)
    BY <1>1, <2>2, <2>3 DEF PoolInv, CallInv, DoneInv, WaitInv
  <2>5. In(p, Working) = {}
    <3>1. Cardinality(In(p, Working)) = 0
      BY <1>1, <2>2, <2>3 DEF PoolInv, CountInv
    <3>. QED  BY <3>1, InCount
  <2>6. In(p, InHand) = {}
    BY <2>5 DEF In, InHand, Working
  <2>. QED  BY <1>1, <2>4, <2>6 DEF PoolInv, DoneInv, HandInv
<1>2. PoolInv /\ [Next]_vars =>
        [\A c \in Clients :
           pc[c] \in {"wait_len", "wait_working"} /\ pc'[c] = "idle" => before[c] \subseteq done]_vars
  BY <1>1
<1>. QED  BY <1>2, PoolInvariant, PTL DEF Spec, WaitSound

-----------------------------------------------------------------------------
(* The announcement of the jobs: no sleeping worker leaves a job behind. *)

\* A worker at one of these points has taken the semaphore down and is on the way to
\* the queue, or is about to post.
Heading == {"check", "inc", "pull", "pull_in", "pull_post"}

Announced(p) ==
  /\ pool[p].len > 0 =>
       \/ pool[p].v = 1
       \/ \E w \in Members(p) : pc[w] \in Heading
       \/ \E x \in Everyone : pc[x] = "post" /\ call[x].pool = p
  /\ pool[p].v = 1 /\ At(p, "wait") # {} => At(p, "bsem") \cup At(p, "bsem_in") # {}

NoPoolDestroyed == \A p \in Pools : pool[p].state \notin {"dying", "freed"}

\* threads_keepalive is shared: the creation of a third pool after the destruction of
\* one sets it to 1 again for the threads of a second, which may by then have taken the
\* semaphore down and turned back.
AtMostTwoPools == \A p, q, r \in Pools : p = q \/ q = r \/ p = r

\* The semaphore and the flag of every pool that is not destroyed.
AnnounceInv ==
  /\ \A p \in Pools : pool[p].state = "none" => pool[p].len = 0 /\ pool[p].v = 0
  /\ NoPoolDestroyed /\ (\E p \in Pools : pool[p].state # "none") => threads_keepalive = 1
  /\ threads_keepalive = 1 /\ (NoPoolDestroyed \/ AtMostTwoPools) =>
       \A p \in Pools : pool[p].state \in {"init", "live"} => Announced(p)

\* What a step leaves alone when it can neither hide a job of the pool nor put one of
\* its workers to sleep.
Unheard(p) ==
  /\ pool'[p].len = pool[p].len /\ pool'[p].v = pool[p].v
  /\ \A w \in Members(p) :
       /\ pc[w] \in Heading => pc'[w] \in Heading
       /\ pc'[w] = "wait" => pc[w] = "wait"
       /\ pc[w] \in {"bsem", "bsem_in"} => pc'[w] \in {"bsem", "bsem_in"}
  /\ \A x \in Everyone : pc[x] = "post" /\ call[x].pool = p =>
       pc'[x] = "post" /\ call'[x].pool = p

\* Such a step keeps the jobs of the pool announced.
LEMMA UnheardStep ==
  ASSUME NEW p \in Pools, Announced(p), Unheard(p)
  PROVE  Announced(p)'
<1>1. pool'[p].len > 0 => \/ pool'[p].v = 1
                          \/ \E w \in Members(p) : pc'[w] \in Heading
                          \/ \E x \in Everyone : pc'[x] = "post" /\ call'[x].pool = p
  BY DEF Announced, Unheard
<1>2. ASSUME pool'[p].v = 1, At(p, "wait")' # {}
      PROVE  At(p, "bsem")' \cup At(p, "bsem_in")' # {}
  BY <1>2 DEF Announced, Unheard, At
<1>. QED  BY <1>1, <1>2 DEF Announced

\* bsem_post wakes a worker of its pool if one sleeps, and no other thread.
LEMMA SignalEffect ==
  ASSUME TypeOK, NEW p \in Pools, NEW x \in Everyone, NEW where, pc[x] # "wait",
         \E woken \in Signal(At(p, "wait")) : GotoWaking(x, where, woken)
  PROVE  /\ pc'[x] = where
         /\ \A y \in Everyone \ {x} :
              pc'[y] = pc[y] \/ (y \in Members(p) /\ pc[y] = "wait" /\ pc'[y] = "bsem")
         /\ At(p, "wait") # {} => \E y \in Members(p) : pc'[y] = "bsem"
<1>1. PICK woken \in Signal(At(p, "wait")) : GotoWaking(x, where, woken)
  OBVIOUS
<1>2. woken \subseteq At(p, "wait") /\ (At(p, "wait") # {} => woken # {})
  BY DEF Signal
<1>3. \A y \in woken : y \in Members(p) /\ y \in Everyone /\ pc[y] = "wait" /\ y # x
  BY <1>2, PoolOfWorker DEF At, Everyone
<1>4. DOMAIN pc = Everyone
  BY PoolTypes
<1>. QED  BY <1>1, <1>2, <1>3, <1>4 DEF GotoWaking

\* A post to the semaphore of a pool: it is up, and if somebody still sleeps somebody
\* else was woken to test it.
LEMMA PostAnnounces ==
  ASSUME TypeOK, NEW p \in Pools, NEW x \in Everyone, NEW where, pc[x] # "wait", where # "wait",
         \E woken \in Signal(At(p, "wait")) : GotoWaking(x, where, woken),
         pool'[p].v = 1
  PROVE  Announced(p)'
<1>1. ASSUME At(p, "wait")' # {}  PROVE At(p, "bsem")' # {}
  <2>1. Members(p) \subseteq Everyone
    BY PoolOfWorker DEF Everyone
  <2>2. PICK z \in Members(p) : pc'[z] = "wait"
    BY <1>1 DEF At
  <2>3. At(p, "wait") # {}
    <3>1. pc'[x] = where /\ (z # x => pc'[z] = pc[z] \/ pc'[z] = "bsem")
      BY <2>1, SignalEffect
    <3>. QED  BY <2>2, <3>1 DEF At
  <2>4. \E y \in Members(p) : pc'[y] = "bsem"
    BY <2>3, SignalEffect
  <2>. QED  BY <2>4 DEF At
<1>. QED  BY <1>1 DEF Announced

\* A post to the semaphore of another pool wakes nobody of this one.
LEMMA PostElsewhere ==
  ASSUME TypeOK, NEW p \in Pools, NEW q \in Pools, p # q, NEW x \in Everyone, NEW where,
         pc[x] # "wait", where # "wait", x \notin Members(p),
         pc[x] = "post" => call[x].pool # p,
         \E woken \in Signal(At(q, "wait")) : GotoWaking(x, where, woken),
         pool'[p] = pool[p], call' = call
  PROVE  Unheard(p)
<1>1. \A y \in Members(p) : y \in Everyone /\ y # x /\ y \notin Members(q)
  BY PoolOfWorker DEF Everyone
<1>2. \A y \in Members(p) : pc'[y] = pc[y]
  BY <1>1, SignalEffect
<1>3. \A y \in Everyone : pc[y] = "post" /\ call[y].pool = p => pc'[y] = "post"
  <2>1. \A y \in Everyone \ {x} :
          pc'[y] = pc[y] \/ (y \in Members(q) /\ pc[y] = "wait" /\ pc'[y] = "bsem")
    BY SignalEffect, Zenon
  <2>. QED  BY <2>1
<1>. QED  BY <1>2, <1>3 DEF Unheard

\* The steps of thread_do that pass a mutex, count, or test a flag that is 1.
LEMMA StepUnheard ==
  ASSUME TypeOK, NEW p \in Pools, NEW w \in Workers, threads_keepalive = 1,
         \/ CountAlive(w) \/ LoopTest(w) \/ SemLock(w) \/ SpuriousWakeup(w) \/ AliveTest(w)
         \/ CountWorking(w) \/ PullLock(w) \/ UncountWorking(w) \/ UncountAlive(w) \/ LastUnlock(w)
  PROVE  Unheard(p)
<1>1. P(w) \in PoolRecords /\ PoolOf(w) \in Pools
  BY PoolTypes
<1>2. Members(p) \subseteq Everyone
  BY PoolOfWorker DEF Everyone
<1>3. ASSUME NEW from, NEW to, NEW new, Step(w, from, to, new),
             new.len = P(w).len, new.v = P(w).v,
             from \in Heading => to \in Heading, to # "wait", from # "post",
             from \in {"bsem", "bsem_in"} => to \in {"bsem", "bsem_in"}
      PROVE  Unheard(p)
  <2>1. /\ pc[w] = from /\ pc'[w] = to /\ \A y \in Everyone \ {w} : pc'[y] = pc[y]
        /\ pool'[PoolOf(w)] = new /\ \A q \in Pools \ {PoolOf(w)} : pool'[q] = pool[q]
        /\ call' = call
    BY <1>3, StepEffect
  <2>2. pool'[p].len = pool[p].len /\ pool'[p].v = pool[p].v
    BY <1>3, <2>1 DEF P
  <2>3. \A y \in Members(p) : /\ pc[y] \in Heading => pc'[y] \in Heading
                              /\ pc'[y] = "wait" => pc[y] = "wait"
                              /\ pc[y] \in {"bsem", "bsem_in"} => pc'[y] \in {"bsem", "bsem_in"}
    BY <1>2, <1>3, <2>1
  <2>4. \A x \in Everyone : pc[x] = "post" => pc'[x] = "post"
    BY <1>3, <2>1
  <2>. QED  BY <2>1, <2>2, <2>3, <2>4 DEF Unheard
<1>4. \A new : new \in {[P(w) EXCEPT !.semmutex = w], [P(w) EXCEPT !.rwmutex = w],
                        [P(w) EXCEPT !.alive = @ + 1], [P(w) EXCEPT !.working = @ + 1],
                        [P(w) EXCEPT !.working = @ - 1],
                        [P(w) EXCEPT !.alive = @ - 1, !.thcount_lock = w],
                        [P(w) EXCEPT !.thcount_lock = Nobody]} =>
         new.len = P(w).len /\ new.v = P(w).v
  BY <1>1 DEF PoolRecords
<1>5. CASE LoopTest(w) \/ SpuriousWakeup(w) \/ AliveTest(w)
  BY <1>3, <1>5 DEF LoopTest, SpuriousWakeup, AliveTest, Heading
<1>6. CASE SemLock(w) \/ PullLock(w) \/ LastUnlock(w)
  BY <1>3, <1>4, <1>6 DEF SemLock, PullLock, LastUnlock, Heading
<1>7. CASE CountAlive(w) \/ CountWorking(w)
  BY <1>3, <1>4, <1>7 DEF CountAlive, CountWorking, Heading
<1>8. CASE UncountWorking(w) \/ UncountAlive(w)
  BY <1>3, <1>4, <1>8 DEF UncountWorking, UncountAlive, Heading
<1>. QED  BY <1>5, <1>6, <1>7, <1>8

\* The test of the semaphore under its mutex: who takes it down is on the way to the
\* queue, and who goes to sleep found it down.
LEMMA SemTestAnnounced ==
  ASSUME TypeOK, NEW p \in Pools, Announced(p), NEW w \in Workers, SemTest(w)
  PROVE  Announced(p)'
<1>1. P(w) \in PoolRecords /\ PoolOf(w) \in Pools /\ w \in Members(PoolOf(w))
  BY PoolTypes, PoolOfWorker
<1>2. Members(p) \subseteq Everyone
  BY PoolOfWorker DEF Everyone
<1>3. PICK to, new : /\ Step(w, "bsem_in", to, new) /\ new.len = P(w).len /\ new.v = 0
                     /\ P(w).v = 1 => to = "check"
                     /\ P(w).v # 1 => to = "wait"
  <2>1. CASE P(w).v = 1
    <3>1. PICK new : new = [P(w) EXCEPT !.semmutex = Nobody, !.v = 0]
      OBVIOUS
    <3>2. new.len = P(w).len /\ new.v = 0
      BY <1>1, <3>1 DEF PoolRecords
    <3>3. Step(w, "bsem_in", "check", new)
      BY <2>1, <3>1 DEF SemTest
    <3>. QED  BY <2>1, <3>2, <3>3
  <2>2. CASE P(w).v # 1
    <3>1. PICK new : new = [P(w) EXCEPT !.semmutex = Nobody]
      OBVIOUS
    <3>2. new.len = P(w).len /\ new.v = 0
      BY <1>1, <2>2, <3>1 DEF PoolRecords
    <3>3. Step(w, "bsem_in", "wait", new)
      BY <2>2, <3>1 DEF SemTest
    <3>. QED  BY <2>2, <3>2, <3>3
  <2>. QED  BY <2>1, <2>2
<1>4. /\ pc[w] = "bsem_in" /\ pc'[w] = to /\ \A y \in Everyone \ {w} : pc'[y] = pc[y]
      /\ pool'[PoolOf(w)] = new /\ \A q \in Pools \ {PoolOf(w)} : pool'[q] = pool[q]
      /\ call' = call
  BY <1>3, StepEffect
<1>5. CASE PoolOf(w) = p
  <2>1. pool'[p].len = pool[p].len /\ pool'[p].v = 0
    BY <1>3, <1>4, <1>5 DEF P
  <2>2. pool[p].v = 1 => \E y \in Members(p) : pc'[y] \in Heading
    BY <1>1, <1>3, <1>4, <1>5 DEF P, Heading
  <2>3. \A y \in Members(p) : pc[y] \in Heading => pc'[y] \in Heading
    BY <1>2, <1>4 DEF Heading
  <2>4. \A x \in Everyone : pc[x] = "post" => pc'[x] = "post"
    BY <1>4
  <2>. QED  BY <1>4, <2>1, <2>2, <2>3, <2>4 DEF Announced
<1>6. CASE PoolOf(w) # p
  <2>1. \A y \in Members(p) : pc'[y] = pc[y]
    BY <1>2, <1>4, <1>6, PoolOfWorker
  <2>2. \A x \in Everyone : pc[x] = "post" => pc'[x] = "post"
    BY <1>4
  <2>3. pool'[p] = pool[p] /\ call' = call
    BY <1>4, <1>6
  <2>4. Unheard(p)
    BY <2>1, <2>2, <2>3 DEF Unheard
  <2>. QED  BY <2>4, UnheardStep
<1>. QED  BY <1>5, <1>6

\* A pull that leaves jobs behind is followed by a post.
LEMMA PullAnnounced ==
  ASSUME PoolInv, NEW p \in Pools, Announced(p), NEW w \in Workers, Pull(w)
  PROVE  Announced(p)'
<1>1. pool \in [Pools -> PoolRecords] /\ PoolOf(w) \in Pools /\ w \in Members(PoolOf(w))
  BY TypeParts, PoolOfWorker DEF PoolInv
<1>2. Members(p) \subseteq Everyone
  BY PoolOfWorker DEF Everyone
<1>3. /\ \A y \in Everyone \ {w} : pc'[y] = pc[y]
      /\ pc[w] = "pull_in"
      /\ pc'[w] = IF pool[PoolOf(w)].len > 1 THEN "pull_post"
                  ELSE IF pool[PoolOf(w)].len = 1 THEN "run" ELSE "dec"
      /\ \A r \in Pools \ {PoolOf(w)} : pool'[r] = pool[r]
      /\ pool'[PoolOf(w)].len = IF pool[PoolOf(w)].len = 0 THEN 0 ELSE pool[PoolOf(w)].len - 1
      /\ call' = call
  BY PullEffect
<1>4. pool'[PoolOf(w)].v = pool[PoolOf(w)].v
  BY <1>1 DEF Pull, PoolRecords
<1>5. \A y \in Members(p) : /\ pc'[y] = "wait" => pc[y] = "wait"
                            /\ pc[y] \in {"bsem", "bsem_in"} => pc'[y] = pc[y]
  BY <1>2, <1>3
<1>6. \A x \in Everyone : pc[x] = "post" => pc'[x] = "post"
  BY <1>3
<1>7. CASE PoolOf(w) = p
  <2>1. pool[p].len \in Nat
    BY <1>1 DEF PoolRecords
  <2>2. pool'[p].len > 0 => \E y \in Members(p) : pc'[y] \in Heading
    BY <1>1, <1>3, <1>7, <2>1 DEF Heading
  <2>3. ASSUME pool'[p].v = 1, At(p, "wait")' # {}
        PROVE  At(p, "bsem")' \cup At(p, "bsem_in")' # {}
    <3>1. At(p, "wait") # {}
      BY <1>5, <2>3 DEF At
    <3>2. pool[p].v = 1
      BY <1>4, <1>7, <2>3
    <3>3. At(p, "bsem") \cup At(p, "bsem_in") # {}
      BY <3>1, <3>2 DEF Announced
    <3>. QED  BY <1>5, <3>3 DEF At
  <2>. QED  BY <2>2, <2>3 DEF Announced
<1>8. CASE PoolOf(w) # p
  <2>1. \A y \in Members(p) : pc'[y] = pc[y]
    BY <1>2, <1>3, <1>8, PoolOfWorker
  <2>2. pool'[p] = pool[p]
    BY <1>3, <1>8
  <2>3. Unheard(p)
    BY <1>3, <1>6, <2>1, <2>2 DEF Unheard
  <2>. QED  BY <2>3, UnheardStep
<1>. QED  BY <1>7, <1>8

\* The posts: after the push of a job, and after a pull that leaves jobs behind.
LEMMA PostAnnounced ==
  ASSUME PoolInv, NEW p \in Pools, Announced(p),
         (\E x \in Everyone : AddPost(x)) \/ (\E w \in Workers : PullPost(w))
  PROVE  Announced(p)'
<1>1. pool \in [Pools -> PoolRecords] /\ TypeOK /\ CallInv /\ CountInv /\ Workers \cap Clients = {}
  BY TypeParts, ThreadsAssumption DEF PoolInv
<1>2. ASSUME NEW q \in Pools, NEW x \in Everyone, NEW where, where # "wait",
             pc[x] # "wait", x \in Workers => q = PoolOf(x),
             pc[x] = "post" => call[x].pool = q,
             \E woken \in Signal(At(q, "wait")) : GotoWaking(x, where, woken),
             pool' = [pool EXCEPT ![q].v = 1, ![q].rwmutex = Nobody], call' = call
      PROVE  Announced(p)'
  <2>1. CASE p = q
    <3>1. pool'[p].v = 1
      BY <1>1, <1>2, <2>1 DEF PoolRecords
    <3>. QED  BY <1>1, <1>2, <2>1, <3>1, PostAnnounces
  <2>2. CASE p # q
    <3>1. x \notin Members(p)
      BY <1>2, <2>2, PoolOfWorker
    <3>2. pool'[p] = pool[p]
      BY <1>1, <1>2, <2>2
    <3>3. Unheard(p)
      BY <1>1, <1>2, <2>2, <3>1, <3>2, PostElsewhere
    <3>. QED  BY <3>3, UnheardStep
  <2>. QED  BY <2>1, <2>2
<1>3. ASSUME NEW x \in Everyone, AddPost(x)  PROVE Announced(p)'
  <2>1. call[x].pool \in Pools /\ (x \in Workers => call[x].pool = PoolOf(x))
    BY <1>1, <1>3, CallersPool DEF AddPost, CallInv
  <2>. QED  BY <1>2, <1>3, <2>1 DEF AddPost
<1>4. ASSUME NEW w \in Workers, PullPost(w)  PROVE Announced(p)'
  <2>1. PoolOf(w) \in Pools /\ w \in Everyone
    BY PoolOfWorker DEF Everyone
  <2>. QED  BY <1>2, <1>4, <2>1 DEF PullPost, Raised
<1>. QED  BY <1>3, <1>4

\* A push is followed by the post of the thread that pushed.
LEMMA PushAnnounced ==
  ASSUME PoolInv, NEW p \in Pools, Announced(p), NEW x \in Everyone, AddPush(x)
  PROVE  Announced(p)'
<1>1. pool \in [Pools -> PoolRecords]
  BY TypeParts DEF PoolInv
<1>2. Members(p) \subseteq Everyone
  BY PoolOfWorker DEF Everyone
<1>3. /\ call[x].pool \in Pools
      /\ \A y \in Everyone \ {x} : pc'[y] = pc[y]
      /\ pc[x] = "add" /\ pc'[x] = "post"
      /\ \A r \in Pools \ {call[x].pool} : pool'[r] = pool[r]
      /\ call' = call
  BY PushEffect
<1>4. pool'[p].v = pool[p].v
  <2>1. CASE p = call[x].pool
    <3>. DEFINE q == pool[p]
    <3>1. pool' = [pool EXCEPT ![p].rwmutex = x,
                               ![p].front = IF q.len = 0 THEN call[x].job ELSE q.front,
                               ![p].rear = call[x].job,
                               ![p].len = q.len + 1]
      BY <2>1 DEF AddPush
    <3>2. pool[p] \in PoolRecords
      BY <1>1
    <3>. QED  BY <1>1, <3>1, <3>2 DEF PoolRecords
  <2>2. CASE p # call[x].pool
    BY <1>3, <2>2
  <2>. QED  BY <2>1, <2>2
<1>5. \A y \in Members(p) : /\ pc[y] \in Heading => pc'[y] \in Heading
                            /\ pc'[y] = "wait" => pc[y] = "wait"
                            /\ pc[y] \in {"bsem", "bsem_in"} => pc'[y] = pc[y]
  BY <1>2, <1>3 DEF Heading
<1>6. \A y \in Everyone : pc[y] = "post" => pc'[y] = "post"
  BY <1>3
<1>7. CASE call[x].pool = p
  <2>1. pc'[x] = "post" /\ call'[x].pool = p
    BY <1>3, <1>7
  <2>2. ASSUME pool'[p].v = 1, At(p, "wait")' # {}
        PROVE  At(p, "bsem")' \cup At(p, "bsem_in")' # {}
    <3>1. At(p, "wait") # {}
      BY <1>5, <2>2 DEF At
    <3>2. At(p, "bsem") \cup At(p, "bsem_in") # {}
      BY <1>4, <2>2, <3>1 DEF Announced
    <3>. QED  BY <1>5, <3>2 DEF At
  <2>. QED  BY <2>1, <2>2 DEF Announced
<1>8. CASE call[x].pool # p
  <2>1. pool'[p] = pool[p]
    BY <1>3, <1>8
  <2>2. Unheard(p)
    BY <1>3, <1>5, <1>6, <2>1 DEF Unheard
  <2>. QED  BY <2>2, UnheardStep
<1>. QED  BY <1>7, <1>8

\* The calls of clients that leave the queue and the semaphore of the pool alone: the
\* polls of thpool_wait, the entry into thpool_add_work, the posts and the end of the
\* destruction of another pool, the creation of a pool and its return.
LEMMA CallsUnheard ==
  ASSUME PoolInv, NEW p \in Pools,
         pool[p].state \in {"init", "live"}, pool'[p].state \in {"init", "live"},
         \/ \E c \in Clients, q \in Pools : LifeStep(c, q) \/ WaitCall(c, q)
         \/ \E c \in Clients : Poll(c) \/ KillPost(c)
         \/ \E x \in Everyone, q \in Pools, j \in Jobs : AddCall(x, q, j)
         \/ \E w \in Workers : RunJob(w)
         \/ Signals
         \/ UNCHANGED vars
  PROVE  Unheard(p)
<1>1. /\ pool \in [Pools -> PoolRecords] /\ TypeOK /\ PcTypes /\ OtherTypes /\ CallInv /\ CountInv
      /\ Workers \cap Clients = {}
  BY TypeParts, ThreadsAssumption DEF PoolInv
<1>2. Members(p) \subseteq Workers /\ \A q \in Pools \ {p} : Members(q) \cap Members(p) = {}
  BY PoolOfWorker
<1>3. CASE Signals \/ UNCHANGED vars
  <2>1. pool' = pool /\ pc' = pc /\ call' = call
    BY <1>3 DEF Signals, Resume, Pause, Hold, Release, vars, queueVars, threadVars
  <2>. QED  BY <2>1 DEF Unheard
<1>4. ASSUME NEW c \in Clients, NEW q \in Pools, LifeStep(c, q)  PROVE Unheard(p)
  <2>1. /\ \A r \in Pools \ {q} : pool'[r] = pool[r]
        /\ <<pool[q].state, pool'[q].state, pc[c], pc'[c]>> \in Life
        /\ pool'[q].state # "freed" => pool'[q].len = pool[q].len
        /\ \A d \in Clients \ {c} : pc'[d] = pc[d]
        /\ \A w \in Workers : pc'[w] = IF pool'[q].state = "init" /\ w \in Members(q) THEN "init" ELSE pc[w]
        /\ \A y \in Everyone \ {c} : call'[y] = call[y]
    BY <1>4, LifeEffect
  <2>2. q = p => InitReturns(c) /\ call[c].pool = p
    <3>1. q = p => pc[c] = "init"
      BY <2>1 DEF Life
    <3>. QED  BY <1>4, <3>1 DEF LifeStep, InitPool, Destroy, KillDone
  <2>3. pool'[p].len = pool[p].len
    BY <2>1
  <2>4. pool'[p].v = pool[p].v
    <3>1. CASE q = p
      BY <1>1, <2>2, <3>1 DEF InitReturns, CallInv, PoolRecords
    <3>. QED  BY <2>1, <3>1
  <2>5. pool'[q].state = "init" => \A w \in Members(q) : pc[w] = "unborn"
    BY <1>1, <2>1 DEF Life, CountInv
  <2>6. q = p => pool'[q].state = "live"
    BY <2>1 DEF Life
  <2>7. \A w \in Members(p) : pc'[w] = pc[w]
    BY <1>2, <2>1, <2>6
  <2>8. \A x \in Everyone : pc[x] = "post" => pc'[x] = "post" /\ call'[x] = call[x]
    BY <2>1, <2>5 DEF Life, Everyone
  <2>. QED  BY <2>3, <2>4, <2>7, <2>8 DEF Unheard
<1>5. ASSUME NEW x \in Everyone, NEW where, where \notin {"wait", "post"},
             pc[x] \notin Heading \cup {"bsem", "bsem_in", "post"}, Goto(x, where), pool' = pool,
             \A y \in Everyone \ {x} : call'[y] = call[y]
      PROVE  Unheard(p)
  <2>1. pc'[x] = where /\ \A y \in Everyone \ {x} : pc'[y] = pc[y]
    BY <1>1, <1>5 DEF Goto, PcTypes
  <2>. QED  BY <1>2, <1>5, <2>1 DEF Unheard, Everyone, Heading
<1>6. ASSUME NEW c \in Clients, NEW q \in Pools, WaitCall(c, q)  PROVE Unheard(p)
  BY <1>1, <1>5, <1>6 DEF WaitCall, queueVars, Heading, Everyone, OtherTypes
<1>7. ASSUME NEW c \in Clients, Poll(c)  PROVE Unheard(p)
  <2>1. \E where \in {"wait_len", "wait_working", "idle"} : Goto(c, where)
    BY <1>7 DEF Poll
  <2>. QED  BY <1>5, <1>7, <2>1 DEF Poll, queueVars, Heading, Everyone
<1>8. ASSUME NEW x \in Everyone, NEW q \in Pools, NEW j \in Jobs, AddCall(x, q, j)
      PROVE  Unheard(p)
  BY <1>1, <1>5, <1>8 DEF AddCall, queueVars, Heading, Everyone, OtherTypes
<1>9. ASSUME NEW w \in Workers, RunJob(w)  PROVE Unheard(p)
  BY <1>5, <1>9 DEF RunJob, queueVars, Heading, Everyone
<1>10. ASSUME NEW c \in Clients, KillPost(c)  PROVE Unheard(p)
  <2>1. PICK q \in Pools : q = call[c].pool /\ q # p
    BY <1>1, <1>10 DEF KillPost, CallInv
  <2>2. pool'[p] = pool[p] /\ call' = call /\ pc[c] = "kill"
    BY <1>1, <1>10, <2>1 DEF KillPost
  <2>3. GotoWaking(c, "kill", At(q, "wait"))
    BY <1>10, <2>1 DEF KillPost, Broadcast
  <2>4. \A w \in Members(p) : w # c /\ w \notin At(q, "wait") /\ w \in DOMAIN pc
    BY <1>1, <1>2, <2>1 DEF At, PcTypes, Everyone
  <2>5. \A w \in Members(p) : pc'[w] = pc[w]
    BY <2>3, <2>4 DEF GotoWaking
  <2>6. \A x \in Everyone : pc[x] = "post" => pc'[x] = "post"
    <3>1. \A x \in Everyone : pc[x] = "post" => x # c /\ x \notin At(q, "wait") /\ x \in DOMAIN pc
      BY <1>1, <2>2 DEF At, PcTypes
    <3>. QED  BY <2>3, <3>1 DEF GotoWaking
  <2>. QED  BY <2>2, <2>5, <2>6 DEF Unheard
<1>. QED  BY <1>3, <1>4, <1>6, <1>7, <1>8, <1>9, <1>10

\* Whatever happens, the jobs of a pool that is not destroyed stay announced while
\* threads_keepalive is 1.
LEMMA AnnouncedStep ==
  ASSUME PoolInv, [Next]_vars, NEW p \in Pools, threads_keepalive = 1, Announced(p),
         pool[p].state \in {"init", "live"}, pool'[p].state \in {"init", "live"}
  PROVE  Announced(p)'
<1>1. pool \in [Pools -> PoolRecords] /\ TypeOK /\ CallInv
  BY TypeParts DEF PoolInv
<1>2. \A c \in Clients : InitReturns(c) \/ KillDone(c) => \E q \in Pools : LifeStep(c, q)
  BY ZenonT(30), <1>1 DEF CallInv, InitReturns, KillDone, LifeStep
<1>3. \A c \in Clients, q \in Pools : InitPool(c, q) \/ Destroy(c, q) => LifeStep(c, q)
  BY DEF LifeStep
<1>4. \A c \in Clients, q \in Pools : ~ InitReadsGarbage(c, q)
  BY DEF InitReadsGarbage, EmptyPool
<1>5. CASE \/ \E c \in Clients, q \in Pools : LifeStep(c, q) \/ WaitCall(c, q)
           \/ \E c \in Clients : Poll(c) \/ KillPost(c)
           \/ \E x \in Everyone, q \in Pools, j \in Jobs : AddCall(x, q, j)
           \/ \E w \in Workers : RunJob(w)
           \/ Signals
           \/ UNCHANGED vars
  BY <1>5, CallsUnheard, UnheardStep
<1>6. ASSUME NEW w \in Workers,
             \/ CountAlive(w) \/ LoopTest(w) \/ SemLock(w) \/ SpuriousWakeup(w) \/ AliveTest(w)
             \/ CountWorking(w) \/ PullLock(w) \/ UncountWorking(w) \/ UncountAlive(w) \/ LastUnlock(w)
      PROVE  Announced(p)'
  BY <1>1, <1>6, StepUnheard, UnheardStep
<1>7. ASSUME NEW w \in Workers, SemTest(w) \/ Pull(w)  PROVE Announced(p)'
  BY <1>1, <1>7, SemTestAnnounced, PullAnnounced
<1>8. CASE (\E x \in Everyone : AddPost(x)) \/ (\E w \in Workers : PullPost(w))
  BY <1>8, PostAnnounced
<1>9. ASSUME NEW x \in Everyone, AddPush(x)  PROVE Announced(p)'
  BY <1>9, PushAnnounced
<1>. DEFINE Goal == Announced(p)'
<1>10. ASSUME NEW c \in Clients, ApiCall(c) \/ ClientStep(c)  PROVE Goal
  BY <1>2, <1>3, <1>4, <1>5, <1>10 DEF ApiCall, ClientStep, Signals
<1>11. ASSUME NEW x \in Clients \cup Workers,
              AddStep(x) \/ \E q \in Pools, j \in Jobs : AddCall(x, q, j)
       PROVE  Goal
  BY <1>5, <1>8, <1>9, <1>11 DEF AddStep, Everyone
<1>12. ASSUME NEW w \in Workers, WorkerStep(w) \/ SpuriousWakeup(w) \/ Hold(w) \/ Release(w)
       PROVE  Goal
  BY <1>5, <1>6, <1>7, <1>8, <1>12 DEF WorkerStep, Signals
<1>13. CASE Terminated \/ UNCHANGED vars
  BY <1>5, <1>13 DEF Terminated
<1>. HIDE DEF Goal
<1>14. Goal
  BY <1>10, <1>11, <1>12, <1>13 DEF Next, Goal
<1>. QED  BY <1>14 DEF Goal

\* The states of the pools: none comes back, neither to its creation nor from its
\* destruction, and only thpool_init makes one.
LEMMA StatesAdvance ==
  ASSUME PoolInv, [Next]_vars, NEW p \in Pools
  PROVE  /\ pool[p].state # "none" => pool'[p].state # "none"
         /\ pool[p].state \in {"dying", "freed"} => pool'[p].state \in {"dying", "freed"}
         /\ pool[p].state = "none" /\ pool'[p].state \in {"init", "live"} =>
              \E c \in Clients : InitPool(c, p)
<1>. DEFINE Goal == /\ pool[p].state # "none" => pool'[p].state # "none"
                    /\ pool[p].state \in {"dying", "freed"} => pool'[p].state \in {"dying", "freed"}
                    /\ pool[p].state = "none" /\ pool'[p].state \in {"init", "live"} =>
                         \E c \in Clients : InitPool(c, p)
<1>1. TypeOK
  BY DEF PoolInv
<1>2. pool'[p].state = pool[p].state => Goal
  OBVIOUS
<1>3. CASE QuietStep
  BY <1>3 DEF QuietStep, SameFields
<1>4. ASSUME NEW c \in Clients, NEW q \in Pools, LifeStep(c, q)  PROVE Goal
  <2>1. /\ \A r \in Pools \ {q} : pool'[r] = pool[r]
        /\ <<pool[q].state, pool'[q].state, pc[c], pc'[c]>> \in Life
    BY <1>4, LifeEffect
  <2>2. ASSUME q = p, pool[p].state = "none"  PROVE InitPool(c, p)
    <3>1. pc[c] = "idle" /\ pc'[c] = "init"
      BY <2>1, <2>2 DEF Life
    <3>. QED  BY <1>4, <2>2, <3>1 DEF LifeStep, Destroy, InitReturns, KillDone
  <2>3. q # p => Goal
    BY <1>2, <2>1
  <2>. QED  BY <2>1, <2>2, <2>3 DEF Life
<1>5. ASSUME NEW c \in Clients, NEW q \in Pools, InitReadsGarbage(c, q)  PROVE Goal
  BY <1>5 DEF InitReadsGarbage, EmptyPool
<1>6. ASSUME NEW c \in Clients, Poll(c) \/ \E q \in Pools : WaitCall(c, q)  PROVE Goal
  BY <1>2, <1>6 DEF Poll, WaitCall, queueVars
<1>7. ASSUME NEW x \in Everyone, AddPush(x) \/ \E q \in Pools, j \in Jobs : AddCall(x, q, j)
      PROVE  Goal
  <2>1. AddPush(x) => pool'[p].state = pool[p].state
    BY PushEffect
  <2>. QED  BY <1>2, <1>7, <2>1 DEF AddCall, queueVars
<1>8. ASSUME NEW w \in Workers,
             \/ CountAlive(w) \/ CountWorking(w) \/ UncountWorking(w) \/ UncountAlive(w)
             \/ Pull(w) \/ RunJob(w)
      PROVE  Goal
  <2>1. Pull(w) => pool'[p].state = pool[p].state
    BY PullEffect
  <2>2. CountAlive(w) \/ CountWorking(w) \/ UncountWorking(w) \/ UncountAlive(w)
          => pool'[p].state = pool[p].state
    BY <1>1, CountersEffect
  <2>3. RunJob(w) => pool' = pool
    BY DEF RunJob, queueVars
  <2>. QED  BY <1>2, <1>8, <2>1, <2>2, <2>3
<1>. HIDE DEF Goal
<1>9. Goal
  BY <1>3, <1>4, <1>5, <1>6, <1>7, <1>8, NextCases DEF Goal
<1>. QED  BY <1>9 DEF Goal

\* threads_keepalive changes only when a pool is created or destroyed.
LEMMA FlagEffect ==
  ASSUME [Next]_vars
  PROVE  \/ \E c \in Clients, q \in Pools : InitPool(c, q) \/ Destroy(c, q)
         \/ threads_keepalive' = threads_keepalive
<1>. DEFINE Goal == \/ \E c \in Clients, q \in Pools : InitPool(c, q) \/ Destroy(c, q)
                    \/ threads_keepalive' = threads_keepalive
<1>1. ASSUME NEW c \in Clients, ApiCall(c) \/ ClientStep(c)  PROVE Goal
  BY <1>1 DEF ApiCall, ClientStep, InitReadsGarbage, WaitCall, Pause, Resume, InitReturns, Poll,
     KillPost, KillDone, flagVars
<1>2. ASSUME NEW x \in Clients \cup Workers,
             AddStep(x) \/ \E q \in Pools, j \in Jobs : AddCall(x, q, j)
      PROVE  Goal
  BY <1>2 DEF AddStep, AddPush, AddPost, AddCall, flagVars
<1>3. ASSUME NEW w \in Workers, NEW from, NEW to, NEW new, Step(w, from, to, new)  PROVE Goal
  BY <1>3 DEF Step, flagVars
<1>4. ASSUME NEW w \in Workers, WorkerStep(w) \/ SpuriousWakeup(w) \/ Hold(w) \/ Release(w)
      PROVE  Goal
  <2>1. CASE Pull(w) \/ PullPost(w) \/ RunJob(w) \/ Hold(w) \/ Release(w)
    BY <2>1 DEF Pull, PullPost, RunJob, Hold, Release, flagVars
  <2>2. CASE \/ CountAlive(w) \/ LoopTest(w) \/ SemLock(w) \/ SemTest(w) \/ SpuriousWakeup(w)
             \/ AliveTest(w) \/ CountWorking(w) \/ PullLock(w) \/ UncountWorking(w)
             \/ UncountAlive(w) \/ LastUnlock(w)
    BY <1>3, <2>2 DEF CountAlive, LoopTest, SemLock, SemTest, SpuriousWakeup, AliveTest,
       CountWorking, PullLock, UncountWorking, UncountAlive, LastUnlock
  <2>. QED  BY <1>4, <2>1, <2>2 DEF WorkerStep
<1>5. CASE Terminated \/ UNCHANGED vars
  BY <1>5 DEF Terminated, vars, flagVars
<1>. HIDE DEF Goal
<1>6. Goal
  BY <1>1, <1>2, <1>4, <1>5 DEF Next, Goal
<1>. QED  BY <1>6 DEF Goal

\* Nothing happens to a pool before thpool_init: its threads do not exist, and nobody
\* has it to call the API with.
LEMMA NoneUntouched ==
  ASSUME PoolInv, [Next]_vars, NEW p \in Pools, pool'[p].state = "none"
  PROVE  pool'[p] = pool[p]
<1>1. /\ pool \in [Pools -> PoolRecords] /\ TypeOK /\ CallInv /\ CountInv
      /\ pool[p].state = "none"
  BY TypeParts, StatesAdvance DEF PoolInv
<1>2. \A w \in Workers : pc[w] # "unborn" => PoolOf(w) \in Pools \ {p}
  BY <1>1, PoolOfWorker DEF CountInv
<1>3. \A x \in Everyone : pc[x] \in {"add", "post"} => call[x].pool \in Pools \ {p}
  BY <1>1, <1>2, ThreadsAssumption DEF CallInv, Everyone
<1>4. \A c \in Clients : pc[c] \in {"init", "kill"} => call[c].pool \in Pools \ {p}
  BY <1>1 DEF CallInv
<1>. DEFINE Goal == pool'[p] = pool[p]
<1>5. ASSUME NEW c \in Clients, ApiCall(c) \/ ClientStep(c)  PROVE Goal
  <2>1. ASSUME NEW q \in Pools, InitPool(c, q) \/ Destroy(c, q)  PROVE Goal
    <3>1. q # p
      BY <1>1, <2>1 DEF InitPool, Destroy, PoolRecords
    <3>. QED  BY <1>1, <2>1, <3>1 DEF InitPool, Destroy
  <2>2. \A q \in Pools : ~ InitReadsGarbage(c, q)
    BY DEF InitReadsGarbage, EmptyPool
  <2>3. CASE Resume(c) \/ \E q \in Pools : WaitCall(c, q) \/ Pause(c, q)
    BY <2>3 DEF Resume, WaitCall, Pause, queueVars
  <2>4. CASE InitReturns(c) \/ Poll(c) \/ KillPost(c) \/ KillDone(c)
    BY <1>1, <1>4, <2>4 DEF InitReturns, Poll, KillPost, KillDone, queueVars
  <2>. QED  BY <1>5, <2>1, <2>2, <2>3, <2>4 DEF ApiCall, ClientStep
<1>6. ASSUME NEW x \in Clients \cup Workers,
             AddStep(x) \/ \E q \in Pools, j \in Jobs : AddCall(x, q, j)
      PROVE  Goal
  BY <1>1, <1>3, <1>6 DEF AddStep, AddPush, AddPost, AddCall, queueVars, Everyone
<1>7. ASSUME NEW w \in Workers, NEW from, NEW to, NEW new, Step(w, from, to, new), from # "unborn"
      PROVE  Goal
  BY <1>1, <1>2, <1>7, StepEffect
<1>8. ASSUME NEW w \in Workers, WorkerStep(w) \/ SpuriousWakeup(w) \/ Hold(w) \/ Release(w)
      PROVE  Goal
  <2>1. CASE RunJob(w) \/ Hold(w) \/ Release(w)
    BY <2>1 DEF RunJob, Hold, Release, queueVars
  <2>2. CASE Pull(w) \/ PullPost(w)
    BY <1>1, <1>2, <2>2 DEF Pull, PullPost
  <2>3. CASE \/ CountAlive(w) \/ LoopTest(w) \/ SemLock(w) \/ SemTest(w) \/ SpuriousWakeup(w)
             \/ AliveTest(w) \/ CountWorking(w) \/ PullLock(w) \/ UncountWorking(w)
             \/ UncountAlive(w) \/ LastUnlock(w)
    BY <1>7, <2>3 DEF CountAlive, LoopTest, SemLock, SemTest, SpuriousWakeup, AliveTest,
       CountWorking, PullLock, UncountWorking, UncountAlive, LastUnlock
  <2>. QED  BY <1>8, <2>1, <2>2, <2>3 DEF WorkerStep
<1>9. CASE Terminated \/ UNCHANGED vars
  BY <1>9 DEF Terminated, vars, queueVars
<1>. HIDE DEF Goal
<1>10. Goal
  BY <1>5, <1>6, <1>8, <1>9 DEF Next, Goal
<1>. QED  BY <1>10 DEF Goal

\* A pool that has just been created has no jobs, and its semaphore is down.
LEMMA CreatedAnnounced ==
  ASSUME PoolInv, AnnounceInv, NEW c \in Clients, NEW p \in Pools, InitPool(c, p)
  PROVE  Announced(p)'
<1>1. pool \in [Pools -> PoolRecords]
  BY TypeParts DEF PoolInv
<1>2. pool[p].len = 0 /\ pool[p].v = 0
  BY DEF InitPool, AnnounceInv
<1>3. pool'[p].len = 0 /\ pool'[p].v = 0
  BY <1>1, <1>2 DEF InitPool, PoolRecords
<1>. QED  BY <1>3 DEF Announced

\* Every step keeps the jobs announced.
LEMMA AnnounceStep ==
  ASSUME PoolInv, AnnounceInv, [Next]_vars
  PROVE  AnnounceInv'
<1>1. pool \in [Pools -> PoolRecords] /\ TypeOK
  BY TypeParts DEF PoolInv
<1>2. \A p \in Pools : pool'[p].state = "none" => pool'[p].len = 0 /\ pool'[p].v = 0
  <2>. SUFFICES ASSUME NEW p \in Pools, pool'[p].state = "none"
                PROVE  pool'[p].len = 0 /\ pool'[p].v = 0
    OBVIOUS
  <2>1. pool'[p] = pool[p]
    BY NoneUntouched
  <2>. QED  BY <2>1 DEF AnnounceInv
<1>3. NoPoolDestroyed' => NoPoolDestroyed
  BY StatesAdvance DEF NoPoolDestroyed
<1>4. ASSUME NEW c \in Clients, NEW q \in Pools, InitPool(c, q)
      PROVE  threads_keepalive' = 1 /\ pool[q].state = "none" /\ pool'[q].state = "init"
  BY <1>1, <1>4 DEF InitPool, PoolRecords
<1>5. ASSUME NEW c \in Clients, NEW q \in Pools, Destroy(c, q)
      PROVE  threads_keepalive' = 0 /\ pool'[q].state = "dying"
  BY <1>1, <1>5 DEF Destroy, PoolRecords
<1>6. ASSUME NEW p \in Pools, pool'[p].state \in {"init", "live"}
      PROVE  pool[p].state \in {"init", "live"} \/ \E c \in Clients : InitPool(c, p)
  <2>1. pool[p].state \in {"none", "init", "live"}
    BY <1>1, <1>6, StatesAdvance DEF PoolRecords, PoolStates
  <2>. QED  BY <1>6, <2>1, StatesAdvance
<1>7. ASSUME NoPoolDestroyed', NEW p \in Pools, pool'[p].state # "none"
      PROVE  threads_keepalive' = 1
  <2>1. pool'[p].state \in {"init", "live"}
    <3>1. pool'[p].state \in PoolStates
      BY TypeStep DEF TypeOK
    <3>. QED  BY <1>7, <3>1 DEF NoPoolDestroyed, PoolStates
  <2>2. ASSUME NEW c \in Clients, NEW q \in Pools, Destroy(c, q)  PROVE FALSE
    BY <1>5, <1>7, <2>2 DEF NoPoolDestroyed
  <2>3. CASE \E c \in Clients, q \in Pools : InitPool(c, q)
    BY <1>4, <2>3
  <2>4. CASE ~ \E c \in Clients, q \in Pools : InitPool(c, q)
    <3>1. pool[p].state # "none"
      BY <1>6, <2>1, <2>4
    <3>2. threads_keepalive = 1
      BY <1>3, <1>7, <3>1 DEF AnnounceInv
    <3>. QED  BY <2>2, <2>4, <3>2, FlagEffect
  <2>. QED  BY <2>3, <2>4
<1>8. ASSUME threads_keepalive' = 1, NoPoolDestroyed' \/ AtMostTwoPools,
             NEW p \in Pools, pool'[p].state \in {"init", "live"},
             ~ \E c \in Clients : InitPool(c, p)
      PROVE  Announced(p)'
  <2>1. pool[p].state \in {"init", "live"}
    BY <1>6, <1>8
  <2>2. threads_keepalive = 1 /\ (NoPoolDestroyed \/ AtMostTwoPools)
    <3>1. CASE NoPoolDestroyed'
      BY <1>3, <2>1, <3>1 DEF AnnounceInv
    <3>2. CASE AtMostTwoPools /\ \E c \in Clients, q \in Pools : InitPool(c, q)
      <4>1. PICK c \in Clients, q \in Pools : InitPool(c, q)
        BY <3>2
      <4>2. q # p /\ pool[q].state = "none"
        BY <1>4, <1>8, <4>1
      <4>3. NoPoolDestroyed
        BY <2>1, <3>2, <4>2 DEF AtMostTwoPools, NoPoolDestroyed
      <4>. QED  BY <2>1, <4>3 DEF AnnounceInv
    <3>3. CASE AtMostTwoPools /\ ~ \E c \in Clients, q \in Pools : InitPool(c, q)
      BY <1>5, <1>8, <3>3, FlagEffect
    <3>. QED  BY <1>8, <3>1, <3>2, <3>3
  <2>3. Announced(p)
    BY <2>1, <2>2 DEF AnnounceInv
  <2>. QED  BY <1>8, <2>1, <2>2, <2>3, AnnouncedStep
<1>9. ASSUME threads_keepalive' = 1, NoPoolDestroyed' \/ AtMostTwoPools,
             NEW p \in Pools, pool'[p].state \in {"init", "live"}
      PROVE  Announced(p)'
  BY <1>8, <1>9, CreatedAnnounced
<1>. QED  BY <1>2, <1>7, <1>9 DEF AnnounceInv

\* While no pool of the process has been destroyed, and with one or two pools even
\* after that, every job in a queue is announced and nobody sleeps next to a semaphore
\* that is up.
THEOREM AnnounceInvariant == Spec => []AnnounceInv
<1>1. Init => AnnounceInv
  BY DEF Init, EmptyPool, AnnounceInv
<1>2. PoolInv /\ AnnounceInv /\ [Next]_vars => AnnounceInv'
  BY AnnounceStep
<1>. QED  BY <1>1, <1>2, PoolInvariant, PTL DEF Spec

\* A process with one or two pools: no job is left behind by sleeping workers, for any
\* number of workers, of clients that add jobs and of jobs that add jobs, and whenever
\* SIGUSR1 holds a thread (bsem_wait, bsem_post and the posts of jobqueue_push and
\* jobqueue_pull).
THEOREM JobsAreAnnounced ==
  ASSUME \A p, q, r \in Pools : p = q \/ q = r \/ p = r
  PROVE  Spec => []JobsAnnounced
<1>1. AtMostTwoPools
  BY DEF AtMostTwoPools
<1>2. AnnounceInv => JobsAnnounced
  BY <1>1 DEF AnnounceInv, Announced, JobsAnnounced, Heading, Everyone
<1>. QED  BY <1>2, AnnounceInvariant, PTL

\* The same for any number of pools, until one of them is destroyed (thpool_destroy
\* resets the flag that all of them share).
THEOREM JobsAreAnnouncedUntilDestroy == Spec => [](NoPoolDestroyed => JobsAnnounced)
<1>1. AnnounceInv => (NoPoolDestroyed => JobsAnnounced)
  BY DEF AnnounceInv, Announced, JobsAnnounced, Heading, Everyone
<1>. QED  BY <1>1, AnnounceInvariant, PTL

=============================================================================
