------------------------ MODULE WorkerThreads_proofs ------------------------
(***************************************************************************)
(* Proofs about the batch program WorkerThreads: what its waits without a  *)
(* predicate cost, for any number of workers, rounds and waits that end    *)
(* without a signal.                                                       *)
(***************************************************************************)
EXTENDS WorkerThreads, FiniteSetTheorems, TLAPS

\* Who owns the mutexes; and a worker that owns CompleteMutex has found main
\* waiting, and its batch is the one to be received.
MutexInv ==
  /\ \A w \in Workers : CompleteMutex = w <=> pc[w] \in {"restart", "signal"}
  /\ CompleteMutex # Main
  /\ \A w \in Workers : StartWorkMutex = w <=> pc[w] \in {"signal", "rewait"}
  /\ StartWorkMutex = Main <=> pc[Main] = "lock_complete"
  /\ CompleteMutex # Nobody => ~ MainThreadWaiting /\ TheCompletedBatch = CompleteMutex

InRound == pc[Main] \in {"main_wait", "main_wake"}

Stopped == pc[Main] \in {"join", "end"}

\* Where main is in its two loops.
MainInv ==
  /\ InRound => Y < N /\ Round > 0
  /\ pc[Main] = "sleep" => Round = 0 /\ ~ WorkOn
  /\ pc[Main] = "lock_start" => Round < Rounds
  /\ pc[Main] = "lock_complete" => Round > 0
  /\ pc[Main] # "sleep" => At("begin") = {}
  /\ Stopped => ~ WorkOn
  /\ ~ WorkOn => Round = 0 \/ Stopped

\* The workers that owe main a completion, those that have left included.
Busy == {w \in Workers : pc[w] \notin {"begin", "wait", "rewait"}}

\* The completions main has yet to receive in this round.
Missing == IF InRound THEN N - Y ELSE 0

\* How many more completions are on their way than main will receive.
Excess ==
  Cardinality(Busy) + (IF pc[Main] = "main_wake" THEN 1 ELSE 0) - Missing

\* The completion main is about to receive.
Taken == IF pc[Main] = "main_wake" /\ ~ MainThreadWaiting THEN {TheCompletedBatch} ELSE {}

\* The workers whose completion main will not receive in this round.
Lost == Workers \ (received \cup Busy \cup Taken)

\* The batches of a worker, the one it is about to work on included.
Batches(w) ==
  finished[w] + (IF pc[w] = "work" \/ (pc[w] = "wake" /\ ~ Stopped) THEN 1 ELSE 0)

\* Every wait that has ended without a signal pays for one completion too many, or
\* for one that is lost, or for one batch that a worker is behind.
ExcessInv ==
  /\ Excess \in 0..stray
  /\ pc[Main] = "main_wake" /\ (MainThreadWaiting \/ CompleteMutex # Nobody) => Excess > 0
  /\ Over > 0 => Excess + Cardinality(Lost) <= stray
  /\ \A w \in Workers : Batches(w) >= Over - stray + Excess

\* What is left of that when the workers have been told to leave.
StopInv ==
  /\ Over > 0 => Cardinality(Workers \ received) <= stray
  /\ \A w \in Workers : finished[w] >= Over - stray

\* And it puts a worker at most one batch ahead.
AheadInv == \A w \in Workers : Batches(w) <= Over + stray

RoundInv ==
  /\ TypeOK
  /\ MutexInv
  /\ MainInv
  /\ ~ Stopped => ExcessInv
  /\ Stopped => StopInv
  /\ AheadInv

-----------------------------------------------------------------------------
(* Sets of workers, and the types. *)

\* A set of workers is finite and no larger than the number of workers.
LEMMA WorkerSets ==
  /\ N \in Nat /\ N > 0
  /\ \A S \in SUBSET Workers :
       IsFiniteSet(S) /\ Cardinality(S) \in Nat /\ Cardinality(S) <= N
<1>1. IsFiniteSet(Workers) /\ Workers # {}
  BY WorkersAssumption
<1>2. N \in Nat /\ N > 0
  BY <1>1, FS_CardinalityType, FS_EmptySet DEF N
<1>3. ASSUME NEW S \in SUBSET Workers
      PROVE  IsFiniteSet(S) /\ Cardinality(S) \in Nat /\ Cardinality(S) <= N
  BY <1>1, FS_Subset, FS_CardinalityType DEF N
<1>. QED  BY <1>2, <1>3

\* Cardinalities of sets of workers: with one worker more or less, of a part, and of
\* a union.
LEMMA WorkerCounts ==
  ASSUME NEW S \in SUBSET Workers, NEW T \in SUBSET Workers
  PROVE  /\ \A w \in Workers \ S : Cardinality(S \cup {w}) = Cardinality(S) + 1
         /\ \A w \in S : Cardinality(S \ {w}) = Cardinality(S) - 1 /\ Cardinality(S) > 0
         /\ S \subseteq T => Cardinality(S) <= Cardinality(T)
         /\ Cardinality(S \cup T) <= Cardinality(S) + Cardinality(T)
<1>1. /\ IsFiniteSet(S) /\ Cardinality(S) \in Nat
      /\ IsFiniteSet(T) /\ Cardinality(T) \in Nat
  BY WorkerSets
<1>2. ASSUME NEW w \in Workers \ S
      PROVE  Cardinality(S \cup {w}) = Cardinality(S) + 1
  BY <1>1, FS_AddElement
<1>3. ASSUME NEW w \in S
      PROVE  Cardinality(S \ {w}) = Cardinality(S) - 1 /\ Cardinality(S) > 0
  <2>1. Cardinality(S \ {w}) = Cardinality(S) - 1
    BY <1>1, FS_RemoveElement
  <2>2. Cardinality(S \ {w}) \in Nat
    BY WorkerSets
  <2>. QED  BY <1>1, <2>1, <2>2
<1>4. S \subseteq T => Cardinality(S) <= Cardinality(T)
  BY <1>1, FS_Subset
<1>5. Cardinality(S \cup T) <= Cardinality(S) + Cardinality(T)
  <2>1. Cardinality(S \cup T) = Cardinality(S) + Cardinality(T) - Cardinality(S \cap T)
    BY <1>1, FS_Union
  <2>2. Cardinality(S \cap T) \in Nat
    BY WorkerSets
  <2>. QED  BY <1>1, <2>1, <2>2
<1>. QED  BY <1>2, <1>3, <1>4, <1>5

\* The two counts of the invariant are natural numbers.
LEMMA Counts ==
  /\ Busy \in SUBSET Workers /\ Lost \in SUBSET Workers
  /\ Cardinality(Busy) \in Nat /\ Cardinality(Busy) <= N
  /\ Cardinality(Lost) \in Nat
<1>1. Busy \in SUBSET Workers /\ Lost \in SUBSET Workers
  BY DEF Busy, Lost
<1>. QED  BY <1>1, WorkerSets

\* What the type invariant says of the numbers.
LEMMA Numbers ==
  TypeOK =>
    /\ Round \in Nat /\ Y \in Nat /\ stray \in Nat /\ Over \in Int
    /\ Excess \in Int /\ Missing \in Int
    /\ \A w \in Workers : finished[w] \in Nat /\ Batches(w) \in Nat
    /\ Main \notin Workers /\ Nobody \notin Workers /\ Nobody # Main
<1>. SUFFICES ASSUME TypeOK
     PROVE  /\ Round \in Nat /\ Y \in Nat /\ stray \in Nat /\ Over \in Int
            /\ Excess \in Int /\ Missing \in Int
            /\ \A w \in Workers : finished[w] \in Nat /\ Batches(w) \in Nat
            /\ Main \notin Workers /\ Nobody \notin Workers /\ Nobody # Main
  OBVIOUS
<1>1. N \in Nat /\ Rounds \in Nat /\ MaxStray \in Nat
  BY WorkerSets, RoundsAssumption
<1>2. Round \in Nat /\ Y \in Nat /\ stray \in Nat
  BY <1>1 DEF TypeOK
<1>3. Over \in Int
  BY <1>2 DEF Over
<1>4. Missing \in Int /\ Excess \in Int
  BY <1>1, <1>2, Counts DEF Missing, Excess
<1>5. \A w \in Workers : finished[w] \in Nat /\ Batches(w) \in Nat
  BY DEF TypeOK, Batches
<1>6. Main \notin Workers /\ Nobody \notin Workers /\ Nobody # Main
  BY WorkersAssumption
<1>. QED  BY <1>2, <1>3, <1>4, <1>5, <1>6

\* A step of one thread moves that thread only.
LEMMA Moved ==
  ASSUME TypeOK, NEW x \in Workers \cup {Main}, NEW where, Goto(x, where)
  PROVE  /\ pc'[x] = where
         /\ \A y \in (Workers \cup {Main}) \ {x} : pc'[y] = pc[y]
         /\ DOMAIN pc' = Workers \cup {Main}
BY DEF TypeOK, Goto

\* So does one that wakes the waiting workers, but for those.
LEMMA Woken ==
  ASSUME TypeOK, NEW where, GotoWaking(where, At("wait"))
  PROVE  /\ pc'[Main] = where
         /\ \A w \in Workers : pc'[w] = IF pc[w] = "wait" THEN "wake" ELSE pc[w]
         /\ DOMAIN pc' = Workers \cup {Main}
         /\ pc' = [x \in Workers \cup {Main} |-> pc'[x]]
<1>1. DOMAIN pc = Workers \cup {Main} /\ Main \notin Workers
  BY WorkersAssumption DEF TypeOK
<1>. QED  BY <1>1 DEF GotoWaking, At

\* What a signal does: the worker goes on to its wait, and main goes on if it waits.
LEMMA Signalled ==
  ASSUME TypeOK, NEW w \in Workers, SignalComplete(w)
  PROVE  /\ pc'[w] = "rewait"
         /\ pc'[Main] = IF pc[Main] = "main_wait" THEN "main_wake" ELSE pc[Main]
         /\ \A v \in Workers \ {w} : pc'[v] = pc[v]
         /\ pc' = [x \in Workers \cup {Main} |-> pc'[x]]
<1>1. DOMAIN pc = Workers \cup {Main} /\ Main \notin Workers
  BY WorkersAssumption DEF TypeOK
<1>2. PICK woken \in Signal({Main} \cap {x \in {Main} : pc[x] = "main_wait"}) :
        pc' = [x \in DOMAIN pc |->
                 IF x = w THEN "rewait" ELSE IF x \in woken THEN "main_wake" ELSE pc[x]]
  BY DEF SignalComplete
<1>3. woken = IF pc[Main] = "main_wait" THEN {Main} ELSE {}
  BY <1>2 DEF Signal
<1>. QED  BY <1>1, <1>2, <1>3

-----------------------------------------------------------------------------
(* Types. *)

\* A step of a worker, main or a stray wakeup keeps the types, and so the loop over
\* the rounds in its bound and the loop over the completions in its.
LEMMA TypesKept ==
  TypeOK /\ MainInv /\ [Next]_vars => TypeOK'
<1>. SUFFICES ASSUME TypeOK, MainInv, [Next]_vars  PROVE TypeOK'
  OBVIOUS
<1>0. /\ Main \notin Workers /\ N \in Nat /\ N > 0 /\ MaxStray \in Nat /\ Rounds \in Nat
      /\ Round \in Nat /\ Y \in Nat /\ stray \in Nat
  BY WorkersAssumption, WorkerSets, RoundsAssumption, Numbers
<1>1. ASSUME NEW x \in Workers \cup {Main}, NEW where, Goto(x, where),
             x = Main => where \in MainPcs, x # Main => where \in WorkerPcs
      PROVE  /\ pc' \in [Workers \cup {Main} -> WorkerPcs \cup MainPcs]
             /\ pc'[Main] \in MainPcs
             /\ \A w \in Workers : pc'[w] \in WorkerPcs
  BY <1>0, <1>1 DEF TypeOK, Goto
<1>2. ASSUME NEW where \in MainPcs, GotoWaking(where, At("wait"))
      PROVE  /\ pc' \in [Workers \cup {Main} -> WorkerPcs \cup MainPcs]
             /\ pc'[Main] \in MainPcs
             /\ \A w \in Workers : pc'[w] \in WorkerPcs
  BY <1>0, <1>2, Woken DEF TypeOK, WorkerPcs
<1>3. ASSUME NEW w \in Workers, WorkerStep(w)  PROVE TypeOK'
  <2>1. CASE FirstWait(w)
    BY <1>0, <1>1, <2>1 DEF FirstWait, TypeOK, WorkerPcs, mutexes, orders, reports, history
  <2>2. CASE Wake(w)
    BY <1>0, <1>1, <2>2 DEF Wake, TypeOK, WorkerPcs, mutexes, orders, reports, history
  <2>3. CASE Work(w)
    BY <1>0, <1>1, <2>3 DEF Work, TypeOK, WorkerPcs, mutexes, orders, reports, history
  <2>4. CASE Spin(w)
    BY <2>4 DEF Spin, TypeOK, vars, mutexes, orders, reports, history
  <2>5. CASE Report(w)
    BY <1>0, <1>1, <2>5 DEF Report, TypeOK, WorkerPcs, orders, history
  <2>6. CASE Restart(w)
    BY <1>0, <1>1, <2>6 DEF Restart, TypeOK, WorkerPcs, orders, reports, history
  <2>7. CASE SignalComplete(w)
    <3>1. /\ pc' \in [Workers \cup {Main} -> WorkerPcs \cup MainPcs]
          /\ pc'[Main] \in MainPcs
          /\ \A v \in Workers : pc'[v] \in WorkerPcs
      BY <1>0, <2>7, Signalled DEF TypeOK, WorkerPcs, MainPcs
    <3>. QED  BY <3>1, <2>7 DEF SignalComplete, TypeOK, orders, reports, history
  <2>8. CASE NextWait(w)
    BY <1>0, <1>1, <2>8 DEF NextWait, TypeOK, WorkerPcs, orders, reports, history
  <2>. QED  BY <1>3, <2>1, <2>2, <2>3, <2>4, <2>5, <2>6, <2>7, <2>8 DEF WorkerStep
<1>4. CASE MainStep
  <2>1. CASE Sleep
    BY <1>0, <1>1, <2>1 DEF Sleep, TypeOK, MainPcs, mutexes, orders, reports, history
  <2>2. CASE LockStart
    <3>1. Round' \in 0..Rounds
      BY <1>0, <2>2 DEF LockStart, MainInv
    <3>. QED  BY <1>0, <1>1, <2>2, <3>1 DEF LockStart, TypeOK, MainPcs, reports, history
  <2>3. CASE StartRound
    <3>1. GotoWaking("main_wait", At("wait"))
      BY <2>3 DEF StartRound, Broadcast
    <3>. QED  BY <1>0, <1>2, <2>3, <3>1 DEF StartRound, TypeOK, MainPcs, orders
  <2>4. CASE Receive
    <3>1. Y' \in 0..N
      BY <1>0, <2>4 DEF Receive, MainInv, InRound
    <3>2. MainThreadWaiting' \in BOOLEAN
      BY <2>4 DEF Receive, TypeOK
    <3>3. PICK where \in MainPcs : Goto(Main, where)
      BY <2>4 DEF Receive, MainPcs
    <3>. QED  BY <1>0, <1>1, <2>4, <3>1, <3>2, <3>3 DEF Receive, TypeOK, mutexes, orders
  <2>5. CASE Stop
    <3>1. GotoWaking("join", At("wait"))
      BY <2>5 DEF Stop, Broadcast
    <3>. QED  BY <1>0, <1>2, <2>5, <3>1 DEF Stop, StopWorkOn, TypeOK, MainPcs, mutexes, reports, history
  <2>6. CASE Join
    BY <1>0, <1>1, <2>6 DEF Join, TypeOK, MainPcs, mutexes, orders, reports, history
  <2>. QED  BY <1>4, <2>1, <2>2, <2>3, <2>4, <2>5, <2>6 DEF MainStep
<1>5. ASSUME NEW x \in Workers \cup {Main}, StrayWakeup(x)  PROVE TypeOK'
  <2>1. stray' \in 0..MaxStray
    BY <1>0, <1>5 DEF StrayWakeup
  <2>. QED  BY <1>0, <1>1, <1>5, <2>1 DEF StrayWakeup, TypeOK, WorkerPcs, MainPcs, mutexes, orders, reports
<1>6. CASE UNCHANGED vars
  BY <1>6 DEF TypeOK, vars, mutexes, orders, reports, history
<1>. QED  BY <1>3, <1>4, <1>5, <1>6 DEF Next, Terminated

-----------------------------------------------------------------------------
(* The mutexes and main's loops. *)

\* The owner of each mutex is where the code holds it: a worker that reports holds
\* CompleteMutex from its test of MainThreadWaiting to its signal, and StartWorkMutex
\* from before the signal to its wait (lines 64-88).
LEMMA MutexesKept ==
  TypeOK /\ MutexInv /\ [Next]_vars => MutexInv'
<1>. SUFFICES ASSUME TypeOK, MutexInv, [Next]_vars  PROVE MutexInv'
  OBVIOUS
<1>0. Main \notin Workers /\ Nobody \notin Workers /\ Nobody # Main
  BY WorkersAssumption
<1>1. ASSUME NEW w \in Workers, WorkerStep(w)  PROVE MutexInv'
  <2>1. CASE FirstWait(w)
    BY <1>0, <2>1, Moved DEF FirstWait, MutexInv, mutexes, orders, reports
  <2>2. CASE Wake(w)
    <3>1. PICK where \in {"work", "exit"} : Goto(w, where)
      BY <2>2 DEF Wake
    <3>. QED  BY <1>0, <2>2, <3>1, Moved DEF Wake, MutexInv, mutexes, orders, reports
  <2>3. CASE Work(w)
    BY <1>0, <2>3, Moved DEF Work, MutexInv, mutexes, orders, reports
  <2>4. CASE Spin(w)
    BY <2>4 DEF Spin, MutexInv, vars, mutexes, orders, reports
  <2>5. CASE Report(w)
    BY <1>0, <2>5, Moved DEF Report, MutexInv, orders
  <2>6. CASE Restart(w)
    BY <1>0, <2>6, Moved DEF Restart, MutexInv, orders, reports
  <2>7. CASE SignalComplete(w)
    <3>1. CompleteMutex = w /\ StartWorkMutex = w
      BY <2>7 DEF SignalComplete, MutexInv
    <3>2. pc'[Main] = "lock_complete" <=> pc[Main] = "lock_complete"
      BY <2>7, Signalled
    <3>. QED  BY <1>0, <2>7, <3>1, <3>2, Signalled DEF SignalComplete, MutexInv, orders, reports
  <2>8. CASE NextWait(w)
    <3>1. StartWorkMutex = w
      BY <2>8 DEF NextWait, MutexInv
    <3>. QED  BY <1>0, <2>8, <3>1, Moved DEF NextWait, MutexInv, orders, reports
  <2>. QED  BY <1>1, <2>1, <2>2, <2>3, <2>4, <2>5, <2>6, <2>7, <2>8 DEF WorkerStep
<1>2. CASE MainStep
  <2>1. CASE Sleep
    BY <1>0, <2>1, Moved DEF Sleep, MutexInv, mutexes, orders, reports
  <2>2. CASE LockStart
    BY <1>0, <2>2, Moved DEF LockStart, MutexInv, reports
  <2>3. CASE StartRound
    <3>1. GotoWaking("main_wait", At("wait"))
      BY <2>3 DEF StartRound, Broadcast
    <3>. QED  BY <1>0, <2>3, <3>1, Woken DEF StartRound, MutexInv
  <2>4. CASE Receive
    <3>1. PICK where \in {"main_wait", "lock_start", "lock_stop"} : Goto(Main, where)
      BY <2>4 DEF Receive
    <3>. QED  BY <1>0, <2>4, <3>1, Moved DEF Receive, MutexInv, mutexes
  <2>5. CASE Stop
    <3>1. GotoWaking("join", At("wait"))
      BY <2>5 DEF Stop, Broadcast
    <3>. QED  BY <1>0, <2>5, <3>1, Woken DEF Stop, MutexInv, mutexes, reports
  <2>6. CASE Join
    BY <1>0, <2>6, Moved DEF Join, MutexInv, mutexes, orders, reports
  <2>. QED  BY <1>2, <2>1, <2>2, <2>3, <2>4, <2>5, <2>6 DEF MainStep
<1>3. ASSUME NEW x \in Workers \cup {Main}, StrayWakeup(x)  PROVE MutexInv'
  <2>1. PICK where \in {"main_wake", "wake"} : Goto(x, where) /\ (x = Main <=> where = "main_wake")
    BY <1>3 DEF StrayWakeup
  <2>. QED  BY <1>0, <1>3, <2>1, Moved DEF StrayWakeup, MutexInv, mutexes, reports
<1>4. CASE UNCHANGED vars
  BY <1>4 DEF MutexInv, vars, mutexes, orders, reports
<1>. QED  BY <1>1, <1>2, <1>3, <1>4 DEF Next, Terminated

\* Main counts its rounds and completions as its loops say, WorkOn is set from the
\* first round to the termination broadcast, and no worker comes to its first wait
\* after main has slept.
LEMMA MainKept ==
  TypeOK /\ MainInv /\ [Next]_vars => MainInv'
<1>. SUFFICES ASSUME TypeOK, MainInv, [Next]_vars  PROVE MainInv'
  OBVIOUS
<1>0. /\ Main \notin Workers /\ N \in Nat /\ N > 0 /\ Rounds \in Nat /\ Rounds > 0
      /\ Round \in Nat /\ Y \in Nat
  BY WorkersAssumption, WorkerSets, RoundsAssumption, Numbers
<1>. USE DEF InRound, Stopped, At
<1>1. ASSUME NEW w \in Workers, WorkerStep(w)  PROVE MainInv'
  <2>1. ASSUME NEW where \in WorkerPcs \ {"begin"}, Goto(w, where), UNCHANGED <<WorkOn, Round, Y>>
        PROVE  MainInv'
    BY <1>0, <2>1, Moved DEF MainInv
  <2>2. CASE Spin(w)
    BY <2>2 DEF Spin, MainInv, vars, orders
  <2>3. CASE SignalComplete(w)
    <3>1. UNCHANGED <<WorkOn, Round, Y>> /\ CompleteMutex' = Nobody
      BY <2>3 DEF SignalComplete, orders
    <3>2. /\ pc'[Main] = IF pc[Main] = "main_wait" THEN "main_wake" ELSE pc[Main]
          /\ pc'[w] = "rewait" /\ \A v \in Workers \ {w} : pc'[v] = pc[v]
      BY <2>3, Signalled
    <3>. QED  BY <1>0, <3>1, <3>2 DEF MainInv
  <2>. QED  BY <1>1, <2>1, <2>2, <2>3 DEF WorkerStep, FirstWait, Wake, Work, Report, Restart,
              NextWait, WorkerPcs, orders
<1>2. CASE MainStep
  <2>1. CASE Sleep
    BY <1>0, <2>1, Moved DEF Sleep, MainInv, orders
  <2>2. CASE LockStart
    BY <1>0, <2>2, Moved DEF LockStart, MainInv
  <2>3. CASE StartRound
    <3>1. GotoWaking("main_wait", At("wait"))
      BY <2>3 DEF StartRound, Broadcast
    <3>. QED  BY <1>0, <2>3, <3>1, Woken DEF StartRound, MainInv, orders
  <2>4. CASE Receive
    <3>1. PICK where \in {"main_wait", "lock_start", "lock_stop"} :
            /\ Goto(Main, where)
            /\ where = "main_wait" => Y + 1 < N
            /\ where = "lock_start" => Round < Rounds
      BY <2>4 DEF Receive, MoreToCome
    <3>2. /\ pc'[Main] = where /\ \A w \in Workers : pc'[w] = pc[w]
      BY <1>0, <3>1, Moved
    <3>3. pc[Main] = "main_wake" /\ Y' = Y + 1 /\ UNCHANGED <<WorkOn, Round>>
      BY <2>4 DEF Receive, orders
    <3>. QED  BY <1>0, <3>1, <3>2, <3>3 DEF MainInv
  <2>5. CASE Stop
    <3>1. GotoWaking("join", At("wait"))
      BY <2>5 DEF Stop, Broadcast
    <3>. QED  BY <1>0, <2>5, <3>1, Woken DEF Stop, StopWorkOn, MainInv
  <2>6. CASE Join
    BY <1>0, <2>6, Moved DEF Join, MainInv, orders
  <2>. QED  BY <1>2, <2>1, <2>2, <2>3, <2>4, <2>5, <2>6 DEF MainStep
<1>3. ASSUME NEW x \in Workers \cup {Main}, StrayWakeup(x)  PROVE MainInv'
  <2>1. PICK where : Goto(x, where) /\ where = IF x = Main THEN "main_wake" ELSE "wake"
    BY <1>3 DEF StrayWakeup
  <2>2. UNCHANGED <<WorkOn, Round, Y>> /\ pc[x] \in {"wait", "main_wait"}
    BY <1>3 DEF StrayWakeup, orders
  <2>3. x = Main => pc[Main] = "main_wait"
    BY <2>2 DEF TypeOK, MainPcs
  <2>. QED  BY <1>0, <2>1, <2>2, <2>3, Moved DEF MainInv
<1>4. CASE UNCHANGED vars
  BY <1>4 DEF MainInv, vars, orders
<1>. QED  BY <1>1, <1>2, <1>3, <1>4 DEF Next, Terminated

-----------------------------------------------------------------------------
(* The batches of a worker. *)

\* The batches a worker has finished or been woken for are a number.
LEMMA BatchTypes == TypeOK => \A u \in Workers : Batches(u) \in Nat
BY Numbers

\* A worker's steps leave the batches as they are: it counts one when it is woken, works
\* on it and finishes it.  Only a worker woken before the first round drops it, and
\* leaves.
LEMMA WorkerBatches ==
  ASSUME TypeOK, MainInv, NEW w \in Workers, WorkerStep(w)
  PROVE  /\ stray' = stray /\ Over' = Over /\ (Stopped' <=> Stopped)
         /\ \A v \in Workers : \/ Batches(v)' = Batches(v)
                               \/ Batches(v)' <= Batches(v) /\ ~ Stopped /\ Over = 0
<1>0. /\ Main \notin Workers /\ Round \in Nat
      /\ \A v \in Workers : finished[v] \in Nat
  BY WorkersAssumption, Numbers
<1>. USE DEF Stopped
<1>1. ASSUME NEW where, Goto(w, where), Round' = Round
      PROVE  Over' = Over /\ (Stopped' <=> Stopped)
  BY <1>0, <1>1, Moved DEF Over
<1>2. ASSUME NEW where, Goto(w, where), finished' = finished,
             pc[w] \notin {"wake", "work"}, where \notin {"wake", "work"}
      PROVE  \A v \in Workers : Batches(v)' = Batches(v)
  BY <1>0, <1>2, Moved DEF Batches
<1>3. CASE FirstWait(w)
  BY <1>1, <1>2, <1>3 DEF FirstWait, orders, history
<1>4. CASE Wake(w)
  <2>1. PICK where : Goto(w, where) /\ where = IF WorkOn THEN "work" ELSE "exit"
    BY <1>4 DEF Wake
  <2>2. /\ pc'[Main] = pc[Main] /\ pc'[w] = where /\ \A v \in Workers \ {w} : pc'[v] = pc[v]
        /\ Round' = Round /\ stray' = stray /\ finished' = finished /\ pc[w] = "wake"
    BY <1>0, <1>4, <2>1, Moved DEF Wake, orders, history
  <2>3. \A v \in Workers \ {w} : Batches(v)' = Batches(v)
    BY <2>2 DEF Batches
  <2>4. WorkOn => ~ Stopped
    BY DEF MainInv
  <2>5. CASE WorkOn
    <3>1. Batches(w)' = Batches(w)
      BY <1>0, <2>1, <2>2, <2>4, <2>5 DEF Batches
    <3>. QED  BY <1>1, <2>1, <2>2, <2>3, <3>1
  <2>6. CASE ~ WorkOn /\ Stopped
    <3>1. Batches(w)' = Batches(w)
      BY <1>0, <2>1, <2>2, <2>6 DEF Batches
    <3>. QED  BY <1>1, <2>1, <2>2, <2>3, <3>1
  <2>7. CASE ~ WorkOn /\ ~ Stopped
    <3>1. Batches(w)' <= Batches(w)
      BY <1>0, <2>1, <2>2, <2>7 DEF Batches
    <3>2. Over = 0
      BY <1>0, <2>7 DEF MainInv, Over
    <3>. QED  BY <1>1, <2>1, <2>2, <2>3, <2>7, <3>1, <3>2
  <2>. QED  BY <2>5, <2>6, <2>7
<1>5. CASE Work(w)
  <2>1. /\ pc'[Main] = pc[Main] /\ pc'[w] = "report" /\ \A v \in Workers \ {w} : pc'[v] = pc[v]
        /\ Round' = Round /\ stray' = stray /\ pc[w] = "work"
    BY <1>0, <1>5, Moved DEF Work, orders
  <2>2. finished'[w] = finished[w] + 1 /\ \A v \in Workers \ {w} : finished'[v] = finished[v]
    BY <1>5 DEF Work, TypeOK
  <2>3. \A v \in Workers : Batches(v)' = Batches(v)
    BY <1>0, <2>1, <2>2 DEF Batches
  <2>. QED  BY <1>1, <1>5, <2>1, <2>3 DEF Work
<1>6. CASE Spin(w)
  <2>1. UNCHANGED <<pc, finished, Round, stray>>
    BY <1>6 DEF Spin, vars, orders, history
  <2>. QED  BY <2>1 DEF Batches, Over
<1>7. CASE Report(w)
  BY <1>1, <1>2, <1>7 DEF Report, orders, history
<1>8. CASE Restart(w)
  BY <1>1, <1>2, <1>8 DEF Restart, orders, history
<1>9. CASE SignalComplete(w)
  <2>1. UNCHANGED <<finished, Round, stray>> /\ pc[w] = "signal"
    BY <1>9 DEF SignalComplete, orders, history
  <2>2. /\ pc'[Main] = IF pc[Main] = "main_wait" THEN "main_wake" ELSE pc[Main]
        /\ pc'[w] = "rewait" /\ \A v \in Workers \ {w} : pc'[v] = pc[v]
    BY <1>9, Signalled
  <2>3. Over' = Over /\ (Stopped' <=> Stopped)
    BY <1>0, <2>1, <2>2 DEF Over
  <2>4. \A v \in Workers : Batches(v)' = Batches(v)
    BY <1>0, <2>1, <2>2, <2>3 DEF Batches
  <2>. QED  BY <2>1, <2>3, <2>4
<1>10. CASE NextWait(w)
  BY <1>1, <1>2, <1>10 DEF NextWait, orders, history
<1>. QED  BY <1>3, <1>4, <1>5, <1>6, <1>7, <1>8, <1>9, <1>10 DEF WorkerStep

\* The steps of main that do not wake the workers leave the batches as they are.
LEMMA MainBatches ==
  ASSUME TypeOK, MainInv, Sleep \/ LockStart \/ Receive \/ Join
  PROVE  /\ stray' = stray /\ Over' = Over /\ (Stopped' <=> Stopped)
         /\ \A v \in Workers : Batches(v)' = Batches(v)
         /\ \A v \in Workers : pc'[v] = pc[v]
<1>0. Main \notin Workers /\ Round \in Nat
  BY WorkersAssumption, Numbers
<1>1. PICK where : Goto(Main, where)
  BY DEF Sleep, LockStart, Receive, Join
<1>2. pc'[Main] = where /\ \A v \in Workers : pc'[v] = pc[v]
  BY <1>0, <1>1, Moved
<1>3. /\ stray' = stray /\ finished' = finished
      /\ Round' = IF pc[Main] = "lock_start" THEN Round + 1 ELSE Round
  BY DEF Sleep, LockStart, Receive, Join, orders, history
<1>4. /\ Stopped' <=> Stopped
      /\ pc[Main] = "lock_start" <=> pc'[Main] = "lock_complete"
      /\ pc[Main] # "lock_complete"
  BY <1>1, <1>2, Moved DEF Sleep, LockStart, Receive, Join, Stopped
<1>5. Over' = Over
  BY <1>0, <1>2, <1>3, <1>4 DEF Over
<1>6. \A v \in Workers : Batches(v)' = Batches(v)
  BY <1>2, <1>3, <1>4 DEF Batches
<1>. QED  BY <1>2, <1>3, <1>4, <1>5, <1>6

\* The broadcast of a round gives every waiting worker one batch more.
LEMMA StartBatches ==
  ASSUME TypeOK, MainInv, StartRound
  PROVE  /\ stray' = stray /\ Over' = Over + 1 /\ Over \in Nat /\ ~ Stopped /\ ~ Stopped'
         /\ pc'[Main] = "main_wait"
         /\ \A v \in Workers :
              /\ pc'[v] = IF pc[v] = "wait" THEN "wake" ELSE pc[v]
              /\ Batches(v)' = IF pc[v] = "wait" THEN Batches(v) + 1 ELSE Batches(v)
<1>0. Main \notin Workers /\ Round \in Nat /\ \A v \in Workers : finished[v] \in Nat
  BY WorkersAssumption, Numbers
<1>1. GotoWaking("main_wait", At("wait"))
  BY DEF StartRound, Broadcast
<1>2. /\ pc'[Main] = "main_wait" /\ pc[Main] = "lock_complete"
      /\ \A v \in Workers : pc'[v] = IF pc[v] = "wait" THEN "wake" ELSE pc[v]
  BY <1>1, Woken DEF StartRound
<1>3. UNCHANGED <<stray, finished, Round>> /\ Round > 0
  BY DEF StartRound, MainInv, orders
<1>4. ~ Stopped /\ ~ Stopped'
  BY <1>2 DEF Stopped
<1>5. Over' = Over + 1 /\ Over \in Nat
  BY <1>0, <1>2, <1>3 DEF Over
<1>6. \A v \in Workers : Batches(v)' = IF pc[v] = "wait" THEN Batches(v) + 1 ELSE Batches(v)
  BY <1>0, <1>2, <1>3, <1>4 DEF Batches
<1>. QED  BY <1>2, <1>3, <1>4, <1>5, <1>6

\* The termination broadcast gives nobody a batch, and takes it from the workers that
\* were on their way to one.
LEMMA StopBatches ==
  ASSUME TypeOK, Stop
  PROVE  /\ stray' = stray /\ Over' = Over /\ ~ Stopped /\ Stopped'
         /\ pc[Main] = "lock_stop" /\ received' = received
         /\ \A v \in Workers :
              Batches(v)' = IF pc[v] = "wake" THEN Batches(v) - 1 ELSE Batches(v)
<1>0. Main \notin Workers /\ Round \in Nat /\ \A v \in Workers : finished[v] \in Nat
  BY WorkersAssumption, Numbers
<1>1. GotoWaking("join", At("wait"))
  BY DEF Stop, Broadcast
<1>2. /\ pc'[Main] = "join" /\ pc[Main] = "lock_stop"
      /\ \A v \in Workers : pc'[v] = IF pc[v] = "wait" THEN "wake" ELSE pc[v]
  BY <1>1, Woken DEF Stop
<1>3. UNCHANGED <<stray, finished, Round, received>>
  BY DEF Stop, history
<1>4. ~ Stopped /\ Stopped'
  BY <1>2 DEF Stopped
<1>5. Over' = Over
  BY <1>0, <1>2, <1>3 DEF Over
<1>6. \A v \in Workers : Batches(v)' = IF pc[v] = "wake" THEN Batches(v) - 1 ELSE Batches(v)
  BY <1>0, <1>2, <1>3, <1>4 DEF Batches
<1>. QED  BY <1>2, <1>3, <1>4, <1>5, <1>6

\* A wait that ends without a signal gives a worker one batch more.
LEMMA StrayBatches ==
  ASSUME TypeOK, NEW x \in Workers \cup {Main}, StrayWakeup(x)
  PROVE  /\ stray' = stray + 1 /\ Over' = Over /\ (Stopped' <=> Stopped)
         /\ received' = received
         /\ \A v \in Workers : Batches(v)' \in {Batches(v), Batches(v) + 1}
         /\ x = Main => pc[Main] = "main_wait" /\ pc'[Main] = "main_wake"
         /\ x # Main => pc[x] = "wait" /\ pc'[x] = "wake" /\ pc'[Main] = pc[Main]
         /\ \A v \in Workers \ {x} : pc'[v] = pc[v]
<1>0. Main \notin Workers /\ Round \in Nat /\ \A v \in Workers : finished[v] \in Nat
  BY WorkersAssumption, Numbers
<1>1. PICK where : Goto(x, where) /\ where = IF x = Main THEN "main_wake" ELSE "wake"
  BY DEF StrayWakeup
<1>2. /\ stray' = stray + 1 /\ UNCHANGED <<finished, Round, received>>
      /\ pc[x] \in {"wait", "main_wait"}
  BY DEF StrayWakeup, orders
<1>3. /\ x = Main => pc[x] = "main_wait"
      /\ x # Main => pc[x] = "wait"
  BY <1>0, <1>2 DEF TypeOK, MainPcs, WorkerPcs
<1>4. /\ x = Main => pc[Main] = "main_wait" /\ pc'[Main] = "main_wake"
      /\ x # Main => pc[x] = "wait" /\ pc'[x] = "wake" /\ pc'[Main] = pc[Main]
      /\ \A v \in Workers \ {x} : pc'[v] = pc[v]
  BY <1>0, <1>1, <1>3, Moved
<1>5. Stopped' <=> Stopped
  BY <1>4 DEF Stopped
<1>6. Over' = Over
  BY <1>0, <1>2, <1>4 DEF Over
<1>7. ASSUME NEW v \in Workers  PROVE Batches(v)' \in {Batches(v), Batches(v) + 1}
  <2>1. CASE v = x
    BY <1>0, <1>2, <1>4, <1>5, <2>1 DEF Batches
  <2>2. CASE v # x
    BY <1>0, <1>2, <1>4, <1>5, <2>2 DEF Batches
  <2>. QED  BY <2>1, <2>2
<1>. QED  BY <1>2, <1>4, <1>5, <1>6, <1>7

\* No worker gets ahead of the rounds but by waits that end without a signal.
LEMMA AheadKept ==
  TypeOK /\ MainInv /\ AheadInv /\ [Next]_vars => AheadInv'
<1>. SUFFICES ASSUME TypeOK, MainInv, AheadInv, [Next]_vars, NEW v \in Workers
              PROVE  (Batches(v) <= Over + stray)'
  BY DEF AheadInv
<1>0. /\ Batches(v) \in Nat /\ Over \in Int /\ stray \in Nat
      /\ Batches(v) <= Over + stray
  BY Numbers DEF AheadInv
<1>1. Batches(v)' \in Nat
  <2>1. (\A u \in Workers : Batches(u) \in Nat)'
    BY BatchTypes, TypesKept, PTL
  <2>. QED  BY <2>1
<1>2. ASSUME NEW w \in Workers, WorkerStep(w)  PROVE (Batches(v) <= Over + stray)'
  BY <1>0, <1>1, <1>2, WorkerBatches
<1>3. CASE MainStep
  <2>1. CASE Sleep \/ LockStart \/ Receive \/ Join
    BY <1>0, <2>1, MainBatches
  <2>2. CASE StartRound
    BY <1>0, <2>2, StartBatches
  <2>3. CASE Stop
    BY <1>0, <2>3, StopBatches
  <2>. QED  BY <1>3, <2>1, <2>2, <2>3 DEF MainStep
<1>4. ASSUME NEW x \in Workers \cup {Main}, StrayWakeup(x)  PROVE (Batches(v) <= Over + stray)'
  BY <1>0, <1>4, StrayBatches
<1>5. CASE UNCHANGED vars
  <2>1. UNCHANGED <<pc, finished, Round, stray>>
    BY <1>5 DEF vars, orders, history
  <2>2. Batches(v)' = Batches(v) /\ Over' = Over
    BY <2>1 DEF Batches, Over, Stopped
  <2>. QED  BY <1>0, <2>1, <2>2
<1>. QED  BY <1>2, <1>3, <1>4, <1>5 DEF Next, Terminated

\* After the termination broadcast nothing that counts changes.
LEMMA StopKept ==
  TypeOK /\ MainInv /\ Stopped /\ StopInv /\ [Next]_vars => Stopped' /\ StopInv'
<1>. SUFFICES ASSUME TypeOK, MainInv, Stopped, StopInv, [Next]_vars  PROVE Stopped' /\ StopInv'
  OBVIOUS
<1>0. /\ Over \in Int /\ stray \in Nat /\ Cardinality(Workers \ received) \in Nat
      /\ \A v \in Workers : finished[v] \in Nat
  BY Numbers, WorkerSets
<1>1. ASSUME Stopped' <=> Stopped, received' = received, Over' = Over,
             stray' \in {stray, stray + 1},
             \A v \in Workers : finished'[v] \in {finished[v], finished[v] + 1}
      PROVE  Stopped' /\ StopInv'
  <2>1. (Over > 0 => Cardinality(Workers \ received) <= stray)'
    BY <1>0, <1>1 DEF StopInv
  <2>2. ASSUME NEW v \in Workers  PROVE (finished[v] >= Over - stray)'
    <3>1. finished[v] >= Over - stray /\ finished[v] \in Nat
      BY <1>0 DEF StopInv
    <3>2. finished'[v] \in {finished[v], finished[v] + 1}
      BY <1>1
    <3>. QED  BY <1>0, <1>1, <3>1, <3>2
  <2>. QED  BY <1>1, <2>1, <2>2 DEF StopInv
<1>2. ASSUME NEW w \in Workers, WorkerStep(w)  PROVE Stopped' /\ StopInv'
  <2>1. received' = received
    BY <1>2 DEF WorkerStep, FirstWait, Wake, Work, Spin, Report, Restart, SignalComplete,
         NextWait, vars, history
  <2>2. \A v \in Workers : finished'[v] \in {finished[v], finished[v] + 1}
    <3>1. CASE Work(w)
      BY <3>1 DEF Work, TypeOK
    <3>2. CASE ~ Work(w)
      BY <1>2, <3>2 DEF WorkerStep, FirstWait, Wake, Spin, Report, Restart, SignalComplete,
           NextWait, vars, history
    <3>. QED  BY <3>1, <3>2
  <2>. QED  BY <1>0, <1>1, <1>2, <2>1, <2>2, WorkerBatches
<1>3. CASE MainStep
  <2>1. Join
    BY <1>3 DEF MainStep, Sleep, LockStart, StartRound, Receive, Stop, Stopped
  <2>2. received' = received /\ finished' = finished
    BY <2>1 DEF Join, history
  <2>. QED  BY <1>0, <1>1, <2>1, <2>2, MainBatches
<1>4. ASSUME NEW x \in Workers \cup {Main}, StrayWakeup(x)  PROVE Stopped' /\ StopInv'
  <2>1. finished' = finished
    BY <1>4 DEF StrayWakeup
  <2>. QED  BY <1>0, <1>1, <1>4, <2>1, StrayBatches
<1>5. CASE UNCHANGED vars
  <2>1. UNCHANGED <<pc, finished, Round, stray, received>>
    BY <1>5 DEF vars, orders, history
  <2>2. Over' = Over /\ (Stopped' <=> Stopped)
    BY <2>1 DEF Over, Stopped
  <2>. QED  BY <1>0, <1>1, <2>1, <2>2
<1>. QED  BY <1>2, <1>3, <1>4, <1>5 DEF Next, Terminated

-----------------------------------------------------------------------------
(* The completions that main receives and those it does not. *)

\* Main has been woken, and a completion is still to come for the wait it was woken from.
Early == pc[Main] = "main_wake" /\ (MainThreadWaiting \/ CompleteMutex # Nobody)

\* The batches of a worker that stays as far behind as it was, in a step that leaves
\* the rounds alone.
LEMMA SameBehind ==
  ASSUME TypeOK, ExcessInv, Over' = Over, stray' = stray, Excess' = Excess,
         NEW v \in Workers, Batches(v)' \in Nat,
         \/ Batches(v)' = Batches(v)
         \/ Over = 0
  PROVE  (Batches(v) >= Over - stray + Excess)'
<1>1. /\ Over \in Int /\ stray \in Nat /\ Excess \in Int /\ Batches(v) \in Nat
      /\ Excess <= stray /\ Batches(v) >= Over - stray + Excess
  BY Numbers DEF ExcessInv
<1>. QED  BY <1>1

\* A step that neither begins nor ends a round, nor any owed completion, and loses none.
LEMMA SameExcess ==
  ASSUME TypeOK, ExcessInv, Over' = Over, stray' = stray, Excess' = Excess,
         Lost' \subseteq Lost, Early' => Early,
         \A v \in Workers : Batches(v)' \in Nat,
         \A v \in Workers : Batches(v)' = Batches(v) \/ Over = 0
  PROVE  ExcessInv'
<1>1. /\ Over \in Int /\ stray \in Nat /\ Excess \in Int
      /\ Cardinality(Lost) \in Nat /\ Lost \in SUBSET Workers /\ Lost' \in SUBSET Workers
  BY Numbers, Counts
<1>2. Cardinality(Lost') \in Nat /\ Cardinality(Lost') <= Cardinality(Lost)
  BY <1>1, WorkerSets, WorkerCounts
<1>3. (Excess \in 0..stray)' /\ (Early => Excess > 0)'
  BY <1>1 DEF ExcessInv, Early
<1>4. (Over > 0 => Excess + Cardinality(Lost) <= stray)'
  BY <1>1, <1>2 DEF ExcessInv
<1>5. (\A v \in Workers : Batches(v) >= Over - stray + Excess)'
  BY SameBehind
<1>. QED  BY <1>3, <1>4, <1>5 DEF ExcessInv, Early

\* A step that leaves the owing workers and the wait of main as they are leaves the excess.
LEMMA SameBusy ==
  ASSUME Busy' = Busy, pc'[Main] = pc[Main], Y' = Y
  PROVE  Excess' = Excess
BY DEF Excess, Missing, InRound

\* The excess of a worker's step: only a signal that wakes nobody lowers it.
LEMMA WorkerExcess ==
  ASSUME TypeOK, MutexInv, MainInv, ExcessInv, ~ Stopped,
         \A u \in Workers : Batches(u)' \in Nat,
         NEW w \in Workers, WorkerStep(w)
  PROVE  ExcessInv'
<1>0. /\ Main \notin Workers /\ Nobody \notin Workers /\ Nobody # Main
      /\ Over \in Int /\ stray \in Nat /\ Excess \in Int /\ Y \in Nat /\ N \in Nat
      /\ stray' = stray /\ Over' = Over
      /\ \A v \in Workers : Batches(v)' = Batches(v) \/ Over = 0
  BY WorkersAssumption, Numbers, WorkerSets, WorkerBatches
<1>1. ASSUME NEW where, Goto(w, where),
             pc[w] \in {"begin", "wait", "rewait"} <=> where \in {"begin", "wait", "rewait"},
             Y' = Y
      PROVE  Busy' = Busy /\ pc'[Main] = pc[Main] /\ Excess' = Excess
  <2>1. pc'[Main] = pc[Main] /\ pc'[w] = where /\ \A v \in Workers \ {w} : pc'[v] = pc[v]
    BY <1>0, <1>1, Moved
  <2>2. Busy' = Busy
    BY <1>1, <2>1 DEF Busy
  <2>. QED  BY <1>1, <2>1, <2>2, SameBusy
<1>2. ASSUME NEW where, Goto(w, where),
             pc[w] \in {"begin", "wait", "rewait"} <=> where \in {"begin", "wait", "rewait"},
             UNCHANGED <<Y, received, MainThreadWaiting, TheCompletedBatch, CompleteMutex>>
      PROVE  ExcessInv'
  <2>1. Busy' = Busy /\ pc'[Main] = pc[Main] /\ Excess' = Excess
    BY <1>1, <1>2
  <2>2. Lost' = Lost /\ (Early' <=> Early)
    BY <1>2, <2>1 DEF Lost, Taken, Early
  <2>. QED  BY <1>0, <2>1, <2>2, SameExcess
<1>3. CASE FirstWait(w)
  BY <1>2, <1>3 DEF FirstWait, mutexes, orders, reports, history
<1>4. CASE Wake(w)
  BY <1>2, <1>4 DEF Wake, mutexes, orders, reports, history
<1>5. CASE Work(w)
  BY <1>2, <1>5 DEF Work, mutexes, orders, reports, history
<1>6. CASE Spin(w)
  <2>1. UNCHANGED <<pc, Y, received, MainThreadWaiting, TheCompletedBatch, CompleteMutex>>
    BY <1>6 DEF Spin, vars, mutexes, reports, history
  <2>2. Busy' = Busy
    BY <2>1 DEF Busy
  <2>3. Excess' = Excess /\ Lost' = Lost /\ (Early' <=> Early)
    BY <2>1, <2>2, SameBusy DEF Lost, Taken, Early
  <2>. QED  BY <1>0, <2>3, SameExcess
<1>7. CASE Report(w)
  <2>1. Busy' = Busy /\ pc'[Main] = pc[Main] /\ Excess' = Excess /\ received' = received
    BY <1>1, <1>7 DEF Report, orders, history
  <2>2. MainThreadWaiting /\ CompleteMutex' = w
    BY <1>7 DEF Report
  <2>3. Lost' \subseteq Lost
    BY <2>1, <2>2 DEF Lost, Taken
  <2>4. Early' => Early
    BY <2>1, <2>2 DEF Early
  <2>. QED  BY <1>0, <2>1, <2>3, <2>4, SameExcess
<1>8. CASE Restart(w)
  BY <1>2, <1>8 DEF Restart, orders, reports, history
<1>9. CASE SignalComplete(w)
  <2>1. /\ pc'[Main] = IF pc[Main] = "main_wait" THEN "main_wake" ELSE pc[Main]
        /\ pc'[w] = "rewait" /\ \A v \in Workers \ {w} : pc'[v] = pc[v]
    BY <1>9, Signalled
  <2>2. /\ UNCHANGED <<Y, received, MainThreadWaiting, TheCompletedBatch>>
        /\ CompleteMutex' = Nobody /\ pc[w] = "signal"
    BY <1>9 DEF SignalComplete, reports, history
  <2>3. CompleteMutex = w /\ ~ MainThreadWaiting /\ TheCompletedBatch = w
    BY <1>0, <2>2 DEF MutexInv
  <2>4. Busy \in SUBSET Workers /\ w \in Busy /\ Busy' = Busy \ {w}
    BY <2>1, <2>2 DEF Busy
  <2>5. /\ Cardinality(Busy') = Cardinality(Busy) - 1 /\ Cardinality(Busy) > 0
        /\ Cardinality(Busy) \in Nat
    <3>1. PICK B \in SUBSET Workers : B = Busy
      BY <2>4
    <3>2. Cardinality(B \ {w}) = Cardinality(B) - 1 /\ Cardinality(B) > 0
      BY <2>4, <3>1, WorkerCounts
    <3>. QED  BY <2>4, <3>1, <3>2, Counts
  <2>6. ~ Early'
    BY <2>2, <2>3 DEF Early
  <2>7. CASE pc[Main] = "main_wait"
    <3>1. Excess' = Excess
      BY <1>0, <2>1, <2>2, <2>5, <2>7 DEF Excess, Missing, InRound
    <3>2. Lost' \subseteq Lost
      BY <2>1, <2>2, <2>3, <2>4, <2>7 DEF Lost, Taken
    <3>. QED  BY <1>0, <2>6, <3>1, <3>2, SameExcess
  <2>8. CASE pc[Main] # "main_wait"
    <3>1. Excess' = Excess - 1
      BY <1>0, <2>1, <2>2, <2>5, <2>8 DEF Excess, Missing, InRound
    <3>2. Excess > 0
      <4>1. CASE pc[Main] = "main_wake"
        BY <1>0, <2>3, <4>1 DEF ExcessInv
      <4>2. CASE pc[Main] # "main_wake"
        BY <2>5, <2>8, <4>2 DEF Excess, Missing, InRound
      <4>. QED  BY <4>1, <4>2
    <3>3. Lost' \subseteq Lost \cup {w}
      BY <2>1, <2>2, <2>4, <2>8 DEF Lost, Taken
    <3>4. Cardinality(Lost') \in Nat /\ Cardinality(Lost') <= Cardinality(Lost) + 1
      <4>1. PICK K \in SUBSET Workers : K = Lost
        BY Counts
      <4>2. Lost' \in SUBSET Workers
        BY DEF Lost
      <4>3. PICK L \in SUBSET Workers : L = Lost'
        BY <4>2
      <4>4. /\ Cardinality(K \cup {w}) <= Cardinality(K) + 1
            /\ Cardinality(L) <= Cardinality(K \cup {w})
            /\ Cardinality(L) \in Nat /\ Cardinality(K) \in Nat /\ Cardinality(K \cup {w}) \in Nat
        <5>1. w \in K => K \cup {w} = K
          OBVIOUS
        <5>2. Cardinality(K) \in Nat /\ Cardinality(L) \in Nat /\ Cardinality(K \cup {w}) \in Nat
          BY WorkerSets
        <5>3. L \subseteq K \cup {w} /\ K \cup {w} \in SUBSET Workers
          BY <3>3, <4>1, <4>3
        <5>4. Cardinality(K \cup {w}) <= Cardinality(K) + 1
          <6>1. w \notin K => Cardinality(K \cup {w}) = Cardinality(K) + 1
            BY WorkerCounts
          <6>2. w \in K => Cardinality(K \cup {w}) = Cardinality(K)
            BY <5>1, Zenon
          <6>. QED  BY <5>2, <6>1, <6>2
        <5>5. Cardinality(L) <= Cardinality(K \cup {w})
          BY <5>3, WorkerCounts
        <5>. QED  BY <5>2, <5>4, <5>5
      <4>. QED  BY <4>1, <4>3, <4>4
    <3>5. Cardinality(Lost) \in Nat
      BY Counts
    <3>6. (Over > 0 => Excess + Cardinality(Lost) <= stray)'
      BY <1>0, <3>1, <3>4, <3>5 DEF ExcessInv
    <3>7. (Excess \in 0..stray)'
      BY <1>0, <3>1, <3>2 DEF ExcessInv
    <3>8. ASSUME NEW v \in Workers  PROVE (Batches(v) >= Over - stray + Excess)'
      <4>1. /\ Batches(v) \in Nat /\ Batches(v)' \in Nat /\ Excess <= stray
            /\ Batches(v) >= Over - stray + Excess /\ (Batches(v)' = Batches(v) \/ Over = 0)
        BY <1>0, Numbers DEF ExcessInv
      <4>. QED  BY <1>0, <3>1, <4>1
    <3>. QED  BY <2>6, <3>6, <3>7, <3>8 DEF ExcessInv, Early
  <2>. QED  BY <2>7, <2>8
<1>10. CASE NextWait(w)
  BY <1>2, <1>10 DEF NextWait, orders, reports, history
<1>. QED  BY <1>3, <1>4, <1>5, <1>6, <1>7, <1>8, <1>9, <1>10 DEF WorkerStep

\* The broadcast of a round makes every worker owe a completion, and a worker that
\* misses it was owing one already, which pays for the batch it does not get.
LEMMA StartExcess ==
  ASSUME TypeOK, MutexInv, MainInv, ExcessInv, StartRound
  PROVE  ExcessInv'
<1>0. /\ Main \notin Workers /\ Over \in Int /\ stray \in Nat /\ Excess \in Int /\ N \in Nat
      /\ pc[Main] = "lock_complete"
  BY WorkersAssumption, Numbers, WorkerSets DEF StartRound
<1>1. /\ stray' = stray /\ Over' = Over + 1 /\ pc'[Main] = "main_wait"
      /\ \A v \in Workers :
           /\ pc'[v] = IF pc[v] = "wait" THEN "wake" ELSE pc[v]
           /\ Batches(v)' = IF pc[v] = "wait" THEN Batches(v) + 1 ELSE Batches(v)
  BY StartBatches
<1>2. Y' = 0 /\ received' = {} /\ CompleteMutex = Nobody /\ StartWorkMutex = Main
  BY <1>0 DEF StartRound, MutexInv
<1>3. \A v \in Workers : pc[v] \notin {"begin", "rewait"}
  <2>1. At("begin") = {}
    BY <1>0 DEF MainInv
  <2>2. \A v \in Workers : StartWorkMutex # v
    BY <1>0, <1>2
  <2>. QED  BY <2>1, <2>2 DEF At, MutexInv
<1>4. Busy' = Workers
  BY <1>1, <1>3 DEF Busy
<1>5. Excess' = 0
  BY <1>0, <1>1, <1>2, <1>4 DEF Excess, Missing, InRound, N
<1>6. Lost' = {} /\ Cardinality(Lost') = 0
  <2>1. Lost' = {}
    BY <1>4 DEF Lost
  <2>. QED  BY <2>1, FS_EmptySet
<1>7. ASSUME NEW v \in Workers  PROVE (Batches(v) >= Over - stray + Excess)'
  <2>1. Batches(v) \in Nat /\ Batches(v) >= Over - stray + Excess /\ Excess >= 0
    BY <1>0, Numbers DEF ExcessInv
  <2>2. CASE pc[v] = "wait"
    BY <1>0, <1>1, <1>5, <2>1, <2>2
  <2>3. CASE pc[v] # "wait"
    <3>1. Excess > 0
      <4>1. PICK B \in SUBSET Workers : B = Busy
        BY Counts
      <4>2. v \in B
        BY <1>3, <2>3, <4>1 DEF Busy
      <4>3. Cardinality(B) > 0
        BY <4>2, WorkerCounts
      <4>4. Excess = Cardinality(B)
        BY <1>0, <4>1, WorkerSets DEF Excess, Missing, InRound
      <4>. QED  BY <4>3, <4>4
    <3>. QED  BY <1>0, <1>1, <1>5, <2>1, <2>3, <3>1
  <2>. QED  BY <2>2, <2>3
<1>8. (Excess \in 0..stray)' /\ (Over > 0 => Excess + Cardinality(Lost) <= stray)' /\ ~ Early'
  BY <1>0, <1>1, <1>5, <1>6 DEF Early
<1>. QED  BY <1>7, <1>8 DEF ExcessInv, Early

\* The steps of main that do not wake the workers keep the excess: a completion that is
\* received is one less on its way and one less to come.
LEMMA MainExcess ==
  ASSUME TypeOK, MutexInv, MainInv, ExcessInv, ~ Stopped,
         \A u \in Workers : Batches(u)' \in Nat,
         Sleep \/ LockStart \/ Receive \/ Join
  PROVE  ExcessInv'
<1>0. /\ Main \notin Workers /\ Nobody \notin Workers /\ Nobody # Main
      /\ Over \in Int /\ stray \in Nat /\ Excess \in Int /\ Y \in Nat /\ N \in Nat
      /\ stray' = stray /\ Over' = Over
      /\ \A v \in Workers : Batches(v)' = Batches(v) /\ pc'[v] = pc[v]
  BY WorkersAssumption, Numbers, WorkerSets, MainBatches
<1>1. Busy' = Busy /\ Cardinality(Busy) \in Nat
  BY <1>0, Counts DEF Busy
<1>2. CASE Sleep \/ LockStart
  <2>1. /\ pc[Main] \in {"sleep", "lock_start"} /\ pc'[Main] \in {"lock_start", "lock_complete"}
        /\ UNCHANGED <<received, MainThreadWaiting, CompleteMutex, TheCompletedBatch>>
    BY <1>2, Moved DEF Sleep, LockStart, mutexes, reports, history
  <2>2. Excess' = Excess /\ Lost' = Lost /\ ~ Early'
    BY <1>1, <2>1 DEF Excess, Missing, InRound, Lost, Taken, Early
  <2>. QED  BY <1>0, <2>2, SameExcess
<1>3. CASE Receive
  <2>1. /\ pc[Main] = "main_wake" /\ CompleteMutex = Nobody /\ Y' = Y + 1
        /\ received' = received \cup {TheCompletedBatch}
        /\ UNCHANGED <<CompleteMutex, TheCompletedBatch>>
    BY <1>3 DEF Receive, mutexes
  <2>2. /\ pc'[Main] \in {"main_wait", "lock_start", "lock_stop"}
        /\ pc'[Main] = "main_wait" <=> Y + 1 < N
    <3>1. CASE Y + 1 < N
      BY <1>3, <3>1, Moved DEF Receive, MoreToCome
    <3>2. CASE ~ (Y + 1 < N)
      <4>1. PICK where \in {"lock_start", "lock_stop"} : Goto(Main, where)
        BY <1>3, <3>2 DEF Receive, MoreToCome
      <4>. QED  BY <3>2, <4>1, Moved
    <3>. QED  BY <3>1, <3>2
  <2>3. Y < N
    BY <2>1 DEF MainInv, InRound
  <2>4. Excess' = Excess
    BY <1>0, <1>1, <2>1, <2>2, <2>3 DEF Excess, Missing, InRound
  <2>5. Lost' \subseteq Lost
    BY <1>1, <2>1, <2>2 DEF Lost, Taken
  <2>6. ~ Early'
    BY <2>2 DEF Early
  <2>. QED  BY <1>0, <2>4, <2>5, <2>6, SameExcess
<1>4. ~ Join
  BY MainBatches DEF Join, Stopped
<1>. QED  BY <1>2, <1>3, <1>4

\* A wait that ends without a signal adds one to the excess, and pays for it.
LEMMA StrayExcess ==
  ASSUME TypeOK, MutexInv, MainInv, ExcessInv, NEW x \in Workers \cup {Main}, StrayWakeup(x)
  PROVE  ExcessInv'
<1>0. /\ Main \notin Workers /\ Over \in Int /\ stray \in Nat /\ Excess \in Int
      /\ Y \in Nat /\ N \in Nat
      /\ Cardinality(Busy) \in Nat /\ Cardinality(Lost) \in Nat
  BY WorkersAssumption, Numbers, WorkerSets, Counts
<1>1. /\ stray' = stray + 1 /\ Over' = Over /\ received' = received
      /\ \A v \in Workers : Batches(v)' \in {Batches(v), Batches(v) + 1}
      /\ x = Main => pc[Main] = "main_wait" /\ pc'[Main] = "main_wake"
      /\ x # Main => pc[x] = "wait" /\ pc'[x] = "wake" /\ pc'[Main] = pc[Main]
      /\ \A v \in Workers \ {x} : pc'[v] = pc[v]
  BY StrayBatches
<1>2. UNCHANGED <<Y, MainThreadWaiting, TheCompletedBatch, CompleteMutex>>
  BY DEF StrayWakeup, mutexes, reports
<1>3. Excess' = Excess + 1 /\ Lost' \subseteq Lost
  <2>1. CASE x = Main
    <3>1. Busy' = Busy
      BY <1>0, <1>1, <2>1 DEF Busy
    <3>. QED  BY <1>0, <1>1, <1>2, <2>1, <3>1 DEF Excess, Missing, InRound, Lost, Taken
  <2>2. CASE x # Main
    <3>1. x \in Workers \ Busy /\ Busy' = Busy \cup {x}
      BY <1>1, <2>2 DEF Busy
    <3>2. PICK B \in SUBSET Workers : B = Busy
      BY Counts
    <3>3. Cardinality(B \cup {x}) = Cardinality(B) + 1
      BY <3>1, <3>2, WorkerCounts
    <3>4. Cardinality(Busy') = Cardinality(Busy) + 1
      BY <3>1, <3>2, <3>3
    <3>5. Excess' = Excess + 1
      BY <1>0, <1>1, <1>2, <2>2, <3>4 DEF Excess, Missing, InRound
    <3>6. Lost' \subseteq Lost
      BY <1>1, <1>2, <2>2, <3>1 DEF Lost, Taken
    <3>. QED  BY <3>5, <3>6
  <2>. QED  BY <2>1, <2>2
<1>4. Cardinality(Lost') \in Nat /\ Cardinality(Lost') <= Cardinality(Lost)
  <2>1. PICK K \in SUBSET Workers : K = Lost
    BY Counts
  <2>2. Lost' \in SUBSET Workers
    BY <1>3, Counts
  <2>. QED  BY <1>3, <2>1, <2>2, WorkerSets, WorkerCounts
<1>5. (Excess \in 0..stray)' /\ (Excess > 0)'
  BY <1>0, <1>1, <1>3 DEF ExcessInv
<1>6. (Over > 0 => Excess + Cardinality(Lost) <= stray)'
  BY <1>0, <1>1, <1>3, <1>4 DEF ExcessInv
<1>7. ASSUME NEW v \in Workers  PROVE (Batches(v) >= Over - stray + Excess)'
  <2>1. Batches(v) \in Nat /\ Batches(v) >= Over - stray + Excess
    BY Numbers DEF ExcessInv
  <2>. QED  BY <1>0, <1>1, <1>3, <2>1
<1>. QED  BY <1>5, <1>6, <1>7 DEF ExcessInv

\* Between the rounds a worker that is behind by one more owes a completion.
LEMMA Owing ==
  ASSUME TypeOK, ExcessInv, Excess = Cardinality(Busy), NEW v \in Workers
  PROVE  finished[v] >= Over - stray
<1>1. /\ finished[v] \in Nat /\ Over \in Int /\ stray \in Nat /\ Excess \in Int
      /\ Batches(v) \in Nat /\ Batches(v) >= Over - stray + Excess /\ Excess >= 0
  BY Numbers DEF ExcessInv
<1>2. CASE pc[v] \in {"wake", "work"}
  <2>1. PICK B \in SUBSET Workers : B = Busy
    BY Counts
  <2>2. v \in B
    BY <1>2, <2>1 DEF Busy
  <2>3. Cardinality(B) > 0 /\ Cardinality(B) \in Nat
    BY <2>2, WorkerCounts, WorkerSets
  <2>4. Batches(v) <= finished[v] + 1
    BY <1>1 DEF Batches
  <2>. QED  BY <1>1, <2>1, <2>3, <2>4
<1>3. CASE pc[v] \notin {"wake", "work"}
  BY <1>1, <1>3 DEF Batches
<1>. QED  BY <1>2, <1>3

\* Between the rounds a worker whose completion was not received owes it or has lost it.
LEMMA Unreceived ==
  ASSUME TypeOK, ExcessInv, Excess = Cardinality(Busy), Lost = Workers \ (received \cup Busy),
         Over > 0
  PROVE  Cardinality(Workers \ received) <= stray
<1>0. /\ Over \in Int /\ stray \in Nat
      /\ Cardinality(Busy) \in Nat /\ Cardinality(Lost) \in Nat
  BY Numbers, Counts
<1>1. PICK B \in SUBSET Workers : B = Busy
  BY Counts
<1>2. PICK K \in SUBSET Workers : K = Lost
  BY Counts
<1>3. PICK U \in SUBSET Workers : U = Workers \ received
  OBVIOUS
<1>4. U \subseteq B \cup K /\ B \cup K \in SUBSET Workers
  BY <1>1, <1>2, <1>3
<1>5. Cardinality(U) <= Cardinality(B \cup K)
  BY <1>4, WorkerCounts
<1>6. Cardinality(B \cup K) <= Cardinality(B) + Cardinality(K)
  BY WorkerCounts
<1>7. Cardinality(U) \in Nat /\ Cardinality(B \cup K) \in Nat
  BY <1>4, WorkerSets
<1>. QED  BY <1>0, <1>1, <1>2, <1>3, <1>5, <1>6, <1>7 DEF ExcessInv

\* The termination broadcast finds every worker with as many batches, and main with as
\* many completions, as the waits without a signal allow.
LEMMA StopEstablished ==
  ASSUME TypeOK, ExcessInv, Stop
  PROVE  StopInv'
<1>1. /\ stray' = stray /\ Over' = Over /\ pc[Main] = "lock_stop"
      /\ received' = received /\ finished' = finished
  BY StopBatches DEF Stop, history
<1>2. Excess = Cardinality(Busy) /\ Lost = Workers \ (received \cup Busy)
  BY <1>1, Counts DEF Excess, Missing, InRound, Lost, Taken
<1>3. \A v \in Workers : finished[v] >= Over - stray
  BY <1>2, Owing
<1>4. Over > 0 => Cardinality(Workers \ received) <= stray
  BY <1>2, Unreceived
<1>. QED  BY <1>1, <1>3, <1>4 DEF StopInv

-----------------------------------------------------------------------------
(* The theorems. *)

\* RoundInv holds initially and is kept by every step of the program.
LEMMA RoundInductive ==
  /\ Init => RoundInv
  /\ RoundInv /\ [Next]_vars => RoundInv'
<1>1. Init => RoundInv
  <2>. SUFFICES ASSUME Init  PROVE RoundInv
    OBVIOUS
  <2>0. /\ Main \notin Workers /\ Nobody \notin Workers /\ Nobody # Main /\ N \in Nat
        /\ Rounds \in Nat /\ Rounds > 0 /\ MaxStray \in Nat
    BY WorkersAssumption, WorkerSets, RoundsAssumption
  <2>1. TypeOK
    <3>1. /\ pc \in [Workers \cup {Main} -> WorkerPcs \cup MainPcs]
          /\ pc[Main] = "sleep" /\ \A w \in Workers : pc[w] = "begin"
      BY <2>0 DEF Init, WorkerPcs, MainPcs
    <3>2. finished \in [Workers -> Nat]
      BY DEF Init
    <3>3. /\ StartWorkMutex \in Workers \cup {Main, Nobody}
          /\ CompleteMutex \in Workers \cup {Main, Nobody}
          /\ TheCompletedBatch \in Workers \cup {Nobody}
          /\ received \subseteq Workers \cup {Nobody}
          /\ WorkOn \in BOOLEAN /\ MainThreadWaiting \in BOOLEAN
      BY DEF Init
    <3>4. Round \in 0..Rounds /\ Y \in 0..N /\ stray \in 0..MaxStray
      BY <2>0 DEF Init
    <3>. QED  BY <3>1, <3>2, <3>3, <3>4 DEF TypeOK, WorkerPcs, MainPcs
  <2>2. MutexInv /\ MainInv /\ ~ Stopped
    BY <2>0 DEF Init, MutexInv, MainInv, InRound, Stopped, At
  <2>3. Busy = {} /\ Cardinality(Busy) = 0
    <3>1. Busy = {}
      BY <2>0 DEF Init, Busy
    <3>. QED  BY <3>1, FS_EmptySet
  <2>4. Excess = 0 /\ Over = 0 /\ stray = 0 /\ pc[Main] = "sleep"
    BY <2>3 DEF Init, Excess, Missing, InRound, Over
  <2>5. \A w \in Workers : Batches(w) = 0
    BY <2>0 DEF Init, Batches
  <2>. QED  BY <2>1, <2>2, <2>4, <2>5 DEF RoundInv, ExcessInv, AheadInv
<1>2. RoundInv /\ [Next]_vars => RoundInv'
  <2>. SUFFICES ASSUME RoundInv, [Next]_vars  PROVE RoundInv'
    OBVIOUS
  <2>1. TypeOK' /\ MutexInv' /\ MainInv' /\ AheadInv'
    BY TypesKept, MutexesKept, MainKept, AheadKept DEF RoundInv
  <2>2. CASE Stopped
    BY <2>1, <2>2, StopKept DEF RoundInv
  <2>3. ASSUME ~ Stopped  PROVE (~ Stopped => ExcessInv)' /\ (Stopped => StopInv)'
    <3>0. TypeOK /\ MutexInv /\ MainInv /\ ExcessInv
      BY <2>3 DEF RoundInv
    <3>1. \A u \in Workers : Batches(u)' \in Nat
      <4>1. (\A u \in Workers : Batches(u) \in Nat)'
        BY <2>1, BatchTypes, PTL
      <4>. QED  BY <4>1
    <3>2. ASSUME NEW w \in Workers, WorkerStep(w)  PROVE ExcessInv' /\ ~ Stopped'
      BY <2>3, <3>0, <3>1, <3>2, WorkerExcess, WorkerBatches
    <3>3. CASE Sleep \/ LockStart \/ Receive \/ Join
      BY <2>3, <3>0, <3>1, <3>3, MainExcess, MainBatches
    <3>4. CASE StartRound
      BY <3>0, <3>4, StartExcess, StartBatches
    <3>5. CASE Stop
      BY <3>0, <3>5, StopEstablished, StopBatches
    <3>6. ASSUME NEW x \in Workers \cup {Main}, StrayWakeup(x)  PROVE ExcessInv' /\ ~ Stopped'
      BY <2>3, <3>0, <3>6, StrayExcess, StrayBatches
    <3>7. CASE UNCHANGED vars
      <4>1. UNCHANGED <<pc, Y, received, MainThreadWaiting, TheCompletedBatch, CompleteMutex,
                        finished, Round, stray>>
        BY <3>7 DEF vars, mutexes, orders, reports, history
      <4>2. /\ Over' = Over /\ Lost' = Lost /\ (Early' <=> Early) /\ (Stopped' <=> Stopped)
            /\ Excess' = Excess /\ \A v \in Workers : Batches(v)' = Batches(v)
        BY <4>1 DEF Over, Lost, Taken, Busy, Early, Stopped, Excess, Missing, InRound, Batches
      <4>. QED  BY <2>3, <3>0, <3>1, <4>1, <4>2, SameExcess
    <3>. QED  BY <3>2, <3>3, <3>4, <3>5, <3>6, <3>7 DEF Next, MainStep, Terminated
  <2>. QED  BY <2>1, <2>2, <2>3 DEF RoundInv
<1>. QED  BY <1>1, <1>2

\* Every behaviour of the program keeps RoundInv: the waits that ended without a signal
\* pay for all completions too many, all that are lost and all batches missed (lines 51,
\* 88 and 135).
THEOREM RoundInvariant == Spec => []RoundInv
BY RoundInductive, PTL DEF Spec

\* When a round is over every worker has worked on one batch per round and main has
\* received one completion from every worker, up to one for every wait that ended
\* without a signal; for any number of workers and rounds ("All of the worker threads
\* will have to finish before we can start the next batch.", line 137).
THEOREM RoundsAreComplete == Spec => []RoundComplete
<1>1. RoundInv => RoundComplete
  <2>. SUFFICES ASSUME RoundInv,
                       pc[Main] \in {"lock_start", "lock_complete", "lock_stop", "join", "end"}
       PROVE  /\ \A w \in Workers : finished[w] \in (Over - stray)..(Over + stray)
              /\ Over > 0 => Cardinality(Workers \ received) <= stray
    BY DEF RoundComplete, RoundInv
  <2>0. /\ TypeOK /\ Over \in Int /\ stray \in Nat /\ Excess \in Int
        /\ Cardinality(Busy) \in Nat /\ Cardinality(Lost) \in Nat
    BY Numbers, Counts DEF RoundInv
  <2>1. ASSUME NEW w \in Workers  PROVE finished[w] <= Over + stray
    <3>1. finished[w] \in Nat /\ Batches(w) \in Nat /\ Batches(w) <= Over + stray
      BY <2>0, Numbers DEF RoundInv, AheadInv
    <3>. QED  BY <2>0, <3>1 DEF Batches
  <2>2. CASE Stopped
    <3>1. ASSUME NEW w \in Workers  PROVE finished[w] >= Over - stray
      BY <2>0, <2>2 DEF RoundInv, StopInv
    <3>. QED  BY <2>0, <2>1, <2>2, <3>1, Numbers DEF RoundInv, StopInv
  <2>3. CASE ~ Stopped
    <3>0. ExcessInv
      BY <2>3 DEF RoundInv
    <3>1. Excess = Cardinality(Busy) /\ Lost = Workers \ (received \cup Busy)
      BY <2>0, <2>3 DEF Excess, Missing, InRound, Lost, Taken
    <3>2. ASSUME NEW w \in Workers  PROVE finished[w] >= Over - stray
      BY <2>0, <3>0, <3>1, Owing
    <3>3. Over > 0 => Cardinality(Workers \ received) <= stray
      BY <2>0, <3>0, <3>1, Unreceived
    <3>. QED  BY <2>0, <2>1, <3>2, <3>3, Numbers
  <2>. QED  BY <2>2, <2>3
<1>. QED  BY <1>1, RoundInvariant, PTL

\* Main broadcasts the start of a round when every worker waits for it, but for one
\* worker at most for each wait that ended without a signal; so without those no worker
\* asks for StartWorkMutex with CompleteMutex in hand while main does the opposite
\* (lines 71-82 and 121-127).
THEOREM StartIsNotMissed == Spec => []NobodyMissesTheStart
<1>1. RoundInv => NobodyMissesTheStart
  <2>. SUFFICES ASSUME RoundInv, pc[Main] = "lock_complete"
                PROVE  Cardinality(Workers \ At("wait")) <= stray
    BY DEF NobodyMissesTheStart
  <2>1. ExcessInv /\ TypeOK /\ Excess = Cardinality(Busy)
    BY Counts DEF RoundInv, Stopped, Excess, Missing, InRound
  <2>2. \A w \in Workers : pc[w] \notin {"begin", "rewait"}
    <3>1. At("begin") = {} /\ StartWorkMutex = Main /\ Main \notin Workers
      BY WorkersAssumption DEF RoundInv, MainInv, MutexInv
    <3>. QED  BY <3>1 DEF RoundInv, MutexInv, At
  <2>3. Workers \ At("wait") = Busy
    BY <2>2 DEF At, Busy
  <2>4. Cardinality(Workers \ At("wait")) = Cardinality(Busy)
    BY <2>3
  <2>5. Excess \in 0..stray /\ stray \in Nat
    BY <2>1, Numbers DEF ExcessInv
  <2>6. Excess <= stray
    BY <2>5
  <2>. QED  BY <2>1, <2>4, <2>6
<1>. QED  BY <1>1, RoundInvariant, PTL

=============================================================================
