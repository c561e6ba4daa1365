---------------------------- MODULE WorkerThreads ----------------------------
(***************************************************************************)
(* The batch program WorkerThreads.c: in each round the main thread starts *)
(* all workers with a broadcast of StartWorkCondition and collects their   *)
(* completions one at a time through CompleteCondition.  No wait tests a   *)
(* predicate, so the program depends on nobody missing a broadcast and     *)
(* nobody waking up without one, which POSIX does not promise: waits may   *)
(* end without a signal, and the properties say what that breaks.          *)
(*                                                                         *)
(* A section that acquires and releases one mutex without blocking in      *)
(* between is one step.  A worker that reports and a main thread that      *)
(* starts a round hold both mutexes, in opposite order, for several steps. *)
(***************************************************************************)
EXTENDS Integers, FiniteSets, Pthreads

CONSTANTS
  Workers,    \* the worker threads
  Main,       \* the main thread
  Rounds,     \* NUMBER_OF_WORKING_ROUNDS
  MaxStray,   \* how many waits may end without a signal
  Nobody      \* the owner of a free mutex, and BOGUS

ASSUME WorkersAssumption ==
  IsFiniteSet(Workers) /\ Workers # {} /\ Main \notin Workers /\ Nobody \notin Workers \cup {Main}

ASSUME RoundsAssumption == Rounds \in Nat \ {0} /\ MaxStray \in Nat

VARIABLES
  StartWorkMutex,     \* its owner
  CompleteMutex,      \* its owner
  WorkOn,
  Round,
  MainThreadWaiting,
  TheCompletedBatch,
  Y,                  \* how many completions main has received in this round
  pc,
  \* history
  received,           \* the workers whose completions those are
  finished,           \* how many batches each worker has finished
  stray               \* how many waits have ended without a signal

mutexes == <<StartWorkMutex, CompleteMutex>>
orders  == <<WorkOn, Round>>
reports == <<MainThreadWaiting, TheCompletedBatch>>
history == <<received, finished, stray>>
vars == <<mutexes, orders, reports, Y, pc, history>>

WorkerPcs == {"begin", "wait", "wake", "work", "report", "restart", "signal",
              "rewait", "exit"}
MainPcs == {"sleep", "lock_start", "lock_complete", "main_wait", "main_wake",
            "lock_stop", "join", "end"}

N == Cardinality(Workers)

At(where) == {w \in Workers : pc[w] = where}

Goto(x, where) == pc' = [pc EXCEPT ![x] = where]

\* pc after main goes on to where and its broadcast wakes the waiting workers.
GotoWaking(where, woken) ==
  pc' = [x \in DOMAIN pc |->
           IF x = Main THEN where ELSE IF x \in woken THEN "wake" ELSE pc[x]]

Init ==
  /\ StartWorkMutex = Nobody
  /\ CompleteMutex = Nobody
  /\ WorkOn = FALSE
  /\ Round = 0
  /\ MainThreadWaiting = FALSE
  /\ TheCompletedBatch = Nobody
  /\ Y = 0
  /\ pc = [x \in Workers \cup {Main} |-> IF x = Main THEN "sleep" ELSE "begin"]
  /\ received = {}
  /\ finished = [w \in Workers |-> 0]
  /\ stray = 0

-----------------------------------------------------------------------------
(* WorkerThread *)

\* The first wait.
FirstWait(w) ==
  /\ pc[w] = "begin"
  /\ StartWorkMutex = Nobody
  /\ Goto(w, "wait")
  /\ UNCHANGED <<mutexes, orders, reports, Y, history>>

\* Back from the wait with StartWorkMutex: begin a batch, or leave.
Wake(w) ==
  /\ pc[w] = "wake"
  /\ StartWorkMutex = Nobody
  /\ Goto(w, IF WorkOn THEN "work" ELSE "exit")
  /\ UNCHANGED <<mutexes, orders, reports, Y, history>>

Work(w) ==
  /\ pc[w] = "work"
  /\ finished' = [finished EXCEPT ![w] = @ + 1]
  /\ Goto(w, "report")
  /\ UNCHANGED <<mutexes, orders, reports, Y, received, stray>>

\* CompleteMutex is locked while main does not wait, and unlocked again.
Spin(w) ==
  /\ pc[w] = "report"
  /\ CompleteMutex = Nobody
  /\ ~ MainThreadWaiting
  /\ UNCHANGED vars

\* Main is found waiting: the worker keeps CompleteMutex.
Report(w) ==
  /\ pc[w] = "report"
  /\ CompleteMutex = Nobody
  /\ MainThreadWaiting
  /\ CompleteMutex' = w
  /\ MainThreadWaiting' = FALSE
  /\ TheCompletedBatch' = w
  /\ Goto(w, "restart")
  /\ UNCHANGED <<StartWorkMutex, orders, Y, history>>

\* Lock StartWorkMutex before the signal.
Restart_Unlocked(w) ==
  /\ pc[w] = "restart"
  /\ Goto(w, "signal")
  /\ UNCHANGED <<mutexes, orders, reports, Y, history>>

Restart(w) ==
  /\ pc[w] = "restart"
  /\ StartWorkMutex = Nobody
  /\ StartWorkMutex' = w
  /\ Goto(w, "signal")
  /\ UNCHANGED <<CompleteMutex, orders, reports, Y, history>>

\* The signal, which wakes main if it waits, and the unlock of CompleteMutex.
SignalComplete(w) ==
  /\ pc[w] = "signal"
  /\ CompleteMutex' = Nobody
  /\ \E woken \in Signal({Main} \cap {x \in {Main} : pc[x] = "main_wait"}) :
       pc' = [x \in DOMAIN pc |->
                IF x = w THEN "rewait" ELSE IF x \in woken THEN "main_wake" ELSE pc[x]]
  /\ UNCHANGED <<StartWorkMutex, orders, reports, Y, history>>

\* The wait for the next round releases StartWorkMutex.
NextWait(w) ==
  /\ pc[w] = "rewait"
  /\ StartWorkMutex' = Nobody
  /\ Goto(w, "wait")
  /\ UNCHANGED <<CompleteMutex, orders, reports, Y, history>>

-----------------------------------------------------------------------------
(* main *)

\* All threads are created; main sleeps for a second, which is taken to be long
\* enough for every worker to reach its first wait.
Sleep ==
  /\ pc[Main] = "sleep"
  /\ At("begin") = {}
  /\ Goto(Main, "lock_start")
  /\ UNCHANGED <<mutexes, orders, reports, Y, history>>

LockStart ==
  /\ pc[Main] = "lock_start"
  /\ StartWorkMutex = Nobody
  /\ StartWorkMutex' = Main
  /\ WorkOn' = TRUE
  /\ Round' = Round + 1
  /\ Goto(Main, "lock_complete")
  /\ UNCHANGED <<CompleteMutex, reports, Y, history>>

\* CompleteMutex is locked, the round is broadcast, StartWorkMutex unlocked,
\* and main waits for the first completion, which releases CompleteMutex.
StartRound ==
  /\ pc[Main] = "lock_complete"
  /\ CompleteMutex = Nobody
  /\ StartWorkMutex' = Nobody
  /\ \E woken \in Broadcast(At("wait")) : GotoWaking("main_wait", woken)
  /\ Y' = 0
  /\ received' = {}
  /\ MainThreadWaiting' = TRUE
  /\ UNCHANGED <<CompleteMutex, orders, TheCompletedBatch, finished, stray>>

\* The condition of the loop over the completions.
MoreToCome_OneLess == Y + 2 < N
MoreToCome == Y + 1 < N

\* Main is back from its wait and owns CompleteMutex: it takes note of a
\* completion and waits for the next, or the round is over.
Receive ==
  /\ pc[Main] = "main_wake"
  /\ CompleteMutex = Nobody
  /\ received' = received \cup {TheCompletedBatch}
  /\ Y' = Y + 1
  /\ IF MoreToCome
     THEN MainThreadWaiting' = TRUE /\ Goto(Main, "main_wait")
     ELSE /\ UNCHANGED MainThreadWaiting
          /\ Goto(Main, IF Round < Rounds THEN "lock_start" ELSE "lock_stop")
  /\ UNCHANGED <<mutexes, orders, TheCompletedBatch, finished, stray>>

\* What WorkOn is for the termination broadcast.
StopWorkOn_Kept == WorkOn
StopWorkOn == FALSE

\* The termination broadcast.
Stop ==
  /\ pc[Main] = "lock_stop"
  /\ StartWorkMutex = Nobody
  /\ WorkOn' = StopWorkOn
  /\ \E woken \in Broadcast(At("wait")) : GotoWaking("join", woken)
  /\ UNCHANGED <<mutexes, Round, reports, Y, history>>

Join ==
  /\ pc[Main] = "join"
  /\ At("exit") = Workers
  /\ Goto(Main, "end")
  /\ UNCHANGED <<mutexes, orders, reports, Y, history>>

-----------------------------------------------------------------------------
WorkerStep(w) ==
  \/ FirstWait(w)
  \/ Wake(w)
  \/ Work(w)
  \/ Spin(w)
  \/ Report(w)
  \/ Restart(w)
  \/ SignalComplete(w)
  \/ NextWait(w)

MainStep == Sleep \/ LockStart \/ StartRound \/ Receive \/ Stop \/ Join

\* A wait, of a worker or of main, ends without a signal.
StrayWakeup(x) ==
  /\ stray < MaxStray
  /\ pc[x] \in {"wait", "main_wait"}
  /\ Goto(x, IF x = Main THEN "main_wake" ELSE "wake")
  /\ stray' = stray + 1
  /\ UNCHANGED <<mutexes, orders, reports, Y, received, finished>>

Terminated == pc[Main] = "end" /\ UNCHANGED vars

Next ==
  \/ \E w \in Workers : WorkerStep(w)
  \/ MainStep
  \/ \E x \in Workers \cup {Main} : StrayWakeup(x)
  \/ Terminated

Spec == Init /\ [][Next]_vars

\* Every thread that can run does, and a mutex that becomes free again and again
\* is granted to whoever keeps asking for it.
Fairness == SF_vars(MainStep) /\ \A w \in Workers : SF_vars(WorkerStep(w))

FairSpec == Spec /\ Fairness

-----------------------------------------------------------------------------
(* Properties *)

TypeOK ==
  /\ StartWorkMutex \in Workers \cup {Main, Nobody}
  /\ CompleteMutex \in Workers \cup {Main, Nobody}
  /\ WorkOn \in BOOLEAN
  /\ Round \in 0..Rounds
  /\ MainThreadWaiting \in BOOLEAN
  /\ TheCompletedBatch \in Workers \cup {Nobody}
  /\ Y \in 0..N
  /\ pc \in [Workers \cup {Main} -> WorkerPcs \cup MainPcs]
  /\ pc[Main] \in MainPcs
  /\ \A w \in Workers : pc[w] \in WorkerPcs
  /\ received \subseteq Workers \cup {Nobody}
  /\ finished \in [Workers -> Nat]
  /\ stray \in 0..MaxStray

\* How many rounds are over, when no round is running.
Over == IF pc[Main] = "lock_complete" THEN Round - 1 ELSE Round

\* When a round is over main has received one completion from every worker, and
\* every worker has finished exactly one batch per round so far: no completion is
\* lost, overwritten or counted twice, and nobody runs ahead ("All of the worker
\* threads will have to finish before we can start the next batch.", line 137).
\* Every wait that ended without a signal costs at most one completion, and puts
\* a worker at most one batch ahead or behind (lines 51, 88 and 135).
RoundComplete ==
  /\ TypeOK
  /\ pc[Main] \in {"lock_start", "lock_complete", "lock_stop", "join", "end"} =>
       /\ \A w \in Workers : finished[w] \in (Over - stray)..(Over + stray)
       /\ Over > 0 => Cardinality(Workers \ received) <= stray

\* Whenever main owns StartWorkMutex to broadcast, every worker is in its wait
\* ("This way, we can enter a waiting state for the next round before the main
\* thread broadcasts the "StartWorkCondition".", line 81), but for one worker at
\* most for each wait that ended without a signal.  So without those no worker owns
\* CompleteMutex while it asks for StartWorkMutex, and the opposite lock orders of
\* lines 71-82 and 121-127 do not meet.
NobodyMissesTheStart ==
  pc[Main] = "lock_complete" => Cardinality(Workers \ At("wait")) <= stray

\* The program ends, all rounds worked and all threads joined, if no wait ends
\* without a signal.
Terminates == <>(pc[Main] = "end" \/ stray > 0)
==============================================================================
