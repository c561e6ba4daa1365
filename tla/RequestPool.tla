---------------------------- MODULE RequestPool ----------------------------
(***************************************************************************)
(* The Windows thread pool of threadpool/threadPool2/ThreadPool.cpp and    *)
(* the dialog that uses it (ThreadPoolDemo/ThreadPoolDemoDlg.cpp): a queue *)
(* of requests, a kernel semaphore whose maximum is the number of threads, *)
(* and four unsigned short counters under one recursive critical section.  *)
(*                                                                         *)
(* Every use of the critical section is one step; what happens between two *)
(* of them is interleaved.  One thread, that of the dialog, calls Create,  *)
(* PostRequest and Destroy.                                                *)
(***************************************************************************)
EXTENDS Integers, Sequences, FiniteSets

CONSTANTS
  Threads,     \* the worker threads
  Requests,    \* the Request objects the dialog makes
  MayFail,     \* whether Execute may return a value other than 0
  Faults,      \* the system calls that may fail
  MaxCreates,  \* how often Create is called
  NoRequest    \* the null pointer

N == Cardinality(Threads)

\* The range of an unsigned short.
Word == 65536

ASSUME ThreadsAssumption ==
  IsFiniteSet(Threads) /\ N \in 1..64

ASSUME RequestsAssumption == IsFiniteSet(Requests) /\ NoRequest \notin Requests

ASSUME OptionsAssumption ==
  /\ MayFail \in BOOLEAN
  /\ Faults \subseteq {"CreateSemaphore", "CreateThread"}
  /\ MaxCreates \in Nat

VARIABLES
  m_bDestroyed,
  m_usSemaphoreCount,
  m_lActiveThread,
  m_usPendingReqCount,
  m_RequestQueue,
  m_phThreadList,  \* the threads with a handle in it, or "null"
  semaphore,       \* the count of m_hSemaphore
  pc,              \* where each thread is
  pRequest,        \* the request each thread has popped
  dialog,          \* where the dialog's thread is
  creating,        \* whether Destroy was called by Create
  creates,         \* how often Create was called
  \* the requests
  m_RequestList,   \* those the dialog keeps
  refused,         \* those it deleted because PostRequest failed
  deleted,         \* those it deleted when the pool was destroyed
  executed,        \* those Execute has returned for
  failures,        \* how often it has returned a value other than 0
  stragglers       \* the threads past their test of the flag when Destroy
                   \* released the semaphore

counters == <<m_usSemaphoreCount, m_lActiveThread, m_usPendingReqCount>>
pool     == <<m_bDestroyed, counters, m_RequestQueue, m_phThreadList, semaphore>>
workers  == <<pc, pRequest>>
caller   == <<dialog, creating, creates>>
requests == <<m_RequestList, refused, deleted, executed, failures>>
vars == <<pool, workers, caller, requests, stragglers>>

ThreadPcs == {"none", "wait", "count", "enter", "check", "pop", "execute", "check2",
              "renotify", "leave", "leave_exit", "exit"}

DialogPcs == {"idle", "add", "cancel", "flag", "release", "join"}

At(where) == {w \in Threads : pc[w] = where}

Goto(w, where) == pc' = [pc EXCEPT ![w] = where]

\* Counters are unsigned shorts.
Up(x) == (x + 1) % Word
Down(x) == (x - 1) % Word

Init ==
  /\ m_bDestroyed = FALSE
  /\ m_usSemaphoreCount = 0
  /\ m_lActiveThread = 0
  /\ m_usPendingReqCount = 0
  /\ m_RequestQueue = <<>>
  /\ m_phThreadList = "null"
  /\ semaphore = 0
  /\ pc = [w \in Threads |-> "none"]
  /\ pRequest = [w \in Threads |-> NoRequest]
  /\ dialog = "idle"
  /\ creating = FALSE
  /\ creates = 0
  /\ m_RequestList = {}
  /\ refused = {}
  /\ deleted = {}
  /\ executed = {}
  /\ failures = 0
  /\ stragglers = {}

-----------------------------------------------------------------------------
(* Create, AddThreads *)

\* Up to the allocation of the thread list.  Without a semaphore Create fails.
Create(ok) ==
  /\ dialog = "idle"
  /\ m_phThreadList = "null"
  /\ creates < MaxCreates
  /\ ~ ok => "CreateSemaphore" \in Faults
  /\ creates' = creates + 1
  /\ m_lActiveThread' = 0
  /\ m_usSemaphoreCount' = 0
  /\ m_usPendingReqCount' = 0
  /\ semaphore' = 0
  /\ m_phThreadList' = IF ok THEN "list" ELSE "null"
  /\ dialog' = IF ok THEN "add" ELSE "idle"
  /\ UNCHANGED <<m_bDestroyed, m_RequestQueue, workers, creating, requests, stragglers>>

AddThread(w) ==
  /\ dialog = "add"
  /\ pc[w] = "none"
  /\ Goto(w, "wait")
  /\ UNCHANGED <<pool, pRequest, caller, requests, stragglers>>

\* CreateThread fails: Create calls Destroy and returns false.
AddThreadFails ==
  /\ dialog = "add"
  /\ At("none") # {}
  /\ "CreateThread" \in Faults
  /\ dialog' = "cancel"
  /\ creating' = TRUE
  /\ UNCHANGED <<pool, workers, creates, requests, stragglers>>

CreateReturns ==
  /\ dialog = "add"
  /\ At("none") = {}
  /\ m_bDestroyed' = FALSE
  /\ dialog' = "idle"
  /\ UNCHANGED <<counters, m_RequestQueue, m_phThreadList, semaphore, workers, creating,
                 creates, requests, stragglers>>

-----------------------------------------------------------------------------
(* PostRequest, NotifyThread *)

\* A thread is available to process a request.
Available == m_usSemaphoreCount < N

\* The requests not yet made.
Fresh == Requests \ (m_RequestList \cup refused \cup deleted)

\* ReleaseSemaphore fails when the count would exceed the maximum.
CanRelease(n) == semaphore + n <= N

\* The dialog posts a new request and keeps it, unless the pool refuses it; then
\* it deletes it, although a request whose notification failed stays queued.
Post(r) ==
  /\ dialog = "idle"
  /\ r \in Fresh
  /\ m_phThreadList # "null"
  /\ m_RequestQueue' = Append(m_RequestQueue, r)
  /\ IF Available /\ CanRelease(1)
     THEN /\ semaphore' = semaphore + 1
          /\ m_usSemaphoreCount' = Up(m_usSemaphoreCount)
          /\ UNCHANGED m_usPendingReqCount
     ELSE /\ m_usPendingReqCount' = Up(m_usPendingReqCount)
          /\ UNCHANGED <<semaphore, m_usSemaphoreCount>>
  /\ IF Available /\ ~ CanRelease(1)
     THEN refused' = refused \cup {r} /\ UNCHANGED m_RequestList
     ELSE m_RequestList' = m_RequestList \cup {r} /\ UNCHANGED refused
  /\ UNCHANGED <<m_bDestroyed, m_lActiveThread, m_phThreadList, workers, caller, deleted,
                 executed, failures, stragglers>>

\* There is no pool: the request is deleted at once.
PostRefused(r) ==
  /\ dialog = "idle"
  /\ r \in Fresh
  /\ m_phThreadList = "null"
  /\ refused' = refused \cup {r}
  /\ UNCHANGED <<pool, workers, caller, m_RequestList, deleted, executed, failures, stragglers>>

-----------------------------------------------------------------------------
(* Destroy, DestroyPool, ClearRequests *)

Destroy ==
  /\ dialog = "idle"
  /\ m_phThreadList # "null"
  /\ dialog' = "cancel"
  /\ creating' = FALSE
  /\ UNCHANGED <<pool, workers, creates, requests, stragglers>>

CancelRequests ==
  /\ dialog = "cancel"
  /\ m_RequestQueue' = <<>>
  /\ dialog' = "flag"
  /\ UNCHANGED <<m_bDestroyed, counters, m_phThreadList, semaphore, workers, creating,
                 creates, requests, stragglers>>

SetDestroyFlag ==
  /\ dialog = "flag"
  /\ m_bDestroyed' = TRUE
  /\ dialog' = "release"
  /\ UNCHANGED <<counters, m_RequestQueue, m_phThreadList, semaphore, workers, creating,
                 creates, requests, stragglers>>

\* One unit for every thread that is not active.  If that is more than the
\* semaphore takes, nothing is released and Destroy returns false.
Surplus == N - m_lActiveThread

Released_OneShort == Surplus - 1
Released == Surplus

Release ==
  /\ dialog = "release"
  /\ IF Surplus <= 0 THEN dialog' = "join" /\ UNCHANGED semaphore
     ELSE IF CanRelease(Released) THEN dialog' = "join" /\ semaphore' = semaphore + Released
     ELSE dialog' = "idle" /\ UNCHANGED semaphore
  /\ stragglers' = IF dialog' = "idle" THEN {}
                   ELSE At("pop") \cup At("execute") \cup At("renotify") \cup At("leave")
  /\ UNCHANGED <<m_bDestroyed, counters, m_RequestQueue, m_phThreadList, workers, creating,
                 creates, requests>>

\* The threads WaitForMultipleObjects waits for are gone.
Joined_One == At("none") = {} /\ At("exit") # {}
Joined == At("exit") = Threads

\* All threads are gone: the pool is cleaned and, if the dialog called Destroy,
\* its requests are deleted.
DestroyPool ==
  /\ dialog = "join"
  /\ Joined
  /\ pc' = [w \in Threads |-> IF pc[w] = "exit" THEN "none" ELSE pc[w]]
  /\ m_phThreadList' = "null"
  /\ m_RequestQueue' = <<>>
  /\ dialog' = "idle"
  /\ deleted' = IF creating THEN deleted ELSE deleted \cup m_RequestList
  /\ m_RequestList' = IF creating THEN m_RequestList ELSE {}
  /\ stragglers' = {}
  /\ UNCHANGED <<m_bDestroyed, counters, semaphore, pRequest, creating, creates, refused,
                 executed, failures>>

\* A handle of the list is not that of a thread: the wait fails at once.
DestroyPoolFails ==
  /\ dialog = "join"
  /\ At("none") # {}
  /\ dialog' = "idle"
  /\ stragglers' = {}
  /\ UNCHANGED <<pool, workers, creating, creates, requests>>

-----------------------------------------------------------------------------
(* ProcessRequests *)

\* m_usSemaphoreCount after a thread has taken a unit.
Counted_Missing == m_usSemaphoreCount
Counted == Down(m_usSemaphoreCount)

\* WaitForRequest: the semaphore, and then, under the lock, the counter.
Wait(w) ==
  /\ pc[w] = "wait"
  /\ semaphore > 0
  /\ semaphore' = semaphore - 1
  /\ Goto(w, "count")
  /\ UNCHANGED <<m_bDestroyed, counters, m_RequestQueue, m_phThreadList, pRequest, caller,
                 requests, stragglers>>

CountDown(w) ==
  /\ pc[w] = "count"
  /\ m_usSemaphoreCount' = Counted
  /\ Goto(w, "enter")
  /\ UNCHANGED <<m_bDestroyed, m_lActiveThread, m_usPendingReqCount, m_RequestQueue,
                 m_phThreadList, semaphore, pRequest, caller, requests, stragglers>>

\* The constructor of AutoCounter.
Enter(w) ==
  /\ pc[w] = "enter"
  /\ m_lActiveThread' = Up(m_lActiveThread)
  /\ Goto(w, "check")
  /\ UNCHANGED <<m_bDestroyed, m_usSemaphoreCount, m_usPendingReqCount, m_RequestQueue,
                 m_phThreadList, semaphore, pRequest, caller, requests, stragglers>>

\* The two tests of IsDestroyed, before and after the request.
Check(w) ==
  /\ pc[w] \in {"check", "check2"}
  /\ Goto(w, IF m_bDestroyed THEN "leave_exit"
             ELSE IF pc[w] = "check" THEN "pop" ELSE "renotify")
  /\ UNCHANGED <<pool, pRequest, caller, requests, stragglers>>

\* list::remove removes every occurrence of the request in front.
Without(q, r) == SelectSeq(q, LAMBDA e : e # r)

Remaining(q) ==
  IF \E k \in 2..Len(q) : q[k] = q[1] THEN Without(q, q[1]) ELSE Tail(q)

\* PopRequest.
Pop(w) ==
  /\ pc[w] = "pop"
  /\ IF m_RequestQueue = <<>>
     THEN /\ Goto(w, "leave")
          /\ UNCHANGED <<m_RequestQueue, pRequest>>
     ELSE /\ pRequest' = [pRequest EXCEPT ![w] = m_RequestQueue[1]]
          /\ m_RequestQueue' = Remaining(m_RequestQueue)
          /\ Goto(w, "execute")
  /\ UNCHANGED <<m_bDestroyed, counters, m_phThreadList, semaphore, caller, requests, stragglers>>

\* The last use of pRequest.  A request that fails ends the round.
Execute(w, ok) ==
  /\ pc[w] = "execute"
  /\ ~ ok => MayFail
  /\ executed' = executed \cup {pRequest[w]}
  /\ failures' = IF ok THEN failures ELSE failures + 1
  /\ pRequest' = [pRequest EXCEPT ![w] = NoRequest]
  /\ Goto(w, IF ok THEN "check2" ELSE "leave")
  /\ UNCHANGED <<pool, caller, m_RequestList, refused, deleted, stragglers>>

\* Whether a pending request is announced.
Pending_Never == FALSE
Pending == m_usPendingReqCount > 0

Renotify(w) ==
  /\ pc[w] = "renotify"
  /\ IF Pending /\ Available /\ CanRelease(1)
     THEN /\ semaphore' = semaphore + 1
          /\ m_usSemaphoreCount' = Up(m_usSemaphoreCount)
          /\ m_usPendingReqCount' = Down(m_usPendingReqCount)
     ELSE UNCHANGED <<semaphore, m_usSemaphoreCount, m_usPendingReqCount>>
  /\ Goto(w, "leave")
  /\ UNCHANGED <<m_bDestroyed, m_lActiveThread, m_RequestQueue, m_phThreadList, pRequest,
                 caller, requests, stragglers>>

\* The destructor of AutoCounter, and the next round or the end of the thread.
Leave(w) ==
  /\ pc[w] \in {"leave", "leave_exit"}
  /\ m_lActiveThread' = Down(m_lActiveThread)
  /\ Goto(w, IF pc[w] = "leave" THEN "wait" ELSE "exit")
  /\ UNCHANGED <<m_bDestroyed, m_usSemaphoreCount, m_usPendingReqCount, m_RequestQueue,
                 m_phThreadList, semaphore, pRequest, caller, requests, stragglers>>

-----------------------------------------------------------------------------
CallStep ==
  \/ \E w \in Threads : AddThread(w)
  \/ AddThreadFails
  \/ CreateReturns
  \/ CancelRequests
  \/ SetDestroyFlag
  \/ Release
  \/ DestroyPool
  \/ DestroyPoolFails

Click ==
  \/ \E ok \in BOOLEAN : Create(ok)
  \/ \E r \in Requests : Post(r) \/ PostRefused(r)
  \/ Destroy

ThreadStep(w) ==
  \/ Wait(w)
  \/ CountDown(w)
  \/ Enter(w)
  \/ Check(w)
  \/ Pop(w)
  \/ \E ok \in BOOLEAN : Execute(w, ok)
  \/ Renotify(w)
  \/ Leave(w)

Next == CallStep \/ Click \/ \E w \in Threads : ThreadStep(w)

Spec == Init /\ [][Next]_vars

\* Threads that can run do, and requests end; nobody has to click.  The system
\* gives the semaphore to every thread that keeps asking for it.
Fairness ==
  /\ WF_vars(CallStep)
  /\ \A w \in Threads : WF_vars(ThreadStep(w))

FairSpec == Spec /\ Fairness

-----------------------------------------------------------------------------
(* Properties *)

TypeOK ==
  /\ m_bDestroyed \in BOOLEAN
  /\ m_usSemaphoreCount \in 0..(Word - 1)
  /\ m_lActiveThread \in 0..N
  /\ m_usPendingReqCount \in 0..Cardinality(Requests)
  /\ m_RequestQueue \in Seq(Requests)
  /\ m_phThreadList \in {"null", "list"}
  /\ semaphore \in 0..N
  /\ pc \in [Threads -> ThreadPcs]
  /\ pRequest \in [Threads -> Requests \cup {NoRequest}]
  /\ dialog \in DialogPcs
  /\ creating \in BOOLEAN
  /\ creates \in 0..MaxCreates
  /\ m_RequestList \subseteq Requests
  /\ refused \subseteq Requests
  /\ deleted \subseteq Requests
  /\ executed \subseteq Requests
  /\ failures \in 0..Cardinality(Requests)
  /\ stragglers \subseteq Threads

\* While the pool serves: no Destroy has begun.
Serving == ~ m_bDestroyed /\ dialog \in {"idle", "add", "cancel"} /\ m_phThreadList # "null"

\* Every queued request is announced or pending: the queue holds one request for
\* each unit of the semaphore, each thread on its way from the semaphore to the
\* queue, and each pending request; and m_usSemaphoreCount is what its comment
\* says, although it is changed later than the semaphore (lines 239-273, 407-419
\* and 435-451).
RequestsAnnounced ==
  /\ TypeOK
  /\ Serving =>
       /\ m_usSemaphoreCount = semaphore + Cardinality(At("count"))
       /\ Len(m_RequestQueue) =
            semaphore + m_usPendingReqCount
              + Cardinality(At("count") \cup At("enter") \cup At("check") \cup At("pop"))

\* No thread executes a request that ClearRequests deleted, and no two threads
\* the same one: the dialog clears its list only when Destroy has seen all threads
\* end (OnBnClickedDestroy, lines 205-221 and 463-497).  Nor is a request that
\* PostRequest refused in the queue or executed, as long as the pool serves.
RequestsAlive ==
  LET Busy == At("execute")
      InUse == {pRequest[w] : w \in Busy} IN
  /\ InUse \cap deleted = {}
  /\ Serving => (InUse \cup {m_RequestQueue[k] : k \in DOMAIN m_RequestQueue}) \cap refused = {}
  /\ Cardinality(InUse) = Cardinality(Busy)

\* A posted request is executed unless the pool is destroyed or as many requests
\* fail as there are threads: each one that succeeds announces a pending one, each
\* one that fails does not, and a request is pending only while every unit of the
\* semaphore is out (lines 250-266 and 391-419).
PostedAreExecuted ==
  \A r \in Requests :
    r \in m_RequestList ~> (r \in executed \/ ~ Serving \/ failures >= N)

\* Destroy returns, unless threads were past their test of the flag when it counted
\* the active ones (lines 205-221): no more than those are then left waiting for a
\* unit of the semaphore, for which Destroy waits in turn.
DestroyReturns ==
  dialog = "join" ~>
    \/ dialog = "idle"
    \/ /\ semaphore = 0
       /\ At("wait") # {}
       /\ At("wait") \cup At("exit") = Threads
       /\ Cardinality(At("wait")) <= Cardinality(stragglers)
============================================================================
