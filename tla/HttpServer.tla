----------------------------- MODULE HttpServer -----------------------------
(***************************************************************************)
(* epoll/epoll_threadpool.c: main starts one thread that runs epoll_loop,  *)
(* then makes the socket and the epoll instance the thread uses, and       *)
(* sleeps.  The thread accepts connections, answers each request and       *)
(* closes the connection.  It reads a request from events[n], the slot     *)
(* after the last event, while it answers and closes events[i]: what       *)
(* events[n] holds is left from an earlier, longer batch, or 0.            *)
(***************************************************************************)
EXTENDS EpollSockets

CONSTANTS
  Stdin,     \* descriptor 0, which the slots of the array hold at first
  BufSize    \* sizeof(recvBuf), in units of data

ASSUME StdinAssumption == Stdin \notin Watched

ASSUME BufSizeAssumption == BufSize \in Nat \ {0}

ASSUME NumbersAssumption == Fds \subseteq Nat

VARIABLES
  main,      \* how far main is
  pc,        \* where epoll_loop is
  n,         \* the result of epoll_wait
  i,         \* the event being handled
  events,    \* the array, with the connection each event was about
  infd,      \* event.data.fd
  ret,       \* the outcome of the last recv
  \* history
  answered,  \* the connections that were sent the page
  robbed     \* the connections whose data was read for another

server == <<main, pc, n, i, events, infd, ret, answered, robbed>>
vars == <<kernel, server>>

Slots == 0..Cardinality(Watched)

NoEvent == [fd |-> Stdin, conn |-> NoConn]

EventOf(f) == [fd |-> f, conn |-> IF f = ListenFd THEN NoConn ELSE owner[f]]

Init ==
  /\ Kernel_Init
  /\ main = "socket"
  /\ pc = "wait"
  /\ n = 0
  /\ i = 0
  /\ events = [k \in Slots |-> NoEvent]
  /\ infd = Stdin
  /\ ret = "none"
  /\ answered = {}
  /\ robbed = {}

-----------------------------------------------------------------------------
(* main *)

\* socket, bind, listen: clients can connect.
Listen ==
  /\ main = "socket"
  /\ main' = "epoll_create"
  /\ UNCHANGED <<kernel, pc, n, i, events, infd, ret, answered, robbed>>

EpollCreate ==
  /\ main = "epoll_create"
  /\ main' = "epoll_ctl"
  /\ UNCHANGED <<kernel, pc, n, i, events, infd, ret, answered, robbed>>

AddListener ==
  /\ main = "epoll_ctl"
  /\ SysListen
  /\ main' = "sleep"
  /\ UNCHANGED <<pc, n, i, events, infd, ret, answered, robbed>>

\* on_sigint: the process ends and its descriptors are closed.
Interrupt ==
  /\ main = "sleep"
  /\ main' = "exit"
  /\ backlog' = <<>>
  /\ owner' = [f \in Fds |-> NoConn]
  /\ interest' = {}
  /\ ready' = {}
  /\ pc' = "exit"
  /\ n' = 0
  /\ i' = 0
  /\ events' = [k \in Slots |-> NoEvent]
  /\ infd' = Stdin
  /\ ret' = "none"
  /\ UNCHANGED <<peer, input, sent, answered, robbed>>

-----------------------------------------------------------------------------
(* epoll_loop *)

\* The thread is started before the epoll instance exists: epfd is 0, the call
\* fails and is repeated.
EpollWaitFails ==
  /\ pc = "wait"
  /\ main \in {"socket", "epoll_create"}
  /\ n' = -1
  /\ UNCHANGED <<kernel, main, pc, i, events, infd, ret, answered, robbed>>

\* The events, in the order of the ready list, overwrite the first slots; what
\* the others hold remains.
Filled(batch) ==
  [k \in Slots |-> IF k \in DOMAIN batch THEN EventOf(batch[k]) ELSE events[k]]

\* Where an event is handled; all but those of the socket have EPOLLIN set.
Handler(e) == IF e.fd = ListenFd THEN "accept" ELSE "recv"

EpollWait ==
  /\ pc = "wait"
  /\ Reported # {}
  /\ SysWait(Reported)
  /\ \E batch \in [0..(Cardinality(Reported) - 1) -> Reported] :
       /\ \A f \in Reported : \E k \in DOMAIN batch : batch[k] = f
       /\ events' = Filled(batch)
       /\ pc' = Handler(EventOf(batch[0]))
  /\ n' = Cardinality(Reported)
  /\ i' = 0
  /\ UNCHANGED <<main, infd, ret, answered, robbed>>

\* The loop goes on to the next event, or back to epoll_wait.
NextEvent_BeforeLast ==
  /\ i' = i + 1
  /\ pc' = IF i + 1 < n - 1 THEN Handler(events[i + 1]) ELSE "wait"

NextEvent ==
  /\ i' = i + 1
  /\ pc' = IF i + 1 < n THEN Handler(events[i + 1]) ELSE "wait"

\* accept returns the lowest descriptor that is free.
Accept ==
  /\ pc = "accept"
  /\ \E f \in Free :
       /\ \A g \in Free : f <= g
       /\ SysAccept(f)
       /\ infd' = f
  /\ pc' = "register"
  /\ UNCHANGED <<main, n, i, events, ret, answered, robbed>>

Register ==
  /\ pc = "register"
  /\ SysAdd(infd)
  /\ pc' = "accept"
  /\ UNCHANGED <<main, n, i, events, infd, ret, answered, robbed>>

\* EAGAIN ends the loop.
AcceptedAll ==
  /\ pc = "accept"
  /\ backlog = <<>>
  /\ Free # {}
  /\ NextEvent
  /\ infd' = -1
  /\ UNCHANGED <<kernel, main, n, events, ret, answered, robbed>>

\* No other error does: without a free descriptor accept fails with EMFILE, even
\* if there is nothing to accept, and is called again at once.
AcceptFails ==
  /\ pc = "accept"
  /\ Free = {}
  /\ UNCHANGED vars

\* The connection behind the descriptor that recv reads, if it is open.
Source == IF events[n].fd \in Fds THEN owner[events[n].fd] ELSE NoConn

\* A full buffer is followed by another recv.
Recv ==
  /\ pc = "recv"
  /\ Source # NoConn
  /\ LET size == IF input[Source] < BufSize THEN input[Source] ELSE BufSize IN
     /\ size > 0
     /\ SysRead(Source, size)
     /\ pc' = IF size = BufSize THEN "recv" ELSE "reply"
  /\ ret' = "data"
  /\ robbed' = IF Source = events[i].conn THEN robbed ELSE robbed \cup {Source}
  /\ UNCHANGED <<main, n, i, events, infd, answered>>

\* EAGAIN, or the end of the data.
RecvNothing ==
  /\ pc = "recv"
  /\ Source # NoConn
  /\ input[Source] = 0
  /\ peer[Source] # "reset"
  /\ ret' = "nothing"
  /\ pc' = "reply"
  /\ UNCHANGED <<kernel, main, n, i, events, infd, answered, robbed>>

\* The descriptor is closed, not a connection, or its connection was reset.
RecvError ==
  /\ pc = "recv"
  /\ Source # NoConn => peer[Source] = "reset"
  /\ SysClose(events[i].fd)
  /\ ret' = "error"
  /\ pc' = "reply"
  /\ UNCHANGED <<main, n, i, events, infd, answered, robbed>>

\* The descriptor that is closed.
ReplyFd_OfRecv == events[n].fd
ReplyFd == events[i].fd

\* send if something was read, then close, a second time after an error.
Reply ==
  /\ pc = "reply"
  /\ answered' = IF ret = "data" THEN answered \cup {events[i].conn} ELSE answered
  /\ SysClose(ReplyFd)
  /\ NextEvent
  /\ ret' = "none"
  /\ UNCHANGED <<main, n, events, infd, robbed>>

-----------------------------------------------------------------------------
MainStep == Listen \/ EpollCreate \/ AddListener

ServerStep ==
  \/ EpollWaitFails
  \/ EpollWait
  \/ Accept
  \/ Register
  \/ AcceptedAll
  \/ AcceptFails
  \/ Recv
  \/ RecvNothing
  \/ RecvError
  \/ Reply

Listening == main \notin {"socket", "exit"}

ClientConnects(c) == Listening /\ PeerConnects(c) /\ UNCHANGED server
ClientSends(c) == Listening /\ PeerSends(c) /\ UNCHANGED server
ClientShuts(c) == Listening /\ PeerShuts(c) /\ UNCHANGED server
ClientResets(c) == Listening /\ PeerResets(c) /\ UNCHANGED server

ClientStep(c) ==
  ClientConnects(c) \/ ClientSends(c) \/ ClientShuts(c) \/ ClientResets(c)

Next == MainStep \/ Interrupt \/ ServerStep \/ \E c \in Conns : ClientStep(c)

Spec == Init /\ [][Next]_vars

FairSpec == Spec /\ WF_vars(MainStep) /\ WF_vars(ServerStep)

-----------------------------------------------------------------------------
(* Properties *)

TypeOK ==
  /\ Kernel_TypeOK
  /\ main \in {"socket", "epoll_create", "epoll_ctl", "sleep", "exit"}
  /\ pc \in {"wait", "accept", "register", "recv", "reply", "exit"}
  /\ n \in -1..Cardinality(Watched)
  /\ i \in 0..Cardinality(Watched)
  /\ events \in [Slots -> [fd : Watched \cup {Stdin}, conn : Conns \cup {NoConn}]]
  /\ infd \in Fds \cup {Stdin, -1}
  /\ ret \in {"none", "data", "nothing", "error"}
  /\ answered \subseteq Conns
  /\ robbed \subseteq Conns

Busy == pc \in {"accept", "register", "recv", "reply"}

\* The slots with events still to be handled.
Unhandled == IF Busy THEN i..(n - 1) ELSE {}

\* An event is handled for the connection that raised it: accept may give a
\* descriptor closed earlier in the batch to another connection, but never one
\* that a later event is about.  And the connection a stale slot was about is
\* always closed, so what recv finds there (line 296) is an error or a connection
\* that was accepted later on the same descriptor.
SlotsInv ==
  /\ TypeOK
  /\ \A k \in Slots :
       LET e == events[k] IN
       e.conn # NoConn /\ ~ (k = i /\ pc = "reply") /\ pc # "exit" =>
         IF k \in Unhandled THEN owner[e.fd] = e.conn ELSE ~ Attached(e.conn)

\* The loop that accepts holds the thread for good: the thread that would close a
\* descriptor waits for one to be free.
Stuck == pc = "accept" /\ Free = {}

\* A connection is closed once its request or its end has arrived (line 360), unless
\* the server has all its descriptors in use when it calls accept, or has read the
\* request in place of another connection's.
RequestsAreClosed ==
  \A c \in Conns :
    Readable(c) ~> (~ Attached(c) \/ c \in robbed \/ Stuck)
=============================================================================
