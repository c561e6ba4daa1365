---------------------------- MODULE EpollExample ----------------------------
(***************************************************************************)
(* epoll/epoll-example.c: one thread that accepts every connection, reads  *)
(* every connection until there is nothing left, and copies what it reads  *)
(* to the standard output.  Clients act between any two system calls.      *)
(***************************************************************************)
EXTENDS EpollSockets

CONSTANTS
  BufSize,   \* the most one read returns, in units of data
  MAXEVENTS, \* the size of the array of events
  Faults     \* the calls after whose failure the program aborts

ASSUME BufSizeAssumption == BufSize \in Nat \ {0}

ASSUME EventsAssumption == MAXEVENTS \in Nat \ {0}

ASSUME FaultsAssumption == Faults \subseteq {"boot", "register", "write"}

VARIABLES
  pc,        \* where the program is
  events,    \* the events returned by epoll_wait and not yet handled
  event,     \* the event being handled
  infd,      \* the descriptor just accepted
  shortage,  \* whether accept has failed since the last event of the socket
  written,   \* the data of each connection copied to the standard output
  lost       \* the data of each connection left over by a short write

output == <<written, lost>>
server == <<pc, events, event, infd, shortage, output>>
vars == <<kernel, server>>

\* An event, with the connection it is about.
EventOf(f) ==
  [fd |-> f,
   err |-> f # ListenFd /\ peer[owner[f]] = "reset",
   conn |-> IF f = ListenFd THEN NoConn ELSE owner[f]]

Events == [fd : Watched, err : BOOLEAN, conn : Conns \cup {NoConn}]

NoEvent == [fd |-> ListenFd, err |-> FALSE, conn |-> NoConn]

Init ==
  /\ Kernel_Init
  /\ pc = "boot"
  /\ events = {}
  /\ event = NoEvent
  /\ infd = ListenFd
  /\ shortage = FALSE
  /\ written = [c \in Conns |-> 0]
  /\ lost = [c \in Conns |-> 0]

Abort(call) ==
  /\ call \in Faults
  /\ pc' = "aborted"
  /\ UNCHANGED <<kernel, events, event, infd, shortage, output>>

-----------------------------------------------------------------------------
(* main *)

\* create_and_bind, listen, epoll_create1, epoll_ctl.
Boot ==
  /\ pc = "boot"
  /\ SysListen
  /\ pc' = "wait"
  /\ UNCHANGED <<events, event, infd, shortage, output>>

BootFails == pc = "boot" /\ Abort("boot")

\* As many events as the array holds; the others stay in the ready list.
EpollWait ==
  /\ pc = "wait"
  /\ Reported # {}
  /\ \E fs \in SUBSET Reported :
       /\ fs = Reported \/ Cardinality(fs) = MAXEVENTS
       /\ Cardinality(fs) <= MAXEVENTS
       /\ SysWait(fs)
       /\ events' = {EventOf(f) : f \in fs}
  /\ pc' = "dispatch"
  /\ UNCHANGED <<event, infd, shortage, output>>

\* EPOLLERR or EPOLLHUP is set, which a client that has only ended its side does
\* not cause.
Failed_OnHangup(e) == e.err \/ (e.fd # ListenFd /\ peer[owner[e.fd]] = "shut")
Failed(e) == e.err

\* The events that are left after the continue of line 147.
Rest_Again(e) == events
Rest(e) == events \ {e}

\* The descriptor is closed unread.
HandleError(e) ==
  /\ pc = "dispatch"
  /\ e \in events
  /\ Failed(e)
  /\ SysClose(e.fd)
  /\ events' = Rest(e)
  /\ UNCHANGED <<pc, event, infd, shortage, output>>

HandleListen(e) ==
  /\ pc = "dispatch"
  /\ e \in events
  /\ e.fd = ListenFd
  /\ events' = events \ {e}
  /\ event' = e
  /\ shortage' = FALSE
  /\ pc' = "accept"
  /\ UNCHANGED <<kernel, infd, output>>

HandleData(e) ==
  /\ pc = "dispatch"
  /\ e \in events
  /\ e.fd # ListenFd
  /\ ~ Failed(e)
  /\ events' = events \ {e}
  /\ event' = e
  /\ pc' = "read"
  /\ UNCHANGED <<kernel, infd, shortage, output>>

HandledAll ==
  /\ pc = "dispatch"
  /\ events = {}
  /\ pc' = "wait"
  /\ UNCHANGED <<kernel, events, event, infd, shortage, output>>

-----------------------------------------------------------------------------
(* The loop that accepts. *)

Accept(f) ==
  /\ pc = "accept"
  /\ SysAccept(f)
  /\ infd' = f
  /\ pc' = "register"
  /\ UNCHANGED <<events, event, shortage, output>>

\* There is nothing to accept, or accept fails, for want of a descriptor, of memory
\* or for any other reason: the loop ends.
AcceptEnds ==
  /\ pc = "accept"
  /\ shortage' = (backlog # <<>>)
  /\ pc' = "dispatch"
  /\ UNCHANGED <<kernel, events, event, infd, output>>

\* make_socket_non_blocking and epoll_ctl; then the next connection.
Register ==
  /\ pc = "register"
  /\ SysAdd(infd)
  /\ infd' = ListenFd
  /\ pc' = "accept"
  /\ UNCHANGED <<events, event, shortage, output>>

RegisterFails == pc = "register" /\ Abort("register")

-----------------------------------------------------------------------------
(* The loop that reads. *)

\* Where a read that returned data leads: to the next one.
AfterRead_Done == "dispatch"
AfterRead == "read"

\* As much as the buffer holds is read and written to the standard output.  Only -1
\* is an error: what a short write leaves over is forgotten.
Read ==
  /\ pc = "read"
  /\ LET c == owner[event.fd]
         n == IF input[c] < BufSize THEN input[c] ELSE BufSize IN
     /\ n > 0
     /\ SysRead(c, n)
     /\ \E w \in 0..n :
          /\ written' = [written EXCEPT ![c] = @ + w]
          /\ lost' = [lost EXCEPT ![c] = @ + (n - w)]
  /\ pc' = AfterRead
  /\ UNCHANGED <<events, event, infd, shortage>>

WriteFails == pc = "read" /\ input[owner[event.fd]] > 0 /\ Abort("write")

\* EAGAIN: everything has been read.
ReadAll ==
  /\ pc = "read"
  /\ ~ Readable(owner[event.fd])
  /\ event' = NoEvent
  /\ pc' = "dispatch"
  /\ UNCHANGED <<kernel, events, infd, shortage, output>>

Close_Not(f) == UNCHANGED kernel
Close(f) == SysClose(f)

\* The end of the data, or an error: the connection is closed.
ReadEnds ==
  /\ pc = "read"
  /\ input[owner[event.fd]] = 0
  /\ Readable(owner[event.fd])
  /\ Close(event.fd)
  /\ event' = NoEvent
  /\ pc' = "dispatch"
  /\ UNCHANGED <<events, infd, shortage, output>>

-----------------------------------------------------------------------------
ServerStep ==
  \/ Boot
  \/ BootFails
  \/ EpollWait
  \/ \E e \in events : HandleError(e)
  \/ \E e \in events : HandleListen(e)
  \/ \E e \in events : HandleData(e)
  \/ HandledAll
  \/ \E f \in Fds : Accept(f)
  \/ AcceptEnds
  \/ Register
  \/ RegisterFails
  \/ Read
  \/ WriteFails
  \/ ReadAll
  \/ ReadEnds

\* Clients find the server only while its socket is open.
Running == pc \notin {"boot", "aborted"}

ClientConnects(c) == Running /\ PeerConnects(c) /\ UNCHANGED server
ClientSends(c) == Running /\ PeerSends(c) /\ UNCHANGED server
ClientShuts(c) == Running /\ PeerShuts(c) /\ UNCHANGED server
ClientResets(c) == Running /\ PeerResets(c) /\ UNCHANGED server

ClientStep(c) ==
  \/ ClientConnects(c)
  \/ ClientSends(c)
  \/ ClientShuts(c)
  \/ ClientResets(c)

Next == ServerStep \/ \E c \in Conns : ClientStep(c)

Spec == Init /\ [][Next]_vars

\* The program runs when it can; clients need not do anything.
FairSpec == Spec /\ WF_vars(ServerStep)

-----------------------------------------------------------------------------
(* Properties *)

TypeOK ==
  /\ Kernel_TypeOK
  /\ pc \in {"boot", "wait", "dispatch", "accept", "register", "read", "aborted"}
  /\ events \subseteq Events
  /\ event \in Events
  /\ infd \in Watched
  /\ shortage \in BOOLEAN
  /\ written \in [Conns -> Nat]
  /\ lost \in [Conns -> Nat]
  /\ \A c \in Conns : written[c] + lost[c] + input[c] <= sent[c]

\* The descriptor an event is waiting for, or whose event is being handled.
Pending(f) == (\E e \in events : e.fd = f) \/ (pc = "read" /\ event.fd = f)

\* No edge is lost: a connection that can be read is in the ready list or its
\* event is being dealt with ("We must read whatever data is available completely,
\* as we are running in edge-triggered mode", lines 208-212), and so is the
\* listening socket while connections wait, unless accept has failed
\* while there were some (lines 152-205).
EdgesCover ==
  Running =>
    /\ \A f \in interest \ {ListenFd} :
         Readable(owner[f]) => f \in ready \/ Pending(f)
    /\ backlog # <<>> =>
         \/ ListenFd \in ready
         \/ Pending(ListenFd)
         \/ pc \in {"accept", "register"}
         \/ shortage

\* An event is handled for the connection that raised it: no descriptor is closed,
\* or closed and used for another connection, while an event for it is left in the
\* array (lines 136-148 and 249-257).
EventsFresh ==
  /\ \A e \in events : e.fd # ListenFd => owner[e.fd] = e.conn /\ e.conn # NoConn
  /\ pc = "read" => owner[event.fd] = event.conn /\ event.conn # NoConn

\* Nothing is written that was not sent, and a connection that ends without a reset
\* is closed only when all its data has been read and passed to write, even if the
\* end arrives with the data (lines 215-257): all of it is on the standard output
\* but what short writes, which the code does not look for, have left over.
NothingDropped ==
  TypeOK /\ \A c \in Conns :
    peer[c] = "shut" /\ ~ Attached(c) => written[c] + lost[c] = sent[c]

\* A connection whose client has ended or reset it is closed, unless the program
\* aborts or could not accept it (lines 249-257 and 139-148).
EndedAreClosed ==
  \A c \in Conns :
    peer[c] \in {"shut", "reset"} ~> (~ Attached(c) \/ shortage \/ pc = "aborted")
=============================================================================
