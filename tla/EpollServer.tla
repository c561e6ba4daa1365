---------------------------- MODULE EpollServer ----------------------------
(***************************************************************************)
(* The echo server of epoll/server.c with the clients of epoll/client.c.   *)
(* The server, one thread, accepts one connection for each event of its    *)
(* socket and makes one read and one write for each event of a connection. *)
(* Accepted sockets are blocking.  It counts its descriptors in cur_fds.   *)
(*                                                                         *)
(* A client sends lines and receives echoes as select tells it, and closes *)
(* its socket at "q", at the end of its input or at the end of the         *)
(* server's data.                                                          *)
(***************************************************************************)
EXTENDS EpollSockets

CONSTANTS
  MAXEPOLL,   \* the limit on descriptors, set with setrlimit
  MAXLINE,    \* the most one read returns, in units of data
  Faults      \* whether system calls may fail for reasons outside the model

\* The standard streams, the listening socket and the epoll instance.
Reserved == 5

ASSUME LimitAssumption ==
  MAXEPOLL \in Nat /\ MAXLINE \in Nat \ {0} /\ Cardinality(Fds) = MAXEPOLL - Reserved

ASSUME FaultsAssumption == Faults \in BOOLEAN

VARIABLES
  pc,         \* where the server is
  evs,        \* the descriptors returned by epoll_wait and not yet handled
  fd,         \* the one being handled
  nread,      \* what read has returned
  cur_fds,
  \* the clients
  echo,       \* echoes that have arrived and are unread
  got         \* echoes written to the standard output

server  == <<pc, evs, fd, nread, cur_fds>>
clients == <<echo, got>>
vars == <<kernel, server, clients>>

Init ==
  /\ Kernel_Init
  /\ pc = "boot"
  /\ evs = {}
  /\ fd = ListenFd
  /\ nread = 0
  /\ cur_fds = 0
  /\ echo = [c \in Conns |-> 0]
  /\ got = [c \in Conns |-> 0]

-----------------------------------------------------------------------------
(* The server *)

\* exit, or death by a signal: all its sockets are closed.
ServerEnds ==
  /\ pc' = "exited"
  /\ evs' = {}
  /\ owner' = [f \in Fds |-> NoConn]
  /\ backlog' = <<>>
  /\ interest' = {}
  /\ ready' = {}
  /\ UNCHANGED <<peer, input, sent, fd, nread, cur_fds, clients>>

Boot ==
  /\ pc = "boot"
  /\ SysListen
  /\ cur_fds' = 1
  /\ pc' = "wait"
  /\ UNCHANGED <<evs, fd, nread, clients>>

BootFails == pc = "boot" /\ Faults /\ ServerEnds

\* How many events are asked for.
Asked_Short == cur_fds - 1
Asked == cur_fds

EpollWait ==
  /\ pc = "wait"
  /\ Reported # {}
  /\ \E fs \in SUBSET Reported :
       /\ fs = Reported \/ Cardinality(fs) = Asked
       /\ Cardinality(fs) <= Asked
       /\ SysWait(fs)
       /\ evs' = fs
  /\ pc' = "dispatch"
  /\ UNCHANGED <<fd, nread, cur_fds, clients>>

WaitFails == pc = "wait" /\ Faults /\ ServerEnds

HandledAll ==
  /\ pc = "dispatch"
  /\ evs = {}
  /\ pc' = "wait"
  /\ UNCHANGED <<kernel, evs, fd, nread, cur_fds, clients>>

Accept(f) ==
  /\ pc = "dispatch"
  /\ ListenFd \in evs
  /\ cur_fds < MAXEPOLL
  /\ SysAccept(f)
  /\ evs' = evs \ {ListenFd}
  /\ fd' = f
  /\ pc' = "register"
  /\ UNCHANGED <<nread, cur_fds, clients>>

\* accept fails: the server exits.
AcceptFails ==
  /\ pc = "dispatch"
  /\ ListenFd \in evs
  /\ cur_fds < MAXEPOLL
  /\ backlog = <<>> \/ Free = {} \/ Faults
  /\ ServerEnds

Register ==
  /\ pc = "register"
  /\ SysAdd(fd)
  /\ cur_fds' = cur_fds + 1
  /\ fd' = ListenFd
  /\ pc' = "dispatch"
  /\ UNCHANGED <<evs, nread, clients>>

RegisterFails == pc = "register" /\ Faults /\ ServerEnds

\* Every event but an acceptance is for read; on the listening socket it fails.
ToRead(f) == f # ListenFd \/ cur_fds >= MAXEPOLL

Failing_OnError(f) == f = ListenFd \/ peer[owner[f]] = "reset"
Failing(f) == f = ListenFd \/ (input[owner[f]] = 0 /\ Readable(owner[f]))

\* cur_fds after a close.
Closed_Uncounted == cur_fds
Closed == cur_fds - 1

\* The end of the data, or an error.  The descriptor is closed first; taking it
\* off the epoll instance then fails, and is not needed.
ReadEnds(f) ==
  /\ pc = "dispatch"
  /\ f \in evs
  /\ ToRead(f)
  /\ Failing(f)
  /\ SysClose(f)
  /\ cur_fds' = Closed
  /\ evs' = evs \ {f}
  /\ UNCHANGED <<pc, fd, nread, clients>>

\* One read.  With nothing to read it would block.
Read(f) ==
  /\ pc = "dispatch"
  /\ f \in evs
  /\ ToRead(f)
  /\ f # ListenFd
  /\ input[owner[f]] > 0
  /\ LET c == owner[f]
         n == IF input[c] < MAXLINE THEN input[c] ELSE MAXLINE IN
     /\ SysRead(c, n)
     /\ nread' = n
     /\ evs' = evs \ {f}
  /\ fd' = f
  /\ pc' = "write"
  /\ UNCHANGED <<cur_fds, clients>>

\* The events left to handle when one is done.
Remaining_Again == evs \cup {fd}
Remaining == evs

Written ==
  /\ nread' = 0
  /\ fd' = ListenFd
  /\ pc' = "dispatch"
  /\ evs' = Remaining
  /\ UNCHANGED cur_fds

\* To a client that is there.
Write ==
  /\ pc = "write"
  /\ peer[owner[fd]] = "open"
  /\ echo' = [echo EXCEPT ![owner[fd]] = @ + nread]
  /\ Written
  /\ UNCHANGED <<kernel, got>>

\* To a client that has closed its socket, which answers with a reset.
WriteToClosed ==
  /\ pc = "write"
  /\ peer[owner[fd]] = "shut"
  /\ PeerResets(owner[fd])
  /\ Written
  /\ UNCHANGED clients

\* After a reset write fails, which the server ignores,
WriteToReset ==
  /\ pc = "write"
  /\ peer[owner[fd]] = "reset"
  /\ Written
  /\ UNCHANGED <<kernel, clients>>

\* or raises SIGPIPE, which ends it.
WriteKills ==
  /\ pc = "write"
  /\ peer[owner[fd]] = "reset"
  /\ ServerEnds

-----------------------------------------------------------------------------
(* The clients *)

ClientConnects(c) ==
  /\ pc \notin {"boot", "exited"}
  /\ PeerConnects(c)
  /\ UNCHANGED <<server, clients>>

\* A line of the standard input.
ClientSends(c) ==
  /\ PeerSends(c)
  /\ UNCHANGED <<server, clients>>

ClientReceives(c) ==
  /\ peer[c] = "open"
  /\ echo[c] > 0
  /\ LET n == IF echo[c] < MAXLINE THEN echo[c] ELSE MAXLINE IN
     /\ echo' = [echo EXCEPT ![c] = @ - n]
     /\ got' = [got EXCEPT ![c] = @ + n]
  /\ UNCHANGED <<kernel, server>>

\* "q", the end of the input, or the end of the server's data: the socket is
\* closed, with a reset if there is something unread.
ClientEnds(c) ==
  /\ IF echo[c] > 0 THEN PeerResets(c) /\ peer[c] = "open" ELSE PeerShuts(c)
  /\ UNCHANGED <<server, clients>>

-----------------------------------------------------------------------------
ServerStep ==
  \/ Boot
  \/ BootFails
  \/ EpollWait
  \/ WaitFails
  \/ HandledAll
  \/ \E f \in Fds : Accept(f)
  \/ AcceptFails
  \/ Register
  \/ RegisterFails
  \/ \E f \in evs : ReadEnds(f)
  \/ \E f \in evs : Read(f)
  \/ Write
  \/ WriteToClosed
  \/ WriteToReset
  \/ WriteKills

ClientStep(c) ==
  \/ ClientConnects(c)
  \/ ClientSends(c)
  \/ ClientReceives(c)
  \/ ClientEnds(c)

Next == ServerStep \/ \E c \in Conns : ClientStep(c)

Spec == Init /\ [][Next]_vars

\* The server runs when it can and clients read what arrives; nobody has to type.
FairSpec ==
  /\ Spec
  /\ WF_vars(ServerStep)
  /\ \A c \in Conns : WF_vars(ClientReceives(c))

-----------------------------------------------------------------------------
(* Properties *)

TypeOK ==
  /\ Kernel_TypeOK
  /\ pc \in {"boot", "wait", "dispatch", "register", "write", "exited"}
  /\ evs \subseteq Watched
  /\ fd \in Watched
  /\ nread \in 0..MAXLINE
  /\ cur_fds \in 0..MAXEPOLL
  /\ echo \in [Conns -> Nat]
  /\ got \in [Conns -> Nat]
  /\ \A c \in Conns : echo[c] + got[c] <= sent[c]

Serving == pc \notin {"boot", "exited"}

\* cur_fds, the number of events asked for, is the number of watched descriptors,
\* so that no event is left behind; and the limit on descriptors keeps it below
\* MAXEPOLL, so that the listening socket is never read and closed (lines 105-147).
CurFdsExact ==
  /\ TypeOK
  /\ Serving =>
       /\ cur_fds = Cardinality(interest)
       /\ ListenFd \in interest
       /\ ListenFd \in evs => cur_fds < MAXEPOLL

\* The server never blocks in read: what an event announced is still there when
\* the event is handled, although accepted sockets are blocking (lines 120-142).
NeverBlocks ==
  pc \in {"dispatch", "register", "write"} =>
    \A f \in evs \ {ListenFd} : owner[f] # NoConn /\ Readable(owner[f])

\* The descriptor of a client that has gone is closed in the end, also when its
\* end arrives together with data, of which the one read sees only the data: the
\* echo provokes a reset, and that another event (lines 141-150).
GoneAreClosed ==
  \A c \in Conns :
    peer[c] \in {"shut", "reset"} /\ Accepted(c) ~> ~ Accepted(c)

\* One accept and one read for each event are enough for a client that is alone and
\* sends no more than a line: whenever an arrival is reported the oldest waiting
\* connection is accepted, and the echo of a line is complete (lines 105-150).  A
\* second connection behind one edge, and what exceeds the buffer, may stay.
AloneIsServed ==
  \A c \in Conns :
    /\ backlog # <<>> /\ Head(backlog) = c /\ ListenFd \in ready
         ~> (pc = "exited" \/ backlog = <<>> \/ Head(backlog) # c)
    /\ Accepted(c) /\ sent[c] > 0
         ~> (got[c] = sent[c] \/ peer[c] # "open" \/ ~ Accepted(c) \/ sent[c] > MAXLINE)
=============================================================================
