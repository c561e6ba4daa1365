---------------------------- MODULE EpollSockets ----------------------------
(***************************************************************************)
(* The kernel's side of the epoll programs of this repository, as they use *)
(* it: a listening socket with its queue of connections, the descriptors   *)
(* of accepted ones, and an epoll instance on which all are registered     *)
(* edge-triggered for input.                                               *)
(*                                                                         *)
(* An edge-triggered descriptor enters the ready list when something       *)
(* happens to it, or when it is added while it can be read, and leaves it  *)
(* with the next epoll_wait, which reports it if it can still be read.     *)
(***************************************************************************)
EXTENDS Integers, Sequences, FiniteSets

CONSTANTS
  Conns,      \* the connections clients make
  Fds,        \* the descriptors the process has left for them
  ListenFd,   \* the descriptor of the listening socket
  NoConn,     \* no connection
  MaxSent     \* how much each client sends at most, in units of data

ASSUME ConnsAssumption == IsFiniteSet(Conns) /\ NoConn \notin Conns

ASSUME FdsAssumption == IsFiniteSet(Fds) /\ Fds # {} /\ ListenFd \notin Fds

ASSUME MaxSentAssumption == MaxSent \in [Conns -> Nat]

VARIABLES
  backlog,    \* connections not yet accepted, oldest first
  owner,      \* the connection behind each descriptor
  interest,   \* the descriptors added to the epoll instance
  ready,      \* its ready list
  peer,       \* the other end: "none" before it connects, then "open", and
              \* "shut" when its end of file, "reset" when its reset has arrived
  input,      \* the data of each connection the server has not read
  sent        \* the data each client has sent

table  == <<backlog, owner, interest, ready>>
kernel == <<table, peer, input, sent>>

Watched == Fds \cup {ListenFd}

Kernel_Init ==
  /\ backlog = <<>>
  /\ owner = [f \in Fds |-> NoConn]
  /\ interest = {}
  /\ ready = {}
  /\ peer = [c \in Conns |-> "none"]
  /\ input = [c \in Conns |-> 0]
  /\ sent = [c \in Conns |-> 0]

Kernel_TypeOK ==
  /\ backlog \in Seq(Conns)
  /\ owner \in [Fds -> Conns \cup {NoConn}]
  /\ interest \subseteq Watched
  /\ ready \subseteq interest
  /\ peer \in [Conns -> {"none", "open", "shut", "reset"}]
  /\ input \in [Conns -> Nat]
  /\ sent \in [Conns -> Nat]
  /\ \A c \in Conns : input[c] <= sent[c] /\ sent[c] <= MaxSent[c]

Free == {f \in Fds : owner[f] = NoConn}

Readable(c) == input[c] > 0 \/ peer[c] \in {"shut", "reset"}

Pollable(f) == IF f = ListenFd THEN backlog # <<>> ELSE Readable(owner[f])

\* What epoll_wait finds.
Reported == {f \in ready : Pollable(f)}

\* The descriptor of a connection, if it is accepted and watched.
Edge(c) == {f \in interest \ {ListenFd} : owner[f] = c}

Accepted(c) == \E f \in Fds : owner[f] = c

\* The server has not closed its end.
Attached(c) == Accepted(c) \/ \E k \in DOMAIN backlog : backlog[k] = c

-----------------------------------------------------------------------------
(* What clients do, as the server's kernel sees it. *)

PeerConnects(c) ==
  /\ peer[c] = "none"
  /\ peer' = [peer EXCEPT ![c] = "open"]
  /\ backlog' = Append(backlog, c)
  /\ ready' = ready \cup (interest \cap {ListenFd})
  /\ UNCHANGED <<owner, interest, input, sent>>

PeerSends(c) ==
  /\ peer[c] = "open"
  /\ Attached(c)
  /\ sent[c] < MaxSent[c]
  /\ input' = [input EXCEPT ![c] = @ + 1]
  /\ sent' = [sent EXCEPT ![c] = @ + 1]
  /\ ready' = ready \cup Edge(c)
  /\ UNCHANGED <<backlog, owner, interest, peer>>

\* The end of the client's data.
PeerShuts(c) ==
  /\ peer[c] = "open"
  /\ peer' = [peer EXCEPT ![c] = "shut"]
  /\ ready' = ready \cup Edge(c)
  /\ UNCHANGED <<backlog, owner, interest, input, sent>>

\* A reset discards what has not been read.
PeerResets(c) ==
  /\ peer[c] \in {"open", "shut"}
  /\ peer' = [peer EXCEPT ![c] = "reset"]
  /\ input' = [input EXCEPT ![c] = 0]
  /\ ready' = ready \cup Edge(c)
  /\ UNCHANGED <<backlog, owner, interest, sent>>

-----------------------------------------------------------------------------
(* System calls of the server. *)

\* The socket listens and is added to the epoll instance.
SysListen ==
  /\ interest' = {ListenFd}
  /\ ready' = IF backlog = <<>> THEN {} ELSE {ListenFd}
  /\ UNCHANGED <<backlog, owner, peer, input, sent>>

SysAccept(f) ==
  /\ backlog # <<>>
  /\ f \in Free
  /\ owner' = [owner EXCEPT ![f] = Head(backlog)]
  /\ backlog' = Tail(backlog)
  /\ UNCHANGED <<interest, ready, peer, input, sent>>

SysAdd(f) ==
  /\ interest' = interest \cup {f}
  /\ ready' = IF Pollable(f) THEN ready \cup {f} ELSE ready
  /\ UNCHANGED <<backlog, owner, peer, input, sent>>

\* Closing a descriptor takes it off the epoll instance.
SysClose(f) ==
  /\ owner' = [g \in Fds |-> IF g = f THEN NoConn ELSE owner[g]]
  /\ interest' = interest \ {f}
  /\ ready' = ready \ {f}
  /\ UNCHANGED <<backlog, peer, input, sent>>

\* epoll_wait reports the descriptors in fs and keeps the others.
SysWait(fs) ==
  /\ ready' = Reported \ fs
  /\ UNCHANGED <<backlog, owner, interest, peer, input, sent>>

SysRead(c, n) ==
  /\ input' = [input EXCEPT ![c] = @ - n]
  /\ UNCHANGED <<table, peer, sent>>
=============================================================================
