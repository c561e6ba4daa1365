------------------------- MODULE EpollServer_proofs -------------------------
(***************************************************************************)
(* Proofs about the echo server of EpollServer: cur_fds is the number of   *)
(* watched descriptors and stays below MAXEPOLL, and no read blocks, for   *)
(* any number of clients and descriptors and any limit on the data.        *)
(***************************************************************************)
EXTENDS EpollServer, FiniteSetTheorems, SequenceTheorems, TLAPS

\* The descriptors: those that stand for a connection are watched, but for the one
\* just accepted; cur_fds counts the watched ones; the events are about watched
\* ones, and no longer about the one in hand.
FdsInv ==
  /\ Serving => ListenFd \in interest /\ cur_fds = Cardinality(interest)
  /\ ~ Serving => interest = {}
  /\ \A f \in Fds : owner[f] # NoConn <=> f \in interest \/ (pc = "register" /\ f = fd)
  /\ pc \in {"register", "write"} => fd \in Fds
  /\ pc = "register" => fd \notin interest
  /\ pc = "write" => fd \in interest \ evs
  /\ evs \subseteq interest
  /\ pc = "wait" => evs = {}

\* A connection is in one place, the queue or one descriptor, and nowhere before it
\* is made.
PlaceInv ==
  /\ \A f, g \in Fds : owner[f] = owner[g] /\ owner[f] # NoConn => f = g
  /\ \A i, k \in DOMAIN backlog : backlog[i] = backlog[k] => i = k
  /\ \A f \in Fds, k \in DOMAIN backlog : owner[f] # backlog[k]
  /\ \A f \in Fds : owner[f] # NoConn => peer[owner[f]] # "none"
  /\ \A k \in DOMAIN backlog : peer[backlog[k]] # "none"

\* What the server has read from a connection and not yet echoed.
InHand(c) == IF pc = "write" /\ owner[fd] = c THEN nread ELSE 0

\* No echo is made up.
EchoInv == \A c \in Conns : echo[c] + got[c] + input[c] + InHand(c) <= sent[c]

ServerInv == TypeOK /\ FdsInv /\ PlaceInv /\ EchoInv /\ NeverBlocks

-----------------------------------------------------------------------------
(* Descriptors and the limit on them. *)

\* The watched descriptors are fewer than MAXEPOLL: setrlimit has left room for the
\* standard streams and the epoll instance.
LEMMA BelowLimit ==
  ASSUME NEW S, S \subseteq Watched
  PROVE  IsFiniteSet(S) /\ Cardinality(S) \in Nat /\ Cardinality(S) < MAXEPOLL
<1>1. IsFiniteSet(Fds) /\ ListenFd \notin Fds /\ MAXEPOLL \in Nat /\ Cardinality(Fds) = MAXEPOLL - 5
  BY FdsAssumption, LimitAssumption DEF Reserved
<1>2. IsFiniteSet(Watched) /\ Cardinality(Watched) = Cardinality(Fds) + 1
  BY <1>1, FS_AddElement DEF Watched
<1>3. IsFiniteSet(S) /\ Cardinality(S) <= Cardinality(Watched)
  BY <1>2, FS_Subset
<1>4. Cardinality(S) \in Nat
  BY <1>3, FS_CardinalityType
<1>. QED  BY <1>1, <1>2, <1>3, <1>4

\* A server that serves has room for one more descriptor, so that an event of the
\* listening socket is always answered by accept.
LEMMA ServerRoom ==
  TypeOK /\ FdsInv /\ Serving => cur_fds \in Nat /\ cur_fds < MAXEPOLL
<1>. SUFFICES ASSUME TypeOK, FdsInv, Serving  PROVE cur_fds \in Nat /\ cur_fds < MAXEPOLL
  OBVIOUS
<1>1. PICK S : S = interest
  OBVIOUS
<1>2. S \subseteq Watched /\ cur_fds = Cardinality(S)
  BY <1>1 DEF TypeOK, Kernel_TypeOK, FdsInv
<1>. QED  BY <1>2, BelowLimit

\* The descriptor of an event that is read stands for a connection.
LEMMA EventFd ==
  ServerInv /\ pc = "dispatch" =>
    \A f \in evs : ToRead(f) => f \in Fds /\ f \in interest /\ owner[f] \in Conns
<1>. SUFFICES ASSUME ServerInv, pc = "dispatch", NEW f \in evs, ToRead(f)
              PROVE  f \in Fds /\ f \in interest /\ owner[f] \in Conns
  OBVIOUS
<1>1. cur_fds \in Nat /\ cur_fds < MAXEPOLL /\ MAXEPOLL \in Nat
  BY ServerRoom, LimitAssumption DEF ServerInv, Serving
<1>2. f # ListenFd
  BY <1>1 DEF ToRead
<1>3. f \in interest /\ f \in Fds
  BY <1>2 DEF ServerInv, TypeOK, Kernel_TypeOK, FdsInv, Watched
<1>. QED  BY <1>3 DEF ServerInv, TypeOK, Kernel_TypeOK, FdsInv

\* So does the one that is written to.
LEMMA WrittenFd ==
  ServerInv /\ pc = "write" => fd \in Fds /\ fd \in interest \ evs /\ owner[fd] \in Conns
BY DEF ServerInv, TypeOK, Kernel_TypeOK, FdsInv

\* The effect of accept on the queue.
LEMMA AcceptEffect ==
  ASSUME ServerInv, NEW f \in Fds, Accept(f)
  PROVE  /\ backlog[1] \in Conns /\ 1 \in DOMAIN backlog /\ owner[f] = NoConn
         /\ owner' = [owner EXCEPT ![f] = backlog[1]]
         /\ backlog' \in Seq(Conns)
         /\ \A k \in DOMAIN backlog' : k + 1 \in DOMAIN backlog /\ backlog'[k] = backlog[k + 1]
         /\ \A k \in DOMAIN backlog' : k + 1 # 1 /\ k \in Int
<1>1. backlog \in Seq(Conns) /\ backlog # <<>>
  BY DEF ServerInv, TypeOK, Kernel_TypeOK, Accept, SysAccept
<1>2. backlog' = Tail(backlog) /\ owner' = [owner EXCEPT ![f] = Head(backlog)] /\ owner[f] = NoConn
  BY DEF Accept, SysAccept, Free
<1>3. Len(backlog) \in Nat \ {0} /\ Head(backlog) = backlog[1] /\ backlog[1] \in Conns
  BY <1>1
<1>4. /\ backlog' \in Seq(Conns) /\ DOMAIN backlog' = 1..(Len(backlog) - 1)
      /\ \A k \in 1..(Len(backlog) - 1) : backlog'[k] = backlog[k + 1]
  BY <1>1, <1>2, HeadTailProperties
<1>. QED  BY <1>1, <1>2, <1>3, <1>4

-----------------------------------------------------------------------------
(* Each part of the invariant is preserved. *)

\* The descriptors and their number.
LEMMA FdsPreserved == ServerInv /\ [Next]_vars => FdsInv'
<1>. SUFFICES ASSUME ServerInv, [Next]_vars  PROVE FdsInv'
  OBVIOUS
<1>. USE ConnsAssumption, FdsAssumption DEF Serving
<1>t. TypeOK /\ Kernel_TypeOK /\ FdsInv
  BY DEF ServerInv, TypeOK
<1>k. interest \subseteq Watched /\ ready \subseteq interest /\ owner \in [Fds -> Conns \cup {NoConn}]
  BY <1>t DEF Kernel_TypeOK
<1>1. ASSUME UNCHANGED <<owner, interest, pc, evs, fd, cur_fds>>  PROVE FdsInv'
  BY <1>t, <1>1 DEF FdsInv
<1>2. CASE Boot
  <2>1. interest' = {ListenFd} /\ cur_fds' = 1 /\ pc' = "wait" /\ UNCHANGED <<owner, evs, fd>>
        /\ pc = "boot"
    BY <1>2 DEF Boot, SysListen
  <2>2. interest = {} /\ evs = {} /\ \A f \in Fds : owner[f] = NoConn
    BY <1>t, <2>1 DEF FdsInv
  <2>3. Cardinality(interest') = 1
    BY <2>1, FS_Singleton
  <2>. QED  BY <2>1, <2>2, <2>3 DEF FdsInv
<1>3. CASE ServerEnds
  BY <1>3 DEF ServerEnds, FdsInv
<1>4. CASE EpollWait
  <2>1. /\ pc = "wait" /\ pc' = "dispatch" /\ evs' \subseteq Reported
        /\ UNCHANGED <<owner, interest, fd, cur_fds>>
    BY <1>4 DEF EpollWait, SysWait
  <2>2. Reported \subseteq interest
    BY <1>k DEF Reported
  <2>. QED  BY <1>t, <2>1, <2>2 DEF FdsInv
<1>5. CASE HandledAll
  BY <1>t, <1>5 DEF HandledAll, kernel, table, FdsInv
<1>6. ASSUME NEW f \in Fds, Accept(f)  PROVE FdsInv'
  <2>1. /\ pc = "dispatch" /\ pc' = "register" /\ fd' = f /\ evs' = evs \ {ListenFd}
        /\ UNCHANGED <<interest, cur_fds>>
    BY <1>6 DEF Accept, SysAccept
  <2>2. \A g \in Fds : owner'[g] # NoConn <=> owner[g] # NoConn \/ g = f
    BY <1>k, <1>6, AcceptEffect
  <2>3. f \notin interest
    BY <1>t, <1>6, <2>1, AcceptEffect DEF FdsInv
  <2>. QED  BY <1>t, <2>1, <2>2, <2>3 DEF FdsInv
<1>7. CASE Register
  <2>1. /\ pc = "register" /\ pc' = "dispatch" /\ fd' = ListenFd /\ cur_fds' = cur_fds + 1
        /\ interest' = interest \cup {fd} /\ UNCHANGED <<owner, evs>>
    BY <1>7 DEF Register, SysAdd
  <2>2. fd \in Fds /\ fd \notin interest /\ cur_fds = Cardinality(interest) /\ ListenFd \in interest
    BY <1>t, <2>1 DEF FdsInv
  <2>3. Cardinality(interest') = Cardinality(interest) + 1
    <3>1. PICK S, g : S = interest /\ g = fd
      OBVIOUS
    <3>2. IsFiniteSet(S)
      BY <1>k, <3>1, BelowLimit
    <3>. QED  BY <2>1, <2>2, <3>1, <3>2, FS_AddElement
  <2>. QED  BY <1>t, <2>1, <2>2, <2>3 DEF FdsInv
<1>8. ASSUME NEW f \in evs, ReadEnds(f)  PROVE FdsInv'
  <2>1. /\ pc = "dispatch" /\ ToRead(f) /\ cur_fds' = cur_fds - 1 /\ evs' = evs \ {f}
        /\ interest' = interest \ {f} /\ UNCHANGED <<pc, fd>>
        /\ owner' = [g \in Fds |-> IF g = f THEN NoConn ELSE owner[g]]
    BY <1>8 DEF ReadEnds, SysClose, Closed
  <2>2. f \in Fds /\ f \in interest /\ ListenFd \in interest /\ cur_fds = Cardinality(interest)
    BY <1>t, <2>1, EventFd DEF FdsInv
  <2>3. Cardinality(interest') = Cardinality(interest) - 1
    <3>1. PICK S : S = interest
      OBVIOUS
    <3>2. IsFiniteSet(S)
      BY <1>k, <3>1, BelowLimit
    <3>. QED  BY <2>1, <2>2, <3>1, <3>2, FS_RemoveElement
  <2>. QED  BY <1>t, <2>1, <2>2, <2>3 DEF FdsInv
<1>9. ASSUME NEW f \in evs, Read(f)  PROVE FdsInv'
  <2>1. /\ pc = "dispatch" /\ ToRead(f) /\ evs' = evs \ {f} /\ fd' = f /\ pc' = "write"
        /\ UNCHANGED <<owner, interest, cur_fds>>
    BY <1>9 DEF Read, SysRead, table
  <2>2. f \in Fds /\ f \in interest
    BY <2>1, EventFd
  <2>. QED  BY <1>t, <2>1, <2>2 DEF FdsInv
<1>10. CASE Write \/ WriteToClosed \/ WriteToReset
  <2>1. /\ pc = "write" /\ pc' = "dispatch" /\ UNCHANGED <<owner, interest, cur_fds, evs>>
    BY <1>10 DEF Write, WriteToClosed, WriteToReset, Written, Remaining, PeerResets, kernel, table
  <2>. QED  BY <1>t, <2>1 DEF FdsInv
<1>11. ASSUME NEW c \in Conns, ClientStep(c)  PROVE FdsInv'
  BY <1>1, <1>11 DEF ClientStep, ClientConnects, PeerConnects, ClientSends, PeerSends,
     ClientReceives, ClientEnds, PeerResets, PeerShuts, kernel, table, server
<1>12. CASE UNCHANGED vars
  BY <1>1, <1>12 DEF vars, kernel, table, server
<1>13. CASE BootFails \/ WaitFails \/ AcceptFails \/ RegisterFails \/ WriteKills
  BY <1>3, <1>13 DEF BootFails, WaitFails, AcceptFails, RegisterFails, WriteKills
<1>. QED
  BY <1>2, <1>4, <1>5, <1>6, <1>7, <1>8, <1>9, <1>10, <1>11, <1>12, <1>13 DEF Next, ServerStep

\* A connection is in one place: it enters the queue once, accept moves it to a
\* descriptor, and close forgets it.
LEMMA PlacePreserved == ServerInv /\ [Next]_vars => PlaceInv'
<1>. SUFFICES ASSUME ServerInv, [Next]_vars  PROVE PlaceInv'
  OBVIOUS
<1>. USE ConnsAssumption, FdsAssumption
<1>t. TypeOK /\ Kernel_TypeOK /\ PlaceInv
  BY DEF ServerInv, TypeOK
<1>k. /\ owner \in [Fds -> Conns \cup {NoConn}] /\ backlog \in Seq(Conns)
      /\ peer \in [Conns -> {"none", "open", "shut", "reset"}]
  BY <1>t DEF Kernel_TypeOK
<1>1. ASSUME UNCHANGED <<owner, backlog>>, \A c \in Conns : peer[c] # "none" => peer'[c] # "none"
      PROVE  PlaceInv'
  BY <1>t, <1>k, <1>1 DEF PlaceInv
<1>2. ASSUME UNCHANGED <<owner, backlog, peer>>  PROVE PlaceInv'
  BY <1>1, <1>2
<1>3. CASE ServerEnds
  <2>1. (\A f \in Fds : owner'[f] = NoConn) /\ backlog' = <<>>
    BY <1>3 DEF ServerEnds
  <2>. QED  BY <2>1 DEF PlaceInv
<1>4. ASSUME NEW f \in Fds, Accept(f)  PROVE PlaceInv'
  <2>1. /\ backlog[1] \in Conns /\ 1 \in DOMAIN backlog /\ owner[f] = NoConn
        /\ owner' = [owner EXCEPT ![f] = backlog[1]]
        /\ \A k \in DOMAIN backlog' : k + 1 \in DOMAIN backlog /\ backlog'[k] = backlog[k + 1]
        /\ \A k \in DOMAIN backlog' : k + 1 # 1 /\ k \in Int
        /\ peer' = peer
    BY <1>4, AcceptEffect DEF Accept, SysAccept
  <2>2. \A g, h \in Fds : owner'[g] = owner'[h] /\ owner'[g] # NoConn => g = h
    BY <1>t, <1>k, <2>1 DEF PlaceInv
  <2>3. \A i, k \in DOMAIN backlog' : backlog'[i] = backlog'[k] => i = k
    BY <1>t, <2>1 DEF PlaceInv
  <2>4. \A g \in Fds, k \in DOMAIN backlog' : owner'[g] # backlog'[k]
    BY <1>t, <1>k, <2>1 DEF PlaceInv
  <2>5. \A g \in Fds : owner'[g] # NoConn => peer'[owner'[g]] # "none"
    BY <1>t, <1>k, <2>1 DEF PlaceInv
  <2>6. \A k \in DOMAIN backlog' : peer'[backlog'[k]] # "none"
    BY <1>t, <2>1 DEF PlaceInv
  <2>. QED  BY <2>2, <2>3, <2>4, <2>5, <2>6 DEF PlaceInv
<1>5. ASSUME NEW f \in evs, ReadEnds(f)  PROVE PlaceInv'
  <2>1. /\ owner' = [g \in Fds |-> IF g = f THEN NoConn ELSE owner[g]]
        /\ UNCHANGED <<backlog, peer>>
    BY <1>5 DEF ReadEnds, SysClose
  <2>. QED  BY <1>t, <1>k, <2>1 DEF PlaceInv
<1>6. ASSUME NEW c \in Conns, ClientConnects(c)  PROVE PlaceInv'
  <2>1. /\ peer[c] = "none" /\ peer' = [peer EXCEPT ![c] = "open"]
        /\ backlog' = Append(backlog, c) /\ UNCHANGED owner
    BY <1>6 DEF ClientConnects, PeerConnects
  <2>2. /\ \A k \in DOMAIN backlog : backlog[k] # c
        /\ \A f \in Fds : owner[f] # c
    BY <1>t, <2>1 DEF PlaceInv
  <2>3. \A k \in DOMAIN backlog' : \/ k \in DOMAIN backlog /\ backlog'[k] = backlog[k]
                                   \/ k = Len(backlog) + 1 /\ backlog'[k] = c
    BY <1>k, <2>1
  <2>4. \A d \in Conns : peer[d] # "none" \/ d = c => peer'[d] # "none"
    BY <1>k, <2>1
  <2>5. \A k \in DOMAIN backlog : backlog[k] \in Conns
    BY <1>k
  <2>6. \A i, k \in DOMAIN backlog' : backlog'[i] = backlog'[k] => i = k
    BY <1>t, <2>2, <2>3 DEF PlaceInv
  <2>7. \A g \in Fds, k \in DOMAIN backlog' : owner'[g] # backlog'[k]
    BY <1>t, <2>1, <2>2, <2>3 DEF PlaceInv
  <2>8. \A k \in DOMAIN backlog' : peer'[backlog'[k]] # "none"
    BY <1>t, <2>3, <2>4, <2>5 DEF PlaceInv
  <2>9. \A g \in Fds : owner'[g] # NoConn => peer'[owner'[g]] # "none"
    BY <1>t, <1>k, <2>1, <2>4 DEF PlaceInv
  <2>. QED  BY <1>t, <2>1, <2>6, <2>7, <2>8, <2>9 DEF PlaceInv
<1>7. ASSUME NEW c \in Conns, ClientSends(c) \/ ClientReceives(c)  PROVE PlaceInv'
  BY <1>2, <1>7 DEF ClientSends, PeerSends, ClientReceives, kernel, table
<1>8. ASSUME NEW c \in Conns, PeerResets(c) \/ PeerShuts(c)  PROVE PlaceInv'
  BY <1>1, <1>k, <1>8 DEF PeerResets, PeerShuts
<1>9. ASSUME NEW c \in Conns, ClientEnds(c)  PROVE PlaceInv'
  BY <1>8, <1>9 DEF ClientEnds
<1>10. CASE WriteToClosed
  <2>1. PICK c \in Conns : c = owner[fd]
    BY <1>10, WrittenFd DEF WriteToClosed
  <2>. QED  BY <1>8, <1>10, <2>1 DEF WriteToClosed
<1>11. CASE Boot \/ EpollWait \/ HandledAll \/ Register \/ Write \/ WriteToReset
  BY <1>2, <1>11 DEF Boot, SysListen, EpollWait, SysWait, HandledAll, Register, SysAdd, Write,
     WriteToReset, kernel, table
<1>12. ASSUME NEW f \in evs, Read(f)  PROVE PlaceInv'
  BY <1>2, <1>12 DEF Read, SysRead, table
<1>13. CASE BootFails \/ WaitFails \/ AcceptFails \/ RegisterFails \/ WriteKills
  BY <1>3, <1>13 DEF BootFails, WaitFails, AcceptFails, RegisterFails, WriteKills
<1>14. CASE UNCHANGED vars
  BY <1>2, <1>14 DEF vars, kernel, table
<1>. QED
  BY <1>4, <1>5, <1>6, <1>7, <1>9, <1>10, <1>11, <1>12, <1>13, <1>14 DEF Next, ServerStep, ClientStep

\* What an event announced is still there when it is handled: only the handling of
\* the event itself reads the data, and an end or a reset does not go away.
LEMMA ReadablePreserved == ServerInv /\ [Next]_vars => NeverBlocks'
<1>. SUFFICES ASSUME ServerInv, [Next]_vars  PROVE NeverBlocks'
  OBVIOUS
<1>. USE ConnsAssumption, FdsAssumption
<1>t. TypeOK /\ Kernel_TypeOK /\ FdsInv /\ PlaceInv /\ NeverBlocks
  BY DEF ServerInv, TypeOK
<1>k. /\ owner \in [Fds -> Conns \cup {NoConn}] /\ input \in [Conns -> Nat]
      /\ peer \in [Conns -> {"none", "open", "shut", "reset"}]
      /\ evs \subseteq interest /\ interest \subseteq Fds \cup {ListenFd}
  BY <1>t DEF Kernel_TypeOK, FdsInv, Watched
<1>o. \A f \in interest \ {ListenFd} : f \in Fds /\ (pc # "register" \/ f # fd => owner[f] \in Conns)
  BY <1>t, <1>k DEF FdsInv
<1>w. pc \in {"boot", "wait", "exited"} => evs = {}
  BY <1>t DEF FdsInv, Serving, TypeOK
<1>e. \A f \in evs \ {ListenFd} : f \in Fds /\ owner[f] \in Conns /\ Readable(owner[f])
  BY <1>t, <1>k, <1>w DEF NeverBlocks, TypeOK
<1>1. ASSUME evs' \subseteq evs, \A f \in evs' \ {ListenFd} : owner'[f] = owner[f],
             \A f \in evs' \ {ListenFd} : Readable(owner[f])'
      PROVE  NeverBlocks'
  BY <1>1, <1>e DEF NeverBlocks, Readable
<1>2. ASSUME UNCHANGED <<owner, peer, input>>, evs' \subseteq evs  PROVE NeverBlocks'
  <2>1. \A f \in evs' \ {ListenFd} : Readable(owner[f])'
    BY <1>e, <1>2 DEF Readable
  <2>. QED  BY <1>1, <1>2, <2>1
<1>3. CASE ServerEnds
  BY <1>3 DEF ServerEnds, NeverBlocks
<1>4. CASE EpollWait
  <2>1. /\ pc = "wait" /\ evs' \subseteq Reported /\ UNCHANGED <<owner, peer, input>>
    BY <1>4 DEF EpollWait, SysWait
  <2>2. \A f \in Reported \ {ListenFd} : f \in interest /\ Readable(owner[f])
    BY <1>t DEF Reported, Pollable, Kernel_TypeOK
  <2>3. \A f \in Reported \ {ListenFd} : owner[f] \in Conns /\ Readable(owner[f])
    BY <1>o, <2>1, <2>2
  <2>. QED  BY <2>1, <2>3 DEF NeverBlocks, Readable
<1>5. ASSUME NEW f \in Fds, Accept(f)  PROVE NeverBlocks'
  <2>1. /\ owner[f] = NoConn /\ owner' = [owner EXCEPT ![f] = backlog[1]]
        /\ evs' \subseteq evs /\ UNCHANGED <<peer, input>>
    BY <1>5, AcceptEffect DEF Accept, SysAccept
  <2>2. \A g \in evs \ {ListenFd} : g # f /\ owner'[g] = owner[g]
    BY <1>e, <1>k, <2>1
  <2>3. \A g \in evs' \ {ListenFd} : Readable(owner[g])'
    BY <1>e, <2>1, <2>2 DEF Readable
  <2>. QED  BY <1>1, <2>1, <2>2, <2>3
<1>6. ASSUME NEW f \in evs, ReadEnds(f)  PROVE NeverBlocks'
  <2>1. /\ owner' = [g \in Fds |-> IF g = f THEN NoConn ELSE owner[g]]
        /\ evs' = evs \ {f} /\ UNCHANGED <<peer, input>>
    BY <1>6 DEF ReadEnds, SysClose
  <2>2. \A g \in evs' \ {ListenFd} : owner'[g] = owner[g]
    BY <1>e, <2>1
  <2>3. \A g \in evs' \ {ListenFd} : Readable(owner[g])'
    BY <1>e, <2>1, <2>2 DEF Readable
  <2>. QED  BY <1>1, <2>1, <2>2, <2>3
<1>7. ASSUME NEW f \in evs, Read(f)  PROVE NeverBlocks'
  <2>1. /\ pc = "dispatch" /\ ToRead(f) /\ evs' = evs \ {f} /\ UNCHANGED <<owner, peer>>
        /\ \E n : input' = [input EXCEPT ![owner[f]] = @ - n]
    BY <1>7 DEF Read, SysRead, table
  <2>2. f \in Fds /\ owner[f] \in Conns
    BY <2>1, EventFd
  <2>3. \A d \in Conns \ {owner[f]} : input'[d] = input[d]
    BY <1>k, <2>1
  <2>4. \A g \in evs' \ {ListenFd} : owner[g] # owner[f]
    BY <1>t, <1>e, <2>1, <2>2 DEF PlaceInv
  <2>5. \A g \in evs' \ {ListenFd} : Readable(owner[g])'
    BY <1>e, <2>1, <2>3, <2>4 DEF Readable
  <2>. QED  BY <1>1, <2>1, <2>5
<1>8. ASSUME NEW c \in Conns, PeerResets(c) \/ PeerShuts(c), evs' = evs  PROVE NeverBlocks'
  <2>1. \A d \in Conns : Readable(d) => Readable(d)'
    BY <1>k, <1>8 DEF PeerResets, PeerShuts, Readable
  <2>2. owner' = owner
    BY <1>8 DEF PeerResets, PeerShuts
  <2>3. \A g \in evs' \ {ListenFd} : Readable(owner[g])'
    BY <1>e, <1>8, <2>1, <2>2 DEF Readable
  <2>. QED  BY <1>1, <1>8, <2>2, <2>3
<1>9. ASSUME NEW c \in Conns, ClientConnects(c) \/ ClientSends(c)  PROVE NeverBlocks'
  <2>1. \A d \in Conns : Readable(d) => Readable(d)'
    BY <1>k, <1>9 DEF ClientConnects, PeerConnects, ClientSends, PeerSends, Readable
  <2>2. owner' = owner /\ evs' = evs
    BY <1>9 DEF ClientConnects, PeerConnects, ClientSends, PeerSends, server
  <2>3. \A g \in evs' \ {ListenFd} : Readable(owner[g])'
    BY <1>e, <2>1, <2>2 DEF Readable
  <2>. QED  BY <1>1, <2>2, <2>3
<1>10. ASSUME NEW c \in Conns, ClientReceives(c)  PROVE NeverBlocks'
  BY <1>2, <1>10 DEF ClientReceives, kernel, table, server
<1>11. ASSUME NEW c \in Conns, ClientEnds(c)  PROVE NeverBlocks'
  BY <1>8, <1>11 DEF ClientEnds, server
<1>12. CASE WriteToClosed
  <2>1. PICK c \in Conns : c = owner[fd]
    BY <1>12, WrittenFd DEF WriteToClosed
  <2>. QED  BY <1>8, <1>12, <2>1 DEF WriteToClosed, Written, Remaining
<1>13. CASE Boot \/ HandledAll \/ Register \/ Write \/ WriteToReset
  BY <1>2, <1>13 DEF Boot, SysListen, HandledAll, Register, SysAdd, Write, WriteToReset, Written,
     Remaining, kernel, table
<1>14. CASE BootFails \/ WaitFails \/ AcceptFails \/ RegisterFails \/ WriteKills
  BY <1>3, <1>14 DEF BootFails, WaitFails, AcceptFails, RegisterFails, WriteKills
<1>15. CASE UNCHANGED vars
  BY <1>2, <1>15 DEF vars, kernel, table, server
<1>. QED
  BY <1>4, <1>5, <1>6, <1>7, <1>9, <1>10, <1>11, <1>12, <1>13, <1>14, <1>15
     DEF Next, ServerStep, ClientStep

\* What one read takes.
LEMMA ReadAmount ==
  ASSUME ServerInv, NEW f \in evs, Read(f)
  PROVE  \E c \in Conns, n \in 0..MAXLINE :
           /\ c = owner[f] /\ f \in Fds /\ n <= input[c] /\ nread' = n
           /\ input' = [input EXCEPT ![c] = input[c] - n]
           /\ pc' = "write" /\ fd' = f /\ evs' = evs \ {f}
           /\ UNCHANGED <<table, peer, sent, cur_fds, echo, got>>
<1>1. f \in Fds /\ owner[f] \in Conns
  BY EventFd DEF Read
<1>2. PICK c \in Conns : c = owner[f]
  BY <1>1
<1>3. input[c] \in Nat /\ MAXLINE \in Nat
  BY LimitAssumption DEF ServerInv, TypeOK, Kernel_TypeOK
<1>4. PICK n : n = IF input[c] < MAXLINE THEN input[c] ELSE MAXLINE
  OBVIOUS
<1>5. n \in 0..MAXLINE /\ n <= input[c]
  BY <1>3, <1>4
<1>6. /\ SysRead(c, n) /\ nread' = n /\ pc' = "write" /\ fd' = f /\ evs' = evs \ {f}
      /\ UNCHANGED <<cur_fds, clients>>
  BY <1>2, <1>4 DEF Read
<1>. QED  BY <1>1, <1>2, <1>5, <1>6 DEF SysRead, clients

\* What one recv of a client takes.
LEMMA ReceiveAmount ==
  ASSUME ServerInv, NEW c \in Conns, ClientReceives(c)
  PROVE  \E n \in Nat : /\ n <= echo[c]
                        /\ echo' = [echo EXCEPT ![c] = echo[c] - n]
                        /\ got' = [got EXCEPT ![c] = got[c] + n]
                        /\ UNCHANGED <<kernel, server>>
<1>1. echo[c] \in Nat /\ MAXLINE \in Nat
  BY LimitAssumption DEF ServerInv, TypeOK
<1>2. PICK n : n = IF echo[c] < MAXLINE THEN echo[c] ELSE MAXLINE
  OBVIOUS
<1>3. n \in Nat /\ n <= echo[c]
  BY <1>1, <1>2
<1>. QED  BY <1>2, <1>3 DEF ClientReceives

\* No echo is made up: data moves from the socket to the server's buffer, to the
\* client's socket and to its output.
LEMMA EchoPreserved == ServerInv /\ [Next]_vars => EchoInv'
<1>. SUFFICES ASSUME ServerInv, [Next]_vars, NEW d \in Conns
              PROVE  echo'[d] + got'[d] + input'[d] + InHand(d)' <= sent'[d]
  BY DEF EchoInv
<1>. DEFINE Kept == echo'[d] + got'[d] + input'[d] + InHand(d)' <= sent'[d]
<1>. SUFFICES Kept
  OBVIOUS
<1>t. /\ echo \in [Conns -> Nat] /\ got \in [Conns -> Nat]
      /\ input \in [Conns -> Nat] /\ sent \in [Conns -> Nat]
      /\ echo[d] + got[d] + input[d] + InHand(d) <= sent[d]
      /\ nread \in Nat
  BY LimitAssumption DEF ServerInv, TypeOK, Kernel_TypeOK, EchoInv
<1>n. InHand(d) \in Nat
  BY <1>t DEF InHand
<1>1. ASSUME UNCHANGED <<echo, got, sent>>, input'[d] = input[d] \/ input'[d] = 0,
             InHand(d)' = InHand(d) \/ InHand(d)' = 0
      PROVE  Kept
  BY <1>t, <1>n, <1>1
<1>2. CASE ServerEnds
  BY <1>1, <1>2 DEF ServerEnds, clients, InHand
<1>3. CASE Boot \/ EpollWait \/ HandledAll \/ Register
  <2>1. UNCHANGED <<echo, got, sent, input>> /\ pc' # "write"
    BY <1>3 DEF Boot, SysListen, EpollWait, SysWait, HandledAll, Register, SysAdd, kernel, clients
  <2>. QED  BY <1>1, <2>1 DEF InHand
<1>4. ASSUME NEW f \in Fds, Accept(f)  PROVE Kept
  <2>1. UNCHANGED <<echo, got, sent, input>> /\ pc' # "write"
    BY <1>4 DEF Accept, SysAccept, clients
  <2>. QED  BY <1>1, <2>1 DEF InHand
<1>5. ASSUME NEW f \in evs, ReadEnds(f)  PROVE Kept
  <2>1. UNCHANGED <<echo, got, sent, input>> /\ pc' # "write"
    BY <1>5 DEF ReadEnds, SysClose, clients
  <2>. QED  BY <1>1, <2>1 DEF InHand
<1>6. ASSUME NEW f \in evs, Read(f)  PROVE Kept
  <2>1. PICK c \in Conns, n \in 0..MAXLINE :
           /\ c = owner[f] /\ f \in Fds /\ n <= input[c] /\ nread' = n
           /\ input' = [input EXCEPT ![c] = input[c] - n]
           /\ pc' = "write" /\ fd' = f
           /\ UNCHANGED <<table, peer, sent, cur_fds, echo, got>>
    BY <1>6, ReadAmount
  <2>2. n \in Nat /\ InHand(d) = 0
    BY <1>6, LimitAssumption DEF Read, InHand
  <2>3. InHand(d)' = IF d = c THEN n ELSE 0
    BY <2>1 DEF InHand, table
  <2>4. input'[d] = IF d = c THEN input[d] - n ELSE input[d]
    BY <1>t, <2>1
  <2>5. echo[d] \in Nat /\ got[d] \in Nat /\ input[d] \in Nat /\ sent[d] \in Nat
    BY <1>t
  <2>6. CASE d = c
    BY <1>t, <2>1, <2>2, <2>3, <2>4, <2>5, <2>6
  <2>7. CASE d # c
    BY <1>t, <2>1, <2>2, <2>3, <2>4, <2>5, <2>7
  <2>. QED  BY <2>6, <2>7
<1>7. CASE Write
  <2>1. /\ pc = "write" /\ pc' = "dispatch" /\ UNCHANGED <<input, sent, got>>
        /\ echo' = [echo EXCEPT ![owner[fd]] = echo[owner[fd]] + nread]
    BY <1>7 DEF Write, Written, kernel
  <2>2. InHand(d)' = 0
    BY <2>1 DEF InHand
  <2>3. echo'[d] = echo[d] + InHand(d)
    BY <1>t, <2>1 DEF InHand
  <2>4. echo[d] \in Nat /\ got[d] \in Nat /\ input[d] \in Nat /\ sent[d] \in Nat
    BY <1>t
  <2>. QED  BY <1>t, <1>n, <2>1, <2>2, <2>3, <2>4
<1>8. CASE WriteToClosed
  <2>1. /\ pc' = "dispatch" /\ UNCHANGED <<echo, got, sent>>
        /\ input' = [input EXCEPT ![owner[fd]] = 0]
    BY <1>8 DEF WriteToClosed, Written, PeerResets, clients
  <2>2. input'[d] = input[d] \/ input'[d] = 0
    BY <1>t, <2>1
  <2>. QED  BY <1>1, <2>1, <2>2 DEF InHand
<1>9. CASE WriteToReset
  BY <1>1, <1>9 DEF WriteToReset, Written, kernel, clients, InHand
<1>10. CASE BootFails \/ WaitFails \/ AcceptFails \/ RegisterFails \/ WriteKills
  BY <1>2, <1>10 DEF BootFails, WaitFails, AcceptFails, RegisterFails, WriteKills
<1>11. ASSUME NEW c \in Conns, ClientConnects(c)  PROVE Kept
  BY <1>1, <1>11 DEF ClientConnects, PeerConnects, server, clients, InHand
<1>12. ASSUME NEW c \in Conns, ClientSends(c)  PROVE Kept
  <2>1. /\ input' = [input EXCEPT ![c] = input[c] + 1] /\ sent' = [sent EXCEPT ![c] = sent[c] + 1]
        /\ UNCHANGED <<owner, server, echo, got>>
    BY <1>12 DEF ClientSends, PeerSends, clients
  <2>2. InHand(d)' = InHand(d)
    BY <2>1 DEF InHand, server
  <2>3. echo[d] \in Nat /\ got[d] \in Nat /\ input[d] \in Nat /\ sent[d] \in Nat
    BY <1>t
  <2>4. \/ input'[d] = input[d] /\ sent'[d] = sent[d]
        \/ input'[d] = input[d] + 1 /\ sent'[d] = sent[d] + 1
    BY <1>t, <2>1
  <2>5. echo'[d] = echo[d] /\ got'[d] = got[d]
    BY <2>1
  <2>. QED  BY <1>t, <1>n, <2>2, <2>3, <2>4, <2>5
<1>13. ASSUME NEW c \in Conns, ClientReceives(c)  PROVE Kept
  <2>1. PICK n \in Nat : /\ n <= echo[c]
                         /\ echo' = [echo EXCEPT ![c] = echo[c] - n]
                         /\ got' = [got EXCEPT ![c] = got[c] + n]
                         /\ UNCHANGED <<kernel, server>>
    BY <1>13, ReceiveAmount
  <2>2. InHand(d)' = InHand(d) /\ UNCHANGED <<input, sent>>
    BY <2>1 DEF InHand, server, kernel, table
  <2>3. echo[d] \in Nat /\ got[d] \in Nat /\ input[d] \in Nat /\ sent[d] \in Nat
    BY <1>t
  <2>4. \/ echo'[d] = echo[d] /\ got'[d] = got[d]
        \/ echo'[d] = echo[d] - n /\ got'[d] = got[d] + n
    BY <1>t, <2>1
  <2>. QED  BY <1>t, <1>n, <2>2, <2>3, <2>4
<1>14. ASSUME NEW c \in Conns, ClientEnds(c)  PROVE Kept
  <2>1. input'[d] = input[d] \/ input'[d] = 0
    BY <1>t, <1>14 DEF ClientEnds, PeerResets, PeerShuts
  <2>2. UNCHANGED <<owner, sent, server, echo, got>>
    BY <1>14 DEF ClientEnds, PeerResets, PeerShuts, clients
  <2>. QED  BY <1>1, <2>1, <2>2 DEF InHand, server
<1>15. CASE UNCHANGED vars
  BY <1>1, <1>15 DEF vars, kernel, table, server, clients, InHand
<1>. HIDE DEF Kept
<1>. QED
  BY <1>3, <1>4, <1>5, <1>6, <1>7, <1>8, <1>9, <1>10, <1>11, <1>12, <1>13, <1>14, <1>15
     DEF Next, ServerStep, ClientStep

\* The sockets keep their types.
LEMMA KernelPreserved == ServerInv /\ [Next]_vars => Kernel_TypeOK'
<1>. SUFFICES ASSUME ServerInv, [Next]_vars  PROVE Kernel_TypeOK'
  OBVIOUS
<1>. USE ConnsAssumption, FdsAssumption, MaxSentAssumption DEF Kernel_TypeOK, Watched
<1>t. Kernel_TypeOK /\ FdsInv /\ fd \in Watched /\ evs \subseteq Watched
  BY DEF ServerInv, TypeOK
<1>1. ASSUME UNCHANGED kernel  PROVE Kernel_TypeOK'
  BY <1>t, <1>1 DEF kernel, table
<1>2. CASE ServerEnds
  BY <1>t, <1>2 DEF ServerEnds
<1>3. CASE Boot \/ EpollWait
  BY <1>t, <1>3 DEF Boot, SysListen, EpollWait, SysWait, Reported
<1>4. ASSUME NEW f \in Fds, Accept(f)  PROVE Kernel_TypeOK'
  BY <1>t, <1>4, AcceptEffect DEF Accept, SysAccept
<1>5. CASE Register
  BY <1>t, <1>5 DEF Register, SysAdd
<1>6. ASSUME NEW f \in evs, ReadEnds(f)  PROVE Kernel_TypeOK'
  BY <1>t, <1>6 DEF ReadEnds, SysClose
<1>7. ASSUME NEW f \in evs, Read(f)  PROVE Kernel_TypeOK'
  <2>1. PICK c \in Conns, n \in 0..MAXLINE :
           /\ n <= input[c] /\ input' = [input EXCEPT ![c] = input[c] - n]
           /\ UNCHANGED <<table, peer, sent>>
    BY <1>7, ReadAmount
  <2>2. n \in Nat
    BY LimitAssumption
  <2>3. input' \in [Conns -> Nat] /\ \A d \in Conns : input'[d] <= input[d]
    BY <1>t, <2>1, <2>2
  <2>4. \A d \in Conns : input'[d] <= sent[d]
    BY <1>t, <2>3
  <2>. QED  BY <1>t, <2>1, <2>3, <2>4 DEF table
<1>8. ASSUME NEW c \in Conns, ClientConnects(c)  PROVE Kernel_TypeOK'
  BY <1>t, <1>8 DEF ClientConnects, PeerConnects
<1>9. ASSUME NEW c \in Conns, ClientSends(c)  PROVE Kernel_TypeOK'
  <2>1. /\ input' = [input EXCEPT ![c] = input[c] + 1] /\ sent' = [sent EXCEPT ![c] = sent[c] + 1]
        /\ sent[c] < MaxSent[c] /\ ready' = ready \cup Edge(c)
        /\ UNCHANGED <<backlog, owner, interest, peer>>
    BY <1>9 DEF ClientSends, PeerSends
  <2>2. input' \in [Conns -> Nat] /\ sent' \in [Conns -> Nat]
    BY <1>t, <2>1
  <2>3. ready' \subseteq interest'
    BY <1>t, <2>1 DEF Edge
  <2>4. \A d \in Conns : input'[d] <= sent'[d] /\ sent'[d] <= MaxSent[d]
    BY <1>t, <2>1
  <2>. QED  BY <1>t, <2>1, <2>2, <2>3, <2>4
<1>10. ASSUME NEW c \in Conns, PeerResets(c) \/ PeerShuts(c)  PROVE Kernel_TypeOK'
  <2>1. input' \in [Conns -> Nat] /\ \A d \in Conns : input'[d] <= sent[d]
    <3>1. CASE PeerResets(c)
      BY <1>t, <3>1 DEF PeerResets
    <3>2. CASE PeerShuts(c)
      BY <1>t, <3>2 DEF PeerShuts
    <3>. QED  BY <1>10, <3>1, <3>2
  <2>2. peer' \in [Conns -> {"none", "open", "shut", "reset"}] /\ ready' \subseteq interest'
    BY <1>t, <1>10 DEF PeerResets, PeerShuts, Edge
  <2>. QED  BY <1>t, <1>10, <2>1, <2>2 DEF PeerResets, PeerShuts
<1>11. ASSUME NEW c \in Conns, ClientEnds(c)  PROVE Kernel_TypeOK'
  BY <1>10, <1>11 DEF ClientEnds
<1>12. CASE WriteToClosed
  <2>1. PICK c \in Conns : c = owner[fd]
    BY <1>12, WrittenFd DEF WriteToClosed
  <2>. QED  BY <1>10, <1>12, <2>1 DEF WriteToClosed
<1>13. CASE HandledAll \/ Write \/ WriteToReset \/ UNCHANGED vars
  BY <1>1, <1>13 DEF HandledAll, Write, WriteToReset, vars
<1>14. ASSUME NEW c \in Conns, ClientReceives(c)  PROVE Kernel_TypeOK'
  BY <1>1, <1>14 DEF ClientReceives
<1>15. CASE BootFails \/ WaitFails \/ AcceptFails \/ RegisterFails \/ WriteKills
  BY <1>2, <1>15 DEF BootFails, WaitFails, AcceptFails, RegisterFails, WriteKills
<1>. QED
  BY <1>3, <1>4, <1>5, <1>6, <1>7, <1>8, <1>9, <1>11, <1>12, <1>13, <1>14, <1>15
     DEF Next, ServerStep, ClientStep

\* The server and the clients keep their types.  That cur_fds does not exceed
\* MAXEPOLL rests on what it counts, and that no more is received than was sent
\* on the account of the data.
LEMMA TypePreserved == ServerInv /\ [Next]_vars => TypeOK'
<1>. SUFFICES ASSUME ServerInv, [Next]_vars  PROVE TypeOK'
  OBVIOUS
<1>. DEFINE PlainTypes ==
              /\ pc \in {"boot", "wait", "dispatch", "register", "write", "exited"}
              /\ evs \subseteq Watched
              /\ fd \in Watched
              /\ nread \in 0..MAXLINE
              /\ echo \in [Conns -> Nat]
              /\ got \in [Conns -> Nat]
<1>t. PlainTypes /\ TypeOK /\ Kernel_TypeOK /\ FdsInv /\ 0 \in 0..MAXLINE /\ ListenFd \in Watched
  BY LimitAssumption DEF ServerInv, TypeOK, Watched
<1>1. PlainTypes'
  <2>1. CASE ServerEnds
    BY <1>t, <2>1 DEF ServerEnds, clients
  <2>2. CASE Boot \/ EpollWait \/ HandledAll \/ Register
    BY <1>t, <2>2 DEF Boot, EpollWait, HandledAll, Register, Reported, Kernel_TypeOK, clients
  <2>3. ASSUME NEW f \in Fds, Accept(f)  PROVE PlainTypes'
    BY <1>t, <2>3 DEF Accept, clients, Watched
  <2>4. ASSUME NEW f \in evs, ReadEnds(f)  PROVE PlainTypes'
    BY <1>t, <2>4 DEF ReadEnds, clients
  <2>5. ASSUME NEW f \in evs, Read(f)  PROVE PlainTypes'
    BY <1>t, <2>5, ReadAmount
  <2>6. CASE Write
    <3>1. owner[fd] \in Conns /\ echo[owner[fd]] \in Nat /\ nread \in Nat
      BY <1>t, <2>6, WrittenFd, LimitAssumption DEF Write
    <3>2. echo' \in [Conns -> Nat]
      BY <1>t, <2>6, <3>1 DEF Write
    <3>. QED  BY <1>t, <2>6, <3>2 DEF Write, Written, Remaining
  <2>7. CASE WriteToClosed \/ WriteToReset
    BY <1>t, <2>7 DEF WriteToClosed, WriteToReset, Written, Remaining, clients
  <2>8. ASSUME NEW c \in Conns, ClientConnects(c) \/ ClientSends(c) \/ ClientEnds(c)  PROVE PlainTypes'
    BY <1>t, <2>8 DEF ClientConnects, ClientSends, ClientEnds, server, clients
  <2>9. ASSUME NEW c \in Conns, ClientReceives(c)  PROVE PlainTypes'
    BY <1>t, <2>9, ReceiveAmount DEF server
  <2>10. CASE BootFails \/ WaitFails \/ AcceptFails \/ RegisterFails \/ WriteKills
    BY <2>1, <2>10 DEF BootFails, WaitFails, AcceptFails, RegisterFails, WriteKills
  <2>11. CASE UNCHANGED vars
    BY <1>t, <2>11 DEF vars, server, clients
  <2>. HIDE DEF PlainTypes
  <2>. QED
    BY <2>2, <2>3, <2>4, <2>5, <2>6, <2>7, <2>8, <2>9, <2>10, <2>11 DEF Next, ServerStep, ClientStep
<1>2. Kernel_TypeOK' /\ FdsInv' /\ EchoInv'
  BY KernelPreserved, FdsPreserved, EchoPreserved
<1>3. cur_fds' \in 0..MAXEPOLL
  <2>1. CASE Serving'
    <3>1. PICK S : S = interest'
      OBVIOUS
    <3>2. S \subseteq Watched /\ cur_fds' = Cardinality(S)
      BY <1>2, <2>1, <3>1 DEF Kernel_TypeOK, FdsInv
    <3>. QED  BY <3>2, BelowLimit, LimitAssumption
  <2>2. CASE ~ Serving'
    <3>1. cur_fds \in 0..MAXEPOLL
      BY <1>t DEF TypeOK
    <3>2. cur_fds' = cur_fds
      <4>1. CASE ServerEnds
        BY <4>1 DEF ServerEnds
      <4>2. CASE Boot \/ EpollWait \/ HandledAll \/ Register \/ Write \/ WriteToClosed \/ WriteToReset
        BY <2>2, <4>2 DEF Boot, EpollWait, HandledAll, Register, Write, WriteToClosed, WriteToReset,
           Written, Serving
      <4>3. ASSUME NEW f \in Fds, Accept(f)  PROVE cur_fds' = cur_fds
        BY <4>3 DEF Accept
      <4>4. ASSUME NEW f \in evs, ReadEnds(f) \/ Read(f)  PROVE cur_fds' = cur_fds
        BY <2>2, <4>4 DEF ReadEnds, Read, Serving
      <4>5. ASSUME NEW c \in Conns, ClientStep(c)  PROVE cur_fds' = cur_fds
        BY <4>5 DEF ClientStep, ClientConnects, ClientSends, ClientReceives, ClientEnds, server
      <4>6. CASE UNCHANGED vars
        BY <4>6 DEF vars, server
      <4>7. CASE BootFails \/ WaitFails \/ AcceptFails \/ RegisterFails \/ WriteKills
        BY <4>1, <4>7 DEF BootFails, WaitFails, AcceptFails, RegisterFails, WriteKills
      <4>. QED  BY <4>2, <4>3, <4>4, <4>5, <4>6, <4>7 DEF Next, ServerStep
    <3>. QED  BY <3>1, <3>2
  <2>. QED  BY <2>1, <2>2
<1>4. ASSUME NEW c \in Conns  PROVE echo'[c] + got'[c] <= sent'[c]
  <2>1. echo'[c] + got'[c] + input'[c] + InHand(c)' <= sent'[c]
    BY <1>2 DEF EchoInv
  <2>2. nread' \in Nat
    BY <1>1, LimitAssumption
  <2>3. InHand(c)' \in Nat
    BY <2>2 DEF InHand
  <2>4. echo'[c] \in Nat /\ got'[c] \in Nat /\ input'[c] \in Nat /\ sent'[c] \in Nat
    BY <1>1, <1>2 DEF Kernel_TypeOK
  <2>. QED  BY <2>1, <2>3, <2>4
<1>. QED  BY <1>1, <1>2, <1>3, <1>4 DEF TypeOK

-----------------------------------------------------------------------------
(* The theorems. *)

\* The invariant holds initially.
LEMMA ServerInit == Init => ServerInv
<1>. SUFFICES ASSUME Init  PROVE ServerInv
  OBVIOUS
<1>1. Kernel_TypeOK
  BY MaxSentAssumption DEF Init, Kernel_Init, Kernel_TypeOK, Watched
<1>2. TypeOK
  <2>1. \A c \in Conns : echo[c] + got[c] <= sent[c]
    BY DEF Init, Kernel_Init
  <2>. QED  BY <1>1, <2>1, LimitAssumption DEF Init, TypeOK, Watched
<1>3. FdsInv
  BY DEF Init, Kernel_Init, FdsInv, Serving
<1>4. PlaceInv
  BY DEF Init, Kernel_Init, PlaceInv
<1>5. EchoInv
  BY DEF Init, Kernel_Init, EchoInv, InHand
<1>6. NeverBlocks
  BY DEF Init, NeverBlocks
<1>. QED  BY <1>2, <1>3, <1>4, <1>5, <1>6 DEF ServerInv

\* The inductive invariant of the server.
THEOREM ServerInvariant == Spec => []ServerInv
<1>1. ServerInv /\ [Next]_vars => ServerInv'
  BY TypePreserved, FdsPreserved, PlacePreserved, EchoPreserved, ReadablePreserved DEF ServerInv
<1>. QED  BY <1>1, ServerInit, PTL DEF Spec

\* cur_fds, with which the server asks for events and decides whether to accept, is
\* the number of watched descriptors and stays below MAXEPOLL, whatever the number of
\* clients and the order of arrivals, ends and faults.
THEOREM CurFdsIsExact == Spec => []CurFdsExact
<1>1. ServerInv => CurFdsExact
  BY ServerRoom DEF ServerInv, FdsInv, CurFdsExact
<1>. QED  BY <1>1, ServerInvariant, PTL

\* No read of the server, on its blocking sockets, finds nothing to read.
THEOREM ServerNeverBlocks == Spec => []NeverBlocks
<1>1. ServerInv => NeverBlocks
  BY DEF ServerInv
<1>. QED  BY <1>1, ServerInvariant, PTL

=============================================================================
