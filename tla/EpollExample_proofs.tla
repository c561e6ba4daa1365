------------------------- MODULE EpollExample_proofs -------------------------
(***************************************************************************)
(* Proofs about the edge-triggered reader of EpollExample: no edge is      *)
(* lost, no event is stale, and no data is dropped.  The last part is      *)
(* about HttpServer, which uses the same sockets (EpollSockets) and whose  *)
(* proofs need the same lemmas about them: what the slots of its array of  *)
(* events are about.                                                       *)
(***************************************************************************)
EXTENDS EpollExample, FiniteSetTheorems, FunctionTheorems, SequenceTheorems, TLAPS

\* What is watched: the listening socket as long as the program runs, and
\* descriptors that stand for a connection; the one just accepted stands for
\* one as well.
WatchInv ==
  /\ Running => ListenFd \in interest
  /\ \A f \in interest \ {ListenFd} : owner[f] # NoConn
  /\ pc = "register" => infd \in Fds /\ owner[infd] # NoConn

\* What the array of events holds: nothing between two rounds, at most one event
\* for each descriptor, none for the descriptor being read, and an error only
\* for a connection that has been reset.
ArrayInv ==
  /\ pc \in {"boot", "wait"} => events = {}
  /\ \A e \in events :
       e.err => e.fd # ListenFd /\ e.conn \in Conns /\ peer[e.conn] = "reset"
  /\ \A d, e \in events : d.fd = e.fd => d = e
  /\ pc = "read" => event.fd # ListenFd /\ \A e \in events : e.fd # event.fd

\* Where the data of each connection is: only a reset and short writes lose any,
\* and a client that has not ended its side is attached.
DataInv ==
  \A c \in Conns :
    /\ peer[c] = "open" => Attached(c)
    /\ peer[c] # "reset" => written[c] + lost[c] + input[c] = sent[c]
    /\ peer[c] = "shut" /\ ~ Attached(c) => written[c] + lost[c] = sent[c]

ReaderInv ==
  TypeOK /\ WatchInv /\ ArrayInv /\ EventsFresh /\ EdgesCover /\ DataInv

-----------------------------------------------------------------------------
(* Attached under the operations on the queue and on the descriptors. *)

\* A connection that arrives joins the queue, and none leaves it.
LEMMA AttachedByConnect ==
  ASSUME NEW c \in Conns, Kernel_TypeOK, PeerConnects(c)
  PROVE  Attached(c)' /\ \A d \in Conns : Attached(d)' <=> (Attached(d) \/ d = c)
<1>1. /\ backlog' \in Seq(Conns)
      /\ Len(backlog') = Len(backlog) + 1
      /\ backlog'[Len(backlog) + 1] = c
      /\ \A k \in 1..Len(backlog) : backlog'[k] = backlog[k]
      /\ DOMAIN backlog = 1..Len(backlog) /\ DOMAIN backlog' = 1..(Len(backlog) + 1)
      /\ Len(backlog) \in Nat
  BY DEF Kernel_TypeOK, PeerConnects
<1>2. owner' = owner
  BY DEF PeerConnects
<1>. QED  BY <1>1, <1>2 DEF Attached, Accepted

\* accept moves a connection from the queue to a free descriptor.
LEMMA AttachedByAccept ==
  ASSUME NEW f \in Fds, Kernel_TypeOK, SysAccept(f)
  PROVE  /\ Head(backlog) \in Conns
         /\ \A d \in Conns : Attached(d)' <=> Attached(d)
<1>1. /\ backlog \in Seq(Conns) /\ backlog # <<>>
      /\ backlog' = Tail(backlog)
      /\ owner' = [owner EXCEPT ![f] = backlog[1]]
      /\ owner[f] = NoConn /\ owner \in [Fds -> Conns \cup {NoConn}]
  BY HeadTailProperties DEF Kernel_TypeOK, SysAccept, Free
<1>2. /\ Len(backlog) \in Nat \ {0} /\ DOMAIN backlog = 1..Len(backlog)
      /\ DOMAIN backlog' = 1..(Len(backlog) - 1)
      /\ \A k \in 1..(Len(backlog) - 1) : backlog'[k] = backlog[k + 1]
      /\ Head(backlog) = backlog[1] /\ backlog[1] \in Conns
  BY <1>1
<1>3. ASSUME NEW d \in Conns, Attached(d)  PROVE Attached(d)'
  <2>1. CASE Accepted(d)
    BY <1>1, <2>1, ConnsAssumption DEF Attached, Accepted
  <2>2. CASE \E k \in DOMAIN backlog : backlog[k] = d
    <3>1. PICK k \in 1..Len(backlog) : backlog[k] = d
      BY <1>2, <2>2
    <3>2. CASE k = 1
      BY <1>1, <3>1, <3>2 DEF Attached, Accepted
    <3>3. CASE k # 1
      <4>1. k - 1 \in 1..(Len(backlog) - 1) /\ backlog'[k - 1] = d
        BY <1>2, <3>1, <3>3
      <4>. QED  BY <1>2, <4>1 DEF Attached
    <3>. QED  BY <3>2, <3>3
  <2>. QED  BY <1>3, <2>1, <2>2 DEF Attached
<1>4. ASSUME NEW d \in Conns, Attached(d)'  PROVE Attached(d)
  <2>1. ASSUME NEW g \in Fds, owner'[g] = d  PROVE Attached(d)
    BY <1>1, <1>2, <2>1 DEF Attached, Accepted
  <2>2. ASSUME NEW k \in DOMAIN backlog', backlog'[k] = d  PROVE Attached(d)
    <3>1. k + 1 \in DOMAIN backlog /\ backlog[k + 1] = d
      BY <1>2, <2>2
    <3>. QED  BY <3>1 DEF Attached
  <2>. QED  BY <1>4, <2>1, <2>2 DEF Attached, Accepted
<1>. QED  BY <1>2, <1>3, <1>4

\* close detaches the connection behind the descriptor and no other.
LEMMA AttachedByClose ==
  ASSUME NEW f \in Fds, Kernel_TypeOK, SysClose(f)
  PROVE  \A d \in Conns \ {owner[f]} : Attached(d)' <=> Attached(d)
BY ConnsAssumption DEF Kernel_TypeOK, SysClose, Attached, Accepted

-----------------------------------------------------------------------------
(* Each part of the invariant is preserved. *)

\* The fields of an event, and the value event has when nothing is handled.
LEMMA EventFields ==
  /\ \A e \in Events : e.fd \in Watched /\ e.err \in BOOLEAN /\ e.conn \in Conns \cup {NoConn}
  /\ NoEvent \in Events
BY DEF Events, NoEvent, Watched

\* Every step keeps the types, and what is written was sent.
LEMMA TypePreserved == ReaderInv /\ [Next]_vars => TypeOK'
<1>. SUFFICES ASSUME ReaderInv, [Next]_vars  PROVE TypeOK'
  OBVIOUS
<1>. USE ConnsAssumption, FdsAssumption, MaxSentAssumption, BufSizeAssumption
     DEF TypeOK, Kernel_TypeOK, Watched, output
<1>t. TypeOK
  BY DEF ReaderInv
<1>1. CASE UNCHANGED vars
  BY <1>t, <1>1 DEF vars, server, kernel, table
<1>2. CASE Boot
  BY <1>t, <1>2 DEF Boot, SysListen
<1>3. CASE BootFails \/ RegisterFails \/ WriteFails
  BY <1>t, <1>3 DEF BootFails, RegisterFails, WriteFails, Abort, kernel, table
<1>4. CASE EpollWait
  <2>1. \A f \in Reported : EventOf(f) \in Events
    BY <1>t DEF Reported, EventOf, Events
  <2>2. PICK fs \in SUBSET Reported : SysWait(fs) /\ events' = {EventOf(f) : f \in fs}
    BY <1>4 DEF EpollWait
  <2>. QED  BY <1>t, <1>4, <2>1, <2>2 DEF EpollWait, SysWait, Reported
<1>5. ASSUME NEW e \in events, HandleError(e)  PROVE TypeOK'
  BY <1>t, <1>5 DEF HandleError, SysClose, Rest
<1>6. ASSUME NEW e \in events, HandleListen(e) \/ HandleData(e)  PROVE TypeOK'
  BY <1>t, <1>6 DEF HandleListen, HandleData, kernel, table
<1>7. CASE HandledAll \/ AcceptEnds
  BY <1>t, <1>7 DEF HandledAll, AcceptEnds, kernel, table
<1>8. ASSUME NEW f \in Fds, Accept(f)  PROVE TypeOK'
  <2>1. backlog # <<>> /\ backlog' = Tail(backlog) /\ Head(backlog) \in Conns
    BY <1>t, <1>8, HeadTailProperties DEF Accept, SysAccept
  <2>2. backlog' \in Seq(Conns)
    BY <1>t, <2>1, HeadTailProperties
  <2>. QED  BY <1>t, <1>8, <2>1, <2>2 DEF Accept, SysAccept
<1>9. CASE Register
  BY <1>t, <1>9 DEF Register, SysAdd, ReaderInv, WatchInv
<1>10. CASE Read
  <2>1. event.fd \in Fds /\ owner[event.fd] \in Conns
    BY <1>t, <1>10, EventFields DEF ReaderInv, ArrayInv, EventsFresh, Read
  <2>. DEFINE c == owner[event.fd]
  <2>2. PICK m \in Nat, w \in Nat :
          /\ w <= m /\ m <= input[c] /\ SysRead(c, m)
          /\ written' = [written EXCEPT ![c] = @ + w]
          /\ lost' = [lost EXCEPT ![c] = @ + (m - w)]
    <3>. DEFINE m == IF input[c] < BufSize THEN input[c] ELSE BufSize
    <3>1. m \in Nat /\ m <= input[c]
      BY <1>t, <2>1
    <3>2. PICK w \in 0..m : /\ SysRead(c, m)
                           /\ written' = [written EXCEPT ![c] = @ + w]
                           /\ lost' = [lost EXCEPT ![c] = @ + (m - w)]
      BY <1>10 DEF Read
    <3>3. w \in Nat /\ w <= m
      BY <3>1
    <3>. HIDE DEF m, c
    <3>. QED  BY <3>1, <3>2, <3>3
  <2>3. /\ input' \in [Conns -> Nat] /\ written' \in [Conns -> Nat] /\ lost' \in [Conns -> Nat]
        /\ \A d \in Conns : input'[d] <= input[d]
        /\ \A d \in Conns : written'[d] + lost'[d] + input'[d] = written[d] + lost[d] + input[d]
    <3>. HIDE DEF c
    <3>1. c \in Conns /\ m - w \in Nat
      BY <2>1, <2>2 DEF c
    <3>2. input' = [input EXCEPT ![c] = @ - m]
      BY <2>2 DEF SysRead
    <3>3. input' \in [Conns -> Nat] /\ \A d \in Conns : input'[d] <= input[d]
      <4>1. input \in [Conns -> Nat] /\ input[c] - m \in Nat /\ input[c] - m <= input[c]
        BY <1>t, <2>2, <3>1
      <4>. QED  BY <3>1, <3>2, <4>1
    <3>4. written' \in [Conns -> Nat] /\ lost' \in [Conns -> Nat]
      <4>1. written \in [Conns -> Nat] /\ lost \in [Conns -> Nat]
        BY <1>t
      <4>. HIDE DEF TypeOK, Kernel_TypeOK
      <4>. QED  BY <2>2, <3>1, <4>1
    <3>5. ASSUME NEW d \in Conns
          PROVE  written'[d] + lost'[d] + input'[d] = written[d] + lost[d] + input[d]
      <4>1. CASE d = c
        <5>1. /\ written'[d] = written[d] + w /\ lost'[d] = lost[d] + (m - w)
              /\ input'[d] = input[d] - m
          BY <1>t, <2>2, <3>1, <3>2, <4>1
        <5>2. written[d] \in Nat /\ lost[d] \in Nat /\ input[d] \in Nat
          BY <1>t
        <5>. QED  BY <5>1, <5>2
      <4>2. CASE d # c
        BY <1>t, <2>2, <3>1, <3>2, <4>2
      <4>. QED  BY <4>1, <4>2
    <3>. QED  BY <3>3, <3>4, <3>5
  <2>4. UNCHANGED <<backlog, owner, interest, ready, peer, sent>>
    BY <2>2 DEF SysRead, table
  <2>5. pc' = "read" /\ UNCHANGED <<events, event, infd, shortage>>
    BY <1>10 DEF Read, AfterRead
  <2>. HIDE DEF c
  <2>6. ASSUME NEW d \in Conns
        PROVE  /\ input'[d] <= sent'[d] /\ sent'[d] <= MaxSent[d]
               /\ written'[d] + lost'[d] + input'[d] <= sent'[d]
    BY <1>t, <2>3, <2>4
  <2>. QED  BY <1>t, <2>3, <2>4, <2>5, <2>6
<1>11. CASE ReadAll
  BY <1>t, <1>11, EventFields DEF ReadAll, kernel, table
<1>12. CASE ReadEnds
  BY <1>t, <1>12, EventFields DEF ReadEnds, Close, SysClose
<1>13. ASSUME NEW c \in Conns, ClientConnects(c)  PROVE TypeOK'
  BY <1>t, <1>13 DEF ClientConnects, PeerConnects, server
<1>14. ASSUME NEW c \in Conns, ClientSends(c)  PROVE TypeOK'
  <2>1. /\ input' = [input EXCEPT ![c] = @ + 1] /\ sent' = [sent EXCEPT ![c] = @ + 1]
        /\ sent[c] < MaxSent[c] /\ ready' = ready \cup Edge(c)
        /\ UNCHANGED <<backlog, owner, interest, peer, server>>
    BY <1>14 DEF ClientSends, PeerSends
  <2>2. input' \in [Conns -> Nat] /\ sent' \in [Conns -> Nat]
    BY <1>t, <2>1
  <2>3. ready' \subseteq interest'
    BY <1>t, <2>1 DEF Edge
  <2>4. ASSUME NEW d \in Conns
        PROVE  /\ input'[d] <= sent'[d] /\ sent'[d] <= MaxSent[d]
               /\ written[d] + lost[d] + input'[d] <= sent'[d]
    <3>1. /\ input \in [Conns -> Nat] /\ sent \in [Conns -> Nat]
          /\ written[d] \in Nat /\ lost[d] \in Nat /\ MaxSent[d] \in Nat
          /\ input[d] <= sent[d] /\ sent[d] <= MaxSent[d]
          /\ written[d] + lost[d] + input[d] <= sent[d]
      BY <1>t
    <3>. HIDE DEF TypeOK, Kernel_TypeOK
    <3>2. CASE d = c
      <4>1. input'[d] = input[d] + 1 /\ sent'[d] = sent[d] + 1 /\ sent[d] < MaxSent[d]
        BY <2>1, <3>1, <3>2
      <4>2. input[d] \in Nat /\ sent[d] \in Nat
        BY <3>1
      <4>. QED  BY <3>1, <4>1, <4>2
    <3>3. CASE d # c
      <4>1. input'[d] = input[d] /\ sent'[d] = sent[d]
        BY <2>1, <3>1, <3>3
      <4>. QED  BY <3>1, <4>1
    <3>. QED  BY <3>2, <3>3
  <2>. QED  BY <1>t, <2>1, <2>2, <2>3, <2>4 DEF server
<1>15. ASSUME NEW c \in Conns, ClientShuts(c) \/ ClientResets(c)  PROVE TypeOK'
  <2>1. /\ input' = input \/ input' = [input EXCEPT ![c] = 0]
        /\ peer' = [peer EXCEPT ![c] = "shut"] \/ peer' = [peer EXCEPT ![c] = "reset"]
        /\ ready' = ready \cup Edge(c)
        /\ UNCHANGED <<backlog, owner, interest, sent, server>>
    BY <1>15 DEF ClientShuts, PeerShuts, ClientResets, PeerResets
  <2>2. /\ input' \in [Conns -> Nat]
        /\ peer' \in [Conns -> {"none", "open", "shut", "reset"}]
        /\ \A d \in Conns : input'[d] <= input[d]
    <3>1. input \in [Conns -> Nat] /\ peer \in [Conns -> {"none", "open", "shut", "reset"}]
      BY <1>t
    <3>2. CASE input' = input
      BY <2>1, <3>1, <3>2
    <3>3. CASE input' = [input EXCEPT ![c] = 0]
      BY <2>1, <3>1, <3>3
    <3>. QED  BY <2>1, <3>2, <3>3
  <2>3. ready' \subseteq interest'
    BY <1>t, <2>1 DEF Edge
  <2>4. ASSUME NEW d \in Conns
        PROVE  input'[d] <= sent[d] /\ written[d] + lost[d] + input'[d] <= sent[d]
    <3>1. /\ input[d] \in Nat /\ sent[d] \in Nat /\ written[d] \in Nat /\ lost[d] \in Nat
          /\ input[d] <= sent[d] /\ written[d] + lost[d] + input[d] <= sent[d]
      BY <1>t
    <3>2. input'[d] \in Nat /\ input'[d] <= input[d]
      BY <2>2
    <3>. HIDE DEF TypeOK, Kernel_TypeOK
    <3>. QED  BY <3>1, <3>2
  <2>. QED  BY <1>t, <2>1, <2>2, <2>3, <2>4 DEF server
<1>. QED
  BY <1>1, <1>2, <1>3, <1>4, <1>5, <1>6, <1>7, <1>8, <1>9, <1>10, <1>11, <1>12,
     <1>13, <1>14, <1>15 DEF Next, ServerStep, ClientStep

\* The connections of the events still to be handled, and of the one being read.
LEMMA EventConn ==
  ReaderInv =>
    /\ \A e \in events : e.fd # ListenFd =>
         e.fd \in Fds /\ owner[e.fd] = e.conn /\ e.conn \in Conns
    /\ pc = "read" =>
         event.fd \in Fds /\ owner[event.fd] = event.conn /\ event.conn \in Conns
BY EventFields DEF ReaderInv, TypeOK, ArrayInv, EventsFresh, Watched

\* Descriptors are watched from registration to close, and owned meanwhile.
LEMMA WatchPreserved == ReaderInv /\ [Next]_vars => WatchInv'
<1>. SUFFICES ASSUME ReaderInv, [Next]_vars  PROVE WatchInv'
  OBVIOUS
<1>. USE ConnsAssumption, FdsAssumption DEF WatchInv, Running
<1>t. TypeOK /\ WatchInv /\ ArrayInv
  BY DEF ReaderInv
<1>1. CASE UNCHANGED vars
  BY <1>t, <1>1 DEF vars, server, kernel, table
<1>2. CASE Boot
  BY <1>t, <1>2 DEF Boot, SysListen
<1>3. CASE BootFails \/ RegisterFails \/ WriteFails
  BY <1>t, <1>3 DEF BootFails, RegisterFails, WriteFails, Abort, kernel, table
<1>4. CASE EpollWait
  <2>1. UNCHANGED <<owner, interest, infd>> /\ pc = "wait" /\ pc' = "dispatch"
    BY <1>4 DEF EpollWait, SysWait
  <2>. QED  BY <1>t, <2>1
<1>5. ASSUME NEW e \in events, HandleError(e)  PROVE WatchInv'
  <2>1. e.fd # ListenFd
    BY <1>t, <1>5 DEF HandleError, Failed, ArrayInv
  <2>. QED  BY <1>t, <1>5, <2>1 DEF HandleError, SysClose, TypeOK, Kernel_TypeOK, Watched
<1>6. ASSUME NEW e \in events, HandleListen(e) \/ HandleData(e)  PROVE WatchInv'
  BY <1>t, <1>6 DEF HandleListen, HandleData, kernel, table
<1>7. CASE HandledAll \/ AcceptEnds
  BY <1>t, <1>7 DEF HandledAll, AcceptEnds, kernel, table
<1>8. ASSUME NEW f \in Fds, Accept(f)  PROVE WatchInv'
  <2>1. Head(backlog) \in Conns
    BY <1>t, <1>8, AttachedByAccept DEF Accept, TypeOK
  <2>. QED  BY <1>t, <1>8, <2>1 DEF Accept, SysAccept, TypeOK, Kernel_TypeOK, Watched
<1>9. CASE Register
  BY <1>t, <1>9 DEF Register, SysAdd
<1>10. CASE Read
  BY <1>t, <1>10 DEF Read, SysRead, AfterRead, table
<1>11. CASE ReadAll
  BY <1>t, <1>11 DEF ReadAll, kernel, table
<1>12. CASE ReadEnds
  <2>1. event.fd # ListenFd
    BY <1>t, <1>12 DEF ReadEnds, ArrayInv
  <2>. QED  BY <1>t, <1>12, <2>1 DEF ReadEnds, Close, SysClose, TypeOK, Kernel_TypeOK, Watched
<1>13. ASSUME NEW c \in Conns, ClientStep(c)  PROVE WatchInv'
  BY <1>t, <1>13 DEF ClientStep, ClientConnects, PeerConnects, ClientSends, PeerSends,
     ClientShuts, PeerShuts, ClientResets, PeerResets, server
<1>. QED
  BY <1>1, <1>2, <1>3, <1>4, <1>5, <1>6, <1>7, <1>8, <1>9, <1>10, <1>11, <1>12,
     <1>13 DEF Next, ServerStep

\* The array holds one event for each descriptor, and no error is made up.
LEMMA ArrayPreserved == ReaderInv /\ [Next]_vars => ArrayInv'
<1>. SUFFICES ASSUME ReaderInv, [Next]_vars  PROVE ArrayInv'
  OBVIOUS
<1>. USE DEF ArrayInv
<1>t. TypeOK /\ ArrayInv /\ WatchInv
  BY DEF ReaderInv
<1>1. CASE UNCHANGED vars
  BY <1>t, <1>1 DEF vars, server, kernel, table
<1>2. CASE Boot
  BY <1>t, <1>2 DEF Boot, SysListen
<1>3. CASE BootFails \/ RegisterFails \/ WriteFails
  BY <1>t, <1>3 DEF BootFails, RegisterFails, WriteFails, Abort, kernel, table
<1>4. CASE EpollWait
  <2>1. \A f \in Reported : f # ListenFd => owner[f] \in Conns
    BY <1>t DEF Reported, TypeOK, Kernel_TypeOK, Watched, WatchInv
  <2>2. \A f \in Reported :
          /\ EventOf(f).fd = f
          /\ EventOf(f).err =>
               f # ListenFd /\ EventOf(f).conn = owner[f] /\ peer[owner[f]] = "reset"
    BY DEF EventOf
  <2>3. PICK fs \in SUBSET Reported :
          events' = {EventOf(f) : f \in fs} /\ pc' = "dispatch" /\ UNCHANGED peer
    BY <1>4 DEF EpollWait, SysWait
  <2>. QED  BY <2>1, <2>2, <2>3
<1>5. ASSUME NEW e \in events, HandleError(e)  PROVE ArrayInv'
  BY <1>t, <1>5 DEF HandleError, Rest, SysClose
<1>6. ASSUME NEW e \in events, HandleListen(e) \/ HandleData(e)  PROVE ArrayInv'
  BY <1>t, <1>6 DEF HandleListen, HandleData, kernel, table
<1>7. CASE HandledAll \/ AcceptEnds
  BY <1>t, <1>7 DEF HandledAll, AcceptEnds, kernel, table
<1>8. ASSUME NEW f \in Fds, Accept(f)  PROVE ArrayInv'
  BY <1>t, <1>8 DEF Accept, SysAccept
<1>9. CASE Register
  BY <1>t, <1>9 DEF Register, SysAdd
<1>10. CASE Read
  BY <1>t, <1>10 DEF Read, SysRead, AfterRead
<1>11. CASE ReadAll
  BY <1>t, <1>11 DEF ReadAll, kernel, table
<1>12. CASE ReadEnds
  BY <1>t, <1>12 DEF ReadEnds, Close, SysClose
<1>13. ASSUME NEW c \in Conns, ClientStep(c)  PROVE ArrayInv'
  <2>1. events' = events /\ pc' = pc /\ event' = event
    BY <1>13 DEF ClientStep, ClientConnects, ClientSends, ClientShuts, ClientResets, server
  <2>2. \A d \in Conns : peer[d] = "reset" => peer'[d] = "reset"
    BY <1>t, <1>13 DEF TypeOK, Kernel_TypeOK, ClientStep, ClientConnects, PeerConnects,
       ClientSends, PeerSends, ClientShuts, PeerShuts, ClientResets, PeerResets
  <2>. QED  BY <1>t, <2>1, <2>2
<1>. QED
  BY <1>1, <1>2, <1>3, <1>4, <1>5, <1>6, <1>7, <1>8, <1>9, <1>10, <1>11, <1>12,
     <1>13 DEF Next, ServerStep

\* A descriptor in the array is neither closed nor given to another connection.
LEMMA FreshPreserved == ReaderInv /\ [Next]_vars => EventsFresh'
<1>. SUFFICES ASSUME ReaderInv, [Next]_vars  PROVE EventsFresh'
  OBVIOUS
<1>. USE DEF EventsFresh
<1>t. TypeOK /\ ArrayInv /\ WatchInv /\ EventsFresh
  BY DEF ReaderInv
<1>c. /\ \A e \in events : e.fd # ListenFd => e.fd \in Fds
      /\ pc = "read" => event.fd \in Fds
  BY EventConn
<1>1. CASE UNCHANGED vars
  BY <1>t, <1>1 DEF vars, server, kernel, table
<1>2. CASE Boot
  BY <1>t, <1>2 DEF Boot, SysListen
<1>3. CASE BootFails \/ RegisterFails \/ WriteFails
  BY <1>t, <1>3 DEF BootFails, RegisterFails, WriteFails, Abort, kernel, table
<1>4. CASE EpollWait
  <2>1. \A f \in Reported : f # ListenFd => owner[f] # NoConn
    BY <1>t DEF Reported, TypeOK, Kernel_TypeOK, WatchInv
  <2>2. \A f \in Reported :
          EventOf(f).fd = f /\ (f # ListenFd => EventOf(f).conn = owner[f])
    BY DEF EventOf
  <2>3. PICK fs \in SUBSET Reported :
          events' = {EventOf(f) : f \in fs} /\ pc' = "dispatch" /\ UNCHANGED owner
    BY <1>4 DEF EpollWait, SysWait
  <2>. QED  BY <2>1, <2>2, <2>3
<1>5. ASSUME NEW e \in events, HandleError(e)  PROVE EventsFresh'
  BY <1>t, <1>c, <1>5 DEF HandleError, Rest, SysClose, ArrayInv
<1>6. ASSUME NEW e \in events, HandleListen(e) \/ HandleData(e)  PROVE EventsFresh'
  BY <1>t, <1>6 DEF HandleListen, HandleData, kernel, table
<1>7. CASE HandledAll \/ AcceptEnds
  BY <1>t, <1>7 DEF HandledAll, AcceptEnds, kernel, table
<1>8. ASSUME NEW f \in Fds, Accept(f)  PROVE EventsFresh'
  <2>1. owner[f] = NoConn /\ owner' = [owner EXCEPT ![f] = Head(backlog)]
    BY <1>8 DEF Accept, SysAccept, Free
  <2>2. \A e \in events : e.fd # ListenFd => owner'[e.fd] = owner[e.fd]
    BY <1>t, <1>c, <2>1 DEF TypeOK, Kernel_TypeOK
  <2>. QED  BY <1>t, <1>8, <2>2 DEF Accept
<1>9. CASE Register
  BY <1>t, <1>9 DEF Register, SysAdd
<1>10. CASE Read
  BY <1>t, <1>10 DEF Read, SysRead, AfterRead, table
<1>11. CASE ReadAll
  BY <1>t, <1>11 DEF ReadAll, kernel, table
<1>12. CASE ReadEnds
  BY <1>t, <1>c, <1>12 DEF ReadEnds, Close, SysClose, ArrayInv
<1>13. ASSUME NEW c \in Conns, ClientStep(c)  PROVE EventsFresh'
  BY <1>t, <1>13 DEF ClientStep, ClientConnects, PeerConnects, ClientSends, PeerSends,
     ClientShuts, PeerShuts, ClientResets, PeerResets, server
<1>. QED
  BY <1>1, <1>2, <1>3, <1>4, <1>5, <1>6, <1>7, <1>8, <1>9, <1>10, <1>11, <1>12,
     <1>13 DEF Next, ServerStep

\* An edge leaves the ready list only with an event, and the loops that read and
\* accept end only when there is nothing left or accept has failed.
LEMMA EdgesPreserved == ReaderInv /\ [Next]_vars => EdgesCover'
<1>. SUFFICES ASSUME ReaderInv, [Next]_vars  PROVE EdgesCover'
  OBVIOUS
<1>. USE DEF EdgesCover, Running, Pending
<1>t. TypeOK /\ ArrayInv /\ WatchInv /\ EdgesCover
  BY DEF ReaderInv
<1>c. /\ \A e \in events : e.fd # ListenFd => e.fd \in Fds
      /\ pc = "read" => event.fd \in Fds
  BY EventConn
<1>o. \A f \in interest \ {ListenFd} : f \in Fds /\ owner[f] \in Conns
  BY <1>t DEF TypeOK, Kernel_TypeOK, Watched, WatchInv
<1>1. CASE UNCHANGED vars
  BY <1>t, <1>1 DEF vars, server, kernel, table, Readable
<1>2. CASE Boot
  BY <1>2 DEF Boot, SysListen
<1>3. CASE BootFails \/ RegisterFails \/ WriteFails
  BY <1>3 DEF BootFails, RegisterFails, WriteFails, Abort
<1>4. CASE EpollWait
  <2>1. \A f \in Reported : EventOf(f).fd = f
    BY DEF EventOf
  <2>2. PICK fs \in SUBSET Reported :
          /\ events' = {EventOf(f) : f \in fs} /\ pc' = "dispatch"
          /\ ready' = Reported \ fs
          /\ UNCHANGED <<backlog, owner, interest, peer, input>>
    BY <1>4 DEF EpollWait, SysWait
  <2>3. \A f \in Reported : f \in ready' \/ Pending(f)'
    BY <2>1, <2>2
  <2>4. events = {} /\ pc = "wait"
    BY <1>t, <1>4 DEF ArrayInv, EpollWait
  <2>5. \A f \in interest \ {ListenFd} : Readable(owner[f]) => f \in Reported
    BY <1>t, <2>4 DEF Reported, Pollable
  <2>6. backlog # <<>> => ListenFd \in Reported \/ shortage
    BY <1>t, <2>4 DEF Reported, Pollable
  <2>7. shortage' = shortage
    BY <1>4 DEF EpollWait
  <2>. QED  BY <2>2, <2>3, <2>5, <2>6, <2>7 DEF Readable
<1>5. ASSUME NEW e \in events, HandleError(e)  PROVE EdgesCover'
  <2>1. /\ events' = events \ {e} /\ interest' = interest \ {e.fd}
        /\ ready' = ready \ {e.fd} /\ UNCHANGED <<backlog, peer, input, pc, event, shortage>>
        /\ owner' = [g \in Fds |-> IF g = e.fd THEN NoConn ELSE owner[g]]
    BY <1>5 DEF HandleError, Rest, SysClose
  <2>2. e.fd # ListenFd /\ pc = "dispatch"
    BY <1>t, <1>5 DEF HandleError, Failed, ArrayInv
  <2>. QED  BY <1>t, <1>o, <2>1, <2>2 DEF Readable
<1>6. ASSUME NEW e \in events, HandleListen(e)  PROVE EdgesCover'
  BY <1>t, <1>6 DEF HandleListen, kernel, table, Readable
<1>7. ASSUME NEW e \in events, HandleData(e)  PROVE EdgesCover'
  BY <1>t, <1>7 DEF HandleData, kernel, table, Readable
<1>8. CASE HandledAll
  BY <1>t, <1>8 DEF HandledAll, kernel, table, Readable
<1>9. ASSUME NEW f \in Fds, Accept(f)  PROVE EdgesCover'
  <2>1. \A g \in interest \ {ListenFd} : owner'[g] = owner[g]
    BY <1>t, <1>o, <1>9, ConnsAssumption DEF Accept, SysAccept, Free, TypeOK, Kernel_TypeOK
  <2>. QED  BY <1>t, <1>9, <2>1 DEF Accept, SysAccept, Readable
<1>10. CASE AcceptEnds
  BY <1>t, <1>10 DEF AcceptEnds, kernel, table, Readable
<1>11. CASE Register
  <2>1. infd \in Fds /\ infd # ListenFd
    BY <1>t, <1>11, FdsAssumption DEF Register, WatchInv
  <2>. QED  BY <1>t, <1>11, <2>1 DEF Register, SysAdd, Pollable, Readable
<1>12. CASE Read
  <2>1. pc = "read" /\ pc' = "read"
        /\ UNCHANGED <<events, event, shortage, backlog, owner, interest, ready, peer>>
    BY <1>12 DEF Read, SysRead, AfterRead, table
  <2>2. \A d \in Conns : input'[d] > 0 => input[d] > 0 \/ d = owner[event.fd]
    BY <1>t, <1>12 DEF Read, SysRead, TypeOK, Kernel_TypeOK
  <2>3. ASSUME NEW f \in interest' \ {ListenFd}, Readable(owner[f])'
        PROVE  f \in ready' \/ Pending(f)'
    <3>1. CASE f = event.fd
      BY <2>1, <3>1
    <3>2. CASE f # event.fd
      <4>1. CASE owner[f] = owner[event.fd]
        <5>1. Readable(owner[f])
          BY <1>t, <1>o, <1>12, <2>1, <4>1, BufSizeAssumption
             DEF Read, Readable, TypeOK, Kernel_TypeOK
        <5>. QED  BY <1>t, <2>1, <5>1
      <4>2. CASE owner[f] # owner[event.fd]
        <5>1. Readable(owner[f])
          BY <1>o, <2>1, <2>2, <2>3, <4>2 DEF Readable
        <5>. QED  BY <1>t, <2>1, <5>1
      <4>. QED  BY <4>1, <4>2
    <3>. QED  BY <3>1, <3>2
  <2>. QED  BY <1>t, <2>1, <2>3
<1>13. CASE ReadAll
  BY <1>t, <1>13 DEF ReadAll, kernel, table, Readable, ArrayInv
<1>14. CASE ReadEnds
  BY <1>t, <1>o, <1>14 DEF ReadEnds, Close, SysClose, Readable, ArrayInv
<1>15. ASSUME NEW c \in Conns, ClientConnects(c)  PROVE EdgesCover'
  <2>1. \A d \in Conns : Readable(d)' => Readable(d)
    BY <1>t, <1>15 DEF ClientConnects, PeerConnects, Readable, TypeOK, Kernel_TypeOK
  <2>. QED  BY <1>t, <1>o, <1>15, <2>1 DEF ClientConnects, PeerConnects, server, WatchInv
<1>16. ASSUME NEW c \in Conns, ClientSends(c) \/ ClientShuts(c) \/ ClientResets(c)
       PROVE  EdgesCover'
  <2>1. \A d \in Conns : Readable(d)' => Readable(d) \/ d = c
    BY <1>t, <1>16 DEF ClientSends, PeerSends, ClientShuts, PeerShuts, ClientResets,
       PeerResets, Readable, TypeOK, Kernel_TypeOK
  <2>2. ready' = ready \cup Edge(c) /\ UNCHANGED <<backlog, owner, interest, server>>
    BY <1>16 DEF ClientSends, PeerSends, ClientShuts, PeerShuts, ClientResets, PeerResets
  <2>. QED  BY <1>t, <1>o, <1>16, <2>1, <2>2 DEF server, Edge
<1>. QED
  BY <1>1, <1>2, <1>3, <1>4, <1>5, <1>6, <1>7, <1>8, <1>9, <1>10, <1>11, <1>12,
     <1>13, <1>14, <1>15, <1>16 DEF Next, ServerStep, ClientStep

\* A descriptor is closed unread only after a reset, and otherwise only when all
\* the data of the connection has been passed to write.
LEMMA DataPreserved == ReaderInv /\ [Next]_vars => DataInv'
<1>. SUFFICES ASSUME ReaderInv, [Next]_vars, NEW d \in Conns
     PROVE  /\ peer'[d] = "open" => Attached(d)'
            /\ peer'[d] # "reset" => written'[d] + lost'[d] + input'[d] = sent'[d]
            /\ peer'[d] = "shut" /\ ~ Attached(d)' => written'[d] + lost'[d] = sent'[d]
  BY DEF DataInv
<1>. USE DEF output
<1>. DEFINE Kept ==
       /\ peer'[d] = "open" => Attached(d)'
       /\ peer'[d] # "reset" => written'[d] + lost'[d] + input'[d] = sent'[d]
       /\ peer'[d] = "shut" /\ ~ Attached(d)' => written'[d] + lost'[d] = sent'[d]
<1>t. /\ TypeOK /\ Kernel_TypeOK /\ ArrayInv
      /\ peer[d] = "open" => Attached(d)
      /\ peer[d] # "reset" => written[d] + lost[d] + input[d] = sent[d]
      /\ peer[d] = "shut" /\ ~ Attached(d) => written[d] + lost[d] = sent[d]
  BY DEF ReaderInv, DataInv, TypeOK
<1>1. ASSUME UNCHANGED <<backlog, owner, peer, input, sent, written, lost>>  PROVE Kept
  BY <1>t, <1>1 DEF Attached, Accepted
<1>2. ASSUME NEW f \in Fds, SysClose(f), UNCHANGED <<written, lost>>,
             owner[f] = d => peer[d] = "reset" \/ (peer[d] = "shut" /\ input[d] = 0)
      PROVE  Kept
  <2>1. UNCHANGED <<peer, input, sent>>
    BY <1>2 DEF SysClose
  <2>2. CASE owner[f] = d
    BY <1>t, <1>2, <2>1, <2>2 DEF TypeOK
  <2>3. CASE owner[f] # d
    BY <1>t, <1>2, <2>1, <2>3, AttachedByClose
  <2>. QED  BY <2>2, <2>3
<1>3. ASSUME NEW e \in events, HandleError(e)  PROVE Kept
  <2>1. /\ e.fd \in Fds /\ owner[e.fd] = e.conn /\ peer[e.conn] = "reset"
    BY <1>t, <1>3, EventConn DEF HandleError, Failed, ArrayInv
  <2>. QED  BY <1>2, <1>3, <2>1 DEF HandleError
<1>4. ASSUME NEW f \in Fds, Accept(f)  PROVE Kept
  <2>1. SysAccept(f) /\ UNCHANGED <<peer, input, sent, written, lost>>
    BY <1>4 DEF Accept, SysAccept
  <2>. QED  BY <1>t, <2>1, AttachedByAccept
<1>5. ASSUME Read  PROVE Kept
  <2>1. UNCHANGED <<backlog, owner, peer, sent>>
    BY <1>5 DEF Read, SysRead, table
  <2>2. written'[d] + lost'[d] + input'[d] = written[d] + lost[d] + input[d]
    <3>1. owner[event.fd] \in Conns
      BY <1>5, EventConn DEF Read
    <3>. DEFINE c == owner[event.fd]
               n == IF input[c] < BufSize THEN input[c] ELSE BufSize
    <3>2. PICK w \in 0..n : /\ input' = [input EXCEPT ![c] = @ - n]
                           /\ written' = [written EXCEPT ![c] = @ + w]
                           /\ lost' = [lost EXCEPT ![c] = @ + (n - w)]
      BY <1>5 DEF Read, SysRead
    <3>3. n \in Nat /\ w \in Nat
      BY <1>t, <3>1, BufSizeAssumption DEF Kernel_TypeOK
    <3>4. input \in [Conns -> Nat] /\ written \in [Conns -> Nat] /\ lost \in [Conns -> Nat]
      BY <1>t DEF TypeOK, Kernel_TypeOK
    <3>. HIDE DEF n, c
    <3>5. CASE d = c
      <4>1. /\ written'[d] = written[d] + w /\ lost'[d] = lost[d] + (n - w)
            /\ input'[d] = input[d] - n
        BY <3>2, <3>4, <3>5
      <4>2. written[d] \in Nat /\ lost[d] \in Nat /\ input[d] \in Nat
        BY <3>4
      <4>. QED  BY <3>3, <4>1, <4>2
    <3>6. CASE d # c
      BY <3>2, <3>4, <3>6
    <3>. QED  BY <3>5, <3>6
  <2>3. Attached(d)' <=> Attached(d)
    BY <2>1 DEF Attached, Accepted
  <2>4. peer[d] = "shut" /\ ~ Attached(d) => written'[d] + lost'[d] = sent[d]
    <3>1. event.fd \in Fds /\ owner[event.fd] \in Conns
      BY <1>5, EventConn DEF Read
    <3>2. ~ Attached(d) => owner[event.fd] # d
      BY <3>1 DEF Attached, Accepted
    <3>3. owner[event.fd] # d => written'[d] = written[d] /\ lost'[d] = lost[d]
      BY <1>t, <1>5, <3>1 DEF Read, TypeOK
    <3>. QED  BY <1>t, <3>2, <3>3
  <2>. QED  BY <1>t, <2>1, <2>2, <2>3, <2>4
<1>6. ASSUME ReadEnds  PROVE Kept
  <2>1. event.fd \in Fds /\ owner[event.fd] \in Conns
    BY <1>6, EventConn DEF ReadEnds
  <2>2. owner[event.fd] = d => peer[d] = "reset" \/ (peer[d] = "shut" /\ input[d] = 0)
    BY <1>t, <1>6 DEF ReadEnds, Readable, Kernel_TypeOK
  <2>3. PICK f \in Fds : f = event.fd
    BY <2>1
  <2>4. SysClose(f) /\ UNCHANGED <<written, lost>>
    BY <1>6, <2>3 DEF ReadEnds, Close
  <2>. QED  BY <1>2, <2>2, <2>3, <2>4
<1>7. ASSUME NEW c \in Conns, ClientConnects(c)  PROVE Kept
  <2>1. PeerConnects(c) /\ UNCHANGED <<written, lost>>
    BY <1>7 DEF ClientConnects, server
  <2>2. Attached(c)' /\ (Attached(d)' <=> (Attached(d) \/ d = c))
    BY <1>t, <2>1, AttachedByConnect
  <2>3. /\ UNCHANGED <<input, sent>> /\ peer[c] = "none"
        /\ peer'[d] = IF d = c THEN "open" ELSE peer[d]
    BY <1>t, <2>1 DEF PeerConnects, Kernel_TypeOK
  <2>. QED  BY <1>t, <2>1, <2>2, <2>3
<1>8. ASSUME NEW c \in Conns, ClientSends(c)  PROVE Kept
  <2>1. /\ UNCHANGED <<backlog, owner, peer, written, lost>> /\ peer[c] = "open" /\ Attached(c)
        /\ input' = [input EXCEPT ![c] = @ + 1] /\ sent' = [sent EXCEPT ![c] = @ + 1]
    BY <1>8 DEF ClientSends, PeerSends, server
  <2>2. Attached(d)' <=> Attached(d)
    BY <2>1 DEF Attached, Accepted
  <2>3. CASE d = c
    <3>1. input'[d] = input[d] + 1 /\ sent'[d] = sent[d] + 1
      BY <1>t, <2>1, <2>3 DEF Kernel_TypeOK
    <3>2. /\ written[d] + lost[d] + input[d] = sent[d]
          /\ written[d] \in Nat /\ lost[d] \in Nat /\ input[d] \in Nat
      BY <1>t, <2>1, <2>3 DEF TypeOK, Kernel_TypeOK
    <3>. QED  BY <2>1, <2>2, <2>3, <3>1, <3>2
  <2>4. CASE d # c
    BY <1>t, <2>1, <2>2, <2>4 DEF Kernel_TypeOK
  <2>. QED  BY <2>3, <2>4
<1>9. ASSUME NEW c \in Conns, ClientShuts(c) \/ ClientResets(c)  PROVE Kept
  <2>1. Attached(d)' <=> Attached(d)
    BY <1>9 DEF ClientShuts, PeerShuts, ClientResets, PeerResets, Attached, Accepted
  <2>2. CASE ClientShuts(c)
    BY <1>t, <2>1, <2>2 DEF ClientShuts, PeerShuts, Kernel_TypeOK, server
  <2>3. CASE ClientResets(c)
    BY <1>t, <2>1, <2>3 DEF ClientResets, PeerResets, Kernel_TypeOK, server
  <2>. QED  BY <1>9, <2>2, <2>3
<1>10. ASSUME UNCHANGED vars \/ Boot \/ BootFails \/ EpollWait \/ HandledAll \/ AcceptEnds
       PROVE  Kept
  BY <1>1, <1>10 DEF vars, server, kernel, table, Boot, SysListen, BootFails, Abort, EpollWait,
     SysWait, HandledAll, AcceptEnds
<1>11. ASSUME NEW e \in events, HandleListen(e) \/ HandleData(e)  PROVE Kept
  BY <1>1, <1>11 DEF kernel, table, HandleListen, HandleData
<1>12. ASSUME Register \/ RegisterFails \/ WriteFails \/ ReadAll  PROVE Kept
  BY <1>1, <1>12 DEF kernel, table, Register, SysAdd, RegisterFails, WriteFails, Abort, ReadAll
<1>. HIDE DEF Kept
<1>13. Kept
  BY <1>3, <1>4, <1>5, <1>6, <1>7, <1>8, <1>9, <1>10, <1>11, <1>12
     DEF Next, ServerStep, ClientStep
<1>. QED  BY <1>13 DEF Kept

-----------------------------------------------------------------------------
(* The theorems. *)

\* The invariant holds initially.
LEMMA ReaderInvInit == Init => ReaderInv
<1>. SUFFICES ASSUME Init  PROVE ReaderInv
  OBVIOUS
<1>1. TypeOK
  <2>1. Kernel_TypeOK
    BY MaxSentAssumption DEF Init, Kernel_Init, Kernel_TypeOK, Watched
  <2>2. \A c \in Conns : written[c] + lost[c] + input[c] <= sent[c]
    BY DEF Init, Kernel_Init
  <2>. QED  BY <2>1, <2>2, EventFields DEF Init, TypeOK, Watched
<1>2. WatchInv /\ ArrayInv /\ EventsFresh /\ EdgesCover
  BY DEF Init, Kernel_Init, WatchInv, ArrayInv, EventsFresh, EdgesCover, Running
<1>3. DataInv
  BY DEF Init, Kernel_Init, DataInv
<1>. QED  BY <1>1, <1>2, <1>3 DEF ReaderInv

\* The inductive invariant of the reader.
THEOREM ReaderInvariant == Spec => []ReaderInv
<1>1. ReaderInv /\ [Next]_vars => ReaderInv'
  BY TypePreserved, WatchPreserved, ArrayPreserved, FreshPreserved, EdgesPreserved,
     DataPreserved DEF ReaderInv
<1>. QED  BY <1>1, ReaderInvInit, PTL DEF Spec

\* The program keeps its types, and never writes more than was sent.
THEOREM ReaderTypes == Spec => []TypeOK
<1>1. ReaderInv => TypeOK
  BY DEF ReaderInv
<1>. QED  BY <1>1, ReaderInvariant, PTL

\* No edge is lost, for any number of clients, descriptors and reads: whatever can
\* be read or accepted is still in the ready list, in the array or being handled.
THEOREM NoEdgeLost == Spec => []EdgesCover
<1>1. ReaderInv => EdgesCover
  BY DEF ReaderInv
<1>. QED  BY <1>1, ReaderInvariant, PTL

\* No event in the array is about a descriptor that was closed or reused since
\* epoll_wait returned.
THEOREM NoStaleEvent == Spec => []EventsFresh
<1>1. ReaderInv => EventsFresh
  BY DEF ReaderInv
<1>. QED  BY <1>1, ReaderInvariant, PTL

\* The data of a connection that ends without a reset is read and passed to write
\* before the connection is closed: only what short writes leave over is missing
\* from the standard output.
THEOREM NoDataDropped == Spec => []NothingDropped
<1>1. ReaderInv => NothingDropped
  BY DEF ReaderInv, DataInv, NothingDropped
<1>. QED  BY <1>1, ReaderInvariant, PTL

-----------------------------------------------------------------------------
(***************************************************************************)
(* HttpServer works on the same sockets.  Its array keeps the events of    *)
(* earlier batches; what its slots are about rests on a connection being   *)
(* in one place at a time and never coming back.                           *)
(***************************************************************************)

CONSTANT Stdin

VARIABLES main, n, i, ret, answered, robbed

Http == INSTANCE HttpServer

\* A connection that has been made is in one place of the queue of the socket, or
\* behind one descriptor, or gone.
OnePlace ==
  /\ \A c \in Conns : Attached(c) => peer[c] # "none"
  /\ \A f, g \in Fds : owner[f] = owner[g] /\ owner[f] # NoConn => f = g
  /\ \A k, l \in DOMAIN backlog : backlog[k] = backlog[l] => k = l
  /\ \A k \in DOMAIN backlog, f \in Fds : owner[f] # backlog[k]

\* A connection that arrives is new.
LEMMA OnePlaceByConnect ==
  ASSUME NEW c \in Conns, Kernel_TypeOK, OnePlace, PeerConnects(c)
  PROVE  OnePlace'
<1>1. /\ Len(backlog) \in Nat /\ DOMAIN backlog = 1..Len(backlog)
      /\ DOMAIN backlog' = 1..(Len(backlog) + 1)
      /\ backlog'[Len(backlog) + 1] = c
      /\ \A k \in 1..Len(backlog) : backlog'[k] = backlog[k]
  BY DEF Kernel_TypeOK, PeerConnects
<1>2. owner' = owner /\ peer' = [peer EXCEPT ![c] = "open"] /\ peer[c] = "none"
  BY DEF PeerConnects
<1>3. ~ Attached(c)
  BY <1>2 DEF OnePlace
<1>4. (\A k \in 1..Len(backlog) : backlog[k] # c) /\ \A f \in Fds : owner[f] # c
  BY <1>1, <1>3 DEF Attached, Accepted
<1>5. \A k \in 1..(Len(backlog) + 1) : k \in 1..Len(backlog) \/ k = Len(backlog) + 1
  BY <1>1
<1>6. \A d \in Conns : Attached(d)' => peer'[d] # "none"
  BY <1>2, AttachedByConnect DEF OnePlace, Kernel_TypeOK
<1>7. \A k, l \in DOMAIN backlog' : backlog'[k] = backlog'[l] => k = l
  BY <1>1, <1>4, <1>5 DEF OnePlace
<1>8. \A k \in DOMAIN backlog', f \in Fds : owner'[f] # backlog'[k]
  BY <1>1, <1>2, <1>4, <1>5 DEF OnePlace
<1>. QED  BY <1>2, <1>6, <1>7, <1>8 DEF OnePlace

\* accept moves a connection.
LEMMA OnePlaceByAccept ==
  ASSUME NEW f \in Fds, Kernel_TypeOK, OnePlace, SysAccept(f)
  PROVE  OnePlace'
<1>1. /\ backlog \in Seq(Conns) /\ backlog # <<>> /\ backlog' = Tail(backlog)
      /\ owner[f] = NoConn /\ owner \in [Fds -> Conns \cup {NoConn}]
      /\ owner' = [owner EXCEPT ![f] = Head(backlog)] /\ peer' = peer
  BY DEF Kernel_TypeOK, SysAccept, Free
<1>2. /\ Len(backlog) \in Nat \ {0} /\ DOMAIN backlog = 1..Len(backlog)
      /\ DOMAIN backlog' = 1..(Len(backlog) - 1)
      /\ \A k \in 1..(Len(backlog) - 1) : backlog'[k] = backlog[k + 1]
      /\ Head(backlog) = backlog[1] /\ backlog[1] \in Conns
  BY <1>1
<1>3. owner'[f] = backlog[1] /\ \A g \in Fds \ {f} : owner'[g] = owner[g]
  BY <1>1, <1>2
<1>4. \A k \in 1..(Len(backlog) - 1) : k + 1 \in DOMAIN backlog /\ k + 1 # 1
  BY <1>2
<1>5. 1 \in DOMAIN backlog
  BY <1>2
<1>6. \A d \in Conns : Attached(d)' => peer'[d] # "none"
  BY <1>1, AttachedByAccept DEF OnePlace
<1>7. \A g, h \in Fds : owner'[g] = owner'[h] /\ owner'[g] # NoConn => g = h
  BY <1>3, <1>5 DEF OnePlace
<1>8. \A k, l \in DOMAIN backlog' : backlog'[k] = backlog'[l] => k = l
  <2>1. \A k, l \in 1..(Len(backlog) - 1) : k + 1 = l + 1 => k = l
    BY <1>2
  <2>. QED  BY <1>2, <1>4, <2>1 DEF OnePlace
<1>9. \A k \in DOMAIN backlog', g \in Fds : owner'[g] # backlog'[k]
  BY <1>2, <1>3, <1>4, <1>5 DEF OnePlace
<1>. QED  BY <1>6, <1>7, <1>8, <1>9 DEF OnePlace

\* close ends a connection: it is in no place any more.
LEMMA OnePlaceByClose ==
  ASSUME NEW f \in Fds, Kernel_TypeOK, OnePlace, SysClose(f)
  PROVE  OnePlace' /\ \A c \in Conns : Attached(c)' <=> Attached(c) /\ owner[f] # c
<1>1. /\ owner' = [g \in Fds |-> IF g = f THEN NoConn ELSE owner[g]]
      /\ backlog' = backlog /\ peer' = peer /\ owner \in [Fds -> Conns \cup {NoConn}]
      /\ \A k \in DOMAIN backlog : backlog[k] \in Conns
  BY DEF SysClose, Kernel_TypeOK
<1>2. \A c \in Conns : Attached(c)' <=> Attached(c) /\ owner[f] # c
  BY <1>1, ConnsAssumption DEF OnePlace, Attached, Accepted
<1>3. OnePlace'
  BY <1>1, <1>2, ConnsAssumption DEF OnePlace
<1>. QED  BY <1>2, <1>3

\* Nothing else moves a connection.
LEMMA OnePlaceSame ==
  ASSUME OnePlace, UNCHANGED <<backlog, owner>>, \A c \in Conns : peer'[c] = "none" => peer[c] = "none"
  PROVE  OnePlace' /\ \A c : Attached(c)' <=> Attached(c)
<1>1. \A c : Attached(c)' <=> Attached(c)
  BY DEF Attached, Accepted
<1>. QED  BY <1>1 DEF OnePlace

\* The calls of the server and what clients do keep the types of the sockets.
LEMMA KernelTypes ==
  ASSUME Kernel_TypeOK,
         \/ SysListen \/ SysWait(Reported)
         \/ \E f \in Fds : SysAccept(f) \/ SysAdd(f) \/ SysClose(f)
         \/ \E c \in Conns : PeerConnects(c) \/ PeerSends(c) \/ PeerShuts(c) \/ PeerResets(c)
         \/ \E c \in Conns, m \in Nat : m <= input[c] /\ SysRead(c, m)
         \/ UNCHANGED kernel
  PROVE  Kernel_TypeOK'
<1>. USE MaxSentAssumption DEF Kernel_TypeOK, Watched
<1>1. CASE UNCHANGED kernel \/ SysWait(Reported) \/ SysListen
  BY <1>1 DEF kernel, table, SysWait, SysListen, Reported
<1>2. ASSUME NEW f \in Fds, SysAdd(f) \/ SysClose(f)  PROVE Kernel_TypeOK'
  BY <1>2 DEF SysAdd, SysClose
<1>3. ASSUME NEW f \in Fds, SysAccept(f)  PROVE Kernel_TypeOK'
  <2>1. backlog' \in Seq(Conns) /\ Head(backlog) \in Conns
    BY <1>3, HeadTailProperties DEF SysAccept
  <2>. QED  BY <1>3, <2>1 DEF SysAccept
<1>4. ASSUME NEW c \in Conns, PeerConnects(c)  PROVE Kernel_TypeOK'
  BY <1>4 DEF PeerConnects
<1>5. ASSUME NEW c \in Conns, PeerSends(c)  PROVE Kernel_TypeOK'
  <2>1. input' \in [Conns -> Nat] /\ sent' \in [Conns -> Nat]
    BY <1>5 DEF PeerSends
  <2>2. \A d \in Conns : input'[d] <= sent'[d] /\ sent'[d] <= MaxSent[d]
    BY <1>5 DEF PeerSends
  <2>. QED  BY <1>5, <2>1, <2>2 DEF PeerSends, Edge
<1>6. ASSUME NEW c \in Conns, PeerShuts(c)  PROVE Kernel_TypeOK'
  BY <1>6 DEF PeerShuts, Edge
<1>7. ASSUME NEW c \in Conns, PeerResets(c)  PROVE Kernel_TypeOK'
  <2>1. input' \in [Conns -> Nat] /\ \A d \in Conns : input'[d] <= input[d]
    BY <1>7 DEF PeerResets
  <2>2. \A d \in Conns : input'[d] <= sent'[d]
    BY <1>7, <2>1 DEF PeerResets
  <2>. QED  BY <1>7, <2>1, <2>2 DEF PeerResets, Edge
<1>8. ASSUME NEW c \in Conns, NEW m \in Nat, m <= input[c], SysRead(c, m)  PROVE Kernel_TypeOK'
  <2>1. input' \in [Conns -> Nat] /\ \A d \in Conns : input'[d] <= input[d]
    BY <1>8 DEF SysRead
  <2>2. UNCHANGED <<backlog, owner, interest, ready, peer, sent>>
    BY <1>8 DEF SysRead, table
  <2>3. \A d \in Conns : input'[d] <= sent'[d]
    BY <2>1, <2>2
  <2>. QED  BY <2>1, <2>2, <2>3
<1>. QED  BY <1>1, <1>2, <1>3, <1>4, <1>5, <1>6, <1>7, <1>8

-----------------------------------------------------------------------------
(* The array of HttpServer. *)

\* What is watched stands for a connection, and so does what was just accepted.
HttpWatch ==
  /\ \A f \in interest \cap Fds : owner[f] # NoConn
  /\ pc = "register" => infd \in Fds /\ owner[infd] # NoConn

\* The events to be handled are about different descriptors; the one being handled is
\* where its kind is handled.
HttpBatch ==
  /\ Http!Busy => i < n
  /\ \A k \in Http!Unhandled :
       \/ events[k].fd = ListenFd /\ events[k].conn = NoConn
       \/ events[k].fd \in Fds /\ events[k].conn \in Conns
  /\ \A k, l \in Http!Unhandled : events[k].fd = events[l].fd => k = l
  /\ pc \in {"accept", "register"} => events[i].fd = ListenFd
  /\ pc \in {"recv", "reply"} => events[i].fd \in Fds

\* Every slot is about a connection that was made; the event being handled, after recv
\* has failed and closed the descriptor, is about one that is gone.
HttpMade ==
  /\ \A k \in Http!Slots : events[k].conn \in Conns => peer[events[k].conn] # "none"
  /\ pc = "reply" => owner[events[i].fd] = events[i].conn \/ ~ Attached(events[i].conn)

HttpInv == Http!SlotsInv /\ OnePlace /\ HttpWatch /\ HttpBatch /\ HttpMade

\* The types of the server's own variables.
HttpTypes ==
  /\ main \in {"socket", "epoll_create", "epoll_ctl", "sleep", "exit"}
  /\ pc \in {"wait", "accept", "register", "recv", "reply", "exit"}
  /\ n \in -1..Cardinality(Watched)
  /\ i \in 0..Cardinality(Watched)
  /\ events \in [Http!Slots -> [fd : Watched \cup {Stdin}, conn : Conns \cup {NoConn}]]
  /\ infd \in Fds \cup {Stdin, -1}
  /\ ret \in {"none", "data", "nothing", "error"}
  /\ answered \subseteq Conns
  /\ robbed \subseteq Conns

\* What the slots are about.
HttpSlots ==
  \A k \in Http!Slots :
    events[k].conn \in Conns /\ ~ (k = i /\ pc = "reply") /\ pc # "exit" =>
      IF k \in Http!Unhandled THEN owner[events[k].fd] = events[k].conn
      ELSE ~ Attached(events[k].conn)

\* HttpServer counts descriptors as the theorems about finite sets do.
LEMMA SameCardinality == \A S : Http!Cardinality(S) = Cardinality(S)
  BY Zenon DEF Http!Cardinality, Cardinality

\* SlotsInv in three parts: the sockets, the server's variables and the slots.
LEMMA SlotsParts == Http!SlotsInv <=> Kernel_TypeOK /\ HttpTypes /\ HttpSlots
<1>1. Http!TypeOK <=> Kernel_TypeOK /\ HttpTypes
  <2>1. Http!Watched = Watched /\ Http!Cardinality(Watched) = Cardinality(Watched)
    BY SameCardinality DEF Http!Watched, Watched
  <2>2. Http!Kernel_TypeOK <=> Kernel_TypeOK
    BY <2>1 DEF Http!Kernel_TypeOK, Kernel_TypeOK
  <2>. QED  BY <2>1, <2>2 DEF Http!TypeOK, HttpTypes
<1>2. ASSUME HttpTypes, NEW k \in Http!Slots
      PROVE  events[k].conn \in Conns <=> events[k].conn # NoConn
  <2>1. events[k] \in [fd : Watched \cup {Stdin}, conn : Conns \cup {NoConn}]
    BY <1>2 DEF HttpTypes
  <2>. QED  BY <2>1, ConnsAssumption
<1>3. \A c : Http!Attached(c) <=> Attached(c)
  BY DEF Http!Attached, Http!Accepted, Attached, Accepted
<1>. QED  BY <1>1, <1>2, <1>3 DEF Http!SlotsInv, HttpSlots

-----------------------------------------------------------------------------
(* The steps of HttpServer, as far as the invariant is concerned. *)

\* Nothing but main and the result of a failing epoll_wait changes.
HttpQuiet ==
  /\ main' \in {"socket", "epoll_create", "epoll_ctl", "sleep", "exit"}
  /\ n' = n \/ (pc = "wait" /\ n' = -1)
  /\ UNCHANGED <<kernel, pc, i, events, infd, ret, answered, robbed>>

HttpListen ==
  SysListen /\ main' = "sleep" /\ UNCHANGED <<pc, n, i, events, infd, ret, answered, robbed>>

HttpExit ==
  /\ main' = "exit" /\ pc' = "exit" /\ n' = 0 /\ i' = 0 /\ infd' = Stdin /\ ret' = "none"
  /\ backlog' = <<>> /\ owner' = [f \in Fds |-> NoConn] /\ interest' = {} /\ ready' = {}
  /\ events' = [k \in Http!Slots |-> Http!NoEvent]
  /\ UNCHANGED <<peer, input, sent, answered, robbed>>

\* The first slots get an event for each descriptor reported.
HttpWait ==
  /\ pc = "wait" /\ Reported # {} /\ SysWait(Reported)
  /\ n' = Cardinality(Reported) /\ i' = 0
  /\ \E batch \in [0..(Cardinality(Reported) - 1) -> Reported] :
       /\ \A f \in Reported : \E k \in 0..(Cardinality(Reported) - 1) : batch[k] = f
       /\ events' = [k \in Http!Slots |-> IF k \in 0..(Cardinality(Reported) - 1)
                                          THEN Http!EventOf(batch[k]) ELSE events[k]]
       /\ pc' = IF batch[0] = ListenFd THEN "accept" ELSE "recv"
  /\ UNCHANGED <<main, infd, ret, answered, robbed>>

HttpAccept(f) ==
  /\ pc = "accept" /\ SysAccept(f) /\ infd' = f /\ pc' = "register"
  /\ UNCHANGED <<main, n, i, events, ret, answered, robbed>>

HttpRegister(f) ==
  /\ pc = "register" /\ infd = f /\ SysAdd(f) /\ pc' = "accept"
  /\ UNCHANGED <<main, n, i, events, infd, ret, answered, robbed>>

HttpNext ==
  /\ i' = i + 1
  /\ pc' = IF i + 1 < n THEN IF events[i + 1].fd = ListenFd THEN "accept" ELSE "recv" ELSE "wait"

HttpAccepted ==
  pc = "accept" /\ HttpNext /\ infd' = -1 /\ UNCHANGED <<kernel, main, n, events, ret, answered, robbed>>

\* recv reads from some connection, or finds nothing.
HttpRecv ==
  /\ pc = "recv" /\ pc' \in {"recv", "reply"}
  /\ UNCHANGED kernel \/ \E c \in Conns, m \in Nat : m <= input[c] /\ SysRead(c, m)
  /\ ret' \in {"data", "nothing"} /\ robbed' \subseteq Conns
  /\ UNCHANGED <<main, n, i, events, infd, answered>>

HttpError(f) ==
  /\ pc = "recv" /\ events[i].fd = f /\ SysClose(f) /\ pc' = "reply" /\ ret' = "error"
  /\ UNCHANGED <<main, n, i, events, infd, answered, robbed>>

HttpReply(f) ==
  /\ pc = "reply" /\ events[i].fd = f /\ SysClose(f) /\ HttpNext /\ ret' = "none"
  /\ answered' \subseteq answered \cup {events[i].conn}
  /\ UNCHANGED <<main, n, events, infd, robbed>>

HttpClient(c) ==
  /\ PeerConnects(c) \/ PeerSends(c) \/ PeerShuts(c) \/ PeerResets(c)
  /\ UNCHANGED <<main, pc, n, i, events, infd, ret, answered, robbed>>

\* The numbers: slots exist for every event there can be, and for the one after them.
LEMMA HttpNumbers ==
  ASSUME HttpTypes
  PROVE  /\ Cardinality(Watched) \in Nat /\ IsFiniteSet(Watched)
         /\ Http!Slots = 0..Cardinality(Watched)
         /\ n \in Int /\ n <= Cardinality(Watched) /\ i \in Nat
         /\ \A k \in Http!Slots : events[k].fd \in Watched \cup {Stdin}
                                  /\ events[k].conn \in Conns \cup {NoConn}
<1>1. IsFiniteSet(Watched)
  BY FdsAssumption, FS_AddElement DEF Watched
<1>2. Cardinality(Watched) \in Nat
  BY <1>1, FS_CardinalityType
<1>3. Http!Slots = 0..Cardinality(Watched)
  BY SameCardinality DEF Http!Slots, Http!Watched, Watched
<1>4. \A k \in Http!Slots : events[k] \in [fd : Watched \cup {Stdin}, conn : Conns \cup {NoConn}]
  BY DEF HttpTypes
<1>. QED  BY <1>1, <1>2, <1>3, <1>4 DEF HttpTypes

\* The event being handled is one of those not handled yet.
LEMMA HttpCurrent ==
  ASSUME HttpTypes, HttpBatch, Http!Busy
  PROVE  /\ i \in Http!Slots /\ i + 1 \in Http!Slots /\ n \in Http!Slots /\ n \in Nat /\ i < n
         /\ i \in Http!Unhandled /\ Http!Unhandled = i..(n - 1)
         /\ Http!Unhandled \subseteq Http!Slots
<1>1. /\ Cardinality(Watched) \in Nat /\ Http!Slots = 0..Cardinality(Watched)
      /\ n \in Int /\ n <= Cardinality(Watched) /\ i \in Nat /\ i < n
  BY HttpNumbers DEF HttpBatch
<1>2. Http!Unhandled = i..(n - 1)
  BY DEF Http!Unhandled
<1>. QED  BY <1>1, <1>2

\* Every step of the server or of a client is one of these.
LEMMA HttpCases ==
  ASSUME HttpInv, [Http!Next]_(Http!vars)
  PROVE  \/ HttpQuiet \/ HttpListen \/ HttpExit \/ HttpWait \/ HttpAccepted \/ HttpRecv
         \/ \E f \in Fds : HttpAccept(f) \/ HttpRegister(f) \/ HttpError(f) \/ HttpReply(f)
         \/ \E c \in Conns : HttpClient(c)
<1>1. Kernel_TypeOK /\ HttpTypes /\ HttpWatch /\ HttpBatch
  BY SlotsParts DEF HttpInv
<1>2. CASE Http!Listen \/ Http!EpollCreate \/ Http!EpollWaitFails \/ Http!AcceptFails
           \/ UNCHANGED Http!vars
  BY <1>1, <1>2 DEF Http!Listen, Http!EpollCreate, Http!EpollWaitFails, Http!AcceptFails, Http!vars,
     Http!server, Http!kernel, Http!table, kernel, table, HttpQuiet, HttpTypes
<1>3. CASE Http!AddListener
  BY <1>3 DEF Http!AddListener, Http!SysListen, SysListen, HttpListen
<1>4. CASE Http!Interrupt
  BY <1>4 DEF Http!Interrupt, HttpExit
<1>5. CASE Http!EpollWait
  <2>1. Http!Reported = Reported
    BY DEF Http!Reported, Http!Pollable, Http!Readable, Reported, Pollable, Readable
  <2>2. SysWait(Reported)
    BY <1>5, <2>1 DEF Http!EpollWait, Http!SysWait, SysWait
  <2>3. ASSUME NEW batch \in [0..(Cardinality(Reported) - 1) -> Reported]
        PROVE  /\ DOMAIN batch = 0..(Cardinality(Reported) - 1)
               /\ Http!Filled(batch) = [k \in Http!Slots |-> IF k \in 0..(Cardinality(Reported) - 1)
                                                             THEN Http!EventOf(batch[k]) ELSE events[k]]
               /\ Http!Handler(Http!EventOf(batch[0])) = IF batch[0] = ListenFd THEN "accept" ELSE "recv"
    BY DEF Http!Filled, Http!Handler, Http!EventOf
  <2>4. Http!Cardinality(Reported) = Cardinality(Reported)
    BY SameCardinality
  <2>5. PICK batch \in [0..(Cardinality(Reported) - 1) -> Reported] :
          /\ \A f \in Reported : \E k \in DOMAIN batch : batch[k] = f
          /\ events' = Http!Filled(batch)
          /\ pc' = Http!Handler(Http!EventOf(batch[0]))
    BY <1>5, <2>1, <2>4 DEF Http!EpollWait
  <2>6. /\ pc = "wait" /\ Reported # {} /\ n' = Cardinality(Reported) /\ i' = 0
        /\ UNCHANGED <<main, infd, ret, answered, robbed>>
    BY <1>5, <2>1, <2>4 DEF Http!EpollWait
  <2>7. HttpWait
    BY <2>2, <2>3, <2>5, <2>6 DEF HttpWait
  <2>. QED  BY <2>7
<1>6. CASE Http!Accept
  BY <1>6 DEF Http!Accept, Http!Free, Http!SysAccept, SysAccept, Free, HttpAccept
<1>7. CASE Http!Register
  <2>1. infd \in Fds
    BY <1>1, <1>7 DEF Http!Register, HttpWatch
  <2>. QED  BY <1>7, <2>1 DEF Http!Register, Http!SysAdd, Http!Pollable, Http!Readable, SysAdd, Pollable,
            Readable, HttpRegister
<1>8. CASE Http!AcceptedAll
  BY <1>8 DEF Http!AcceptedAll, Http!NextEvent, Http!Handler, Http!kernel, Http!table, kernel, table,
     HttpAccepted, HttpNext
<1>9. CASE Http!Recv
  <2>1. PICK c : c = Http!Source
    OBVIOUS
  <2>2. c \in Conns
    BY <1>1, <1>9, <2>1 DEF Http!Recv, Http!Source, Kernel_TypeOK
  <2>3. PICK m : m = IF input[c] < BufSize THEN input[c] ELSE BufSize
    OBVIOUS
  <2>4. m \in Nat /\ m <= input[c]
    BY <1>1, <2>2, <2>3, BufSizeAssumption DEF Kernel_TypeOK
  <2>5. SysRead(c, m)
    BY <1>9, <2>1, <2>3 DEF Http!Recv, Http!SysRead, Http!table, SysRead, table
  <2>6. robbed' \subseteq Conns
    BY <1>1, <1>9, <2>1, <2>2 DEF Http!Recv, HttpTypes
  <2>. QED  BY <1>9, <2>2, <2>4, <2>5, <2>6 DEF Http!Recv, HttpRecv
<1>10. CASE Http!RecvNothing
  BY <1>1, <1>10 DEF Http!RecvNothing, Http!kernel, Http!table, kernel, table, HttpRecv, HttpTypes
<1>11. CASE Http!RecvError
  <2>1. PICK f \in Fds : f = events[i].fd
    BY <1>1, <1>11 DEF Http!RecvError, HttpBatch
  <2>. QED  BY <1>11, <2>1 DEF Http!RecvError, Http!SysClose, SysClose, HttpError
<1>12. CASE Http!Reply
  <2>1. PICK f \in Fds : f = events[i].fd
    BY <1>1, <1>12 DEF Http!Reply, HttpBatch
  <2>. QED  BY <1>12, <2>1 DEF Http!Reply, Http!ReplyFd, Http!SysClose, SysClose, Http!NextEvent,
            Http!Handler, HttpNext, HttpReply
<1>13. ASSUME NEW c \in Conns, Http!ClientStep(c)  PROVE HttpClient(c)
  <2>1. Http!Attached(c) <=> Attached(c)
    BY DEF Http!Attached, Http!Accepted, Attached, Accepted
  <2>2. Http!Edge(c) = Edge(c)
    BY DEF Http!Edge, Edge
  <2>. QED  BY <1>13, <2>1, <2>2 DEF Http!ClientStep, Http!ClientConnects, Http!ClientSends,
            Http!ClientShuts, Http!ClientResets, Http!server, Http!PeerConnects, Http!PeerSends,
            Http!PeerShuts, Http!PeerResets, PeerConnects, PeerSends, PeerShuts, PeerResets, HttpClient
<1>. QED  BY <1>2, <1>3, <1>4, <1>5, <1>6, <1>7, <1>8, <1>9, <1>10, <1>11, <1>12, <1>13
          DEF Http!Next, Http!MainStep, Http!ServerStep

\* A step of the server or of a client.
HttpStep ==
  \/ HttpQuiet \/ HttpListen \/ HttpExit \/ HttpWait \/ HttpAccepted \/ HttpRecv
  \/ \E f \in Fds : HttpAccept(f) \/ HttpRegister(f) \/ HttpError(f) \/ HttpReply(f)
  \/ \E c \in Conns : HttpClient(c)

\* The number of slots does not change.
LEMMA HttpSlotsConstant == Http!Slots' = Http!Slots
  BY DEF Http!Slots, Http!Watched

\* What epoll_wait reports fits in the array.
LEMMA HttpReported ==
  ASSUME Kernel_TypeOK, Reported # {}
  PROVE  /\ Reported \subseteq Watched /\ IsFiniteSet(Reported)
         /\ Cardinality(Reported) \in Nat \ {0}
         /\ Cardinality(Reported) <= Cardinality(Watched)
         /\ Reported \cap Fds \subseteq interest
<1>1. Reported \subseteq interest /\ interest \subseteq Watched
  BY DEF Kernel_TypeOK, Reported
<1>2. IsFiniteSet(Watched)
  BY FdsAssumption, FS_AddElement DEF Watched
<1>3. Reported \subseteq Watched
  BY <1>1
<1>4. IsFiniteSet(Reported) /\ Cardinality(Reported) <= Cardinality(Watched)
  BY <1>2, <1>3, FS_Subset
<1>5. Cardinality(Reported) \in Nat /\ Cardinality(Reported) # 0
  BY <1>4, FS_CardinalityType, FS_EmptySet
<1>. QED  BY <1>1, <1>3, <1>4, <1>5

\* Every step keeps the types of the sockets and of the server's variables.
LEMMA HttpStepTypes ==
  ASSUME HttpInv, HttpStep
  PROVE  Kernel_TypeOK' /\ HttpTypes'
<1>1. Kernel_TypeOK /\ HttpTypes /\ HttpWatch /\ HttpBatch
  BY SlotsParts DEF HttpInv
<1>2. /\ Cardinality(Watched) \in Nat /\ Http!Slots = 0..Cardinality(Watched)
      /\ \A k \in Http!Slots : events[k].fd \in Watched \cup {Stdin}
                               /\ events[k].conn \in Conns \cup {NoConn}
  BY <1>1, HttpNumbers
<1>3. Http!Slots' = Http!Slots
  BY HttpSlotsConstant
<1>4. PICK E : E = [fd : Watched \cup {Stdin}, conn : Conns \cup {NoConn}]
  OBVIOUS
<1>5. /\ main \in {"socket", "epoll_create", "epoll_ctl", "sleep", "exit"}
      /\ pc \in {"wait", "accept", "register", "recv", "reply", "exit"}
      /\ n \in -1..Cardinality(Watched) /\ i \in 0..Cardinality(Watched)
      /\ events \in [Http!Slots -> E] /\ infd \in Fds \cup {Stdin, -1}
      /\ ret \in {"none", "data", "nothing", "error"}
      /\ answered \subseteq Conns /\ robbed \subseteq Conns
  BY <1>1, <1>4 DEF HttpTypes
<1>6. ASSUME /\ main' \in {"socket", "epoll_create", "epoll_ctl", "sleep", "exit"}
             /\ pc' \in {"wait", "accept", "register", "recv", "reply", "exit"}
             /\ n' \in -1..Cardinality(Watched) /\ i' \in 0..Cardinality(Watched)
             /\ events' \in [Http!Slots -> E] /\ infd' \in Fds \cup {Stdin, -1}
             /\ ret' \in {"none", "data", "nothing", "error"}
             /\ answered' \subseteq Conns /\ robbed' \subseteq Conns
      PROVE  HttpTypes'
  BY <1>3, <1>4, <1>6 DEF HttpTypes, Watched
<1>7. CASE HttpQuiet \/ HttpListen \/ HttpRecv
  <2>1. Kernel_TypeOK'
    BY <1>1, <1>7, KernelTypes DEF HttpQuiet, HttpListen, HttpRecv
  <2>. QED  BY <1>2, <1>5, <1>6, <1>7, <2>1 DEF HttpQuiet, HttpListen, HttpRecv
<1>8. CASE HttpExit
  <2>1. Kernel_TypeOK'
    BY <1>1, <1>8 DEF HttpExit, Kernel_TypeOK, Watched
  <2>2. Http!NoEvent \in E
    BY <1>4 DEF Http!NoEvent
  <2>. QED  BY <1>2, <1>5, <1>6, <1>8, <2>1, <2>2 DEF HttpExit
<1>9. CASE HttpWait
  <2>1. Kernel_TypeOK'
    BY <1>1, <1>9, KernelTypes DEF HttpWait
  <2>2. ASSUME NEW f \in Reported  PROVE Http!EventOf(f) \in E
    <3>1. f \in Watched
      BY <1>1, HttpReported
    <3>2. IF f = ListenFd THEN TRUE ELSE owner[f] \in Conns \cup {NoConn}
      BY <1>1, <3>1 DEF Watched, Kernel_TypeOK
    <3>. QED  BY <1>4, <3>1, <3>2 DEF Http!EventOf
  <2>3. n' = Cardinality(Reported) /\ n' \in Nat /\ n' <= Cardinality(Watched)
    BY <1>1, <1>9, HttpReported DEF HttpWait
  <2>4. events' \in [Http!Slots -> E]
    BY <1>5, <1>9, <2>2 DEF HttpWait
  <2>. QED  BY <1>2, <1>5, <1>6, <1>9, <2>1, <2>3, <2>4 DEF HttpWait
<1>10. CASE HttpAccepted
  <2>1. Kernel_TypeOK'
    BY <1>1, <1>10, KernelTypes DEF HttpAccepted
  <2>2. i + 1 \in 0..Cardinality(Watched)
    BY <1>1, <1>2, <1>10, HttpCurrent DEF HttpAccepted, Http!Busy
  <2>. QED  BY <1>5, <1>6, <1>10, <2>1, <2>2 DEF HttpAccepted, HttpNext
<1>11. ASSUME NEW f \in Fds, HttpAccept(f) \/ HttpRegister(f) \/ HttpError(f)
       PROVE  Kernel_TypeOK' /\ HttpTypes'
  <2>1. Kernel_TypeOK'
    BY <1>1, <1>11, KernelTypes DEF HttpAccept, HttpRegister, HttpError
  <2>. QED  BY <1>5, <1>6, <1>11, <2>1 DEF HttpAccept, HttpRegister, HttpError
<1>12. ASSUME NEW f \in Fds, HttpReply(f)
       PROVE  Kernel_TypeOK' /\ HttpTypes'
  <2>1. Kernel_TypeOK'
    BY <1>1, <1>12, KernelTypes DEF HttpReply
  <2>2. i + 1 \in 0..Cardinality(Watched) /\ i \in Http!Unhandled
    BY <1>1, <1>2, <1>12, HttpCurrent DEF HttpReply, Http!Busy
  <2>3. events[i].conn \in Conns
    BY <1>1, <1>12, <2>2, FdsAssumption DEF HttpReply, HttpBatch
  <2>. QED  BY <1>5, <1>6, <1>12, <2>1, <2>2, <2>3 DEF HttpReply, HttpNext
<1>13. ASSUME NEW c \in Conns, HttpClient(c)
       PROVE  Kernel_TypeOK' /\ HttpTypes'
  <2>1. Kernel_TypeOK'
    BY <1>1, <1>13, KernelTypes DEF HttpClient
  <2>. QED  BY <1>5, <1>6, <1>13, <2>1 DEF HttpClient
<1>. QED  BY <1>7, <1>8, <1>9, <1>10, <1>11, <1>12, <1>13 DEF HttpStep

\* No step brings a connection to a second place.
LEMMA HttpStepPlaces ==
  ASSUME HttpInv, HttpStep
  PROVE  OnePlace'
<1>1. Kernel_TypeOK /\ OnePlace
  BY SlotsParts DEF HttpInv
<1>2. CASE HttpQuiet \/ HttpListen \/ HttpWait \/ HttpAccepted \/ HttpRecv
  <2>1. UNCHANGED <<backlog, owner, peer>>
    BY <1>2 DEF HttpQuiet, HttpListen, HttpWait, HttpAccepted, HttpRecv, SysListen, SysWait, SysRead,
       kernel, table
  <2>. QED  BY <1>1, <2>1, OnePlaceSame
<1>3. CASE HttpExit
  <2>1. backlog' = <<>> /\ \A f \in Fds : owner'[f] = NoConn
    BY <1>3 DEF HttpExit
  <2>2. DOMAIN backlog' = {}
    BY <2>1
  <2>3. \A c \in Conns : ~ Attached(c)'
    BY <2>1, <2>2, ConnsAssumption DEF Attached, Accepted
  <2>. QED  BY <2>1, <2>2, <2>3 DEF OnePlace
<1>4. ASSUME NEW f \in Fds, HttpAccept(f) \/ HttpRegister(f) \/ HttpError(f) \/ HttpReply(f)
      PROVE  OnePlace'
  <2>1. CASE HttpAccept(f)
    BY <1>1, <2>1, OnePlaceByAccept DEF HttpAccept
  <2>2. CASE HttpRegister(f)
    <3>1. UNCHANGED <<backlog, owner, peer>>
      BY <2>2 DEF HttpRegister, SysAdd
    <3>. QED  BY <1>1, <3>1, OnePlaceSame
  <2>3. CASE HttpError(f) \/ HttpReply(f)
    BY <1>1, <2>3, OnePlaceByClose DEF HttpError, HttpReply
  <2>. QED  BY <1>4, <2>1, <2>2, <2>3
<1>5. ASSUME NEW c \in Conns, HttpClient(c)  PROVE OnePlace'
  <2>1. CASE PeerConnects(c)
    BY <1>1, <2>1, OnePlaceByConnect
  <2>2. CASE PeerSends(c) \/ PeerShuts(c) \/ PeerResets(c)
    <3>1. UNCHANGED <<backlog, owner>> /\ \A d \in Conns : peer'[d] = "none" => peer[d] = "none"
      BY <1>1, <2>2 DEF PeerSends, PeerShuts, PeerResets, Kernel_TypeOK
    <3>. QED  BY <1>1, <3>1, OnePlaceSame
  <2>. QED  BY <1>5, <2>1, <2>2 DEF HttpClient
<1>. QED  BY <1>2, <1>3, <1>4, <1>5 DEF HttpStep

\* What is added stands for a connection, and what is closed is no longer watched.
LEMMA HttpStepWatch ==
  ASSUME HttpInv, HttpStep
  PROVE  HttpWatch'
<1>1. Kernel_TypeOK /\ HttpWatch
  BY SlotsParts DEF HttpInv
<1>2. CASE HttpQuiet \/ HttpListen \/ HttpWait \/ HttpAccepted \/ HttpRecv
  <2>1. /\ UNCHANGED owner /\ interest' \cap Fds \subseteq interest
        /\ pc' = "register" => pc = "register" /\ infd' = infd
    BY <1>2, FdsAssumption DEF HttpQuiet, HttpListen, HttpWait, HttpAccepted, HttpNext, HttpRecv,
       SysListen, SysWait, SysRead, kernel, table
  <2>. QED  BY <1>1, <2>1 DEF HttpWatch
<1>3. CASE HttpExit
  BY <1>3 DEF HttpExit, HttpWatch
<1>4. ASSUME NEW f \in Fds, HttpAccept(f)  PROVE HttpWatch'
  <2>1. Head(backlog) \in Conns
    BY <1>1, <1>4, AttachedByAccept DEF HttpAccept
  <2>. QED  BY <1>1, <1>4, <2>1, ConnsAssumption DEF HttpAccept, SysAccept, Free, HttpWatch, Kernel_TypeOK
<1>5. ASSUME NEW f \in Fds, HttpRegister(f)  PROVE HttpWatch'
  BY <1>1, <1>5 DEF HttpRegister, SysAdd, HttpWatch
<1>6. ASSUME NEW f \in Fds, HttpError(f) \/ HttpReply(f)  PROVE HttpWatch'
  <2>1. pc' # "register" /\ SysClose(f)
    BY <1>6 DEF HttpError, HttpReply, HttpNext
  <2>. QED  BY <1>1, <2>1 DEF SysClose, HttpWatch
<1>7. ASSUME NEW c \in Conns, HttpClient(c)  PROVE HttpWatch'
  BY <1>1, <1>7 DEF HttpClient, PeerConnects, PeerSends, PeerShuts, PeerResets, HttpWatch
<1>. QED  BY <1>2, <1>3, <1>4, <1>5, <1>6, <1>7 DEF HttpStep

-----------------------------------------------------------------------------
(* The events and the slots, step by step. *)

HttpEvents == HttpBatch /\ HttpMade /\ HttpSlots

\* Steps that leave the queue, the descriptors, the array and the place in it alone.
LEMMA HttpSame ==
  ASSUME HttpInv, UNCHANGED <<backlog, owner, i, events>>,
         \A c \in Conns : peer'[c] = "none" => peer[c] = "none",
         \/ UNCHANGED pc /\ (n' = n \/ pc = "wait")
         \/ n' = n /\ pc = "recv" /\ pc' \in {"recv", "reply"}
         \/ n' = n /\ pc = "register" /\ pc' = "accept"
  PROVE  HttpEvents'
<1>1. HttpTypes /\ HttpSlots /\ HttpBatch /\ HttpMade /\ OnePlace
  BY SlotsParts DEF HttpInv
<1>2. Http!Slots' = Http!Slots
  BY HttpSlotsConstant
<1>3. \A c : Attached(c)' <=> Attached(c)
  BY <1>1, OnePlaceSame
<1>4. (Http!Busy' <=> Http!Busy) /\ (Http!Busy => n' = n) /\ Http!Unhandled' = Http!Unhandled
  BY DEF Http!Busy, Http!Unhandled
<1>5. HttpBatch'
  BY <1>1, <1>4 DEF HttpBatch
<1>6. HttpMade'
  <2>1. ASSUME pc = "recv"  PROVE owner[events[i].fd] = events[i].conn
    <3>1. i \in Http!Unhandled /\ i \in Http!Slots
      BY <1>1, <2>1, HttpCurrent DEF Http!Busy
    <3>2. events[i].conn \in Conns
      BY <1>1, <2>1, <3>1, FdsAssumption DEF HttpBatch
    <3>. QED  BY <1>1, <2>1, <3>1, <3>2 DEF HttpSlots
  <2>2. pc' = "reply" => pc \in {"recv", "reply"}
    OBVIOUS
  <2>. QED  BY <1>1, <1>2, <1>3, <2>1, <2>2 DEF HttpMade
<1>7. HttpSlots'
  <2>1. pc = "reply" => pc' = "reply"
    OBVIOUS
  <2>2. pc = "exit" => pc' = "exit"
    OBVIOUS
  <2>. QED  BY <1>1, <1>2, <1>3, <1>4, <2>1, <2>2 DEF HttpSlots
<1>. QED  BY <1>5, <1>6, <1>7 DEF HttpEvents

\* A connection that arrives is new to every slot.
LEMMA HttpConnects ==
  ASSUME HttpInv, NEW c \in Conns, PeerConnects(c), UNCHANGED <<pc, n, i, events>>
  PROVE  HttpEvents'
<1>1. Kernel_TypeOK /\ HttpTypes /\ HttpSlots /\ HttpBatch /\ HttpMade /\ OnePlace
  BY SlotsParts DEF HttpInv
<1>2. Http!Slots' = Http!Slots
  BY HttpSlotsConstant
<1>3. (Http!Busy' <=> Http!Busy) /\ Http!Unhandled' = Http!Unhandled
  BY DEF Http!Busy, Http!Unhandled
<1>4. owner' = owner /\ peer[c] = "none" /\ \A d \in Conns : peer'[d] = "none" => peer[d] = "none"
  BY <1>1 DEF PeerConnects, Kernel_TypeOK
<1>5. \A d \in Conns : peer[d] # "none" => (Attached(d)' <=> Attached(d))
  BY <1>1, <1>4, AttachedByConnect
<1>6. HttpBatch'
  BY <1>1, <1>3 DEF HttpBatch
<1>7. HttpMade'
  <2>1. ASSUME pc = "reply"  PROVE events[i].conn \in Conns /\ peer[events[i].conn] # "none"
    <3>1. i \in Http!Unhandled /\ i \in Http!Slots
      BY <1>1, <2>1, HttpCurrent DEF Http!Busy
    <3>2. events[i].conn \in Conns
      BY <1>1, <2>1, <3>1, FdsAssumption DEF HttpBatch
    <3>. QED  BY <1>1, <3>1, <3>2 DEF HttpMade
  <2>2. PICK d : d = events[i].conn
    OBVIOUS
  <2>3. pc = "reply" => (Attached(d)' <=> Attached(d))
    BY <1>5, <2>1, <2>2
  <2>4. pc = "reply" => owner[events[i].fd] = d \/ ~ Attached(d)'
    BY <1>1, <2>2, <2>3 DEF HttpMade
  <2>5. events' = events /\ i' = i /\ pc' = pc
    OBVIOUS
  <2>6. pc' = "reply" => owner'[events'[i'].fd] = d \/ ~ Attached(d)'
    BY <1>4, <2>4, <2>5
  <2>7. d = events'[i'].conn
    BY <2>2, <2>5
  <2>8. ASSUME NEW k \in Http!Slots, events[k].conn \in Conns  PROVE peer'[events[k].conn] # "none"
    BY <1>1, <1>4, <2>8 DEF HttpMade
  <2>. QED  BY <1>2, <2>5, <2>6, <2>7, <2>8 DEF HttpMade, Attached, Accepted
<1>8. HttpSlots'
  <2>1. ASSUME NEW k \in Http!Slots, events[k].conn \in Conns, ~ (k = i /\ pc = "reply"), pc # "exit"
        PROVE  IF k \in Http!Unhandled THEN owner[events[k].fd] = events[k].conn
               ELSE ~ Attached(events[k].conn)'
    <3>1. PICK d \in Conns : d = events[k].conn
      BY <2>1
    <3>2. peer[d] # "none"
      BY <1>1, <2>1, <3>1 DEF HttpMade
    <3>3. IF k \in Http!Unhandled THEN owner[events[k].fd] = d ELSE ~ Attached(d)
      BY <1>1, <2>1, <3>1 DEF HttpSlots
    <3>4. IF k \in Http!Unhandled THEN owner[events[k].fd] = d ELSE ~ Attached(d)'
      BY <1>5, <3>2, <3>3
    <3>5. d = events'[k].conn
      BY <3>1
    <3>. QED  BY <3>1, <3>4, <3>5 DEF Attached, Accepted
  <2>. QED  BY <1>2, <1>3, <1>4, <2>1 DEF HttpSlots, Attached, Accepted
<1>. QED  BY <1>6, <1>7, <1>8 DEF HttpEvents

\* accept uses a free descriptor: no event to be handled is about one.
LEMMA HttpAccepts ==
  ASSUME HttpInv, NEW f \in Fds, HttpAccept(f)
  PROVE  HttpEvents'
<1>1. Kernel_TypeOK /\ HttpTypes /\ HttpSlots /\ HttpBatch /\ HttpMade
  BY SlotsParts DEF HttpInv
<1>2. Http!Slots' = Http!Slots
  BY HttpSlotsConstant
<1>3. /\ pc = "accept" /\ pc' = "register" /\ UNCHANGED <<n, i, events, peer>>
      /\ owner[f] = NoConn /\ \A g \in Fds \ {f} : owner'[g] = owner[g]
  BY <1>1 DEF HttpAccept, SysAccept, Free, Kernel_TypeOK
<1>4. \A d \in Conns : Attached(d)' <=> Attached(d)
  BY <1>1, AttachedByAccept DEF HttpAccept
<1>5. Http!Busy /\ Http!Busy' /\ Http!Unhandled' = Http!Unhandled
  BY <1>3 DEF Http!Busy, Http!Unhandled
<1>6. HttpBatch'
  BY <1>1, <1>3, <1>5 DEF HttpBatch
<1>7. HttpMade'
  BY <1>1, <1>2, <1>3 DEF HttpMade
<1>8. HttpSlots'
  <2>1. ASSUME NEW k \in Http!Slots, events[k].conn \in Conns
        PROVE  IF k \in Http!Unhandled THEN owner'[events[k].fd] = events[k].conn
               ELSE ~ Attached(events[k].conn)'
    <3>1. PICK d \in Conns : d = events[k].conn
      BY <2>1
    <3>2. IF k \in Http!Unhandled THEN owner[events[k].fd] = d ELSE ~ Attached(d)
      BY <1>1, <1>3, <2>1, <3>1 DEF HttpSlots
    <3>3. k \in Http!Unhandled => events[k].fd \in Fds \ {f}
      BY <1>1, <1>3, <2>1, <3>1, <3>2, ConnsAssumption DEF HttpBatch
    <3>4. IF k \in Http!Unhandled THEN owner'[events[k].fd] = d ELSE ~ Attached(d)'
      BY <1>3, <1>4, <3>2, <3>3
    <3>5. d = events'[k].conn
      BY <1>3, <3>1
    <3>. QED  BY <3>1, <3>4, <3>5 DEF Attached, Accepted
  <2>. QED  BY <1>2, <1>3, <1>5, <2>1 DEF HttpSlots, Attached, Accepted
<1>. QED  BY <1>6, <1>7, <1>8 DEF HttpEvents

\* The loop goes on to the next event: the one just handled counts as stale.
LEMMA HttpMovesOn ==
  ASSUME HttpTypes, HttpBatch, Http!Busy, HttpNext, UNCHANGED <<n, events>>
  PROVE  HttpBatch' /\ Http!Unhandled' = Http!Unhandled \ {i} /\ pc' \notin {"reply", "exit"}
<1>1. /\ i \in Nat /\ n \in Nat /\ i < n /\ Http!Unhandled = i..(n - 1) /\ i \in Http!Unhandled
  BY HttpCurrent, HttpNumbers
<1>2. /\ i' = i + 1 /\ n' = n /\ events' = events
      /\ pc' = IF i + 1 < n THEN IF events[i + 1].fd = ListenFd THEN "accept" ELSE "recv" ELSE "wait"
  BY DEF HttpNext
<1>3. CASE i + 1 < n
  <2>1. Http!Busy' /\ Http!Unhandled' = (i + 1)..(n - 1)
    BY <1>2, <1>3 DEF Http!Busy, Http!Unhandled
  <2>2. Http!Unhandled' = Http!Unhandled \ {i} /\ i + 1 \in Http!Unhandled
    BY <1>1, <1>3, <2>1
  <2>3. HttpBatch'
    BY <1>1, <1>2, <1>3, <2>1, <2>2, FdsAssumption DEF HttpBatch
  <2>. QED  BY <1>2, <2>2, <2>3
<1>4. CASE ~ (i + 1 < n)
  <2>1. pc' = "wait" /\ ~ Http!Busy' /\ Http!Unhandled' = {}
    BY <1>2, <1>4 DEF Http!Busy, Http!Unhandled
  <2>2. Http!Unhandled \ {i} = {}
    BY <1>1, <1>4
  <2>3. HttpBatch'
    BY <2>1 DEF HttpBatch
  <2>. QED  BY <2>1, <2>2, <2>3
<1>. QED  BY <1>3, <1>4

\* The event of the listening socket is about no connection.
LEMMA HttpAcceptsAll ==
  ASSUME HttpInv, HttpAccepted
  PROVE  HttpEvents'
<1>1. Kernel_TypeOK /\ HttpTypes /\ HttpSlots /\ HttpBatch /\ HttpMade /\ OnePlace
  BY SlotsParts DEF HttpInv
<1>2. Http!Slots' = Http!Slots
  BY HttpSlotsConstant
<1>3. pc = "accept" /\ HttpNext /\ UNCHANGED <<backlog, owner, peer, n, events>>
  BY DEF HttpAccepted, kernel, table
<1>4. Http!Busy
  BY <1>3 DEF Http!Busy
<1>5. HttpBatch' /\ Http!Unhandled' = Http!Unhandled \ {i} /\ pc' \notin {"reply", "exit"}
  BY <1>1, <1>3, <1>4, HttpMovesOn
<1>6. HttpMade'
  BY <1>1, <1>2, <1>3, <1>5 DEF HttpMade
<1>7. events[i].conn \notin Conns
  BY <1>1, <1>3, <1>4, HttpCurrent, FdsAssumption, ConnsAssumption DEF HttpBatch
<1>8. HttpSlots'
  <2>1. \A c : Attached(c)' <=> Attached(c)
    BY <1>3 DEF Attached, Accepted
  <2>. QED  BY <1>1, <1>2, <1>3, <1>5, <1>7, <2>1 DEF HttpSlots
<1>. QED  BY <1>5, <1>6, <1>8 DEF HttpEvents

\* Closing the descriptor of the event being handled ends its connection, and no
\* other event to be handled is about that descriptor.
LEMMA HttpCloses ==
  ASSUME HttpInv, NEW f \in Fds, pc \in {"recv", "reply"}, events[i].fd = f, SysClose(f)
  PROVE  /\ i \in Http!Slots /\ i \in Http!Unhandled
         /\ \A k \in Http!Slots : k # i /\ events[k].conn \in Conns =>
              IF k \in Http!Unhandled THEN owner'[events[k].fd] = events[k].conn
              ELSE \E c \in Conns : c = events[k].conn /\ ~ Attached(c)'
         /\ \E c \in Conns : c = events[i].conn /\ ~ Attached(c)'
         /\ owner'[f] = NoConn
<1>1. Kernel_TypeOK /\ HttpTypes /\ HttpSlots /\ HttpBatch /\ HttpMade /\ OnePlace
  BY SlotsParts DEF HttpInv
<1>2. i \in Http!Slots /\ i \in Http!Unhandled
  BY <1>1, HttpCurrent DEF Http!Busy
<1>3. /\ owner'[f] = NoConn /\ \A g \in Fds \ {f} : owner'[g] = owner[g]
      /\ \A c \in Conns : Attached(c)' <=> Attached(c) /\ owner[f] # c
  BY <1>1, OnePlaceByClose DEF SysClose
<1>4. PICK c \in Conns : c = events[i].conn
  BY <1>1, <1>2, FdsAssumption DEF HttpBatch
<1>5. owner[f] = c \/ ~ Attached(c)
  BY <1>1, <1>2, <1>4 DEF HttpSlots, HttpMade
<1>6. ~ Attached(c)'
  BY <1>3, <1>5
<1>7. ASSUME NEW k \in Http!Slots, k # i, events[k].conn \in Conns
      PROVE  IF k \in Http!Unhandled THEN owner'[events[k].fd] = events[k].conn
             ELSE \E d \in Conns : d = events[k].conn /\ ~ Attached(d)'
  <2>1. PICK d \in Conns : d = events[k].conn
    BY <1>7
  <2>2. IF k \in Http!Unhandled THEN owner[events[k].fd] = d ELSE ~ Attached(d)
    BY <1>1, <1>7, <2>1 DEF HttpSlots
  <2>3. k \in Http!Unhandled => events[k].fd \in Fds \ {f}
    BY <1>1, <1>2, <1>7, ConnsAssumption DEF HttpBatch
  <2>. QED  BY <1>3, <2>1, <2>2, <2>3
<1>. QED  BY <1>2, <1>3, <1>4, <1>6, <1>7

\* recv fails and the descriptor is closed for the first time.
LEMMA HttpFails ==
  ASSUME HttpInv, NEW f \in Fds, HttpError(f)
  PROVE  HttpEvents'
<1>1. Kernel_TypeOK /\ HttpTypes /\ HttpSlots /\ HttpBatch /\ HttpMade /\ OnePlace
  BY SlotsParts DEF HttpInv
<1>2. Http!Slots' = Http!Slots
  BY HttpSlotsConstant
<1>3. /\ pc = "recv" /\ pc' = "reply" /\ events[i].fd = f /\ SysClose(f)
      /\ UNCHANGED <<n, i, events, peer>>
  BY DEF HttpError, SysClose
<1>4. Http!Busy /\ Http!Busy' /\ Http!Unhandled' = Http!Unhandled
  BY <1>3 DEF Http!Busy, Http!Unhandled
<1>5. HttpBatch'
  BY <1>1, <1>3, <1>4 DEF HttpBatch
<1>6. /\ \A k \in Http!Slots : k # i /\ events[k].conn \in Conns =>
           IF k \in Http!Unhandled THEN owner'[events[k].fd] = events[k].conn
           ELSE \E c \in Conns : c = events[k].conn /\ ~ Attached(c)'
      /\ \E c \in Conns : c = events[i].conn /\ ~ Attached(c)'
  BY <1>3, HttpCloses
<1>7. HttpMade'
  BY <1>1, <1>2, <1>3, <1>6 DEF HttpMade, Attached, Accepted
<1>8. HttpSlots'
  BY <1>2, <1>3, <1>4, <1>6 DEF HttpSlots, Attached, Accepted
<1>. QED  BY <1>5, <1>7, <1>8 DEF HttpEvents

\* The answer is sent and the descriptor closed, perhaps for the second time.
LEMMA HttpReplies ==
  ASSUME HttpInv, NEW f \in Fds, HttpReply(f)
  PROVE  HttpEvents'
<1>1. Kernel_TypeOK /\ HttpTypes /\ HttpSlots /\ HttpBatch /\ HttpMade /\ OnePlace
  BY SlotsParts DEF HttpInv
<1>2. Http!Slots' = Http!Slots
  BY HttpSlotsConstant
<1>3. /\ pc = "reply" /\ events[i].fd = f /\ SysClose(f) /\ HttpNext
      /\ UNCHANGED <<n, events, peer>>
  BY DEF HttpReply, SysClose
<1>4. Http!Busy
  BY <1>3 DEF Http!Busy
<1>5. HttpBatch' /\ Http!Unhandled' = Http!Unhandled \ {i} /\ pc' \notin {"reply", "exit"}
  BY <1>1, <1>3, <1>4, HttpMovesOn
<1>6. /\ \A k \in Http!Slots : k # i /\ events[k].conn \in Conns =>
           IF k \in Http!Unhandled THEN owner'[events[k].fd] = events[k].conn
           ELSE \E c \in Conns : c = events[k].conn /\ ~ Attached(c)'
      /\ \E c \in Conns : c = events[i].conn /\ ~ Attached(c)'
  BY <1>3, HttpCloses
<1>7. HttpMade'
  BY <1>1, <1>2, <1>3, <1>5 DEF HttpMade
<1>8. HttpSlots'
  BY <1>2, <1>3, <1>5, <1>6 DEF HttpSlots, Attached, Accepted
<1>. QED  BY <1>5, <1>7, <1>8 DEF HttpEvents

\* As many slots as descriptors reported, and each reported: none twice.
LEMMA HttpOnce ==
  ASSUME NEW R, IsFiniteSet(R), Cardinality(R) \in Nat \ {0},
         NEW batch \in [0..(Cardinality(R) - 1) -> R],
         \A f \in R : \E k \in 0..(Cardinality(R) - 1) : batch[k] = f
  PROVE  \A k, l \in 0..(Cardinality(R) - 1) : batch[k] = batch[l] => k = l
<1>1. PICK D : D = 0..(Cardinality(R) - 1)
  OBVIOUS
<1>2. IsFiniteSet(D) /\ Cardinality(D) = Cardinality(R)
  BY <1>1, FS_Interval
<1>3. batch \in Surjection(D, R)
  BY <1>1 DEF Surjection
<1>4. batch \in Injection(D, R)
  BY <1>2, <1>3, FS_Surjection
<1>. QED  BY <1>1, <1>4 DEF Injection, IsInjective

\* epoll_wait is called when every slot is stale, and reports each descriptor once,
\* with the connection behind it.
LEMMA HttpWaits ==
  ASSUME HttpInv, HttpWait
  PROVE  HttpEvents'
<1>1. Kernel_TypeOK /\ HttpTypes /\ HttpSlots /\ HttpMade /\ HttpWatch /\ OnePlace
  BY SlotsParts DEF HttpInv
<1>2. Http!Slots' = Http!Slots
  BY HttpSlotsConstant
<1>3. /\ pc = "wait" /\ Reported # {} /\ n' = Cardinality(Reported) /\ i' = 0
      /\ UNCHANGED <<backlog, owner, peer>>
  BY DEF HttpWait, SysWait
<1>4. /\ Reported \subseteq Watched /\ IsFiniteSet(Reported) /\ Cardinality(Reported) \in Nat \ {0}
      /\ Cardinality(Reported) <= Cardinality(Watched) /\ Reported \cap Fds \subseteq interest
  BY <1>1, <1>3, HttpReported
<1>5. PICK D : D = 0..(Cardinality(Reported) - 1)
  OBVIOUS
<1>6. PICK batch \in [D -> Reported] :
        /\ \A f \in Reported : \E k \in D : batch[k] = f
        /\ events' = [k \in Http!Slots |-> IF k \in D THEN Http!EventOf(batch[k]) ELSE events[k]]
        /\ pc' = IF batch[0] = ListenFd THEN "accept" ELSE "recv"
  BY <1>5 DEF HttpWait
<1>7. \A k, l \in D : batch[k] = batch[l] => k = l
  BY <1>4, <1>5, <1>6, HttpOnce
<1>8. D \subseteq Http!Slots /\ 0 \in D /\ Http!Busy' /\ Http!Unhandled' = D
  <2>1. Cardinality(Watched) \in Nat /\ Http!Slots = 0..Cardinality(Watched)
    BY <1>1, HttpNumbers
  <2>2. Http!Busy' /\ Http!Unhandled' = i'..(n' - 1)
    BY <1>6 DEF Http!Busy, Http!Unhandled
  <2>3. Http!Unhandled' = D
    BY <1>3, <1>5, <2>2
  <2>. QED  BY <1>4, <1>5, <2>1, <2>2, <2>3
<1>9. ASSUME NEW k \in D
      PROVE  /\ events'[k].fd = batch[k]
             /\ \/ batch[k] = ListenFd /\ events'[k].conn = NoConn
                \/ batch[k] \in Fds /\ events'[k].conn = owner[batch[k]] /\ owner[batch[k]] \in Conns
  <2>1. events'[k] = [fd |-> batch[k], conn |-> IF batch[k] = ListenFd THEN NoConn ELSE owner[batch[k]]]
    BY <1>6, <1>8 DEF Http!EventOf
  <2>2. batch[k] = ListenFd \/ (batch[k] \in Fds /\ batch[k] \in interest)
    BY <1>4, <1>6 DEF Watched
  <2>3. batch[k] \in Fds => owner[batch[k]] \in Conns
    BY <1>1, <2>2, FdsAssumption DEF HttpWatch, Kernel_TypeOK
  <2>. QED  BY <2>1, <2>2, <2>3, FdsAssumption
<1>10. \A k \in Http!Slots \ D : events'[k] = events[k]
  BY <1>6
<1>11. HttpBatch'
  <2>1. i' < n'
    BY <1>3, <1>4
  <2>2. \A k \in D : \/ events'[k].fd = ListenFd /\ events'[k].conn = NoConn
                     \/ events'[k].fd \in Fds /\ events'[k].conn \in Conns
    BY <1>9
  <2>3. \A k, l \in D : events'[k].fd = events'[l].fd => k = l
    BY <1>7, <1>9
  <2>4. /\ pc' \in {"accept", "register"} => events'[i'].fd = ListenFd
        /\ pc' \in {"recv", "reply"} => events'[i'].fd \in Fds
    BY <1>3, <1>6, <1>8, <1>9
  <2>. QED  BY <1>8, <2>1, <2>2, <2>3, <2>4 DEF HttpBatch
<1>12. ASSUME NEW k \in D, events'[k].conn \in Conns
       PROVE  owner[events'[k].fd] = events'[k].conn /\ peer[events'[k].conn] # "none"
  <2>1. PICK c \in Conns : c = events'[k].conn
    BY <1>12
  <2>2. batch[k] \in Fds /\ owner[batch[k]] = c /\ events'[k].fd = batch[k]
    BY <1>9, <1>12, <2>1, ConnsAssumption
  <2>3. Attached(c)
    BY <2>2 DEF Attached, Accepted
  <2>. QED  BY <1>1, <2>1, <2>2, <2>3 DEF OnePlace
<1>13. HttpMade'
  BY <1>1, <1>2, <1>3, <1>6, <1>10, <1>12 DEF HttpMade
<1>14. HttpSlots'
  <2>1. \A c : Attached(c)' <=> Attached(c)
    BY <1>3 DEF Attached, Accepted
  <2>2. Http!Unhandled = {}
    BY <1>3 DEF Http!Unhandled, Http!Busy
  <2>3. \A k \in Http!Slots : events[k].conn \in Conns => ~ Attached(events[k].conn)
    BY <1>1, <1>3, <2>2 DEF HttpSlots
  <2>4. ASSUME NEW k \in Http!Slots, k \notin D, events'[k].conn \in Conns
        PROVE  ~ Attached(events[k].conn)'
    <3>1. PICK c : c = events[k].conn /\ c = events'[k].conn
      BY <1>10, <2>4
    <3>2. ~ Attached(c)'
      BY <2>1, <2>3, <2>4, <3>1
    <3>. QED  BY <3>1, <3>2 DEF Attached, Accepted
  <2>. QED  BY <1>2, <1>3, <1>8, <1>12, <2>4 DEF HttpSlots, Attached, Accepted
<1>. QED  BY <1>11, <1>13, <1>14 DEF HttpEvents

\* Every step keeps what is said of the events and of the slots.
LEMMA HttpStepEvents ==
  ASSUME HttpInv, HttpStep
  PROVE  HttpEvents'
<1>1. Kernel_TypeOK
  BY SlotsParts DEF HttpInv
<1>2. CASE HttpQuiet \/ HttpListen \/ HttpRecv
  <2>1. UNCHANGED <<backlog, owner, i, events, peer>>
    BY <1>2 DEF HttpQuiet, HttpListen, HttpRecv, SysListen, SysRead, kernel, table
  <2>2. \/ UNCHANGED pc /\ (n' = n \/ pc = "wait")
        \/ n' = n /\ pc = "recv" /\ pc' \in {"recv", "reply"}
    BY <1>2 DEF HttpQuiet, HttpListen, HttpRecv
  <2>. QED  BY <2>1, <2>2, HttpSame
<1>3. CASE HttpExit
  <2>1. Http!Slots' = Http!Slots
    BY HttpSlotsConstant
  <2>2. /\ pc' = "exit" /\ ~ Http!Busy' /\ Http!Unhandled' = {}
        /\ \A k \in Http!Slots : events'[k].conn \notin Conns
    BY <1>3, ConnsAssumption DEF HttpExit, Http!Busy, Http!Unhandled, Http!NoEvent
  <2>. QED  BY <2>1, <2>2 DEF HttpEvents, HttpBatch, HttpMade, HttpSlots
<1>4. ASSUME NEW f \in Fds, HttpRegister(f)  PROVE HttpEvents'
  <2>1. /\ UNCHANGED <<backlog, owner, i, events, peer, n>> /\ pc = "register" /\ pc' = "accept"
    BY <1>4 DEF HttpRegister, SysAdd
  <2>. QED  BY <2>1, HttpSame
<1>5. ASSUME NEW c \in Conns, HttpClient(c)  PROVE HttpEvents'
  <2>1. CASE PeerConnects(c)
    BY <1>5, <2>1, HttpConnects DEF HttpClient
  <2>2. CASE PeerSends(c) \/ PeerShuts(c) \/ PeerResets(c)
    <3>1. /\ UNCHANGED <<backlog, owner, i, events, pc, n>>
          /\ \A d \in Conns : peer'[d] = "none" => peer[d] = "none"
      BY <1>1, <1>5, <2>2 DEF HttpClient, PeerSends, PeerShuts, PeerResets, Kernel_TypeOK
    <3>. QED  BY <3>1, HttpSame
  <2>. QED  BY <1>5, <2>1, <2>2 DEF HttpClient
<1>. QED  BY <1>2, <1>3, <1>4, <1>5, HttpWaits, HttpAccepts, HttpAcceptsAll, HttpFails, HttpReplies
          DEF HttpStep

\* At first nothing is connected and no slot is about a connection.
LEMMA HttpInvInit == Http!Init => HttpInv
<1>. SUFFICES ASSUME Http!Init  PROVE HttpInv
  OBVIOUS
<1>1. /\ backlog = <<>> /\ owner = [f \in Fds |-> NoConn] /\ interest = {} /\ ready = {}
      /\ peer = [c \in Conns |-> "none"] /\ input = [c \in Conns |-> 0] /\ sent = [c \in Conns |-> 0]
      /\ main = "socket" /\ pc = "wait" /\ n = 0 /\ i = 0 /\ infd = Stdin /\ ret = "none"
      /\ answered = {} /\ robbed = {}
      /\ events = [k \in Http!Slots |-> Http!NoEvent]
  BY DEF Http!Init, Http!Kernel_Init
<1>2. Kernel_TypeOK
  BY <1>1, MaxSentAssumption DEF Kernel_TypeOK
<1>3. HttpTypes
  <2>1. Cardinality(Watched) \in Nat
    BY FdsAssumption, FS_AddElement, FS_CardinalityType DEF Watched
  <2>2. PICK E : E = [fd : Watched \cup {Stdin}, conn : Conns \cup {NoConn}]
    OBVIOUS
  <2>3. Http!NoEvent \in E
    BY <2>2 DEF Http!NoEvent
  <2>4. events \in [Http!Slots -> E]
    BY <1>1, <2>3
  <2>. QED  BY <1>1, <2>1, <2>2, <2>4 DEF HttpTypes
<1>4. \A k \in Http!Slots : events[k].conn \notin Conns
  BY <1>1, ConnsAssumption DEF Http!NoEvent
<1>5. ~ Http!Busy /\ Http!Unhandled = {}
  BY <1>1 DEF Http!Busy, Http!Unhandled
<1>6. HttpSlots /\ HttpWatch /\ HttpBatch /\ HttpMade
  BY <1>1, <1>4, <1>5 DEF HttpSlots, HttpWatch, HttpBatch, HttpMade
<1>7. OnePlace
  <2>1. DOMAIN backlog = {} /\ \A f \in Fds : owner[f] = NoConn
    BY <1>1
  <2>2. \A c \in Conns : ~ Attached(c)
    BY <2>1, ConnsAssumption DEF Attached, Accepted
  <2>. QED  BY <2>1, <2>2 DEF OnePlace
<1>. QED  BY <1>2, <1>3, <1>6, <1>7, SlotsParts DEF HttpInv

\* Every step of the HTTP server and of its clients keeps HttpInv.
LEMMA HttpInvStep == HttpInv /\ [Http!Next]_(Http!vars) => HttpInv'
<1>. SUFFICES ASSUME HttpInv, [Http!Next]_(Http!vars)  PROVE HttpInv'
  OBVIOUS
<1>1. HttpStep
  BY HttpCases DEF HttpStep
<1>2. Kernel_TypeOK' /\ HttpTypes' /\ OnePlace' /\ HttpWatch'
  BY <1>1, HttpStepTypes, HttpStepPlaces, HttpStepWatch
<1>3. HttpBatch' /\ HttpMade' /\ HttpSlots'
  BY <1>1, HttpStepEvents DEF HttpEvents
<1>4. Http!SlotsInv' <=> Kernel_TypeOK' /\ HttpTypes' /\ HttpSlots'
  BY SlotsParts, PTL
<1>. QED  BY <1>2, <1>3, <1>4 DEF HttpInv

\* HttpInv is an invariant of the HTTP server.
THEOREM HttpInvariant == Http!Spec => []HttpInv
  BY HttpInvInit, HttpInvStep, PTL DEF Http!Spec

\* epoll_loop of the HTTP server handles an event for the connection that raised it,
\* whatever accept has done with the descriptors closed earlier in the batch, and
\* the connection a stale slot was about is closed (line 296 reads such a slot).
THEOREM SlotsOfHttpServer == Http!Spec => []Http!SlotsInv
<1>1. HttpInv => Http!SlotsInv
  BY DEF HttpInv
<1>. QED  BY <1>1, HttpInvariant, PTL

=============================================================================
