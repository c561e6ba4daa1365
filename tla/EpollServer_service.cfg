SPECIFICATION FairSpec
CONSTANTS
  c1 = c1
  c2 = c2
  c3 = c3
  Conns = {c1, c2, c3}
  Fds = {f1, f2}
  ListenFd = ListenFd
  NoConn = NoConn
  MaxSent <- SentBound
  MAXEPOLL = 7
  MAXLINE = 2
  Faults = TRUE
INVARIANT CurFdsExact
INVARIANT NeverBlocks
PROPERTY GoneAreClosed
PROPERTY AloneIsServed
CHECK_DEADLOCK FALSE
