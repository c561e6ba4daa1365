SPECIFICATION FairSpec
CONSTANTS
  c1 = c1
  c2 = c2
  c3 = c3
  Conns = {c1, c2, c3}
  Fds = {f1, f2}
  ListenFd = ListenFd
  NoConn = NoConn
  MaxSent <- SentBound
  BufSize = 2
  MAXEVENTS = 2
  Faults = {"boot", "register", "write"}
INVARIANT EdgesCover
INVARIANT EventsFresh
INVARIANT NothingDropped
PROPERTY EndedAreClosed
CHECK_DEADLOCK FALSE
