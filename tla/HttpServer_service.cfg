SPECIFICATION FairSpec
CONSTANTS
  c1 = c1
  c2 = c2
  c3 = c3
  Conns = {c1, c2, c3}
  Fds = {5, 6, 7}
  ListenFd = 3
  Stdin = 0
  NoConn = NoConn
  MaxSent <- SentBound
  BufSize = 2
INVARIANT SlotsInv
PROPERTY RequestsAreClosed
CHECK_DEADLOCK FALSE
