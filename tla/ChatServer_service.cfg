SPECIFICATION FairSpec
CONSTANTS
  Threads = {w1, w2}
  MaxConns = 2
  Fds = {5, 6}
  MaxEvents = 2
  Main = Main
  Nothing = Nothing
INVARIANT TypeOK
PROPERTY ImplementsTaskPool
 
PROPERTY DestroyReturns
CHECK_DEADLOCK FALSE
