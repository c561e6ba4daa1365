SPECIFICATION Spec
CONSTANTS
  w1 = w1
  w2 = w2
  w3 = w3
  c1 = c1
  c2 = c2
  t1 = t1
  t2 = t2
  t3 = t3
  Workers <- TwoWorkers
  Clients <- TwoClients
  Main = c1
  Destroyers <- TwoClients
  Tasks <- TwoTasks
  QueueSize = 1
  Faults = {"malloc", "mutex_init", "cond_init", "pthread_create", "lock", "signal", "broadcast", "unlock", "join"}
  NoThread = NoThread
  NoTask = NoTask
SYMMETRY Interchangeable
INVARIANT NoUseAfterFree
INVARIANT DestroyFrees
INVARIANT OneDestroyer
CHECK_DEADLOCK FALSE
