SPECIFICATION Spec
CONSTANTS
  p1 = p1
  w1 = w1
  w2 = w2
  c1 = c1
  j1 = j1
  j2 = j2
  Pools <- OnePool
  Threads <- TwoThreads
  Clients = {c1}
  Jobs = {j1, j2}
  JobsAddWork = TRUE
  Garbage = TRUE
  MaxPauses = 1
  Nobody = Nobody
  NoJob = NoJob
  NoPool = NoPool
INVARIANT QueueLinked
INVARIANT JobsAnnounced
INVARIANT FreedPoolIsQuiet
PROPERTY WaitSound
CHECK_DEADLOCK FALSE
