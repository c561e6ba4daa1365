SPECIFICATION FairSpec
CONSTANTS
  p1 = p1
  w1 = w1
  w2 = w2
  c1 = c1
  j1 = j1
  j2 = j2
  Pools <- OnePool
  Threads <- TwoThreads
  Clients = {c1}
  Jobs = {j1, j2}
  JobsAddWork = TRUE
  Garbage = FALSE
  MaxPauses = 0
  Nobody = Nobody
  NoJob = NoJob
  NoPool = NoPool
PROPERTY AddedJobsRun
PROPERTY CallsReturn
