SPECIFICATION FairSpec
CONSTANTS
  w1 = w1
  w2 = w2
  w3 = w3
  c1 = c1
  c2 = c2
  t1 = t1
  t2 = t2
  t3 = t3
  Workers <- ThreeWorkers
  Clients <- OneClient
  Main = c1
  Destroyers <- OneClient
  Tasks <- ThreeTasks
  QueueSize = 2
  Faults = {"pthread_create"}
  NoThread = NoThread
  NoTask = NoTask
INVARIANT TypeOK
INVARIANT TasksInOrder
INVARIANT WakeupsCoverQueue
PROPERTY ImplementsTaskPool
PROPERTY AcceptedTasksEnd
PROPERTY DestroyReturns
