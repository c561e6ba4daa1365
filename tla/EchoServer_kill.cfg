SPECIFICATION FairSpec
CONSTANTS
  Workers = {w1, w2}
  Owner = Owner
  Jobs = {c1}
  Connections = {c1}
  Descriptors = {d1}
  Nobody = Nobody
  NoJob = NoJob
  NoFd = NoFd
PROPERTY KillEndsServer
CHECK_DEADLOCK FALSE
