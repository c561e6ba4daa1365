SPECIFICATION FairSpec
CONSTANTS
  Workers = {w1, w2, w3}
  Owner = Owner
  Jobs = {c1, c2}
  Connections = {c1, c2}
  Descriptors = {d1, d2}
  Nobody = Nobody
  NoJob = NoJob
  NoFd = NoFd
INVARIANT ShutdownWalk
INVARIANT OneHandAtATime
INVARIANT DescriptorsOwned
PROPERTY AcceptedAreServed
CHECK_DEADLOCK FALSE
