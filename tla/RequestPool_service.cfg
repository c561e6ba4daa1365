SPECIFICATION FairSpec
CONSTANTS
  Threads = {w1, w2}
  Requests = {r1, r2, r3}
  MayFail = TRUE
  Faults = {"CreateSemaphore", "CreateThread"}
  MaxCreates = 2
  NoRequest = NoRequest
INVARIANT RequestsAnnounced
INVARIANT RequestsAlive
PROPERTY PostedAreExecuted
PROPERTY DestroyReturns
CHECK_DEADLOCK FALSE
