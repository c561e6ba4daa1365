SPECIFICATION FairSpec
CONSTANTS
  Workers = {w1, w2, w3}
  Main = Main
  Rounds = 3
  MaxStray = 2
  Nobody = Nobody
INVARIANT RoundComplete
INVARIANT NobodyMissesTheStart
PROPERTY Terminates
CHECK_DEADLOCK FALSE
