SPECIFICATION FairPreforkSpec
CONSTANTS
  Pids = {p1, p2, p3}
  Master = Master
  MaxProcs = 2
  MaxRequests = 1
  Peers = {c1}
  Recycle = TRUE
  Foreign = TRUE
INVARIANTS PreforkTypeOK ChildIsListed
PROPERTIES GroupLivesAndEnds
CHECK_DEADLOCK FALSE
