\* No symmetry: it is unsound for liveness.
SPECIFICATION FairSpec
CONSTANTS
  Brokers = {b1, b2}
  Clients = {c1, c2}
  Workers = {w1}
  MaxTries = 1
  None = None
INVARIANTS RefusedBrokerLeavesNoTrace LiveRecordsPreserved
PROPERTIES StopEnds
CHECK_DEADLOCK FALSE
