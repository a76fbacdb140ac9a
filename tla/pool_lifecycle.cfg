\* Three requests, pools of one connection, every failure, fair scheduling; the
\* server stops in the end, so a state without a successor is no error.
SPECIFICATION FairSpec
CONSTANTS
  Requests = {r1, r2, r3}
  Lifespan = Lifespan
  MaxSize = 1
  None = None
CHECK_DEADLOCK FALSE
INVARIANTS
  ServedByOpenPool
  StrayPools
PROPERTIES
  CatalogAsAssumed
  EveryWaiterServed
  StopEnds
