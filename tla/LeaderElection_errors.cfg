\* Redis calls raise, executed or not; pods crash; wake-ups are late.
SPECIFICATION FairSpec
CONSTANTS
  Pod = {p1, p2}
  Nobody = Nobody
  Gone = Gone
  TTL = 6
  RenewInterval = 2
  RetryInterval = 1
  MaxMissed = 3
  OpTimeout = 1
  Lag = 1
  RedisErrors = TRUE
  TaskRaises = TRUE
  MaxFaults = 4
INVARIANTS TypeOK EngineHoldsLock StopsInTime
PROPERTIES LockUndisturbed EngineRunsAgain ImplementsLeaderLock
