\* Three misses, each a call that times out.
SPECIFICATION Spec
CONSTANTS
  Pod = {p1, p2}
  Nobody = Nobody
  Gone = Gone
  TTL = 6
  RenewInterval = 2
  RetryInterval = 1
  MaxMissed = 3
  OpTimeout = 1
  Lag = 0
  RedisErrors = TRUE
  TaskRaises = FALSE
  MaxFaults = 3
SYMMETRY Symmetry
INVARIANTS StopsInsideTTL
