\* Two pods under the leader lock with the Redis tracker and two rules: exceptions,
\* crashes and lost locks.
SPECIFICATION FairSpec
CONSTANTS
  Pod = {p1, p2}
  Nobody = Nobody
  NumRules = 2
  Duration = 1
  UseRedis = TRUE
  LeaderLock = TRUE
  Autonomous = FALSE
  FetchFails = FALSE
  StoreFails = TRUE
  Crashes = TRUE
  LosesLock = TRUE
  MaxFaults = 2
  MaxFlips = 3
PROPERTIES BreachAnnounced
