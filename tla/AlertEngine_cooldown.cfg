\* The Redis tracker announces a breach again in every cycle.
SPECIFICATION Spec
CONSTANTS
  Pod = {p1}
  Nobody = Nobody
  NumRules = 1
  Duration = 1
  UseRedis = TRUE
  LeaderLock = FALSE
  Autonomous = FALSE
  FetchFails = FALSE
  StoreFails = FALSE
  Crashes = FALSE
  LosesLock = FALSE
  MaxFaults = 0
  MaxFlips = 1
PROPERTIES FiresOncePerBreach
