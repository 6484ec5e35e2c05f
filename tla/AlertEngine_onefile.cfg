\* The file tracker on one pod, with failing fetches and saves and crashes.
SPECIFICATION FairSpec
CONSTANTS
  Pod = {p1}
  Nobody = Nobody
  NumRules = 2
  Duration = 2
  UseRedis = FALSE
  LeaderLock = FALSE
  Autonomous = TRUE
  FetchFails = TRUE
  StoreFails = TRUE
  Crashes = TRUE
  LosesLock = FALSE
  MaxFaults = 3
  MaxFlips = 5
INVARIANTS TypeOK
PROPERTIES FiresOncePerBreach ResolvesWhatFired ResolutionAnnounced
