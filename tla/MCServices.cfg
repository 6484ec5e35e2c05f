SPECIFICATION FairSpec
CONSTANTS
  LimitsExecution = {1, 2}   MaxPerWindow = 3   Cooldown = 1
  LimitsWindow = 5   MaxChain = 3   ChainBreak = 2   WarnAt = 2
  Requested = {"scale_deployment", "restart_deployment", "clear_stuck_pods", "restart_statefulset_pod", "evict_pod_from_node"}
  MaxPerHour = 2   RemediationWindow = 4   MaxTargets = 2   MaxRecords = 3
  StoreClient = {1, 2}   Attempts = 2   LockTTL = 5   OpTimeout = 1   Lag = 0
  MaxTimeouts = 2   Remote = {1, 2, 3}   MaxRequests = 2   MaxBurst = 1
  HttpWindow = 2   MaxTracked = 2   RedisLimitRequest = {1, 2}
  RedisLimitWindow = 3   Delay = 1   Skew = 1   RedisLimitMaxClock = 4
  Address = {"a"}   Name = {"m", "n"}   LoginsLogin = {1, 2}   Limit = 2
  IpLimit = 3   LoginsWindow = 2   NoLogin <- None   SessionsTTL = 2
  SessionsMaxClock = 3   Worker = {1, 2}   VersionsConfig = {"a"}   MaxId = 3
  MaxSerial = 4   GitRequest = {"r", "s"}   Base = {"main", "develop"}
  ConfigLogWindow = 2   FileLimit = 2   MaxDay = 3   MaxWritten = 3
  Legacy = 2   TrailMaxSize = 2   MaxRead = 2   MaxEntries = 4   MaxTorn = 1
  ChatPod = {1, 2}   Channel = {"slack", "telegram"}
  Keyed = {"slack", "telegram"}   Stamped = {"slack", "teams"}   Tolerance = 0
  Sender <- ChatSender   User = {"u", "v"}   ApproverMap <- Approvers
  ChatNobody = "nobody"   Creator = "u"   AuthRequired = TRUE   Enabled = TRUE
  ChatMaxClock = 1   MaxPresses = 2   MaxDeliveries = 2   Skill = {"s", "t"}
  Stub = {"t"}   MaxResults = 1   MaxHistory = 2   MaxTimeout = 2
  MaxRuns = 3   Agent = {"log", "metrics", "k8s"}   NameOfAgent <- AgentName
  AgentsTimeout <- AgentTimeout   Named = {"log", "k8s", "other"}
  Advice = {"x"}   Normal <- AdviceForm   MaxAdvice = 2   MaxNames = 2
  Rule <- AlertRule   MaxGroups = 2   TriageMaxEvents = 6
  AnswersSource = {"logs", "alerts"}   Token = {"a", "b"}   MaxTokens = 2
  PolicyExecution = {"e", "f"}   Input = {"i"}   PolicyTTL = 2
  PolicyTimeout = 1   Caller = {1, 2, 3}   QueriesQuery = {"q", "r"}
  Asks <- QueriesOf   QueriesTTL = 1   QueriesMaxSize = 1   QueryTime = 1
  QueriesMaxClock = 3   Free = 0   FanoutPod = {"A", "B"}
  FanoutClient = {"a", "b"}   Home <- HomePod   Event = {"e"}
  View = {"v", "w"}   Socket = {1, 2}   Timer = {3, 4}   FirstDelay = 5
  MaxDelay = 10   Refusal = 1006   NoSocket = 0   NoTimer = 0
  Type = {"scale"}   FeedbackWindow = 2   Proven = 3   Enough = 2
  FeedbackMaxEvents = 3   SloPod = {1, 2}   SloNobody = 0   Hours = 4
  Offset = 1   ReportHour = 2   Never = Never   Cut = Cut   MaxNow = 9
  MaxFaults = 2   TargetsInput <- MCTargetsInput
  ChecksInput <- MCChecksInput   HealthInput <- MCHealthInput
  CommandsInput <- MCCommandsInput   PlansInput <- MCPlansInput
  BucketInput <- MCBucketInput   BudgetInput <- MCBudgetInput
  Ladder <- MCLadder   Cap = 2   Trusted = {"p", "q"}   GlobalFlags <- FlagsOf
INVARIANTS
  ActionLimits WithinQuota FailureIsClean RequestLimitsHold LogoutHolds
  AuditTrailsAreKept ChatDecision ReportIsComplete TriageIsTruthful
  PassWasAllowed QueriesAreShared LiveUpdatesReachViews ResultsAreKept
  CommandChecksAreSound TargetsAreBounded ReportsAreHonest
PROPERTIES
  NoLostUpdate HistoryKept FeatureStartsAtBase LockIsFreedAgain EveryoneIsServed
CHECK_DEADLOCK FALSE
