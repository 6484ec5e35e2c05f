------------------------------ MODULE Services ------------------------------
(***************************************************************************)
(* One instance of every service module.  The services below do not call each *)
(* other, so their product shows nothing that each alone does not: a          *)
(* behaviour chooses one of them, its part, and runs it alone.  The parts     *)
(* share the variables x1, x2, ..., which stand for the variables of the      *)
(* chosen module in their order there; those it has no use for are 0.  A part *)
(* that is a pure function has one variable, its input.                       *)
(***************************************************************************)
EXTENDS Integers, Sequences, FiniteSets

CONSTANTS
  (* Those of the service modules, under their names there; where two modules  *)
  (* use one name, with the name of the instance before it.                    *)
  LimitsExecution, MaxPerWindow, Cooldown, LimitsWindow, MaxChain, ChainBreak,
  WarnAt, Requested, MaxPerHour, RemediationWindow, MaxTargets, MaxRecords,
  StoreClient, Attempts, LockTTL, OpTimeout, Lag, MaxTimeouts, Remote, MaxRequests,
  MaxBurst, HttpWindow, MaxTracked, RedisLimitRequest, RedisLimitWindow, Delay,
  Skew, RedisLimitMaxClock, Address, Name, LoginsLogin, Limit, IpLimit,
  LoginsWindow, NoLogin, SessionsTTL, SessionsMaxClock, Worker, VersionsConfig,
  MaxId, MaxSerial, GitRequest, Base, ConfigLogWindow, FileLimit, MaxDay,
  MaxWritten, Legacy, TrailMaxSize, MaxRead, MaxEntries, MaxTorn, ChatPod, Channel,
  Keyed, Stamped, Tolerance, Sender, User, ApproverMap, ChatNobody, Creator,
  AuthRequired, Enabled, ChatMaxClock, MaxPresses, MaxDeliveries, Skill, Stub,
  MaxResults, MaxHistory, MaxTimeout, MaxRuns, Agent, NameOfAgent, AgentsTimeout,
  Named, Advice, Normal, MaxAdvice, MaxNames, Rule, MaxGroups, TriageMaxEvents,
  AnswersSource, Token, MaxTokens, PolicyExecution, Input, PolicyTTL, PolicyTimeout,
  Caller, QueriesQuery, Asks, QueriesTTL, QueriesMaxSize, QueryTime,
  QueriesMaxClock, Free, FanoutPod, FanoutClient, Home, Event, View, Socket, Timer,
  FirstDelay, MaxDelay, Refusal, NoSocket, NoTimer, Type, FeedbackWindow, Proven,
  Enough, FeedbackMaxEvents, SloPod, SloNobody, Hours, Offset, ReportHour, Never,
  Cut, MaxNow, MaxFaults,
  (* Inputs of the pure functions.                                            *)
  TargetsInput, ChecksInput, HealthInput, CommandsInput, PlansInput, BucketInput,
  BudgetInput, Ladder, Cap, Trusted, GlobalFlags(_)

VARIABLES part, x1, x2, x3, x4, x5, x6, x7, x8, x9, x10, x11

pool == <<part, x1, x2, x3, x4, x5, x6, x7, x8, x9, x10, x11>>

\* The variables a part with one, two, ... variables leaves alone.
Zero11 == x11 = 0
Zero10 == x10 = 0 /\ Zero11
Zero9 == x9 = 0 /\ Zero10
Zero8 == x8 = 0 /\ Zero9
Zero7 == x7 = 0 /\ Zero8
Zero6 == x6 = 0 /\ Zero7
Zero5 == x5 = 0 /\ Zero6
Zero4 == x4 = 0 /\ Zero5
Zero3 == x3 = 0 /\ Zero4
Zero2 == x2 = 0 /\ Zero3
Keep11 == UNCHANGED <<x11>>
Keep10 == UNCHANGED <<x10, x11>>
Keep9 == UNCHANGED <<x9, x10, x11>>
Keep8 == UNCHANGED <<x8, x9, x10, x11>>
Keep7 == UNCHANGED <<x7, x8, x9, x10, x11>>
Keep6 == UNCHANGED <<x6, x7, x8, x9, x10, x11>>
Keep5 == UNCHANGED <<x5, x6, x7, x8, x9, x10, x11>>
Keep4 == UNCHANGED <<x4, x5, x6, x7, x8, x9, x10, x11>>
Keep3 == UNCHANGED <<x3, x4, x5, x6, x7, x8, x9, x10, x11>>
Keep2 == UNCHANGED <<x2, x3, x4, x5, x6, x7, x8, x9, x10, x11>>

-----------------------------------------------------------------------------
(* Instances                                                                 *)

Limits == INSTANCE ActionRateLimit WITH
  Execution <- LimitsExecution, Window <- LimitsWindow, records <- x1, idle <- x2,
  chain <- x3, warned <- x4, running <- x5, omen <- x6
Remediation == INSTANCE AutonomousRemediation WITH
  Window <- RemediationWindow, type <- x1, times <- x2, file <- x3, stage <- x4,
  left <- x5, changed <- x6, refused <- x7, unanswered <- x8, counted <- x9,
  lossy <- x10
Store == INSTANCE RedisStateStore WITH
  Client <- StoreClient, lockttl <- x1, value <- x2, at <- x3, left <- x4,
  answer <- x5, tries <- x6, seen <- x7, failed <- x8
Http == INSTANCE HttpRateLimit WITH
  Window <- HttpWindow, tracked <- x1, window <- x2, swept <- x3, admitted <- x4,
  excused <- x5
RedisLimit == INSTANCE RedisRateLimit WITH
  Request <- RedisLimitRequest, Window <- RedisLimitWindow,
  MaxClock <- RedisLimitMaxClock, now <- x1, asking <- x2, entries <- x3,
  touched <- x4, admitted <- x5
Logins == INSTANCE LoginGate WITH
  Login <- LoginsLogin, Window <- LoginsWindow, failures <- x1, ipFailures <- x2,
  verifying <- x3, guessed <- x4, tried <- x5
Sessions == INSTANCE UserSessions WITH
  TTL <- SessionsTTL, MaxClock <- SessionsMaxClock, now <- x1, entry <- x2,
  tokens <- x3, copy <- x4, floor <- x5
Versions == INSTANCE ConfigVersions WITH
  Config <- VersionsConfig, files <- x1, current <- x2, live <- x3, doing <- x4,
  serial <- x5, parted <- x6
Git == INSTANCE ConfigGitOps WITH
  Request <- GitRequest, head <- x1, believed <- x2, commits <- x3, remote <- x4,
  dirty <- x5, step <- x6, asked <- x7, clean <- x8
ConfigLog == INSTANCE ConfigAudit WITH
  Window <- ConfigLogWindow, today <- x1, opened <- x2, files <- x3, torn <- x4,
  hidden <- x5, rotated <- x6, written <- x7
Trail == INSTANCE AuditTrail WITH
  MaxSize <- TrailMaxSize, exists <- x1, log <- x2, rotated <- x3, logged <- x4,
  tasks <- x5, rows <- x6, acked <- x7, gone <- x8, torn <- x9
Chat == INSTANCE ChatApprovals WITH
  Pod <- ChatPod, Nobody <- ChatNobody, MaxClock <- ChatMaxClock, status <- x1,
  decisions <- x2, hasRole <- x3, presses <- x4, deliveries <- x5, running <- x6,
  answer <- x7, now <- x8
Skills == INSTANCE SkillRegistry WITH
  config <- x1, status <- x2, running <- x3, results <- x4, history <- x5,
  answered <- x6, started <- x7
Agents == INSTANCE AgentOrchestrator WITH
  Timeout <- AgentsTimeout, asked <- x1, tasks <- x2, outcome <- x3, age <- x4,
  report <- x5
Triage == INSTANCE TriageInput WITH
  MaxEvents <- TriageMaxEvents, firing <- x1, history <- x2, events <- x3
Answers == INSTANCE TriageAnswer WITH
  Source <- AnswersSource, mode <- x1, phase <- x2, collected <- x3, provider <- x4,
  text <- x5, lines <- x6, card <- x7
Policy == INSTANCE PolicyGate WITH
  Execution <- PolicyExecution, TTL <- PolicyTTL, Timeout <- PolicyTimeout,
  policy <- x1, denied <- x2, cache <- x3, asking <- x4, passed <- x5
Queries == INSTANCE AssistantQueries WITH
  Query <- QueriesQuery, TTL <- QueriesTTL, MaxSize <- QueriesMaxSize,
  MaxClock <- QueriesMaxClock, cache <- x1, flights <- x2, lock <- x3, stage <- x4,
  query <- x5, got <- x6, began <- x7, now <- x8
Fanout == INSTANCE LiveFanout WITH
  Pod <- FanoutPod, Client <- FanoutClient, useRedis <- x1, active <- x2,
  broken <- x3, channel <- x4, listening <- x5, stage <- x6, origin <- x7,
  sending <- x8, seen <- x9, owed <- x10, doubted <- x11
WebClient == INSTANCE LiveClient WITH
  mounted <- x1, ws <- x2, life <- x3, reconnectTimer <- x4, pending <- x5,
  reconnectDelay <- x6, connected <- x7, overwritten <- x8
Feedback == INSTANCE FeedbackLearning WITH
  Window <- FeedbackWindow, MaxEvents <- FeedbackMaxEvents, feedback <- x1,
  file <- x2, writing <- x3, recorded <- x4, lossy <- x5
Slo == INSTANCE SloReporter WITH
  Pod <- SloPod, Nobody <- SloNobody, now <- x1, lastReport <- x2, at <- x3,
  leader <- x4, looked <- x5, posts <- x6, faults <- x7, harm <- x8
Targets == INSTANCE RemediationTargets
Checks == INSTANCE ConfigChecks
Health == INSTANCE ServiceHealth
Commands == INSTANCE CommandPolicy
Plans == INSTANCE CommandExecution

-----------------------------------------------------------------------------
(* What the theorems ask of the constants                                    *)

\* The lock of a record outlives the four calls of its holder.
ASSUME StoreTiming ==
  /\ OpTimeout \in Nat /\ Lag \in Nat /\ Attempts \in Nat
  /\ LockTTL \in Nat /\ LockTTL > 4 * (OpTimeout + Lag)
ASSUME SessionsClock == SessionsMaxClock \in Nat
ASSUME VersionsNumbers == MaxId \in Nat
ASSUME ChatNumbers == ChatMaxClock \in Nat /\ MaxDeliveries \in Nat
ASSUME PolicyTimes == PolicyTTL \in Nat /\ PolicyTimeout \in Nat
\* The limits can be met, and what is waited for fits in the window.
ASSUME LimitsNumbers ==
  /\ IsFiniteSet(LimitsExecution)
  /\ MaxPerWindow \in Nat \ {0}
  /\ LimitsWindow \in Nat /\ Cooldown \in Nat \ {0} /\ Cooldown < LimitsWindow
  /\ ChainBreak \in Nat /\ ChainBreak <= LimitsWindow
  /\ MaxChain \in Nat /\ WarnAt \in Nat /\ 2 <= WarnAt /\ WarnAt < MaxChain
ASSUME RemediationNumbers ==
  /\ MaxPerHour \in Nat /\ Cooldown \in Nat /\ MaxTargets \in Nat
  /\ RemediationWindow \in Nat \ {0}
ASSUME HttpNumbers ==
  MaxRequests \in Nat /\ MaxBurst \in Nat /\ HttpWindow \in Nat \ {0} /\ MaxTracked \in Nat \ {0}
\* A request waits less for Redis than the window lasts, skewed clocks included.
ASSUME RedisLimitNumbers ==
  /\ MaxRequests \in Nat /\ RedisLimitWindow \in Nat
  /\ Delay \in Nat /\ Skew \in Nat /\ Delay + Skew < RedisLimitWindow
ASSUME LoginsNumbers ==
  /\ IsFiniteSet(LoginsLogin) /\ NoLogin \notin Address \X Name
  /\ Limit \in Nat \ {0} /\ IpLimit \in Nat \ {0} /\ LoginsWindow \in Nat \ {0}
\* Addresses are texts.
ASSUME BucketTexts ==
  \A x \in BucketInput : x.seen \in STRING /\ x.written \in Seq(STRING)
\* No two jobs of a listing failed at the same instant.
ASSUME TargetsListed ==
  \A x \in TargetsInput :
    IF "jobs" \in DOMAIN x
    THEN /\ x.keep \in Nat /\ IsFiniteSet(DOMAIN x.jobs)
         /\ \A n \in DOMAIN x.jobs : x.jobs[n].age \in Nat
         /\ \A m, n \in DOMAIN x.jobs : x.jobs[m].age = x.jobs[n].age => m = n
    ELSE /\ x.current \in Int /\ x.low \in Int /\ x.high \in Int
         /\ x.asked \in [relative : BOOLEAN, by : Int]
\* No request is a base branch.
ASSUME GitNames == GitRequest \cap Base = {}
ASSUME QueriesNumbers ==
  /\ QueriesTTL \in Nat /\ QueryTime \in Nat /\ Free \notin Caller /\ QueriesQuery # {}
  /\ Asks \in [Caller -> SUBSET QueriesQuery]
\* A client is connected to one pod.
ASSUME HomesArePods == Home \in [FanoutClient -> FanoutPod]
ASSUME ClientNames == NoSocket \notin Socket
ASSUME Caps == MaxResults \in Nat /\ MaxHistory \in Nat
ASSUME FeedbackNumbers == FeedbackWindow \in Nat
\* An agent calls itself by a name of its own, which is not what another one is
\* asked for by.
ASSUME AgentNames ==
  /\ \A a, b \in Agent : NameOfAgent[a] = NameOfAgent[b] => a = b
  /\ \A a, b \in Agent : NameOfAgent[a] = b => a = b
  /\ MaxNames \in Nat /\ MaxAdvice \in Nat
ASSUME ConfigLogNumbers == ConfigLogWindow \in Nat /\ MaxDay \in Nat
ASSUME TrailNumbers == Legacy \in Nat /\ MaxEntries \in Nat /\ MaxRead \in Nat
\* The clocks agree on the date in the hour of the report.
ASSUME SloNumbers ==
  /\ IsFiniteSet(SloPod) /\ SloNobody \notin SloPod
  /\ Hours \in Nat \ {0} /\ Offset \in Nat
  /\ ReportHour \in Nat /\ Offset <= ReportHour /\ ReportHour < Hours
  /\ Never \notin Nat /\ Cut \notin Nat
\* No value of a configuration is the word that hides others.
ASSUME ConfigLeaves ==
  \A x \in ChecksInput : "leaves" \in DOMAIN x =>
    \A leaf \in x.leaves :
      /\ leaf \in [path : Seq([class : STRING, index : BOOLEAN]), value : [is : STRING, wraps : Nat]]
      /\ leaf.path # <<>> /\ leaf.value # Checks!Redacted
\* The critical services of the backend itself are a database and one of
\* authentication, by their names.
ASSUME HealthServices ==
  \A x \in HealthInput :
    /\ x.configured \subseteq Health!Source
    /\ x.services \in Seq({s \in [external : BOOLEAN, database : BOOLEAN, auth : BOOLEAN,
                                  primary : BOOLEAN, answer : STRING, slow : BOOLEAN] :
                             s.primary => s.database \/ s.auth})
ASSUME TriageNumbers == MaxEntries \in Nat /\ MaxGroups \in Nat \ {0}
\* Each rung of the ladder takes fewer lines of each bucket.
ASSUME BudgetLadder ==
  /\ Ladder \in Seq([trigger : Int, quota : [{"critical", "error", "warning", "info"} -> Int]])
  /\ \A k, l \in DOMAIN Ladder : k <= l =>
       /\ Ladder[l].trigger <= Ladder[k].trigger
       /\ \A b \in {"critical", "error", "warning", "info"} :
            Ladder[l].quota[b] <= Ladder[k].quota[b]
  /\ Cap \in Nat
  /\ \A x \in BudgetInput :
       x.logs \in Seq([level : STRING, size : Nat]) /\ x.low \in Int /\ x.high \in Int
\* A command names what it does in its first words, a flag comes with its value,
\* and a window opens on some day for some hours.
ASSUME CommandWords ==
  \A x \in CommandsInput :
    IF "command" \in DOMAIN x
    THEN /\ x.command[1] \in {"kubectl", "helm", "argocd"}
         /\ Commands!NamesAction(x.command[1], x.command[2])
         /\ \A flags \in GlobalFlags(x.command[1]) : Commands!ClosedFlags(x.command[1], flags)
    ELSE /\ x.at \in Nat /\ x.start \in 0..23 /\ x.end \in 0..24 /\ x.start # x.end
         /\ x.days \in SUBSET (0..6) /\ x.days # {}
ASSUME PlanTokens ==
  \A x \in PlansInput : x.tokens \in Seq([flag : STRING, glued : STRING] \cup [word : STRING])

-----------------------------------------------------------------------------
Init ==
  \/ part = "limits" /\ Limits!Init /\ Zero7
  \/ part = "remediation" /\ Remediation!Init /\ Zero11
  \/ part = "store" /\ Store!Init /\ Zero9
  \/ part = "http" /\ Http!Init /\ Zero6
  \/ part = "redis limit" /\ RedisLimit!Init /\ Zero6
  \/ part = "login" /\ Logins!Init /\ Zero6
  \/ part = "sessions" /\ Sessions!Init /\ Zero6
  \/ part = "versions" /\ Versions!Init /\ Zero7
  \/ part = "git" /\ Git!Init /\ Zero9
  \/ part = "config audit" /\ ConfigLog!Init /\ Zero8
  \/ part = "audit" /\ Trail!Init /\ Zero10
  \/ part = "chat" /\ Chat!Init /\ Zero9
  \/ part = "skills" /\ Skills!Init /\ Zero8
  \/ part = "agents" /\ Agents!Init /\ Zero6
  \/ part = "triage" /\ Triage!Init /\ Zero4
  \/ part = "answer" /\ Answers!Init /\ Zero8
  \/ part = "policy" /\ Policy!Init /\ Zero6
  \/ part = "queries" /\ Queries!Init /\ Zero9
  \/ part = "fanout" /\ Fanout!Init
  \/ part = "client" /\ WebClient!Init /\ Zero9
  \/ part = "feedback" /\ Feedback!Init /\ Zero6
  \/ part = "slo" /\ Slo!Init /\ Zero9
  \/ part = "targets" /\ x1 \in TargetsInput /\ Zero2
  \/ part = "config" /\ x1 \in ChecksInput /\ Zero2
  \/ part = "health" /\ x1 \in HealthInput /\ Zero2
  \/ part = "command" /\ x1 \in CommandsInput /\ Zero2
  \/ part = "plan" /\ x1 \in PlansInput /\ Zero2
  \/ part = "bucket" /\ x1 \in BucketInput /\ Zero2
  \/ part = "budget" /\ x1 \in BudgetInput /\ Zero2

LimitsNext == part = "limits" /\ Limits!Next /\ UNCHANGED part /\ Keep7
RemediationNext == part = "remediation" /\ Remediation!Next /\ UNCHANGED part /\ Keep11
StoreNext == part = "store" /\ Store!Next /\ UNCHANGED part /\ Keep9
HttpNext == part = "http" /\ Http!Next /\ UNCHANGED part /\ Keep6
RedisLimitNext == part = "redis limit" /\ RedisLimit!Next /\ UNCHANGED part /\ Keep6
LoginsNext == part = "login" /\ Logins!Next /\ UNCHANGED part /\ Keep6
SessionsNext == part = "sessions" /\ Sessions!Next /\ UNCHANGED part /\ Keep6
VersionsNext == part = "versions" /\ Versions!Next /\ UNCHANGED part /\ Keep7
GitNext == part = "git" /\ Git!Next /\ UNCHANGED part /\ Keep9
ConfigLogNext == part = "config audit" /\ ConfigLog!Next /\ UNCHANGED part /\ Keep8
TrailNext == part = "audit" /\ Trail!Next /\ UNCHANGED part /\ Keep10
ChatNext == part = "chat" /\ Chat!Next /\ UNCHANGED part /\ Keep9
SkillsNext == part = "skills" /\ Skills!Next /\ UNCHANGED part /\ Keep8
AgentsNext == part = "agents" /\ Agents!Next /\ UNCHANGED part /\ Keep6
TriageNext == part = "triage" /\ Triage!Next /\ UNCHANGED part /\ Keep4
AnswersNext == part = "answer" /\ Answers!Next /\ UNCHANGED part /\ Keep8
PolicyNext == part = "policy" /\ Policy!Next /\ UNCHANGED part /\ Keep6
QueriesNext == part = "queries" /\ Queries!Next /\ UNCHANGED part /\ Keep9
FanoutNext == part = "fanout" /\ Fanout!Next /\ UNCHANGED part
WebClientNext == part = "client" /\ WebClient!Next /\ UNCHANGED part /\ Keep9
FeedbackNext == part = "feedback" /\ Feedback!Next /\ UNCHANGED part /\ Keep6
SloNext == part = "slo" /\ Slo!Next /\ UNCHANGED part /\ Keep9
Next ==
  \/ LimitsNext \/ RemediationNext \/ StoreNext \/ HttpNext
  \/ RedisLimitNext \/ LoginsNext \/ SessionsNext \/ VersionsNext
  \/ GitNext \/ ConfigLogNext \/ TrailNext \/ ChatNext
  \/ SkillsNext \/ AgentsNext \/ TriageNext \/ AnswersNext
  \/ PolicyNext \/ QueriesNext \/ FanoutNext \/ WebClientNext
  \/ FeedbackNext \/ SloNext

(* Fairness.  A behaviour has one part, so the parts share these conditions: *)
(* each of them is one action of the part that there is.                     *)
Weakly(k) ==
  /\ \/ /\ part = "store" /\ Keep9
        /\ (k = 0 /\ Store!Tick) \/ (k \in StoreClient /\ Store!Step(k))
     \/ /\ part = "skills" /\ Keep8
        /\ (k = 0 /\ Skills!Tick) \/ (k = 1 /\ Skills!CutOff)
     \/ /\ part = "agents" /\ Keep6
        /\ k = 0 /\ Agents!Progress
     \/ /\ part = "answer" /\ Keep8
        /\ k = 0 /\ (Answers!ProviderStep \/ \E s \in AnswersSource : Answers!Collect(s))
     \/ /\ part = "client" /\ Keep9
        /\ \/ k \in Socket /\ (WebClient!OnStrayError(k) \/ WebClient!EndClosing(k))
           \/ k \in Timer /\ WebClient!OnTimer(k)
  /\ UNCHANGED part
Strongly(k) ==
  /\ \/ part = "queries" /\ Keep9 /\ k \in Caller /\ Queries!Step(k)
     \/ part = "client" /\ Keep9 /\ k \in Socket /\ WebClient!OnOpen(k)
  /\ UNCHANGED part
Fairness ==
  /\ \A k \in {0} \cup StoreClient \cup Socket \cup Timer : WF_pool(Weakly(k))
  /\ \A k \in Caller \cup Socket : SF_pool(Strongly(k))

Spec == Init /\ [][Next]_pool
FairSpec == Spec /\ Fairness

-----------------------------------------------------------------------------
(* The engine's limiter: the hourly limit is exceeded by at most the other    *)
(* executions under way, a quiet project is admitted, and the monitor warns   *)
(* before the chain limit is met (rate_limiter.py 71-158).                    *)
ActionLimits ==
  part = "limits" => /\ Limits!OvershootBounded
                     /\ Limits!QuietIsAdmitted
                     /\ Limits!WarnedBeforeLimit

(* Across restarts the autonomous quota and its cooldown hold, unless a save  *)
(* failed or the file was lost (rate_limiter.py 478-560).                     *)
WithinQuota == part = "remediation" => Remediation!WithinQuota

(* An action that failed, and so counts for nothing, changed nothing but by a *)
(* call that timed out (remediation_actions.py 111-138, executor.py 351-363).  *)
FailureIsClean == part = "remediation" => Remediation!FailureIsClean

(* A locked update never overwrites another one (redis_store_base.py 277-315). *)
NoLostUpdate == [][part = "store" => Store!KeepsUpdates]_pool

(* In every sliding window a client, or who guesses passwords, gets no more  *)
(* than the limit, and chooses no window of his own; the window of Redis is  *)
(* shorter by the wait for it and the skew of the clocks (rate_limit.py      *)
(* 105-228, redis_rate_limiter.py 78-162, main.py 734-819).                  *)
RequestLimitsHold ==
  /\ part = "http" => Http!LimitHolds /\ Http!TrackedBounded
  /\ part = "redis limit" => RedisLimit!RedisLimitHolds
  /\ part = "login" => Logins!GuessesBounded
  /\ part = "bucket" => Http!BucketIsNotChosen(x1.direct, x1.seen, x1.written, x1.real, Trusted)

(* No token of a second before the last logout is accepted (users.py 177-205,  *)
(* main.py 60-86); those of its own second are.                              *)
LogoutHolds == part = "sessions" => Sessions!LogoutHolds

(* A stored version is rewritten only when its number was given twice, after *)
(* a version was removed or two processes saved at once, and by no failed    *)
(* save alone (versioning.py 97-149).                                        *)
HistoryKept == [][part = "versions" => Versions!RewritesNothing]_pool

(* A feature branch starts at an up-to-date base, unless one of its commands *)
(* fails or another request checks out a branch after it has (gitops.py      *)
(* 160-190).                                                                 *)
FeatureStartsAtBase == [][part = "git" => Git!BranchesAtBase]_pool

(* What was logged is found again: the log of configuration changes over its *)
(* daily files and their torn writes (audit.py 98-226), the log of actions   *)
(* over torn lines, rotation and migration (logger.py 217-346).              *)
AuditTrailsAreKept ==
  /\ part = "config audit" => ConfigLog!RecentIsFound
  /\ part = "audit" => Trail!AuditIsKept

(* A pod decides once, as the user the press is mapped to (webhook.py,       *)
(* teams.py, engine.py 308-405).                                             *)
ChatDecision == part = "chat" => Chat!ChatDecision

(* Every agent asked is in the report, with an answer or a reason, and a     *)
(* consensus is of more than half unless one repeats itself (orchestrator.py *)
(* 205-414).                                                                 *)
ReportIsComplete == part = "agents" => Agents!ReportIsComplete

(* The model is told how often each rule fired, the final answer is what was   *)
(* streamed before it, and a larger budget shows no fewer log lines           *)
(* (llm_input.py 128-175, llm_client.py, analyze.py).                         *)
TriageIsTruthful ==
  /\ part = "triage" => Triage!StormIsCounted
  /\ part = "answer" => Answers!StreamTellsTheTruth
  /\ part = "budget" => Triage!BudgetIsMonotone(x1.logs, Ladder, Cap, x1.low, x1.high)

(* An execution passes on an allowance no older than the cache and a call     *)
(* (opa_client.py 121-262).                                                  *)
PassWasAllowed == part = "policy" => Policy!PassWasAllowed

(* One thing is queried once at a time, and an answer is no older than the   *)
(* cache allows, its query took and its flight was kept (single_flight.py,   *)
(* cache.py).                                                                *)
QueriesAreShared == part = "queries" => Queries!QueriesAreShared

(* A client gets an event once and not never (fanout.py, live.py), over a     *)
(* socket that some view still wants (useWebSocket.ts 45-131).                *)
LiveUpdatesReachViews ==
  /\ part = "fanout" => Fanout!EventsReachClients
  /\ part = "client" => WebClient!SocketHasViewer

(* The registry keeps the latest answers (registry.py 230-262), and feedback  *)
(* survives a restart and moves confidence the right way (collector.py        *)
(* 62-106, analyzer.py 92-255).                                              *)
ResultsAreKept ==
  /\ part = "skills" => Skills!LatestResultsKept
  /\ part = "feedback" => Feedback!FeedbackIsKept

(* Pure functions.  Global flags do not change the tier of a command, a       *)
(* window opens when it is said to (parser.py, time_window_enforcer.py), and  *)
(* a rollback plan can be run (rollback_executor.py).                         *)
CommandChecksAreSound ==
  /\ part = "command" =>
       IF "command" \in DOMAIN x1
       THEN LET binary == x1.command[1]
            IN  \A front, back \in GlobalFlags(binary) :
                  Commands!FlagsKeepTheTier(binary, x1.command[2], front, back)
       ELSE Commands!NextStartIsAllowed([start |-> x1.start, end |-> x1.end, days |-> x1.days], x1.at)
  /\ part = "plan" => Plans!PlanIsRunnable(x1.binary, x1.tokens)

(* A clean-up spares the youngest jobs, and scaling stays in its limits       *)
(* (remediation_actions.py).                                                 *)
TargetsAreBounded ==
  part = "targets" =>
    IF "jobs" \in DOMAIN x1 THEN Targets!CleanupKeepsYoungest(x1.jobs, x1.hours, x1.keep)
    ELSE Targets!ScalingStaysInLimits(x1.current, x1.asked, x1.low, x1.high)

(* Secrets stay hidden and a valid configuration is complete (security.py,    *)
(* validation.py); health is not better than the probes (main.py 551-652,     *)
(* dependency_health.py); the SLO report goes out once a day                  *)
(* (slo_reporter.py 49-94).                                                  *)
ReportsAreHonest ==
  /\ part = "config" =>
       IF "leaves" \in DOMAIN x1 THEN Checks!SecretsStayHidden(x1.leaves, x1.level)
       ELSE Checks!ValidIsComplete(x1.config, x1.rules)
  /\ part = "health" => Health!HealthIsHonest(x1.configured, x1.ends, x1.services, x1.failing)
  /\ part = "slo" => Slo!OnceADay

-----------------------------------------------------------------------------
(* Liveness: the lock of an update comes free (redis_store_base.py 225-233).   *)
LockIsFreedAgain == []<>(part = "store" => Store!LockIsFree)
Served(i) ==
  /\ part = "agents" => Agents!Answered
  /\ part = "answer" => Answers!Answered
  /\ part = "client" => WebClient!Connected
  /\ part = "queries" /\ i \in Caller => Queries!Served(i)
  /\ part = "skills" => Skills!Over(i)

(* Liveness: agents, analyses, queries, skills and views that wait are served *)
(* (orchestrator.py 230, single_flight.py 71, useWebSocket.ts 76).            *)
EveryoneIsServed == \A i \in 1..MaxRuns : []<>Served(i)
=============================================================================
