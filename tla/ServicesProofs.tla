--------------------------- MODULE ServicesProofs ---------------------------
(***************************************************************************)
(* The service modules' properties for every behaviour of Services, whatever  *)
(* its constants.  A behaviour of Services is one of its part's, and what the *)
(* proof modules show of the part holds of it.  The instances of the proof    *)
(* modules and those of Services are the same services (lemmas ...Same).      *)
(***************************************************************************)
EXTENDS Services, TLAPS


\* What is claimed of the checks of a configuration.
ConfigIsChecked ==
  IF "leaves" \in DOMAIN x1 THEN Checks!SecretsStayHidden(x1.leaves, x1.level)
  ELSE Checks!ValidIsComplete(x1.config, x1.rules)

\* What is claimed of the checks of a command.
CommandIsChecked ==
  IF "command" \in DOMAIN x1
  THEN LET binary == x1.command[1]
       IN  \A front, back \in GlobalFlags(binary) :
             Commands!FlagsKeepTheTier(binary, x1.command[2], front, back)
  ELSE Commands!NextStartIsAllowed([start |-> x1.start, end |-> x1.end, days |-> x1.days], x1.at)

-----------------------------------------------------------------------------
(* A behaviour starts in one part, as its module says, ...                    *)
LEMMA PartInit ==
  Init =>
    /\ part = "limits" => Limits!Init
    /\ part = "remediation" => Remediation!Init
    /\ part = "store" => Store!Init
    /\ part = "http" => Http!Init
    /\ part = "redis limit" => RedisLimit!Init
    /\ part = "login" => Logins!Init
    /\ part = "sessions" => Sessions!Init
    /\ part = "versions" => Versions!Init
    /\ part = "git" => Git!Init
    /\ part = "config audit" => ConfigLog!Init
    /\ part = "audit" => Trail!Init
    /\ part = "chat" => Chat!Init
    /\ part = "skills" => Skills!Init
    /\ part = "agents" => Agents!Init
    /\ part = "triage" => Triage!Init
    /\ part = "answer" => Answers!Init
    /\ part = "policy" => Policy!Init
    /\ part = "queries" => Queries!Init
    /\ part = "fanout" => Fanout!Init
    /\ part = "client" => WebClient!Init
    /\ part = "feedback" => Feedback!Init
    /\ part = "slo" => Slo!Init
<1>1. Init => (part = "limits" => Limits!Init)
  BY DEF Init
<1>2. Init => (part = "remediation" => Remediation!Init)
  BY DEF Init
<1>3. Init => (part = "store" => Store!Init)
  BY DEF Init
<1>4. Init => (part = "http" => Http!Init)
  BY DEF Init
<1>5. Init => (part = "redis limit" => RedisLimit!Init)
  BY DEF Init
<1>6. Init => (part = "login" => Logins!Init)
  BY DEF Init
<1>7. Init => (part = "sessions" => Sessions!Init)
  BY DEF Init
<1>8. Init => (part = "versions" => Versions!Init)
  BY DEF Init
<1>9. Init => (part = "git" => Git!Init)
  BY DEF Init
<1>10. Init => (part = "config audit" => ConfigLog!Init)
  BY DEF Init
<1>11. Init => (part = "audit" => Trail!Init)
  BY DEF Init
<1>12. Init => (part = "chat" => Chat!Init)
  BY DEF Init
<1>13. Init => (part = "skills" => Skills!Init)
  BY DEF Init
<1>14. Init => (part = "agents" => Agents!Init)
  BY DEF Init
<1>15. Init => (part = "triage" => Triage!Init)
  BY DEF Init
<1>16. Init => (part = "answer" => Answers!Init)
  BY DEF Init
<1>17. Init => (part = "policy" => Policy!Init)
  BY DEF Init
<1>18. Init => (part = "queries" => Queries!Init)
  BY DEF Init
<1>19. Init => (part = "fanout" => Fanout!Init)
  BY DEF Init
<1>20. Init => (part = "client" => WebClient!Init)
  BY DEF Init
<1>21. Init => (part = "feedback" => Feedback!Init)
  BY DEF Init
<1>22. Init => (part = "slo" => Slo!Init)
  BY DEF Init
<1> QED BY <1>1, <1>2, <1>3, <1>4, <1>5, <1>6, <1>7, <1>8, <1>9, <1>10, <1>11, <1>12, <1>13, <1>14,
           <1>15, <1>16, <1>17, <1>18, <1>19, <1>20, <1>21, <1>22

(* ... stays there and takes the steps of that part.                         *)
LEMMA PartStep ==
  [Next]_pool =>
    /\ part = "limits" <=> (part = "limits")'
    /\ part = "limits" => [Limits!Next]_(Limits!limitVars)
    /\ part = "remediation" <=> (part = "remediation")'
    /\ part = "remediation" => [Remediation!Next]_(Remediation!remediationVars)
    /\ part = "store" <=> (part = "store")'
    /\ part = "store" => [Store!Next]_(Store!storeVars)
    /\ part = "http" <=> (part = "http")'
    /\ part = "http" => [Http!Next]_(Http!httpVars)
    /\ part = "redis limit" <=> (part = "redis limit")'
    /\ part = "redis limit" => [RedisLimit!Next]_(RedisLimit!redisLimitVars)
    /\ part = "login" <=> (part = "login")'
    /\ part = "login" => [Logins!Next]_(Logins!gateVars)
    /\ part = "sessions" <=> (part = "sessions")'
    /\ part = "sessions" => [Sessions!Next]_(Sessions!sessionVars)
    /\ part = "versions" <=> (part = "versions")'
    /\ part = "versions" => [Versions!Next]_(Versions!versionVars)
    /\ part = "git" <=> (part = "git")'
    /\ part = "git" => [Git!Next]_(Git!gitVars)
    /\ part = "config audit" <=> (part = "config audit")'
    /\ part = "config audit" => [ConfigLog!Next]_(ConfigLog!auditVars)
    /\ part = "audit" <=> (part = "audit")'
    /\ part = "audit" => [Trail!Next]_(Trail!trailVars)
    /\ part = "chat" <=> (part = "chat")'
    /\ part = "chat" => [Chat!Next]_(Chat!chatVars)
    /\ part = "skills" <=> (part = "skills")'
    /\ part = "skills" => [Skills!Next]_(Skills!skillVars)
    /\ part = "agents" <=> (part = "agents")'
    /\ part = "agents" => [Agents!Next]_(Agents!agentVars)
    /\ part = "triage" <=> (part = "triage")'
    /\ part = "triage" => [Triage!Next]_(Triage!triageVars)
    /\ part = "answer" <=> (part = "answer")'
    /\ part = "answer" => [Answers!Next]_(Answers!answerVars)
    /\ part = "policy" <=> (part = "policy")'
    /\ part = "policy" => [Policy!Next]_(Policy!policyVars)
    /\ part = "queries" <=> (part = "queries")'
    /\ part = "queries" => [Queries!Next]_(Queries!queryVars)
    /\ part = "fanout" <=> (part = "fanout")'
    /\ part = "fanout" => [Fanout!Next]_(Fanout!liveVars)
    /\ part = "client" <=> (part = "client")'
    /\ part = "client" => [WebClient!Next]_(WebClient!clientVars)
    /\ part = "feedback" <=> (part = "feedback")'
    /\ part = "feedback" => [Feedback!Next]_(Feedback!feedbackVars)
    /\ part = "slo" <=> (part = "slo")'
    /\ part = "slo" => [Slo!Next]_(Slo!sloVars)
<1>1. [Next]_pool => part' = part
  BY DEF Next, pool, LimitsNext, RemediationNext, StoreNext, HttpNext, RedisLimitNext, LoginsNext,
     SessionsNext, VersionsNext, GitNext, ConfigLogNext, TrailNext, ChatNext, SkillsNext,
     AgentsNext, TriageNext, AnswersNext, PolicyNext, QueriesNext, FanoutNext, WebClientNext,
     FeedbackNext, SloNext
<1>2. [Next]_pool => (part = "limits" => [Limits!Next]_(Limits!limitVars))
  BY DEF Next, pool, LimitsNext, RemediationNext, StoreNext, HttpNext, RedisLimitNext, LoginsNext,
     SessionsNext, VersionsNext, GitNext, ConfigLogNext, TrailNext, ChatNext, SkillsNext,
     AgentsNext, TriageNext, AnswersNext, PolicyNext, QueriesNext, FanoutNext, WebClientNext,
     FeedbackNext, SloNext, Limits!limitVars
<1>3. [Next]_pool => (part = "remediation" => [Remediation!Next]_(Remediation!remediationVars))
  BY DEF Next, pool, LimitsNext, RemediationNext, StoreNext, HttpNext, RedisLimitNext, LoginsNext,
     SessionsNext, VersionsNext, GitNext, ConfigLogNext, TrailNext, ChatNext, SkillsNext,
     AgentsNext, TriageNext, AnswersNext, PolicyNext, QueriesNext, FanoutNext, WebClientNext,
     FeedbackNext, SloNext, Remediation!remediationVars, Remediation!quotaVars, Remediation!callVars
<1>4. [Next]_pool => (part = "store" => [Store!Next]_(Store!storeVars))
  BY DEF Next, pool, LimitsNext, RemediationNext, StoreNext, HttpNext, RedisLimitNext, LoginsNext,
     SessionsNext, VersionsNext, GitNext, ConfigLogNext, TrailNext, ChatNext, SkillsNext,
     AgentsNext, TriageNext, AnswersNext, PolicyNext, QueriesNext, FanoutNext, WebClientNext,
     FeedbackNext, SloNext, Store!storeVars
<1>5. [Next]_pool => (part = "http" => [Http!Next]_(Http!httpVars))
  BY DEF Next, pool, LimitsNext, RemediationNext, StoreNext, HttpNext, RedisLimitNext, LoginsNext,
     SessionsNext, VersionsNext, GitNext, ConfigLogNext, TrailNext, ChatNext, SkillsNext,
     AgentsNext, TriageNext, AnswersNext, PolicyNext, QueriesNext, FanoutNext, WebClientNext,
     FeedbackNext, SloNext, Http!httpVars
<1>6. [Next]_pool => (part = "redis limit" => [RedisLimit!Next]_(RedisLimit!redisLimitVars))
  BY DEF Next, pool, LimitsNext, RemediationNext, StoreNext, HttpNext, RedisLimitNext, LoginsNext,
     SessionsNext, VersionsNext, GitNext, ConfigLogNext, TrailNext, ChatNext, SkillsNext,
     AgentsNext, TriageNext, AnswersNext, PolicyNext, QueriesNext, FanoutNext, WebClientNext,
     FeedbackNext, SloNext, RedisLimit!redisLimitVars
<1>7. [Next]_pool => (part = "login" => [Logins!Next]_(Logins!gateVars))
  BY DEF Next, pool, LimitsNext, RemediationNext, StoreNext, HttpNext, RedisLimitNext, LoginsNext,
     SessionsNext, VersionsNext, GitNext, ConfigLogNext, TrailNext, ChatNext, SkillsNext,
     AgentsNext, TriageNext, AnswersNext, PolicyNext, QueriesNext, FanoutNext, WebClientNext,
     FeedbackNext, SloNext, Logins!gateVars
<1>8. [Next]_pool => (part = "sessions" => [Sessions!Next]_(Sessions!sessionVars))
  BY DEF Next, pool, LimitsNext, RemediationNext, StoreNext, HttpNext, RedisLimitNext, LoginsNext,
     SessionsNext, VersionsNext, GitNext, ConfigLogNext, TrailNext, ChatNext, SkillsNext,
     AgentsNext, TriageNext, AnswersNext, PolicyNext, QueriesNext, FanoutNext, WebClientNext,
     FeedbackNext, SloNext, Sessions!sessionVars
<1>9. [Next]_pool => (part = "versions" => [Versions!Next]_(Versions!versionVars))
  BY DEF Next, pool, LimitsNext, RemediationNext, StoreNext, HttpNext, RedisLimitNext, LoginsNext,
     SessionsNext, VersionsNext, GitNext, ConfigLogNext, TrailNext, ChatNext, SkillsNext,
     AgentsNext, TriageNext, AnswersNext, PolicyNext, QueriesNext, FanoutNext, WebClientNext,
     FeedbackNext, SloNext, Versions!versionVars
<1>10. [Next]_pool => (part = "git" => [Git!Next]_(Git!gitVars))
  BY DEF Next, pool, LimitsNext, RemediationNext, StoreNext, HttpNext, RedisLimitNext, LoginsNext,
     SessionsNext, VersionsNext, GitNext, ConfigLogNext, TrailNext, ChatNext, SkillsNext,
     AgentsNext, TriageNext, AnswersNext, PolicyNext, QueriesNext, FanoutNext, WebClientNext,
     FeedbackNext, SloNext, Git!gitVars
<1>11. [Next]_pool => (part = "config audit" => [ConfigLog!Next]_(ConfigLog!auditVars))
  BY DEF Next, pool, LimitsNext, RemediationNext, StoreNext, HttpNext, RedisLimitNext, LoginsNext,
     SessionsNext, VersionsNext, GitNext, ConfigLogNext, TrailNext, ChatNext, SkillsNext,
     AgentsNext, TriageNext, AnswersNext, PolicyNext, QueriesNext, FanoutNext, WebClientNext,
     FeedbackNext, SloNext, ConfigLog!auditVars
<1>12. [Next]_pool => (part = "audit" => [Trail!Next]_(Trail!trailVars))
  BY DEF Next, pool, LimitsNext, RemediationNext, StoreNext, HttpNext, RedisLimitNext, LoginsNext,
     SessionsNext, VersionsNext, GitNext, ConfigLogNext, TrailNext, ChatNext, SkillsNext,
     AgentsNext, TriageNext, AnswersNext, PolicyNext, QueriesNext, FanoutNext, WebClientNext,
     FeedbackNext, SloNext, Trail!trailVars
<1>13. [Next]_pool => (part = "chat" => [Chat!Next]_(Chat!chatVars))
  BY DEF Next, pool, LimitsNext, RemediationNext, StoreNext, HttpNext, RedisLimitNext, LoginsNext,
     SessionsNext, VersionsNext, GitNext, ConfigLogNext, TrailNext, ChatNext, SkillsNext,
     AgentsNext, TriageNext, AnswersNext, PolicyNext, QueriesNext, FanoutNext, WebClientNext,
     FeedbackNext, SloNext, Chat!chatVars
<1>14. [Next]_pool => (part = "skills" => [Skills!Next]_(Skills!skillVars))
  BY DEF Next, pool, LimitsNext, RemediationNext, StoreNext, HttpNext, RedisLimitNext, LoginsNext,
     SessionsNext, VersionsNext, GitNext, ConfigLogNext, TrailNext, ChatNext, SkillsNext,
     AgentsNext, TriageNext, AnswersNext, PolicyNext, QueriesNext, FanoutNext, WebClientNext,
     FeedbackNext, SloNext, Skills!skillVars
<1>15. [Next]_pool => (part = "agents" => [Agents!Next]_(Agents!agentVars))
  BY DEF Next, pool, LimitsNext, RemediationNext, StoreNext, HttpNext, RedisLimitNext, LoginsNext,
     SessionsNext, VersionsNext, GitNext, ConfigLogNext, TrailNext, ChatNext, SkillsNext,
     AgentsNext, TriageNext, AnswersNext, PolicyNext, QueriesNext, FanoutNext, WebClientNext,
     FeedbackNext, SloNext, Agents!agentVars
<1>16. [Next]_pool => (part = "triage" => [Triage!Next]_(Triage!triageVars))
  BY DEF Next, pool, LimitsNext, RemediationNext, StoreNext, HttpNext, RedisLimitNext, LoginsNext,
     SessionsNext, VersionsNext, GitNext, ConfigLogNext, TrailNext, ChatNext, SkillsNext,
     AgentsNext, TriageNext, AnswersNext, PolicyNext, QueriesNext, FanoutNext, WebClientNext,
     FeedbackNext, SloNext, Triage!triageVars
<1>17. [Next]_pool => (part = "answer" => [Answers!Next]_(Answers!answerVars))
  BY DEF Next, pool, LimitsNext, RemediationNext, StoreNext, HttpNext, RedisLimitNext, LoginsNext,
     SessionsNext, VersionsNext, GitNext, ConfigLogNext, TrailNext, ChatNext, SkillsNext,
     AgentsNext, TriageNext, AnswersNext, PolicyNext, QueriesNext, FanoutNext, WebClientNext,
     FeedbackNext, SloNext, Answers!answerVars
<1>18. [Next]_pool => (part = "policy" => [Policy!Next]_(Policy!policyVars))
  BY DEF Next, pool, LimitsNext, RemediationNext, StoreNext, HttpNext, RedisLimitNext, LoginsNext,
     SessionsNext, VersionsNext, GitNext, ConfigLogNext, TrailNext, ChatNext, SkillsNext,
     AgentsNext, TriageNext, AnswersNext, PolicyNext, QueriesNext, FanoutNext, WebClientNext,
     FeedbackNext, SloNext, Policy!policyVars
<1>19. [Next]_pool => (part = "queries" => [Queries!Next]_(Queries!queryVars))
  BY DEF Next, pool, LimitsNext, RemediationNext, StoreNext, HttpNext, RedisLimitNext, LoginsNext,
     SessionsNext, VersionsNext, GitNext, ConfigLogNext, TrailNext, ChatNext, SkillsNext,
     AgentsNext, TriageNext, AnswersNext, PolicyNext, QueriesNext, FanoutNext, WebClientNext,
     FeedbackNext, SloNext, Queries!queryVars
<1>20. [Next]_pool => (part = "fanout" => [Fanout!Next]_(Fanout!liveVars))
  BY DEF Next, pool, LimitsNext, RemediationNext, StoreNext, HttpNext, RedisLimitNext, LoginsNext,
     SessionsNext, VersionsNext, GitNext, ConfigLogNext, TrailNext, ChatNext, SkillsNext,
     AgentsNext, TriageNext, AnswersNext, PolicyNext, QueriesNext, FanoutNext, WebClientNext,
     FeedbackNext, SloNext, Fanout!liveVars
<1>21. [Next]_pool => (part = "client" => [WebClient!Next]_(WebClient!clientVars))
  BY DEF Next, pool, LimitsNext, RemediationNext, StoreNext, HttpNext, RedisLimitNext, LoginsNext,
     SessionsNext, VersionsNext, GitNext, ConfigLogNext, TrailNext, ChatNext, SkillsNext,
     AgentsNext, TriageNext, AnswersNext, PolicyNext, QueriesNext, FanoutNext, WebClientNext,
     FeedbackNext, SloNext, WebClient!clientVars
<1>22. [Next]_pool => (part = "feedback" => [Feedback!Next]_(Feedback!feedbackVars))
  BY DEF Next, pool, LimitsNext, RemediationNext, StoreNext, HttpNext, RedisLimitNext, LoginsNext,
     SessionsNext, VersionsNext, GitNext, ConfigLogNext, TrailNext, ChatNext, SkillsNext,
     AgentsNext, TriageNext, AnswersNext, PolicyNext, QueriesNext, FanoutNext, WebClientNext,
     FeedbackNext, SloNext, Feedback!feedbackVars
<1>23. [Next]_pool => (part = "slo" => [Slo!Next]_(Slo!sloVars))
  BY DEF Next, pool, LimitsNext, RemediationNext, StoreNext, HttpNext, RedisLimitNext, LoginsNext,
     SessionsNext, VersionsNext, GitNext, ConfigLogNext, TrailNext, ChatNext, SkillsNext,
     AgentsNext, TriageNext, AnswersNext, PolicyNext, QueriesNext, FanoutNext, WebClientNext,
     FeedbackNext, SloNext, Slo!sloVars
<1> QED BY <1>1, <1>2, <1>3, <1>4, <1>5, <1>6, <1>7, <1>8, <1>9, <1>10, <1>11, <1>12, <1>13, <1>14,
           <1>15, <1>16, <1>17, <1>18, <1>19, <1>20, <1>21, <1>22, <1>23

(* A step that changes anything changes a variable of the part.               *)
LEMMA PartStutters ==
  [Next]_pool =>
    /\ (part = "store" => [Store!KeepsUpdates]_(Store!storeVars)) => [part = "store" => Store!KeepsUpdates]_pool
    /\ (part = "versions" => [Versions!RewritesNothing]_(Versions!versionVars)) => [part = "versions" => Versions!RewritesNothing]_pool
    /\ (part = "git" => [Git!BranchesAtBase]_(Git!gitVars)) => [part = "git" => Git!BranchesAtBase]_pool
<1>1. CASE UNCHANGED pool
  BY <1>1
<1>2. CASE Next
  BY <1>2 DEF Next, pool, LimitsNext, RemediationNext, StoreNext, HttpNext, RedisLimitNext,
     LoginsNext, SessionsNext, VersionsNext, GitNext, ConfigLogNext, TrailNext, ChatNext,
     SkillsNext, AgentsNext, TriageNext, AnswersNext, PolicyNext, QueriesNext, FanoutNext,
     WebClientNext, FeedbackNext, SloNext, Keep2, Keep3, Keep4, Keep5, Keep6, Keep7, Keep8, Keep9,
     Keep10, Keep11, Store!storeVars, Versions!versionVars, Git!gitVars
<1> QED BY <1>1, <1>2

-----------------------------------------------------------------------------
(* The input of a pure function stays the same.                               *)
LEMMA InputStays ==
  ASSUME [Next]_pool
  PROVE  /\ part' = part
         /\ part \in {"bucket", "targets", "config", "health", "budget", "command", "plan"} => x1' = x1
<1>1. CASE UNCHANGED pool
  BY <1>1 DEF pool
<1>2. CASE Next
  BY <1>2 DEF Next, LimitsNext, RemediationNext, StoreNext, HttpNext, RedisLimitNext, LoginsNext,
     SessionsNext, VersionsNext, GitNext, ConfigLogNext, TrailNext, ChatNext, SkillsNext,
     AgentsNext, TriageNext, AnswersNext, PolicyNext, QueriesNext, FanoutNext, WebClientNext,
     FeedbackNext, SloNext
<1> QED BY <1>1, <1>2

-----------------------------------------------------------------------------
(* The services that limit, choose and check.                                  *)
Limiter == INSTANCE LimiterProofs WITH
  records <- x1, idle <- x2, chain <- x3, warned <- x4, limitsRunning <- x5,
  omen <- x6, type <- x1, times <- x2, remediationFile <- x3,
  remediationStage <- x4, remediationLeft <- x5, changed <- x6, refused <- x7,
  unanswered <- x8, counted <- x9, remediationLossy <- x10, redisLimitNow <- x1,
  redisLimitAsking <- x2, entries <- x3, touched <- x4, redisLimitAdmitted <- x5,
  tracked <- x1, window <- x2, swept <- x3, httpAdmitted <- x4, excused <- x5,
  failures <- x1, ipFailures <- x2, verifying <- x3, guessed <- x4, tried <- x5,
  firing <- x1, triageHistory <- x2, events <- x3, mode <- x1, phase <- x2,
  collected <- x3, provider <- x4, text <- x5, lines <- x6, card <- x7

-----------------------------------------------------------------------------
(* ActionRateLimit                                                         *)
LEMMA LimitsSame ==
  /\ Limits!Init <=> Limiter!Limits!Init
  /\ [Limits!Next]_(Limits!limitVars) <=> [Limiter!Limits!Next]_(Limiter!Limits!limitVars)
  /\ Limits!OvershootBounded <=> Limiter!Limits!OvershootBounded
  /\ Limits!QuietIsAdmitted <=> Limiter!Limits!QuietIsAdmitted
  /\ Limits!WarnedBeforeLimit <=> Limiter!Limits!WarnedBeforeLimit
<1>1. Limits!Init <=> Limiter!Limits!Init
  BY DEF Limits!Init, Limiter!Limits!Init
<1>2. [Limits!Next]_(Limits!limitVars) <=> [Limiter!Limits!Next]_(Limiter!Limits!limitVars)
  BY DEF Limits!Next, Limiter!Limits!Next, Limits!limitVars, Limiter!Limits!limitVars, Limits!Begin,
     Limiter!Limits!Begin, Limits!End, Limiter!Limits!End, Limits!Validate, Limiter!Limits!Validate,
     Limits!Restart, Limiter!Limits!Restart, Limits!Tick, Limiter!Limits!Tick, Limits!Check,
     Limiter!Limits!Check, Limits!Allowed, Limiter!Limits!Allowed, Limits!Record,
     Limiter!Limits!Record, Limits!Aged, Limiter!Limits!Aged, Limits!Older, Limiter!Limits!Older,
     Limits!Recent, Limiter!Limits!Recent, Limits!Cooling, Limiter!Limits!Cooling, Limits!ChainNow,
     Limiter!Limits!ChainNow, Limits!MonitorChain, Limiter!Limits!MonitorChain, Limits!Inside,
     Limiter!Limits!Inside, Limits!Broken, Limiter!Limits!Broken, Limits!Warns,
     Limiter!Limits!Warns, Limits!Kept, Limiter!Limits!Kept
<1>3. Limits!OvershootBounded <=> Limiter!Limits!OvershootBounded
  BY DEF Limits!OvershootBounded, Limiter!Limits!OvershootBounded, Limits!Recent,
     Limiter!Limits!Recent, Limits!Cardinality, Limiter!Limits!Cardinality, Limits!Inside,
     Limiter!Limits!Inside, Limits!Kept, Limiter!Limits!Kept
<1>4. Limits!QuietIsAdmitted <=> Limiter!Limits!QuietIsAdmitted
  BY DEF Limits!QuietIsAdmitted, Limiter!Limits!QuietIsAdmitted, Limits!Allowed,
     Limiter!Limits!Allowed, Limits!Cooling, Limiter!Limits!Cooling, Limits!ChainNow,
     Limiter!Limits!ChainNow, Limits!Recent, Limiter!Limits!Recent, Limits!Broken,
     Limiter!Limits!Broken, Limits!Inside, Limiter!Limits!Inside, Limits!Kept, Limiter!Limits!Kept
<1>5. Limits!WarnedBeforeLimit <=> Limiter!Limits!WarnedBeforeLimit
  BY DEF Limits!WarnedBeforeLimit, Limiter!Limits!WarnedBeforeLimit
<1> QED BY <1>1, <1>2, <1>3, <1>4, <1>5

-----------------------------------------------------------------------------
(* AutonomousRemediation                                                   *)
LEMMA RemediationSame ==
  /\ Remediation!Init <=> Limiter!Remediation!Init
  /\ [Remediation!Next]_(Remediation!remediationVars) <=> [Limiter!Remediation!Next]_(Limiter!Remediation!remediationVars)
  /\ Remediation!WithinQuota <=> Limiter!Remediation!WithinQuota
  /\ Remediation!FailureIsClean <=> Limiter!Remediation!FailureIsClean
<1>1. Remediation!Init <=> Limiter!Remediation!Init
  BY DEF Remediation!Init, Limiter!Remediation!Init
<1>2. [Remediation!Next]_(Remediation!remediationVars) <=> [Limiter!Remediation!Next]_(Limiter!Remediation!remediationVars)
  BY DEF Remediation!Next, Limiter!Remediation!Next, Remediation!remediationVars,
     Limiter!Remediation!remediationVars, Remediation!Start, Limiter!Remediation!Start,
     Remediation!Read, Limiter!Remediation!Read, Remediation!Plan, Limiter!Remediation!Plan,
     Remediation!Kubectl, Limiter!Remediation!Kubectl, Remediation!Finish,
     Limiter!Remediation!Finish, Remediation!Report, Limiter!Remediation!Report,
     Remediation!Restart, Limiter!Remediation!Restart, Remediation!Tick, Limiter!Remediation!Tick,
     Remediation!quotaVars, Limiter!Remediation!quotaVars, Remediation!callVars,
     Limiter!Remediation!callVars, Remediation!MediumRisk, Limiter!Remediation!MediumRisk,
     Remediation!UnderQuota, Limiter!Remediation!UnderQuota, Remediation!CooledDown,
     Limiter!Remediation!CooledDown, Remediation!Within, Limiter!Remediation!Within,
     Remediation!Goto, Limiter!Remediation!Goto, Remediation!ActionRow,
     Limiter!Remediation!ActionRow, Remediation!Rest, Limiter!Remediation!Rest,
     Remediation!Succeeds, Limiter!Remediation!Succeeds, Remediation!Count,
     Limiter!Remediation!Count, Remediation!Aged, Limiter!Remediation!Aged, Remediation!Inside,
     Limiter!Remediation!Inside, Remediation!DeleteCrashLoopPod,
     Limiter!Remediation!DeleteCrashLoopPod, Remediation!ScaleDeployment,
     Limiter!Remediation!ScaleDeployment, Remediation!RollbackDeployment,
     Limiter!Remediation!RollbackDeployment, Remediation!RestartDeployment,
     Limiter!Remediation!RestartDeployment, Remediation!ClearStuckPods,
     Limiter!Remediation!ClearStuckPods, Remediation!CleanupFailedJobs,
     Limiter!Remediation!CleanupFailedJobs, Remediation!AdjustHPAMinReplicas,
     Limiter!Remediation!AdjustHPAMinReplicas, Remediation!RestartStatefulSetPod,
     Limiter!Remediation!RestartStatefulSetPod, Remediation!FlushEndpoints,
     Limiter!Remediation!FlushEndpoints, Remediation!EvictPodFromNode,
     Limiter!Remediation!EvictPodFromNode, Remediation!RotateServiceAccountToken,
     Limiter!Remediation!RotateServiceAccountToken, Remediation!RestartDaemonSet,
     Limiter!Remediation!RestartDaemonSet, Remediation!TruncateNodeLogs,
     Limiter!Remediation!TruncateNodeLogs, Remediation!RestartIngressController,
     Limiter!Remediation!RestartIngressController, Remediation!Older, Limiter!Remediation!Older,
     Remediation!Kept, Limiter!Remediation!Kept, Remediation!Row, Limiter!Remediation!Row,
     Remediation!Single, Limiter!Remediation!Single
<1>3. Remediation!WithinQuota <=> Limiter!Remediation!WithinQuota
  BY DEF Remediation!WithinQuota, Limiter!Remediation!WithinQuota
<1>4. Remediation!FailureIsClean <=> Limiter!Remediation!FailureIsClean
  BY DEF Remediation!FailureIsClean, Limiter!Remediation!FailureIsClean, Remediation!AllOrNothing,
     Limiter!Remediation!AllOrNothing
<1> QED BY <1>1, <1>2, <1>3, <1>4

-----------------------------------------------------------------------------
(* HttpRateLimit                                                           *)
LEMMA HttpToSetSame == \A a : Http!ToSet(a) = Limiter!Http!ToSet(a)
  BY DEF Http!ToSet, Limiter!Http!ToSet

LEMMA HttpLiveSame == \A a : Http!Live(a) = Limiter!Http!Live(a)
  BY DEF Http!Live, Limiter!Http!Live, Http!Inside, Limiter!Http!Inside, Http!Kept,
     Limiter!Http!Kept

LEMMA HttpNotedSame == \A a : Http!Noted(a) = Limiter!Http!Noted(a)
  BY DEF Http!Noted, Limiter!Http!Noted

LEMMA HttpSweptSame == Http!Swept = Limiter!Http!Swept
  BY DEF Http!Swept, Limiter!Http!Swept, Http!Kept, Limiter!Http!Kept, Http!Stale,
     Limiter!Http!Stale, Http!Last, Limiter!Http!Last

LEMMA HttpBoundedSame == \A a : Http!Bounded(a) = Limiter!Http!Bounded(a)
  BY DEF Http!Bounded, Limiter!Http!Bounded

LEMMA HttpAdmitsSame == \A a : Http!Admits(a) = Limiter!Http!Admits(a)
  BY DEF Http!Admits, Limiter!Http!Admits, Http!Burst, Limiter!Http!Burst, Http!Inside,
     Limiter!Http!Inside, Http!Kept, Limiter!Http!Kept

LEMMA HttpAskSame == \A a : Http!Ask(a) <=> Limiter!Http!Ask(a)
  BY HttpToSetSame, HttpLiveSame, HttpNotedSame, HttpSweptSame, HttpBoundedSame, HttpAdmitsSame DEF
     Http!Ask, Limiter!Http!Ask, Http!Stale, Limiter!Http!Stale, Http!Last, Limiter!Http!Last

LEMMA HttpTickSame == Http!Tick <=> Limiter!Http!Tick
  BY HttpLiveSame DEF Http!Tick, Limiter!Http!Tick, Http!Aged, Limiter!Http!Aged, Http!Older,
     Limiter!Http!Older

LEMMA HttpSame ==
  /\ Http!Init <=> Limiter!Http!Init
  /\ [Http!Next]_(Http!httpVars) <=> [Limiter!Http!Next]_(Limiter!Http!httpVars)
  /\ Http!LimitHolds <=> Limiter!Http!LimitHolds
  /\ Http!TrackedBounded <=> Limiter!Http!TrackedBounded
<1>1. Http!Init <=> Limiter!Http!Init
  BY DEF Http!Init, Limiter!Http!Init
<1>2. [Http!Next]_(Http!httpVars) <=> [Limiter!Http!Next]_(Limiter!Http!httpVars)
  BY HttpToSetSame, HttpLiveSame, HttpNotedSame, HttpSweptSame, HttpBoundedSame, HttpAdmitsSame,
     HttpAskSame, HttpTickSame DEF Http!Next, Limiter!Http!Next, Http!httpVars,
     Limiter!Http!httpVars
<1>3. Http!LimitHolds <=> Limiter!Http!LimitHolds
  BY DEF Http!LimitHolds, Limiter!Http!LimitHolds, Http!Burst, Limiter!Http!Burst, Http!Inside,
     Limiter!Http!Inside, Http!Kept, Limiter!Http!Kept
<1>4. Http!TrackedBounded <=> Limiter!Http!TrackedBounded
  BY HttpToSetSame DEF Http!TrackedBounded, Limiter!Http!TrackedBounded
<1> QED BY <1>1, <1>2, <1>3, <1>4

-----------------------------------------------------------------------------
(* RedisRateLimit                                                          *)
LEMMA RedisLimitSame ==
  /\ RedisLimit!Init <=> Limiter!RedisLimit!Init
  /\ [RedisLimit!Next]_(RedisLimit!redisLimitVars) <=> [Limiter!RedisLimit!Next]_(Limiter!RedisLimit!redisLimitVars)
  /\ RedisLimit!RedisLimitHolds <=> Limiter!RedisLimit!RedisLimitHolds
<1>1. RedisLimit!Init <=> Limiter!RedisLimit!Init
  BY DEF RedisLimit!Init, Limiter!RedisLimit!Init, RedisLimit!Idle, Limiter!RedisLimit!Idle
<1>2. [RedisLimit!Next]_(RedisLimit!redisLimitVars) <=> [Limiter!RedisLimit!Next]_(Limiter!RedisLimit!redisLimitVars)
  BY DEF RedisLimit!Next, Limiter!RedisLimit!Next, RedisLimit!redisLimitVars,
     Limiter!RedisLimit!redisLimitVars, RedisLimit!Read, Limiter!RedisLimit!Read, RedisLimit!Ask,
     Limiter!RedisLimit!Ask, RedisLimit!AskUnheard, Limiter!RedisLimit!AskUnheard,
     RedisLimit!AskUnanswered, Limiter!RedisLimit!AskUnanswered, RedisLimit!Reset,
     Limiter!RedisLimit!Reset, RedisLimit!Expire, Limiter!RedisLimit!Expire, RedisLimit!Tick,
     Limiter!RedisLimit!Tick, RedisLimit!Idle, Limiter!RedisLimit!Idle, RedisLimit!Execute,
     Limiter!RedisLimit!Execute, RedisLimit!Admits, Limiter!RedisLimit!Admits,
     RedisLimit!Cardinality, Limiter!RedisLimit!Cardinality, RedisLimit!Live,
     Limiter!RedisLimit!Live, RedisLimit!Sure, Limiter!RedisLimit!Sure
<1>3. RedisLimit!RedisLimitHolds <=> Limiter!RedisLimit!RedisLimitHolds
  BY DEF RedisLimit!RedisLimitHolds, Limiter!RedisLimit!RedisLimitHolds, RedisLimit!Cardinality,
     Limiter!RedisLimit!Cardinality
<1> QED BY <1>1, <1>2, <1>3

-----------------------------------------------------------------------------
(* LoginGate                                                               *)
LEMMA LoginsSame ==
  /\ Logins!Init <=> Limiter!Logins!Init
  /\ [Logins!Next]_(Logins!gateVars) <=> [Limiter!Logins!Next]_(Limiter!Logins!gateVars)
  /\ Logins!GuessesBounded <=> Limiter!Logins!GuessesBounded
<1>1. Logins!Init <=> Limiter!Logins!Init
  BY DEF Logins!Init, Limiter!Logins!Init, Logins!Pair, Limiter!Logins!Pair
<1>2. [Logins!Next]_(Logins!gateVars) <=> [Limiter!Logins!Next]_(Limiter!Logins!gateVars)
  BY DEF Logins!Next, Limiter!Logins!Next, Logins!gateVars, Limiter!Logins!gateVars, Logins!Pair,
     Limiter!Logins!Pair, Logins!Gate, Limiter!Logins!Gate, Logins!RecordFailure,
     Limiter!Logins!RecordFailure, Logins!RecordSuccess, Limiter!Logins!RecordSuccess, Logins!Tick,
     Limiter!Logins!Tick, Logins!Restart, Limiter!Logins!Restart, Logins!Recent,
     Limiter!Logins!Recent, Logins!Open, Limiter!Logins!Open, Logins!Aged, Limiter!Logins!Aged,
     Logins!Inside, Limiter!Logins!Inside, Logins!Older, Limiter!Logins!Older, Logins!Kept,
     Limiter!Logins!Kept
<1>3. Logins!GuessesBounded <=> Limiter!Logins!GuessesBounded
  BY DEF Logins!GuessesBounded, Limiter!Logins!GuessesBounded, Logins!Pair, Limiter!Logins!Pair,
     Logins!Others, Limiter!Logins!Others, Logins!Cardinality, Limiter!Logins!Cardinality
<1> QED BY <1>1, <1>2, <1>3

-----------------------------------------------------------------------------
(* TriageInput                                                             *)
LEMMA TriageBucketSame == \A a : Triage!Bucket(a) = Limiter!Triage!Bucket(a)
  BY DEF Triage!Bucket, Limiter!Triage!Bucket

LEMMA TriageEstimateSame ==
  \A a, b, c : Triage!Estimate(a, b, c) = Limiter!Triage!Estimate(a, b, c)
  BY DEF Triage!Estimate, Limiter!Triage!Estimate, Triage!Min, Limiter!Triage!Min

LEMMA TriageSampleLogsBySeveritySame ==
  \A a, b : Triage!SampleLogsBySeverity(a, b) = Limiter!Triage!SampleLogsBySeverity(a, b)
  BY DEF Triage!SampleLogsBySeverity, Limiter!Triage!SampleLogsBySeverity, Triage!RankInBucket,
     Limiter!Triage!RankInBucket, Triage!Bucket, Limiter!Triage!Bucket, Triage!Cardinality,
     Limiter!Triage!Cardinality

LEMMA TriageFitLogsSectionSame ==
  \A a, b, c, d : Triage!FitLogsSection(a, b, c, d) = Limiter!Triage!FitLogsSection(a, b, c, d)
<1> SUFFICES ASSUME NEW a, NEW b, NEW c, NEW d
             PROVE  Triage!FitLogsSection(a, b, c, d) = Limiter!Triage!FitLogsSection(a, b, c, d)
  OBVIOUS
<1> DEFINE fits == {k \in DOMAIN b :
             /\ Triage!SampleLogsBySeverity(a, b[k]) # {}
             /\ Triage!Estimate(a, Triage!SampleLogsBySeverity(a, b[k]), c) <= d}
           again == {k \in DOMAIN b :
             /\ Limiter!Triage!SampleLogsBySeverity(a, b[k]) # {}
             /\ Limiter!Triage!Estimate(a, Limiter!Triage!SampleLogsBySeverity(a, b[k]), c) <= d}
<1>1. fits = again
  <2>1. \A k : Triage!SampleLogsBySeverity(a, b[k]) = Limiter!Triage!SampleLogsBySeverity(a, b[k])
    BY TriageSampleLogsBySeveritySame
  <2>2. \A k : Triage!Estimate(a, Triage!SampleLogsBySeverity(a, b[k]), c) =
                 Limiter!Triage!Estimate(a, Limiter!Triage!SampleLogsBySeverity(a, b[k]), c)
    BY <2>1, TriageEstimateSame
  <2> QED BY <2>1, <2>2
<1>2. Triage!FitLogsSection(a, b, c, d) =
        IF fits = {} THEN {} ELSE Triage!SampleLogsBySeverity(a, b[Triage!Min(fits)])
  BY DEF Triage!FitLogsSection
<1>3. Limiter!Triage!FitLogsSection(a, b, c, d) =
        IF again = {} THEN {} ELSE Limiter!Triage!SampleLogsBySeverity(a, b[Limiter!Triage!Min(again)])
  BY DEF Limiter!Triage!FitLogsSection
<1>4. \A S : Triage!Min(S) = Limiter!Triage!Min(S)
  BY DEF Triage!Min, Limiter!Triage!Min
<1> HIDE DEF fits, again
<1> QED BY <1>1, <1>2, <1>3, <1>4, TriageSampleLogsBySeveritySame

LEMMA TriageSame ==
  /\ Triage!Init <=> Limiter!Triage!Init
  /\ [Triage!Next]_(Triage!triageVars) <=> [Limiter!Triage!Next]_(Limiter!Triage!triageVars)
  /\ Triage!StormIsCounted <=> Limiter!Triage!StormIsCounted
<1>1. Triage!Init <=> Limiter!Triage!Init
  BY DEF Triage!Init, Limiter!Triage!Init
<1>2. [Triage!Next]_(Triage!triageVars) <=> [Limiter!Triage!Next]_(Limiter!Triage!triageVars)
  BY DEF Triage!Next, Limiter!Triage!Next, Triage!triageVars, Limiter!Triage!triageVars,
     Triage!FireAlert, Limiter!Triage!FireAlert, Triage!ResolveAlert, Limiter!Triage!ResolveAlert,
     Triage!Happens, Limiter!Triage!Happens, Triage!Add, Limiter!Triage!Add, Triage!Min,
     Limiter!Triage!Min
<1>3. Triage!StormIsCounted <=> Limiter!Triage!StormIsCounted
  BY DEF Triage!StormIsCounted, Limiter!Triage!StormIsCounted, Triage!InScope,
     Limiter!Triage!InScope, Triage!DedupeAlerts, Limiter!Triage!DedupeAlerts, Triage!Cardinality,
     Limiter!Triage!Cardinality, Triage!Min, Limiter!Triage!Min, Triage!Kept, Limiter!Triage!Kept,
     Triage!ToSet, Limiter!Triage!ToSet, Triage!GroupOf, Limiter!Triage!GroupOf, Triage!Max,
     Limiter!Triage!Max, Triage!Firsts, Limiter!Triage!Firsts
<1> QED BY <1>1, <1>2, <1>3

-----------------------------------------------------------------------------
(* TriageAnswer                                                            *)
LEMMA AnswersSame ==
  /\ Answers!Init <=> Limiter!Answers!Init
  /\ [Answers!Next]_(Answers!answerVars) <=> [Limiter!Answers!Next]_(Limiter!Answers!answerVars)
  /\ Answers!StreamTellsTheTruth <=> Limiter!Answers!StreamTellsTheTruth
<1>1. Answers!Init <=> Limiter!Answers!Init
  BY DEF Answers!Init, Limiter!Answers!Init, Answers!NoCard, Limiter!Answers!NoCard
<1>2. [Answers!Next]_(Answers!answerVars) <=> [Limiter!Answers!Next]_(Limiter!Answers!answerVars)
  BY DEF Answers!Next, Limiter!Answers!Next, Answers!answerVars, Limiter!Answers!answerVars,
     Answers!Collect, Limiter!Answers!Collect, Answers!StreamToken, Limiter!Answers!StreamToken,
     Answers!NotConfigured, Limiter!Answers!NotConfigured, Answers!StreamStop,
     Limiter!Answers!StreamStop, Answers!StreamEnd, Limiter!Answers!StreamEnd, Answers!StreamCut,
     Limiter!Answers!StreamCut, Answers!ProviderFails, Limiter!Answers!ProviderFails,
     Answers!CardAnswer, Limiter!Answers!CardAnswer, Answers!CallerLeaves,
     Limiter!Answers!CallerLeaves, Answers!TokenLine, Limiter!Answers!TokenLine, Answers!Finish,
     Limiter!Answers!Finish, Answers!Failure, Limiter!Answers!Failure, Answers!CompleteLine,
     Limiter!Answers!CompleteLine, Answers!ErrorLine, Limiter!Answers!ErrorLine
<1>3. Answers!StreamTellsTheTruth <=> Limiter!Answers!StreamTellsTheTruth
  BY DEF Answers!StreamTellsTheTruth, Limiter!Answers!StreamTellsTheTruth, Answers!Streamed,
     Limiter!Answers!Streamed, Answers!Kept, Limiter!Answers!Kept, Answers!TokenLine,
     Limiter!Answers!TokenLine
<1> QED BY <1>1, <1>2, <1>3

LEMMA BucketSame == \A a, b, c, d, e : Http!BucketIsNotChosen(a, b, c, d, e) <=> Limiter!Http!BucketIsNotChosen(a, b, c, d, e)
  BY DEF Http!BucketIsNotChosen, Limiter!Http!BucketIsNotChosen, Http!ClientId,
     Limiter!Http!ClientId, Http!Kept, Limiter!Http!Kept, Http!ToSet, Limiter!Http!ToSet, Http!Last,
     Limiter!Http!Last

LEMMA BucketHolds ==
  ASSUME part = "bucket" => x1 \in BucketInput
  PROVE  part = "bucket" => Http!BucketIsNotChosen(x1.direct, x1.seen, x1.written, x1.real, Trusted)
<1> SUFFICES ASSUME part = "bucket"
             PROVE  Http!BucketIsNotChosen(x1.direct, x1.seen, x1.written, x1.real, Trusted)
  OBVIOUS
<1>1. x1.seen \in STRING /\ x1.written \in Seq(STRING)
  BY BucketTexts
<1>2. Limiter!Http!BucketIsNotChosen(x1.direct, x1.seen, x1.written, x1.real, Trusted)
  BY <1>1, Limiter!BucketIsTheSeenAddress
<1> QED BY <1>2, BucketSame

LEMMA TargetsScaleTargetSame ==
  \A a, b, c, d : Targets!ScaleTarget(a, b, c, d) = Limiter!Targets!ScaleTarget(a, b, c, d)
  BY DEF Targets!ScaleTarget, Limiter!Targets!ScaleTarget

LEMMA TargetsSame ==
  /\ \A a, b, c : Targets!CleanupKeepsYoungest(a, b, c) <=> Limiter!Targets!CleanupKeepsYoungest(a, b, c)
  /\ \A a, b, c, d : Targets!ScalingStaysInLimits(a, b, c, d) <=> Limiter!Targets!ScalingStaysInLimits(a, b, c, d)
<1>1. \A a, b, c : Targets!CleanupKeepsYoungest(a, b, c) <=> Limiter!Targets!CleanupKeepsYoungest(a, b, c)
  BY SMTT(30) DEF Targets!CleanupKeepsYoungest, Limiter!Targets!CleanupKeepsYoungest,
     Targets!JobsToDelete, Limiter!Targets!JobsToDelete, Targets!OldFailures,
     Limiter!Targets!OldFailures, Targets!Cardinality, Limiter!Targets!Cardinality,
     Targets!YoungerThan, Limiter!Targets!YoungerThan
<1>2. \A a, b, c, d : Targets!ScalingStaysInLimits(a, b, c, d) <=> Limiter!Targets!ScalingStaysInLimits(a, b, c, d)
  BY TargetsScaleTargetSame DEF Targets!ScalingStaysInLimits, Limiter!Targets!ScalingStaysInLimits
<1> QED BY <1>1, <1>2

LEMMA TargetsHolds ==
  ASSUME part = "targets" => x1 \in TargetsInput
  PROVE  part = "targets" => TargetsAreBounded
<1> SUFFICES ASSUME part = "targets", x1 \in TargetsInput
             PROVE  TargetsAreBounded
  BY DEF TargetsAreBounded
<1>1. CASE "jobs" \in DOMAIN x1
  <2>1. Limiter!TargetsListing(x1.jobs) /\ x1.keep \in Nat
    BY <1>1, TargetsListed DEF Limiter!TargetsListing, IsFiniteSet, Limiter!IsFiniteSet
  <2>2. Limiter!Targets!CleanupKeepsYoungest(x1.jobs, x1.hours, x1.keep)
    BY <2>1, Limiter!CleanupSparesYoungest
  <2> QED BY <1>1, <2>2, TargetsSame DEF TargetsAreBounded
<1>2. CASE ~("jobs" \in DOMAIN x1)
  <2>1. /\ x1.current \in Int /\ x1.low \in Int /\ x1.high \in Int
        /\ x1.asked \in [relative : BOOLEAN, by : Int]
    BY <1>2, TargetsListed
  <2>2. Limiter!Targets!ScalingStaysInLimits(x1.current, x1.asked, x1.low, x1.high)
    BY <2>1, Limiter!ScalingIsLimited
  <2> QED BY <1>2, <2>2, TargetsSame DEF TargetsAreBounded
<1> QED BY <1>1, <1>2

LEMMA ChecksSame ==
  /\ \A a, b : Checks!SecretsStayHidden(a, b) <=> Limiter!Checks!SecretsStayHidden(a, b)
  /\ \A a, b : Checks!ValidIsComplete(a, b) <=> Limiter!Checks!ValidIsComplete(a, b)
<1>1. \A a, b : Checks!SecretsStayHidden(a, b) <=> Limiter!Checks!SecretsStayHidden(a, b)
  BY DEF Checks!SecretsStayHidden, Limiter!Checks!SecretsStayHidden, Checks!Sanitize,
     Limiter!Checks!Sanitize, Checks!IsSecret, Limiter!Checks!IsSecret, Checks!Redacted,
     Limiter!Checks!Redacted, Checks!Encrypt, Limiter!Checks!Encrypt, Checks!IsToken,
     Limiter!Checks!IsToken, Checks!Decrypt, Limiter!Checks!Decrypt, Checks!Scan,
     Limiter!Checks!Scan, Checks!SanitizeLeaf, Limiter!Checks!SanitizeLeaf, Checks!Encrypts,
     Limiter!Checks!Encrypts, Checks!Last, Limiter!Checks!Last, Checks!HiddenAt,
     Limiter!Checks!HiddenAt, Checks!IsString, Limiter!Checks!IsString, Checks!SelectInSeq,
     Limiter!Checks!SelectInSeq, Checks!Hides, Limiter!Checks!Hides, Checks!Min, Limiter!Checks!Min,
     Checks!IsPii, Limiter!Checks!IsPii
<1>2. \A a, b : Checks!ValidIsComplete(a, b) <=> Limiter!Checks!ValidIsComplete(a, b)
  BY DEF Checks!ValidIsComplete, Limiter!Checks!ValidIsComplete, Checks!ProjectVerdict,
     Limiter!Checks!ProjectVerdict, Checks!Fits, Limiter!Checks!Fits, Checks!Section,
     Limiter!Checks!Section, Checks!FieldErrors, Limiter!Checks!FieldErrors, Checks!NestedErrors,
     Limiter!Checks!NestedErrors, Checks!Numeric, Limiter!Checks!Numeric
<1> QED BY <1>1, <1>2

LEMMA ChecksHolds ==
  ASSUME part = "config" => x1 \in ChecksInput
  PROVE  part = "config" => ConfigIsChecked
<1>1. ASSUME part = "config", "leaves" \in DOMAIN x1
      PROVE  Checks!SecretsStayHidden(x1.leaves, x1.level)
  <2>1. x1.leaves \in SUBSET Limiter!ChecksLeaves
    BY <1>1, ConfigLeaves DEF Limiter!ChecksLeaves, Limiter!ChecksLeafType, Limiter!ChecksKey,
       Checks!Redacted, Limiter!Checks!Redacted
  <2>2. Limiter!Checks!SecretsStayHidden(x1.leaves, x1.level)
    BY <2>1, Limiter!SecretsAreHidden
  <2> QED BY <2>2, ChecksSame
<1>2. Checks!ValidIsComplete(x1.config, x1.rules)
  <2>1. Limiter!Checks!ValidIsComplete(x1.config, x1.rules)
    BY Limiter!ValidProjectsAreComplete
  <2> QED BY <2>1, ChecksSame
<1> QED BY <1>1, <1>2 DEF ConfigIsChecked

LEMMA HealthSame == \A a, b, c, d : Health!HealthIsHonest(a, b, c, d) <=> Limiter!Health!HealthIsHonest(a, b, c, d)
  BY DEF Health!HealthIsHonest, Limiter!Health!HealthIsHonest, Health!Status, Limiter!Health!Status,
     Health!StatusCode, Limiter!Health!StatusCode, Health!Overall, Limiter!Health!Overall,
     Health!HealthScore, Limiter!Health!HealthScore, Health!Recommended, Limiter!Health!Recommended,
     Health!Critical, Limiter!Health!Critical, Health!Healthy, Limiter!Health!Healthy,
     Health!Source, Limiter!Health!Source, Health!Probed, Limiter!Health!Probed, Health!Checked,
     Limiter!Health!Checked, Health!Down, Limiter!Health!Down, Health!Count, Limiter!Health!Count,
     Health!Cardinality, Limiter!Health!Cardinality, Health!CriticalIssues,
     Limiter!Health!CriticalIssues, Health!Kind, Limiter!Health!Kind

LEMMA HealthHolds ==
  ASSUME part = "health" => x1 \in HealthInput
  PROVE  part = "health" => Health!HealthIsHonest(x1.configured, x1.ends, x1.services, x1.failing)
<1> SUFFICES ASSUME part = "health", x1 \in HealthInput
             PROVE  Health!HealthIsHonest(x1.configured, x1.ends, x1.services, x1.failing)
  OBVIOUS
<1>1. x1.configured \in SUBSET Limiter!Health!Source /\ x1.services \in Seq(Limiter!HealthServices)
  BY HealthServices DEF Health!Source, Limiter!Health!Source, Limiter!HealthServices,
     Limiter!HealthServiceType
<1>2. Limiter!Health!HealthIsHonest(x1.configured, x1.ends, x1.services, x1.failing)
  BY <1>1, Limiter!HealthIsTruthful
<1> QED BY <1>2, HealthSame

LEMMA BudgetSame ==
  \A a, b, c, d, e : Triage!BudgetIsMonotone(a, b, c, d, e) <=> Limiter!Triage!BudgetIsMonotone(a, b, c, d, e)
  BY TriageBucketSame, TriageEstimateSame, TriageFitLogsSectionSame DEF Triage!BudgetIsMonotone,
     Limiter!Triage!BudgetIsMonotone

LEMMA BudgetHolds ==
  ASSUME part = "budget" => x1 \in BudgetInput
  PROVE  part = "budget" => Triage!BudgetIsMonotone(x1.logs, Ladder, Cap, x1.low, x1.high)
<1> SUFFICES ASSUME part = "budget", x1 \in BudgetInput
             PROVE  Triage!BudgetIsMonotone(x1.logs, Ladder, Cap, x1.low, x1.high)
  OBVIOUS
<1>1. x1.logs \in Limiter!TriageLogs /\ x1.low \in Int /\ x1.high \in Int
  BY BudgetLadder DEF Limiter!TriageLogs
<1>2. Limiter!TriageTightens(Ladder) /\ Cap \in Nat
  BY BudgetLadder DEF Limiter!TriageTightens, Limiter!TriageRungs
<1>3. Limiter!Triage!BudgetIsMonotone(x1.logs, Ladder, Cap, x1.low, x1.high)
  BY <1>1, <1>2, Limiter!BudgetsAreMonotone
<1> QED BY <1>3, BudgetSame

LEMMA CommandsKeptSame == \A a, b : Commands!Kept(a, b) = Limiter!Commands!Kept(a, b)
  BY DEF Commands!Kept, Limiter!Commands!Kept

LEMMA CommandsRangeSame == \A a : Commands!Range(a) = Limiter!Commands!Range(a)
  BY DEF Commands!Range, Limiter!Commands!Range

LEMMA CommandsMinSame == \A a : Commands!Min(a) = Limiter!Commands!Min(a)
  BY DEF Commands!Min, Limiter!Commands!Min

LEMMA CommandsWordAtSame ==
  \A a, b : Commands!WordAt(a, b) = Limiter!Commands!WordAt(a, b)
  BY DEF Commands!WordAt, Limiter!Commands!WordAt, Commands!NoWord, Limiter!Commands!NoWord

LEMMA CommandsIsFlagSame == \A a : Commands!IsFlag(a) <=> Limiter!Commands!IsFlag(a)
  BY DEF Commands!IsFlag, Limiter!Commands!IsFlag, Commands!Flags, Limiter!Commands!Flags

LEMMA CommandsPositionalsSame ==
  \A a, b : Commands!Positionals(a, b) = Limiter!Commands!Positionals(a, b)
  BY DEF Commands!Positionals, Limiter!Commands!Positionals, Commands!IsFlag,
     Limiter!Commands!IsFlag, Commands!Flags, Limiter!Commands!Flags, Commands!Kept,
     Limiter!Commands!Kept

LEMMA CommandsSkipGlobalFlagsSame ==
  \A a, b, c : Commands!SkipGlobalFlags(a, b, c) = Limiter!Commands!SkipGlobalFlags(a, b, c)
  BY DEF Commands!SkipGlobalFlags, Limiter!Commands!SkipGlobalFlags, Commands!IsFlag,
     Limiter!Commands!IsFlag, Commands!Min, Limiter!Commands!Min, Commands!Flags,
     Limiter!Commands!Flags

LEMMA CommandsParseKubectlSame ==
  \A a : Commands!ParseKubectl(a) = Limiter!Commands!ParseKubectl(a)
  BY CommandsKeptSame, CommandsRangeSame, CommandsWordAtSame, CommandsIsFlagSame,
     CommandsPositionalsSame DEF Commands!ParseKubectl, Limiter!Commands!ParseKubectl,
     Commands!BooleanFlags, Limiter!Commands!BooleanFlags, Commands!KubectlVerbs,
     Limiter!Commands!KubectlVerbs, Commands!KubectlTypes, Limiter!Commands!KubectlTypes

LEMMA CommandsPlainAtSame ==
  \A a, b : Commands!PlainAt(a, b) = Limiter!Commands!PlainAt(a, b)
  BY CommandsWordAtSame, CommandsIsFlagSame DEF Commands!PlainAt, Limiter!Commands!PlainAt,
     Commands!NoWord, Limiter!Commands!NoWord

LEMMA CommandsParseHelmSame ==
  \A a : Commands!ParseHelm(a) = Limiter!Commands!ParseHelm(a)
  BY CommandsKeptSame, CommandsMinSame, CommandsWordAtSame, CommandsIsFlagSame,
     CommandsPositionalsSame, CommandsSkipGlobalFlagsSame, CommandsPlainAtSame, ZenonT(60) DEF
     Commands!ParseHelm, Limiter!Commands!ParseHelm, Commands!TakesValue,
     Limiter!Commands!TakesValue, Commands!HelmVerbs, Limiter!Commands!HelmVerbs, Commands!NoWord,
     Limiter!Commands!NoWord

LEMMA CommandsParseArgocdSame ==
  \A a : Commands!ParseArgocd(a) = Limiter!Commands!ParseArgocd(a)
  BY CommandsKeptSame, CommandsMinSame, CommandsWordAtSame, CommandsIsFlagSame,
     CommandsPositionalsSame, CommandsSkipGlobalFlagsSame, CommandsPlainAtSame DEF
     Commands!ParseArgocd, Limiter!Commands!ParseArgocd, Commands!TakesValue,
     Limiter!Commands!TakesValue, Commands!ArgoTypes, Limiter!Commands!ArgoTypes, Commands!NoWord,
     Limiter!Commands!NoWord

LEMMA CommandsParseSame == \A a : Commands!Parse(a) = Limiter!Commands!Parse(a)
  BY CommandsKeptSame, CommandsRangeSame, CommandsMinSame, CommandsWordAtSame, CommandsIsFlagSame,
     CommandsPositionalsSame, CommandsSkipGlobalFlagsSame, CommandsParseKubectlSame,
     CommandsPlainAtSame, CommandsParseHelmSame, CommandsParseArgocdSame DEF Commands!Parse,
     Limiter!Commands!Parse, Commands!NoWord, Limiter!Commands!NoWord

LEMMA CommandsRequiredPermissionSame ==
  \A a : Commands!RequiredPermission(a) = Limiter!Commands!RequiredPermission(a)
  BY CommandsMinSame DEF Commands!RequiredPermission, Limiter!Commands!RequiredPermission,
     Commands!ActionPermissions, Limiter!Commands!ActionPermissions

LEMMA CommandsExtractActionSame ==
  \A a : Commands!ExtractAction(a) = Limiter!Commands!ExtractAction(a)
  BY CommandsKeptSame, CommandsRangeSame, CommandsMinSame, CommandsWordAtSame, CommandsIsFlagSame,
     CommandsPositionalsSame, CommandsSkipGlobalFlagsSame, CommandsParseKubectlSame,
     CommandsPlainAtSame, CommandsParseHelmSame, CommandsParseArgocdSame, CommandsParseSame DEF
     Commands!ExtractAction, Limiter!Commands!ExtractAction, Commands!NoWord,
     Limiter!Commands!NoWord

LEMMA CommandsSame ==
  /\ \A a, b, c, d : Commands!FlagsKeepTheTier(a, b, c, d) <=> Limiter!Commands!FlagsKeepTheTier(a, b, c, d)
  /\ \A a, b : Commands!NextStartIsAllowed(a, b) <=> Limiter!Commands!NextStartIsAllowed(a, b)
  /\ \A a, b : Commands!NamesAction(a, b) <=> Limiter!Commands!NamesAction(a, b)
  /\ \A a, b : Commands!ClosedFlags(a, b) <=> Limiter!Commands!ClosedFlags(a, b)
<1>1. \A a, b, c, d : Commands!FlagsKeepTheTier(a, b, c, d) <=> Limiter!Commands!FlagsKeepTheTier(a, b, c, d)
  BY CommandsKeptSame, CommandsRangeSame, CommandsMinSame, CommandsWordAtSame, CommandsIsFlagSame,
     CommandsPositionalsSame, CommandsSkipGlobalFlagsSame, CommandsParseKubectlSame,
     CommandsPlainAtSame, CommandsParseHelmSame, CommandsParseArgocdSame, CommandsParseSame,
     CommandsRequiredPermissionSame, CommandsExtractActionSame DEF Commands!FlagsKeepTheTier,
     Limiter!Commands!FlagsKeepTheTier
<1>2. \A a, b : Commands!NextStartIsAllowed(a, b) <=> Limiter!Commands!NextStartIsAllowed(a, b)
  BY CommandsMinSame DEF Commands!NextStartIsAllowed, Limiter!Commands!NextStartIsAllowed,
     Commands!InWindow, Limiter!Commands!InWindow, Commands!NextAllowed,
     Limiter!Commands!NextAllowed, Commands!Day, Limiter!Commands!Day, Commands!Hour,
     Limiter!Commands!Hour
<1>3. \A a, b : Commands!NamesAction(a, b) <=> Limiter!Commands!NamesAction(a, b)
  BY CommandsIsFlagSame DEF Commands!NamesAction, Limiter!Commands!NamesAction,
     Commands!KubectlVerbs, Limiter!Commands!KubectlVerbs, Commands!HelmVerbs,
     Limiter!Commands!HelmVerbs, Commands!ArgoTypes, Limiter!Commands!ArgoTypes, Commands!NoWord,
     Limiter!Commands!NoWord
<1>4. \A a, b : Commands!ClosedFlags(a, b) <=> Limiter!Commands!ClosedFlags(a, b)
  BY CommandsIsFlagSame DEF Commands!ClosedFlags, Limiter!Commands!ClosedFlags, Commands!Valued,
     Limiter!Commands!Valued, Commands!Flags, Limiter!Commands!Flags, Commands!BooleanFlags,
     Limiter!Commands!BooleanFlags, Commands!TakesValue, Limiter!Commands!TakesValue
<1> QED BY <1>1, <1>2, <1>3, <1>4

LEMMA CommandsHolds ==
  ASSUME part = "command" => x1 \in CommandsInput
  PROVE  part = "command" => CommandIsChecked
<1> SUFFICES ASSUME part = "command", x1 \in CommandsInput
             PROVE  CommandIsChecked
  BY DEF CommandIsChecked
<1>1. CASE "command" \in DOMAIN x1
  <2> DEFINE binary == x1.command[1]
             words == x1.command[2]
  <2>1. ASSUME NEW front \in GlobalFlags(binary), NEW back \in GlobalFlags(binary)
        PROVE  Commands!FlagsKeepTheTier(binary, words, front, back)
    <3>1. /\ binary \in {"kubectl", "helm", "argocd"} /\ Commands!NamesAction(binary, words)
          /\ Commands!ClosedFlags(binary, front) /\ Commands!ClosedFlags(binary, back)
      BY <1>1, CommandWords
    <3>2. /\ Limiter!Commands!NamesAction(binary, words)
          /\ Limiter!Commands!ClosedFlags(binary, front)
      BY <3>1, CommandsSame
    <3>3. back \in Seq(STRING)
      BY <3>1 DEF Commands!ClosedFlags
    <3>4. Limiter!Commands!FlagsKeepTheTier(binary, words, front, back)
      BY <3>1, <3>2, <3>3, Limiter!FlagsChangeNoTier
    <3> QED BY <3>4, CommandsSame
  <2> QED BY <1>1, <2>1 DEF CommandIsChecked
<1>2. CASE ~("command" \in DOMAIN x1)
  <2> DEFINE window == [start |-> x1.start, end |-> x1.end, days |-> x1.days]
  <2>1. /\ window \in Limiter!CommandsWindow /\ window.days # {} /\ window.start # window.end
        /\ x1.at \in Nat
    BY <1>2, CommandWords DEF Limiter!CommandsWindow
  <2>2. Limiter!Commands!NextStartIsAllowed(window, x1.at)
    BY <2>1, Limiter!RetryIsAllowed
  <2> QED BY <1>2, <2>2, CommandsSame DEF CommandIsChecked
<1> QED BY <1>1, <1>2

LEMMA PlansMinSame == \A a : Plans!Min(a) = Limiter!Plans!Min(a)
  BY DEF Plans!Min, Limiter!Plans!Min

LEMMA PlansMaxSame == \A a : Plans!Max(a) = Limiter!Plans!Max(a)
  BY DEF Plans!Max, Limiter!Plans!Max

LEMMA PlansWordSame == \A a : Plans!Word(a) = Limiter!Plans!Word(a)
  BY DEF Plans!Word, Limiter!Plans!Word

LEMMA PlansFlagSame == \A a : Plans!Flag(a) = Limiter!Plans!Flag(a)
  BY DEF Plans!Flag, Limiter!Plans!Flag

LEMMA PlansIsWordAtSame ==
  \A a, b : Plans!IsWordAt(a, b) <=> Limiter!Plans!IsWordAt(a, b)
  BY DEF Plans!IsWordAt, Limiter!Plans!IsWordAt

LEMMA PlansIsFlagAtSame ==
  \A a, b : Plans!IsFlagAt(a, b) <=> Limiter!Plans!IsFlagAt(a, b)
  BY DEF Plans!IsFlagAt, Limiter!Plans!IsFlagAt

LEMMA PlansAllowedSame == \A a : Plans!Allowed(a) = Limiter!Plans!Allowed(a)
  BY DEF Plans!Allowed, Limiter!Plans!Allowed

LEMMA PlansArgumentsSame == \A a : Plans!Arguments(a) = Limiter!Plans!Arguments(a)
  BY DEF Plans!Arguments, Limiter!Plans!Arguments, Plans!IsWordAt, Limiter!Plans!IsWordAt,
     Plans!Taken, Limiter!Plans!Taken, Plans!Cardinality, Limiter!Plans!Cardinality, Plans!IsFlagAt,
     Limiter!Plans!IsFlagAt

LEMMA PlansFlagValueSame ==
  \A a, b : Plans!FlagValue(a, b) = Limiter!Plans!FlagValue(a, b)
  BY DEF Plans!FlagValue, Limiter!Plans!FlagValue, Plans!Flag, Limiter!Plans!Flag, Plans!IsWordAt,
     Limiter!Plans!IsWordAt, Plans!Max, Limiter!Plans!Max

LEMMA PlansOperationSame == \A a : Plans!Operation(a) = Limiter!Plans!Operation(a)
  BY PlansIsWordAtSame DEF Plans!Operation, Limiter!Plans!Operation

LEMMA PlansNamespaceSame == \A a : Plans!Namespace(a) = Limiter!Plans!Namespace(a)
  BY PlansMaxSame, PlansWordSame, PlansFlagSame, PlansIsWordAtSame, PlansFlagValueSame DEF
     Plans!Namespace, Limiter!Plans!Namespace

LEMMA PlansFirstPositionalSame ==
  \A a, b : Plans!FirstPositional(a, b) = Limiter!Plans!FirstPositional(a, b)
  BY DEF Plans!FirstPositional, Limiter!Plans!FirstPositional, Plans!IsWordAt,
     Limiter!Plans!IsWordAt, Plans!IsValue, Limiter!Plans!IsValue, Plans!ValueFlags,
     Limiter!Plans!ValueFlags, Plans!Min, Limiter!Plans!Min, Plans!IsFlagAt, Limiter!Plans!IsFlagAt

LEMMA PlansAcceptedSame ==
  \A a, b : Plans!Accepted(a, b) <=> Limiter!Plans!Accepted(a, b)
  BY PlansMinSame, PlansIsWordAtSame, PlansIsFlagAtSame, PlansAllowedSame, PlansFirstPositionalSame
     DEF Plans!Accepted, Limiter!Plans!Accepted

LEMMA PlansContainsSame ==
  \A a, b : Plans!Contains(a, b) <=> Limiter!Plans!Contains(a, b)
  BY DEF Plans!Contains, Limiter!Plans!Contains

LEMMA PlansKubectlRollbackSame ==
  \A a : Plans!KubectlRollback(a) = Limiter!Plans!KubectlRollback(a)
  BY PlansMaxSame, PlansWordSame, PlansFlagSame, PlansIsWordAtSame, PlansIsFlagAtSame,
     PlansArgumentsSame, PlansFlagValueSame, PlansOperationSame, PlansNamespaceSame,
     PlansContainsSame DEF Plans!KubectlRollback, Limiter!Plans!KubectlRollback, Plans!NoPlan,
     Limiter!Plans!NoPlan

LEMMA PlansHelmRollbackSame ==
  \A a : Plans!HelmRollback(a) = Limiter!Plans!HelmRollback(a)
  BY PlansMaxSame, PlansWordSame, PlansFlagSame, PlansIsWordAtSame, PlansIsFlagAtSame,
     PlansArgumentsSame, PlansFlagValueSame, PlansOperationSame, PlansNamespaceSame DEF
     Plans!HelmRollback, Limiter!Plans!HelmRollback, Plans!NoPlan, Limiter!Plans!NoPlan

LEMMA PlansArgocdRollbackSame ==
  \A a : Plans!ArgocdRollback(a) = Limiter!Plans!ArgocdRollback(a)
  BY PlansMinSame, PlansWordSame, PlansIsWordAtSame, PlansIsFlagAtSame, PlansArgumentsSame,
     PlansOperationSame, PlansContainsSame DEF Plans!ArgocdRollback, Limiter!Plans!ArgocdRollback,
     Plans!NoPlan, Limiter!Plans!NoPlan

LEMMA PlansRollbackSame == \A a, b : Plans!Rollback(a, b) = Limiter!Plans!Rollback(a, b)
  BY PlansMinSame, PlansMaxSame, PlansWordSame, PlansFlagSame, PlansIsWordAtSame, PlansIsFlagAtSame,
     PlansArgumentsSame, PlansFlagValueSame, PlansOperationSame, PlansNamespaceSame,
     PlansContainsSame, PlansKubectlRollbackSame, PlansHelmRollbackSame, PlansArgocdRollbackSame DEF
     Plans!Rollback, Limiter!Plans!Rollback, Plans!NoPlan, Limiter!Plans!NoPlan

LEMMA PlansSame ==
  \A a, b : Plans!PlanIsRunnable(a, b) <=> Limiter!Plans!PlanIsRunnable(a, b)
  BY PlansMinSame, PlansMaxSame, PlansWordSame, PlansFlagSame, PlansIsWordAtSame, PlansIsFlagAtSame,
     PlansAllowedSame, PlansArgumentsSame, PlansFlagValueSame, PlansOperationSame,
     PlansNamespaceSame, PlansFirstPositionalSame, PlansAcceptedSame, PlansContainsSame,
     PlansKubectlRollbackSame, PlansHelmRollbackSame, PlansArgocdRollbackSame, PlansRollbackSame DEF
     Plans!PlanIsRunnable, Limiter!Plans!PlanIsRunnable, Plans!NoPlan, Limiter!Plans!NoPlan,
     Plans!Given, Limiter!Plans!Given

LEMMA PlansHolds ==
  ASSUME part = "plan" => x1 \in PlansInput
  PROVE  part = "plan" => Plans!PlanIsRunnable(x1.binary, x1.tokens)
<1> SUFFICES ASSUME part = "plan", x1 \in PlansInput
             PROVE  Plans!PlanIsRunnable(x1.binary, x1.tokens)
  OBVIOUS
<1>1. x1.tokens \in Seq([flag : STRING, glued : STRING] \cup [word : STRING])
  BY PlanTokens
<1>2. Limiter!Plans!PlanIsRunnable(x1.binary, x1.tokens)
  BY <1>1, Limiter!PlansAreRunnable
<1> QED BY <1>2, PlansSame

-----------------------------------------------------------------------------
(* The engine overshoots its hourly limit by at most the executions under way, *)
(* admits a quiet project and warns before the chain limit is met             *)
(* (rate_limiter.py 71-158).                                                 *)
THEOREM ActionsAreLimited == Spec => []ActionLimits
<1>1. Limiter!Limits!Spec => []Limiter!Limits!OvershootBounded
  BY LimitsNumbers, Limiter!OvershootIsBounded DEF Limiter!LimitsNumbers, IsFiniteSet,
     Limiter!IsFiniteSet
<1>2. Limiter!Limits!Spec => []Limiter!Limits!QuietIsAdmitted
  BY LimitsNumbers, Limiter!QuietProjectIsAdmitted DEF Limiter!LimitsNumbers, IsFiniteSet,
     Limiter!IsFiniteSet
<1>3. Limiter!Limits!Spec => []Limiter!Limits!WarnedBeforeLimit
  BY LimitsNumbers, Limiter!LimitIsWarnedOf DEF Limiter!LimitsNumbers, IsFiniteSet,
     Limiter!IsFiniteSet
<1> QED BY <1>1, <1>2, <1>3, PartInit, PartStep, LimitsSame, PTL DEF Spec, ActionLimits,
           Limiter!Limits!Spec

-----------------------------------------------------------------------------
(* The autonomous quota and its cooldown hold for the executions that        *)
(* succeeded, across restarts, unless a save failed or the file was lost     *)
(* (rate_limiter.py 478-560).                                                *)
THEOREM QuotaIsKept == Spec => []WithinQuota
<1>1. Limiter!Remediation!Spec => []Limiter!Remediation!WithinQuota
  BY RemediationNumbers, Limiter!QuotaHolds DEF Limiter!RemediationNumbers
<1> QED BY <1>1, PartInit, PartStep, RemediationSame, PTL DEF Spec, WithinQuota,
           Limiter!Remediation!Spec

-----------------------------------------------------------------------------
(* A remediation that failed, and so counts for nothing, changed the cluster *)
(* by nothing but calls that timed out after they took effect; the exception *)
(* are the deletions that all must succeed (remediation_actions.py 111-138,  *)
(* executor.py 351-363).                                                     *)
THEOREM FailedRemediationIsClean == Spec => []FailureIsClean
<1>1. Limiter!Remediation!Spec => []Limiter!Remediation!FailureIsClean
  BY RemediationNumbers, Limiter!FailuresAreClean DEF Limiter!RemediationNumbers
<1> QED BY <1>1, PartInit, PartStep, RemediationSame, PTL DEF Spec, FailureIsClean,
           Limiter!Remediation!Spec

-----------------------------------------------------------------------------
(* No client and no guesser gets more than the limit in a sliding window, nor *)
(* chooses its window. The window that Redis keeps for all pods is shorter by *)
(* the wait for it and by what two clocks differ (rate_limit.py 105-228,     *)
(* redis_rate_limiter.py 78-162, main.py 734-819).                           *)
THEOREM RequestsAreLimited == Spec => []RequestLimitsHold
<1>1. Limiter!Http!Spec => []Limiter!Http!LimitHolds
  BY HttpNumbers, Limiter!HttpLimitIsKept DEF Limiter!HttpNumbers
<1>2. Limiter!Http!Spec => []Limiter!Http!TrackedBounded
  BY HttpNumbers, Limiter!HttpWindowsAreBounded DEF Limiter!HttpNumbers
<1>3. Limiter!RedisLimit!Spec => []Limiter!RedisLimit!RedisLimitHolds
  BY RedisLimitNumbers, Limiter!RedisLimitIsKept DEF Limiter!RedisLimitNumbers
<1>4. Limiter!Logins!Spec => []Limiter!Logins!GuessesBounded
  BY LoginsNumbers, Limiter!GuessesAreBounded DEF Limiter!LoginsNumbers, IsFiniteSet,
     Limiter!IsFiniteSet
<1>5. Init => (part = "bucket" => x1 \in BucketInput)
  BY DEF Init
<1>6. [Next]_pool /\ (part = "bucket" => x1 \in BucketInput) => (part = "bucket" => x1 \in BucketInput)'
  BY InputStays
<1>7. (part = "bucket" => x1 \in BucketInput) => (part = "bucket" => Http!BucketIsNotChosen(x1.direct, x1.seen, x1.written, x1.real, Trusted))
  BY BucketHolds
<1> QED BY <1>1, <1>2, <1>3, <1>4, <1>5, <1>6, <1>7, PartInit, PartStep, HttpSame, RedisLimitSame,
           LoginsSame, PTL DEF Spec, RequestLimitsHold, Limiter!Http!Spec, Limiter!RedisLimit!Spec,
           Limiter!Logins!Spec

-----------------------------------------------------------------------------
(* A clean-up spares the youngest jobs, and scaling stays in its limits       *)
(* (remediation_actions.py 346-354, 577-666).                                 *)
THEOREM TargetsStayBounded == Spec => []TargetsAreBounded
<1>1. Init => (part = "targets" => x1 \in TargetsInput)
  BY DEF Init
<1>2. [Next]_pool /\ (part = "targets" => x1 \in TargetsInput) => (part = "targets" => x1 \in TargetsInput)'
  BY InputStays
<1>3. (part = "targets" => x1 \in TargetsInput) => (part = "targets" => TargetsAreBounded)
  BY TargetsHolds
<1> QED BY <1>1, <1>2, <1>3, PTL DEF Spec, TargetsAreBounded

-----------------------------------------------------------------------------
(* The model is told how often each rule fired, the final answer is what was *)
(* streamed before it, and a larger budget shows no fewer log lines          *)
(* (llm_input.py 59-175, llm_client.py 294-350 and 565-768).                 *)
THEOREM TriageStaysTruthful == Spec => []TriageIsTruthful
<1>1. Limiter!Triage!Spec => []Limiter!Triage!StormIsCounted
  BY TriageNumbers, Limiter!StormsAreCounted DEF Limiter!TriageNumbers
<1>2. Limiter!Answers!Spec => []Limiter!Answers!StreamTellsTheTruth
  BY Limiter!AnswersAreTrue
<1>3. Init => (part = "budget" => x1 \in BudgetInput)
  BY DEF Init
<1>4. [Next]_pool /\ (part = "budget" => x1 \in BudgetInput) => (part = "budget" => x1 \in BudgetInput)'
  BY InputStays
<1>5. (part = "budget" => x1 \in BudgetInput) => (part = "budget" => Triage!BudgetIsMonotone(x1.logs, Ladder, Cap, x1.low, x1.high))
  BY BudgetHolds
<1> QED BY <1>1, <1>2, <1>3, <1>4, <1>5, PartInit, PartStep, TriageSame, AnswersSame, PTL DEF Spec,
           TriageIsTruthful, Limiter!Triage!Spec, Limiter!Answers!Spec

-----------------------------------------------------------------------------
(* Flags change no permission of a command, a closed window announces when it   *)
(* opens, and a rollback plan can be run (parser.py, validator.py,             *)
(* time_window_enforcer.py, rollback_executor.py).                            *)
THEOREM CommandsAreChecked == Spec => []CommandChecksAreSound
<1>1. Init => (part = "command" => x1 \in CommandsInput)
  BY DEF Init
<1>2. [Next]_pool /\ (part = "command" => x1 \in CommandsInput) => (part = "command" => x1 \in CommandsInput)'
  BY InputStays
<1>3. (part = "command" => x1 \in CommandsInput) => (part = "command" => CommandIsChecked)
  BY CommandsHolds
<1>4. Init => (part = "plan" => x1 \in PlansInput)
  BY DEF Init
<1>5. [Next]_pool /\ (part = "plan" => x1 \in PlansInput) => (part = "plan" => x1 \in PlansInput)'
  BY InputStays
<1>6. (part = "plan" => x1 \in PlansInput) => (part = "plan" => Plans!PlanIsRunnable(x1.binary, x1.tokens))
  BY PlansHolds
<1> QED BY <1>1, <1>2, <1>3, <1>4, <1>5, <1>6, PTL DEF Spec, CommandChecksAreSound, CommandIsChecked

-----------------------------------------------------------------------------
(* The services that share a store, a file or a repository.                    *)
Shared == INSTANCE SharedStateProofs WITH
  lockttl <- x1, value <- x2, storeAt <- x3, storeLeft <- x4, storeAnswer <- x5,
  tries <- x6, storeSeen <- x7, failed <- x8, sessionsNow <- x1, entry <- x2,
  tokens <- x3, copy <- x4, floor <- x5, versionsFiles <- x1, current <- x2,
  live <- x3, doing <- x4, serial <- x5, parted <- x6, chatStatus <- x1,
  decisions <- x2, hasRole <- x3, presses <- x4, deliveries <- x5,
  chatRunning <- x6, chatAnswer <- x7, chatNow <- x8, policy <- x1, denied <- x2,
  policyCache <- x3, policyAsking <- x4, passed <- x5, head <- x1, believed <- x2,
  commits <- x3, remote <- x4, dirty <- x5, step <- x6, gitAsked <- x7, clean <- x8,
  today <- x1, opened <- x2, configLogFiles <- x3, configLogTorn <- x4,
  hidden <- x5, configLogRotated <- x6, written <- x7, exists <- x1, log <- x2,
  trailRotated <- x3, logged <- x4, trailTasks <- x5, rows <- x6, acked <- x7,
  gone <- x8, trailTorn <- x9

-----------------------------------------------------------------------------
(* RedisStateStore                                                         *)
LEMMA StoreSame ==
  /\ Store!Init <=> Shared!Store!Init
  /\ [Store!Next]_(Store!storeVars) <=> [Shared!Store!Next]_(Shared!Store!storeVars)
  /\ [Store!KeepsUpdates]_(Store!storeVars) <=> [Shared!Store!KeepsUpdates]_(Shared!Store!storeVars)
<1>1. Store!Init <=> Shared!Store!Init
  BY DEF Store!Init, Shared!Store!Init
<1>2. [Store!Next]_(Store!storeVars) <=> [Shared!Store!Next]_(Shared!Store!storeVars)
  BY DEF Store!Next, Shared!Store!Next, Store!storeVars, Shared!Store!storeVars, Store!Step,
     Shared!Store!Step, Store!TimeOut, Shared!Store!TimeOut, Store!Crash, Shared!Store!Crash,
     Store!Tick, Shared!Store!Tick, Store!ExecuteLock, Shared!Store!ExecuteLock, Store!ExecuteGet,
     Shared!Store!ExecuteGet, Store!ExecuteSetex, Shared!Store!ExecuteSetex, Store!ExecuteUnlock,
     Shared!Store!ExecuteUnlock, Store!TryLock, Shared!Store!TryLock, Store!LockRefused,
     Shared!Store!LockRefused, Store!Proceed, Shared!Store!Proceed, Store!Calls, Shared!Store!Calls,
     Store!Goto, Shared!Store!Goto, Store!KeyAges, Shared!Store!KeyAges, Store!Before,
     Shared!Store!Before, Store!Executes, Shared!Store!Executes, Store!Answers,
     Shared!Store!Answers, Store!After, Shared!Store!After
<1>3. [Store!KeepsUpdates]_(Store!storeVars) <=> [Shared!Store!KeepsUpdates]_(Shared!Store!storeVars)
  BY DEF Store!KeepsUpdates, Shared!Store!KeepsUpdates, Store!storeVars, Shared!Store!storeVars
<1> QED BY <1>1, <1>2, <1>3

-----------------------------------------------------------------------------
(* UserSessions                                                            *)
LEMMA SessionsSame ==
  /\ Sessions!Init <=> Shared!Sessions!Init
  /\ [Sessions!Next]_(Sessions!sessionVars) <=> [Shared!Sessions!Next]_(Shared!Sessions!sessionVars)
  /\ Sessions!LogoutHolds <=> Shared!Sessions!LogoutHolds
<1>1. Sessions!Init <=> Shared!Sessions!Init
  BY DEF Sessions!Init, Shared!Sessions!Init, Sessions!Missing, Shared!Sessions!Missing,
     Sessions!Process, Shared!Sessions!Process, Sessions!None, Shared!Sessions!None
<1>2. [Sessions!Next]_(Sessions!sessionVars) <=> [Shared!Sessions!Next]_(Shared!Sessions!sessionVars)
  BY DEF Sessions!Next, Shared!Sessions!Next, Sessions!sessionVars, Shared!Sessions!sessionVars,
     Sessions!Login, Shared!Sessions!Login, Sessions!Create, Shared!Sessions!Create,
     Sessions!Delete, Shared!Sessions!Delete, Sessions!ChangeOther, Shared!Sessions!ChangeOther,
     Sessions!Tick, Shared!Sessions!Tick, Sessions!Refresh, Shared!Sessions!Refresh,
     Sessions!Logout, Shared!Sessions!Logout, Sessions!Process, Shared!Sessions!Process,
     Sessions!Save, Shared!Sessions!Save, Sessions!Abandon, Shared!Sessions!Abandon,
     Sessions!Exists, Shared!Sessions!Exists, Sessions!Issue, Shared!Sessions!Issue, Sessions!Load,
     Shared!Sessions!Load, Sessions!Missing, Shared!Sessions!Missing, Sessions!None,
     Shared!Sessions!None, Sessions!LogoutFloor, Shared!Sessions!LogoutFloor
<1>3. Sessions!LogoutHolds <=> Shared!Sessions!LogoutHolds
  BY DEF Sessions!LogoutHolds, Shared!Sessions!LogoutHolds, Sessions!Accepted,
     Shared!Sessions!Accepted, Sessions!Exists, Shared!Sessions!Exists, Sessions!Missing,
     Shared!Sessions!Missing
<1> QED BY <1>1, <1>2, <1>3

-----------------------------------------------------------------------------
(* ConfigVersions                                                          *)
LEMMA VersionsSame ==
  /\ Versions!Init <=> Shared!Versions!Init
  /\ [Versions!Next]_(Versions!versionVars) <=> [Shared!Versions!Next]_(Shared!Versions!versionVars)
  /\ [Versions!RewritesNothing]_(Versions!versionVars) <=> [Shared!Versions!RewritesNothing]_(Shared!Versions!versionVars)
<1>1. Versions!Init <=> Shared!Versions!Init
  BY DEF Versions!Init, Shared!Versions!Init, Versions!Id, Shared!Versions!Id, Versions!None,
     Shared!Versions!None, Versions!Idle, Shared!Versions!Idle
<1>2. [Versions!Next]_(Versions!versionVars) <=> [Shared!Versions!Next]_(Shared!Versions!versionVars)
  BY DEF Versions!Next, Shared!Versions!Next, Versions!versionVars, Shared!Versions!versionVars,
     Versions!CreateVersion, Shared!Versions!CreateVersion, Versions!Rollback,
     Shared!Versions!Rollback, Versions!Open, Shared!Versions!Open, Versions!Save,
     Shared!Versions!Save, Versions!SaveFails, Shared!Versions!SaveFails, Versions!Restart,
     Shared!Versions!Restart, Versions!Id, Shared!Versions!Id, Versions!DeleteVersion,
     Shared!Versions!DeleteVersion, Versions!CleanupOldVersions, Shared!Versions!CleanupOldVersions,
     Versions!Role, Shared!Versions!Role, Versions!MayEdit, Shared!Versions!MayEdit, Versions!Plan,
     Shared!Versions!Plan, Versions!Stored, Shared!Versions!Stored, Versions!Idle,
     Shared!Versions!Idle, Versions!Torn, Shared!Versions!Torn, Versions!Disturb,
     Shared!Versions!Disturb, Versions!Alone, Shared!Versions!Alone, Versions!None,
     Shared!Versions!None, Versions!Remove, Shared!Versions!Remove, Versions!Cardinality,
     Shared!Versions!Cardinality, Versions!NextNumber, Shared!Versions!NextNumber, Versions!Latest,
     Shared!Versions!Latest, Versions!Newest, Shared!Versions!Newest
<1>3. [Versions!RewritesNothing]_(Versions!versionVars) <=> [Shared!Versions!RewritesNothing]_(Shared!Versions!versionVars)
  BY DEF Versions!RewritesNothing, Shared!Versions!RewritesNothing, Versions!versionVars,
     Shared!Versions!versionVars, Versions!Stored, Shared!Versions!Stored, Versions!None,
     Shared!Versions!None, Versions!Id, Shared!Versions!Id, Versions!Torn, Shared!Versions!Torn
<1> QED BY <1>1, <1>2, <1>3

-----------------------------------------------------------------------------
(* ChatApprovals                                                           *)
LEMMA ChatSame ==
  /\ Chat!Init <=> Shared!Chat!Init
  /\ [Chat!Next]_(Chat!chatVars) <=> [Shared!Chat!Next]_(Shared!Chat!chatVars)
  /\ Chat!ChatDecision <=> Shared!Chat!ChatDecision
<1>1. Chat!Init <=> Shared!Chat!Init
  BY DEF Chat!Init, Shared!Chat!Init, Chat!Press, Shared!Chat!Press, Chat!Verb, Shared!Chat!Verb
<1>2. [Chat!Next]_(Chat!chatVars) <=> [Shared!Chat!Next]_(Shared!Chat!chatVars)
  BY DEF Chat!Next, Shared!Chat!Next, Chat!chatVars, Shared!Chat!chatVars, Chat!Press,
     Shared!Chat!Press, Chat!PressButton, Shared!Chat!PressButton, Chat!Deliver,
     Shared!Chat!Deliver, Chat!Check, Shared!Chat!Check, Chat!Refuse, Shared!Chat!Refuse,
     Chat!Decide, Shared!Chat!Decide, Chat!FailRequest, Shared!Chat!FailRequest, Chat!RemoveRole,
     Shared!Chat!RemoveRole, Chat!Tick, Shared!Chat!Tick, Chat!Verb, Shared!Chat!Verb,
     Chat!Cardinality, Shared!Chat!Cardinality, Chat!Delivered, Shared!Chat!Delivered,
     Chat!Authentic, Shared!Chat!Authentic, Chat!Resolve, Shared!Chat!Resolve, Chat!LockFree,
     Shared!Chat!LockFree, Chat!MayDecide, Shared!Chat!MayDecide, Chat!Leave, Shared!Chat!Leave,
     Chat!Outcome, Shared!Chat!Outcome, Chat!Mapped, Shared!Chat!Mapped
<1>3. Chat!ChatDecision <=> Shared!Chat!ChatDecision
  BY DEF Chat!ChatDecision, Shared!Chat!ChatDecision, Chat!Outcome, Shared!Chat!Outcome,
     Chat!Mapped, Shared!Chat!Mapped
<1> QED BY <1>1, <1>2, <1>3

-----------------------------------------------------------------------------
(* ConfigGitOps                                                            *)
LEMMA GitSame ==
  /\ Git!Init <=> Shared!Git!Init
  /\ [Git!Next]_(Git!gitVars) <=> [Shared!Git!Next]_(Shared!Git!gitVars)
  /\ [Git!BranchesAtBase]_(Git!gitVars) <=> [Shared!Git!BranchesAtBase]_(Shared!Git!gitVars)
<1>1. Git!Init <=> Shared!Git!Init
  BY DEF Git!Init, Shared!Git!Init, Git!Branch, Shared!Git!Branch, Git!NotAsked, Shared!Git!NotAsked
<1>2. [Git!Next]_(Git!gitVars) <=> [Shared!Git!Next]_(Shared!Git!gitVars)
  BY DEF Git!Next, Shared!Git!Next, Git!gitVars, Shared!Git!gitVars, Git!CreateBranch,
     Shared!Git!CreateBranch, Git!SyncFromGit, Shared!Git!SyncFromGit, Git!CreateVersion,
     Shared!Git!CreateVersion, Git!Rollback, Shared!Git!Rollback, Git!Checkout, Shared!Git!Checkout,
     Git!CheckoutFails, Shared!Git!CheckoutFails, Git!Believe, Shared!Git!Believe, Git!Pull,
     Shared!Git!Pull, Git!Pulling, Shared!Git!Pulling, Git!Branched, Shared!Git!Branched,
     Git!Commit, Shared!Git!Commit, Git!Push, Shared!Git!Push, Git!Merge, Shared!Git!Merge, Git!Ask,
     Shared!Git!Ask, Git!Begin, Shared!Git!Begin, Git!Goto, Shared!Git!Goto, Git!CleanAfter,
     Shared!Git!CleanAfter, Git!Pulled, Shared!Git!Pulled, Git!Theirs, Shared!Git!Theirs,
     Git!CheckedOut, Shared!Git!CheckedOut
<1>3. [Git!BranchesAtBase]_(Git!gitVars) <=> [Shared!Git!BranchesAtBase]_(Shared!Git!gitVars)
  BY DEF Git!BranchesAtBase, Shared!Git!BranchesAtBase, Git!gitVars, Shared!Git!gitVars
<1> QED BY <1>1, <1>2, <1>3

-----------------------------------------------------------------------------
(* ConfigAudit                                                             *)
LEMMA ConfigLogSame ==
  /\ ConfigLog!Init <=> Shared!ConfigLog!Init
  /\ [ConfigLog!Next]_(ConfigLog!auditVars) <=> [Shared!ConfigLog!Next]_(Shared!ConfigLog!auditVars)
  /\ ConfigLog!RecentIsFound <=> Shared!ConfigLog!RecentIsFound
<1>1. ConfigLog!Init <=> Shared!ConfigLog!Init
  BY DEF ConfigLog!Init, Shared!ConfigLog!Init, ConfigLog!Day, Shared!ConfigLog!Day
<1>2. [ConfigLog!Next]_(ConfigLog!auditVars) <=> [Shared!ConfigLog!Next]_(Shared!ConfigLog!auditVars)
  BY DEF ConfigLog!Next, Shared!ConfigLog!Next, ConfigLog!auditVars, Shared!ConfigLog!auditVars,
     ConfigLog!Log, Shared!ConfigLog!Log, ConfigLog!LogEndTorn, Shared!ConfigLog!LogEndTorn,
     ConfigLog!LogFails, Shared!ConfigLog!LogFails, ConfigLog!Restart, Shared!ConfigLog!Restart,
     ConfigLog!NextDay, Shared!ConfigLog!NextDay, ConfigLog!AppendToLog,
     Shared!ConfigLog!AppendToLog, ConfigLog!CheckRotation, Shared!ConfigLog!CheckRotation,
     ConfigLog!Cardinality, Shared!ConfigLog!Cardinality, ConfigLog!Entry, Shared!ConfigLog!Entry,
     ConfigLog!Behind, Shared!ConfigLog!Behind, ConfigLog!Rotate, Shared!ConfigLog!Rotate,
     ConfigLog!Stay, Shared!ConfigLog!Stay, ConfigLog!Full, Shared!ConfigLog!Full
<1>3. ConfigLog!RecentIsFound <=> Shared!ConfigLog!RecentIsFound
  BY DEF ConfigLog!RecentIsFound, Shared!ConfigLog!RecentIsFound, ConfigLog!RecentTrail,
     Shared!ConfigLog!RecentTrail, ConfigLog!Day, Shared!ConfigLog!Day, ConfigLog!Trail,
     Shared!ConfigLog!Trail, ConfigLog!FilesInRange, Shared!ConfigLog!FilesInRange
<1> QED BY <1>1, <1>2, <1>3

-----------------------------------------------------------------------------
(* AuditTrail                                                              *)
LEMMA TrailSame ==
  /\ Trail!Init <=> Shared!Trail!Init
  /\ [Trail!Next]_(Trail!trailVars) <=> [Shared!Trail!Next]_(Shared!Trail!trailVars)
  /\ Trail!AuditIsKept <=> Shared!Trail!AuditIsKept
<1>1. Trail!Init <=> Shared!Trail!Init
  BY DEF Trail!Init, Shared!Trail!Init
<1>2. [Trail!Next]_(Trail!trailVars) <=> [Shared!Trail!Next]_(Shared!Trail!trailVars)
  BY DEF Trail!Next, Shared!Trail!Next, Trail!trailVars, Shared!Trail!trailVars, Trail!Log,
     Shared!Trail!Log, Trail!LogFails, Shared!Trail!LogFails, Trail!Mirror, Shared!Trail!Mirror,
     Trail!Restart, Shared!Trail!Restart, Trail!AppendLine, Shared!Trail!AppendLine, Trail!Rotate,
     Shared!Trail!Rotate, Trail!Torn, Shared!Trail!Torn, Trail!Oldest, Shared!Trail!Oldest,
     Trail!Last, Shared!Trail!Last, Trail!Front, Shared!Trail!Front, Trail!Garbled,
     Shared!Trail!Garbled, Trail!ToSet, Shared!Trail!ToSet
<1>3. Trail!AuditIsKept <=> Shared!Trail!AuditIsKept
  BY DEF Trail!AuditIsKept, Shared!Trail!AuditIsKept, Trail!Cardinality, Shared!Trail!Cardinality,
     Trail!Entries, Shared!Trail!Entries, Trail!Loaded, Shared!Trail!Loaded, Trail!Query,
     Shared!Trail!Query, Trail!ToSet, Shared!Trail!ToSet, Trail!IsInjective,
     Shared!Trail!IsInjective, Trail!Readable, Shared!Trail!Readable, Trail!Torn, Shared!Trail!Torn,
     Trail!Garbled, Shared!Trail!Garbled
<1> QED BY <1>1, <1>2, <1>3

-----------------------------------------------------------------------------
(* PolicyGate                                                              *)
LEMMA PolicySame ==
  /\ Policy!Init <=> Shared!Policy!Init
  /\ [Policy!Next]_(Policy!policyVars) <=> [Shared!Policy!Next]_(Shared!Policy!policyVars)
  /\ Policy!PassWasAllowed <=> Shared!Policy!PassWasAllowed
<1>1. Policy!Init <=> Shared!Policy!Init
  BY DEF Policy!Init, Shared!Policy!Init
<1>2. [Policy!Next]_(Policy!policyVars) <=> [Shared!Policy!Next]_(Shared!Policy!policyVars)
  BY DEF Policy!Next, Shared!Policy!Next, Policy!policyVars, Shared!Policy!policyVars,
     Policy!ChangePolicy, Shared!Policy!ChangePolicy, Policy!Ask, Shared!Policy!Ask,
     Policy!Evaluate, Shared!Policy!Evaluate, Policy!Receive, Shared!Policy!Receive, Policy!Lose,
     Shared!Policy!Lose, Policy!Sweep, Shared!Policy!Sweep, Policy!Tick, Shared!Policy!Tick,
     Policy!Pass, Shared!Policy!Pass, Policy!Restrict, Shared!Policy!Restrict, Policy!Put,
     Shared!Policy!Put, Policy!Capped, Shared!Policy!Capped, Policy!Forever, Shared!Policy!Forever
<1>3. Policy!PassWasAllowed <=> Shared!Policy!PassWasAllowed
  BY DEF Policy!PassWasAllowed, Shared!Policy!PassWasAllowed
<1> QED BY <1>1, <1>2, <1>3

-----------------------------------------------------------------------------
(* A locked update of the Redis store overwrites no other one, for any clients, *)
(* attempts and faults, as long as the lock outlives the calls of its holder   *)
(* (redis_store_base.py 277-315).                                            *)
THEOREM NoUpdateIsLost == Spec => NoLostUpdate
<1>1. Shared!Store!Spec => [][Shared!Store!KeepsUpdates]_(Shared!Store!storeVars)
  BY StoreTiming, Shared!UpdatesAreKept DEF Shared!StoreTiming, Shared!StoreD,
     Shared!Store!NoLostUpdate
<1> QED BY <1>1, PartInit, PartStep, PartStutters, StoreSame, PTL DEF Spec, NoLostUpdate,
           Shared!Store!Spec

-----------------------------------------------------------------------------
(* No token of a second before the last logout is accepted; those of the     *)
(* second of the logout still are (users.py 177-205, main.py 60-86).         *)
THEOREM LogoutIsKept == Spec => []LogoutHolds
<1>1. Shared!Sessions!Spec => []Shared!Sessions!LogoutHolds
  BY SessionsClock, Shared!LogoutIsFinal
<1> QED BY <1>1, PartInit, PartStep, SessionsSame, PTL DEF Spec, LogoutHolds, Shared!Sessions!Spec

-----------------------------------------------------------------------------
(* A stored version is rewritten only when its number was given twice, after *)
(* a version was removed or two processes saved at once, and by no failed    *)
(* save alone (versioning.py 97-149).                                        *)
THEOREM VersionsAreKept == Spec => HistoryKept
<1>1. Shared!Versions!Spec => [][Shared!Versions!RewritesNothing]_(Shared!Versions!versionVars)
  BY VersionsNumbers, Shared!HistoryIsKept DEF Shared!Versions!HistoryKept
<1> QED BY <1>1, PartInit, PartStep, PartStutters, VersionsSame, PTL DEF Spec, HistoryKept,
           Shared!Versions!Spec

-----------------------------------------------------------------------------
(* Each pod decides an action at most once, as the user the sender is mapped *)
(* to and never as its own creator to approve it, and a press is told "done" *)
(* only for a decision of its own. Two pods may both decide: their locks are *)
(* their own (webhook.py 225-276, engine.py 308-405).                        *)
THEOREM ChatDecides == Spec => []ChatDecision
<1>1. Shared!Chat!Spec => []Shared!Chat!ChatDecision
  BY ChatNumbers, Shared!PodsDecideOnce DEF Shared!ChatNumbers
<1> QED BY <1>1, PartInit, PartStep, ChatSame, PTL DEF Spec, ChatDecision, Shared!Chat!Spec

-----------------------------------------------------------------------------
(* An execution passes on an allowance no older than the cache and a call     *)
(* (opa_client.py 121-262).                                                  *)
THEOREM GateHolds == Spec => []PassWasAllowed
<1>1. Shared!Policy!Spec => []Shared!Policy!PassWasAllowed
  BY PolicyTimes, Shared!GateIsSound DEF Shared!PolicyTimes
<1> QED BY <1>1, PartInit, PartStep, PolicySame, PTL DEF Spec, PassWasAllowed, Shared!Policy!Spec

-----------------------------------------------------------------------------
(* A feature branch starts at an up-to-date base, unless one of the commands *)
(* of its request fails, or another request checks out a branch after it has *)
(* (gitops.py 160-190).                                                      *)
THEOREM FeaturesStartAtBase == Spec => FeatureStartsAtBase
<1>1. Shared!Git!Spec => [][Shared!Git!BranchesAtBase]_(Shared!Git!gitVars)
  BY GitNames, Shared!BranchStartsAtBase DEF Shared!GitNames, Shared!Git!FeatureStartsAtBase
<1> QED BY <1>1, PartInit, PartStep, PartStutters, GitSame, PTL DEF Spec, FeatureStartsAtBase,
           Shared!Git!Spec

-----------------------------------------------------------------------------
(* What was logged is found again: a configuration change unless a write     *)
(* failed earlier in its file or the file was rotated, an action whatever was *)
(* torn, rotated or migrated (audit.py 98-226, logger.py 217-346).           *)
THEOREM AuditTrailsStayKept == Spec => []AuditTrailsAreKept
<1>1. Shared!ConfigLog!Spec => []Shared!ConfigLog!RecentIsFound
  BY ConfigLogNumbers, Shared!ChangesAreFound DEF Shared!ConfigLogNumbers
<1>2. Shared!Trail!Spec => []Shared!Trail!AuditIsKept
  BY TrailNumbers, Shared!LogIsKept DEF Shared!TrailNumbers
<1> QED BY <1>1, <1>2, PartInit, PartStep, ConfigLogSame, TrailSame, PTL DEF Spec,
           AuditTrailsAreKept, Shared!ConfigLog!Spec, Shared!Trail!Spec

-----------------------------------------------------------------------------
(* The services that answer, deliver and learn.                                *)
Delivery == INSTANCE DeliveryProofs WITH
  queriesCache <- x1, flights <- x2, lock <- x3, queriesStage <- x4, query <- x5,
  got <- x6, began <- x7, queriesNow <- x8, useRedis <- x1, active <- x2,
  broken <- x3, channel <- x4, listening <- x5, fanoutStage <- x6, origin <- x7,
  sending <- x8, fanoutSeen <- x9, owed <- x10, doubted <- x11, mounted <- x1,
  ws <- x2, life <- x3, reconnectTimer <- x4, pending <- x5, reconnectDelay <- x6,
  connected <- x7, overwritten <- x8, config <- x1, skillsStatus <- x2,
  skillsRunning <- x3, results <- x4, skillsHistory <- x5, answered <- x6,
  started <- x7, feedback <- x1, feedbackFile <- x2, writing <- x3, recorded <- x4,
  feedbackLossy <- x5, agentsAsked <- x1, agentsTasks <- x2, outcome <- x3,
  age <- x4, report <- x5, sloNow <- x1, lastReport <- x2, sloAt <- x3,
  leader <- x4, looked <- x5, posts <- x6, faults <- x7, harm <- x8

-----------------------------------------------------------------------------
(* AssistantQueries                                                        *)
LEMMA QueriesSame ==
  /\ Queries!Init <=> Delivery!Queries!Init
  /\ [Queries!Next]_(Queries!queryVars) <=> [Delivery!Queries!Next]_(Delivery!Queries!queryVars)
  /\ Queries!QueriesAreShared <=> Delivery!Queries!QueriesAreShared
<1>1. Queries!Init <=> Delivery!Queries!Init
  BY DEF Queries!Init, Delivery!Queries!Init, Queries!AnyQuery, Delivery!Queries!AnyQuery,
     Queries!NoAnswer, Delivery!Queries!NoAnswer
<1>2. [Queries!Next]_(Queries!queryVars) <=> [Delivery!Queries!Next]_(Delivery!Queries!queryVars)
  BY DEF Queries!Next, Delivery!Queries!Next, Queries!queryVars, Delivery!Queries!queryVars,
     Queries!Ask, Delivery!Queries!Ask, Queries!Step, Delivery!Queries!Step, Queries!Return,
     Delivery!Queries!Return, Queries!Tick, Delivery!Queries!Tick, Queries!Expired,
     Delivery!Queries!Expired, Queries!Goto, Delivery!Queries!Goto, Queries!Restrict,
     Delivery!Queries!Restrict, Queries!Join, Delivery!Queries!Join, Queries!Start,
     Delivery!Queries!Start, Queries!Land, Delivery!Queries!Land, Queries!Remove,
     Delivery!Queries!Remove, Queries!WakeUp, Delivery!Queries!WakeUp, Queries!Store,
     Delivery!Queries!Store, Queries!NoAnswer, Delivery!Queries!NoAnswer, Queries!AnyQuery,
     Delivery!Queries!AnyQuery, Queries!KeptOn, Delivery!Queries!KeptOn, Queries!Put,
     Delivery!Queries!Put, Queries!Cardinality, Delivery!Queries!Cardinality, Queries!Kept,
     Delivery!Queries!Kept, Queries!Oldest, Delivery!Queries!Oldest
<1>3. Queries!QueriesAreShared <=> Delivery!Queries!QueriesAreShared
  BY DEF Queries!QueriesAreShared, Delivery!Queries!QueriesAreShared
<1> QED BY <1>1, <1>2, <1>3

-----------------------------------------------------------------------------
(* LiveFanout                                                              *)
LEMMA FanoutSame ==
  /\ Fanout!Init <=> Delivery!Fanout!Init
  /\ [Fanout!Next]_(Fanout!liveVars) <=> [Delivery!Fanout!Next]_(Delivery!Fanout!liveVars)
  /\ Fanout!EventsReachClients <=> Delivery!Fanout!EventsReachClients
<1>1. Fanout!Init <=> Delivery!Fanout!Init
  BY DEF Fanout!Init, Delivery!Fanout!Init
<1>2. [Fanout!Next]_(Fanout!liveVars) <=> [Delivery!Fanout!Next]_(Delivery!Fanout!liveVars)
  BY DEF Fanout!Next, Delivery!Fanout!Next, Fanout!liveVars, Delivery!Fanout!liveVars,
     Fanout!Connect, Delivery!Fanout!Connect, Fanout!Disconnect, Delivery!Fanout!Disconnect,
     Fanout!Break, Delivery!Fanout!Break, Fanout!Publish, Delivery!Fanout!Publish,
     Fanout!Unpublished, Delivery!Fanout!Unpublished, Fanout!SendOwn, Delivery!Fanout!SendOwn,
     Fanout!Receive, Delivery!Fanout!Receive, Fanout!Drop, Delivery!Fanout!Drop, Fanout!Resubscribe,
     Delivery!Fanout!Resubscribe, Fanout!Sent, Delivery!Fanout!Sent, Fanout!Send,
     Delivery!Fanout!Send, Fanout!Forgiven, Delivery!Fanout!Forgiven, Fanout!At, Delivery!Fanout!At,
     Fanout!Broadcast, Delivery!Fanout!Broadcast
<1>3. Fanout!EventsReachClients <=> Delivery!Fanout!EventsReachClients
  BY DEF Fanout!EventsReachClients, Delivery!Fanout!EventsReachClients, Fanout!Settled,
     Delivery!Fanout!Settled
<1> QED BY <1>1, <1>2, <1>3

-----------------------------------------------------------------------------
(* LiveClient                                                              *)
LEMMA WebClientSame ==
  /\ WebClient!Init <=> Delivery!WebClient!Init
  /\ [WebClient!Next]_(WebClient!clientVars) <=> [Delivery!WebClient!Next]_(Delivery!WebClient!clientVars)
  /\ WebClient!SocketHasViewer <=> Delivery!WebClient!SocketHasViewer
<1>1. WebClient!Init <=> Delivery!WebClient!Init
  BY DEF WebClient!Init, Delivery!WebClient!Init
<1>2. [WebClient!Next]_(WebClient!clientVars) <=> [Delivery!WebClient!Next]_(Delivery!WebClient!clientVars)
  BY DEF WebClient!Next, Delivery!WebClient!Next, WebClient!clientVars,
     Delivery!WebClient!clientVars, WebClient!Mount, Delivery!WebClient!Mount, WebClient!Unmount,
     Delivery!WebClient!Unmount, WebClient!OnOpen, Delivery!WebClient!OnOpen,
     WebClient!OnStrayError, Delivery!WebClient!OnStrayError, WebClient!Ended,
     Delivery!WebClient!Ended, WebClient!OnClose, Delivery!WebClient!OnClose, WebClient!OnTimer,
     Delivery!WebClient!OnTimer, WebClient!Connect, Delivery!WebClient!Connect, WebClient!StopTimer,
     Delivery!WebClient!StopTimer, WebClient!Schedule, Delivery!WebClient!Schedule, WebClient!Least,
     Delivery!WebClient!Least
<1>3. WebClient!SocketHasViewer <=> Delivery!WebClient!SocketHasViewer
  BY DEF WebClient!SocketHasViewer, Delivery!WebClient!SocketHasViewer
<1> QED BY <1>1, <1>2, <1>3

-----------------------------------------------------------------------------
(* SkillRegistry                                                           *)
LEMMA SkillsSame ==
  /\ Skills!Init <=> Delivery!Skills!Init
  /\ [Skills!Next]_(Skills!skillVars) <=> [Delivery!Skills!Next]_(Delivery!Skills!skillVars)
  /\ Skills!LatestResultsKept <=> Delivery!Skills!LatestResultsKept
<1>1. Skills!Init <=> Delivery!Skills!Init
  BY DEF Skills!Init, Delivery!Skills!Init
<1>2. [Skills!Next]_(Skills!skillVars) <=> [Delivery!Skills!Next]_(Delivery!Skills!skillVars)
  BY DEF Skills!Next, Delivery!Skills!Next, Skills!skillVars, Delivery!Skills!skillVars,
     Skills!Execute, Delivery!Skills!Execute, Skills!UpdateSkillConfig,
     Delivery!Skills!UpdateSkillConfig, Skills!Unregister, Delivery!Skills!Unregister,
     Skills!Complete, Delivery!Skills!Complete, Skills!Fail, Delivery!Skills!Fail, Skills!Tick,
     Delivery!Skills!Tick, Skills!Executable, Delivery!Skills!Executable, Skills!Config,
     Delivery!Skills!Config, Skills!KeepNewest, Delivery!Skills!KeepNewest
<1>3. Skills!LatestResultsKept <=> Delivery!Skills!LatestResultsKept
  BY DEF Skills!LatestResultsKept, Delivery!Skills!LatestResultsKept, Skills!Range,
     Delivery!Skills!Range, Skills!Statistics, Delivery!Skills!Statistics, Skills!Cardinality,
     Delivery!Skills!Cardinality
<1> QED BY <1>1, <1>2, <1>3

-----------------------------------------------------------------------------
(* FeedbackLearning                                                        *)
LEMMA FeedbackSame ==
  /\ Feedback!Init <=> Delivery!Feedback!Init
  /\ [Feedback!Next]_(Feedback!feedbackVars) <=> [Delivery!Feedback!Next]_(Delivery!Feedback!feedbackVars)
  /\ Feedback!FeedbackIsKept <=> Delivery!Feedback!FeedbackIsKept
<1>1. Feedback!Init <=> Delivery!Feedback!Init
  BY DEF Feedback!Init, Delivery!Feedback!Init
<1>2. [Feedback!Next]_(Feedback!feedbackVars) <=> [Delivery!Feedback!Next]_(Delivery!Feedback!feedbackVars)
  BY DEF Feedback!Next, Delivery!Feedback!Next, Feedback!feedbackVars,
     Delivery!Feedback!feedbackVars, Feedback!Kind, Delivery!Feedback!Kind, Feedback!Record,
     Delivery!Feedback!Record, Feedback!Save, Delivery!Feedback!Save, Feedback!SaveFails,
     Delivery!Feedback!SaveFails, Feedback!Restart, Delivery!Feedback!Restart, Feedback!Tick,
     Delivery!Feedback!Tick, Feedback!Torn, Delivery!Feedback!Torn, Feedback!Aged,
     Delivery!Feedback!Aged, Feedback!Min, Delivery!Feedback!Min
<1>3. Feedback!FeedbackIsKept <=> Delivery!Feedback!FeedbackIsKept
  BY DEF Feedback!FeedbackIsKept, Delivery!Feedback!FeedbackIsKept, Feedback!RecommendedConfidence,
     Delivery!Feedback!RecommendedConfidence, Feedback!Count, Delivery!Feedback!Count,
     Feedback!AutoApprovalCandidates, Delivery!Feedback!AutoApprovalCandidates, Feedback!Seen,
     Delivery!Feedback!Seen, Feedback!ConfidenceLevel, Delivery!Feedback!ConfidenceLevel,
     Feedback!NeedReview, Delivery!Feedback!NeedReview, Feedback!Min, Delivery!Feedback!Min,
     Feedback!Total, Delivery!Feedback!Total, Feedback!Max, Delivery!Feedback!Max,
     Feedback!Cardinality, Delivery!Feedback!Cardinality, Feedback!AtLeast,
     Delivery!Feedback!AtLeast, Feedback!Succeeds, Delivery!Feedback!Succeeds, Feedback!Kind,
     Delivery!Feedback!Kind
<1> QED BY <1>1, <1>2, <1>3

-----------------------------------------------------------------------------
(* AgentOrchestrator                                                       *)
LEMMA AgentsConfidenceSame == Agents!Confidence = Delivery!Agents!Confidence
  BY DEF Agents!Confidence, Delivery!Agents!Confidence, Agents!Successful,
     Delivery!Agents!Successful, Agents!FoldSet, Delivery!Agents!FoldSet, Agents!Cardinality,
     Delivery!Agents!Cardinality, Agents!MapThenFoldSet, Delivery!Agents!MapThenFoldSet

LEMMA AgentsSame ==
  /\ Agents!Init <=> Delivery!Agents!Init
  /\ [Agents!Next]_(Agents!agentVars) <=> [Delivery!Agents!Next]_(Delivery!Agents!agentVars)
  /\ Agents!ReportIsComplete <=> Delivery!Agents!ReportIsComplete
<1>1. Agents!Init <=> Delivery!Agents!Init
  BY DEF Agents!Init, Delivery!Agents!Init, Agents!Started, Delivery!Agents!Started, Agents!Pending,
     Delivery!Agents!Pending, Agents!NoReport, Delivery!Agents!NoReport, Agents!Cardinality,
     Delivery!Agents!Cardinality, Agents!Failed, Delivery!Agents!Failed
<1>2. [Agents!Next]_(Agents!agentVars) <=> [Delivery!Agents!Next]_(Delivery!Agents!agentVars)
  BY AgentsConfidenceSame DEF Agents!Next, Delivery!Agents!Next, Agents!agentVars,
     Delivery!Agents!agentVars, Agents!Outcome, Delivery!Agents!Outcome, Agents!Respond,
     Delivery!Agents!Respond, Agents!Catch, Delivery!Agents!Catch, Agents!Raise,
     Delivery!Agents!Raise, Agents!TimeOut, Delivery!Agents!TimeOut, Agents!Tick,
     Delivery!Agents!Tick, Agents!Aggregate, Delivery!Agents!Aggregate, Agents!Pending,
     Delivery!Agents!Pending, Agents!Failed, Delivery!Agents!Failed, Agents!NameOf,
     Delivery!Agents!NameOf, Agents!Successful, Delivery!Agents!Successful, Agents!Recommendations,
     Delivery!Agents!Recommendations, Agents!NeedsConsensus, Delivery!Agents!NeedsConsensus,
     Agents!Majority, Delivery!Agents!Majority, Agents!Mentions, Delivery!Agents!Mentions,
     Agents!Cardinality, Delivery!Agents!Cardinality, Agents!LastOfItsName,
     Delivery!Agents!LastOfItsName, Agents!Votes, Delivery!Agents!Votes
<1>3. Agents!ReportIsComplete <=> Delivery!Agents!ReportIsComplete
  BY DEF Agents!ReportIsComplete, Delivery!Agents!ReportIsComplete, Agents!IsInjective,
     Delivery!Agents!IsInjective, Agents!Range, Delivery!Agents!Range, Agents!Successful,
     Delivery!Agents!Successful, Agents!Cardinality, Delivery!Agents!Cardinality, Agents!NamesOnce,
     Delivery!Agents!NamesOnce, Agents!Mentions, Delivery!Agents!Mentions
<1> QED BY <1>1, <1>2, <1>3

-----------------------------------------------------------------------------
(* SloReporter                                                             *)
LEMMA SloSame ==
  /\ Slo!Init <=> Delivery!Slo!Init
  /\ [Slo!Next]_(Slo!sloVars) <=> [Delivery!Slo!Next]_(Delivery!Slo!sloVars)
  /\ Slo!OnceADay <=> Delivery!Slo!OnceADay
<1>1. Slo!Init <=> Delivery!Slo!Init
  BY DEF Slo!Init, Delivery!Slo!Init
<1>2. [Slo!Next]_(Slo!sloVars) <=> [Delivery!Slo!Next]_(Delivery!Slo!sloVars)
  BY DEF Slo!Next, Delivery!Slo!Next, Slo!sloVars, Delivery!Slo!sloVars, Slo!Look,
     Delivery!Slo!Look, Slo!Make, Delivery!Slo!Make, Slo!Post, Delivery!Slo!Post, Slo!Save,
     Delivery!Slo!Save, Slo!Crash, Delivery!Slo!Crash, Slo!Restart, Delivery!Slo!Restart,
     Slo!StandDown, Delivery!Slo!StandDown, Slo!TakeOver, Delivery!Slo!TakeOver, Slo!LoseLead,
     Delivery!Slo!LoseLead, Slo!Hour, Delivery!Slo!Hour, Slo!Goto, Delivery!Slo!Goto, Slo!LocalHour,
     Delivery!Slo!LocalHour, Slo!Due, Delivery!Slo!Due, Slo!Fault, Delivery!Slo!Fault, Slo!UtcDate,
     Delivery!Slo!UtcDate, Slo!LocalDate, Delivery!Slo!LocalDate
<1>3. Slo!OnceADay <=> Delivery!Slo!OnceADay
  BY DEF Slo!OnceADay, Delivery!Slo!OnceADay, Slo!LocalHour, Delivery!Slo!LocalHour
<1> QED BY <1>1, <1>2, <1>3

-----------------------------------------------------------------------------
(* Callers share queries, and an answer is older than the cache allows and   *)
(* the query took only by the time its flight was kept from being removed    *)
(* (single_flight.py 60-99, cache.py 40-125).                                *)
THEOREM QueriesStayShared == Spec => []QueriesAreShared
<1>1. Delivery!Queries!Spec => []Delivery!Queries!QueriesAreShared
  BY QueriesNumbers, Delivery!QueriesAreSingle DEF Delivery!QueriesNumbers
<1> QED BY <1>1, PartInit, PartStep, QueriesSame, PTL DEF Spec, QueriesAreShared,
           Delivery!Queries!Spec

-----------------------------------------------------------------------------
(* An event comes to each client of any pod once, and a socket is open only   *)
(* while a view wants it (fanout.py 70-182, live.py, useWebSocket.ts 45-131). *)
THEOREM UpdatesReachViews == Spec => []LiveUpdatesReachViews
<1>1. Delivery!Fanout!Spec => []Delivery!Fanout!EventsReachClients
  BY HomesArePods, Delivery!EventsReachAll DEF Delivery!FanoutHomesArePods
<1>2. Delivery!WebClient!Spec => []Delivery!WebClient!SocketHasViewer
  BY ClientNames, Delivery!SocketIsWanted DEF Delivery!WebClientNames
<1> QED BY <1>1, <1>2, PartInit, PartStep, FanoutSame, WebClientSame, PTL DEF Spec,
           LiveUpdatesReachViews, Delivery!Fanout!Spec, Delivery!WebClient!Spec

-----------------------------------------------------------------------------
(* The results kept are the latest, and no decision is forgotten             *)
(* (registry.py 230-262, collector.py 62-106, analyzer.py 92-255).            *)
THEOREM ResultsStayKept == Spec => []ResultsAreKept
<1>1. Delivery!Skills!Spec => []Delivery!Skills!LatestResultsKept
  BY Caps, Delivery!LatestAreKept DEF Delivery!SkillsCaps
<1>2. Delivery!Feedback!Spec => []Delivery!Feedback!FeedbackIsKept
  BY FeedbackNumbers, Delivery!DecisionsAreKept DEF Delivery!FeedbackNumbers
<1> QED BY <1>1, <1>2, PartInit, PartStep, SkillsSame, FeedbackSame, PTL DEF Spec, ResultsAreKept,
           Delivery!Skills!Spec, Delivery!Feedback!Spec

-----------------------------------------------------------------------------
(* Every agent asked is in the report, and a consensus was said by more than *)
(* half of them unless one repeated itself (orchestrator.py 205-414).        *)
THEOREM EveryAgentIsReported == Spec => []ReportIsComplete
<1>1. Delivery!Agents!Spec => []Delivery!Agents!ReportIsComplete
  BY AgentNames, Delivery!ReportsAreComplete DEF Delivery!AgentsNames
<1> QED BY <1>1, PartInit, PartStep, AgentsSame, PTL DEF Spec, ReportIsComplete,
           Delivery!Agents!Spec

-----------------------------------------------------------------------------
(* No secret is shown, no incomplete project is valid, health is no better     *)
(* than the probes, and the SLO report goes out once a day (security.py,       *)
(* validation.py, main.py 551-652, dependency_health.py, slo_reporter.py).      *)
THEOREM ReportsStayHonest == Spec => []ReportsAreHonest
<1>1. Delivery!Slo!Spec => []Delivery!Slo!OnceADay
  BY SloNumbers, Delivery!ReportsOnceADay DEF Delivery!SloNumbers, IsFiniteSet, Delivery!IsFiniteSet
<1>2. Init => (part = "config" => x1 \in ChecksInput)
  BY DEF Init
<1>3. [Next]_pool /\ (part = "config" => x1 \in ChecksInput) => (part = "config" => x1 \in ChecksInput)'
  BY InputStays
<1>4. (part = "config" => x1 \in ChecksInput) => (part = "config" => ConfigIsChecked)
  BY ChecksHolds
<1>5. Init => (part = "health" => x1 \in HealthInput)
  BY DEF Init
<1>6. [Next]_pool /\ (part = "health" => x1 \in HealthInput) => (part = "health" => x1 \in HealthInput)'
  BY InputStays
<1>7. (part = "health" => x1 \in HealthInput) => (part = "health" => Health!HealthIsHonest(x1.configured, x1.ends, x1.services, x1.failing))
  BY HealthHolds
<1> QED BY <1>1, <1>2, <1>3, <1>4, <1>5, <1>6, <1>7, PartInit, PartStep, SloSame, PTL DEF Spec,
           ReportsAreHonest, ConfigIsChecked, Delivery!Slo!Spec
=============================================================================
