# Specifications of the DevOps monitoring backend

TLA+ models of this repository (`backend/app`, the AI assistant and the web client's socket), checked
with TLC and, where it matters most, proved with TLAPS. Paths below are relative to `src/backend/app`
unless they start with another directory.

## 1. The system

A FastAPI process (`main.py`), run as one or several replicas ("pods"), watches Elasticsearch, APM,
Prometheus and Kubernetes, raises alerts, and executes remediation commands that people (or a policy)
approved. State is in JSON files under `DATA_DIR`, or in Redis when the flags `*_USE_REDIS` are set.
Inside a pod everything runs on one asyncio event loop: code between two `await`s is atomic, and
anything may happen at an `await`.

| Component | State | Operations | Interacts with | Correct when |
|---|---|---|---|---|
| Action engine (`actions/engine.py`) | per-action `asyncio.Lock`s, approval store, history | create, approve, reject, execute, dry run, rollback | approval store, governance, rate limiter, executors, audit, chat webhooks | a command runs only while approved, by somebody who may; once; its outcome is not lost or overwritten |
| Approval store (`approvals/store.py`, `redis_store.py`) | one entry per action: status, users, times | get, create, set_status, history | engine on every pod | a terminal status stays; concurrent updates are not lost |
| Redis store base (`redis_store_base.py`) | state keys, lock keys with TTL, history lists | get, locked update, delete, append | both Redis stores | no update is lost; the lock comes free |
| Command policy and executors (`actions/parser.py`, `validator.py`, `executor.py`, `rollback_executor.py`, `time_window_enforcer.py`) | none | tier, permission, impact, window, last checks, rollback plan | engine | the tier is that of what runs; a rollback plan can be run |
| Rate limiter, chain monitor (`actions/rate_limiter.py`, `chain_monitor.py`) | recent executions, cooldowns, chains | check, record | engine | never more than the window allows, plus those under way |
| Autonomous executor (`actions/autonomous_executor.py`, `remediation_actions.py`) | quota, in memory and in a file | check, select targets, kubectl calls, count | alert engine | the quota holds across restarts; a failure changed nothing that an answer told of |
| Leader election (`alerting/leader.py`) | Redis key `leader:<name>` with TTL; per pod: missed renewals, inner task | try_acquire, renew, release, is_mine | alert engine, SLO reporter | at most one engine runs with the lock; somebody runs it in the end |
| Alert engine (`alerting/engine.py`) | tracker entry per rule (pending, firing, resolved), history | cycle: fetch, evaluate, fire, resolve, notify, remediate | leader lock, trackers, notifiers, autonomous executor, WebSocket | a breach is announced once, after its duration, and its end too |
| SLO reporter (`alerting/slo_reporter.py`) | date of the last report, in a file | check, post, save | leader lock, Slack | one report a day |
| HTTP and login limits (`rate_limit.py`, `rate_limiting/`, `main.py`) | windows in memory or a sorted set in Redis; failed logins | check, sweep, evict, record | every request | the limit holds in every sliding window |
| Governance (`governance/`) | cached answers of the policy service | ask, cache, expire | engine | an execution passes only on a recent allowance |
| Chat approvals (`approvals/webhook.py`, `teams.py`, `telegram_webhook.py`) | none but the engine's | press, deliver, decide, answer | chat platforms, engine | one decision of a pod, by a mapped user, whatever is delivered twice |
| Configuration management (`configmgmt/`) | version files, a git working tree, an audit log | create, roll back, clean up, branch, pull, push, log, query | API | a version keeps its number; a feature branch starts at its base; log entries are found |
| Users and sessions (`users.py`, `auth.py`) | `users.json`, signed tokens | log in, refresh, log out, create, delete | every request, the command line tool | a token of before a logout is not accepted |
| Audit log and its mirror (`audit/logger.py`, `database/mirror.py`) | a file of lines, one rotated file, database rows | log, rotate, migrate, mirror, query | engine | entries are kept, in order, once |
| Live events (`api/ws/`, `frontend/src/hooks/useWebSocket.ts`) | connections, a pub/sub channel; the client's socket and timer | publish, deliver, connect, reconnect | alert engine, approvals, browser | each client gets an event once; a view that listens is connected |
| Analysis (`services/llm_input.py`, `llm_client.py`, `api/v1/analyze.py`, `agents/`) | the answer under way | collect, shorten, deduplicate, stream, fan out to agents | model providers | the model sees the latest state; answers come and are complete |
| Skills (`skills/`), feedback (`feedback/`) | running skills, bounded results; a file of events | execute, cut off, record, learn | API, engine | the latest results are kept; confidence moves the right way |
| AI assistant (`ai_assistant/`) | flights and caches shared by threads | query | Elasticsearch, Prometheus | one query per key in flight, nobody waits for ever |
| Middleware, settings, metrics, the rest of the frontend, deployment | configuration | | | |

What is hard here: coroutines of one pod interleave at every `await`; several pods share Redis but not
memory; server, workers and command line share files that each rewrites whole; the Redis read that
fails looks like "no such entry"; updates raise before or after the write; a crash falls between a side
effect (command, notification, report) and the record of it; a TTL runs while calls time out; a message
is delivered twice, late or to a subscriber that is gone; and a cycle that raises is ended and started
again by its loop. `PROJECT.json` lists each of these at the line where it bites, with the properties
that watch it.

## 2. Modules

| Module | Models |
|---|---|
| `ApprovedExecution` | abstract promise: an action is proposed, decided once, executed at most once per approval |
| `ActionLifecycle` | the action engine with its approval store, on any number of pods; at its end, its refinement of `ApprovedExecution` |
| `LeaderLock` | abstract promise: an engine starts only while no running engine has the lock |
| `LeaderElection` | `run_as_leader` and `RedisLeaderLock`, with time; it implements `LeaderLock` |
| `AlertEngine` | the alert engine over the file or the Redis tracker, with or without the leader lock; it assumes `LeaderLock` |
| `RedisStateStore` | the locked update of one entity in Redis, call by call, with time |
| `ActionRateLimit` | rate limiter and chain monitor of the engine |
| `AutonomousRemediation`, `RemediationTargets` | an autonomous action from check to count; what it selects |
| `CommandPolicy`, `CommandExecution` | tier, permission, window of a command; its last checks and its rollback plan |
| `PolicyGate` | the policy service asked by an execution, with cache and failures |
| `ChatApprovals` | buttons in Slack, Teams, Telegram |
| `SloReporter` | the daily report |
| `HttpRateLimit`, `RedisRateLimit`, `LoginGate` | request limits in memory and in Redis; the brake on failed logins |
| `UserSessions` | tokens and the user file |
| `ConfigVersions`, `ConfigGitOps`, `ConfigAudit`, `ConfigChecks` | configuration management |
| `AuditTrail` | the audit log of actions and its database mirror |
| `LiveFanout`, `LiveClient` | WebSocket events across pods; the browser's socket |
| `TriageInput`, `TriageAnswer`, `AgentOrchestrator` | what the model is shown, how it answers, agents in parallel |
| `SkillRegistry`, `ServiceHealth`, `FeedbackLearning` | skills, health as pure functions, learning |
| `AssistantQueries` | single flight and cache of the AI assistant |
| `Windows` | the ages of past events that every limiter keeps |
| `Services` | a behaviour of one service at a time, over pooled variables (see the end of this section) |
| `ActionLifecycleProofs`, `LeaderElectionProofs`, `AlertEngineProofs` | proofs about the module of that name |
| `SharedStateProofs` | proofs about the services that share a store, a file or a repository: `RedisStateStore`, `UserSessions`, `ConfigVersions`, `ConfigGitOps`, `ConfigAudit`, `AuditTrail`, `ChatApprovals`, `PolicyGate` |
| `LimiterProofs` | proofs about `ActionRateLimit`, `AutonomousRemediation`, `HttpRateLimit`, `RedisRateLimit`, `LoginGate`, `TriageInput`, `TriageAnswer`, and the pure functions of `CommandPolicy`, `CommandExecution`, `RemediationTargets`, `ConfigChecks`, `ServiceHealth` |
| `DeliveryProofs` | proofs about `AssistantQueries`, `LiveFanout`, `LiveClient`, `SkillRegistry`, `FeedbackLearning`, `AgentOrchestrator`, `SloReporter` |
| `ServicesProofs` | the same results for every behaviour of `Services` |
| `MC*` | instances for TLC |

### ActionLifecycle

*State.* `tracker[a]` is the approval entry that `get` answers for an action: status, creator, stored
approver, the policy's verdict on its command, and as history who really approved it last. With the
file store `tracker` is the memory of the process and `file` what the last save left. A request is a
coroutine `req[r]` with a program counter that names the `await` at which it stands; `lock[p][a]` is
the `asyncio.Lock` of an action on a pod. `runs` counts the real runs of a command, `lost` the runs
whose outcome was lost; both are history.

*Actions.* `CreateAction` and `CreateBulkAction` give an entry its first status from the verdict, the
permission and the impact. `Arrive` is an approve, reject or execute request; `Acquire` takes the
lock; `AdmitDecision` and `Decide` are `_approve_action_impl` and `_reject_action_impl`;
`AdmitExecution` stands for the gates before the command and `Refuse` for every early error (not
found, status, governance, rate limit, time window); `RunCommand`, `DryRun`, `ExecutorRaises` for the
executor; `PersistOutcome`, `PersistRaises` for `set_status`; `Bookkeep`, with `Rollback`, for what
follows it; `RecoverKeeps`, `RecoverFails`, `MarkFailed`, `MarkFailedRaises` for the `except` branch.
A Redis update raises before it wrote or after (`RaisesBefore`, `RaisesAfter`), and a Redis read that
fails answers "none". The file store changes its memory first: a save that raises leaves the file as
it was, or cut, and `Crash` makes the pod load it (a file that is not JSON loads as empty).

*Abstracted.* Permissions, rate limit and time window are a free choice to refuse (modules of their own
model them); a Redis update is one step, which `RedisStateStore` justifies; ids are reused once their
entry is gone.

### LeaderElection

*State.* `owner` and `ttl` of the Redis key; per pod `pc`, a countdown `timer`, the answer `res` of
the call in flight, `missed`, and the engine task `inner`. `age`, a history, is the time since Redis
last granted the pod a full TTL.

*Actions.* A Redis call is sent, executed (`ExecuteAcquire`, `ExecuteRenew`, `ExecuteRelease`) and
answered in separate steps, each at most `OpTimeout` after the first; it may raise whether it was
executed or not. `Acquired`, `NotAcquired`, `Renewed`, `RenewLost`, `RenewError`, `Released`,
`WakeUp` are `run_as_leader`. `Shutdown` is the end of the lifespan, which cancels a leading
wrapper: its `finally` stops the engine and releases the lock, and the process ends (`Exit`).
`TaskFails` is an inner task that raises outside its own `try` (the SLO reporter does). `Tick` lets
one unit pass, and cannot pass the deadline of a call or, by more than `Lag`, of a sleep. A pod that
crashed comes back with a new identity; its key then belongs to nobody alive (`Gone`).

*Refinement.* To the task inside, the lock is its owner's while the owner's engine runs (`holderBar`), and
that is all `LeaderLock` speaks of: an engine starts when it is free, an engine whose lock is lost may run
on, an engine ends. Redis, its answers, time and the wrapper are the steps that implement it.

### AlertEngine

*State.* `disk` is the file or Redis, `mem` the file tracker's memory on each pod, `torn` the files
that a save left cut; per pod the rule it evaluates, the samples of its cycle, the status it is about
to announce. `told` (history) says that the running breach of a rule was announced, `last` is the
last notification sent.

*Actions.* `Fetch` is the fetch layer at the head of `_check_all`: all samples of a cycle are taken
there (the per-rule fallback only serves metrics that answer a constant). `CheckBreached`,
`CheckClear`, `SetStatus`, `Record`, `Fence`, `Send`, `Tell`, `Remediate` follow the code to the next
`await`; an exception ends the cycle (`Abort`). A save cuts the file before it writes it, so a save
that raises, or a crash inside it, may leave no JSON; `AlertEngine()` then raises at the start of the
pod, and `Restart` waits until somebody repairs the file. Leadership is taken, lost and noticed late
(`TakeOver`, `LoseLock`, `StandDown`): these are steps of `LeaderLock`, so the engine relies on nothing
that `LeaderElection` does not give; `StopsInTime` there says how late. Ages saturate at the duration
of the rule, beyond which the code does not tell them apart.

*Abstracted.* One duration for all rules; a notifier call that fails is not told apart from one that
succeeds (the engine does neither); the 24 h expiry of Redis entries.

### The services

Each is one module, about a hundred lines, with its own header; what follows is what its state and
actions stand for.

- `RedisStateStore`: per client the call in flight, its answer and the time it has left; the lock key's
  time to live and the stored value as the set of updates in it. `TryLock`, `ExecuteLock`, `ExecuteGet`,
  `ExecuteSetex`, `ExecuteUnlock` follow `_locked_update`; a call is executed or not before it times out,
  a client may crash, and the lock, whose value names nobody, is deleted by whoever unlocks.
- `ActionRateLimit`: `Begin` checks, `End` records a success, so executions overlap between the two;
  `Restart` forgets everything, as the code does.
- `AutonomousRemediation`: `Start` is the safety check, `Read`, `Plan` and `Kubectl` the calls, any of which may
  fail, or time out after it took effect (`unanswered`); `Finish` is the verdict and the save of the quota, which may
  fail.
- `PolicyGate`: the policy may change at any time; an answer waits on the wire while it does, is cached,
  and expires. Anything that is no answer blocks.
- `ChatApprovals`: a press is delivered several times, late and to any pod; the webhook checks the signature's age,
  maps the sender and checks the role (`Deliver`), awaits the engine, and answers; the chat repeats what was not
  answered. The engine reads the status (`Check`, `Refuse`) and writes it (`Decide`) in two steps under a lock of its
  own pod; the request may fail before the write (`FailRequest`) or after it, when it answers an error for a decision
  that is stored.
- `SloReporter`: hours of UTC, a local day with an offset, a file that every pod rewrites; `Look`, `Make`,
  `Post`, `Save` stop at each `await`.
- `HttpRateLimit`, `LoginGate`: requests as ages in a window; sweeps and evictions; logins between their gate and
  their record. `RedisRateLimit`: a request reads its pod's clock (`Read`), which may be `Skew` ahead of the slowest
  pod's, and Redis executes the pipeline later, once or more, heard or not; the reading is the score, the cut-off and
  the member.
- `UserSessions`: the second a token was issued in, the floor that a logout sets, and the copies of the
  file that server and command line hold between reading and writing.
- `ConfigVersions`: workers that count (`Plan`), open their file, which empties it (`Open`), and write it; what was
  opened and not written stays torn, and the reader skips it. `ConfigGitOps`: one working tree, one step per awaited
  git command, and the branch the manager believes checked out. `ConfigAudit`: daily files chosen at start
  and rotation, and writes that fail and may leave a torn gzip member, at which the reader gives the file up.
  `ConfigChecks`: secrets and validity as functions.
- `AuditTrail`: lines that may be torn and swallow the next one, a rotation that keeps one file, the migration of the
  old log at a start, one mirror task per entry.
- `LiveFanout`, `LiveClient`: events on the channel, on the wire and sent client by client; sockets whose
  events arrive after they were given up, timers that were overwritten.
- `TriageInput`, `TriageAnswer`: the newest-first history and its deduplication; log lines under a budget;
  the stream of a provider that may stop anywhere, fail, or end without a stop reason (`StreamCut`).
  `AgentOrchestrator`: agents under a timeout each, and the vote over what they advise, in which every occurrence
  counts.
- `SkillRegistry`, `FeedbackLearning`: executions that finish in any order into bounded tables; a file
  rewritten whole. `AssistantQueries`: threads, one lock, a wait inside it; a landed flight answers until its owner
  gets the lock and removes it, and time passes meanwhile (`kept`).
- `CommandPolicy`, `CommandExecution`, `RemediationTargets`, `ConfigChecks`, `ServiceHealth`: pure functions,
  checked over all inputs of a small alphabet.

`Services` is a *sum*, not a composition: these modules do not call each other, so a behaviour chooses one
of them (`part`) and runs it alone, over pooled variables `x1` to `x11`. Nothing in it speaks about two
services at once (`MCServices` gives it its constants); what does interact is composed inside a module (fanout with its pods,
the limiter with the executions, the audit log with its mirror) or by refinement (`LeaderLock`). Fairness is stated
again there, over the pooled variables: the parts share the conditions `Weakly(k)` and `Strongly(k)`, each of which is
one fair action of the part that the behaviour has chosen.

## 3. Runs

"Violation" runs show where the code departs from what a comment, a docstring or a document says;
`PROJECT.json` quotes the line.

| Run | Result | What it shows |
|---|---|---|
| `lifecycle_onepod` | pass | Redis store: refinement of `ApprovedExecution`; rollbacks come only from failures; the command runs while the entry is approved: concurrent requests, a store fault or a crash |
| `lifecycle_filestore` | pass | file store: a command runs again only after a lost outcome, a live process keeps a terminal status, and every request is answered (liveness: no path leaves the lock held) |
| `lifecycle_approval` | pass | two pods: nothing that needs approval runs without a second person |
| `lifecycle_forbidden` | violation | a forbidden command can be born approved |
| `leader_errors` | pass | with Redis errors, crashes and late wake-ups an engine that missed no renewal holds the lock, an engine without its lock stops in bounded time, nobody takes a live pod's lock, some pod runs the engine again (liveness), and all of it implements `LeaderLock` |
| `leader_ttl` | violation | three misses outlast the TTL |
| `alert_onefile` | pass | file tracker, one pod, all faults: a breach is announced at most once; without faults firing and resolution come in pairs, and come (liveness) |
| `alert_redis` | pass | Redis tracker, two pods, two rules, exceptions, crashes and lost locks: a lasting breach of either rule is announced (liveness) |
| `alert_cooldown` | violation | the Redis tracker fires in every cycle of one breach |
| `services` | pass | every service module: its safety property, and its liveness where somebody waits |
| `sessions_logout` | violation | a logout leaves the tokens of its own second accepted |
| `triage_latest` | violation | the deduplicated alerts show the oldest state of a rule |

The properties of `services`, and what would break them:

| Property | Says |
|---|---|
| `ActionLimits` | the hourly limit is exceeded by at most the other executions under way; a quiet project is admitted; the chain monitor warns before its limit |
| `WithinQuota`, `FailureIsClean` | the autonomous quota of successes and its cooldown hold across restarts, unless a save failed or the file was lost; a failed action changed nothing (but for calls that timed out after they took effect, and the two deletions that must all succeed) |
| `NoLostUpdate`, `LockIsFreedAgain` | a locked update adds to what is stored; the lock of a dead or unknown holder expires |
| `RequestLimitsHold` | no sliding window holds more than the limit, in memory (a client that was evicted excused), or of failed logins, per user with address and per address, beyond those verified at that moment; in Redis none that is shorter by the wait for the answer and the skew of the pods' clocks; a client does not choose its own window |
| `LogoutHolds` | no token of a second before that of a logout is accepted, until the account is created anew or an older copy of the file is written back (those of its own second are: `sessions_logout`) |
| `HistoryKept`, `FeatureStartsAtBase` | a stored version is rewritten or torn only where one number was given twice, after a removal or two saves at once, and never by failed saves alone; a feature branch whose commands succeed starts with all that base and origin have, and nothing else, unless another request checks out a branch after its own checkout |
| `AuditTrailsAreKept` | entries are found again over daily files, rotation, torn lines and migration, a configuration change unless a write in its file was torn before it; a query shows the newest of the lines that can be read, in order |
| `ChatDecision` | one decision of each pod, by the mapped user, no approval by the creator; "done" is said for a stored decision only |
| `PassWasAllowed` | an execution passes on an allowance not older than the cache's TTL and one call |
| `QueriesAreShared`, `EveryoneIsServed` | one query per key, and answers no older than cache, query and the time a landed flight is kept; callers, agents, skills, analyses and views do not wait for ever |
| `LiveUpdatesReachViews` | a client gets an event once; an open socket has a view |
| `ResultsAreKept`, `ReportIsComplete`, `TriageIsTruthful` | the latest results stay; every agent is named, and a consensus is of more than half unless one repeats itself; alerts are counted, the final answer is what was streamed |
| `CommandChecksAreSound`, `TargetsAreBounded`, `ReportsAreHonest` | the pure functions: global flags do not change a tier, windows open when said, rollback plans can be run; targets stay in limits; secrets stay hidden, a valid project has what is required wherever its sections are objects, health is not better than the probes, one SLO report a day but for its faults |

### What the models found beside the violations

Behaviour they reproduce that no run lists, because no document promises otherwise or because a
property excuses it by name:

- *Lifecycle.* A dry run rewrites the stored approver, and marks the action FAILED when the executor raises;
  a failed Redis read in the recovery path overwrites EXECUTED; a bulk-created action has no creator, so
  the ban on self-approval does not apply; the table of per-action locks only grows. Two pods may run one approved
  command twice: the lock is per process, as `engine.py:71-74` says, and `set_status` of the Redis store writes
  whatever the stored status is, so the compare-and-set that comment refers to does not exist.
- *Alerts.* The wrapper of `leader.py` keeps the lock of a task that died, and dies of it when it steps down;
  the remediation goes on after the fence refused the notification; a save that fails in `set_firing`
  silences the breach for the file tracker; `first_breached_at` never moves, so a rule that dipped fires at
  once; `alerting/rules.py` writes its file in place, so a reader may see half of it, and the first rule
  created through the API replaces the defaults.
- *SLO.* The date is saved in UTC and compared in local time: where the two differ in the report's hour, as
  before 7 h in Asia/Ho_Chi_Minh, the report is repeated at every look. `OnceADay` is checked for an hour in
  which they agree.
- *Redis.* A lock lost to a lost answer lasts longer than the retries; denied requests count in the window, so
  a client that keeps asking is not admitted again; a request that Redis does not answer is let through uncounted.
- *Remediation.* A kubectl call that times out after it took effect is a failure, and its action is not counted.
- *Configuration.* The number of a version is a count: a clean-up or two workers give one twice, and the file of a
  stored version is then emptied and rewritten. A save that fails half way leaves a torn file that is not counted, so
  the next save takes its number and writes it again: no intact version is lost by that alone. Another request may
  switch the working tree between the checkout of a base and the new branch; a push without a
  branch sends the one the manager believes checked out; the synchronous `validate_config` is awaited by the API.
- *Sessions.* A logout that is overwritten by an older copy of the user file is undone.
- *Chat.* Two pods may both decide an action, the second over the first; a press may be answered an error or
  "refused" although its decision is stored.
- *Audit.* A torn gzip member hides every later configuration change of its file from every query; in the action log
  a torn line takes the next entry with it, a second rotation overwrites the first, a restart right after a
  rotation reads the old log in again, and a migration cut short is never finished.
- *Governance.* `httpx.TimeoutError` does not exist, so a time-out ends in the handler for everything else.
- *Live events.* A reconnecting subscriber misses what was published meanwhile, and a publish that raises after
  Redis took it is sent twice on its pod; in the browser a timer handle is overwritten, a late error of an old socket
  closes the new one, and code 4403 is sent before `accept`, where a browser sees 1006 and retries.
- *Others.* The approval rate is divided by all events, executions included; `@cached(ttl=...)` ignores its
  `ttl`; a flight is awaited under the lock, so that a landed one hands out its answer as long as others keep the lock;
  an agent that names a recommendation twice votes twice; a stream without a stop reason ends without a final line;
  `--namespace=x` is lost in a rollback plan, and a command that starts with a
  flag gets none.

**Bounds.** Lifecycle: one or two actions and pods, two requests at a time, one or two users, one
fault on the Redis store and three on the file store: enough for two requests to race, for a crash or
a failing write between any two steps, and on the file store for a failed save, a crash that reverts
it and another fault on top; the proofs lift the bounds on one pod. `MaxRuns` cuts behaviours only on
two pods, where a command can be repeated without end. Leader: two pods, a tick is five
seconds (TTL 6, renewal 2, retry 1, time-out 1), so the instance is the real configuration; up to four
faults, one more than the misses tolerated. Alert: two rules in both passing runs, since an exception for one
may harm the other, and two pods where pods race; duration 1 or 2; two or three faults; up to five changes of the
metrics, two breaches with a dip and their ends (three with Redis). Services: two of everything that races
(clients, logins, workers, requests, executions; pods and deliveries of a chat), three callers of the single flight,
so that one may wait for the lock while another holds it for a third; limits of one to three, windows a few ticks
longer than what they must forget (for the limiter in Redis three, against one of delay and one of skew), one or two
faults; a lock that lives five ticks where four calls take one each, the smallest that suffices. About 510,000
states of `services`, in three minutes. `Max*` constants bound only faults and inputs.
Deadlock is checked in every run but those of `Services`, `UserSessions` and `TriageInput`, whose parts end: an
analysis is answered, the clock of a part reaches its bound, a pure function has no step.

**Fairness.** `ActionLifecycle`: weak fairness of a coroutine's steps (the event loop runs what is
ready, and every awaited call returns or raises within its time-out) and strong fairness of taking
the lock, because `asyncio.Lock` wakes its waiters in order. `LeaderElection`, `AlertEngine`: weak
fairness of the passing of time, of each pod's steps and of the restart of a dead pod (Kubernetes or
Swarm restarts it). Services: weak fairness of time, of a call that must return within its time-out, of
an agent or skill that `wait_for` cuts off, of the browser's timers and closing sockets; strong fairness of a
thread that waits for a lock which is free again and again. Nothing is assumed of faults, inputs or crashes,
which the bounds make finite: "in the end" means "once the faults stop".

## 4. Proofs

Proved for every value of the constants that satisfies the named assumptions. Each invariant was checked with
TLC before.

`ActionLifecycleProofs`
- `TypeCorrect`; `LockHeldInside`: on any number of pods a coroutine past the acquisition holds its lock.
- `SecondPersonApprovedAlways`: for the Redis store, on any number of pods.
- `RollbackOfFailureAlways`: on one pod, both stores.
- `TerminalStaysAlways`: on one pod with the file store. FAILED is written only by a coroutine that has read, under its
  lock, what is stored, so it never overwrites EXECUTED; with Redis that read may fail, and then it does.
- On one pod (`OnePod`, the documented deployment of the in-memory lock), for both stores:
  `RunsOncePerLossAlways` and `RunsWhileApprovedAlways`; for the Redis store `EngineImplementsWorkflow`,
  the refinement (the file store may forget what it stored, which `ApprovedExecution` does not allow).
  The invariants alone are not inductive: they are strengthened by mutual exclusion inside an action, by
  what the coroutine knows of the entry at each program counter (its status was APPROVED when it was
  admitted and nobody else could change it since), and by the count of runs that each program counter
  still has to account for.

`LeaderElectionProofs`
- `TypeCorrect`; `LockUndisturbedAlways`: only expiry, the owner's release or its death free the lock.
- `EngineHoldsLockAlways`: if `2 * OpTimeout + RenewInterval + Lag < TTL` (`Timely`; 25 s with Lag 5 s against 30 s), an
  engine that missed no renewal holds the lock, so two of them never run together, through any errors. The
  strengthening `LeaseInv` says that the remaining TTL covers the rest of the call or sleep and, asleep, the
  next call.
- `ElectionImplementsLock`: under the same assumption `LeaderElection` implements `LeaderLock`; from `LeaseInv`,
  since an engine is started on a grant that must still be valid.
- `StopsInTimeAlways`: with any errors, an engine stops at most `OpTimeout + MaxMissed *
  (RenewInterval + Lag + OpTimeout)` after its last grant. The strengthening `StaleInv` is a measure: age plus time
  left is at most the rounds missed so far. With the real constants this is 50 s against a TTL of 30 s: the bound that
  `leader_ttl` shows to exceed the TTL.

`AlertEngineProofs`
- `AlertTypes`: any number of pods and rules.
- `FiresOnceOnFile` (one pod, file tracker): a breach is announced once, through failed fetches, saves and crashes. The
  strengthening `FireInv` says that what was told is "firing" in memory and in the file, which a crash reloads, and
  that a firing on its way was not told yet.
- `ResolvesWhatFiredAlways` (one pod, both trackers): while nothing but fetches has failed, a resolution follows an
  announced firing. `QuietInv` says that a stored "firing" was announced or is about to be.
- `AlertsUnderLock` (with the leader lock, any number of pods): the engine's leadership is a behaviour of
  `LeaderLock`. With `ElectionImplementsLock` this is the composition: whatever `LeaderElection` does to the
  engine, `AlertEngine` allows for. What `AlertEngine` adds, that a lock is lost only by a counted fault, limits the
  instances, not the interface.

`SharedStateProofs`
- `StoreInvariant` and `UpdatesAreKept`, for any number of clients, if `LockTTL > 4 * (OpTimeout + Lag)`. The lock
  says nothing of its holder, so only time keeps others out: the invariant counts the calls a holder still has before
  it against the time the key has left. With the real lock of 30 s this asks each call, its connection included, to end
  in 7.5 s; the client's limits are 5 s for a connection and 5 s for an answer, so a call that has to reconnect at the
  limit is outside the assumption.
- `GateIsSound`, for any number of executions and inputs: the invariant follows the age of an allowance from the
  server through a waiting call into the cache.
- `LogoutIsFinal`, for the tokens of the seconds before that of the logout (`sessions_logout` shows what becomes of the
  others): what each process's copy of the user file holds while nobody else wrote.
- `HistoryIsKept`, for any number of workers, with saves that are cut after they emptied their file: while nothing was
  removed and no two saves met, the numbers of whole files are one to their count and a torn one can only follow, so
  that a plan whose count still holds has a number that no whole file has, by the cardinality of finite sets.
- `ChatTypes`, `PodsDecideOnce`, for any pods, channels, presses and deliveries: a running request acts as the user its
  press is mapped to, and one that has read the status holds its pod's lock, so that a pod decides an action once. Two
  pods may decide it one after the other, which the property does not exclude.
- `BranchStartsAtBase`, if no request is named like a base branch: what each step of a request in the one working tree
  may rely on while no other request has moved the tree after its own checkout. The branch of a request that was
  overtaken there is excused (it may start anywhere); what other requests do before its checkout, and to the branches
  themselves, is not.
- `ChangesAreFound`: an entry sits in a file no older than its process, so the window reaches it; only what was written
  to a file after one of its writes was torn is hidden.
- `LogIsKept`: each torn line is counted before it can take an entry with it, so the entries that are lost never
  outnumber them, through appends, rotations, restarts and migrations of any length.

`LimiterProofs` starts with lemmas about ages: what ageing, dropping and appending leave in a window.
- `OvershootIsBounded`, `QuietProjectIsAdmitted`, `LimitIsWarnedOf`: the records of the last window are those that were
  admitted, plus at most the executions that were checked and have not ended. The cooldown must be shorter than the
  window, and a warning must come before the chain limit.
- `QuotaHolds`, `FailuresAreClean`: what the file remembers is what memory remembers unless a save was lossy, and a
  running action has its place in the quota before it changes a target. A failed action changed targets only by calls
  that timed out after they took effect (`unanswered`) or by the two deletions that must all succeed: which answer
  leads to which verdict, not that kubectl fails cleanly.
- `HttpLimitIsKept`, `HttpWindowsAreBounded`: what was admitted is inside what the limiter
  remembers, or its client is excused because an eviction forgot it. `RedisLimitIsKept`, for any number of pods whose
  clocks differ by at most `Skew` and whose pipelines are executed at most `Delay` after the clock was read, in any
  order, if `Delay + Skew < Window`: no interval of length `Window - Delay - Skew` sees more than the limit admitted (requests of one
  reading are one member of the sorted set, in the code and here). The
  full window does not hold, since a late request is scored early and a fast clock cuts off what is still recent. `BucketIsTheSeenAddress`: for every chain.
- `GuessesAreBounded`: failures recorded plus logins being verified count every guess in the window.
- `CleanupSparesYoungest` (induction on the rank of a job among the failed ones; no two fail at the same instant),
  `ScalingIsLimited`.
- `SecretsAreHidden`, `ValidProjectsAreComplete`: the first hiding key of a path decides, whatever is below; no value may
  be the very word that hides the others. `HealthIsTruthful`: the score is monotone in the probes; the
  backend's critical services must be told by their names as a database or an authentication, as its own are.
- `StormsAreCounted`: the first alerts of the groups stand for the rules one to one, and so do the entries; how many
  of them are shown follows from their ranks, as for the clean-up. `BudgetsAreMonotone`: a larger budget stops at an
  earlier rung, which keeps all that a later one keeps, as the rungs tighten (`BudgetLadder`; those of the code do).
  `AnswersAreTrue`: the token lines mirror the text received, and no token follows the stop reason; a stream that is cut has no final line.
- `FlagsChangeNoTier`, for any command whose first words name a known action and any flags that stand with their values:
  the parser finds the same word, because every token before it is a flag or the value of one. `RetryIsAllowed`, for any
  window that is open on some day for some hours, across midnight or not: of the seven days to come one is open.
  `PlansAreRunnable`, for any tokens: the first word of a plan is its operation, and all that names a namespace is what
  the plan is completed with.

`DeliveryProofs`
- `QueriesAreSingle`, for any threads and whatever keys they ask for: one owner per flight; an answer in the cache or on
  its way to a waiting thread carries its age. A flight that has landed stays visible until its owner gets the lock, which
  another thread may keep for the whole query of another key; the bound on the age counts that time (`kept`).
- `EventsReachAll`: for each client, the sends it got and those still on one of the two ways (the channel, the pod's own
  list) count at most one, or two when the publisher doubted Redis.
- `SocketIsWanted`: the hook's references and the events on their way, in any order.
- `LatestAreKept`: results are the last ones of the answers, each execution answering once.
- `DecisionsAreKept`: the file is the memory unless a save is under way, failed or was cut; the score is weighted
  within its bounds.
- `ReportsAreComplete`: every task under way will be answered or timed out, and a consensus is named by more than half of
  the agents that succeeded, unless one of them names it more than once, which counts again. Agents must call themselves by names of
  their own (`AgentNames`), as those in the code do.
- `ReportsOnceADay`: posts, pods about to post and one report owed sum up to at most one plus the faults of the day. The
  clocks must agree on the date in the report's hour.

`ServicesProofs` carries all of this over to `Services`, and so to the properties that the run `services` checks. A
behaviour of `Services` starts in one part (`PartInit`) and takes that part's steps (`PartStep`); the instances
of the proof modules and those of `Services` are equal definition by definition (the lemmas `...Same`); and the
assumptions on constants of `Services` are those of the parts, which TLC evaluates in `services`.

Only model-checked: all liveness properties, which need fairness; and everything on two pods
about the action engine except lock ownership, types and approval by a second person (two pods may run an action
twice, as section 3 says, so the other properties are stated of one pod).

## 5. Plan

Done: the lifecycle with its refinement; leader election with its refinement; the alert engine on top of it; the
services; proofs about the three engines and all services. What would come next:

1. The alert engine over the detailed `RedisStateStore`: an entry whose locked update is four calls, to replace the
   assumption that an update is one step.
2. `ActionLifecycle` with `ActionRateLimit` and `PolicyGate` in place of the free choice to refuse.
3. The history lists in Redis, whose LPUSH, LTRIM and EXPIRE are three calls, and the file of alert rules.

## 6. Not modelled

Pure input and output (HTTP clients of Elasticsearch, Prometheus and the cloud, subprocesses, Slack and Teams
formats, e-mail), what an analysis computes (most skills, impact scores, the extraction of commands from
text, prompts), Redis history lists, the alert rule file, pagination and listings, headers and schemas of the API,
database tables other than the audit mirror, the frontend but for its socket, migrations and deployment
files. What they answer is an input of the models: a fetch fails or not, a command succeeds, fails or raises.

## 7. Running

    tlc -config LeaderElection_errors.cfg MCLeaderElection.tla
    tlc -config MCServices.cfg MCServices.tla
    tlapm LeaderElectionProofs.tla
    tlapm ServicesProofs.tla

Each `<Module>_<run>.cfg` belongs to `MC<Module>.tla`.
