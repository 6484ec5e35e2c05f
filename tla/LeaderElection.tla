---------------------------- MODULE LeaderElection ----------------------------
(***************************************************************************)
(* Leader election of the background tasks (backend/app/alerting/leader.py): *)
(* every pod runs run_as_leader for a lock, one Redis key with an expiry,    *)
(* and starts the alert engine (or the SLO reporter) while it holds it.      *)
(*                                                                          *)
(* Time is discrete and relative: the key and every pod have a countdown.    *)
(* A Redis call is sent, executed by Redis and answered at separate moments, *)
(* within OpTimeout; it may also raise, executed or not.  A sleeping         *)
(* coroutine wakes at most Lag late (the event loop is busy).                *)
(***************************************************************************)
EXTENDS Naturals

CONSTANTS
  Pod,             \* backend processes
  Nobody,          \* the key does not exist
  Gone,            \* the key belongs to a process that died
  TTL,             \* LEADER_TTL_SECONDS
  RenewInterval,   \* RENEW_INTERVAL_SECONDS
  RetryInterval,   \* ACQUIRE_RETRY_SECONDS
  MaxMissed,       \* MAX_MISSED_RENEWS
  OpTimeout,       \* socket_timeout of the Redis client
  Lag,             \* bound on the delay of a wake-up
  RedisErrors,     \* Redis calls may raise
  TaskRaises,      \* the engine task may end with an exception
  MaxFaults        \* bound: Redis errors, crashes, shutdowns, task failures

ASSUME TimesAssumption == /\ TTL \in Nat \ {0} /\ RenewInterval \in Nat \ {0}
                          /\ RetryInterval \in Nat \ {0} /\ OpTimeout \in Nat \ {0}
                          /\ Lag \in Nat /\ MaxMissed \in Nat \ {0}
ASSUME OwnersAssumption == Nobody \notin Pod /\ Gone \notin Pod /\ Nobody # Gone
ASSUME FaultsAssumption == /\ RedisErrors \in BOOLEAN /\ TaskRaises \in BOOLEAN
                           /\ MaxFaults \in Nat

VARIABLES
  owner,     \* value of the key leader:<name>
  ttl,       \* its remaining time to live, 0 when it does not exist
  pc,        \* where run_as_leader stands on each pod
  timer,     \* time left until its call times out or its sleep must have ended
  res,       \* what Redis answered to the call in flight
  missed,    \* consecutive failed renewals
  inner,     \* the engine task
  age,       \* history: time since Redis last granted the pod a full TTL
  faults

vars == <<owner, ttl, pc, timer, res, missed, inner, age, faults>>

Calling == {"acquire", "renew", "release", "quit"}   \* quit: the last release
Sleeping == {"lead", "rest"}
Halted == {"dead", "down"}      \* the wrapper task ended; the process died

MaxTimer == OpTimeout + RenewInterval + RetryInterval + Lag

Init ==
  /\ owner = Nobody /\ ttl = 0
  /\ pc = [p \in Pod |-> "acquire"]
  /\ timer = [p \in Pod |-> OpTimeout]
  /\ res = [p \in Pod |-> "none"]
  /\ missed = [p \in Pod |-> 0]
  /\ inner = [p \in Pod |-> "none"]
  /\ age = [p \in Pod |-> 0]
  /\ faults = 0

-----------------------------------------------------------------------------
At(p, where) == pc[p] = where

\* Send a Redis command, or go to sleep.
Call(p, op) == /\ pc' = [pc EXCEPT ![p] = op]
               /\ timer' = [timer EXCEPT ![p] = OpTimeout]
               /\ res' = [res EXCEPT ![p] = "none"]
Sleep(p, where, d) == /\ pc' = [pc EXCEPT ![p] = where]
                      /\ timer' = [timer EXCEPT ![p] = d + Lag]
                      /\ res' = [res EXCEPT ![p] = "none"]

Fault == faults < MaxFaults /\ faults' = faults + 1
Raises == RedisErrors /\ Fault

\* Redis executes the command in flight.
Executes(p, op) == At(p, op) /\ res[p] = "none"
Answers(p, a) == res' = [res EXCEPT ![p] = a]
Grant(p) == owner' = p /\ ttl' = TTL /\ age' = [age EXCEPT ![p] = 0]

\* A plausible slip: the answer of SET NX is not looked at.
ExecuteAcquireUnchecked(p) ==
  /\ Executes(p, "acquire")
  /\ IF owner = Nobody THEN Grant(p) ELSE UNCHANGED <<owner, ttl, age>>
  /\ Answers(p, "yes")
  /\ UNCHANGED <<pc, timer, missed, inner, faults>>

\* SET key identity NX PX ttl.
ExecuteAcquire(p) ==
  /\ Executes(p, "acquire")
  /\ IF owner = Nobody THEN Grant(p) /\ Answers(p, "yes")
     ELSE Answers(p, "no") /\ UNCHANGED <<owner, ttl, age>>
  /\ UNCHANGED <<pc, timer, missed, inner, faults>>

\* Compare and expire.
ExecuteRenew(p) ==
  /\ Executes(p, "renew")
  /\ IF owner = p THEN Grant(p) /\ Answers(p, "yes")
     ELSE Answers(p, "no") /\ UNCHANGED <<owner, ttl, age>>
  /\ UNCHANGED <<pc, timer, missed, inner, faults>>

\* A plausible slip: a plain DEL.
ExecuteReleaseAnyone(p) ==
  /\ Executes(p, "release") \/ Executes(p, "quit")
  /\ owner' = Nobody /\ ttl' = 0
  /\ Answers(p, "yes")
  /\ UNCHANGED <<pc, timer, missed, inner, age, faults>>

\* Compare and delete.
ExecuteRelease(p) ==
  /\ Executes(p, "release") \/ Executes(p, "quit")
  /\ IF owner = p THEN owner' = Nobody /\ ttl' = 0 ELSE UNCHANGED <<owner, ttl>>
  /\ Answers(p, "yes")
  /\ UNCHANGED <<pc, timer, missed, inner, age, faults>>

-----------------------------------------------------------------------------
(* run_as_leader                                                             *)

\* The lock is taken: a fresh engine task starts, and the first renewal.
Acquired(p) ==
  /\ At(p, "acquire") /\ res[p] = "yes"
  /\ inner' = [inner EXCEPT ![p] = "running"]
  /\ missed' = [missed EXCEPT ![p] = 0]
  /\ Call(p, "renew")
  /\ UNCHANGED <<owner, ttl, age, faults>>

\* try_acquire answers False for a lock that is held and for an error.
NotAcquired(p) ==
  /\ At(p, "acquire")
  /\ (res[p] = "no" /\ UNCHANGED faults) \/ Raises
  /\ Sleep(p, "rest", RetryInterval)
  /\ age' = [age EXCEPT ![p] = 0]
  /\ UNCHANGED <<owner, ttl, missed, inner>>

Renewed(p) ==
  /\ At(p, "renew") /\ res[p] = "yes"
  /\ missed' = [missed EXCEPT ![p] = 0]
  /\ Sleep(p, "lead", RenewInterval)
  /\ UNCHANGED <<owner, ttl, inner, age, faults>>

\* finally: the engine is cancelled and awaited, then the lock released.  A
\* task that had already failed raises again at the await, which skips the
\* release and ends run_as_leader itself.
StepDown(p, op) ==
  /\ inner' = [inner EXCEPT ![p] = "none"]
  /\ missed' = [missed EXCEPT ![p] = 0]
  /\ age' = [age EXCEPT ![p] = 0]
  /\ IF inner[p] = "failed" THEN Sleep(p, "dead", 0) ELSE Call(p, op)

RenewLost(p) ==
  /\ At(p, "renew") /\ res[p] = "no"
  /\ StepDown(p, "release")
  /\ UNCHANGED <<owner, ttl, faults>>

\* A plausible slip: one miss more is tolerated.
RenewErrorOffByOne(p) ==
  /\ At(p, "renew") /\ Raises
  /\ \/ missed[p] >= MaxMissed /\ StepDown(p, "release")
     \/ /\ missed[p] < MaxMissed
        /\ missed' = [missed EXCEPT ![p] = @ + 1]
        /\ Sleep(p, "lead", RenewInterval)
        /\ UNCHANGED <<inner, age>>
  /\ UNCHANGED <<owner, ttl>>

RenewError(p) ==
  /\ At(p, "renew") /\ Raises
  /\ \/ missed[p] + 1 >= MaxMissed /\ StepDown(p, "release")
     \/ /\ missed[p] + 1 < MaxMissed
        /\ missed' = [missed EXCEPT ![p] = @ + 1]
        /\ Sleep(p, "lead", RenewInterval)
        /\ UNCHANGED <<inner, age>>
  /\ UNCHANGED <<owner, ttl>>

\* release never raises; then the backoff before the next attempt.
Released(p) ==
  /\ At(p, "release")
  /\ (res[p] = "yes" /\ UNCHANGED faults) \/ Raises
  /\ Sleep(p, "rest", RetryInterval)
  /\ UNCHANGED <<owner, ttl, missed, inner, age>>

\* A plausible slip: after a pause the lock is renewed, not taken anew.
WakeUpRenews(p) ==
  /\ pc[p] \in Sleeping /\ timer[p] <= Lag
  /\ Call(p, "renew")
  /\ UNCHANGED <<owner, ttl, missed, inner, age, faults>>

WakeUp(p) ==
  /\ pc[p] \in Sleeping /\ timer[p] <= Lag
  /\ Call(p, IF At(p, "lead") THEN "renew" ELSE "acquire")
  /\ UNCHANGED <<owner, ttl, missed, inner, age, faults>>

\* The task ends outside its per-cycle try/except (slo_reporter._should_report).
TaskFails(p) ==
  /\ TaskRaises /\ inner[p] = "running" /\ Fault
  /\ inner' = [inner EXCEPT ![p] = "failed"]
  /\ UNCHANGED <<owner, ttl, pc, timer, res, missed, age>>

-----------------------------------------------------------------------------
(* Processes and time                                                        *)

Die(p) ==
  /\ pc' = [pc EXCEPT ![p] = "down"]
  /\ timer' = [timer EXCEPT ![p] = 0]
  /\ res' = [res EXCEPT ![p] = "none"]
  /\ missed' = [missed EXCEPT ![p] = 0]
  /\ inner' = [inner EXCEPT ![p] = "none"]
  /\ age' = [age EXCEPT ![p] = 0]
  /\ owner' = IF owner = p THEN Gone ELSE owner
  /\ UNCHANGED ttl

Crash(p) == ~At(p, "down") /\ Fault /\ Die(p)

\* A plausible slip: the lock is released while the engine still runs.
ShutdownReleasesFirst(p) ==
  /\ pc[p] \in {"renew", "lead"} /\ inner[p] = "running" /\ Fault
  /\ Call(p, "quit")
  /\ UNCHANGED <<owner, ttl, inner, missed, age>>

\* The shutdown of a leader cancels the wrapper: its `finally` stops the engine
\* and releases the lock, then the process ends.  (Elsewhere, or with a task
\* that failed, the cancelled wrapper releases nothing: a Crash.)
Shutdown(p) ==
  /\ pc[p] \in {"renew", "lead"} /\ inner[p] = "running" /\ Fault
  /\ StepDown(p, "quit")
  /\ UNCHANGED <<owner, ttl>>

Exit(p) ==
  /\ At(p, "quit")
  /\ (res[p] = "yes" /\ UNCHANGED faults) \/ Raises
  /\ Die(p)

\* A new process draws a new identity.
Restart(p) ==
  /\ At(p, "down")
  /\ Call(p, "acquire")
  /\ UNCHANGED <<owner, ttl, missed, inner, age, faults>>

Before(t) == IF t = 0 THEN 0 ELSE t - 1
Leasing(p) == inner[p] = "running" \/ res[p] = "yes"

Tick ==
  /\ \A p \in Pod : pc[p] \notin Halted => timer[p] > 0
  /\ ttl' = Before(ttl)
  /\ owner' = IF ttl <= 1 THEN Nobody ELSE owner
  /\ timer' = [p \in Pod |-> Before(timer[p])]
  /\ age' = [p \in Pod |-> IF Leasing(p) THEN age[p] + 1 ELSE age[p]]
  /\ UNCHANGED <<pc, res, missed, inner, faults>>

Step(p) == \/ ExecuteAcquire(p) \/ ExecuteRenew(p) \/ ExecuteRelease(p)
           \/ Acquired(p) \/ NotAcquired(p) \/ Renewed(p) \/ RenewLost(p)
           \/ RenewError(p) \/ Released(p) \/ Exit(p) \/ WakeUp(p)

Next == \/ \E p \in Pod : Step(p) \/ TaskFails(p) \/ Crash(p) \/ Shutdown(p) \/ Restart(p)
        \/ Tick

Spec == Init /\ [][Next]_vars

\* Time passes, calls return, sleeps end, Kubernetes restarts a dead process.
Fairness == WF_vars(Tick) /\ \A p \in Pod : WF_vars(Step(p)) /\ WF_vars(Restart(p))
FairSpec == Spec /\ Fairness

-----------------------------------------------------------------------------
(* Properties                                                                *)

TypeOK ==
  /\ owner \in Pod \cup {Nobody, Gone}
  /\ ttl \in 0..TTL
  /\ pc \in [Pod -> Calling \cup Sleeping \cup Halted]
  /\ timer \in [Pod -> 0..MaxTimer]
  /\ res \in [Pod -> {"none", "yes", "no"}]
  /\ missed \in [Pod -> 0..(MaxMissed - 1)]
  /\ inner \in [Pod -> {"none", "running", "failed"}]
  /\ age \in [Pod -> Nat]
  /\ faults \in 0..MaxFaults

(* An engine whose last renewal did not fail holds the lock, so two of them   *)
(* never run at the same time (leader.py 179-183: "Run task_factory() only    *)
(* while this pod holds the leader lock").                                    *)
EngineHoldsLock == \A p \in Pod : inner[p] = "running" /\ missed[p] = 0 => owner = p

(* An engine whose lock was lost stops in time: within MaxMissed renewal      *)
(* rounds, however the calls fail (leader.py 194-216).                        *)
MaxStale == OpTimeout + MaxMissed * (RenewInterval + Lag + OpTimeout)
StopsInTime == \A p \in Pod : inner[p] = "running" => age[p] <= MaxStale

(* The misses are counted out before the lock expires ("Three misses (~30s)   *)
(* still expires inside the lock TTL", leader.py 33-35).                      *)
StopsInsideTTL == \A p \in Pod : inner[p] = "running" => age[p] <= TTL

(* Nobody takes or deletes a lock that another live pod holds: it changes     *)
(* hands by expiry, by its owner's release or when its owner dies             *)
(* (leader.py 42-59).                                                         *)
LockUndisturbed ==
  [][\A p \in Pod : owner = p /\ owner' # p =>
       ttl = 1 \/ pc[p] \in {"release", "quit"} \/ pc'[p] = "down"]_vars

(* The engine is never off for good: while faults are finite, some pod runs   *)
(* it again (leader.py 187-220), unless a task has failed by itself: its      *)
(* wrapper keeps the lock with no engine, and then ends (leader.py 193-213).  *)
TaskFailed == \E p \in Pod : inner[p] = "failed" \/ At(p, "dead")
EngineRunsAgain == []<>(TaskFailed \/ \E p \in Pod : inner[p] = "running")

(* To the task inside, the lock is its owner's while the owner's engine runs: *)
(* an engine starts only when no other one runs with the lock, whatever Redis *)
(* answers late, twice or never (leader.py 185-216).                          *)
RunningPods == {p \in Pod : inner[p] = "running"}
holderBar == IF owner \in RunningPods THEN owner ELSE Nobody
Lock == INSTANCE LeaderLock WITH holder <- holderBar, on <- RunningPods
ImplementsLeaderLock == Lock!Spec
=============================================================================
