------------------------------ MODULE AlertEngine ------------------------------
(***************************************************************************)
(* The alert engine (backend/app/alerting/engine.py) with its two state      *)
(* trackers: the file (alerting/state.py: a memory copy that every change    *)
(* saves whole) and Redis (alerting/redis_store.py).                         *)
(*                                                                          *)
(* A cycle fetches every metric first, then takes the rules in turn.  The    *)
(* steps between two awaits are one action, so the loss of leadership, a     *)
(* crash or another pod's engine comes between any two of them.  Time only   *)
(* ages a breach, up to the rule's duration.                                 *)
(***************************************************************************)
EXTENDS Naturals

CONSTANTS
  Pod,          \* backend processes
  Nobody,       \* no pod holds the leader lock
  NumRules,     \* enabled rules, evaluated in this order
  Duration,     \* duration_seconds of a rule, in ticks
  UseRedis,     \* ALERT_STATE_USE_REDIS
  LeaderLock,   \* ALERT_ENGINE_LEADER_LOCK
  Autonomous,   \* rules have an enabled autonomous action
  FetchFails, StoreFails, Crashes, LosesLock,   \* the faults of an instance
  MaxFaults,    \* bound: faults of all kinds
  MaxFlips      \* bound: changes of the metrics

Rule == 1..NumRules

ASSUME RulesAssumption == NumRules \in Nat \ {0} /\ Duration \in Nat
ASSUME OwnerAssumption == Nobody \notin Pod
ASSUME FlagsAssumption ==
  /\ UseRedis \in BOOLEAN /\ LeaderLock \in BOOLEAN /\ Autonomous \in BOOLEAN
  /\ FetchFails \in BOOLEAN /\ StoreFails \in BOOLEAN
  /\ Crashes \in BOOLEAN /\ LosesLock \in BOOLEAN
  /\ MaxFaults \in Nat /\ MaxFlips \in Nat

VARIABLES
  metric,    \* the metric of the rule is beyond its threshold
  disk,      \* the stored state of each rule: the file, or Redis
  mem,       \* the file tracker's copy on each pod
  torn,      \* the files that a save left cut: they are no JSON
  pc, rule,  \* where the engine task stands, and the rule it evaluates
  sample,    \* what its cycle fetched
  job,       \* the status it is about to store and announce
  owner,     \* pod with the leader lock
  told,      \* history: announced in this unbroken series of breached samples
  last,      \* history: the last notification sent for a rule
  faults,    \* failed fetches, and all other faults, so far
  flips

engine == <<pc, rule, sample, job>>
store == <<disk, mem, torn>>
history == <<told, last>>
vars == <<metric, store, engine, owner, history, faults, flips>>

Entry == [status : {"none", "pending", "firing", "resolved"}, age : 0..Duration]
NoEntry == [status |-> "none", age |-> 0]
NoSample == [r \in Rule |-> "none"]

Inside == {"eval", "store", "record", "fence", "send", "tell", "remediate"}

Init ==
  /\ metric = [r \in Rule |-> FALSE]
  /\ disk = [r \in Rule |-> NoEntry]
  /\ mem = [p \in Pod |-> disk]
  /\ torn = {}
  /\ pc = [p \in Pod |-> IF LeaderLock THEN "off" ELSE "idle"]
  /\ rule = [p \in Pod |-> 1]
  /\ sample = [p \in Pod |-> NoSample]
  /\ job = [p \in Pod |-> "none"]
  /\ owner = Nobody
  /\ told = [r \in Rule |-> FALSE]
  /\ last = [r \in Rule |-> "none"]
  /\ faults = [fetch |-> 0, harm |-> 0] /\ flips = 0

-----------------------------------------------------------------------------
At(p, where) == pc[p] = where
Goto(p, where) == pc' = [pc EXCEPT ![p] = where]
Fault(enabled, kind) == /\ enabled /\ faults.fetch + faults.harm < MaxFaults
                        /\ faults' = [faults EXCEPT ![kind] = @ + 1]

\* The engine task waits for its next cycle, or does not exist.
Rest(p, where) == /\ Goto(p, where)
                  /\ rule' = [rule EXCEPT ![p] = 1]
                  /\ sample' = [sample EXCEPT ![p] = NoSample]
                  /\ job' = [job EXCEPT ![p] = "none"]

\* A plausible slip: the end of the rules is passed.
AdvancePast(p) ==
  IF rule[p] > NumRules THEN Rest(p, "idle")
  ELSE /\ Goto(p, "eval")
       /\ rule' = [rule EXCEPT ![p] = @ + 1]
       /\ job' = [job EXCEPT ![p] = "none"]
       /\ UNCHANGED sample

\* The rule is done; an exception of a tracker or the history ends the cycle.
Advance(p) ==
  IF rule[p] = NumRules THEN Rest(p, "idle")
  ELSE /\ Goto(p, "eval")
       /\ rule' = [rule EXCEPT ![p] = @ + 1]
       /\ job' = [job EXCEPT ![p] = "none"]
       /\ UNCHANGED sample
Abort(p) == Rest(p, "idle")

Stored(p) == IF UseRedis THEN disk[rule[p]] ELSE mem[p][rule[p]]

\* The tracker stores e for the rule.  The file tracker changes its memory
\* first, and then saves all of it over the file.
Put(p, e) ==
  IF UseRedis THEN disk' = [disk EXCEPT ![rule[p]] = e] /\ UNCHANGED <<mem, torn>>
  ELSE /\ mem' = [mem EXCEPT ![p][rule[p]] = e]
       /\ disk' = mem'[p]
       /\ torn' = torn \ {"state"}

\* A save that does not end leaves the file as it was, or cut.
Cut(f) == torn' \in {torn, torn \cup {f}}

\* The tracker raises: Redis did, before or after the write, or the save.
PutRaises(p, e) ==
  IF UseRedis THEN /\ disk' \in {disk, [disk EXCEPT ![rule[p]] = e]}
                   /\ UNCHANGED <<mem, torn>>
  ELSE /\ mem' = [mem EXCEPT ![p][rule[p]] = e]
       /\ Cut("state") /\ UNCHANGED disk

-----------------------------------------------------------------------------
(* A cycle: _check_all, _fire, _resolve, _notify                             *)

Observed(failed, r) == IF r \in failed THEN "failed"
                       ELSE IF metric[r] THEN "breached" ELSE "clear"

Fetch(p) ==
  /\ At(p, "idle")
  /\ \E failed \in SUBSET Rule :
       /\ IF failed = {} THEN UNCHANGED faults ELSE Fault(FetchFails, "fetch")
       /\ sample' = [sample EXCEPT ![p] = [r \in Rule |-> Observed(failed, r)]]
       /\ told' = [r \in Rule |-> told[r] /\ Observed(failed, r) # "clear"]
  /\ Goto(p, "eval")
  /\ UNCHANGED <<metric, store, rule, job, owner, last, flips>>

Evaluates(p, o) == At(p, "eval") /\ sample[p][rule[p]] = o

\* A failed fetch skips the rule for this cycle.
Skip(p) ==
  /\ Evaluates(p, "failed")
  /\ Advance(p)
  /\ UNCHANGED <<metric, store, owner, history, faults, flips>>

\* Plausible slips: the file tracker writes "pending" too; Redis keeps the
\* status, too.
BreachedPending(e) == [e EXCEPT !.status = "pending"]
BreachedKept(e) == IF e.status = "none" THEN [e EXCEPT !.status = "pending"] ELSE e

\* The entry after set_breached: the file tracker keeps the status, Redis
\* writes "pending"; neither moves first_breached_at.
Breached(e) == IF e.status = "none" \/ UseRedis THEN [e EXCEPT !.status = "pending"] ELSE e

CheckBreached(p) ==
  /\ Evaluates(p, "breached")
  /\ LET e == Breached(Stored(p)) IN
     \/ /\ Put(p, e)
        /\ IF e.status # "firing" /\ e.age >= Duration
           THEN /\ Goto(p, "store") /\ job' = [job EXCEPT ![p] = "firing"]
                /\ UNCHANGED <<rule, sample>>
           ELSE Advance(p)
        /\ UNCHANGED faults
     \/ PutRaises(p, e) /\ Fault(StoreFails, "harm") /\ Abort(p)
  /\ UNCHANGED <<metric, owner, history, flips>>

\* Plausible slips: a rule that is clear is passed over; a pending one resolves.
CheckClearNever(p) ==
  /\ Evaluates(p, "clear")
  /\ Advance(p)
  /\ UNCHANGED <<metric, store, owner, history, faults, flips>>

ResolvesPending(e) == e.status \in {"pending", "firing"}
Resolves(e) == e.status = "firing"

\* The Redis tracker's get answers None for an error.
CheckClear(p) ==
  /\ Evaluates(p, "clear")
  /\ \/ /\ IF Resolves(Stored(p))
           THEN /\ Goto(p, "store") /\ job' = [job EXCEPT ![p] = "resolved"]
                /\ UNCHANGED <<rule, sample>>
           ELSE Advance(p)
        /\ UNCHANGED faults
     \/ UseRedis /\ Fault(StoreFails, "harm") /\ Advance(p)
  /\ UNCHANGED <<metric, store, owner, history, flips>>

\* set_firing, set_resolved.
SetStatus(p) ==
  /\ At(p, "store")
  /\ LET e == [Stored(p) EXCEPT !.status = job[p]] IN
     \/ Put(p, e) /\ Goto(p, "record") /\ UNCHANGED <<rule, sample, job, faults>>
     \/ PutRaises(p, e) /\ Fault(StoreFails, "harm") /\ Abort(p)
  /\ UNCHANGED <<metric, owner, history, flips>>

\* history.add: the file history raises, the Redis history swallows.
Record(p) ==
  /\ At(p, "record")
  /\ \/ /\ Goto(p, "fence") /\ torn' = torn \ {"history"}
        /\ UNCHANGED <<rule, sample, job, faults>>
     \/ ~UseRedis /\ Fault(StoreFails, "harm") /\ Cut("history") /\ Abort(p)
  /\ UNCHANGED <<metric, disk, mem, owner, history, flips>>

\* is_mine answers False for an error.
Fence(p) ==
  /\ At(p, "fence")
  /\ \/ /\ ~LeaderLock \/ owner = p
        /\ Goto(p, "send") /\ UNCHANGED faults
     \/ /\ LeaderLock
        /\ (owner # p /\ UNCHANGED faults) \/ Fault(StoreFails, "harm")
        /\ Goto(p, "tell")
  /\ UNCHANGED <<metric, store, rule, sample, job, owner, history, flips>>

\* Slack, e-mail, webhook: they never raise, and never try again.
Send(p) ==
  /\ At(p, "send")
  /\ last' = [last EXCEPT ![rule[p]] = job[p]]
  /\ told' = IF job[p] = "firing" THEN [told EXCEPT ![rule[p]] = TRUE] ELSE told
  /\ Goto(p, "tell")
  /\ UNCHANGED <<metric, store, rule, sample, job, owner, faults, flips>>

\* The WebSocket broadcast, whatever the fence answered.
Tell(p) ==
  /\ At(p, "tell")
  /\ IF job[p] = "firing" /\ Autonomous
     THEN Goto(p, "remediate") /\ UNCHANGED <<rule, sample, job>>
     ELSE Advance(p)
  /\ UNCHANGED <<metric, store, owner, history, faults, flips>>

\* _trigger_autonomous_remediation: every exception is caught.
Remediate(p) ==
  /\ At(p, "remediate")
  /\ Advance(p)
  /\ UNCHANGED <<metric, store, owner, history, faults, flips>>

-----------------------------------------------------------------------------
(* The pod, the leader lock, the world                                       *)

\* run_as_leader starts the engine with the lock and cancels it at some await
\* after the lock was lost.
TakeOver(p) ==
  /\ LeaderLock /\ owner = Nobody /\ At(p, "off")
  /\ owner' = p /\ Goto(p, "idle")
  /\ UNCHANGED <<metric, store, rule, sample, job, history, faults, flips>>

StandDown(p) ==
  /\ LeaderLock /\ owner # p /\ pc[p] \in Inside \cup {"idle"}
  /\ Rest(p, "off")
  /\ UNCHANGED <<metric, store, owner, history, faults, flips>>

LoseLock ==
  /\ owner # Nobody /\ Fault(LosesLock, "harm")
  /\ owner' = Nobody
  /\ UNCHANGED <<metric, store, engine, history, flips>>

\* The file a pod is saving when it dies.
Saving(p) == IF UseRedis THEN {}
             ELSE IF pc[p] \in {"eval", "store"} THEN {"state"}
             ELSE IF At(p, "record") THEN {"history"} ELSE {}

Crash(p) ==
  /\ ~At(p, "down") /\ Fault(Crashes, "harm")
  /\ Rest(p, "down")
  /\ torn' \in {torn, torn \cup Saving(p)}
  /\ owner' = IF owner = p THEN Nobody ELSE owner
  /\ UNCHANGED <<metric, disk, mem, history, flips>>

\* The file tracker and its history load their files once, when the process
\* starts; the start fails on a file that is no JSON.
Restart(p) ==
  /\ At(p, "down") /\ torn = {}
  /\ Goto(p, IF LeaderLock THEN "off" ELSE "idle")
  /\ mem' = IF UseRedis THEN mem ELSE [mem EXCEPT ![p] = disk]
  /\ UNCHANGED <<metric, disk, torn, rule, sample, job, owner, history, faults, flips>>

Flip(r) ==
  /\ flips < MaxFlips
  /\ metric' = [metric EXCEPT ![r] = ~@]
  /\ flips' = flips + 1
  /\ UNCHANGED <<store, engine, owner, history, faults>>

Older(e) == IF e.status # "none" /\ e.age < Duration THEN [e EXCEPT !.age = @ + 1] ELSE e
Tick ==
  /\ disk' = [r \in Rule |-> Older(disk[r])]
  /\ mem' = [p \in Pod |-> [r \in Rule |-> Older(mem[p][r])]]
  /\ UNCHANGED <<metric, torn, engine, owner, history, faults, flips>>

Engine(p) == \/ Fetch(p) \/ Skip(p) \/ CheckBreached(p) \/ CheckClear(p) \/ SetStatus(p)
             \/ Record(p) \/ Fence(p) \/ Send(p) \/ Tell(p) \/ Remediate(p)

Next == \/ \E p \in Pod : Engine(p) \/ TakeOver(p) \/ StandDown(p) \/ Crash(p) \/ Restart(p)
        \/ \E r \in Rule : Flip(r)
        \/ LoseLock \/ Tick

Spec == Init /\ [][Next]_vars

\* The event loop runs the engine and the wrapper; time passes.
Fairness == /\ WF_vars(Tick)
            /\ \A p \in Pod : WF_vars(Engine(p)) /\ WF_vars(TakeOver(p))
                              /\ WF_vars(StandDown(p)) /\ WF_vars(Restart(p))
FairSpec == Spec /\ Fairness

-----------------------------------------------------------------------------
(* Properties                                                                *)

TypeOK ==
  /\ metric \in [Rule -> BOOLEAN]
  /\ disk \in [Rule -> Entry] /\ mem \in [Pod -> [Rule -> Entry]]
  /\ torn \subseteq {"state", "history"}
  /\ pc \in [Pod -> Inside \cup {"off", "idle", "down"}]
  /\ rule \in [Pod -> Rule]
  /\ sample \in [Pod -> [Rule -> {"none", "failed", "breached", "clear"}]]
  /\ job \in [Pod -> {"none", "firing", "resolved"}]
  /\ owner \in Pod \cup {Nobody}
  /\ told \in [Rule -> BOOLEAN]
  /\ last \in [Rule -> {"none", "firing", "resolved"}]
  /\ faults \in [fetch : 0..MaxFaults, harm : 0..MaxFaults] /\ flips \in 0..MaxFlips

(* A breach is announced once: while the fetched samples of a rule stay       *)
(* breached, its firing notification goes out at most once (engine.py         *)
(* 149-157).                                                                  *)
FiresOncePerBreach ==
  [][\A p \in Pod : Send(p) /\ job[p] = "firing" => ~told[rule[p]]]_vars

(* While the store works and no pod dies, a resolution is announced only      *)
(* after the firing was (engine.py 158-162): failed fetches do no harm.       *)
Unharmed == faults.harm = 0
ResolvesWhatFired ==
  [][\A p \in Pod : Send(p) /\ job[p] = "resolved" /\ Unharmed
       => last[rule[p]] = "firing"]_vars

(* A breach that lasts is announced in the end (engine.py 149-157).            *)
BreachAnnounced == \A r \in Rule : <>[]metric[r] => <>[](last[r] = "firing")

(* While the store works and no pod dies, a breach that is over is announced  *)
(* as resolved (engine.py 158-162).                                           *)
ResolutionAnnounced ==
  []Unharmed => \A r \in Rule : <>[]~metric[r] => <>[](last[r] # "firing")

(* Under the leader lock the engine takes no more from leader election than   *)
(* LeaderLock promises (engine.py 391-396, leader.py 174-220).                *)
Leading == {p \in Pod : pc[p] \notin {"off", "down"}}
Lock == INSTANCE LeaderLock WITH holder <- owner, on <- Leading
AssumesLeaderLock == Lock!Spec
=============================================================================
