------------------------- MODULE LeaderElectionProofs -------------------------
(***************************************************************************)
(* Proofs about LeaderElection for any number of pods, any timing and any    *)
(* number of faults.                                                         *)
(***************************************************************************)
EXTENDS LeaderElection, TLAPS

\* The steps of one pod, with its faults.
OfPod(q) == Step(q) \/ TaskFails(q) \/ Crash(q) \/ Shutdown(q) \/ Restart(q)

\* The key exists exactly while it has time to live.
KeyInv == owner = Nobody <=> ttl = 0

LEMMA TimesNat == /\ TTL \in Nat /\ TTL > 0 /\ RenewInterval \in Nat /\ RetryInterval \in Nat
                  /\ OpTimeout \in Nat /\ Lag \in Nat /\ MaxMissed \in Nat /\ MaxMissed > 0
                  /\ MaxFaults \in Nat /\ MaxTimer \in Nat /\ OpTimeout <= MaxTimer
                  /\ RenewInterval + Lag <= MaxTimer /\ RetryInterval + Lag <= MaxTimer
  BY TimesAssumption, FaultsAssumption DEF MaxTimer

LEMMA TypeInit == Init => TypeOK /\ KeyInv
  BY TimesNat DEF Init, TypeOK, KeyInv, Calling

\* What the two ways to end a step do to the pod's variables.
LEMMA CallType ==
  ASSUME TypeOK, NEW p \in Pod, NEW op \in Calling, Call(p, op)
  PROVE  /\ pc' \in [Pod -> Calling \cup Sleeping \cup Halted]
         /\ timer' \in [Pod -> 0..MaxTimer]
         /\ res' \in [Pod -> {"none", "yes", "no"}]
  BY TimesNat DEF TypeOK, Call

LEMMA SleepType ==
  ASSUME TypeOK, NEW p \in Pod, NEW w \in Sleeping \cup Halted, NEW d \in Nat,
         d + Lag <= MaxTimer, Sleep(p, w, d)
  PROVE  /\ pc' \in [Pod -> Calling \cup Sleeping \cup Halted]
         /\ timer' \in [Pod -> 0..MaxTimer]
         /\ res' \in [Pod -> {"none", "yes", "no"}]
  BY TimesNat DEF TypeOK, Sleep

LEMMA StepDownType ==
  ASSUME TypeOK, NEW p \in Pod, NEW op \in Calling, StepDown(p, op)
  PROVE  /\ pc' \in [Pod -> Calling \cup Sleeping \cup Halted]
         /\ timer' \in [Pod -> 0..MaxTimer]
         /\ res' \in [Pod -> {"none", "yes", "no"}]
         /\ missed' \in [Pod -> 0..(MaxMissed - 1)]
         /\ inner' \in [Pod -> {"none", "running", "failed"}]
         /\ age' \in [Pod -> Nat]
<1>1. Sleep(p, "dead", 0) \/ Call(p, op)
  BY DEF StepDown
<1>2. "dead" \in Sleeping \cup Halted /\ 0 + Lag <= MaxTimer
  BY TimesNat DEF Halted
<1> QED BY <1>1, <1>2, CallType, SleepType, TimesNat DEF StepDown, TypeOK

LEMMA TypeNext == TypeOK /\ KeyInv /\ [Next]_vars => (TypeOK /\ KeyInv)'
<1> SUFFICES ASSUME TypeOK, KeyInv, [Next]_vars PROVE (TypeOK /\ KeyInv)'
  OBVIOUS
<1> USE TimesNat
<1>0. /\ "acquire" \in Calling /\ "renew" \in Calling /\ "release" \in Calling
      /\ "quit" \in Calling /\ "lead" \in Sleeping \cup Halted /\ "rest" \in Sleeping \cup Halted
      /\ "down" \in Sleeping \cup Halted
  BY DEF Calling, Sleeping, Halted
<1>f. ASSUME Fault \/ UNCHANGED faults PROVE faults' \in 0..MaxFaults
  BY <1>f DEF Fault, TypeOK
<1>1. ASSUME NEW p \in Pod, ExecuteAcquire(p) \/ ExecuteRenew(p) PROVE (TypeOK /\ KeyInv)'
  BY <1>1, OwnersAssumption DEF ExecuteAcquire, ExecuteRenew, Grant, Answers, TypeOK, KeyInv
<1>2. ASSUME NEW p \in Pod, ExecuteRelease(p) PROVE (TypeOK /\ KeyInv)'
  BY <1>2 DEF ExecuteRelease, Answers, TypeOK, KeyInv
<1>3. ASSUME NEW p \in Pod, Acquired(p) PROVE (TypeOK /\ KeyInv)'
  BY <1>0, <1>3, CallType DEF Acquired, TypeOK, KeyInv
<1>4. ASSUME NEW p \in Pod, NotAcquired(p) PROVE (TypeOK /\ KeyInv)'
  BY <1>0, <1>4, <1>f, SleepType DEF NotAcquired, Raises, TypeOK, KeyInv
<1>5. ASSUME NEW p \in Pod, Renewed(p) PROVE (TypeOK /\ KeyInv)'
  BY <1>0, <1>5, SleepType DEF Renewed, TypeOK, KeyInv
<1>6. ASSUME NEW p \in Pod, RenewLost(p) PROVE (TypeOK /\ KeyInv)'
  BY <1>0, <1>6, StepDownType DEF RenewLost, TypeOK, KeyInv
<1>7. ASSUME NEW p \in Pod, RenewError(p) PROVE (TypeOK /\ KeyInv)'
  <2>1. CASE StepDown(p, "release")
    BY <1>0, <1>7, <1>f, <2>1, StepDownType DEF RenewError, Raises, TypeOK, KeyInv
  <2>2. CASE ~StepDown(p, "release")
    <3>1. /\ missed' = [missed EXCEPT ![p] = @ + 1] /\ missed[p] + 1 < MaxMissed
          /\ Sleep(p, "lead", RenewInterval) /\ UNCHANGED <<inner, age>>
      BY <1>7, <2>2 DEF RenewError
    <3>2. missed' \in [Pod -> 0..(MaxMissed - 1)]
      BY <3>1 DEF TypeOK
    <3> QED BY <1>0, <1>7, <1>f, <3>1, <3>2, SleepType DEF RenewError, Raises, TypeOK, KeyInv
  <2> QED BY <2>1, <2>2
<1>8. ASSUME NEW p \in Pod, Released(p) PROVE (TypeOK /\ KeyInv)'
  BY <1>0, <1>8, <1>f, SleepType DEF Released, Raises, TypeOK, KeyInv
<1>9. ASSUME NEW p \in Pod, WakeUp(p) PROVE (TypeOK /\ KeyInv)'
  <2>1. (IF At(p, "lead") THEN "renew" ELSE "acquire") \in Calling
    BY <1>0
  <2> QED BY <1>9, <2>1, CallType DEF WakeUp, TypeOK, KeyInv
<1>10. ASSUME NEW p \in Pod, TaskFails(p) PROVE (TypeOK /\ KeyInv)'
  BY <1>10, <1>f DEF TaskFails, TypeOK, KeyInv
<1>11. ASSUME NEW p \in Pod, Crash(p) \/ Exit(p) PROVE (TypeOK /\ KeyInv)'
  BY <1>11, <1>f, OwnersAssumption DEF Crash, Exit, Raises, Die, Halted, TypeOK, KeyInv
<1>12. ASSUME NEW p \in Pod, Restart(p) PROVE (TypeOK /\ KeyInv)'
  BY <1>0, <1>12, CallType DEF Restart, TypeOK, KeyInv
<1>13. CASE Tick
  BY <1>13, OwnersAssumption DEF Tick, Before, TypeOK, KeyInv
<1>14. ASSUME NEW p \in Pod, Shutdown(p) PROVE (TypeOK /\ KeyInv)'
  BY <1>0, <1>14, <1>f, StepDownType DEF Shutdown, TypeOK, KeyInv
<1>15. CASE UNCHANGED vars
  BY <1>15 DEF vars, TypeOK, KeyInv
<1> QED
  BY <1>1, <1>2, <1>3, <1>4, <1>5, <1>6, <1>7, <1>8, <1>9, <1>10, <1>11, <1>12, <1>13, <1>14,
     <1>15
  DEF Next, Step

(* The state of the election is always well typed.                            *)
THEOREM TypeCorrect == Spec => []TypeOK
  BY TypeInit, TypeNext, PTL DEF Spec

(* Nobody takes or deletes a live pod's lock (leader.py 42-59).                *)
THEOREM LockUndisturbedAlways == Spec => LockUndisturbed
<1>1. ASSUME TypeOK, KeyInv, Next, NEW p \in Pod, owner = p, owner' # p
      PROVE  ttl = 1 \/ pc[p] \in {"release", "quit"} \/ pc'[p] = "down"
  <2>1. CASE Tick
    BY <1>1, <2>1, TimesNat, OwnersAssumption DEF Tick, TypeOK, KeyInv
  <2>2. ASSUME NEW q \in Pod, Crash(q) \/ Exit(q) PROVE q = p /\ pc'[p] = "down"
    BY <1>1, <2>2 DEF Crash, Exit, Die, TypeOK
  <2>3. ASSUME NEW q \in Pod, Step(q), ~Exit(q) PROVE pc[p] \in {"release", "quit"}
    BY <1>1, <2>3, OwnersAssumption
    DEF Step, ExecuteAcquire, ExecuteRenew, ExecuteRelease, Executes, Grant, At, Acquired,
        NotAcquired, Renewed, RenewLost, RenewError, Released, WakeUp
  <2>4. ASSUME NEW q \in Pod, TaskFails(q) \/ Shutdown(q) \/ Restart(q) PROVE FALSE
    BY <1>1, <2>4 DEF TaskFails, Shutdown, Restart
  <2> QED BY <1>1, <2>1, <2>2, <2>3, <2>4 DEF Next
<1>2. TypeOK /\ KeyInv /\ [Next]_vars =>
        [\A p \in Pod : owner = p /\ owner' # p =>
           ttl = 1 \/ pc[p] \in {"release", "quit"} \/ pc'[p] = "down"]_vars
  BY <1>1
<1> QED BY <1>2, TypeInit, TypeNext, PTL DEF Spec, LockUndisturbed

-----------------------------------------------------------------------------
(* One engine runs among the pods that missed no renewal.  A pod between the *)
(* grant and the next renewal holds the lock, with enough time to live left for the call it *)
(* is waiting for and, asleep, for the sleep and the next call.               *)

Timely == 2 * OpTimeout + RenewInterval + Lag < TTL

Granted(p) == pc[p] \in {"acquire", "renew"} /\ res[p] = "yes"
LeaseOf(p) ==
  /\ pc[p] \in Calling => timer[p] <= OpTimeout
  /\ Granted(p) => owner = p /\ ttl + OpTimeout >= TTL + timer[p]
  /\ At(p, "renew") /\ missed[p] = 0 => owner = p /\ ttl > timer[p]
  /\ At(p, "lead") /\ missed[p] = 0 => owner = p /\ ttl > timer[p] + OpTimeout
  /\ inner[p] = "running" => pc[p] \in {"renew", "lead"}
LeaseInv == \A p \in Pod : LeaseOf(p)

LEMMA LeaseInit == Init => LeaseInv
<1>1. ASSUME Init, NEW p \in Pod
      PROVE  /\ pc[p] = "acquire" /\ timer[p] = OpTimeout
             /\ res[p] = "none" /\ inner[p] = "none"
  BY <1>1 DEF Init
<1>2. ASSUME NEW p \in Pod, pc[p] = "acquire", timer[p] = OpTimeout,
             res[p] = "none", inner[p] = "none"
      PROVE  LeaseOf(p)
  BY <1>2, TimesNat DEF LeaseOf, Granted, At
<1> QED BY <1>1, <1>2 DEF LeaseInv

\* A pod's step keeps the lease of another pod.
LEMMA LeaseOther ==
  ASSUME TypeOK, LeaseInv, NEW q \in Pod, OfPod(q), NEW p \in Pod, p # q
  PROVE  LeaseOf(p)'
<1>1. LeaseOf(p)
  BY DEF LeaseInv
<1>2. /\ pc'[p] = pc[p] /\ timer'[p] = timer[p] /\ res'[p] = res[p] /\ inner'[p] = inner[p]
      /\ missed'[p] = missed[p]
  BY DEF TypeOK, Step, ExecuteAcquire, ExecuteRenew, ExecuteRelease, Answers, Acquired,
     NotAcquired, Renewed, RenewLost, RenewError, Released, WakeUp, TaskFails, Crash, Exit, Die, Shutdown, Restart,
     OfPod, Call, Sleep, StepDown
<1>3. owner = p => owner' = owner /\ ttl' = ttl
  BY OwnersAssumption
  DEF TypeOK, Step, ExecuteAcquire, ExecuteRenew, ExecuteRelease, Grant, Acquired,
     NotAcquired, Renewed, RenewLost, RenewError, Released, WakeUp, TaskFails, Crash, Exit,
     Die, Shutdown, Restart, OfPod
<1> QED BY <1>1, <1>2, <1>3 DEF LeaseOf, Granted, At

LEMMA LeaseOwn ==
  ASSUME Timely, TypeOK, LeaseInv, NEW p \in Pod, Step(p)
  PROVE  LeaseOf(p)'
<1> USE TimesNat DEF Timely
<1>1. LeaseOf(p) /\ timer[p] \in Nat /\ timer[p] <= MaxTimer /\ ttl \in Nat
  BY DEF LeaseInv, TypeOK
<1>2. ASSUME NEW op, Call(p, op)
      PROVE  pc'[p] = op /\ timer'[p] = OpTimeout /\ res'[p] = "none"
  BY <1>2 DEF Call, TypeOK
<1>3. ASSUME NEW w, NEW d, Sleep(p, w, d)
      PROVE  pc'[p] = w /\ timer'[p] = d + Lag /\ res'[p] = "none"
  BY <1>3 DEF Sleep, TypeOK
<1>4. CASE ExecuteAcquire(p) \/ ExecuteRenew(p) \/ ExecuteRelease(p)
  BY <1>1, <1>4, OwnersAssumption
  DEF ExecuteAcquire, ExecuteRenew, ExecuteRelease, Executes, Grant, Answers, LeaseOf,
      Granted, At, TypeOK, Calling
<1>5. CASE Acquired(p)
  BY <1>1, <1>2, <1>5 DEF Acquired, LeaseOf, Granted, At, TypeOK, Calling
<1>6. CASE NotAcquired(p) \/ Released(p)
  <2>1. pc'[p] = "rest" /\ inner'[p] = inner[p] /\ pc[p] \in {"acquire", "release"}
    BY <1>1, <1>3, <1>6 DEF NotAcquired, Released, At
  <2> QED BY <1>1, <2>1 DEF LeaseOf, Granted, At, Calling
<1>7. CASE Renewed(p)
  <2>1. /\ owner = p /\ ttl + OpTimeout >= TTL + timer[p] /\ owner' = owner /\ ttl' = ttl
        /\ pc'[p] = "lead" /\ timer'[p] = RenewInterval + Lag
    BY <1>1, <1>3, <1>7 DEF Renewed, LeaseOf, Granted, At
  <2> QED BY <1>1, <2>1 DEF LeaseOf, Granted, At, Calling
<1>8. CASE RenewLost(p) \/ RenewError(p)
  BY <1>1, <1>2, <1>3, <1>8
  DEF RenewLost, RenewError, StepDown, LeaseOf, Granted, At, Calling, TypeOK
<1>9. CASE WakeUp(p)
  BY <1>1, <1>2, <1>9 DEF WakeUp, Sleeping, LeaseOf, Granted, At
<1>10. CASE Exit(p)
  BY <1>10 DEF Exit, Die, LeaseOf, Granted, At, TypeOK, Calling
<1> QED BY <1>4, <1>5, <1>6, <1>7, <1>8, <1>9, <1>10 DEF Step

LEMMA LeaseNext == Timely /\ TypeOK /\ LeaseInv /\ [Next]_vars => LeaseInv'
<1> SUFFICES ASSUME Timely, TypeOK, LeaseInv, [Next]_vars, NEW p \in Pod PROVE LeaseOf(p)'
  BY DEF LeaseInv
<1>0. LeaseOf(p) /\ timer[p] \in Nat /\ ttl \in Nat
  BY DEF LeaseInv, TypeOK
<1>1. ASSUME NEW q \in Pod, OfPod(q)
      PROVE  LeaseOf(p)'
  <2>1. CASE p # q
    BY <1>1, <2>1, LeaseOther
  <2>2. CASE p = q /\ Step(q)
    BY <2>2, LeaseOwn
  <2>3. CASE p = q /\ TaskFails(q)
    BY <1>0, <2>3 DEF TaskFails, LeaseOf, Granted, At, TypeOK
  <2>4. CASE p = q /\ Crash(q)
    BY <1>0, <2>4 DEF Crash, Die, LeaseOf, Granted, At, TypeOK, Calling
  <2>5. CASE p = q /\ Restart(q)
    BY <1>0, <2>5, TimesNat DEF Restart, Call, LeaseOf, Granted, At, TypeOK
  <2>6. CASE p = q /\ Shutdown(q)
    BY <1>0, <2>6, TimesNat DEF Shutdown, StepDown, Call, LeaseOf, Granted, At, Calling, TypeOK
  <2> QED BY <1>1, <2>1, <2>2, <2>3, <2>4, <2>5, <2>6 DEF OfPod
<1>2. CASE Tick
  <2>1. pc[p] \in Calling \cup {"lead"} => timer[p] > 0
    BY <1>2 DEF Tick, Halted, Calling
  <2>2. timer'[p] = Before(timer[p])
    BY <1>2 DEF Tick
  <2>3. pc'[p] = pc[p] /\ res'[p] = res[p] /\ inner'[p] = inner[p] /\ missed'[p] = missed[p]
    BY <1>2 DEF Tick
  <2>4. ttl > 1 => owner' = owner /\ ttl' = ttl - 1
    BY <1>0, <1>2 DEF Tick, Before
  <2>5. pc[p] \in Calling \cup {"lead"} => timer'[p] = timer[p] - 1
    BY <1>0, <2>1, <2>2 DEF Before
  <2>6. Granted(p) => ttl > 1
    BY <1>0, <2>1, TimesNat DEF Timely, Granted, LeaseOf, Calling
  <2>7. (At(p, "renew") \/ At(p, "lead")) /\ missed[p] = 0 => ttl > 1
    BY <1>0, <2>1, TimesNat DEF At, LeaseOf, Calling
  <2>8. timer'[p] \in Nat /\ timer'[p] <= timer[p]
    BY <1>0, <2>2 DEF Before
  <2> QED BY <1>0, <2>1, <2>3, <2>4, <2>5, <2>6, <2>7, <2>8, TimesNat
          DEF LeaseOf, Granted, At, Calling
<1>3. CASE UNCHANGED vars
  BY <1>0, <1>3 DEF vars, LeaseOf, Granted, At
<1> QED BY <1>1, <1>2, <1>3 DEF Next, OfPod

(* An engine that missed no renewal holds the lock, so two of them never run  *)
(* together, as long as the lock outlives a sleep and two calls: through      *)
(* failing calls, crashes, restarts and late wake-ups (leader.py 174-220).    *)
THEOREM EngineHoldsLockAlways == Timely => (Spec => []EngineHoldsLock)
<1>1. ASSUME Timely PROVE Spec => []EngineHoldsLock
  <2>1. TypeOK /\ LeaseInv /\ [Next]_vars => LeaseInv'
    BY <1>1, LeaseNext
  <2>2. LeaseInv => EngineHoldsLock
    BY DEF LeaseInv, LeaseOf, EngineHoldsLock, At
  <2> QED BY <2>1, <2>2, LeaseInit, TypeCorrect, PTL DEF Spec
<1> QED BY <1>1

-----------------------------------------------------------------------------
(* LeaderElection implements LeaderLock: a step of Redis or of the wrapper    *)
(* starts or stops one engine, takes the lock from a running one, or neither. *)

LEMMA LockStutter ==
  ASSUME RunningPods' = RunningPods, owner \in RunningPods \/ owner' \in RunningPods => owner' = owner
  PROVE  UNCHANGED Lock!lockVars
  BY DEF holderBar, Lock!lockVars

\* One engine ends; its lock may end with it, and no other one changes hands.
LEMMA LockStop ==
  ASSUME NEW p \in Pod, TypeOK, inner'[p] # "running",
         \A q \in Pod : q # p => inner'[q] = inner[q],
         owner' = owner \/ (owner = p /\ owner' \notin Pod)
  PROVE  [Lock!Next]_Lock!lockVars
<1>1. RunningPods' = RunningPods \ {p}
  BY DEF RunningPods
<1>2. RunningPods \subseteq Pod
  BY DEF RunningPods
<1>3. CASE p \in RunningPods
  <2>1. holderBar' = IF holderBar = p THEN Nobody ELSE holderBar
    BY <1>1, <1>2, <1>3, OwnersAssumption DEF holderBar
  <2> QED BY <1>1, <1>3, <2>1 DEF Lock!Next, Lock!Stop
<1>4. CASE p \notin RunningPods
  BY <1>1, <1>2, <1>4, LockStutter
<1> QED BY <1>3, <1>4

LEMMA LockNext ==
  ASSUME TypeOK, LeaseInv, [Next]_vars
  PROVE  [Lock!Next]_Lock!lockVars
<1>0. RunningPods \subseteq Pod /\ Nobody \notin RunningPods
  BY OwnersAssumption DEF RunningPods
<1>e. ASSUME NEW p \in Pod, pc[p] \notin {"renew", "lead"} PROVE p \notin RunningPods
  BY <1>e DEF RunningPods, LeaseInv, LeaseOf
<1>1. ASSUME NEW p \in Pod, ExecuteAcquire(p) \/ ExecuteRenew(p) \/ ExecuteRelease(p)
      PROVE  UNCHANGED Lock!lockVars
  <2>1. RunningPods' = RunningPods
    BY <1>1 DEF ExecuteAcquire, ExecuteRenew, ExecuteRelease, RunningPods
  <2>2. owner \in RunningPods \/ owner' \in RunningPods => owner' = owner
    BY <1>0, <1>1, <1>e
    DEF ExecuteAcquire, ExecuteRenew, ExecuteRelease, Executes, Grant, At
  <2> QED BY <2>1, <2>2, LockStutter
<1>2. ASSUME NEW p \in Pod, Acquired(p) PROVE Lock!Start(p)
  <2>1. /\ owner = p /\ owner' = owner /\ p \notin RunningPods
        /\ inner' = [inner EXCEPT ![p] = "running"]
    BY <1>2, <1>e DEF Acquired, At, LeaseInv, LeaseOf, Granted
  <2>2. RunningPods' = RunningPods \cup {p}
    BY <2>1 DEF RunningPods, TypeOK
  <2> QED BY <1>0, <2>1, <2>2 DEF Lock!Start, holderBar
<1>3. ASSUME NEW p \in Pod,
             \/ NotAcquired(p) \/ Renewed(p) \/ Released(p) \/ WakeUp(p) \/ Restart(p)
             \/ RenewError(p) /\ ~StepDown(p, "release")
      PROVE  UNCHANGED Lock!lockVars
  <2>1. owner' = owner /\ inner' = inner
    BY <1>3 DEF NotAcquired, Renewed, Released, WakeUp, Restart, RenewError
  <2> QED BY <2>1, LockStutter DEF RunningPods
<1>4. ASSUME NEW p \in Pod,
             \/ RenewLost(p) \/ Shutdown(p) \/ TaskFails(p)
             \/ RenewError(p) /\ StepDown(p, "release")
      PROVE  [Lock!Next]_Lock!lockVars
  <2>1. owner' = owner /\ (inner' = [inner EXCEPT ![p] = "none"]
                           \/ inner' = [inner EXCEPT ![p] = "failed"])
    BY <1>4 DEF RenewLost, Shutdown, TaskFails, RenewError, StepDown
  <2>2. inner'[p] # "running" /\ \A q \in Pod : q # p => inner'[q] = inner[q]
    BY <2>1 DEF TypeOK
  <2> QED BY <2>1, <2>2, LockStop
<1>5. ASSUME NEW p \in Pod, Crash(p) \/ Exit(p) PROVE [Lock!Next]_Lock!lockVars
  <2>1. /\ inner' = [inner EXCEPT ![p] = "none"]
        /\ owner' = IF owner = p THEN Gone ELSE owner
    BY <1>5 DEF Crash, Exit, Die
  <2>2. inner'[p] # "running" /\ \A q \in Pod : q # p => inner'[q] = inner[q]
    BY <2>1 DEF TypeOK
  <2>3. owner' = owner \/ (owner = p /\ owner' \notin Pod)
    BY <2>1, OwnersAssumption
  <2> QED BY <2>2, <2>3, LockStop
<1>6. CASE Tick
  <2>1. RunningPods' = RunningPods /\ (owner' = owner \/ owner' = Nobody)
    BY <1>6 DEF Tick, RunningPods
  <2>2. CASE owner \in RunningPods /\ owner' = Nobody
    BY <1>0, <2>1, <2>2 DEF holderBar, Lock!Next, Lock!Lose
  <2>3. CASE owner \notin RunningPods \/ owner' = owner
    BY <1>0, <2>1, <2>3, LockStutter
  <2> QED BY <2>1, <2>2, <2>3
<1>7. CASE UNCHANGED vars
  BY <1>7, LockStutter DEF vars, RunningPods
<1>8. ASSUME NEW p \in Pod, OfPod(p) PROVE [Lock!Next]_Lock!lockVars
  BY <1>1, <1>2, <1>3, <1>4, <1>5, <1>8 DEF OfPod, Step, Lock!Next
<1> QED BY <1>6, <1>7, <1>8 DEF Next, OfPod

(* Redis, the pods and the wrapper together implement LeaderLock, as long as  *)
(* the lock outlives a sleep and two calls: through failing calls, crashes,   *)
(* shutdowns, failing tasks and late wake-ups (leader.py 174-220).            *)
THEOREM ElectionImplementsLock == Timely => (Spec => ImplementsLeaderLock)
<1>1. ASSUME Timely PROVE Spec => ImplementsLeaderLock
  <2>1. Init => Lock!Init
    BY OwnersAssumption DEF Init, Lock!Init, holderBar, RunningPods
  <2>2. TypeOK /\ LeaseInv /\ [Next]_vars => [Lock!Next]_Lock!lockVars
    BY LockNext
  <2>3. TypeOK /\ LeaseInv /\ [Next]_vars => LeaseInv'
    BY <1>1, LeaseNext
  <2> QED BY <2>1, <2>2, <2>3, LeaseInit, TypeCorrect, PTL
          DEF Spec, ImplementsLeaderLock, Lock!Spec
<1> QED BY <1>1

-----------------------------------------------------------------------------
(* A leader that Redis no longer answers stops within MaxMissed rounds.  The  *)
(* measure: the age of the grant plus the time left of the call or sleep is   *)
(* at most the rounds that missed so far.                                     *)

Round == RenewInterval + Lag + OpTimeout
Rounds(m) == m * Round

StaleOf(p) ==
  /\ pc[p] \in Calling => timer[p] <= OpTimeout
  /\ Granted(p) => age[p] + timer[p] <= OpTimeout
  /\ At(p, "renew") => age[p] + timer[p] <= OpTimeout + Rounds(missed[p]) + Round
  /\ At(p, "lead") => age[p] + timer[p] <= OpTimeout + Rounds(missed[p]) + RenewInterval + Lag
  /\ pc[p] \in {"renew", "lead"} => missed[p] < MaxMissed
  /\ inner[p] = "running" => pc[p] \in {"renew", "lead"}
StaleInv == \A p \in Pod : StaleOf(p)

LEMMA RoundsFacts ==
  ASSUME NEW m \in Nat
  PROVE  /\ Round \in Nat /\ Rounds(m) \in Nat /\ Rounds(0) = 0
         /\ Rounds(m + 1) = Rounds(m) + Round
         /\ m < MaxMissed => Rounds(m) + Round <= Rounds(MaxMissed)
<1> DEFINE k == MaxMissed - (m + 1)
<1>1. Round \in Nat
  BY TimesNat DEF Round
<1>2. ASSUME NEW r \in Nat
      PROVE  /\ m * r \in Nat /\ 0 * r = 0 /\ (m + 1) * r = m * r + r
             /\ m < MaxMissed => m * r + r <= MaxMissed * r
  <2>1. m * r \in Nat /\ 0 * r = 0 /\ (m + 1) * r = m * r + r
    OBVIOUS
  <2>2. ASSUME m < MaxMissed PROVE m * r + r <= MaxMissed * r
    <3>1. k \in Nat /\ MaxMissed = k + (m + 1)
      BY <2>2, TimesNat
    <3>2. \A j \in Nat : (j + (m + 1)) * r = j * r + (m + 1) * r /\ j * r \in Nat
      OBVIOUS
    <3>3. MaxMissed * r = k * r + (m + 1) * r /\ k * r \in Nat
      BY <3>1, <3>2
    <3>4. m * r \in Nat /\ MaxMissed * r = k * r + (m * r + r)
      BY <2>1, <3>3
    <3> QED BY <3>3, <3>4
  <2> QED BY <2>1, <2>2
<1> QED BY <1>1, <1>2 DEF Rounds

\* A pod's step does not touch another pod's clock or call.
LEMMA StaleOther ==
  ASSUME TypeOK, StaleInv, NEW q \in Pod, OfPod(q), NEW p \in Pod, p # q
  PROVE  StaleOf(p)'
<1>1. StaleOf(p)
  BY DEF StaleInv
<1>2. /\ pc'[p] = pc[p] /\ timer'[p] = timer[p] /\ res'[p] = res[p] /\ inner'[p] = inner[p]
      /\ missed'[p] = missed[p] /\ age'[p] = age[p]
  BY DEF TypeOK, Step, ExecuteAcquire, ExecuteRenew, ExecuteRelease, Answers, Grant, Acquired,
     NotAcquired, Renewed, RenewLost, RenewError, Released, WakeUp, TaskFails, Crash, Exit, Die, Shutdown, Restart,
     OfPod, Call, Sleep, StepDown
<1> QED BY <1>1, <1>2 DEF StaleOf, Granted, At

LEMMA StaleOwn ==
  ASSUME TypeOK, StaleInv, NEW p \in Pod, Step(p)
  PROVE  StaleOf(p)'
<1> USE TimesNat
<1>1. /\ StaleOf(p) /\ timer[p] \in Nat /\ age[p] \in Nat /\ missed[p] \in Nat
      /\ missed \in [Pod -> 0..(MaxMissed - 1)] /\ age \in [Pod -> Nat]
  BY DEF StaleInv, TypeOK
<1>2. ASSUME NEW op, Call(p, op)
      PROVE  pc'[p] = op /\ timer'[p] = OpTimeout /\ res'[p] = "none"
  BY <1>2 DEF Call, TypeOK
<1>3. ASSUME NEW w, NEW d, Sleep(p, w, d)
      PROVE  pc'[p] = w /\ timer'[p] = d + Lag /\ res'[p] = "none"
  BY <1>3 DEF Sleep, TypeOK
<1>r. /\ Round = RenewInterval + Lag + OpTimeout /\ Round \in Nat
      /\ Rounds(missed[p]) \in Nat /\ Rounds(0) = 0
      /\ Rounds(missed[p] + 1) = Rounds(missed[p]) + Round
  BY <1>1, RoundsFacts DEF Round
<1>4. CASE ExecuteAcquire(p) \/ ExecuteRenew(p) \/ ExecuteRelease(p)
  <2>1. /\ pc' = pc /\ timer' = timer /\ missed' = missed /\ inner' = inner
        /\ age'[p] = age[p] \/ age'[p] = 0
        /\ res'[p] = "yes" => age'[p] = 0 \/ pc[p] \in {"release", "quit"}
        /\ pc[p] \in Calling
    BY <1>1, <1>4 DEF ExecuteAcquire, ExecuteRenew, ExecuteRelease, Executes, Grant, Answers,
       At, TypeOK, Calling
  <2> QED BY <1>1, <1>r, <2>1 DEF StaleOf, Granted, At, Calling
<1>5. CASE Acquired(p)
  <2>1. /\ pc'[p] = "renew" /\ timer'[p] = OpTimeout /\ res'[p] = "none"
        /\ missed'[p] = 0 /\ age'[p] = age[p] /\ age[p] <= OpTimeout
    BY <1>1, <1>2, <1>5 DEF Acquired, StaleOf, Granted, At
  <2> QED BY <1>1, <1>r, <2>1 DEF StaleOf, Granted, At, Calling
<1>6. CASE NotAcquired(p) \/ Released(p)
  <2>1. pc'[p] = "rest" /\ inner'[p] = inner[p] /\ pc[p] \in {"acquire", "release"}
    BY <1>1, <1>3, <1>6 DEF NotAcquired, Released, At
  <2> QED BY <1>1, <2>1 DEF StaleOf, Granted, At, Calling
<1>7. CASE Renewed(p)
  <2>1. /\ pc'[p] = "lead" /\ timer'[p] = RenewInterval + Lag /\ res'[p] = "none"
        /\ missed'[p] = 0 /\ age'[p] = age[p] /\ age[p] <= OpTimeout
    BY <1>1, <1>3, <1>7 DEF Renewed, StaleOf, Granted, At
  <2> QED BY <1>1, <1>r, <2>1 DEF StaleOf, Granted, At, Calling
<1>8. CASE RenewLost(p) \/ RenewError(p)
  <2>1. CASE StepDown(p, "release")
    <3>1. /\ pc'[p] \in {"dead", "release"} /\ inner'[p] = "none"
          /\ pc'[p] = "release" => timer'[p] = OpTimeout
      BY <1>1, <1>2, <1>3, <2>1 DEF StepDown, TypeOK
    <3> QED BY <3>1 DEF StaleOf, Granted, At, Calling
  <2>2. CASE ~StepDown(p, "release")
    <3>1. /\ missed'[p] = missed[p] + 1 /\ missed[p] + 1 < MaxMissed
          /\ pc'[p] = "lead" /\ timer'[p] = RenewInterval + Lag /\ res'[p] = "none"
          /\ age'[p] = age[p] /\ At(p, "renew")
      BY <1>1, <1>3, <1>8, <2>2 DEF RenewLost, RenewError
    <3> QED BY <1>1, <1>r, <3>1 DEF StaleOf, Granted, At, Calling
  <2> QED BY <2>1, <2>2
<1>9. CASE WakeUp(p)
  <2>1. /\ pc'[p] = (IF pc[p] = "lead" THEN "renew" ELSE "acquire")
        /\ timer'[p] = OpTimeout /\ res'[p] = "none" /\ missed'[p] = missed[p]
        /\ age'[p] = age[p] /\ inner'[p] = inner[p] /\ pc[p] \in {"lead", "rest"}
    BY <1>2, <1>9 DEF WakeUp, Sleeping, At
  <2> QED BY <1>1, <1>r, <2>1 DEF StaleOf, Granted, At, Calling
<1>10. CASE Exit(p)
  BY <1>10 DEF Exit, Die, StaleOf, Granted, At, TypeOK, Calling
<1> QED BY <1>4, <1>5, <1>6, <1>7, <1>8, <1>9, <1>10 DEF Step

LEMMA StaleNext == TypeOK /\ StaleInv /\ [Next]_vars => StaleInv'
<1> SUFFICES ASSUME TypeOK, StaleInv, [Next]_vars, NEW p \in Pod PROVE StaleOf(p)'
  BY DEF StaleInv
<1>0. StaleOf(p) /\ timer[p] \in Nat /\ age[p] \in Nat /\ missed[p] \in Nat
  BY DEF StaleInv, TypeOK
<1>1. ASSUME NEW q \in Pod, OfPod(q)
      PROVE  StaleOf(p)'
  <2>1. CASE p # q
    BY <1>1, <2>1, StaleOther
  <2>2. CASE p = q /\ Step(q)
    BY <2>2, StaleOwn
  <2>3. CASE p = q /\ TaskFails(q)
    BY <1>0, <2>3 DEF TaskFails, StaleOf, Granted, At, TypeOK
  <2>4. CASE p = q /\ Crash(q)
    BY <1>0, <2>4 DEF Crash, Die, StaleOf, Granted, At, TypeOK, Calling
  <2>5. CASE p = q /\ Restart(q)
    BY <1>0, <2>5, TimesNat DEF Restart, Call, StaleOf, Granted, At, TypeOK
  <2>6. CASE p = q /\ Shutdown(q)
    BY <1>0, <2>6, TimesNat DEF Shutdown, StepDown, Call, StaleOf, Granted, At, Calling, TypeOK
  <2> QED BY <1>1, <2>1, <2>2, <2>3, <2>4, <2>5, <2>6 DEF OfPod
<1>2. CASE Tick
  <2>1. pc[p] \in Calling \cup {"lead"} => timer[p] > 0
    BY <1>2 DEF Tick, Halted, Calling
  <2>2. /\ timer'[p] = Before(timer[p]) /\ pc'[p] = pc[p] /\ res'[p] = res[p]
        /\ inner'[p] = inner[p] /\ missed'[p] = missed[p]
        /\ age'[p] = age[p] \/ age'[p] = age[p] + 1
    BY <1>2 DEF Tick
  <2>3. pc[p] \in Calling \cup {"lead"} => timer'[p] = timer[p] - 1
    BY <1>0, <2>1, <2>2 DEF Before
  <2>4. Rounds(missed[p]) \in Nat /\ Round \in Nat
    BY <1>0, RoundsFacts
  <2> QED BY <1>0, <2>1, <2>2, <2>3, <2>4, TimesNat DEF StaleOf, Granted, At, Calling
<1>3. CASE UNCHANGED vars
  BY <1>0, <1>3 DEF vars, StaleOf, Granted, At
<1> QED BY <1>1, <1>2, <1>3 DEF Next, OfPod

(* An engine without its lock stops within MaxMissed rounds of a renewal and  *)
(* a sleep, however the calls fail (leader.py 194-216).                       *)
THEOREM StopsInTimeAlways == Spec => []StopsInTime
<1>1. Init => StaleInv
  <2>1. ASSUME Init, NEW p \in Pod
        PROVE  /\ pc[p] = "acquire" /\ timer[p] = OpTimeout
               /\ res[p] = "none" /\ inner[p] = "none"
    BY <2>1 DEF Init
  <2>2. ASSUME NEW p \in Pod, pc[p] = "acquire", timer[p] = OpTimeout,
               res[p] = "none", inner[p] = "none"
        PROVE  StaleOf(p)
    BY <2>2, TimesNat DEF StaleOf, Granted, At
  <2> QED BY <2>1, <2>2 DEF StaleInv
<1>2. TypeOK /\ StaleInv => StopsInTime
  <2> SUFFICES ASSUME TypeOK, StaleInv, NEW p \in Pod, inner[p] = "running"
               PROVE  age[p] <= MaxStale
    BY DEF StopsInTime
  <2>1. /\ StaleOf(p) /\ age[p] \in Nat /\ timer[p] \in Nat /\ missed[p] \in Nat
        /\ missed[p] < MaxMissed
        /\ At(p, "renew") \/ At(p, "lead")
    BY DEF StaleInv, StaleOf, TypeOK, At
  <2>2. /\ Rounds(missed[p]) + Round <= Rounds(MaxMissed) /\ Rounds(missed[p]) \in Nat
        /\ Rounds(MaxMissed) \in Nat /\ Round \in Nat
    <3>1. MaxMissed \in Nat
      BY TimesNat
    <3>2. Rounds(MaxMissed) \in Nat
      BY <3>1, RoundsFacts
    <3>3. ASSUME NEW m \in Nat, m < MaxMissed
          PROVE  Rounds(m) + Round <= Rounds(MaxMissed) /\ Rounds(m) \in Nat /\ Round \in Nat
      BY <3>3, RoundsFacts
    <3> QED BY <2>1, <3>2, <3>3
  <2>3. age[p] <= OpTimeout + Rounds(missed[p]) + Round
    BY <2>1, <2>2, TimesNat DEF StaleOf, Round
  <2>4. MaxStale = OpTimeout + Rounds(MaxMissed)
    BY DEF MaxStale, Rounds, Round
  <2> QED BY <2>1, <2>2, <2>3, <2>4, TimesNat
<1> QED BY <1>1, <1>2, StaleNext, TypeCorrect, PTL DEF Spec
=============================================================================
