------------------------ MODULE ActionLifecycleProofs ------------------------
(***************************************************************************)
(* Proofs about ActionLifecycle for any number of actions, requests, users, *)
(* faults and runs.  LockInv and TypeOK hold for any number of pods; the    *)
(* promises of ApprovedExecution need a single one, because the lock that   *)
(* they rest on is a lock of the process.                                   *)
(***************************************************************************)
EXTENDS ActionLifecycle, TLAPS

\* A coroutine past the acquisition holds the lock of its action on its pod.
Inside(r) == ~At(r, "idle") /\ ~At(r, "wait")
LockInv == \A r \in Request : Inside(r) => lock[req[r].pod][req[r].action] = r

\* What a coroutine knows of the stored status while nobody else can change it.
KnowsStatus(r) ==
  LET s == tracker[req[r].action].status IN
  /\ At(r, "decide") => s = "pending" /\ req[r].kind # "execute"
  /\ At(r, "run") => s = "approved"
  /\ At(r, "persist") => s = "approved"
  /\ At(r, "bookkeep") => s = Outcome(r)
  /\ At(r, "recover") \/ At(r, "fail") => s \in {"approved", "executed", "failed"}

\* The flag `ran` is up exactly while an outcome is on its way to the store.
RanInv(r) ==
  /\ req[r].ran => /\ req[r].pc \in {"persist", "recover", "fail"}
                   /\ tracker[req[r].action].status = "approved"
                   /\ ~req[r].dry
  /\ At(r, "persist") => req[r].ran = ~req[r].dry
  /\ At(r, "bookkeep") => ~req[r].ran

KnowledgeInv == \A r \in Request : ~At(r, "idle") => KnowsStatus(r) /\ RanInv(r)

\* Runs are paid for: by a loss, by a coroutine that carries the outcome, or
\* by the one outcome that is stored.
RunsInv ==
  \A a \in Action :
    /\ runs[a] <= 1 + lost[a]
    /\ tracker[a].status \in {"absent", "pending", "approved", "rejected"} /\ ~Running(a)
         => runs[a] <= lost[a]

IInv == TypeOK /\ LockInv /\ KnowledgeInv /\ RunsInv

-----------------------------------------------------------------------------
(* A creation writes a well-typed entry, pending or approved, at one absent  *)
(* action and touches nothing else.                                          *)
LEMMA CreatedEntry ==
  ASSUME TypeOK, NEW a \in Action, NEW c \in User \cup Action \cup {NoOne},
         tracker' \in Created(tracker, a, c)
  PROVE  /\ tracker' \in [Action -> Entry]
         /\ tracker'[a].status \in {"pending", "approved"}
         /\ tracker'[a].createdBy = c
         /\ \A b \in Action : b # a => tracker'[b] = tracker[b]
<1>1. PICK pol \in Verdicts, per \in BOOLEAN, hi \in BOOLEAN :
        tracker' = [tracker EXCEPT ![a] = BornEntry(c, pol, per, hi)]
  BY DEF Created
<1>2. BornEntry(c, pol, per, hi) \in Entry
  BY VerdictsAssumption DEF BornEntry, Entry, Status
<1> QED BY <1>1, <1>2 DEF TypeOK, BornEntry

(* Only a request in flight takes steps.                                     *)
LEMMA StepBusy ==
  ASSUME NEW r \in Request, Acquire(r) \/ Step(r) PROVE ~At(r, "idle")
<1> USE DEF At
<1>1. CASE Acquire(r) BY <1>1 DEF Acquire
<1>2. CASE Refuse(r) BY <1>2 DEF Refuse
<1>3. CASE AdmitDecision(r) \/ AdmitExecution(r)
  BY <1>3 DEF AdmitDecision, AdmitExecution
<1>4. CASE Decide(r) BY <1>4 DEF Decide, RaisesBefore
<1>5. CASE RunCommand(r) \/ DryRun(r) \/ ExecutorRaises(r)
  BY <1>5 DEF RunCommand, DryRun, ExecutorRaises
<1>6. CASE PersistOutcome(r) \/ PersistRaises(r) BY <1>6 DEF PersistOutcome, PersistRaises
<1>7. CASE Bookkeep(r) BY <1>7 DEF Bookkeep
<1>8. CASE RecoverKeeps(r) \/ RecoverFails(r) BY <1>8 DEF RecoverKeeps, RecoverFails
<1>9. CASE MarkFailed(r) \/ MarkFailedRaises(r) BY <1>9 DEF MarkFailed, MarkFailedRaises
<1> QED BY <1>1, <1>2, <1>3, <1>4, <1>5, <1>6, <1>7, <1>8, <1>9 DEF Step

(* A write of the store leaves a file of entries behind.                      *)
LEMMA FileWritten ==
  ASSUME TypeOK, tracker' \in [Action -> Entry],
         Saved \/ RaisesAfter \/ UNCHANGED file
  PROVE  file' \in [Action -> Entry]
<1>1. Empty \in [Action -> Entry]
  BY DEF Empty, NoEntry, Entry, Status, Policy
<1> QED BY <1>1 DEF Saved, RaisesAfter, TypeOK

(* Every step of the program keeps the state well typed, on any number of    *)
(* pods.                                                                     *)
LEMMA TypeInit == Init => TypeOK
  BY FlagsAssumption, BoundsAssumption
  DEF Init, Empty, TypeOK, NoEntry, Entry, Status, Policy

LEMMA TypeNext == TypeOK /\ [Next]_vars => TypeOK'
<1> SUFFICES ASSUME TypeOK, [Next]_vars PROVE TypeOK'
  OBVIOUS
<1> USE BoundsAssumption
<1>1. ASSUME NEW a \in Action, NEW u \in User, CreateAction(a, u) \/ CreateBulkAction(a)
      PROVE  TypeOK'
  <2>1. tracker' \in [Action -> Entry]
    BY <1>1, CreatedEntry DEF CreateAction, CreateBulkAction
  <2>2. file' \in [Action -> Entry]
    BY <1>1, <2>1, FileWritten DEF CreateAction, CreateBulkAction
  <2> QED BY <1>1, <2>1, <2>2
      DEF CreateAction, CreateBulkAction, RaisesAfter, Fault, TypeOK
<1>2. ASSUME NEW r \in Request, NEW p \in Pod, NEW k \in Kind, NEW a \in Action,
             NEW u \in User \cup {NoOne}, NEW d \in BOOLEAN, Arrive(r, p, k, a, u, d)
      PROVE  TypeOK'
  BY <1>2 DEF Arrive, TypeOK, Coroutine
<1>3. ASSUME NEW r \in Request, Acquire(r) \/ Step(r)
      PROVE  TypeOK'
  <2>1. req[r] \in Coroutine
    BY <1>3, StepBusy DEF TypeOK, Idle, At
  <2>2. req[r].action \in Action /\ req[r].pod \in Pod
        /\ req[r].user \in User \cup {NoOne}
    BY <2>1 DEF Coroutine
  <2>3. ASSUME Finish(r)
        PROVE  /\ lock' \in [Pod -> [Action -> Request \cup {NoRequest}]]
               /\ req' \in [Request -> Coroutine \cup {Idle}]
    BY <2>2, <2>3 DEF Finish, TypeOK
  <2>4. ASSUME NEW pc \in {"wait", "read", "decide", "run", "persist", "bookkeep",
                           "recover", "fail"}, Goto(r, pc)
        PROVE  req' \in [Request -> Coroutine \cup {Idle}]
    BY <2>1, <2>4 DEF Goto, TypeOK, Coroutine
  <2>5. ASSUME NEW s \in Status, NEW u \in User \cup {NoOne},
               SetStatus(req[r].action, s, u)
        PROVE  tracker' \in [Action -> Entry]
    <3>1. tracker \in [Action -> Entry] /\ tracker[req[r].action] \in Entry
      BY <2>2 DEF TypeOK
    <3>2. (IF s = "approved" THEN u ELSE tracker[req[r].action].approvedBy)
            \in User \cup {NoOne}
      BY <3>1 DEF Entry
    <3> QED BY <2>2, <2>5, <3>1, <3>2 DEF SetStatus, Entry
  <2>6. ASSUME Fault PROVE faults' \in 0..MaxFaults
    BY <2>6 DEF Fault, TypeOK
  <2>7. ASSUME Acquire(r) PROVE TypeOK'
    BY <2>2, <2>4, <2>7 DEF Acquire, TypeOK
  <2>8. ASSUME Refuse(r) PROVE TypeOK'
    BY <2>3, <2>8 DEF Refuse, TypeOK
  <2>9. ASSUME AdmitDecision(r) \/ AdmitExecution(r) \/ ExecutorRaises(r) PROVE TypeOK'
    BY <2>4, <2>9 DEF AdmitDecision, AdmitExecution, ExecutorRaises, TypeOK
  <2>10. ASSUME Decide(r) PROVE TypeOK'
    <3>1. ASSUME StoreDecision(r) PROVE tracker' \in [Action -> Entry]
      <4>1. CASE req[r].kind = "approve"
        <5>1. tracker \in [Action -> Entry] /\ tracker[req[r].action] \in Entry
          BY <2>2 DEF TypeOK
        <5> QED BY <2>2, <3>1, <4>1, <5>1 DEF StoreDecision, Entry, Status
      <4>2. CASE req[r].kind # "approve"
        BY <2>2, <2>5, <3>1, <4>2 DEF StoreDecision, Status
      <4> QED BY <4>1, <4>2
    <3>2. tracker' \in [Action -> Entry] /\ file' \in [Action -> Entry]
      BY <2>10, <3>1, FileWritten DEF Decide, RaisesBefore, TypeOK
    <3> QED BY <2>3, <2>6, <2>10, <3>2 DEF Decide, RaisesAfter, RaisesBefore, TypeOK
  <2>11. ASSUME RunCommand(r) PROVE TypeOK'
    <3>1. PICK success \in BOOLEAN :
            req' = [req EXCEPT ![r].pc = "persist", ![r].ok = success, ![r].ran = TRUE]
      BY <2>11 DEF RunCommand
    <3>2. req' \in [Request -> Coroutine \cup {Idle}]
      BY <2>1, <3>1 DEF TypeOK, Coroutine
    <3>3. runs' \in [Action -> Nat]
      BY <2>2, <2>11 DEF RunCommand, TypeOK
    <3> QED BY <2>11, <3>2, <3>3 DEF RunCommand, TypeOK
  <2>19. ASSUME DryRun(r) PROVE TypeOK'
    <3>1. req' \in [Request -> Coroutine \cup {Idle}]
      BY <2>1, <2>19 DEF DryRun, TypeOK, Coroutine
    <3> QED BY <2>19, <3>1 DEF DryRun, TypeOK
  <2>12. ASSUME PersistOutcome(r) PROVE TypeOK'
    <3>1. tracker' \in [Action -> Entry]
      BY <2>2, <2>5, <2>12 DEF PersistOutcome, Outcome, Status
    <3>2. req' \in [Request -> Coroutine \cup {Idle}]
      <4>1. \/ req' = [req EXCEPT ![r].pc = "bookkeep", ![r].ran = FALSE]
            \/ req' = [req EXCEPT ![r].pc = "recover", ![r].ran = FALSE]
        BY <2>12 DEF PersistOutcome
      <4> QED BY <2>1, <4>1 DEF TypeOK, Coroutine
    <3>3. file' \in [Action -> Entry]
      BY <2>12, <3>1, FileWritten DEF PersistOutcome
    <3> QED BY <2>6, <2>12, <3>1, <3>2, <3>3 DEF PersistOutcome, RaisesAfter, TypeOK
  <2>13. ASSUME PersistRaises(r) PROVE TypeOK'
    BY <2>4, <2>6, <2>13 DEF PersistRaises, RaisesBefore, TypeOK
  <2>14. ASSUME Bookkeep(r) PROVE TypeOK'
    <3>1. tracker' \in [Action -> Entry]
      BY <2>2, <2>14, CreatedEntry DEF Bookkeep, Rollback, TypeOK
    <3>2. file' \in [Action -> Entry]
      BY <2>14, <3>1, FileWritten DEF Bookkeep
    <3> QED BY <2>3, <2>4, <2>6, <2>14, <3>1, <3>2
        DEF Bookkeep, Recorded, RaisesAfter, TypeOK
  <2>15. ASSUME RecoverKeeps(r) PROVE TypeOK'
    BY <2>3, <2>15 DEF RecoverKeeps, TypeOK
  <2>16. ASSUME RecoverFails(r) PROVE TypeOK'
    BY <2>4, <2>6, <2>16 DEF RecoverFails, TypeOK
  <2>17. ASSUME MarkFailed(r) PROVE TypeOK'
    <3>1. tracker' \in [Action -> Entry]
      BY <2>2, <2>5, <2>17 DEF MarkFailed, Status
    <3>2. file' \in [Action -> Entry]
      BY <2>17, <3>1, FileWritten DEF MarkFailed
    <3> QED BY <2>3, <2>6, <2>17, <3>1, <3>2 DEF MarkFailed, RaisesAfter, TypeOK
  <2>18. ASSUME MarkFailedRaises(r) PROVE TypeOK'
    BY <2>2, <2>3, <2>6, <2>18 DEF MarkFailedRaises, RaisesBefore, TypeOK
  <2> QED BY <1>3, <2>7, <2>8, <2>9, <2>10, <2>11, <2>12, <2>13, <2>14, <2>15,
             <2>16, <2>17, <2>18, <2>19 DEF Step
<1>4. ASSUME NEW p \in Pod, Crash(p) PROVE TypeOK'
  <2>1. tracker' \in [Action -> Entry]
    BY <1>4 DEF Crash, Empty, NoEntry, Entry, Status, Policy, TypeOK
  <2>2. file' \in [Action -> Entry]
    BY <1>4, <2>1, FileWritten DEF Crash
  <2> QED BY <1>4, <2>1, <2>2 DEF Crash, Fault, TypeOK
<1>5. CASE UNCHANGED vars
  BY <1>5 DEF vars, TypeOK
<1> QED BY <1>1, <1>2, <1>3, <1>4, <1>5 DEF Next

(* The engine's state is always well typed, for every instance.              *)
THEOREM TypeCorrect == Spec => []TypeOK
  BY TypeInit, TypeNext, PTL DEF Spec

-----------------------------------------------------------------------------
(* What a step of a request may touch: its own coroutine, its own lock, the  *)
(* entry of its own action, and an entry that did not exist.                 *)
Leaves(r) == /\ req'[r] = Idle
             /\ lock' = [lock EXCEPT ![req[r].pod][req[r].action] = NoRequest]
Stays(r) == /\ req'[r].pc \notin {"idle", "wait"}
            /\ req'[r].action = req[r].action /\ req'[r].pod = req[r].pod
            /\ lock' = lock

LEMMA StepShape ==
  ASSUME TypeOK, NEW r \in Request, Step(r)
  PROVE  /\ Inside(r)
         /\ req[r] \in Coroutine
         /\ \A q \in Request : q # r => req'[q] = req[q]
         /\ Leaves(r) \/ Stays(r)
<1>1. req[r] \in Coroutine
  BY StepBusy DEF TypeOK, Idle, At
<1>2. req \in [Request -> Coroutine \cup {Idle}]
  BY DEF TypeOK
<1>3. ASSUME Finish(r) PROVE Leaves(r) /\ \A q \in Request : q # r => req'[q] = req[q]
  BY <1>2, <1>3 DEF Finish, Leaves
<1>4. ASSUME NEW pc, pc \notin {"idle", "wait"}, Goto(r, pc), lock' = lock
      PROVE  Stays(r) /\ \A q \in Request : q # r => req'[q] = req[q]
  BY <1>1, <1>2, <1>4 DEF Goto, Stays, Coroutine
<1> USE DEF Inside, At
<1>5. CASE Refuse(r)
  BY <1>1, <1>3, <1>5 DEF Refuse
<1>6. CASE AdmitDecision(r) \/ AdmitExecution(r) \/ ExecutorRaises(r)
  BY <1>1, <1>4, <1>6 DEF AdmitDecision, AdmitExecution, ExecutorRaises
<1>7. CASE Decide(r)
  BY <1>1, <1>3, <1>7 DEF Decide, RaisesBefore
<1>8. CASE RunCommand(r)
  <2>1. PICK success \in BOOLEAN :
          req' = [req EXCEPT ![r].pc = "persist", ![r].ok = success, ![r].ran = TRUE]
    BY <1>8 DEF RunCommand
  <2> QED BY <1>1, <1>2, <1>8, <2>1 DEF RunCommand, Stays, Coroutine
<1>9. CASE DryRun(r)
  BY <1>1, <1>2, <1>9 DEF DryRun, Stays, Coroutine
<1>10. CASE PersistOutcome(r)
  BY <1>1, <1>2, <1>10 DEF PersistOutcome, Stays, Coroutine
<1>11. CASE PersistRaises(r)
  BY <1>1, <1>4, <1>11 DEF PersistRaises, RaisesBefore
<1>12. CASE Bookkeep(r)
  BY <1>1, <1>3, <1>4, <1>12 DEF Bookkeep, Recorded
<1>13. CASE RecoverKeeps(r)
  BY <1>1, <1>3, <1>13 DEF RecoverKeeps
<1>14. CASE RecoverFails(r)
  BY <1>1, <1>4, <1>14 DEF RecoverFails
<1>15. CASE MarkFailed(r) \/ MarkFailedRaises(r)
  BY <1>1, <1>3, <1>15 DEF MarkFailed, MarkFailedRaises
<1> QED BY <1>5, <1>6, <1>7, <1>8, <1>9, <1>10, <1>11, <1>12, <1>13, <1>14, <1>15 DEF Step

LEMMA StepEntries ==
  ASSUME TypeOK, NEW r \in Request, Step(r)
  PROVE  \A b \in Action :
           b # req[r].action /\ (tracker[b].status # "absent" \/ ~Bookkeep(r))
             => tracker'[b] = tracker[b]
<1>1. req[r].action \in Action
  BY StepShape DEF Coroutine
<1>2. tracker \in [Action -> Entry]
  BY DEF TypeOK
<1>3. ASSUME NEW s, NEW u, SetStatus(req[r].action, s, u)
      PROVE  \A b \in Action : b # req[r].action => tracker'[b] = tracker[b]
  BY <1>2, <1>3 DEF SetStatus
<1>4. CASE Refuse(r) \/ AdmitDecision(r) \/ AdmitExecution(r) \/ RunCommand(r)
           \/ DryRun(r) \/ ExecutorRaises(r) \/ PersistRaises(r) \/ RecoverKeeps(r)
           \/ RecoverFails(r) \/ MarkFailedRaises(r)
  BY <1>4 DEF Refuse, AdmitDecision, AdmitExecution, RunCommand, DryRun, ExecutorRaises,
     PersistRaises, RaisesBefore, RecoverKeeps, RecoverFails, MarkFailedRaises
<1>5. CASE Decide(r)
  BY <1>2, <1>3, <1>5 DEF Decide, RaisesBefore, StoreDecision
<1>6. CASE PersistOutcome(r)
  BY <1>3, <1>6 DEF PersistOutcome
<1>7. CASE Bookkeep(r)
  BY <1>1, <1>7, CreatedEntry DEF Bookkeep, Rollback
<1>8. CASE MarkFailed(r)
  BY <1>3, <1>8 DEF MarkFailed
<1> QED BY <1>4, <1>5, <1>6, <1>7, <1>8 DEF Step

(* Only running the command counts a run, and only a step of r's action       *)
(* counts a loss.                                                             *)
LEMMA StepCounts ==
  ASSUME TypeOK, NEW r \in Request, Step(r), NEW a \in Action
  PROVE  /\ a # req[r].action => runs'[a] = runs[a] /\ lost'[a] = lost[a]
         /\ runs'[a] # runs[a] => RunCommand(r) /\ a = req[r].action
<1>1. runs \in [Action -> Nat] /\ lost \in [Action -> Nat]
  BY DEF TypeOK
<1>2. CASE RunCommand(r)
  BY <1>1, <1>2 DEF RunCommand
<1>3. CASE MarkFailedRaises(r)
  BY <1>1, <1>3 DEF MarkFailedRaises, RaisesBefore
<1>4. CASE Refuse(r) \/ AdmitDecision(r) \/ Decide(r) \/ AdmitExecution(r) \/ DryRun(r)
           \/ ExecutorRaises(r) \/ PersistOutcome(r) \/ PersistRaises(r) \/ Bookkeep(r)
           \/ RecoverKeeps(r) \/ RecoverFails(r) \/ MarkFailed(r)
  BY <1>4 DEF Refuse, AdmitDecision, Decide, AdmitExecution, DryRun, ExecutorRaises,
     PersistOutcome, PersistRaises, Bookkeep, RecoverKeeps, RecoverFails, MarkFailed
<1> QED BY <1>2, <1>3, <1>4 DEF Step

-----------------------------------------------------------------------------
(* The lock works, on any number of pods: a coroutine inside holds the lock  *)
(* of its action on its pod until it leaves (engine.py 82-96).               *)
LEMMA LockNext == TypeOK /\ LockInv /\ [Next]_vars => LockInv'
<1> SUFFICES ASSUME TypeOK, LockInv, [Next]_vars PROVE LockInv'
  OBVIOUS
<1> USE DEF Inside, At
<1>1. ASSUME NEW a \in Action, NEW u \in User, CreateAction(a, u) \/ CreateBulkAction(a)
      PROVE  LockInv'
  BY <1>1 DEF CreateAction, CreateBulkAction, LockInv
<1>2. ASSUME NEW r \in Request, NEW p \in Pod, NEW k \in Kind, NEW a \in Action,
             NEW u \in User \cup {NoOne}, NEW d \in BOOLEAN, Arrive(r, p, k, a, u, d)
      PROVE  LockInv'
  BY <1>2 DEF Arrive, LockInv, TypeOK
<1>3. ASSUME NEW r \in Request, Acquire(r)
      PROVE  LockInv'
  <2>1. req[r] \in Coroutine
    BY <1>3, StepBusy DEF TypeOK, Idle
  <2> SUFFICES ASSUME NEW q \in Request, Inside(q)'
               PROVE  (lock[req[q].pod][req[q].action] = q)'
    BY DEF LockInv
  <2>2. CASE q = r
    BY <1>3, <2>1, <2>2 DEF Acquire, Goto, TypeOK, Coroutine
  <2>3. CASE q # r
    <3>1. req'[q] = req[q] /\ Inside(q)
      BY <1>3, <2>3 DEF Acquire, Goto, TypeOK
    <3>2. lock[req[q].pod][req[q].action] = q
      BY <3>1 DEF LockInv
    <3>3. req[q] \in Coroutine
      BY <3>1 DEF TypeOK, Idle
    <3> QED BY <1>3, <2>1, <3>1, <3>2, <3>3, NullsAssumption DEF Acquire, TypeOK, Coroutine
  <2> QED BY <2>2, <2>3
<1>4. ASSUME NEW r \in Request, Step(r)
      PROVE  LockInv'
  <2> SUFFICES ASSUME NEW q \in Request, Inside(q)'
               PROVE  (lock[req[q].pod][req[q].action] = q)'
    BY DEF LockInv
  <2>1. CASE q = r
    <3>1. Stays(r)
      <4>1. Leaves(r) \/ Stays(r)
        BY <1>4, StepShape
      <4>2. ~Leaves(r)
        BY <2>1 DEF Leaves, Idle
      <4> QED BY <4>1, <4>2
    <3>2. lock[req[r].pod][req[r].action] = r
      BY <1>4, StepShape DEF LockInv
    <3> QED BY <2>1, <3>1, <3>2 DEF Stays
  <2>2. CASE q # r
    <3>1. req'[q] = req[q] /\ Inside(q)
      BY <1>4, <2>2, StepShape
    <3>2. lock[req[q].pod][req[q].action] = q
      BY <3>1 DEF LockInv
    <3>3. lock[req[r].pod][req[r].action] = r
      BY <1>4, StepShape DEF LockInv
    <3>4. req[q] \in Coroutine /\ req[r] \in Coroutine
      BY <1>4, <3>1, StepShape DEF TypeOK, Idle
    <3>5. CASE Stays(r)
      BY <3>1, <3>2, <3>5 DEF Stays
    <3>6. CASE Leaves(r)
      <4>1. req[q].pod # req[r].pod \/ req[q].action # req[r].action
        BY <2>2, <3>2, <3>3
      <4>2. lock'[req[q].pod][req[q].action] = lock[req[q].pod][req[q].action]
        BY <3>4, <3>6, <4>1 DEF Leaves, TypeOK, Coroutine
      <4> QED BY <3>1, <3>2, <4>2
    <3> QED BY <1>4, <3>5, <3>6, StepShape
  <2> QED BY <2>1, <2>2
<1>5. ASSUME NEW p \in Pod, Crash(p)
      PROVE  LockInv'
  <2> SUFFICES ASSUME NEW q \in Request, Inside(q)'
               PROVE  (lock[req[q].pod][req[q].action] = q)'
    BY DEF LockInv
  <2>1. req'[q] = req[q] /\ ~OnPod(q, p)
    BY <1>5 DEF Crash, Idle
  <2>2. req[q] \in Coroutine /\ req[q].pod # p
    BY <2>1 DEF TypeOK, Idle, OnPod
  <2> QED BY <1>5, <2>1, <2>2 DEF Crash, LockInv, TypeOK, Coroutine
<1>6. CASE UNCHANGED vars
  BY <1>6 DEF vars, LockInv
<1> QED BY <1>1, <1>2, <1>3, <1>4, <1>5, <1>6 DEF Next

-----------------------------------------------------------------------------
(* On one pod the lock makes a coroutine alone with its action.              *)
OnePod == \A p, q \in Pod : p = q

(* The crash of the only pod ends every coroutine, and loses the runs that    *)
(* were on their way to the store.                                            *)
LEMMA CrashEnds ==
  ASSUME OnePod, TypeOK, NEW p \in Pod, Crash(p)
  PROVE  /\ \A r \in Request : req'[r] = Idle
         /\ \A a \in Action : RunLostOn(p, a) <=> Running(a)
<1>1. \A r \in Request : ~At(r, "idle") => OnPod(r, p)
  BY DEF OnePod, TypeOK, Coroutine, At, Idle, OnPod
<1>2. ASSUME NEW r \in Request PROVE req'[r] = Idle
  <2>1. req'[r] = IF OnPod(r, p) THEN Idle ELSE req[r]
    BY DEF Crash
  <2>2. At(r, "idle") => req[r] = Idle
    BY DEF TypeOK, At, Coroutine
  <2> QED BY <1>1, <2>1, <2>2
<1>3. \A a \in Action : RunLostOn(p, a) <=> Running(a)
  BY <1>1 DEF RunLostOn, OnPod, Running
<1> QED BY <1>2, <1>3

LEMMA Alone ==
  ASSUME OnePod, TypeOK, LockInv, NEW q \in Request, NEW r \in Request,
         Inside(q), Inside(r), req[q].action = req[r].action
  PROVE  q = r
<1>1. req[q] \in Coroutine /\ req[r] \in Coroutine
  BY DEF TypeOK, Inside, At, Idle
<1>2. req[q].pod = req[r].pod
  BY <1>1 DEF OnePod, Coroutine
<1> QED BY <1>2 DEF LockInv

(* A coroutine that has read nothing yet claims nothing.                      *)
LEMMA Quiet ==
  ASSUME NEW q \in Request, KnowsStatus(q), RanInv(q), ~At(q, "idle"), TypeOK,
         req[q].pc \in {"wait", "read"} \/ tracker[req[q].action].status = "absent"
  PROVE  req[q].pc \in {"wait", "read"} /\ ~req[q].ran
<1>1. req[q] \in Coroutine
  BY DEF TypeOK, At, Idle
<1> QED BY <1>1 DEF KnowsStatus, RanInv, At, Outcome, Coroutine

LEMMA QuietStays ==
  ASSUME NEW q \in Request, KnowsStatus(q), RanInv(q), ~At(q, "idle"), TypeOK,
         req[q].pc \in {"wait", "read"} \/ tracker[req[q].action].status = "absent",
         req'[q] = req[q]
  PROVE  (KnowsStatus(q) /\ RanInv(q))'
<1>1. req'[q].pc \in {"wait", "read"} /\ ~req'[q].ran
  BY Quiet
<1> QED BY <1>1 DEF KnowsStatus, RanInv, At

LEMMA KnowledgeStep ==
  ASSUME TypeOK, NEW r \in Request, Step(r), KnowsStatus(r), RanInv(r), ~At(r, "idle")'
  PROVE  (KnowsStatus(r) /\ RanInv(r))'
<1>1. req[r] \in Coroutine /\ req[r].action \in Action
  BY StepShape DEF Coroutine
<1>2. req \in [Request -> Coroutine \cup {Idle}] /\ tracker \in [Action -> Entry]
  BY DEF TypeOK
<1>3. Stays(r)
  <2>1. Leaves(r) \/ Stays(r)
    BY StepShape
  <2>2. ~Leaves(r)
    BY DEF Leaves, At, Idle
  <2> QED BY <2>1, <2>2
<1>4. tracker[req[r].action] \in Entry
  BY <1>1, <1>2
<1>5. ~Finish(r)
  BY <1>2 DEF Finish, At, Idle
<1>6. ASSUME NEW s, NEW u, SetStatus(req[r].action, s, u)
      PROVE  tracker'[req[r].action].status = s
  BY <1>1, <1>2, <1>4, <1>6 DEF SetStatus, Entry
<1>7. ASSUME NEW pc, Goto(r, pc)
      PROVE  /\ req'[r].pc = pc /\ req'[r].ran = req[r].ran /\ req'[r].dry = req[r].dry
             /\ req'[r].kind = req[r].kind /\ req'[r].action = req[r].action
  BY <1>1, <1>2, <1>7 DEF Goto, Coroutine
<1>8. CASE AdmitDecision(r)
  BY <1>1, <1>7, <1>8 DEF AdmitDecision, KnowsStatus, RanInv, At
<1>9. CASE AdmitExecution(r) \/ ExecutorRaises(r)
  BY <1>1, <1>7, <1>9 DEF AdmitExecution, ExecutorRaises, KnowsStatus, RanInv, At
<1>10. CASE RunCommand(r)
  <2>1. PICK success \in BOOLEAN :
          req' = [req EXCEPT ![r].pc = "persist", ![r].ok = success, ![r].ran = TRUE]
    BY <1>10 DEF RunCommand
  <2>2. /\ req'[r].pc = "persist" /\ req'[r].ran = TRUE /\ req'[r].dry = req[r].dry
        /\ req'[r].action = req[r].action
    BY <1>1, <1>2, <2>1 DEF Coroutine
  <2> QED BY <1>1, <1>10, <2>2 DEF RunCommand, KnowsStatus, RanInv, At, Coroutine
<1>11. CASE DryRun(r)
  <2>1. /\ req'[r].pc = "persist" /\ req'[r].ran = req[r].ran /\ req'[r].dry = req[r].dry
        /\ req'[r].action = req[r].action
    BY <1>1, <1>2, <1>11 DEF DryRun, Coroutine
  <2> QED BY <1>1, <1>11, <2>1 DEF DryRun, KnowsStatus, RanInv, At, Coroutine
<1>12. CASE PersistOutcome(r)
  <2>1. /\ req'[r].pc \in {"bookkeep", "recover"} /\ req'[r].ran = FALSE
        /\ req'[r].dry = req[r].dry /\ req'[r].ok = req[r].ok
        /\ req'[r].action = req[r].action
    BY <1>1, <1>2, <1>12 DEF PersistOutcome, Coroutine
  <2>2. tracker'[req[r].action].status = Outcome(r)
    BY <1>6, <1>12 DEF PersistOutcome
  <2> QED BY <2>1, <2>2 DEF KnowsStatus, RanInv, At, Outcome
<1>13. CASE PersistRaises(r)
  BY <1>1, <1>7, <1>13 DEF PersistRaises, RaisesBefore, KnowsStatus, RanInv, At, Coroutine
<1>14. CASE Bookkeep(r)
  <2>1. Goto(r, "recover")
    BY <1>5, <1>14 DEF Bookkeep, Recorded
  <2>2. tracker[req[r].action].status = Outcome(r)
    BY <1>14 DEF Bookkeep, KnowsStatus
  <2>3. tracker'[req[r].action] = tracker[req[r].action]
    BY <1>1, <1>14, <2>2, CreatedEntry DEF Bookkeep, Rollback, Outcome
  <2> QED BY <1>7, <1>14, <2>1, <2>2, <2>3 DEF Bookkeep, KnowsStatus, RanInv, At, Outcome
<1>15. CASE RecoverFails(r)
  BY <1>1, <1>7, <1>15 DEF RecoverFails, KnowsStatus, RanInv, At
<1>16. CASE Refuse(r) \/ Decide(r) \/ RecoverKeeps(r) \/ MarkFailed(r) \/ MarkFailedRaises(r)
  BY <1>5, <1>16 DEF Refuse, Decide, RecoverKeeps, MarkFailed, MarkFailedRaises
<1> QED BY <1>8, <1>9, <1>10, <1>11, <1>12, <1>13, <1>14, <1>15, <1>16 DEF Step

LEMMA KnowledgeNext ==
  OnePod /\ TypeOK /\ LockInv /\ KnowledgeInv /\ [Next]_vars => KnowledgeInv'
<1> SUFFICES ASSUME OnePod, TypeOK, LockInv, KnowledgeInv, [Next]_vars,
                    NEW q \in Request, ~At(q, "idle")'
             PROVE  (KnowsStatus(q) /\ RanInv(q))'
  BY DEF KnowledgeInv
<1>0. ~At(q, "idle") => req[q] \in Coroutine /\ KnowsStatus(q) /\ RanInv(q)
  BY DEF TypeOK, At, Idle, KnowledgeInv
<1>a. ASSUME ~At(q, "idle"), req'[q] = req[q],
             tracker'[req[q].action] = tracker[req[q].action]
      PROVE  (KnowsStatus(q) /\ RanInv(q))'
  BY <1>0, <1>a DEF KnowsStatus, RanInv, At, Outcome
<1>1. ASSUME NEW a \in Action, NEW u \in User, CreateAction(a, u) \/ CreateBulkAction(a)
      PROVE  (KnowsStatus(q) /\ RanInv(q))'
  <2>1. req'[q] = req[q] /\ ~At(q, "idle")
    BY <1>1 DEF CreateAction, CreateBulkAction, At
  <2>2. CASE req[q].action = a
    BY <1>0, <1>1, <2>1, <2>2, QuietStays DEF CreateAction, CreateBulkAction
  <2>3. CASE req[q].action # a
    <3>1. tracker'[req[q].action] = tracker[req[q].action]
      BY <1>0, <1>1, <2>1, <2>3, CreatedEntry DEF CreateAction, CreateBulkAction, Coroutine
    <3> QED BY <1>a, <2>1, <3>1
  <2> QED BY <2>2, <2>3
<1>2. ASSUME NEW r \in Request, NEW p \in Pod, NEW k \in Kind, NEW a \in Action,
             NEW u \in User \cup {NoOne}, NEW d \in BOOLEAN, Arrive(r, p, k, a, u, d)
      PROVE  (KnowsStatus(q) /\ RanInv(q))'
  <2>1. CASE q = r
    BY <1>2, <2>1 DEF Arrive, TypeOK, KnowsStatus, RanInv, At
  <2>2. CASE q # r
    BY <1>2, <1>a, <2>2 DEF Arrive, TypeOK, At
  <2> QED BY <2>1, <2>2
<1>3. ASSUME NEW r \in Request, Acquire(r)
      PROVE  (KnowsStatus(q) /\ RanInv(q))'
  <2>1. CASE q = r
    <3>1. req[r] \in Coroutine /\ ~req[r].ran
      BY <1>0, <1>3, <2>1, StepBusy, Quiet DEF Acquire, At
    <3>2. req'[r].pc = "read" /\ req'[r].ran = req[r].ran
      BY <1>3, <3>1 DEF Acquire, Goto, TypeOK, Coroutine
    <3> QED BY <2>1, <3>1, <3>2 DEF KnowsStatus, RanInv, At
  <2>2. CASE q # r
    BY <1>3, <1>a, <2>2 DEF Acquire, Goto, TypeOK, At
  <2> QED BY <2>1, <2>2
<1>4. ASSUME NEW r \in Request, Step(r)
      PROVE  (KnowsStatus(q) /\ RanInv(q))'
  <2>1. CASE q = r
    BY <1>0, <1>4, <2>1, StepBusy, KnowledgeStep
  <2>2. CASE q # r
    <3>1. req'[q] = req[q] /\ ~At(q, "idle") /\ Inside(r)
      BY <1>4, <2>2, StepShape DEF At
    <3>2. CASE req[q].action = req[r].action
      <4>1. ~Inside(q)
        BY <2>2, <3>1, <3>2, Alone
      <4> QED BY <1>0, <3>1, <4>1, QuietStays DEF Inside, At
    <3>3. CASE tracker[req[q].action].status = "absent"
      BY <1>0, <3>1, <3>3, QuietStays
    <3>4. CASE req[q].action # req[r].action /\ tracker[req[q].action].status # "absent"
      <4>1. tracker'[req[q].action] = tracker[req[q].action]
        BY <1>0, <1>4, <3>1, <3>4, StepEntries DEF Coroutine
      <4> QED BY <1>a, <3>1, <4>1
    <3> QED BY <3>2, <3>3, <3>4
  <2> QED BY <2>1, <2>2
<1>5. ASSUME NEW p \in Pod, Crash(p)
      PROVE  (KnowsStatus(q) /\ RanInv(q))'
  BY <1>5, CrashEnds DEF At, Idle
<1>6. CASE UNCHANGED vars
  BY <1>6, <1>a DEF vars, At
<1> QED BY <1>1, <1>2, <1>3, <1>4, <1>5, <1>6 DEF Next

-----------------------------------------------------------------------------
(* Only a coroutine inside the lock can carry an outcome, so on one pod an    *)
(* action is running iff the coroutine inside its lock carries one.           *)
LEMMA Carrier ==
  ASSUME OnePod, TypeOK, LockInv, KnowledgeInv, NEW r \in Request, Inside(r)
  PROVE  /\ \A a \in Action : a = req[r].action => (Running(a) <=> req[r].ran)
         /\ \A q \in Request : q # r /\ ~At(q, "idle") /\ req[q].action = req[r].action
                                => ~req[q].ran
<1>1. ASSUME NEW q \in Request, ~At(q, "idle"), req[q].ran PROVE Inside(q)
  BY <1>1 DEF KnowledgeInv, RanInv, Inside, At
<1>2. \A q \in Request : q # r /\ ~At(q, "idle") /\ req[q].action = req[r].action
                           => ~req[q].ran
  BY <1>1, Alone
<1>3. \A a \in Action : a = req[r].action => (Running(a) <=> req[r].ran)
  BY <1>2 DEF Running, Inside
<1> QED BY <1>2, <1>3

(* What a step of r does to the running actions.                              *)
LEMMA RunningStep ==
  ASSUME OnePod, TypeOK, LockInv, KnowledgeInv, NEW r \in Request, Step(r),
         NEW a \in Action
  PROVE  /\ a = req[r].action => (Running(a) <=> req[r].ran)
         /\ a = req[r].action => (Running(a)' <=> ~At(r, "idle")' /\ req'[r].ran)
         /\ a # req[r].action => (Running(a)' <=> Running(a))
<1>1. /\ req[r] \in Coroutine /\ Inside(r) /\ ~At(r, "idle")
      /\ \A q \in Request : q # r => req'[q] = req[q]
  BY StepShape DEF Inside
<1>2. At(r, "idle")' \/ req'[r].action = req[r].action
  <2>1. Leaves(r) \/ Stays(r)
    BY StepShape
  <2> QED BY <2>1 DEF Leaves, Stays, At, Idle
<1>3. \A q \in Request : q # r /\ ~At(q, "idle") /\ req[q].action = req[r].action
                           => ~req[q].ran
  BY <1>1, Carrier
<1>4. a = req[r].action => (Running(a)' <=> ~At(r, "idle")' /\ req'[r].ran)
  BY <1>1, <1>2, <1>3 DEF Running, At
<1>5. a # req[r].action => (Running(a)' <=> Running(a))
  BY <1>1, <1>2 DEF Running, At
<1> QED BY <1>1, <1>4, <1>5, Carrier

\* The accounting of one action.
Paid(a) == /\ runs[a] <= 1 + lost[a]
           /\ tracker[a].status \in {"absent", "pending", "approved", "rejected"} /\ ~Running(a)
                => runs[a] <= lost[a]

LEMMA PaidStep ==
  ASSUME OnePod, IInv, NEW r \in Request, Step(r),
         NEW a \in Action, a = req[r].action
  PROVE  Paid(a)'
<1>1. /\ Inside(r) /\ ~At(r, "idle")
      /\ Running(a) <=> req[r].ran
      /\ Running(a)' <=> ~At(r, "idle")' /\ req'[r].ran
  BY RunningStep, StepShape DEF IInv, Inside
<1>2. req \in [Request -> Coroutine \cup {Idle}] /\ req[r] \in Coroutine
      /\ tracker \in [Action -> Entry] /\ tracker[a] \in Entry
  BY <1>1, StepShape DEF IInv, TypeOK
<1>3. runs \in [Action -> Nat] /\ lost \in [Action -> Nat]
      /\ runs[a] \in Nat /\ lost[a] \in Nat
  BY <1>1 DEF IInv, TypeOK
<1>4. Paid(a) /\ KnowsStatus(r) /\ RanInv(r)
  BY <1>1 DEF IInv, RunsInv, KnowledgeInv, Paid
<1>5. ASSUME NEW s, NEW u, SetStatus(a, s, u) PROVE tracker'[a].status = s
  BY <1>1, <1>2, <1>5 DEF SetStatus, Entry
<1>6. ASSUME NEW pc, Goto(r, pc) PROVE req'[r].pc = pc /\ req'[r].ran = req[r].ran
  BY <1>2, <1>6 DEF Goto, Coroutine
<1>7. ASSUME Finish(r) PROVE At(r, "idle")'
  BY <1>2, <1>7 DEF Finish, At, Idle
<1>8. CASE Refuse(r)
  BY <1>1, <1>4, <1>7, <1>8 DEF Refuse, Paid, RanInv, At
<1>9. CASE AdmitDecision(r) \/ AdmitExecution(r) \/ ExecutorRaises(r) \/ RecoverFails(r)
  BY <1>1, <1>4, <1>6, <1>9
  DEF AdmitDecision, AdmitExecution, ExecutorRaises, RecoverFails, Paid, At
<1>10. CASE Decide(r)
  BY <1>1, <1>4, <1>10 DEF Decide, RaisesBefore, Paid, RanInv, KnowsStatus, At
<1>11. CASE RunCommand(r)
  <2>1. /\ runs'[a] = runs[a] + 1 /\ lost' = lost /\ req'[r].pc = "persist" /\ req'[r].ran
    BY <1>1, <1>2, <1>3, <1>11 DEF RunCommand, Coroutine
  <2>2. runs[a] <= lost[a]
    BY <1>1, <1>4, <1>11 DEF RunCommand, Paid, RanInv, KnowsStatus, At
  <2> QED BY <1>1, <1>3, <2>1, <2>2 DEF Paid, At
<1>12. CASE DryRun(r)
  <2>1. req'[r].ran = req[r].ran /\ req'[r].pc = "persist"
    BY <1>2, <1>12 DEF DryRun, Coroutine
  <2> QED BY <1>1, <1>4, <1>12, <2>1 DEF DryRun, Paid, At
<1>13. CASE PersistOutcome(r)
  <2>1. tracker'[a].status = Outcome(r) /\ runs' = runs /\ lost' = lost
    BY <1>5, <1>13 DEF PersistOutcome
  <2>2. CASE req[r].dry
    BY <1>1, <1>4, <1>13, <2>1, <2>2 DEF PersistOutcome, Paid, RanInv, KnowsStatus, At
  <2>3. CASE ~req[r].dry
    BY <1>4, <2>1, <2>3 DEF Outcome, Paid
  <2> QED BY <2>2, <2>3
<1>14. CASE PersistRaises(r)
  BY <1>1, <1>4, <1>6, <1>14 DEF PersistRaises, RaisesBefore, Paid, At
<1>15. CASE Bookkeep(r)
  <2>1. Finish(r) \/ Goto(r, "recover")
    BY <1>15 DEF Bookkeep, Recorded
  <2>2. ~req[r].ran /\ tracker[a].status = Outcome(r)
    BY <1>4, <1>15 DEF Bookkeep, KnowsStatus, RanInv
  <2>3. tracker'[a] = tracker[a]
    BY <1>1, <1>15, <2>2, CreatedEntry DEF Bookkeep, Rollback, Outcome, IInv
  <2>4. runs' = runs /\ lost' = lost
    BY <1>15 DEF Bookkeep
  <2> QED BY <1>1, <1>4, <1>6, <1>7, <2>1, <2>2, <2>3, <2>4 DEF Paid
<1>16. CASE RecoverKeeps(r)
  BY <1>4, <1>16 DEF RecoverKeeps, Paid
<1>17. CASE MarkFailed(r)
  BY <1>4, <1>5, <1>17 DEF MarkFailed, Paid
<1>18. CASE MarkFailedRaises(r)
  <2>1. runs' = runs /\ tracker' = tracker
    BY <1>18 DEF MarkFailedRaises, RaisesBefore
  <2>2. lost'[a] = IF req[r].ran THEN lost[a] + 1 ELSE lost[a]
    BY <1>1, <1>3, <1>18 DEF MarkFailedRaises, RaisesBefore
  <2> QED BY <1>1, <1>3, <1>4, <2>1, <2>2 DEF Paid
<1> QED
  BY <1>8, <1>9, <1>10, <1>11, <1>12, <1>13, <1>14, <1>15, <1>16, <1>17, <1>18
  DEF Step

LEMMA RunsNext == OnePod /\ IInv /\ [Next]_vars => RunsInv'
<1> SUFFICES ASSUME OnePod, IInv, [Next]_vars, NEW a \in Action PROVE Paid(a)'
  BY DEF RunsInv, Paid
<1>0. Paid(a) /\ TypeOK /\ tracker[a] \in Entry /\ runs[a] \in Nat /\ lost[a] \in Nat
  BY DEF IInv, RunsInv, Paid, TypeOK
<1>a. ASSUME runs' = runs, lost' = lost, Running(a)' <=> Running(a),
             tracker'[a] = tracker[a] \/ tracker[a].status = "absent"
      PROVE  Paid(a)'
  BY <1>0, <1>a DEF Paid
<1>1. ASSUME NEW b \in Action, NEW u \in User, CreateAction(b, u) \/ CreateBulkAction(b)
      PROVE  Paid(a)'
  <2>1. tracker'[a] = tracker[a] \/ tracker[a].status = "absent"
    BY <1>0, <1>1, CreatedEntry DEF CreateAction, CreateBulkAction
  <2>2. UNCHANGED <<req, runs, lost>>
    BY <1>1 DEF CreateAction, CreateBulkAction
  <2> QED BY <1>a, <2>1, <2>2 DEF Running, At
<1>2. ASSUME NEW r \in Request, NEW p \in Pod, NEW k \in Kind, NEW b \in Action,
             NEW u \in User \cup {NoOne}, NEW d \in BOOLEAN, Arrive(r, p, k, b, u, d)
      PROVE  Paid(a)'
  <2>1. Running(a)' <=> Running(a)
    <3>1. \A q \in Request : q # r => req'[q] = req[q]
      BY <1>0, <1>2 DEF Arrive, TypeOK
    <3>2. At(r, "idle") /\ ~req'[r].ran
      BY <1>0, <1>2 DEF Arrive, TypeOK
    <3> QED BY <3>1, <3>2 DEF Running, At
  <2> QED BY <1>2, <1>a, <2>1 DEF Arrive
<1>3. ASSUME NEW r \in Request, Acquire(r)
      PROVE  Paid(a)'
  <2>1. \A q \in Request : q # r => req'[q] = req[q]
    BY <1>0, <1>3 DEF Acquire, Goto, TypeOK
  <2>2. req[r] \in Coroutine
    BY <1>0, <1>3, StepBusy DEF TypeOK, Idle, At
  <2>3. req'[r].pc = "read" /\ req'[r].ran = req[r].ran /\ req'[r].action = req[r].action
    BY <1>0, <1>3, <2>2 DEF Acquire, Goto, TypeOK, Coroutine
  <2>4. Running(a)' <=> Running(a)
    BY <1>3, <2>1, <2>3, StepBusy DEF Running, At
  <2> QED BY <1>3, <1>a, <2>4 DEF Acquire
<1>4. ASSUME NEW r \in Request, Step(r)
      PROVE  Paid(a)'
  <2>1. CASE a = req[r].action
    BY <1>4, <2>1, PaidStep
  <2>2. CASE a # req[r].action
    <3>1. Running(a)' <=> Running(a)
      BY <1>4, <2>2, RunningStep DEF IInv
    <3>2. tracker'[a] = tracker[a] \/ tracker[a].status = "absent"
      BY <1>0, <1>4, <2>2, StepEntries
    <3>3. runs'[a] = runs[a] /\ lost'[a] = lost[a]
      BY <1>0, <1>4, <2>2, StepCounts
    <3> QED BY <1>0, <3>1, <3>2, <3>3 DEF Paid
  <2> QED BY <2>1, <2>2
<1>5. ASSUME NEW p \in Pod, Crash(p)
      PROVE  Paid(a)'
  <2>0. \A r \in Request : At(r, "idle")'
    BY <1>0, <1>5, CrashEnds DEF At, Idle
  <2>1. ~Running(a)' /\ runs' = runs
    BY <1>5, <2>0 DEF Crash, Running
  <2>2. lost'[a] = IF Running(a) \/ OutcomeLost(a) THEN lost[a] + 1 ELSE lost[a]
    BY <1>0, <1>5, CrashEnds DEF Crash
  <2>3. CASE Running(a) \/ OutcomeLost(a)
    BY <1>0, <2>1, <2>2, <2>3 DEF Paid
  <2>4. CASE ~Running(a) /\ ~OutcomeLost(a)
    BY <1>0, <2>1, <2>2, <2>4 DEF Paid, OutcomeLost, Entry, Status
  <2> QED BY <2>3, <2>4
<1>6. CASE UNCHANGED vars
  BY <1>6, <1>a DEF vars, Running, At
<1> QED BY <1>1, <1>2, <1>3, <1>4, <1>5, <1>6 DEF Next

-----------------------------------------------------------------------------
(* On one pod IInv is inductive.                                              *)
LEMMA IInvInit == Init => IInv
<1> SUFFICES ASSUME Init PROVE IInv
  OBVIOUS
<1>1. \A r \in Request : At(r, "idle")
  BY DEF Init, Idle, At
<1>2. \A a \in Action : runs[a] = 0 /\ lost[a] = 0
  BY DEF Init
<1> QED BY <1>1, <1>2, TypeInit DEF IInv, LockInv, Inside, KnowledgeInv, RunsInv

LEMMA IInvAlways == OnePod => (Spec => []IInv)
<1>1. OnePod /\ IInv /\ [Next]_vars => IInv'
  BY TypeNext, LockNext, KnowledgeNext, RunsNext DEF IInv
<1>2. ASSUME OnePod PROVE Spec => []IInv
  <2>1. IInv /\ [Next]_vars => IInv'
    BY <1>1, <1>2
  <2> QED BY <2>1, IInvInit, PTL DEF Spec
<1> QED BY <1>2

(* The lock works on any number of pods: a coroutine past the acquisition    *)
(* holds the lock of its action on its pod (engine.py 82-96).                 *)
THEOREM LockHeldInside == Spec => []LockInv
<1>1. Init => TypeOK /\ LockInv
  BY TypeInit DEF Init, Idle, LockInv, Inside, At
<1>2. TypeOK /\ LockInv /\ [Next]_vars => (TypeOK /\ LockInv)'
  BY TypeNext, LockNext
<1> QED BY <1>1, <1>2, PTL DEF Spec

(* On one pod a command runs once, and once more for every run whose outcome  *)
(* never reached the store (engine.py 71-74).                                 *)
THEOREM RunsOncePerLossAlways == OnePod => (Spec => []RunsOncePerLoss)
<1>1. IInv => RunsOncePerLoss
  BY DEF IInv, RunsInv, RunsOncePerLoss
<1>2. ASSUME OnePod PROVE Spec => []RunsOncePerLoss
  <2>1. Spec => []IInv
    BY <1>2, IInvAlways
  <2> QED BY <1>1, <2>1, PTL
<1> QED BY <1>2

(* On one pod the action is still approved when its command starts            *)
(* (engine.py 456-464, 593).                                                  *)
THEOREM RunsWhileApprovedAlways == OnePod => (Spec => RunsWhileApproved)
<1>1. IInv /\ [Next]_vars =>
        [\A a \in Action : runs'[a] # runs[a] => tracker[a].status = "approved"]_vars
  <2> SUFFICES ASSUME IInv, Next, NEW a \in Action, runs'[a] # runs[a]
               PROVE  tracker[a].status = "approved"
    BY DEF vars
  <2>1. PICK r \in Request : Step(r)
    BY DEF Next, CreateAction, CreateBulkAction, Arrive, Acquire, Crash
  <2>2. RunCommand(r) /\ a = req[r].action
    BY <2>1, StepCounts DEF IInv
  <2> QED BY <2>1, <2>2, StepBusy DEF RunCommand, IInv, KnowledgeInv, KnowsStatus
<1>2. ASSUME OnePod PROVE Spec => RunsWhileApproved
  <2>1. Spec => []IInv
    BY <1>2, IInvAlways
  <2> QED BY <1>1, <2>1, PTL DEF Spec, RunsWhileApproved
<1> QED BY <1>2

-----------------------------------------------------------------------------
(* On one pod with the file store, FAILED is never written over EXECUTED.      *)
FailInv == \A r \in Request : At(r, "fail") => tracker[req[r].action].status # "executed"

LEMMA TerminalStep ==
  ASSUME FileStore, IInv, FailInv, NEW r \in Request, Step(r),
         NEW a \in Action, tracker[a].status \in Terminal
  PROVE  tracker'[a].status = tracker[a].status
<1>1. /\ req[r] \in Coroutine /\ req[r].action \in Action /\ ~At(r, "idle")
      /\ tracker \in [Action -> Entry]
  BY StepShape DEF IInv, TypeOK, Coroutine, Inside
<1>2. KnowsStatus(r) /\ (At(r, "fail") => tracker[req[r].action].status # "executed")
  BY <1>1 DEF IInv, KnowledgeInv, FailInv
<1>3. CASE a # req[r].action
  BY <1>3, StepEntries DEF IInv, Terminal
<1>4. CASE a = req[r].action
  <2>1. CASE Refuse(r) \/ AdmitDecision(r) \/ AdmitExecution(r) \/ RunCommand(r)
             \/ DryRun(r) \/ ExecutorRaises(r) \/ PersistRaises(r) \/ RecoverKeeps(r)
             \/ RecoverFails(r) \/ MarkFailedRaises(r)
    BY <2>1 DEF Refuse, AdmitDecision, AdmitExecution, RunCommand, DryRun, ExecutorRaises,
       PersistRaises, RaisesBefore, RecoverKeeps, RecoverFails, MarkFailedRaises
  <2>2. CASE Decide(r) \/ PersistOutcome(r)
    BY <1>2, <1>4, <2>2 DEF Decide, PersistOutcome, RaisesBefore, KnowsStatus, Terminal
  <2>3. CASE Bookkeep(r)
    BY <1>1, <2>3, CreatedEntry DEF IInv, Bookkeep, Rollback, Terminal
  <2>4. CASE MarkFailed(r)
    <3>1. tracker[a].status = "failed"
      BY <1>2, <1>4, <2>4 DEF MarkFailed, KnowsStatus, Terminal
    <3>2. tracker[a] \in Entry /\ tracker'[a].status = "failed"
      BY <1>1, <1>4, <2>4 DEF MarkFailed, SetStatus, Entry
    <3> QED BY <3>1, <3>2
  <2> QED BY <2>1, <2>2, <2>3, <2>4 DEF Step
<1> QED BY <1>3, <1>4

LEMMA FailNext == OnePod /\ FileStore /\ IInv /\ FailInv /\ [Next]_vars => FailInv'
<1> SUFFICES ASSUME OnePod, FileStore, IInv, FailInv, [Next]_vars,
                    NEW q \in Request, At(q, "fail")'
             PROVE  (tracker[req[q].action].status # "executed")'
  BY DEF FailInv
<1>1. req \in [Request -> Coroutine \cup {Idle}]
  BY DEF IInv, TypeOK
<1>2. ASSUME At(q, "fail")
      PROVE  /\ req[q] \in Coroutine /\ req[q].action \in Action /\ Inside(q)
             /\ tracker[req[q].action].status \in {"approved", "failed"}
  BY <1>1, <1>2 DEF IInv, KnowledgeInv, KnowsStatus, FailInv, At, Idle, Inside, Coroutine
<1>3. ASSUME NEW a \in Action, NEW u \in User, CreateAction(a, u) \/ CreateBulkAction(a)
      PROVE  (tracker[req[q].action].status # "executed")'
  <2>1. req' = req /\ At(q, "fail")
    BY <1>3 DEF CreateAction, CreateBulkAction, At
  <2> QED BY <1>2, <1>3, <2>1, CreatedEntry DEF IInv, CreateAction, CreateBulkAction
<1>4. ASSUME NEW r \in Request, NEW p \in Pod, NEW k \in Kind, NEW a \in Action,
             NEW u \in User \cup {NoOne}, NEW d \in BOOLEAN, Arrive(r, p, k, a, u, d)
      PROVE  (tracker[req[q].action].status # "executed")'
  <2>1. q # r
    BY <1>1, <1>4 DEF Arrive, At
  <2> QED BY <1>1, <1>2, <1>4, <2>1 DEF Arrive, At
<1>5. ASSUME NEW r \in Request, Acquire(r)
      PROVE  (tracker[req[q].action].status # "executed")'
  <2>1. q # r
    BY <1>1, <1>5, StepBusy DEF Acquire, Goto, At, Coroutine, Idle
  <2> QED BY <1>1, <1>2, <1>5, <2>1 DEF Acquire, Goto, At
<1>6. ASSUME NEW r \in Request, Step(r)
      PROVE  (tracker[req[q].action].status # "executed")'
  <2>1. CASE q = r
    <3>1. RecoverFails(r)
      <4>1. req[r] \in Coroutine
        BY <1>6, StepShape DEF IInv
      <4>2. req'[r].pc = "fail"
        BY <2>1 DEF At
      <4>3. ~Finish(r)
        BY <1>1, <4>2 DEF Finish, Idle
      <4>4. ASSUME NEW pc, Goto(r, pc) PROVE pc = "fail"
        BY <1>1, <4>1, <4>2, <4>4 DEF Goto, Coroutine
      <4>5. ~(Refuse(r) \/ Decide(r) \/ RecoverKeeps(r) \/ MarkFailed(r) \/ MarkFailedRaises(r))
        BY <4>3 DEF Refuse, Decide, RecoverKeeps, MarkFailed, MarkFailedRaises
      <4>6. ~(AdmitDecision(r) \/ AdmitExecution(r) \/ ExecutorRaises(r) \/ PersistRaises(r))
        BY <4>4 DEF AdmitDecision, AdmitExecution, ExecutorRaises, PersistRaises
      <4>7. ~RunCommand(r)
        <5>1. ASSUME NEW success \in BOOLEAN,
                     req' = [req EXCEPT ![r].pc = "persist", ![r].ok = success, ![r].ran = TRUE]
              PROVE  FALSE
          BY <1>1, <4>1, <4>2, <5>1 DEF Coroutine
        <5> QED BY <5>1 DEF RunCommand
      <4>8. ~DryRun(r)
        BY <1>1, <4>1, <4>2 DEF DryRun, Coroutine
      <4>9. ~PersistOutcome(r)
        BY <1>1, <4>1, <4>2 DEF PersistOutcome, Coroutine
      <4>10. ~Bookkeep(r)
        BY <4>3, <4>4 DEF Bookkeep, Recorded
      <4> QED BY <1>6, <4>5, <4>6, <4>7, <4>8, <4>9, <4>10 DEF Step
    <3>2. req'[r].action = req[r].action
      BY <1>1, <1>6, <3>1, StepShape DEF RecoverFails, Goto, Coroutine, IInv
    <3> QED BY <2>1, <3>1, <3>2 DEF RecoverFails
  <2>2. CASE q # r
    <3>1. req'[q] = req[q] /\ At(q, "fail") /\ Inside(r)
      BY <1>6, <2>2, StepShape DEF At, IInv
    <3>2. req[q].action # req[r].action
      BY <1>2, <2>2, <3>1, Alone DEF IInv
    <3>3. tracker'[req[q].action] = tracker[req[q].action]
      BY <1>2, <1>6, <3>1, <3>2, StepEntries DEF IInv
    <3> QED BY <1>2, <3>1, <3>3
  <2> QED BY <2>1, <2>2
<1>7. ASSUME NEW p \in Pod, Crash(p) PROVE FALSE
  BY <1>7, CrashEnds DEF IInv, At, Idle
<1>8. CASE UNCHANGED vars
  BY <1>2, <1>8 DEF vars, At
<1> QED BY <1>3, <1>4, <1>5, <1>6, <1>7, <1>8 DEF Next

(* On one pod with the file store an action that was rejected, executed or     *)
(* failed stays so while the process lives (engine.py 783-794): the coroutine  *)
(* that writes FAILED has read, under its lock, that EXECUTED is not stored.   *)
(* With Redis that read may fail, and FAILED overwrites it.                    *)
THEOREM TerminalStaysAlways == OnePod /\ FileStore => (Spec => TerminalStays)
<1>1. IInv /\ FailInv /\ FileStore /\ [Next]_vars =>
        [\A a \in Action : tracker[a].status \in Terminal =>
           \/ tracker'[a].status = tracker[a].status
           \/ \E p \in Pod : Crash(p)]_vars
  <2> SUFFICES ASSUME IInv, FailInv, FileStore, Next,
                      NEW a \in Action, tracker[a].status \in Terminal
               PROVE  \/ tracker'[a].status = tracker[a].status
                      \/ \E p \in Pod : Crash(p)
    OBVIOUS
  <2>1. ASSUME NEW b \in Action, NEW u \in User, CreateAction(b, u) \/ CreateBulkAction(b)
        PROVE  tracker'[a].status = tracker[a].status
    BY <2>1, CreatedEntry DEF IInv, CreateAction, CreateBulkAction, Terminal
  <2>2. ASSUME NEW r \in Request, Acquire(r)
        PROVE  tracker'[a].status = tracker[a].status
    BY <2>2 DEF Acquire
  <2>3. ASSUME NEW r \in Request, NEW p \in Pod, NEW k \in Kind, NEW b \in Action,
               NEW u \in User \cup {NoOne}, NEW d \in BOOLEAN, Arrive(r, p, k, b, u, d)
        PROVE  tracker'[a].status = tracker[a].status
    BY <2>3 DEF Arrive
  <2> QED BY <2>1, <2>2, <2>3, TerminalStep DEF Next
<1>2. Init => FailInv
  BY DEF Init, FailInv, At, Idle
<1>3. ASSUME OnePod, FileStore PROVE Spec => TerminalStays
  <2>1. Spec => []IInv
    BY <1>3, IInvAlways
  <2>2. IInv /\ FailInv /\ [Next]_vars => FailInv'
    BY <1>3, FailNext
  <2>3. IInv /\ FailInv /\ [Next]_vars =>
          [\A a \in Action : tracker[a].status \in Terminal =>
             \/ tracker'[a].status = tracker[a].status
             \/ \E p \in Pod : Crash(p)]_vars
    BY <1>1, <1>3
  <2> QED BY <1>2, <2>1, <2>2, <2>3, PTL DEF Spec, TerminalStays
<1> QED BY <1>3

-----------------------------------------------------------------------------
(* On one pod the engine implements ApprovedExecution.                        *)
LEMMA RunningApproved ==
  ASSUME IInv, NEW a \in Action, Running(a) PROVE tracker[a].status = "approved"
  BY DEF IInv, KnowledgeInv, RanInv, Running

LEMMA RefinesInit == Init => Abstract!Init
<1> SUFFICES ASSUME Init PROVE Abstract!Init
  OBVIOUS
<1>1. \A a \in Action : ~Running(a) /\ tracker[a].status = "absent"
  BY DEF Init, Empty, Running, At, Idle, NoEntry
<1> QED BY <1>1 DEF Init, Abstract!Init, phaseBar, PhaseOf

\* A step that leaves counters alone and takes the phase of one action along
\* one edge of the abstract specification, or nowhere.
LEMMA RefinesMove ==
  ASSUME NEW a \in Action, runs' = runs, lost' = lost,
         \A b \in Action : b # a => phaseBar'[b] = phaseBar[b],
         \/ phaseBar'[a] = phaseBar[a]
         \/ phaseBar[a] = "none" /\ phaseBar'[a] \in {"proposed", "cleared"}
         \/ phaseBar[a] = "proposed" /\ phaseBar'[a] \in {"cleared", "refused"}
         \/ phaseBar[a] \in {"running", "cleared"} /\ phaseBar'[a] = "settled"
  PROVE  [Abstract!Next]_(Abstract!vars)
<1>1. phaseBar' = [phaseBar EXCEPT ![a] = phaseBar'[a]]
  BY DEF phaseBar
<1>2. CASE phaseBar'[a] = phaseBar[a]
  BY <1>1, <1>2 DEF Abstract!vars, phaseBar
<1>3. CASE phaseBar[a] = "none" /\ phaseBar'[a] \in {"proposed", "cleared"}
  BY <1>1, <1>3 DEF Abstract!Next, Abstract!Propose, Abstract!Move
<1>4. CASE phaseBar[a] = "proposed" /\ phaseBar'[a] \in {"cleared", "refused"}
  BY <1>1, <1>4 DEF Abstract!Next, Abstract!Clear, Abstract!Refuse, Abstract!Move
<1>5. CASE phaseBar[a] \in {"running", "cleared"} /\ phaseBar'[a] = "settled"
  BY <1>1, <1>5 DEF Abstract!Next, Abstract!Settle, Abstract!Abandon, Abstract!Move
<1> QED BY <1>2, <1>3, <1>4, <1>5

LEMMA RefinesCreate ==
  ASSUME IInv, NEW b \in Action, NEW c \in User \cup Action \cup {NoOne},
         tracker[b].status = "absent", tracker' \in Created(tracker, b, c), runs' = runs, lost' = lost,
         \A x \in Action : Running(x)' <=> Running(x)
  PROVE  [Abstract!Next]_(Abstract!vars)
<1>1. /\ tracker'[b].status \in {"pending", "approved"}
      /\ \A x \in Action : x # b => tracker'[x] = tracker[x]
  BY CreatedEntry DEF IInv
<1>2. ~Running(b)
  BY RunningApproved
<1>3. phaseBar[b] = "none" /\ phaseBar'[b] \in {"proposed", "cleared"}
  BY <1>1, <1>2 DEF phaseBar, PhaseOf
<1>4. \A x \in Action : x # b => phaseBar'[x] = phaseBar[x]
  BY <1>1 DEF phaseBar
<1> QED BY <1>3, <1>4, RefinesMove

LEMMA RefinesStep ==
  ASSUME OnePod, IInv, NEW r \in Request, Step(r), NEW a \in Action, a = req[r].action
  PROVE  [Abstract!Next]_(Abstract!vars)
<1>1. /\ Inside(r) /\ ~At(r, "idle")
      /\ Running(a) <=> req[r].ran
      /\ Running(a)' <=> ~At(r, "idle")' /\ req'[r].ran
      /\ \A b \in Action : b # a => (Running(b)' <=> Running(b))
  BY RunningStep, StepShape DEF IInv, Inside
<1>2. req \in [Request -> Coroutine \cup {Idle}] /\ req[r] \in Coroutine
      /\ tracker \in [Action -> Entry] /\ tracker[a] \in Entry
      /\ runs \in [Action -> Nat] /\ lost \in [Action -> Nat]
  BY StepShape DEF IInv, TypeOK
<1>3. KnowsStatus(r) /\ RanInv(r)
  BY <1>1 DEF IInv, KnowledgeInv
<1>4. ASSUME ~Bookkeep(r)
      PROVE  \A b \in Action : b # a => phaseBar'[b] = phaseBar[b]
  BY <1>1, <1>4, StepEntries DEF IInv, phaseBar
<1>5. ASSUME NEW s, NEW u, SetStatus(a, s, u) PROVE tracker'[a].status = s
  BY <1>2, <1>5 DEF SetStatus, Entry
<1>6. ASSUME NEW pc, Goto(r, pc) PROVE req'[r].pc = pc /\ req'[r].ran = req[r].ran
  BY <1>2, <1>6 DEF Goto, Coroutine
<1>7. ASSUME Finish(r) PROVE At(r, "idle")'
  BY <1>2, <1>7 DEF Finish, At, Idle
<1>8. CASE Bookkeep(r)
  <2>1. Finish(r) \/ Goto(r, "recover")
    BY <1>8 DEF Bookkeep, Recorded
  <2>2. ~req[r].ran /\ runs' = runs /\ lost' = lost
    BY <1>3, <1>8 DEF Bookkeep, RanInv
  <2>3. \A b \in Action : Running(b)' <=> Running(b)
    BY <1>1, <1>6, <1>7, <2>1, <2>2
  <2>4. CASE UNCHANGED tracker
    BY <2>2, <2>3, <2>4 DEF Abstract!vars, phaseBar
  <2>5. ASSUME NEW b \in Action, tracker[b].status = "absent",
               tracker' \in Created(tracker, b, a)
        PROVE  [Abstract!Next]_(Abstract!vars)
    BY <2>2, <2>3, <2>5, RefinesCreate
  <2> QED BY <1>8, <2>4, <2>5 DEF Bookkeep, Rollback
<1>9. CASE RunCommand(r)
  <2>1. /\ runs' = [runs EXCEPT ![a] = @ + 1] /\ lost' = lost
        /\ req'[r].pc = "persist" /\ req'[r].ran
    BY <1>2, <1>9 DEF RunCommand, Coroutine
  <2>2. ~req[r].ran /\ tracker[a].status = "approved" /\ ~Bookkeep(r)
    BY <1>3, <1>9 DEF RunCommand, Bookkeep, RanInv, KnowsStatus, At
  <2>3. phaseBar[a] = "cleared" /\ phaseBar'[a] = "running"
    BY <1>1, <2>1, <2>2 DEF phaseBar, PhaseOf, At
  <2>4. phaseBar' = [phaseBar EXCEPT ![a] = "running"]
    BY <1>4, <2>2, <2>3 DEF phaseBar
  <2> QED BY <2>1, <2>3, <2>4 DEF Abstract!Next, Abstract!Start, Abstract!Move
<1>10. CASE MarkFailedRaises(r)
  <2>1. /\ runs' = runs /\ tracker' = tracker /\ At(r, "idle")' /\ ~Bookkeep(r)
        /\ lost' = IF req[r].ran THEN [lost EXCEPT ![a] = @ + 1] ELSE lost
    BY <1>7, <1>10 DEF MarkFailedRaises, RaisesBefore, Bookkeep, At
  <2>2. CASE ~req[r].ran
    <3>1. phaseBar'[a] = phaseBar[a]
      BY <1>1, <2>1, <2>2 DEF phaseBar
    <3> QED BY <1>4, <2>1, <2>2, <3>1, RefinesMove
  <2>3. CASE req[r].ran
    <3>1. phaseBar[a] = "running" /\ phaseBar'[a] = "cleared"
      BY <1>1, <2>1, <2>3, RunningApproved DEF phaseBar, PhaseOf
    <3>2. phaseBar' = [b \in Action |-> IF b \in {a} THEN "cleared" ELSE phaseBar[b]]
      BY <1>4, <2>1, <3>1 DEF phaseBar
    <3>3. lost' = [b \in Action |-> IF b \in {a} THEN lost[b] + 1 ELSE lost[b]]
      BY <1>2, <2>1, <2>3
    <3>4. Abstract!Forfeit({a})
      BY <2>1, <3>1, <3>2, <3>3 DEF Abstract!Forfeit
    <3> QED BY <3>4 DEF Abstract!Next
  <2> QED BY <2>2, <2>3
<1>11. CASE Decide(r)
  <2>1. /\ runs' = runs /\ lost' = lost /\ At(r, "idle")' /\ ~Bookkeep(r)
        /\ tracker[a].status = "pending" /\ ~req[r].ran
    BY <1>3, <1>7, <1>11 DEF Decide, RaisesBefore, Bookkeep, At, KnowsStatus, RanInv
  <2>2. tracker'[a].status \in {"pending", "approved", "rejected"}
    BY <1>2, <1>5, <1>11, <2>1 DEF Decide, RaisesBefore, StoreDecision, Entry
  <2>3. /\ phaseBar[a] = "proposed"
        /\ phaseBar'[a] \in {"proposed", "cleared", "refused"}
    BY <1>1, <2>1, <2>2 DEF phaseBar, PhaseOf
  <2> QED BY <1>4, <2>1, <2>3, RefinesMove
<1>12. CASE PersistOutcome(r)
  <2>1. /\ runs' = runs /\ lost' = lost /\ ~Bookkeep(r) /\ tracker'[a].status = Outcome(r)
        /\ ~req'[r].ran /\ tracker[a].status = "approved" /\ req[r].ran = ~req[r].dry
    BY <1>2, <1>3, <1>5, <1>12
    DEF PersistOutcome, Bookkeep, At, KnowsStatus, RanInv, Coroutine
  <2>2. \/ phaseBar'[a] = phaseBar[a]
        \/ phaseBar[a] = "running" /\ phaseBar'[a] = "settled"
    BY <1>1, <2>1 DEF phaseBar, PhaseOf, Outcome
  <2> QED BY <1>4, <2>1, <2>2, RefinesMove
<1>13. CASE MarkFailed(r)
  <2>1. /\ runs' = runs /\ lost' = lost /\ ~Bookkeep(r) /\ At(r, "idle")'
        /\ tracker'[a].status = "failed"
        /\ tracker[a].status \in {"approved", "executed", "failed"}
    BY <1>3, <1>5, <1>7, <1>13 DEF MarkFailed, Bookkeep, At, KnowsStatus
  <2>2. phaseBar[a] \in {"running", "cleared", "settled"} /\ phaseBar'[a] = "settled"
    BY <1>1, <2>1 DEF phaseBar, PhaseOf
  <2> QED BY <1>4, <2>1, <2>2, RefinesMove
<1>14. CASE Refuse(r) \/ RecoverKeeps(r)
  <2>1. /\ runs' = runs /\ lost' = lost /\ ~Bookkeep(r) /\ At(r, "idle")'
        /\ tracker' = tracker /\ ~req[r].ran
    BY <1>3, <1>7, <1>14 DEF Refuse, RecoverKeeps, Bookkeep, At, RanInv
  <2>2. phaseBar'[a] = phaseBar[a]
    BY <1>1, <2>1 DEF phaseBar
  <2> QED BY <1>4, <2>1, <2>2, RefinesMove
<1>15. CASE AdmitDecision(r) \/ AdmitExecution(r) \/ DryRun(r) \/ ExecutorRaises(r)
            \/ PersistRaises(r) \/ RecoverFails(r)
  <2>1. runs' = runs /\ lost' = lost /\ tracker' = tracker /\ ~Bookkeep(r)
    BY <1>15 DEF AdmitDecision, AdmitExecution, DryRun, ExecutorRaises, PersistRaises,
       RaisesBefore, RecoverFails, Bookkeep, At
  <2>2. req'[r].ran = req[r].ran /\ ~At(r, "idle")'
    BY <1>2, <1>6, <1>15 DEF AdmitDecision, AdmitExecution, DryRun, ExecutorRaises,
       PersistRaises, RecoverFails, At, Coroutine
  <2>3. phaseBar'[a] = phaseBar[a]
    BY <1>1, <2>1, <2>2 DEF phaseBar
  <2> QED BY <1>4, <2>1, <2>3, RefinesMove
<1> QED BY <1>8, <1>9, <1>10, <1>11, <1>12, <1>13, <1>14, <1>15 DEF Step

LEMMA RefinesNext == OnePod /\ ~FileStore /\ IInv /\ [Next]_vars => [Abstract!Next]_(Abstract!vars)
<1> SUFFICES ASSUME OnePod, ~FileStore, IInv, [Next]_vars
             PROVE  [Abstract!Next]_(Abstract!vars)
  OBVIOUS
<1>0. TypeOK
  BY DEF IInv
<1>1. ASSUME NEW b \in Action, NEW u \in User, CreateAction(b, u) \/ CreateBulkAction(b)
      PROVE  [Abstract!Next]_(Abstract!vars)
  <2>1. \A x \in Action : Running(x)' <=> Running(x)
    BY <1>1 DEF CreateAction, CreateBulkAction, Running, At
  <2>2. /\ tracker[b].status = "absent" /\ runs' = runs /\ lost' = lost
        /\ \/ tracker' \in Created(tracker, b, u)
           \/ tracker' \in Created(tracker, b, NoOne)
    BY <1>1 DEF CreateAction, CreateBulkAction
  <2> QED BY <2>1, <2>2, RefinesCreate
<1>2. ASSUME NEW r \in Request, NEW p \in Pod, NEW k \in Kind, NEW b \in Action,
             NEW u \in User \cup {NoOne}, NEW d \in BOOLEAN, Arrive(r, p, k, b, u, d)
      PROVE  [Abstract!Next]_(Abstract!vars)
  <2>1. \A q \in Request : q # r => req'[q] = req[q]
    BY <1>0, <1>2 DEF Arrive, TypeOK
  <2>2. At(r, "idle") /\ ~req'[r].ran
    BY <1>0, <1>2 DEF Arrive, TypeOK
  <2>3. \A x \in Action : Running(x)' <=> Running(x)
    BY <2>1, <2>2 DEF Running, At
  <2> QED BY <1>2, <2>3 DEF Arrive, Abstract!vars, phaseBar
<1>3. ASSUME NEW r \in Request, Acquire(r)
      PROVE  [Abstract!Next]_(Abstract!vars)
  <2>1. \A q \in Request : q # r => req'[q] = req[q]
    BY <1>0, <1>3 DEF Acquire, Goto, TypeOK
  <2>2. req[r] \in Coroutine
    BY <1>0, <1>3, StepBusy DEF TypeOK, Idle, At
  <2>3. req'[r].pc = "read" /\ req'[r].ran = req[r].ran /\ req'[r].action = req[r].action
    BY <1>0, <1>3, <2>2 DEF Acquire, Goto, TypeOK, Coroutine
  <2>4. \A x \in Action : Running(x)' <=> Running(x)
    BY <1>3, <2>1, <2>3, StepBusy DEF Running, At
  <2> QED BY <1>3, <2>4 DEF Acquire, Abstract!vars, phaseBar
<1>4. ASSUME NEW r \in Request, Step(r)
      PROVE  [Abstract!Next]_(Abstract!vars)
  <2>1. req[r].action \in Action
    BY <1>0, <1>4, StepShape DEF Coroutine
  <2> QED BY <1>4, <2>1, RefinesStep
<1>5. ASSUME NEW p \in Pod, Crash(p)
      PROVE  [Abstract!Next]_(Abstract!vars)
  <2> DEFINE S == {x \in Action : Running(x)}
  <2>1. \A x \in Action : RunLostOn(p, x) <=> Running(x)
    BY <1>0, <1>5, CrashEnds
  <2>2. \A x \in Action : ~Running(x)'
    BY <1>0, <1>5, CrashEnds DEF Running, At, Idle
  <2>3. tracker' = tracker /\ runs' = runs
    BY <1>5 DEF Crash
  <2>4. \A x \in Action : ~OutcomeLost(x)
    BY <2>3 DEF OutcomeLost
  <2>5. phaseBar' = [x \in Action |-> IF x \in S THEN "cleared" ELSE phaseBar[x]]
    BY <2>2, <2>3, RunningApproved DEF phaseBar, PhaseOf
  <2>6. lost' = [x \in Action |-> IF x \in S THEN lost[x] + 1 ELSE lost[x]]
    BY <1>5, <2>1, <2>4 DEF Crash
  <2>7. \A x \in S : phaseBar[x] = "running"
    BY DEF phaseBar
  <2>8. Abstract!Forfeit(S)
    BY <2>3, <2>5, <2>6, <2>7 DEF Abstract!Forfeit
  <2>9. S \in SUBSET Action
    OBVIOUS
  <2> QED BY <2>8, <2>9 DEF Abstract!Next
<1>6. CASE UNCHANGED vars
  BY <1>6 DEF vars, Abstract!vars, phaseBar, Running, At
<1> QED BY <1>1, <1>2, <1>3, <1>4, <1>5, <1>6 DEF Next

(* On one pod with the Redis store the engine implements the promises of      *)
(* ApprovedExecution: every step of it is a step of the abstract workflow or  *)
(* a stutter (engine.py 88-807).                                              *)
THEOREM EngineImplementsWorkflow ==
  OnePod /\ ~FileStore => (Spec => ImplementsApprovedExecution)
<1>1. ASSUME OnePod, ~FileStore PROVE Spec => Abstract!Spec
  <2>1. Spec => []IInv
    BY <1>1, IInvAlways
  <2>2. IInv /\ [Next]_vars => [Abstract!Next]_(Abstract!vars)
    BY <1>1, RefinesNext
  <2> QED BY <2>1, <2>2, RefinesInit, PTL DEF Spec, Abstract!Spec
<1> QED BY <1>1 DEF ImplementsApprovedExecution

-----------------------------------------------------------------------------
(* Approvals on Redis, on any number of pods.  An entry never goes away there, *)
(* and nothing but an approval writes its approver, so whoever was admitted to *)
(* an approved entry acts on an approval that stands.                        *)
Acting == {"run", "persist", "bookkeep", "recover", "fail"}

\* What the approval of an entry is worth.
Approved(e) == /\ e.approver # NoOne
               /\ e.approver = e.createdBy => AllowSelfApproval

EntryInv(a) ==
  LET e == tracker[a] IN
  /\ e.status = "absent" => runs[a] = 0
  /\ /\ e.policy = "needs_approval"
     /\ e.status \in {"approved", "executed", "failed"} \/ runs[a] > 0
     => Approved(e)

CallerInv(r) ==
  LET e == tracker[req[r].action] IN
  /\ req[r].kind = "approve" => req[r].user \in User
  /\ At(r, "decide") => /\ e.status # "absent"
                        /\ req[r].kind = "approve" /\ req[r].user = e.createdBy => AllowSelfApproval
  /\ req[r].pc \in Acting => /\ e.status # "absent"
                             /\ e.policy = "needs_approval" => Approved(e)

ApprovalInv == /\ \A a \in Action : EntryInv(a)
               /\ \A r \in Request : ~At(r, "idle") => CallerInv(r)

(* What a step may make of an entry that exists: its creator and its policy    *)
(* stay, and its approver unless it is being approved.                       *)
Kept(e, f) == /\ f.status # "absent" /\ f.createdBy = e.createdBy /\ f.policy = e.policy
              /\ f.approver = e.approver

LEMMA StatusKept ==
  ASSUME TypeOK, NEW a \in Action, NEW s \in Status \ {"absent"}, NEW u, SetStatus(a, s, u),
         tracker[a].status # "absent"
  PROVE  Kept(tracker[a], tracker'[a]) /\ tracker'[a].status = s
  BY DEF TypeOK, Entry, SetStatus, Kept

(* The entry a step of r is about, and the step itself.                       *)
LEMMA ActingStep ==
  ASSUME TypeOK, ApprovalInv, NEW r \in Request, Step(r), ~Decide(r)
  PROVE  LET a == req[r].action IN
         /\ tracker'[a] = tracker[a] \/ /\ Kept(tracker[a], tracker'[a])
                                        /\ req[r].pc \in Acting
         /\ ~At(r, "idle")' => CallerInv(r)'
<1> DEFINE a == req[r].action
<1>1. /\ req[r] \in Coroutine /\ a \in Action /\ ~At(r, "idle") /\ CallerInv(r)
      /\ tracker \in [Action -> Entry] /\ req \in [Request -> Coroutine \cup {Idle}]
  BY StepShape DEF Coroutine, ApprovalInv, TypeOK, Inside
<1> HIDE DEF a
<1>2. a = req[r].action
  BY DEF a
<1>3. EntryInv(a)
  BY <1>1 DEF ApprovalInv
<1>k. ASSUME tracker'[a] = tracker[a] \/ Kept(tracker[a], tracker'[a]),
             req[r].pc \in Acting, req'[r].pc \in Acting \cup {"idle"},
             req'[r].pc # "idle" => req'[r].action = a /\ req'[r].kind = req[r].kind
                                    /\ req'[r].user = req[r].user
      PROVE  ~At(r, "idle")' => CallerInv(r)'
  BY <1>1, <1>2, <1>k DEF CallerInv, Kept, Approved, At, Acting
<1>4. CASE Refuse(r)
  BY <1>1, <1>4 DEF Refuse, Finish, At, Idle
<1>5. CASE AdmitDecision(r)
  <2>1. tracker' = tracker /\ req' = [req EXCEPT ![r].pc = "decide"]
    BY <1>5 DEF AdmitDecision, Goto
  <2>2. /\ tracker[a].status = "pending"
        /\ req[r].kind = "approve" /\ req[r].user = tracker[a].createdBy => AllowSelfApproval
    BY <1>5, <1>2 DEF AdmitDecision, SelfApproval
  <2> QED BY <1>1, <1>2, <2>1, <2>2 DEF CallerInv, At, Acting, Coroutine
<1>6. CASE AdmitExecution(r)
  <2>1. tracker' = tracker /\ req' = [req EXCEPT ![r].pc = "run"]
    BY <1>6 DEF AdmitExecution, Goto
  <2>2. tracker[a].status = "approved" /\ (tracker[a].policy = "needs_approval" => Approved(tracker[a]))
    BY <1>6, <1>2, <1>3 DEF AdmitExecution, EntryInv
  <2> QED BY <1>1, <1>2, <2>1, <2>2 DEF CallerInv, At, Acting, Coroutine, Approved
<1>7. CASE RunCommand(r)
  <2>1. PICK success \in BOOLEAN :
          req' = [req EXCEPT ![r].pc = "persist", ![r].ok = success, ![r].ran = TRUE]
    BY <1>7 DEF RunCommand
  <2>2. tracker' = tracker /\ req[r].pc = "run"
    BY <1>7 DEF RunCommand, At
  <2> QED BY <1>1, <1>2, <1>k, <2>1, <2>2 DEF Coroutine, Acting
<1>8. CASE DryRun(r) \/ ExecutorRaises(r) \/ RecoverFails(r)
  <2>1. tracker' = tracker /\ req[r].pc \in Acting
    BY <1>8 DEF DryRun, ExecutorRaises, RecoverFails, At, Acting
  <2>2. \/ req' = [req EXCEPT ![r].pc = "persist", ![r].ok = TRUE]
        \/ req' = [req EXCEPT ![r].pc = "recover"]
        \/ req' = [req EXCEPT ![r].pc = "fail"]
    BY <1>8 DEF DryRun, ExecutorRaises, RecoverFails, Goto
  <2> QED BY <1>1, <1>2, <1>k, <2>1, <2>2 DEF Coroutine, Acting
<1>9. CASE PersistOutcome(r)
  <2>1. req[r].pc = "persist" /\ tracker[a].status # "absent"
    BY <1>1, <1>2, <1>9 DEF PersistOutcome, CallerInv, At, Acting
  <2>2. SetStatus(a, Outcome(r), req[r].user) /\ Outcome(r) \in Status \ {"absent"}
    BY <1>2, <1>9 DEF PersistOutcome, Outcome, Status
  <2>3. Kept(tracker[a], tracker'[a])
    BY <1>1, <2>1, <2>2, StatusKept
  <2>4. \/ req' = [req EXCEPT ![r].pc = "bookkeep", ![r].ran = FALSE]
        \/ req' = [req EXCEPT ![r].pc = "recover", ![r].ran = FALSE]
    BY <1>9 DEF PersistOutcome
  <2> QED BY <1>1, <1>2, <1>k, <2>1, <2>3, <2>4 DEF Coroutine, Acting
<1>10. CASE PersistRaises(r)
  <2>1. tracker' = tracker /\ req[r].pc = "persist" /\ req' = [req EXCEPT ![r].pc = "recover"]
    BY <1>10 DEF PersistRaises, RaisesBefore, Goto, At
  <2> QED BY <1>1, <1>2, <1>k, <2>1 DEF Coroutine, Acting
<1>11. CASE Bookkeep(r)
  <2>1. req[r].pc = "bookkeep" /\ tracker[a].status # "absent"
    BY <1>1, <1>2, <1>11 DEF Bookkeep, CallerInv, At, Acting
  <2>2. tracker'[a] = tracker[a]
    BY <1>1, <1>2, <1>11, <2>1, CreatedEntry DEF Bookkeep, Rollback
  <2>3. req' = [req EXCEPT ![r] = Idle] \/ req' = [req EXCEPT ![r].pc = "recover"]
    BY <1>11 DEF Bookkeep, Recorded, Finish, Goto
  <2> QED BY <1>1, <1>2, <1>k, <2>1, <2>2, <2>3 DEF Coroutine, Acting, Idle
<1>12. CASE RecoverKeeps(r) \/ MarkFailedRaises(r)
  <2>1. tracker' = tracker /\ req' = [req EXCEPT ![r] = Idle]
    BY <1>12 DEF RecoverKeeps, MarkFailedRaises, RaisesBefore, Finish
  <2> QED BY <1>1, <2>1 DEF At, Idle
<1>13. CASE MarkFailed(r)
  <2>1. req[r].pc = "fail" /\ tracker[a].status # "absent"
    BY <1>1, <1>2, <1>13 DEF MarkFailed, CallerInv, At, Acting
  <2>2. SetStatus(a, "failed", req[r].user)
    BY <1>2, <1>13 DEF MarkFailed
  <2>3. Kept(tracker[a], tracker'[a])
    BY <1>1, <2>1, <2>2, StatusKept DEF Status
  <2>4. req' = [req EXCEPT ![r] = Idle]
    BY <1>13 DEF MarkFailed, Finish
  <2> QED BY <1>1, <1>2, <2>1, <2>3, <2>4 DEF At, Idle, Acting
<1> QED BY <1>2, <1>4, <1>5, <1>6, <1>7, <1>8, <1>9, <1>10, <1>11, <1>12, <1>13 DEF Step

(* A decision is taken on an entry that exists, and an approval is one of      *)
(* somebody who may approve.                                                 *)
LEMMA DecideStep ==
  ASSUME TypeOK, ApprovalInv, NEW r \in Request, Decide(r)
  PROVE  LET a == req[r].action
             e == tracker[a]
             f == tracker'[a]
         IN
         /\ ~At(r, "idle") /\ At(r, "idle")' /\ e.status # "absent" /\ UNCHANGED runs
         /\ \/ f = e
            \/ Kept(e, f) /\ f.status = "rejected"
            \/ /\ f.createdBy = e.createdBy /\ f.policy = e.policy
               /\ f.status = "approved" /\ Approved(f)
<1> DEFINE a == req[r].action
<1>1. /\ req[r] \in Coroutine /\ a \in Action /\ ~At(r, "idle") /\ CallerInv(r) /\ At(r, "decide")
      /\ tracker \in [Action -> Entry] /\ req \in [Request -> Coroutine \cup {Idle}]
  BY DEF Coroutine, ApprovalInv, TypeOK, Decide, RaisesBefore, At, Idle
<1> HIDE DEF a
<1>2. a = req[r].action
  BY DEF a
<1>3. /\ tracker[a].status # "absent"
      /\ req[r].kind = "approve" => /\ req[r].user \in User
                                    /\ req[r].user = tracker[a].createdBy => AllowSelfApproval
  BY <1>1, <1>2 DEF CallerInv
<1>4. At(r, "idle")' /\ UNCHANGED runs
  BY <1>1 DEF Decide, Finish, At, Idle
<1>5. CASE StoreDecision(r) /\ req[r].kind = "approve"
  <2>1. tracker' = [tracker EXCEPT ![a].status = "approved", ![a].approvedBy = req[r].user,
                                   ![a].approver = req[r].user]
    BY <1>2, <1>5 DEF StoreDecision
  <2>2. /\ tracker'[a].status = "approved" /\ tracker'[a].approver = req[r].user
        /\ tracker'[a].createdBy = tracker[a].createdBy /\ tracker'[a].policy = tracker[a].policy
    BY <1>1, <2>1 DEF Entry
  <2>3. Approved(tracker'[a])
    BY <1>3, <1>5, <2>2, NullsAssumption DEF Approved
  <2> QED BY <1>1, <1>2, <1>3, <1>4, <2>2, <2>3
<1>6. CASE StoreDecision(r) /\ req[r].kind # "approve"
  <2>1. SetStatus(a, "rejected", req[r].user)
    BY <1>2, <1>6 DEF StoreDecision
  <2>2. Kept(tracker[a], tracker'[a]) /\ tracker'[a].status = "rejected"
    BY <1>1, <1>3, <2>1, StatusKept DEF Status
  <2> QED BY <1>1, <1>2, <1>3, <1>4, <2>2
<1>7. CASE RaisesBefore
  BY <1>1, <1>2, <1>3, <1>4, <1>7 DEF RaisesBefore
<1> QED BY <1>5, <1>6, <1>7 DEF Decide

(* What any step makes of any entry.                                         *)
Born(e, f) == /\ e.status = "absent" /\ f.status \in {"pending", "approved"}
              /\ f.policy = "needs_approval" => f.status = "pending"
Move(e, f) == \/ f = e
              \/ Kept(e, f) /\ e.status # "absent"
              \/ /\ e.status # "absent" /\ f.status # "absent"
                 /\ f.createdBy = e.createdBy /\ f.policy = e.policy /\ Approved(f)
              \/ Born(e, f)

LEMMA CreatedBorn ==
  ASSUME TypeOK, NEW a \in Action, tracker[a].status = "absent",
         NEW c \in User \cup Action \cup {NoOne}, tracker' \in Created(tracker, a, c)
  PROVE  Born(tracker[a], tracker'[a])
<1>1. PICK pol \in Verdicts, per \in BOOLEAN, hi \in BOOLEAN :
        tracker' = [tracker EXCEPT ![a] = BornEntry(c, pol, per, hi)]
  BY DEF Created
<1> QED BY <1>1 DEF TypeOK, Born, BornEntry, RequiresApproval

LEMMA StepMoves ==
  ASSUME TypeOK, ApprovalInv, NEW r \in Request, Step(r), NEW a \in Action
  PROVE  Move(tracker[a], tracker'[a])
<1>1. CASE a = req[r].action
  <2>1. CASE Decide(r)
    BY <1>1, <2>1, DecideStep DEF Move
  <2>2. CASE ~Decide(r)
    <3>1. req[r].pc \in Acting => tracker[a].status # "absent"
      BY <1>1, StepShape DEF ApprovalInv, CallerInv, Inside
    <3> QED BY <1>1, <2>2, <3>1, ActingStep DEF Move
  <2> QED BY <2>1, <2>2
<1>2. CASE a # req[r].action
  <2>1. CASE tracker[a].status # "absent" \/ ~Bookkeep(r)
    BY <1>2, <2>1, StepEntries DEF Move
  <2>2. CASE tracker[a].status = "absent" /\ Bookkeep(r)
    <3>1. CASE tracker' = tracker
      BY <3>1 DEF Move
    <3>2. CASE Rollback(r)
      <4>1. PICK b \in Action : /\ tracker[b].status = "absent"
                                /\ tracker' \in Created(tracker, b, req[r].action)
        BY <3>2 DEF Rollback
      <4>2. req[r].action \in Action
        BY StepShape DEF Coroutine
      <4>3. CASE a = b
        BY <4>1, <4>2, <4>3, CreatedBorn DEF Move
      <4>4. CASE a # b
        BY <4>1, <4>2, <4>4, CreatedEntry DEF Move
      <4> QED BY <4>3, <4>4
    <3> QED BY <2>2, <3>1, <3>2 DEF Bookkeep
  <2> QED BY <2>1, <2>2
<1> QED BY <1>1, <1>2

(* A coroutine that does not move loses nothing by any of these.              *)
LEMMA CallerStays ==
  ASSUME TypeOK, NEW q \in Request, ~At(q, "idle"), CallerInv(q), req'[q] = req[q],
         Move(tracker[req[q].action], tracker'[req[q].action])
  PROVE  CallerInv(q)'
<1>1. req[q] \in Coroutine
  BY DEF TypeOK, At, Idle
<1> QED BY <1>1 DEF Move, Kept, Born, CallerInv, Approved, At, Acting

(* An entry that counts no further run stays in order.                        *)
LEMMA EntryStays ==
  ASSUME TypeOK, NEW a \in Action, EntryInv(a), UNCHANGED runs,
         \/ tracker'[a] = tracker[a]
         \/ Born(tracker[a], tracker'[a])
  PROVE  EntryInv(a)'
  BY DEF TypeOK, EntryInv, Born, Approved

LEMMA EntryStep ==
  ASSUME TypeOK, ApprovalInv, NEW r \in Request, Step(r), NEW a \in Action
  PROVE  EntryInv(a)'
<1>0. EntryInv(a) /\ runs \in [Action -> Nat] /\ ~At(r, "idle") /\ CallerInv(r)
  BY StepShape DEF ApprovalInv, TypeOK, Inside
<1>1. CASE a = req[r].action
  <2>1. CASE Decide(r)
    BY <1>0, <1>1, <2>1, DecideStep DEF EntryInv, Kept, Approved
  <2>2. CASE ~Decide(r) /\ req[r].pc \in Acting
    <3>1. /\ tracker[a].status # "absent"
          /\ tracker[a].policy = "needs_approval" => Approved(tracker[a])
      BY <1>0, <1>1, <2>2 DEF CallerInv
    <3>2. tracker'[a] = tracker[a] \/ Kept(tracker[a], tracker'[a])
      BY <1>1, <2>2, ActingStep
    <3> QED BY <3>1, <3>2 DEF EntryInv, Kept, Approved
  <2>3. CASE ~Decide(r) /\ req[r].pc \notin Acting
    <3>1. tracker'[a] = tracker[a]
      BY <1>1, <2>3, ActingStep
    <3>2. ~RunCommand(r)
      BY <2>3 DEF RunCommand, At, Acting
    <3>3. runs'[a] = runs[a]
      BY <3>2, StepCounts
    <3> QED BY <1>0, <3>1, <3>3 DEF EntryInv, Approved
  <2> QED BY <2>1, <2>2, <2>3
<1>2. CASE a # req[r].action
  <2>1. runs'[a] = runs[a]
    BY <1>2, StepCounts
  <2>2. CASE tracker'[a] = tracker[a]
    BY <1>0, <2>1, <2>2 DEF EntryInv, Approved
  <2>3. CASE tracker'[a] # tracker[a]
    <3>1. tracker[a].status = "absent" /\ Bookkeep(r)
      BY <1>2, <2>3, StepEntries
    <3>2. Born(tracker[a], tracker'[a])
      BY <2>3, <3>1, StepMoves DEF Move, Kept
    <3> QED BY <1>0, <2>1, <3>2 DEF EntryInv, Born, Approved
  <2> QED BY <2>2, <2>3
<1> QED BY <1>1, <1>2

LEMMA ApprovalInit == Init => ApprovalInv
  BY DEF Init, Empty, NoEntry, Idle, ApprovalInv, EntryInv, At

LEMMA ApprovalNext == ASSUME ~FileStore, TypeOK, ApprovalInv, [Next]_vars PROVE ApprovalInv'
<1>m. ASSUME \A a \in Action : Move(tracker[a], tracker'[a])
      PROVE  \A q \in Request : ~At(q, "idle") /\ req'[q] = req[q] => CallerInv(q)'
  <2> SUFFICES ASSUME NEW q \in Request, ~At(q, "idle"), req'[q] = req[q] PROVE CallerInv(q)'
    OBVIOUS
  <2>1. req[q].action \in Action
    BY DEF TypeOK, Coroutine, At, Idle
  <2> QED BY <1>m, <2>1, CallerStays DEF ApprovalInv
<1>1. ASSUME NEW b \in Action, NEW u \in User, CreateAction(b, u) \/ CreateBulkAction(b)
      PROVE  ApprovalInv'
  <2>1. PICK c \in User \cup Action \cup {NoOne} : tracker' \in Created(tracker, b, c)
    BY <1>1 DEF CreateAction, CreateBulkAction
  <2>2. tracker[b].status = "absent" /\ req' = req /\ runs' = runs
    BY <1>1 DEF CreateAction, CreateBulkAction
  <2>3. \A a \in Action : tracker'[a] = tracker[a] \/ Born(tracker[a], tracker'[a])
    <3>1. Born(tracker[b], tracker'[b])
      BY <2>1, <2>2, CreatedBorn
    <3>2. \A a \in Action : a # b => tracker'[a] = tracker[a]
      BY <2>1, CreatedEntry
    <3> QED BY <3>1, <3>2
  <2>4. \A a \in Action : EntryInv(a)'
    BY <2>2, <2>3, EntryStays DEF ApprovalInv
  <2>5. \A q \in Request : ~At(q, "idle") => CallerInv(q)'
    BY <1>m, <2>2, <2>3 DEF Move
  <2> QED BY <2>2, <2>4, <2>5 DEF ApprovalInv, At
<1>2. ASSUME UNCHANGED <<tracker, runs>>,
             \A q \in Request : ~At(q, "idle")' => \/ req'[q] = req[q]
                                                   \/ CallerInv(q)'
      PROVE  ApprovalInv'
  <2>1. \A a \in Action : EntryInv(a)'
    BY <1>2, EntryStays DEF ApprovalInv
  <2>2. \A q \in Request : ~At(q, "idle") /\ req'[q] = req[q] => CallerInv(q)'
    BY <1>m, <1>2 DEF Move
  <2> QED BY <1>2, <2>1, <2>2 DEF ApprovalInv, At
<1>3. ASSUME NEW r \in Request, NEW p \in Pod, NEW k \in Kind, NEW a \in Action,
             NEW u \in User \cup {NoOne}, NEW d \in BOOLEAN, Arrive(r, p, k, a, u, d)
      PROVE  ApprovalInv'
  <2>1. /\ \A q \in Request : q # r => req'[q] = req[q]
        /\ req'[r].pc = "wait" /\ req'[r].kind = k /\ req'[r].user = u
        /\ k = "approve" => u \in User
    BY <1>3 DEF Arrive, TypeOK
  <2>2. CallerInv(r)'
    BY <2>1 DEF CallerInv, At, Acting
  <2> QED BY <1>2, <1>3, <2>1, <2>2 DEF Arrive
<1>4. ASSUME NEW r \in Request, Acquire(r) PROVE ApprovalInv'
  <2>1. /\ \A q \in Request : q # r => req'[q] = req[q]
        /\ req'[r].pc = "read" /\ req'[r].kind = req[r].kind /\ req'[r].user = req[r].user
    BY <1>4, StepBusy DEF Acquire, Goto, TypeOK, Coroutine, At, Idle
  <2>2. CallerInv(r)
    BY <1>4, StepBusy DEF ApprovalInv
  <2>3. CallerInv(r)'
    BY <2>1, <2>2 DEF CallerInv, At, Acting
  <2> QED BY <1>2, <1>4, <2>1, <2>3 DEF Acquire
<1>5. ASSUME NEW r \in Request, Step(r) PROVE ApprovalInv'
  <2>1. \A a \in Action : EntryInv(a)'
    BY <1>5, EntryStep
  <2>2. \A q \in Request : q # r /\ ~At(q, "idle")' => CallerInv(q)'
    BY <1>5, <1>m, StepMoves, StepShape DEF At
  <2>3. ~At(r, "idle")' => CallerInv(r)'
    BY <1>5, ActingStep, DecideStep
  <2> QED BY <2>1, <2>2, <2>3 DEF ApprovalInv
<1>6. ASSUME NEW p \in Pod, Crash(p) PROVE ApprovalInv'
  <2>1. UNCHANGED <<tracker, runs>>
    BY <1>6 DEF Crash
  <2>2. \A q \in Request : req'[q] = req[q] \/ At(q, "idle")'
    BY <1>6 DEF Crash, At, Idle
  <2> QED BY <1>2, <2>1, <2>2
<1>7. CASE UNCHANGED vars
  BY <1>2, <1>7 DEF vars
<1> QED BY <1>1, <1>3, <1>4, <1>5, <1>6, <1>7 DEF Next

(* On the Redis store, with any number of pods, a command that the policy      *)
(* sends to approval has run only with the approval of somebody other than     *)
(* its creator, unless self-approval is allowed (engine.py 284-308).           *)
THEOREM SecondPersonApprovedAlways == ~FileStore => (Spec => []SecondPersonApproved)
<1>1. ApprovalInv => SecondPersonApproved
  BY DEF ApprovalInv, EntryInv, Approved, SecondPersonApproved
<1>2. ASSUME ~FileStore PROVE Spec => []SecondPersonApproved
  <2>1. Init => TypeOK /\ ApprovalInv
    BY TypeInit, ApprovalInit
  <2>2. TypeOK /\ ApprovalInv /\ [Next]_vars => (TypeOK /\ ApprovalInv)'
    BY <1>2, TypeNext, ApprovalNext
  <2> QED BY <1>1, <2>1, <2>2, PTL DEF Spec
<1> QED BY <1>2

-----------------------------------------------------------------------------
(* Rollbacks on one pod, for both stores.  Only a failed action has a         *)
(* rollback, in the store and in the file; and an outcome that has just been  *)
(* stored has none yet.                                                      *)
RollbackIn(t) ==
  \A b \in Action : t[b].createdBy \in Action =>
    /\ t[t[b].createdBy].status = "failed"
    /\ \A c \in Action : t[c].createdBy = t[b].createdBy => c = b

NoRollback(t, a) == \A b \in Action : t[b].createdBy # a

SpawnInv(r) ==
  /\ req[r].pc \in {"persist", "bookkeep"} /\ req[r].dry => req[r].ok
  /\ At(r, "bookkeep") => NoRollback(tracker, req[r].action)

RollbackInv == /\ RollbackIn(tracker) /\ RollbackIn(file)
               /\ \A r \in Request : ~At(r, "idle") => SpawnInv(r)

LEMMA EmptyRollback == RollbackIn(Empty)
  BY NullsAssumption DEF RollbackIn, Empty, NoEntry

LEMMA FileRollback ==
  ASSUME RollbackIn(file), RollbackIn(tracker'), Saved \/ RaisesAfter \/ UNCHANGED file
  PROVE  RollbackIn(file')
  BY EmptyRollback DEF Saved, RaisesAfter

(* An action that is not failed has no rollback.                              *)
LEMMA NotFailed ==
  ASSUME RollbackIn(tracker), NEW a \in Action, tracker[a].status # "failed"
  PROVE  NoRollback(tracker, a)
  BY DEF RollbackIn, NoRollback

LEMMA StatusRollback ==
  ASSUME TypeOK, RollbackIn(tracker), NEW a \in Action, NEW s, NEW u, SetStatus(a, s, u),
         s = "failed" \/ NoRollback(tracker, a)
  PROVE  RollbackIn(tracker') /\ \A b \in Action : tracker'[b].createdBy = tracker[b].createdBy
<1>1. \A b \in Action : /\ tracker'[b].createdBy = tracker[b].createdBy
                        /\ b # a => tracker'[b] = tracker[b]
  BY DEF SetStatus, TypeOK, Entry
<1>2. tracker'[a].status = s
  BY DEF SetStatus, TypeOK, Entry
<1> QED BY <1>1, <1>2 DEF RollbackIn, NoRollback

(* A new entry is nobody's parent, and the first child of its own.            *)
LEMMA CreateRollback ==
  ASSUME TypeOK, RollbackIn(tracker), NEW b \in Action, tracker[b].status = "absent",
         NEW c \in User \cup Action \cup {NoOne}, tracker' \in Created(tracker, b, c),
         c \in Action => tracker[c].status = "failed" /\ NoRollback(tracker, c)
  PROVE  /\ RollbackIn(tracker')
         /\ \A a \in Action : a # c /\ NoRollback(tracker, a) => NoRollback(tracker', a)
<1>1. tracker'[b].createdBy = c /\ \A d \in Action : d # b => tracker'[d] = tracker[d]
  BY CreatedEntry
<1>2. \A d \in Action : tracker[d].createdBy # b
  BY DEF RollbackIn
<1>3. ASSUME NEW d \in Action, tracker'[d].createdBy \in Action
      PROVE  /\ tracker'[tracker'[d].createdBy].status = "failed"
             /\ \A e \in Action : tracker'[e].createdBy = tracker'[d].createdBy => e = d
  <2>1. CASE d = b
    BY <1>1, <1>3, <2>1 DEF NoRollback
  <2>2. CASE d # b
    <3>1. tracker[d].createdBy \in Action /\ tracker[d].createdBy # b
      BY <1>1, <1>2, <1>3, <2>2
    <3>2. c # tracker[d].createdBy
      BY <3>1 DEF NoRollback
    <3> QED BY <1>1, <2>2, <3>1, <3>2 DEF RollbackIn
  <2> QED BY <2>1, <2>2
<1> QED BY <1>1, <1>3 DEF RollbackIn, NoRollback

(* A step of a coroutine.                                                     *)
LEMMA RollbackStep ==
  ASSUME OnePod, IInv, RollbackInv, NEW r \in Request, Step(r)
  PROVE  /\ RollbackIn(tracker')
         /\ ~At(r, "idle")' => SpawnInv(r)'
         /\ Saved \/ RaisesAfter \/ UNCHANGED file
         /\ \A a \in Action : a # req[r].action /\ NoRollback(tracker, a) => NoRollback(tracker', a)
<1> DEFINE a == req[r].action
<1>1. /\ req[r] \in Coroutine /\ a \in Action /\ ~At(r, "idle") /\ SpawnInv(r) /\ KnowsStatus(r)
      /\ TypeOK /\ RollbackIn(tracker) /\ req \in [Request -> Coroutine \cup {Idle}]
  BY StepShape DEF Coroutine, IInv, KnowledgeInv, RollbackInv, TypeOK, Inside
<1> HIDE DEF a
<1>2. a = req[r].action
  BY DEF a
<1>3. ASSUME tracker' = tracker, UNCHANGED file,
             req'[r].pc \in {"persist", "bookkeep"} /\ req'[r].dry => req'[r].ok,
             req'[r].pc # "bookkeep"
      PROVE  /\ RollbackIn(tracker') /\ SpawnInv(r)' /\ (Saved \/ RaisesAfter \/ UNCHANGED file)
             /\ \A b \in Action : b # a /\ NoRollback(tracker, b) => NoRollback(tracker', b)
  BY <1>1, <1>3 DEF SpawnInv, At
<1>4. CASE \/ Refuse(r) \/ AdmitDecision(r) \/ AdmitExecution(r) \/ ExecutorRaises(r)
           \/ RecoverKeeps(r) \/ RecoverFails(r) \/ MarkFailedRaises(r) \/ PersistRaises(r)
  <2>1. tracker' = tracker /\ UNCHANGED file
    BY <1>4 DEF Refuse, AdmitDecision, AdmitExecution, ExecutorRaises, RecoverKeeps, RecoverFails,
       MarkFailedRaises, PersistRaises, RaisesBefore
  <2>2. req'[r].pc \in {"idle", "decide", "run", "recover", "fail"}
    BY <1>1, <1>4 DEF Refuse, AdmitDecision, AdmitExecution, ExecutorRaises, RecoverKeeps,
       RecoverFails, MarkFailedRaises, PersistRaises, Finish, Goto, Idle, Coroutine
  <2> QED BY <1>2, <1>3, <2>1, <2>2
<1>5. CASE RunCommand(r) \/ DryRun(r)
  <2>1. tracker' = tracker /\ UNCHANGED file
    BY <1>5 DEF RunCommand, DryRun
  <2>2. req'[r].pc = "persist" /\ (req'[r].dry => req'[r].ok)
    <3>1. CASE RunCommand(r)
      <4>1. PICK success \in BOOLEAN :
              req' = [req EXCEPT ![r].pc = "persist", ![r].ok = success, ![r].ran = TRUE]
        BY <3>1 DEF RunCommand
      <4> QED BY <1>1, <3>1, <4>1 DEF RunCommand, Coroutine
    <3>2. CASE DryRun(r)
      BY <1>1, <3>2 DEF DryRun, Coroutine
    <3> QED BY <1>5, <3>1, <3>2
  <2> QED BY <1>2, <1>3, <2>1, <2>2
<1>6. CASE Decide(r)
  <2>1. tracker[a].status = "pending" /\ NoRollback(tracker, a)
    BY <1>1, <1>2, <1>6, NotFailed DEF Decide, KnowsStatus, RaisesBefore, At
  <2>2. RollbackIn(tracker') /\ \A b \in Action : tracker'[b].createdBy = tracker[b].createdBy
    <3>1. CASE StoreDecision(r) /\ req[r].kind = "approve"
      <4>1. tracker' = [tracker EXCEPT ![a].status = "approved", ![a].approvedBy = req[r].user,
                                       ![a].approver = req[r].user]
        BY <1>2, <3>1 DEF StoreDecision
      <4>2. \A b \in Action : /\ tracker'[b].createdBy = tracker[b].createdBy
                              /\ b # a => tracker'[b] = tracker[b]
        BY <1>1, <4>1 DEF TypeOK, Entry
      <4> QED BY <1>1, <2>1, <4>2 DEF RollbackIn, NoRollback
    <3>2. CASE StoreDecision(r) /\ req[r].kind # "approve"
      <4>1. SetStatus(a, "rejected", req[r].user)
        BY <1>2, <3>2 DEF StoreDecision
      <4> QED BY <1>1, <2>1, <4>1, StatusRollback
    <3>3. CASE RaisesBefore
      BY <1>1, <3>3 DEF RaisesBefore
    <3> QED BY <1>6, <3>1, <3>2, <3>3 DEF Decide
  <2>3. At(r, "idle")' /\ (Saved \/ RaisesAfter \/ UNCHANGED file)
    BY <1>1, <1>6 DEF Decide, Finish, At, Idle, RaisesBefore
  <2> QED BY <2>2, <2>3 DEF NoRollback
<1>7. CASE PersistOutcome(r)
  <2>1. tracker[a].status = "approved" /\ NoRollback(tracker, a) /\ req[r].pc = "persist"
    BY <1>1, <1>2, <1>7, NotFailed DEF PersistOutcome, KnowsStatus, At
  <2>2. SetStatus(a, Outcome(r), req[r].user)
    BY <1>2, <1>7 DEF PersistOutcome
  <2>3. RollbackIn(tracker') /\ \A b \in Action : tracker'[b].createdBy = tracker[b].createdBy
    BY <1>1, <2>1, <2>2, StatusRollback
  <2>4. /\ req'[r].action = a /\ req'[r].dry = req[r].dry /\ req'[r].ok = req[r].ok
        /\ Saved \/ RaisesAfter
    BY <1>1, <1>2, <1>7 DEF PersistOutcome, Coroutine
  <2>5. SpawnInv(r)'
    BY <1>1, <2>1, <2>3, <2>4 DEF SpawnInv, NoRollback, At
  <2> QED BY <2>3, <2>4, <2>5 DEF NoRollback
<1>8. CASE Bookkeep(r)
  <2>1. /\ req[r].pc = "bookkeep" /\ NoRollback(tracker, a)
        /\ tracker[a].status = Outcome(r) /\ (req[r].dry => req[r].ok)
    BY <1>1, <1>2, <1>8 DEF Bookkeep, SpawnInv, KnowsStatus, At
  <2>2. At(r, "idle")' \/ req'[r].pc = "recover"
    BY <1>1, <1>8 DEF Bookkeep, Recorded, Finish, Goto, Idle, At, Coroutine
  <2>3. ~At(r, "idle")' => SpawnInv(r)'
    BY <2>2 DEF SpawnInv, At
  <2>4. CASE UNCHANGED <<tracker, file>>
    BY <1>1, <2>3, <2>4
  <2>5. CASE Rollback(r)
    <3>1. PICK b \in Action : /\ tracker[b].status = "absent"
                              /\ tracker' \in Created(tracker, b, a)
      BY <1>2, <2>5 DEF Rollback
    <3>2. tracker[a].status = "failed"
      BY <2>1, <2>5 DEF Rollback, Outcome
    <3>3. /\ RollbackIn(tracker')
          /\ \A d \in Action : d # a /\ NoRollback(tracker, d) => NoRollback(tracker', d)
      BY <1>1, <2>1, <3>1, <3>2, CreateRollback
    <3>4. Saved \/ RaisesAfter \/ UNCHANGED file
      BY <1>8 DEF Bookkeep
    <3> QED BY <1>2, <2>3, <3>3, <3>4
  <2> QED BY <1>8, <2>4, <2>5 DEF Bookkeep
<1>9. CASE MarkFailed(r)
  <2>1. SetStatus(a, "failed", req[r].user)
    BY <1>2, <1>9 DEF MarkFailed
  <2>2. RollbackIn(tracker') /\ \A b \in Action : tracker'[b].createdBy = tracker[b].createdBy
    BY <1>1, <2>1, StatusRollback
  <2>3. At(r, "idle")' /\ (Saved \/ RaisesAfter)
    BY <1>1, <1>9 DEF MarkFailed, Finish, At, Idle
  <2> QED BY <2>2, <2>3 DEF NoRollback
<1> QED BY <1>4, <1>5, <1>6, <1>7, <1>8, <1>9 DEF Step

LEMMA RollbackNext ==
  ASSUME OnePod, IInv, RollbackInv, [Next]_vars PROVE RollbackInv'
<1>0. TypeOK /\ LockInv /\ RollbackIn(tracker) /\ RollbackIn(file)
  BY DEF IInv, RollbackInv
<1>s. ASSUME NEW q \in Request, ~At(q, "idle"), req'[q] = req[q],
             NoRollback(tracker, req[q].action) => NoRollback(tracker', req[q].action)
      PROVE  SpawnInv(q)'
  BY <1>s DEF RollbackInv, SpawnInv, At
<1>1. ASSUME NEW b \in Action, NEW u \in User, CreateAction(b, u) \/ CreateBulkAction(b)
      PROVE  RollbackInv'
  <2>1. PICK c \in User \cup {NoOne} : tracker' \in Created(tracker, b, c)
    BY <1>1 DEF CreateAction, CreateBulkAction
  <2>2. tracker[b].status = "absent" /\ req' = req /\ (Saved \/ RaisesAfter)
    BY <1>1 DEF CreateAction, CreateBulkAction
  <2>3. c \notin Action
    BY NullsAssumption
  <2>4. /\ RollbackIn(tracker')
        /\ \A a \in Action : NoRollback(tracker, a) => NoRollback(tracker', a)
    BY <1>0, <2>1, <2>2, <2>3, CreateRollback
  <2>5. RollbackIn(file')
    BY <1>0, <2>2, <2>4, FileRollback
  <2>6. ASSUME NEW q \in Request, ~At(q, "idle") PROVE SpawnInv(q)'
    <3>1. req[q].action \in Action
      BY <1>0, <2>6 DEF TypeOK, Coroutine, At, Idle
    <3> QED BY <1>s, <2>2, <2>4, <2>6, <3>1
  <2> QED BY <2>2, <2>4, <2>5, <2>6 DEF RollbackInv, At
<1>2. ASSUME UNCHANGED <<tracker, file>>,
             \A q \in Request : ~At(q, "idle")' => req'[q] = req[q] \/ SpawnInv(q)'
      PROVE  RollbackInv'
  BY <1>0, <1>s, <1>2 DEF RollbackInv, At
<1>3. ASSUME NEW r \in Request, NEW p \in Pod, NEW k \in Kind, NEW a \in Action,
             NEW u \in User \cup {NoOne}, NEW d \in BOOLEAN, Arrive(r, p, k, a, u, d)
      PROVE  RollbackInv'
  <2>1. req'[r].pc = "wait" /\ \A q \in Request : q # r => req'[q] = req[q]
    BY <1>0, <1>3 DEF Arrive, TypeOK
  <2>2. SpawnInv(r)'
    BY <2>1 DEF SpawnInv, At
  <2> QED BY <1>2, <1>3, <2>1, <2>2 DEF Arrive
<1>4. ASSUME NEW r \in Request, Acquire(r) PROVE RollbackInv'
  <2>1. req'[r].pc = "read" /\ \A q \in Request : q # r => req'[q] = req[q]
    BY <1>0, <1>4, StepBusy DEF Acquire, Goto, TypeOK, Coroutine, At, Idle
  <2>2. SpawnInv(r)'
    BY <2>1 DEF SpawnInv, At
  <2> QED BY <1>2, <1>4, <2>1, <2>2 DEF Acquire
<1>5. ASSUME NEW r \in Request, Step(r) PROVE RollbackInv'
  <2>1. RollbackIn(tracker') /\ RollbackIn(file')
    BY <1>0, <1>5, RollbackStep, FileRollback
  <2>2. ASSUME NEW q \in Request, q # r, ~At(q, "idle")' PROVE SpawnInv(q)'
    <3>1. req'[q] = req[q] /\ ~At(q, "idle") /\ Inside(r)
      BY <1>0, <1>5, <2>2, StepShape DEF At
    <3>2. req[q].action \in Action
      BY <1>0, <3>1 DEF TypeOK, Coroutine, At, Idle
    <3>3. CASE req[q].action # req[r].action
      BY <1>5, <1>s, <3>1, <3>2, <3>3, RollbackStep
    <3>4. CASE req[q].action = req[r].action
      <4>1. ~Inside(q)
        BY <1>0, <2>2, <3>1, <3>4, Alone
      <4> QED BY <3>1, <4>1 DEF Inside, SpawnInv, At
    <3> QED BY <3>3, <3>4
  <2>3. ~At(r, "idle")' => SpawnInv(r)'
    BY <1>5, RollbackStep
  <2> QED BY <2>1, <2>2, <2>3 DEF RollbackInv
<1>6. ASSUME NEW p \in Pod, Crash(p) PROVE RollbackInv'
  <2>1. \A q \in Request : At(q, "idle")'
    BY <1>0, <1>6, CrashEnds DEF At, Idle
  <2>2. RollbackIn(tracker')
    BY <1>0, <1>6, EmptyRollback DEF Crash
  <2>3. RollbackIn(file')
    BY <1>0, <1>6, <2>2, FileRollback DEF Crash
  <2> QED BY <2>1, <2>2, <2>3 DEF RollbackInv
<1>7. CASE UNCHANGED vars
  BY <1>2, <1>7 DEF vars
<1> QED BY <1>1, <1>3, <1>4, <1>5, <1>6, <1>7 DEF Next

(* On one pod, for both stores, a rollback belongs to an action that failed,   *)
(* and to one only (engine.py 700-760).                                       *)
THEOREM RollbackOfFailureAlways == OnePod => (Spec => []RollbackOfFailure)
<1>1. RollbackInv => RollbackOfFailure
  BY DEF RollbackInv, RollbackIn, RollbackOfFailure
<1>2. Init => RollbackInv
  BY EmptyRollback DEF Init, RollbackInv, Idle, At
<1>3. ASSUME OnePod PROVE Spec => []RollbackOfFailure
  <2>1. RollbackInv /\ IInv /\ [Next]_vars => RollbackInv'
    BY <1>3, RollbackNext
  <2>2. Spec => []IInv
    BY <1>3, IInvAlways
  <2> QED BY <1>1, <1>2, <2>1, <2>2, PTL DEF Spec
<1> QED BY <1>3
=============================================================================
