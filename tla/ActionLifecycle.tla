---------------------------- MODULE ActionLifecycle ----------------------------
(***************************************************************************)
(* The life of an action (backend/app/actions/engine.py): proposed from a   *)
(* recommendation, approved or rejected by a person, executed by the        *)
(* environment-aware executor, rolled back when it failed.                  *)
(*                                                                          *)
(* Every approve, reject and execute request runs as a coroutine of one     *)
(* pod, under that pod's asyncio.Lock for the action; the approval store is *)
(* shared by all pods.  A step of a request ends where the coroutine can be *)
(* suspended: between reading the store, running the command and writing    *)
(* the store.  A refusal that depends on data left out here (permission     *)
(* matrix, rate limit, OPA policy, time window) may always happen.          *)
(***************************************************************************)
EXTENDS Naturals, FiniteSets

CONSTANTS
  Action,             \* action ids
  Request,            \* slots for requests in flight
  Pod,                \* backend processes
  User,               \* identities that create, approve and execute
  NoRequest, NoOne,   \* nobody holds the lock, nobody approved
  Verdicts,           \* the validator verdicts that occur
  AllowSelfApproval,  \* settings.ALLOW_SELF_APPROVAL
  FileStore,          \* the approvals are kept in a file, not in Redis
  StoreFaults,        \* store calls may fail
  MaxFaults,          \* bound: store faults and pod crashes in a behaviour
  MaxRuns             \* bound: runs of one command (two pods can repeat them)

ASSUME NullsAssumption == /\ NoRequest \notin Request
                          /\ NoOne \notin User \cup Action
                          /\ User \cap Action = {}
ASSUME FlagsAssumption == /\ AllowSelfApproval \in BOOLEAN
                          /\ FileStore \in BOOLEAN
                          /\ StoreFaults \in BOOLEAN
\* The file store keeps its entries in the memory of one process.
ASSUME StoreAssumption == FileStore => \A p, q \in Pod : p = q
ASSUME BoundsAssumption == MaxFaults \in Nat /\ MaxRuns \in Nat

Status == {"absent", "pending", "approved", "rejected", "executed", "failed"}
Terminal == {"rejected", "executed", "failed"}

\* The validator's verdict on a command (CommandValidator._check_constraints).
Policy == {"allowed", "needs_approval", "forbidden"}

ASSUME VerdictsAssumption == Verdicts \subseteq Policy

Kind == {"approve", "reject", "execute"}

VARIABLES
  tracker,   \* the approval store: the entry `get` answers for each action
  file,      \* the file store's file
  lock,      \* per pod and action, the request inside `async with`
  req,       \* the coroutine of each request
  faults,    \* store faults and crashes so far
  runs,      \* history: how often an action's command really ran
  lost       \* history: runs whose outcome was never stored

vars == <<tracker, file, lock, req, faults, runs, lost>>

Entry == [status: Status, createdBy: User \cup Action \cup {NoOne},
          approvedBy: User \cup {NoOne}, policy: Policy,
          approver: User \cup {NoOne}]     \* history: who really approved it

\* `ran`: the command ran for real and its outcome is not stored yet.
Coroutine == [pc: {"wait", "read", "decide", "run", "persist", "bookkeep",
                   "recover", "fail"},
              pod: Pod, kind: Kind, action: Action, user: User \cup {NoOne},
              dry: BOOLEAN, ok: BOOLEAN, ran: BOOLEAN]
Idle == [pc |-> "idle"]

NoEntry == [status |-> "absent", createdBy |-> NoOne, approvedBy |-> NoOne,
            policy |-> "needs_approval", approver |-> NoOne]

Empty == [a \in Action |-> NoEntry]

Init == /\ tracker = Empty
        /\ file = Empty
        /\ lock = [p \in Pod |-> [a \in Action |-> NoRequest]]
        /\ req = [r \in Request |-> Idle]
        /\ faults = 0
        /\ runs = [a \in Action |-> 0]
        /\ lost = [a \in Action |-> 0]

-----------------------------------------------------------------------------
(* Faults and the store.                                                     *)

\* A fault of the store or the process, out of the bounded budget.
Fault == faults < MaxFaults /\ faults' = faults + 1

\* A write of `tracker` that returns; the file store saves all of its memory.
Saved == file' = IF FileStore THEN tracker' ELSE file

\* A write of `tracker` that raises too late: the release of the Redis lock
\* does, or the save, which leaves the file as it was or cut to nothing.
RaisesAfter == /\ StoreFaults /\ Fault
               /\ file' \in IF FileStore THEN {file, Empty} ELSE {file}

\* A write that raises before it changed anything: the Redis lock or socket.
RaisesBefore == /\ StoreFaults /\ Fault /\ ~FileStore
                /\ UNCHANGED <<tracker, file>>

-----------------------------------------------------------------------------
(* Creation. `permitted` is the RBAC answer, `high` a HIGH or CRITICAL       *)
(* impact estimate.  A forbidden command comes back with requires_approval   *)
(* FALSE from the validator.                                                 *)

RequiresApproval(policy, permitted, high) ==
  policy = "needs_approval" \/ ~permitted \/ high

BornEntry(creator, policy, permitted, high) ==
  [status |-> IF RequiresApproval(policy, permitted, high)
              THEN "pending" ELSE "approved",
   createdBy |-> creator, approvedBy |-> NoOne, policy |-> policy,
   approver |-> NoOne]

Created(t, a, creator) ==
  {[t EXCEPT ![a] = BornEntry(creator, policy, permitted, high)] :
     policy \in Verdicts, permitted \in BOOLEAN, high \in BOOLEAN}

\* POST /actions: the id is a fresh uuid, no lock is taken.
CreateAction(a, u) ==
  /\ tracker[a].status = "absent"
  /\ tracker' \in Created(tracker, a, u)
  /\ (Saved /\ UNCHANGED faults) \/ RaisesAfter
  /\ UNCHANGED <<lock, req, runs, lost>>

\* POST /actions/bulk, one action of the card: created_by is not filled in.
CreateBulkAction(a) ==
  /\ tracker[a].status = "absent"
  /\ tracker' \in Created(tracker, a, NoOne)
  /\ (Saved /\ UNCHANGED faults) \/ RaisesAfter
  /\ UNCHANGED <<lock, req, runs, lost>>

-----------------------------------------------------------------------------
(* Requests and the per-action lock.                                         *)

At(r, pc) == req[r].pc = pc
Goto(r, pc) == req' = [req EXCEPT ![r].pc = pc]

Arrive(r, p, k, a, u, d) ==
  /\ At(r, "idle")
  /\ k = "reject" <=> u = NoOne      \* who rejects decides nothing
  /\ d => k = "execute"
  /\ req' = [req EXCEPT ![r] =
               [pc |-> "wait", pod |-> p, kind |-> k, action |-> a, user |-> u,
                dry |-> d, ok |-> FALSE, ran |-> FALSE]]
  /\ UNCHANGED <<tracker, file, lock, faults, runs, lost>>

\* A plausible slip: the coroutine goes on without waiting for the lock.
AcquireUnlocked(r) ==
  /\ At(r, "wait")
  /\ lock' = [lock EXCEPT ![req[r].pod][req[r].action] = r]
  /\ Goto(r, "read")
  /\ UNCHANGED <<tracker, file, faults, runs, lost>>

Acquire(r) ==
  /\ At(r, "wait")
  /\ lock[req[r].pod][req[r].action] = NoRequest
  /\ lock' = [lock EXCEPT ![req[r].pod][req[r].action] = r]
  /\ Goto(r, "read")
  /\ UNCHANGED <<tracker, file, faults, runs, lost>>

\* A plausible slip: the release clears the pod's whole table.
FinishClearsTable(r) ==
  /\ lock' = [lock EXCEPT ![req[r].pod] = NoRequest]
  /\ req' = [req EXCEPT ![r] = Idle]

\* The coroutine leaves `async with`: by returning or by raising.
Finish(r) ==
  /\ lock' = [lock EXCEPT ![req[r].pod][req[r].action] = NoRequest]
  /\ req' = [req EXCEPT ![r] = Idle]

\* A plausible slip: an early raise that bypasses the release of the lock.
RefuseKeepsLock(r) ==
  /\ At(r, "read")
  /\ req' = [req EXCEPT ![r] = Idle]
  /\ UNCHANGED <<tracker, file, lock, faults, runs, lost>>

\* Not found (also a failed Redis read), wrong status, no permission, rate
\* limit, OPA, time window: an error goes back to the caller.
Refuse(r) ==
  /\ At(r, "read")
  /\ Finish(r)
  /\ UNCHANGED <<tracker, file, faults, runs, lost>>

-----------------------------------------------------------------------------
(* approve_action and reject_action                                          *)

\* A plausible slip: the ban guards the wrong decision.
SelfApprovalOnReject(r) ==
  /\ req[r].kind = "reject"
  /\ req[r].user = tracker[req[r].action].createdBy
  /\ ~AllowSelfApproval

SelfApproval(r) ==
  /\ req[r].kind = "approve"
  /\ req[r].user = tracker[req[r].action].createdBy
  /\ ~AllowSelfApproval

AdmitDecision(r) ==
  /\ At(r, "read") /\ req[r].kind \in {"approve", "reject"}
  /\ tracker[req[r].action].status = "pending"
  /\ ~SelfApproval(r)
  /\ Goto(r, "decide")
  /\ UNCHANGED <<tracker, file, lock, faults, runs, lost>>

\* set_status: unconditional, whatever the stored status is by now.  Every
\* write of APPROVED, the one after a dry run included, fills in approved_by.
SetStatus(a, s, u) ==
  tracker' = [tracker EXCEPT ![a].status = s,
                             ![a].approvedBy = IF s = "approved" THEN u ELSE @]

StoreDecision(r) ==
  LET a == req[r].action IN
  IF req[r].kind = "approve"
  THEN tracker' = [tracker EXCEPT ![a].status = "approved",
                                  ![a].approvedBy = req[r].user,
                                  ![a].approver = req[r].user]
  ELSE SetStatus(a, "rejected", req[r].user)

Decide(r) ==
  /\ At(r, "decide")
  /\ \/ StoreDecision(r) /\ ((Saved /\ UNCHANGED faults) \/ RaisesAfter)
     \/ RaisesBefore
  /\ Finish(r)
  /\ UNCHANGED <<runs, lost>>

-----------------------------------------------------------------------------
(* execute_action                                                            *)

\* A plausible slip: a failed action may be tried again without an approval.
AdmitRetry(r) ==
  /\ At(r, "read") /\ req[r].kind = "execute"
  /\ tracker[req[r].action].status \in {"approved", "failed"}
  /\ Goto(r, "run")
  /\ UNCHANGED <<tracker, file, lock, faults, runs, lost>>

AdmitExecution(r) ==
  /\ At(r, "read") /\ req[r].kind = "execute"
  /\ tracker[req[r].action].status = "approved"
  /\ Goto(r, "run")
  /\ UNCHANGED <<tracker, file, lock, faults, runs, lost>>

\* The command runs to its end: exit code 0 or not, or killed at the timeout.
RunCommand(r) ==
  /\ At(r, "run") /\ ~req[r].dry /\ runs[req[r].action] < MaxRuns
  /\ \E success \in BOOLEAN :
       req' = [req EXCEPT ![r].pc = "persist", ![r].ok = success, ![r].ran = TRUE]
  /\ runs' = [runs EXCEPT ![req[r].action] = @ + 1]
  /\ UNCHANGED <<tracker, file, lock, faults, lost>>

\* A dry run starts no process and reports success.
DryRun(r) ==
  /\ At(r, "run") /\ req[r].dry
  /\ req' = [req EXCEPT ![r].pc = "persist", ![r].ok = TRUE]
  /\ UNCHANGED <<tracker, file, lock, faults, runs, lost>>

\* Unknown environment, command validation, missing credentials: raised
\* before anything runs, dry or not.
ExecutorRaises(r) ==
  /\ At(r, "run")
  /\ Goto(r, "recover")
  /\ UNCHANGED <<tracker, file, lock, faults, runs, lost>>

\* A plausible slip: only success ends the approval.
OutcomeKeepsApproval(r) == IF ~req[r].dry /\ req[r].ok THEN "executed" ELSE "approved"

Outcome(r) == IF req[r].dry THEN "approved"
              ELSE IF req[r].ok THEN "executed" ELSE "failed"

PersistOutcome(r) ==
  /\ At(r, "persist")
  /\ SetStatus(req[r].action, Outcome(r), req[r].user)
  /\ \/ /\ req' = [req EXCEPT ![r].pc = "bookkeep", ![r].ran = FALSE]
        /\ Saved /\ UNCHANGED faults
     \/ /\ RaisesAfter
        /\ req' = [req EXCEPT ![r].pc = "recover", ![r].ran = FALSE]
  /\ UNCHANGED <<lock, runs, lost>>

PersistRaises(r) ==
  /\ At(r, "persist")
  /\ RaisesBefore
  /\ Goto(r, "recover")
  /\ UNCHANGED <<lock, runs, lost>>

\* A plausible slip: the rollback does not look at the outcome.
RollbackAlways(r) ==
  \E b \in Action : /\ tracker[b].status = "absent"
                    /\ tracker' \in Created(tracker, b, req[r].action)

\* A failed execution may spawn a rollback action, attributed to it.
Rollback(r) ==
  /\ ~req[r].ok
  /\ \E b \in Action : /\ tracker[b].status = "absent"
                       /\ tracker' \in Created(tracker, b, req[r].action)

\* Audit, history, feedback and rate limiter record return or raise.
Recorded(r) == \/ Finish(r) /\ UNCHANGED faults
               \/ StoreFaults /\ Fault /\ Goto(r, "recover") /\ UNCHANGED lock

Bookkeep(r) ==
  /\ At(r, "bookkeep")
  /\ \/ UNCHANGED <<tracker, file>> /\ Recorded(r)
     \/ Rollback(r) /\ Saved /\ Recorded(r)
     \/ Rollback(r) /\ RaisesAfter /\ Goto(r, "recover") /\ UNCHANGED lock
  /\ UNCHANGED <<runs, lost>>

\* except Exception: an EXECUTED that is read back is kept ...
RecoverKeeps(r) ==
  /\ At(r, "recover")
  /\ tracker[req[r].action].status = "executed"
  /\ Finish(r)
  /\ UNCHANGED <<tracker, file, faults, runs, lost>>

\* A plausible slip, and the code before the fix it quotes: FAILED is written
\* whatever the store says.
RecoverAlwaysFails(r) ==
  /\ At(r, "recover")
  /\ Goto(r, "fail")
  /\ UNCHANGED <<tracker, file, lock, faults, runs, lost>>

\* ... anything else, a failed read included, is to become FAILED.
RecoverFails(r) ==
  /\ At(r, "recover")
  /\ \/ tracker[req[r].action].status # "executed" /\ UNCHANGED faults
     \/ ~FileStore /\ StoreFaults /\ Fault
  /\ Goto(r, "fail")
  /\ UNCHANGED <<tracker, file, lock, runs, lost>>

MarkFailed(r) ==
  /\ At(r, "fail")
  /\ SetStatus(req[r].action, "failed", req[r].user)
  /\ (Saved /\ UNCHANGED faults) \/ RaisesAfter
  /\ Finish(r)
  /\ UNCHANGED <<runs, lost>>

MarkFailedRaises(r) ==
  /\ At(r, "fail")
  /\ RaisesBefore
  /\ Finish(r)
  /\ lost' = IF req[r].ran THEN [lost EXCEPT ![req[r].action] = @ + 1] ELSE lost
  /\ UNCHANGED runs

-----------------------------------------------------------------------------
(* A pod dies: its coroutines and its locks are gone, and the file store's   *)
(* memory.  It loads the file, which the crash may have cut in a save; a file *)
(* that is not JSON loads as empty.                                          *)

OnPod(r, p) == ~At(r, "idle") /\ req[r].pod = p
RunLostOn(p, a) == \E r \in Request : OnPod(r, p) /\ req[r].ran /\ req[r].action = a
OutcomeLost(a) == /\ tracker[a].status \in {"executed", "failed"}
                  /\ tracker'[a].status # tracker[a].status

Crash(p) ==
  /\ Fault
  /\ req' = [r \in Request |-> IF OnPod(r, p) THEN Idle ELSE req[r]]
  /\ lock' = [lock EXCEPT ![p] = [a \in Action |-> NoRequest]]
  /\ tracker' \in IF FileStore THEN {file, Empty} ELSE {tracker}
  /\ Saved
  /\ lost' = [a \in Action |-> IF RunLostOn(p, a) \/ OutcomeLost(a)
                               THEN lost[a] + 1 ELSE lost[a]]
  /\ UNCHANGED runs

Step(r) ==
  \/ Refuse(r) \/ AdmitDecision(r) \/ Decide(r)
  \/ AdmitExecution(r) \/ RunCommand(r) \/ DryRun(r) \/ ExecutorRaises(r)
  \/ PersistOutcome(r) \/ PersistRaises(r) \/ Bookkeep(r)
  \/ RecoverKeeps(r) \/ RecoverFails(r) \/ MarkFailed(r) \/ MarkFailedRaises(r)

Next ==
  \/ \E a \in Action, u \in User : CreateAction(a, u) \/ CreateBulkAction(a)
  \/ \E r \in Request, p \in Pod, k \in Kind, a \in Action,
        u \in User \cup {NoOne}, d \in BOOLEAN : Arrive(r, p, k, a, u, d)
  \/ \E r \in Request : Acquire(r) \/ Step(r)
  \/ \E p \in Pod : Crash(p)

Spec == Init /\ [][Next]_vars

\* A live event loop runs every coroutine that can run, and asyncio.Lock wakes
\* its waiters in the order they came.
Fairness == \A r \in Request : WF_vars(Step(r)) /\ SF_vars(Acquire(r))
FairSpec == Spec /\ Fairness

-----------------------------------------------------------------------------
(* Properties                                                                *)

TypeOK ==
  /\ tracker \in [Action -> Entry]
  /\ file \in [Action -> Entry]
  /\ lock \in [Pod -> [Action -> Request \cup {NoRequest}]]
  /\ req \in [Request -> Coroutine \cup {Idle}]
  /\ faults \in 0..MaxFaults
  /\ runs \in [Action -> Nat]
  /\ lost \in [Action -> Nat]

(* On one pod a command runs again only when the outcome of its last run was *)
(* lost with the process or with the store (the "double-run" the per-action  *)
(* lock is for; for several processes engine.py 71-74 refers to a compare-   *)
(* and-set of the Redis store, which has none).                              *)
RunsOncePerLoss == \A a \in Action : runs[a] <= 1 + lost[a]

(* A command that the policy sends to approval has run only with the approval *)
(* of somebody other than its creator (engine.py 284-308).                    *)
SecondPersonApproved ==
  \A a \in Action :
    runs[a] > 0 /\ tracker[a].policy = "needs_approval" =>
      /\ tracker[a].approver # NoOne
      /\ tracker[a].approver = tracker[a].createdBy => AllowSelfApproval

(* A rollback is spawned by a failed action, and one failure spawns one.      *)
RollbackOfFailure ==
  \A b \in Action : tracker[b].createdBy \in Action =>
    /\ tracker[tracker[b].createdBy].status = "failed"
    /\ \A c \in Action : tracker[c].createdBy = tracker[b].createdBy => c = b

(* The action is still approved at the moment its command starts: the status  *)
(* read before the gates is not stale (engine.py 456-464, 593).               *)
RunsWhileApproved ==
  [][\A a \in Action : runs'[a] # runs[a] => tracker[a].status = "approved"]_vars

(* A rejected, executed or failed action stays what it is, unless the process *)
(* dies and loads an older file (engine.py 783-794).                          *)
TerminalStays ==
  [][\A a \in Action : tracker[a].status \in Terminal =>
       \/ tracker'[a].status = tracker[a].status
       \/ \E p \in Pod : Crash(p)]_vars

(* A command the project's policy forbids never runs ("Actions that are never *)
(* allowed", models/registry.py 46-49).                                       *)
ForbiddenNeverRuns ==
  \A a \in Action : tracker[a].policy = "forbidden" => runs[a] = 0

(* Every request is answered: no path keeps the lock.                         *)
RequestAnswered == \A r \in Request : ~At(r, "idle") ~> At(r, "idle")

-----------------------------------------------------------------------------
(***************************************************************************)
(* On one pod this implements ApprovedExecution.  An action is running while *)
(* some coroutine holds an outcome that is not stored yet; otherwise its     *)
(* phase is its stored status.                                              *)
(***************************************************************************)
Running(a) == \E r \in Request : ~At(r, "idle") /\ req[r].ran /\ req[r].action = a

PhaseOf(status) ==
  CASE status = "absent"   -> "none"
    [] status = "pending"  -> "proposed"
    [] status = "approved" -> "cleared"
    [] status = "rejected" -> "refused"
    [] OTHER               -> "settled"

phaseBar == [a \in Action |-> IF Running(a) THEN "running" ELSE PhaseOf(tracker[a].status)]

Abstract == INSTANCE ApprovedExecution
              WITH phase <- phaseBar, started <- runs, forfeited <- lost

(* On one pod the engine keeps the promises of ApprovedExecution, through     *)
(* every store fault and crash (engine.py 88-807).                            *)
ImplementsApprovedExecution == Abstract!Spec
=============================================================================
