-------------------------- MODULE SharedStateProofs --------------------------
(***************************************************************************)
(* Proofs about the services that decide on shared or remembered state.  Each *)
(* service is an instance under its own name; its constants and variables     *)
(* keep their names, with the name of the instance before those that two      *)
(* services use.  What is proved of a service holds for all values of its     *)
(* constants and says nothing of the other services.                         *)
(***************************************************************************)
EXTENDS Integers, Sequences, FiniteSets, FiniteSetTheorems, TLAPS

CONSTANTS
  StoreClient, Attempts, LockTTL, OpTimeout, Lag, MaxTimeouts, SessionsTTL,
  SessionsMaxClock, Worker, VersionsConfig, MaxId, MaxSerial, ChatPod, Channel,
  Keyed, Stamped, Tolerance, Sender, User, ApproverMap, ChatNobody, Creator,
  AuthRequired, Enabled, ChatMaxClock, MaxPresses, MaxDeliveries, PolicyExecution,
  Input, PolicyTTL, PolicyTimeout, GitRequest, Base, ConfigLogWindow, FileLimit,
  MaxDay, MaxWritten, Legacy, TrailMaxSize, MaxRead, MaxEntries, MaxTorn

VARIABLES
  lockttl, value, storeAt, storeLeft, storeAnswer, tries, storeSeen, failed,
  sessionsNow, entry, tokens, copy, floor, versionsFiles, current, live, doing,
  serial, parted, chatStatus, decisions, hasRole, presses, deliveries, chatRunning,
  chatAnswer, chatNow, policy, denied, policyCache, policyAsking, passed, head,
  believed, commits, remote, dirty, step, gitAsked, clean, today, opened,
  configLogFiles, configLogTorn, hidden, configLogRotated, written, exists, log,
  trailRotated, logged, trailTasks, rows, acked, gone, trailTorn

Store == INSTANCE RedisStateStore WITH
  Client <- StoreClient, at <- storeAt, left <- storeLeft, answer <- storeAnswer,
  seen <- storeSeen
Sessions == INSTANCE UserSessions WITH
  TTL <- SessionsTTL, MaxClock <- SessionsMaxClock, now <- sessionsNow
Versions == INSTANCE ConfigVersions WITH
  Config <- VersionsConfig, files <- versionsFiles
Chat == INSTANCE ChatApprovals WITH
  Pod <- ChatPod, Nobody <- ChatNobody, MaxClock <- ChatMaxClock,
  status <- chatStatus, running <- chatRunning, answer <- chatAnswer, now <- chatNow
Policy == INSTANCE PolicyGate WITH
  Execution <- PolicyExecution, TTL <- PolicyTTL, Timeout <- PolicyTimeout,
  cache <- policyCache, asking <- policyAsking
Git == INSTANCE ConfigGitOps WITH
  Request <- GitRequest, asked <- gitAsked
ConfigLog == INSTANCE ConfigAudit WITH
  Window <- ConfigLogWindow, files <- configLogFiles, torn <- configLogTorn,
  rotated <- configLogRotated
Trail == INSTANCE AuditTrail WITH
  MaxSize <- TrailMaxSize, rotated <- trailRotated, tasks <- trailTasks,
  torn <- trailTorn

-----------------------------------------------------------------------------
(***************************************************************************)
(* The locked update loses no update for any number of clients, attempts and *)
(* faults, provided that the lock outlives the four calls of its holder.  The *)
(* lock says nothing of its holder, so time is all that keeps a second client *)
(* out: the invariant relates the time the key has left to the calls that the *)
(* holder has still before it.                                              *)
(***************************************************************************)
\* The longest one call may take.
StoreD == OpTimeout + Lag

StoreTiming == /\ OpTimeout \in Nat /\ Lag \in Nat /\ Attempts \in Nat
               /\ LockTTL \in Nat /\ LockTTL > StoreD + StoreD + StoreD + StoreD

StoreTypeOK ==
  /\ lockttl \in Nat /\ value \subseteq StoreClient
  /\ storeAt \in [StoreClient -> Store!Idle \cup Store!Calls]
  /\ storeLeft \in [StoreClient -> Nat]
  /\ storeAnswer \in [StoreClient -> {"none", "yes", "no"}]
  /\ storeSeen \in [StoreClient -> SUBSET StoreClient]

\* A client holds the lock from the moment its SET is executed until its DEL is.
StoreHolds(c) == \/ storeAt[c] = "lock" /\ storeAnswer[c] = "yes"
                 \/ storeAt[c] \in {"get", "setex"}
                 \/ storeAt[c] = "unlock" /\ storeAnswer[c] = "none"

\* The time of the calls behind the one a holder is in.
StoreBehind(op) == CASE op = "lock" -> StoreD + StoreD + StoreD [] op = "get" -> StoreD + StoreD
                [] op = "setex" -> StoreD [] OTHER -> 0

StoreOneHolder == \A c, d \in StoreClient : StoreHolds(c) /\ StoreHolds(d) => c = d
StoreHolderInTime == \A c \in StoreClient : StoreHolds(c) => lockttl > storeLeft[c] + StoreBehind(storeAt[c])
StoreCallsEnd == \A c \in StoreClient : storeLeft[c] <= StoreD
\* What a holder has read and will write back is what is stored.
StoreReadIsFresh ==
  \A c \in StoreClient : \/ storeAt[c] = "get" /\ storeAnswer[c] = "yes"
                         \/ storeAt[c] = "setex" /\ storeAnswer[c] = "none"
                         => storeSeen[c] = value
StoreInv == StoreTypeOK /\ StoreOneHolder /\ StoreHolderInTime /\ StoreCallsEnd /\ StoreReadIsFresh

(* Nobody holds the lock at the start.                                       *)
LEMMA StoreInvInit == ASSUME StoreTiming PROVE Store!Init => StoreInv
  BY DEF StoreTiming, StoreD, Store!Init, StoreInv, StoreTypeOK, Store!Idle, Store!Calls,
     StoreOneHolder, StoreHolds, StoreHolderInTime, StoreCallsEnd, StoreReadIsFresh

(* Types.                                                                    *)
LEMMA StoreTypePreserved == ASSUME StoreTiming, StoreTypeOK, [Store!Next]_(Store!storeVars) PROVE StoreTypeOK'
<1> USE DEF StoreTiming, StoreTypeOK, StoreD, Store!Idle, Store!Calls
<1>1. ASSUME NEW c \in StoreClient, Store!Step(c) PROVE StoreTypeOK'
  BY <1>1 DEF Store!Step, Store!ExecuteLock, Store!ExecuteGet, Store!ExecuteSetex,
     Store!ExecuteUnlock, Store!TryLock, Store!LockRefused, Store!Proceed, Store!Goto,
     Store!Executes, Store!Answers, Store!After
<1>2. ASSUME NEW c \in StoreClient, Store!TimeOut(c) \/ Store!Crash(c) PROVE StoreTypeOK'
  BY <1>2 DEF Store!TimeOut, Store!Crash, Store!Goto
<1>3. CASE Store!Tick
  BY <1>3 DEF Store!Tick, Store!Before, Store!KeyAges
<1>4. CASE UNCHANGED Store!storeVars
  BY <1>4 DEF Store!storeVars
<1> QED BY <1>1, <1>2, <1>3, <1>4 DEF Store!Next

-----------------------------------------------------------------------------
(* The calls, one after the other.                                           *)
LEMMA StoreNextCall ==
  /\ Store!After("lock") = "get" /\ Store!After("get") = "setex"
  /\ Store!After("setex") = "unlock" /\ Store!After("unlock") = "done"
  BY DEF Store!After

LEMMA StoreTimeBehind ==
  /\ StoreBehind("lock") = StoreD + StoreD + StoreD /\ StoreBehind("get") = StoreD + StoreD
  /\ StoreBehind("setex") = StoreD /\ StoreBehind("unlock") = 0
  BY DEF StoreBehind

(* Whoever locks finds no holder; whoever else moves held the lock before, or  *)
(* does not hold it.                                                         *)
LEMMA StoreHolderPreserved == ASSUME StoreTiming, StoreInv, [Store!Next]_(Store!storeVars) PROVE StoreOneHolder'
<1> USE DEF StoreTypeOK, Store!Idle, Store!Calls
<1>1. ASSUME NEW c \in StoreClient, Store!ExecuteLock(c) PROVE StoreOneHolder'
  <2>1. CASE lockttl = 0
    <3>1. \A d \in StoreClient : ~StoreHolds(d)
      BY <2>1 DEF StoreInv, StoreHolderInTime, StoreTiming, StoreD, StoreBehind
    <3>2. \A d \in StoreClient : d # c => ~StoreHolds(d)'
      BY <3>1, <1>1, <2>1 DEF StoreInv, Store!ExecuteLock, Store!Executes, Store!Answers, StoreHolds
    <3> QED BY <3>2 DEF StoreOneHolder
  <2>2. CASE lockttl # 0
    <3>1. \A d \in StoreClient : StoreHolds(d)' => StoreHolds(d)
      BY <1>1, <2>2 DEF StoreInv, Store!ExecuteLock, Store!Executes, Store!Answers, StoreHolds
    <3> QED BY <3>1 DEF StoreInv, StoreOneHolder
  <2> QED BY <2>1, <2>2
<1>2. ASSUME NEW c \in StoreClient,
             Store!ExecuteGet(c) \/ Store!ExecuteSetex(c) \/ Store!ExecuteUnlock(c) \/ Store!TryLock(c) \/ Store!LockRefused(c)
               \/ Store!Proceed(c) \/ Store!TimeOut(c) \/ Store!Crash(c)
      PROVE  StoreOneHolder'
  <2>1. \A d \in StoreClient : StoreHolds(d)' => StoreHolds(d)
    BY <1>2, StoreNextCall DEF StoreInv, Store!ExecuteGet, Store!ExecuteSetex, Store!ExecuteUnlock,
       Store!TryLock, Store!LockRefused, Store!Proceed, Store!TimeOut, Store!Crash, Store!Executes,
       Store!Answers, Store!Goto, StoreHolds
  <2> QED BY <2>1 DEF StoreInv, StoreOneHolder
<1>3. CASE Store!Tick \/ UNCHANGED Store!storeVars
  BY <1>3 DEF Store!Tick, Store!storeVars, StoreInv, StoreOneHolder, StoreHolds
<1> QED BY <1>1, <1>2, <1>3 DEF Store!Next, Store!Step

(* No call takes longer than D.                                              *)
LEMMA StoreCallsPreserved == ASSUME StoreTiming, StoreInv, [Store!Next]_(Store!storeVars) PROVE StoreCallsEnd'
<1> USE DEF StoreTypeOK, Store!Idle, Store!Calls, StoreTiming, StoreInv, StoreCallsEnd, StoreD
<1>1. ASSUME NEW c \in StoreClient, Store!Step(c) PROVE StoreCallsEnd'
  BY <1>1 DEF Store!Step, Store!ExecuteLock, Store!ExecuteGet, Store!ExecuteSetex,
     Store!ExecuteUnlock, Store!TryLock, Store!LockRefused, Store!Proceed, Store!Goto,
     Store!Executes, Store!Answers
<1>2. ASSUME NEW c \in StoreClient, Store!TimeOut(c) \/ Store!Crash(c) PROVE StoreCallsEnd'
  BY <1>2 DEF Store!TimeOut, Store!Crash, Store!Goto
<1>3. CASE Store!Tick
  BY <1>3 DEF Store!Tick, Store!Before
<1>4. CASE UNCHANGED Store!storeVars
  BY <1>4 DEF Store!storeVars
<1> QED BY <1>1, <1>2, <1>3, <1>4 DEF Store!Next

(* The key outlives the calls that are left: a call that ends early leaves     *)
(* more time, and time passes for both.                                      *)
LEMMA StoreTimePreserved == ASSUME StoreTiming, StoreInv, [Store!Next]_(Store!storeVars) PROVE StoreHolderInTime'
<1> USE DEF StoreTypeOK, Store!Idle, Store!Calls, StoreInv, StoreHolderInTime
<1>d. StoreD \in Nat
  BY DEF StoreTiming, StoreD
<1>1. ASSUME NEW c \in StoreClient, Store!ExecuteLock(c) PROVE StoreHolderInTime'
  <2>1. CASE lockttl = 0
    <3>1. \A d \in StoreClient : ~StoreHolds(d)
      BY <2>1, <1>d DEF StoreBehind
    <3>2. \A d \in StoreClient : d # c => ~StoreHolds(d)'
      BY <3>1, <1>1, <2>1 DEF Store!ExecuteLock, Store!Executes, Store!Answers, StoreHolds
    <3>3. lockttl' > storeLeft[c]' + StoreBehind(storeAt[c])'
      BY <1>1, <2>1, <1>d, StoreTimeBehind DEF Store!ExecuteLock, Store!Executes, StoreCallsEnd,
         StoreTiming
    <3> QED BY <3>2, <3>3
  <2>2. CASE lockttl # 0
    BY <1>1, <2>2 DEF Store!ExecuteLock, Store!Executes, Store!Answers, StoreHolds
  <2> QED BY <2>1, <2>2
<1>2. ASSUME NEW c \in StoreClient, Store!ExecuteUnlock(c) PROVE StoreHolderInTime'
  <2>1. \A d \in StoreClient : ~StoreHolds(d)'
    BY <1>2 DEF Store!ExecuteUnlock, Store!Executes, Store!Answers, StoreHolds, StoreOneHolder
  <2> QED BY <2>1
<1>3. ASSUME NEW c \in StoreClient, Store!ExecuteGet(c) \/ Store!ExecuteSetex(c) PROVE StoreHolderInTime'
  BY <1>3 DEF Store!ExecuteGet, Store!ExecuteSetex, Store!Executes, Store!Answers, StoreHolds
<1>4. ASSUME NEW c \in StoreClient, Store!TryLock(c) \/ Store!LockRefused(c) \/ Store!Crash(c) PROVE StoreHolderInTime'
  <2>1. ~StoreHolds(c)'
    BY <1>4 DEF Store!TryLock, Store!LockRefused, Store!Crash, Store!Goto, StoreHolds
  <2>2. \A d \in StoreClient : d # c => /\ StoreHolds(d)' => StoreHolds(d)
                                        /\ storeAt[d]' = storeAt[d] /\ storeLeft[d]' = storeLeft[d]
    BY <1>4 DEF Store!TryLock, Store!LockRefused, Store!Crash, Store!Goto, StoreHolds
  <2>3. lockttl' = lockttl
    BY <1>4 DEF Store!TryLock, Store!LockRefused, Store!Crash
  <2> QED BY <2>1, <2>2, <2>3
<1>5. ASSUME NEW c \in StoreClient, Store!Proceed(c) \/ Store!TimeOut(c) PROVE StoreHolderInTime'
  <2>1. /\ StoreHolds(c)' => StoreHolds(c)
        /\ StoreHolds(c)' => storeLeft[c]' + StoreBehind(storeAt[c]') <= storeLeft[c] + StoreBehind(storeAt[c])
    <3>1. CASE Store!Proceed(c)
      <4>1. StoreHolds(c)' => StoreHolds(c)
        BY <3>1, StoreNextCall DEF Store!Proceed, Store!Goto, StoreHolds
      <4>2. ASSUME StoreHolds(c)' PROVE storeLeft[c]' + StoreBehind(storeAt[c]') <= storeLeft[c] + StoreBehind(storeAt[c])
        <5>1. CASE storeAt[c] = "lock"
          BY <3>1, <5>1, <1>d, StoreNextCall, StoreTimeBehind DEF Store!Proceed, Store!Goto, StoreD
        <5>2. CASE storeAt[c] = "get"
          BY <3>1, <5>2, <1>d, StoreNextCall, StoreTimeBehind DEF Store!Proceed, Store!Goto, StoreD
        <5>3. CASE storeAt[c] = "setex"
          BY <3>1, <5>3, <1>d, StoreNextCall, StoreTimeBehind DEF Store!Proceed, Store!Goto, StoreD
        <5>4. CASE storeAt[c] = "unlock"
          BY <3>1, <4>2, <5>4, StoreNextCall DEF Store!Proceed, Store!Goto, StoreHolds
        <5> QED BY <3>1, <5>1, <5>2, <5>3, <5>4 DEF Store!Proceed
      <4> QED BY <4>1, <4>2
    <3>2. CASE Store!TimeOut(c)
      BY <3>2, <1>d, StoreTimeBehind DEF Store!TimeOut, Store!Goto, StoreHolds, StoreD
    <3> QED BY <1>5, <3>1, <3>2
  <2>2. \A d \in StoreClient : d # c => /\ StoreHolds(d)' => StoreHolds(d)
                                        /\ storeAt[d]' = storeAt[d] /\ storeLeft[d]' = storeLeft[d]
    BY <1>5 DEF Store!Proceed, Store!TimeOut, Store!Goto, StoreHolds
  <2>3. lockttl' = lockttl
    BY <1>5 DEF Store!Proceed, Store!TimeOut
  <2>4. StoreTypeOK'
    BY StoreTypePreserved, <1>5 DEF Store!Next, Store!Step
  <2> QED BY <2>1, <2>2, <2>3, <2>4, <1>d, StoreTimeBehind DEF StoreHolds
<1>6. CASE Store!Tick
  <2> SUFFICES ASSUME NEW c \in StoreClient, StoreHolds(c)'
               PROVE  lockttl' > storeLeft[c]' + StoreBehind(storeAt[c])'
    OBVIOUS
  <2>1. StoreHolds(c) /\ storeAt[c]' = storeAt[c] /\ storeAt[c] \in Store!Calls
    BY <1>6 DEF Store!Tick, StoreHolds
  <2>2. storeLeft[c] > 0 /\ storeLeft[c]' = storeLeft[c] - 1
    BY <2>1, <1>6 DEF Store!Tick, Store!Before
  <2>3. lockttl > storeLeft[c] + StoreBehind(storeAt[c]) /\ StoreBehind(storeAt[c]) \in Nat
    BY <2>1, <1>d, StoreTimeBehind
  <2>4. lockttl' = lockttl - 1
    BY <2>2, <2>3, <1>6 DEF Store!Tick, Store!KeyAges, Store!Before
  <2> QED BY <2>1, <2>2, <2>3, <2>4
<1>7. CASE UNCHANGED Store!storeVars
  BY <1>7 DEF Store!storeVars, StoreHolds
<1> QED BY <1>1, <1>2, <1>3, <1>4, <1>5, <1>6, <1>7 DEF Store!Next, Store!Step

(* Only the holder writes.                                                   *)
LEMMA StoreReadPreserved == ASSUME StoreTiming, StoreInv, [Store!Next]_(Store!storeVars) PROVE StoreReadIsFresh'
<1> USE DEF StoreTypeOK, Store!Idle, Store!Calls, StoreInv, StoreReadIsFresh
<1>1. ASSUME NEW c \in StoreClient, Store!ExecuteSetex(c) PROVE StoreReadIsFresh'
  <2>1. StoreHolds(c) /\ \A d \in StoreClient : d # c => ~StoreHolds(d)
    BY <1>1 DEF Store!ExecuteSetex, Store!Executes, StoreHolds, StoreOneHolder
  <2> QED BY <2>1, <1>1 DEF Store!ExecuteSetex, Store!Executes, Store!Answers, StoreHolds
<1>2. ASSUME NEW c \in StoreClient,
             Store!ExecuteLock(c) \/ Store!ExecuteGet(c) \/ Store!ExecuteUnlock(c) \/ Store!TryLock(c) \/ Store!LockRefused(c)
               \/ Store!Proceed(c) \/ Store!TimeOut(c) \/ Store!Crash(c)
      PROVE  StoreReadIsFresh'
  BY <1>2, StoreNextCall DEF Store!ExecuteLock, Store!ExecuteGet, Store!ExecuteUnlock,
     Store!TryLock, Store!LockRefused, Store!Proceed, Store!TimeOut, Store!Crash, Store!Executes,
     Store!Answers, Store!Goto
<1>3. CASE Store!Tick \/ UNCHANGED Store!storeVars
  BY <1>3 DEF Store!Tick, Store!storeVars
<1> QED BY <1>1, <1>2, <1>3 DEF Store!Next, Store!Step

(* A write adds to what is stored: it is made of a fresh read.                *)
LEMMA StoreStepKeepsUpdates == ASSUME StoreInv, [Store!Next]_(Store!storeVars) PROVE Store!KeepsUpdates
<1>1. ASSUME NEW c \in StoreClient, Store!ExecuteSetex(c) PROVE Store!KeepsUpdates
  BY <1>1 DEF Store!ExecuteSetex, Store!Executes, Store!KeepsUpdates, StoreInv, StoreReadIsFresh
<1>2. ASSUME NEW c \in StoreClient,
             Store!ExecuteLock(c) \/ Store!ExecuteGet(c) \/ Store!ExecuteUnlock(c) \/ Store!TryLock(c) \/ Store!LockRefused(c)
               \/ Store!Proceed(c) \/ Store!TimeOut(c) \/ Store!Crash(c)
      PROVE  Store!KeepsUpdates
  BY <1>2 DEF Store!ExecuteLock, Store!ExecuteGet, Store!ExecuteUnlock, Store!TryLock,
     Store!LockRefused, Store!Proceed, Store!TimeOut, Store!Crash, Store!KeepsUpdates
<1>3. CASE Store!Tick \/ UNCHANGED Store!storeVars
  BY <1>3 DEF Store!Tick, Store!storeVars, Store!KeepsUpdates
<1> QED BY <1>1, <1>2, <1>3 DEF Store!Next, Store!Step

-----------------------------------------------------------------------------
(* One client at a time is between its executed SET NX and its executed DEL,   *)
(* and what it will write back is what is stored plus its own update          *)
(* (redis_store_base.py 216-315).                                            *)
THEOREM StoreInvariant == ASSUME StoreTiming PROVE Store!Spec => []StoreInv
<1>1. Store!Init => StoreInv
  BY StoreInvInit
<1>2. StoreInv /\ [Store!Next]_(Store!storeVars) => StoreInv'
  BY StoreTypePreserved, StoreHolderPreserved, StoreCallsPreserved, StoreTimePreserved,
     StoreReadPreserved DEF StoreInv
<1> QED BY <1>1, <1>2, PTL DEF Store!Spec

(* No update is lost, for any number of clients, attempts, time-outs and       *)
(* crashes, if the lock lives longer than four calls (redis_store_base.py      *)
(* 277-315).                                                                 *)
THEOREM UpdatesAreKept == ASSUME StoreTiming PROVE Store!Spec => Store!NoLostUpdate
<1>1. StoreInv /\ [Store!Next]_(Store!storeVars) => Store!KeepsUpdates
  BY StoreStepKeepsUpdates
<1>2. StoreInv /\ [Store!Next]_(Store!storeVars) => [Store!KeepsUpdates]_(Store!storeVars)
  BY <1>1
<1> QED BY <1>2, StoreInvariant, PTL DEF Store!Spec, Store!NoLostUpdate

-----------------------------------------------------------------------------
(***************************************************************************)
(* A logout holds for any number of tokens and seconds.  The user file is     *)
(* read, changed and written back by two processes, so the invariant says     *)
(* what the copy of each of them holds as long as nobody wrote in between.     *)
(***************************************************************************)
SessionsOp == {"none", "logout", "create", "delete", "other"}
SessionsCopy == [op : SessionsOp, entry : Nat, stale : BOOLEAN]

SessionsTypeOK == /\ sessionsNow \in Nat /\ entry \in Nat /\ floor \in Nat /\ tokens \subseteq Nat
                  /\ copy \in [Sessions!Process -> SessionsCopy]

\* The file refuses what the last logout refused.
SessionsFloorStands == Sessions!Exists => entry >= floor

\* A copy nobody has overtaken is what the file holds, but for its own change.
SessionsFaithful(c) == CASE c.op = "logout" -> c.entry = sessionsNow
                 [] c.op = "other" -> c.entry = entry
                 [] c.op = "delete" -> c.entry = Sessions!Missing
                 [] OTHER -> TRUE
SessionsCopiesAreFaithful ==
  \A p \in Sessions!Process : copy[p] # Sessions!None => /\ copy[p].op # "none"
                                                         /\ copy[p].stale \/ SessionsFaithful(copy[p])
SessionsInv == SessionsTypeOK /\ SessionsFloorStands /\ SessionsCopiesAreFaithful

LEMMA SessionsInvInit == ASSUME SessionsMaxClock \in Nat PROVE Sessions!Init => SessionsInv
  BY DEF Sessions!Init, SessionsInv, SessionsTypeOK, SessionsCopy, SessionsOp, Sessions!None,
     Sessions!Missing, SessionsFloorStands, Sessions!Exists, SessionsCopiesAreFaithful,
     Sessions!Process

(* A load copies the file and sets what the operation asks for.              *)
LEMMA SessionsLoadKeeps ==
  ASSUME SessionsMaxClock \in Nat, SessionsInv, NEW p \in Sessions!Process, NEW op \in SessionsOp \ {"none"}, NEW e \in Nat,
         Sessions!Load(p, op, e), SessionsFaithful([op |-> op, entry |-> e, stale |-> FALSE])
  PROVE  SessionsInv'
<1>1. SessionsTypeOK'
  BY DEF Sessions!Load, SessionsInv, SessionsTypeOK, SessionsCopy
<1>2. SessionsFloorStands'
  BY DEF Sessions!Load, SessionsInv, SessionsFloorStands, Sessions!Exists
<1>3. SessionsCopiesAreFaithful'
  <2> SUFFICES ASSUME NEW q \in Sessions!Process, copy[q]' # Sessions!None
               PROVE  copy[q]'.op # "none" /\ (copy[q]'.stale \/ SessionsFaithful(copy[q])')
    BY DEF SessionsCopiesAreFaithful, Sessions!None, Sessions!Missing
  <2>1. CASE q = p
    BY <2>1 DEF Sessions!Load, SessionsInv, SessionsTypeOK, SessionsFaithful, Sessions!Missing
  <2>2. CASE q # p
    BY <2>2 DEF Sessions!Load, SessionsInv, SessionsTypeOK, SessionsCopiesAreFaithful,
       SessionsFaithful, Sessions!Missing, Sessions!None
  <2> QED BY <2>1, <2>2
<1> QED BY <1>1, <1>2, <1>3 DEF SessionsInv

(* A save replaces the file, and dates every other copy.                     *)
LEMMA SessionsSaveKeeps ==
  ASSUME SessionsMaxClock \in Nat, SessionsInv, NEW p \in Sessions!Process, Sessions!Save(p) PROVE SessionsInv'
<1> USE DEF SessionsInv, SessionsTypeOK, SessionsCopy
<1>1. /\ copy[p] # Sessions!None /\ entry' = copy[p].entry
      /\ copy[p].op # "none" /\ (copy[p].stale \/ SessionsFaithful(copy[p]))
      /\ copy[p] \in SessionsCopy
  BY DEF Sessions!Save, SessionsCopiesAreFaithful
<1>2. Sessions!None \in SessionsCopy
  BY DEF Sessions!None, Sessions!Missing, SessionsOp
<1>3. SessionsTypeOK'
  <2>1. sessionsNow' = sessionsNow /\ tokens' = tokens /\ floor' \in Nat /\ entry' \in Nat
    BY <1>1 DEF Sessions!Save
  <2>2. \A q \in Sessions!Process : copy'[q] \in SessionsCopy
    BY <1>2 DEF Sessions!Save, Sessions!None
  <2>3. copy' = [q \in Sessions!Process |-> copy'[q]]
    BY DEF Sessions!Save
  <2> QED BY <2>1, <2>2, <2>3
<1>4. SessionsFloorStands'
  <2>1. CASE copy[p].stale \/ copy[p].op = "create"
    BY <2>1, <1>1 DEF Sessions!Save, SessionsFloorStands, Sessions!Exists
  <2>2. CASE ~copy[p].stale /\ copy[p].op = "logout"
    BY <2>2, <1>1 DEF Sessions!Save, SessionsFloorStands, Sessions!Exists, SessionsFaithful
  <2>3. CASE ~copy[p].stale /\ copy[p].op \in {"other", "delete"}
    BY <2>3, <1>1 DEF Sessions!Save, SessionsFloorStands, Sessions!Exists, SessionsFaithful,
       Sessions!Missing
  <2> QED BY <1>1, <2>1, <2>2, <2>3 DEF SessionsOp
<1>5. SessionsCopiesAreFaithful'
  <2> SUFFICES ASSUME NEW q \in Sessions!Process, copy[q]' # Sessions!None
               PROVE  copy[q]'.op # "none" /\ copy[q]'.stale
    BY DEF SessionsCopiesAreFaithful, Sessions!None, Sessions!Missing
  <2>1. q # p /\ copy[q]' = [copy[q] EXCEPT !.stale = copy[q] # Sessions!None]
    BY DEF Sessions!Save, Sessions!None, Sessions!Missing
  <2>2. copy[q] # Sessions!None
    <3>1. SUFFICES ASSUME copy[q] = Sessions!None PROVE copy'[q] = Sessions!None'
      OBVIOUS
    <3>2. copy'[q].op = "none" /\ copy'[q].entry = Sessions!Missing /\ copy'[q].stale = FALSE
      BY <2>1, <3>1 DEF Sessions!None
    <3>3. copy'[q] \in SessionsCopy
      BY <1>3
    <3> QED BY <3>2, <3>3 DEF Sessions!None, Sessions!Missing
  <2>3. copy[q] \in SessionsCopy /\ copy[q].op # "none"
    BY <2>2 DEF SessionsCopiesAreFaithful
  <2>4. copy'[q] = [copy[q] EXCEPT !.stale = TRUE]
    BY <2>1, <2>2
  <2> QED BY <2>3, <2>4
<1> QED BY <1>3, <1>4, <1>5

LEMMA SessionsStepKeeps == ASSUME SessionsMaxClock \in Nat, SessionsInv, [Sessions!Next]_(Sessions!sessionVars) PROVE SessionsInv'
<1>1. CASE Sessions!Login \/ \E iat \in tokens : Sessions!Refresh(iat)
  BY <1>1 DEF Sessions!Login, Sessions!Refresh, Sessions!Issue, SessionsInv, SessionsTypeOK,
     SessionsFloorStands, Sessions!Exists, SessionsCopiesAreFaithful, SessionsFaithful
<1>2. CASE Sessions!Create \/ Sessions!Delete \/ Sessions!ChangeOther
  <2>1. Sessions!Missing \in Nat /\ entry \in Nat /\ "cli" \in Sessions!Process
    BY DEF Sessions!Missing, SessionsInv, SessionsTypeOK, Sessions!Process
  <2>2. CASE Sessions!Create
    <3>1. SessionsFaithful([op |-> "create", entry |-> 0, stale |-> FALSE])
      BY DEF SessionsFaithful
    <3> QED BY <2>1, <2>2, <3>1, SessionsLoadKeeps DEF Sessions!Create, SessionsOp
  <2>3. CASE Sessions!Delete
    <3>1. SessionsFaithful([op |-> "delete", entry |-> Sessions!Missing, stale |-> FALSE])
      BY DEF SessionsFaithful
    <3> QED BY <2>1, <2>3, <3>1, SessionsLoadKeeps DEF Sessions!Delete, SessionsOp
  <2>4. CASE Sessions!ChangeOther
    <3>1. SessionsFaithful([op |-> "other", entry |-> entry, stale |-> FALSE])
      BY DEF SessionsFaithful
    <3> QED BY <2>1, <2>4, <3>1, SessionsLoadKeeps DEF Sessions!ChangeOther, SessionsOp
  <2> QED BY <1>2, <2>2, <2>3, <2>4
<1>3. ASSUME NEW iat \in tokens, Sessions!Logout(iat) PROVE SessionsInv'
  <2>1. SessionsFaithful([op |-> "logout", entry |-> sessionsNow, stale |-> FALSE])
    BY DEF SessionsFaithful
  <2>2. sessionsNow \in Nat /\ "server" \in Sessions!Process
    BY DEF SessionsInv, SessionsTypeOK, Sessions!Process
  <2> QED BY <1>3, <2>1, <2>2, SessionsLoadKeeps DEF Sessions!Logout, Sessions!LogoutFloor,
             SessionsOp
<1>4. ASSUME NEW p \in Sessions!Process, Sessions!Save(p) PROVE SessionsInv'
  BY <1>4, SessionsSaveKeeps
<1>5. ASSUME NEW p \in Sessions!Process, Sessions!Abandon(p) PROVE SessionsInv'
  <2>1. SessionsTypeOK'
    BY <1>5 DEF Sessions!Abandon, SessionsInv, SessionsTypeOK, SessionsCopy, SessionsOp,
       Sessions!None, Sessions!Missing
  <2>2. SessionsFloorStands'
    BY <1>5 DEF Sessions!Abandon, SessionsInv, SessionsFloorStands, Sessions!Exists
  <2>3. SessionsCopiesAreFaithful'
    <3>1. Sessions!None' = Sessions!None
      BY DEF Sessions!None, Sessions!Missing
    <3>2. \A q \in Sessions!Process : copy'[q] = IF q = p THEN Sessions!None ELSE copy[q]
      BY <1>5 DEF Sessions!Abandon, SessionsInv, SessionsTypeOK
    <3>3. sessionsNow' = sessionsNow /\ entry' = entry
      BY <1>5 DEF Sessions!Abandon
    <3> QED BY <3>1, <3>2, <3>3 DEF SessionsInv, SessionsCopiesAreFaithful, SessionsFaithful,
               Sessions!Missing
  <2> QED BY <2>1, <2>2, <2>3 DEF SessionsInv
<1>6. CASE Sessions!Tick
  BY <1>6 DEF Sessions!Tick, SessionsInv, SessionsTypeOK, SessionsFloorStands, Sessions!Exists,
     SessionsCopiesAreFaithful
<1>7. CASE UNCHANGED Sessions!sessionVars
  BY <1>7 DEF Sessions!sessionVars, SessionsInv, SessionsTypeOK, SessionsFloorStands,
     Sessions!Exists, SessionsCopiesAreFaithful, SessionsFaithful
<1> QED BY <1>1, <1>2, <1>3, <1>4, <1>5, <1>6, <1>7 DEF Sessions!Next

-----------------------------------------------------------------------------
(* No token of a second before the last logout is accepted, until the account *)
(* is created anew or an older copy of the file is written back (users.py      *)
(* 97-189, main.py 60-86 and 682-724).                                       *)
THEOREM LogoutIsFinal == ASSUME SessionsMaxClock \in Nat PROVE Sessions!Spec => []Sessions!LogoutHolds
<1>1. SessionsInv => Sessions!LogoutHolds
  BY DEF SessionsInv, SessionsTypeOK, SessionsFloorStands, Sessions!LogoutHolds, Sessions!Accepted
<1> QED BY SessionsInvInit, SessionsStepKeeps, <1>1, PTL DEF Sessions!Spec

-----------------------------------------------------------------------------
(***************************************************************************)
(* No version is rewritten, for any number of worker processes and versions,  *)
(* except where two counts could have given one number.  A number is planned  *)
(* as the count of the files, so the invariant says that a plan whose count   *)
(* still holds has a number no version has; and until a version is removed or   *)
(* two processes save at once, the versions are numbered without a gap.         *)
(***************************************************************************)
VersionsFields == {"id", "version", "rollback", "excused", "opened"}

VersionsShape == /\ versionsFiles = [id \in Versions!Id |-> versionsFiles[id]]
                 /\ doing = [w \in Worker |-> doing[w]]
                 /\ \A w \in Worker : DOMAIN doing[w] = VersionsFields
                 /\ serial \in Nat /\ parted \in BOOLEAN
                 /\ \A w \in Worker : doing[w] # Versions!Idle =>
                      doing[w].id \in Versions!Id /\ doing[w].version \notin {Versions!None, Versions!Torn}

VersionsPlansAreNew ==
  \A w \in Worker : doing[w] # Versions!Idle => doing[w].excused \/ doing[w].id \notin Versions!Stored

VersionsGapless ==
  ~parted => /\ \A id \in Versions!Stored : id <= Cardinality(Versions!Stored)
             /\ \A w \in Worker : doing[w] # Versions!Idle =>
                  ~doing[w].excused /\ doing[w].id = Cardinality(Versions!Stored) + 1

VersionsInv == VersionsShape /\ VersionsPlansAreNew /\ VersionsGapless

\* The cardinality in ConfigVersions is the one of the theorems.
LEMMA VersionsCard ==
  \A S : Versions!Cardinality(S) = Cardinality(S) /\ (Versions!IsFiniteSet(S) <=> IsFiniteSet(S))
  BY DEF Versions!Cardinality, Cardinality, Versions!IsFiniteSet, IsFiniteSet

LEMMA VersionsInvInit == Versions!Init => VersionsInv
<1> SUFFICES ASSUME Versions!Init PROVE VersionsInv
  OBVIOUS
<1>1. Versions!Stored = {}
  BY DEF Versions!Init, Versions!Stored
<1>2. VersionsShape /\ VersionsPlansAreNew
  BY DEF Versions!Init, VersionsShape, VersionsFields, Versions!Idle, VersionsPlansAreNew
<1>3. VersionsGapless
  BY <1>1 DEF Versions!Init, VersionsGapless
<1> QED BY <1>2, <1>3 DEF VersionsInv

LEMMA VersionsStoredIsFinite ==
  ASSUME MaxId \in Nat PROVE IsFiniteSet(Versions!Stored) /\ Cardinality(Versions!Stored) \in Nat
<1>1. Versions!Stored \subseteq 1..MaxId
  BY DEF Versions!Stored, Versions!Id
<1>2. IsFiniteSet(1..MaxId)
  BY FS_Interval
<1>3. IsFiniteSet(Versions!Stored)
  BY <1>1, <1>2, FS_Subset
<1> QED BY <1>3, FS_CardinalityType

(* The count of the files is a number, and not below any file's if no file's   *)
(* number is above it.                                                       *)
LEMMA VersionsNextIsFree ==
  ASSUME MaxId \in Nat, \A id \in Versions!Stored : ~(id > Cardinality(Versions!Stored))
  PROVE  Versions!NextNumber \notin Versions!Stored
  BY VersionsStoredIsFinite, VersionsCard DEF Versions!NextNumber

LEMMA VersionsPlanKeeps ==
  ASSUME MaxId \in Nat, VersionsInv, NEW w \in Worker, NEW config, NEW rollback \in BOOLEAN,
         Versions!Plan(w, config, rollback)
  PROVE  VersionsInv' /\ versionsFiles' = versionsFiles
<1>1. Versions!Stored' = Versions!Stored /\ versionsFiles' = versionsFiles /\ parted' = parted /\ serial' = serial + 1
  BY VersionsCard DEF Versions!Plan, Versions!Stored
<1>2. /\ doing'[w].id = Versions!NextNumber
      /\ doing'[w].excused = \E id \in Versions!Stored : id > Cardinality(Versions!Stored)
      /\ doing'[w].version.serial = serial + 1
      /\ DOMAIN doing'[w] = VersionsFields
      /\ doing' = [v \in Worker |-> doing'[v]]
      /\ \A v \in Worker : v # w => doing'[v] = doing[v]
  BY VersionsCard DEF Versions!Plan, VersionsInv, VersionsShape, VersionsFields
<1>3. doing'[w].excused \/ doing'[w].id \notin Versions!Stored
  BY <1>2, VersionsNextIsFree
<1>4. VersionsShape'
  <2>1. doing'[w].version \notin {Versions!None, Versions!Torn}
    BY <1>2 DEF VersionsInv, VersionsShape, Versions!None, Versions!Torn
  <2>2. doing'[w].id \in Versions!Id
    BY <1>2, VersionsStoredIsFinite, VersionsCard DEF Versions!Plan, Versions!NextNumber,
       Versions!Id
  <2>3. \A v \in Worker : doing'[v] # Versions!Idle =>
          doing'[v].id \in Versions!Id /\ doing'[v].version \notin {Versions!None, Versions!Torn}
    BY <1>2, <2>1, <2>2 DEF VersionsInv, VersionsShape
  <2>4. Versions!Idle' = Versions!Idle /\ Versions!None' = Versions!None /\ Versions!Torn' = Versions!Torn
    BY DEF Versions!Idle, Versions!None, Versions!Torn
  <2> QED BY <1>1, <1>2, <2>3 DEF VersionsInv, VersionsShape
<1>5. VersionsPlansAreNew'
  BY <1>1, <1>2, <1>3 DEF VersionsInv, VersionsPlansAreNew
<1>6. VersionsGapless'
  <2> SUFFICES ASSUME ~parted
               PROVE  /\ \A id \in Versions!Stored : id <= Cardinality(Versions!Stored)
                      /\ \A v \in Worker : doing'[v] # Versions!Idle =>
                           ~doing'[v].excused /\ doing'[v].id = Cardinality(Versions!Stored) + 1
    BY <1>1 DEF VersionsGapless
  <2>1. \A id \in Versions!Stored : id <= Cardinality(Versions!Stored)
    BY DEF VersionsInv, VersionsGapless
  <2>2. ~doing'[w].excused /\ doing'[w].id = Cardinality(Versions!Stored) + 1
    <3>1. \A id \in Versions!Stored : id \in Int
      BY DEF Versions!Stored, Versions!Id
    <3> QED BY <1>2, <2>1, <3>1, VersionsStoredIsFinite, VersionsCard DEF Versions!NextNumber
  <2> QED BY <1>2, <2>1, <2>2 DEF VersionsInv, VersionsGapless
<1> QED BY <1>1, <1>4, <1>5, <1>6 DEF VersionsInv

(* Whoever changes the files dates the plans of all others.                   *)
LEMMA VersionsDisturbDates ==
  ASSUME VersionsInv, NEW w \in Worker, NEW v \in Worker, v # w
  PROVE  /\ DOMAIN Versions!Disturb(w)[v] = VersionsFields
         /\ Versions!Disturb(w)[v] = Versions!Idle \/ Versions!Disturb(w)[v].excused
<1>1. CASE doing[v] = Versions!Idle
  BY <1>1 DEF Versions!Disturb, Versions!Idle, VersionsFields
<1>2. CASE doing[v] # Versions!Idle
  BY <1>2 DEF Versions!Disturb, VersionsInv, VersionsShape, VersionsFields
<1> QED BY <1>1, <1>2

\* Until two processes save at once, the one that saves has the next number.
LEMMA VersionsAloneIsNext ==
  ASSUME MaxId \in Nat, VersionsInv, NEW w \in Worker, doing[w] # Versions!Idle, ~parted, Versions!Alone(w)
  PROVE  /\ doing[w].id = Cardinality(Versions!Stored) + 1 /\ doing[w].id \notin Versions!Stored
         /\ ~doing[w].excused
         /\ \A id \in Versions!Stored : id <= Cardinality(Versions!Stored)
         /\ \A v \in Worker : v # w => Versions!Disturb(w)[v] = Versions!Idle
<1>1. /\ doing[w].id = Cardinality(Versions!Stored) + 1 /\ ~doing[w].excused
      /\ \A id \in Versions!Stored : id <= Cardinality(Versions!Stored)
  BY DEF VersionsInv, VersionsGapless
<1>2. doing[w].id \notin Versions!Stored
  BY <1>1, VersionsStoredIsFinite
<1> QED BY <1>1, <1>2 DEF Versions!Alone, Versions!Disturb

LEMMA VersionsOpenKeeps ==
  ASSUME MaxId \in Nat, VersionsInv, NEW w \in Worker, Versions!Open(w) PROVE VersionsInv'
<1>1. /\ doing[w] # Versions!Idle /\ versionsFiles' = [versionsFiles EXCEPT ![doing[w].id] = Versions!Torn]
      /\ parted' = (parted \/ ~Versions!Alone(w)) /\ serial' = serial
      /\ doing' = [Versions!Disturb(w) EXCEPT ![w].opened = TRUE]
  BY DEF Versions!Open
<1>2. /\ doing' = [v \in Worker |-> doing'[v]]
      /\ \A v \in Worker : v # w => doing'[v] = Versions!Disturb(w)[v]
      /\ doing'[w] = [doing[w] EXCEPT !.opened = TRUE]
  BY <1>1 DEF Versions!Disturb
<1>3. /\ DOMAIN doing'[w] = VersionsFields /\ doing'[w].id = doing[w].id
      /\ doing'[w].version = doing[w].version /\ doing'[w].excused = doing[w].excused
  BY <1>1, <1>2 DEF VersionsInv, VersionsShape, VersionsFields
<1>4. versionsFiles' = [id \in Versions!Id |-> versionsFiles'[id]]
  BY <1>1 DEF VersionsInv, VersionsShape
<1>5. \A v \in Worker : v # w => /\ Versions!Disturb(w)[v] # Versions!Idle => doing[v] # Versions!Idle
                                /\ Versions!Disturb(w)[v].id = doing[v].id
                                /\ Versions!Disturb(w)[v].version = doing[v].version
  BY DEF Versions!Disturb, VersionsInv, VersionsShape, VersionsFields
<1>6. VersionsShape'
  <2>1. \A v \in Worker : DOMAIN doing'[v] = VersionsFields
    BY <1>2, <1>3, VersionsDisturbDates
  <2>2. parted' \in BOOLEAN
    BY <1>1
  <2>3. \A v \in Worker : doing'[v] # Versions!Idle =>
          doing'[v].id \in Versions!Id /\ doing'[v].version \notin {Versions!None, Versions!Torn}
    BY <1>1, <1>2, <1>3, <1>5 DEF VersionsInv, VersionsShape
  <2> QED BY <1>1, <1>2, <1>4, <2>1, <2>2, <2>3 DEF VersionsInv, VersionsShape
<1>7. Versions!Stored' = Versions!Stored \ {doing[w].id}
  BY <1>1, <1>4 DEF Versions!Stored, VersionsInv, VersionsShape
<1>8. VersionsPlansAreNew'
  BY <1>2, <1>3, <1>7, VersionsDisturbDates DEF VersionsPlansAreNew
<1>9. VersionsGapless'
  <2> SUFFICES ASSUME ~parted, Versions!Alone(w)
               PROVE  /\ \A id \in Versions!Stored' : id <= Cardinality(Versions!Stored')
                      /\ \A v \in Worker : doing'[v] # Versions!Idle =>
                           ~doing'[v].excused /\ doing'[v].id = Cardinality(Versions!Stored') + 1
    BY <1>1 DEF VersionsGapless
  <2>1. Versions!Stored' = Versions!Stored
    BY <1>1, <1>7, VersionsAloneIsNext
  <2> QED BY <1>1, <1>2, <1>3, <2>1, VersionsAloneIsNext
<1> QED BY <1>6, <1>8, <1>9 DEF VersionsInv

LEMMA VersionsSaveKeeps ==
  ASSUME MaxId \in Nat, VersionsInv, NEW w \in Worker, Versions!Save(w) PROVE VersionsInv'
<1>0. /\ doing[w] # Versions!Idle /\ versionsFiles' = [versionsFiles EXCEPT ![doing[w].id] = doing[w].version]
      /\ parted' = (parted \/ ~Versions!Alone(w)) /\ serial' = serial
  BY DEF Versions!Save, Versions!Idle
<1>1. versionsFiles' = [id \in Versions!Id |-> versionsFiles'[id]]
  BY <1>0 DEF VersionsInv, VersionsShape
<1>2. doing'[w] = Versions!Idle /\ doing' = [v \in Worker |-> doing'[v]]
      /\ \A v \in Worker : v # w => doing'[v] = Versions!Disturb(w)[v]
  BY DEF Versions!Save, Versions!Disturb
<1>3. DOMAIN Versions!Idle = VersionsFields
  BY DEF Versions!Idle, VersionsFields
<1>4. VersionsShape'
  <2>1. \A v \in Worker : v # w => /\ Versions!Disturb(w)[v] # Versions!Idle => doing[v] # Versions!Idle
                                  /\ Versions!Disturb(w)[v].id = doing[v].id
                                  /\ Versions!Disturb(w)[v].version = doing[v].version
    BY DEF Versions!Disturb, VersionsInv, VersionsShape, VersionsFields
  <2>2. \A v \in Worker : doing'[v] # Versions!Idle =>
          doing'[v].id \in Versions!Id /\ doing'[v].version \notin {Versions!None, Versions!Torn}
    BY <1>2, <2>1 DEF VersionsInv, VersionsShape
  <2>3. parted' \in BOOLEAN
    BY <1>0
  <2>4. \A v \in Worker : DOMAIN doing'[v] = VersionsFields
    BY <1>2, <1>3, VersionsDisturbDates
  <2> QED BY <1>0, <1>1, <1>2, <2>2, <2>3, <2>4 DEF VersionsInv, VersionsShape
<1>5. VersionsPlansAreNew'
  BY <1>2, VersionsDisturbDates DEF VersionsPlansAreNew, Versions!Idle, Versions!None
<1>6. VersionsGapless'
  <2> SUFFICES ASSUME ~parted, Versions!Alone(w)
               PROVE  /\ \A id \in Versions!Stored' : id <= Cardinality(Versions!Stored')
                      /\ \A v \in Worker : doing'[v] = Versions!Idle
    BY <1>0 DEF VersionsGapless
  <2>1. doing[w].id = Cardinality(Versions!Stored) + 1 /\ doing[w].id \notin Versions!Stored
        /\ \A id \in Versions!Stored : id <= Cardinality(Versions!Stored)
        /\ \A v \in Worker : v # w => Versions!Disturb(w)[v] = Versions!Idle
    BY <1>0, VersionsAloneIsNext
  <2>2. Versions!Stored' = Versions!Stored \cup {doing[w].id}
    BY <1>0, <1>1 DEF Versions!Stored, VersionsInv, VersionsShape
  <2>3. Cardinality(Versions!Stored') = Cardinality(Versions!Stored) + 1 /\ Cardinality(Versions!Stored) \in Nat
    BY <2>1, <2>2, VersionsStoredIsFinite, FS_AddElement
  <2>4. \A id \in Versions!Stored : id \in Int
    BY DEF Versions!Stored, Versions!Id
  <2>5. \A id \in Versions!Stored' : id <= Cardinality(Versions!Stored')
    BY <2>1, <2>2, <2>3, <2>4
  <2>6. ASSUME NEW v \in Worker PROVE doing'[v] = Versions!Idle
    <3>1. CASE v = w
      BY <1>2, <3>1
    <3>2. CASE v # w
      <4>1. doing'[v] = Versions!Disturb(w)[v]
        BY <1>2, <3>2
      <4>2. doing[v] = Versions!Idle
        BY <3>2 DEF Versions!Alone
      <4>3. Versions!Disturb(w)[v] = doing[v]
        BY <4>2 DEF Versions!Disturb
      <4> QED BY <4>1, <4>2, <4>3
    <3> QED BY <3>1, <3>2
  <2> QED BY <2>5, <2>6
<1> QED BY <1>4, <1>5, <1>6 DEF VersionsInv

LEMMA VersionsRemoveKeeps ==
  ASSUME VersionsInv, NEW w \in Worker, NEW ids, doing[w] = Versions!Idle, Versions!Remove(w, ids) PROVE VersionsInv'
<1>1. versionsFiles' = [id \in Versions!Id |-> versionsFiles'[id]] /\ parted' = TRUE /\ serial' = serial
  BY DEF Versions!Remove
<1>2. doing' = Versions!Disturb(w) /\ doing' = [v \in Worker |-> doing'[v]] /\ doing'[w] = Versions!Idle
  BY DEF Versions!Remove, Versions!Disturb
<1>3. DOMAIN Versions!Idle = VersionsFields
  BY DEF Versions!Idle, VersionsFields
<1>4. VersionsShape'
  <2>1. \A v \in Worker : /\ Versions!Disturb(w)[v] # Versions!Idle => doing[v] # Versions!Idle
                          /\ Versions!Disturb(w)[v].id = doing[v].id
                          /\ Versions!Disturb(w)[v].version = doing[v].version
    BY DEF Versions!Disturb, VersionsInv, VersionsShape, VersionsFields
  <2>2. \A v \in Worker : doing'[v] # Versions!Idle =>
          doing'[v].id \in Versions!Id /\ doing'[v].version \notin {Versions!None, Versions!Torn}
    BY <1>2, <2>1 DEF VersionsInv, VersionsShape
  <2>3. \A v \in Worker : DOMAIN doing'[v] = VersionsFields
    BY <1>2, <1>3, VersionsDisturbDates
  <2> QED BY <1>1, <1>2, <2>2, <2>3 DEF VersionsInv, VersionsShape
<1>5. VersionsPlansAreNew'
  BY <1>2, VersionsDisturbDates DEF VersionsPlansAreNew, Versions!Idle, Versions!None
<1>6. VersionsGapless'
  BY <1>1 DEF VersionsGapless
<1> QED BY <1>4, <1>5, <1>6 DEF VersionsInv

(* A plan is dropped.                                                        *)
LEMMA VersionsDropKeeps ==
  ASSUME VersionsInv, NEW w \in Worker, versionsFiles' = versionsFiles, doing' = [doing EXCEPT ![w] = Versions!Idle],
         UNCHANGED <<serial, parted>>
  PROVE VersionsInv'
<1>1. Versions!Stored' = Versions!Stored
  BY DEF Versions!Stored
<1>2. VersionsShape' /\ VersionsPlansAreNew'
  BY <1>1 DEF VersionsInv, VersionsShape, VersionsFields, Versions!Idle, Versions!None,
     VersionsPlansAreNew
<1>3. VersionsGapless'
  BY <1>1 DEF VersionsInv, VersionsShape, VersionsGapless
<1> QED BY <1>2, <1>3 DEF VersionsInv

LEMMA VersionsStepKeeps == ASSUME MaxId \in Nat, VersionsInv, [Versions!Next]_(Versions!versionVars) PROVE VersionsInv'
<1>1. ASSUME NEW w \in Worker, Versions!CreateVersion(w) PROVE VersionsInv'
  BY <1>1, VersionsPlanKeeps DEF Versions!CreateVersion
<1>2. ASSUME NEW w \in Worker, Versions!Rollback(w) PROVE VersionsInv'
  BY <1>2, VersionsPlanKeeps DEF Versions!Rollback
<1>3. ASSUME NEW w \in Worker, Versions!Save(w) PROVE VersionsInv'
  BY <1>3, VersionsSaveKeeps
<1>4. ASSUME NEW w \in Worker, Versions!SaveFails(w) \/ Versions!Restart(w) PROVE VersionsInv'
  BY <1>4, VersionsDropKeeps DEF Versions!SaveFails, Versions!Restart
<1>5. ASSUME NEW w \in Worker, NEW id \in Versions!Id, Versions!DeleteVersion(w, id) PROVE VersionsInv'
  BY <1>5, VersionsRemoveKeeps DEF Versions!DeleteVersion
<1>6. ASSUME NEW w \in Worker, NEW keep \in 1..2, Versions!CleanupOldVersions(w, keep) PROVE VersionsInv'
  BY <1>6, VersionsRemoveKeeps, VersionsCard DEF Versions!CleanupOldVersions
<1>7. CASE UNCHANGED Versions!versionVars
  BY <1>7 DEF Versions!versionVars, VersionsInv, VersionsShape, VersionsPlansAreNew,
     VersionsGapless, Versions!Stored
<1>8. ASSUME NEW w \in Worker, Versions!Open(w) PROVE VersionsInv'
  BY <1>8, VersionsOpenKeeps
<1> QED BY <1>1, <1>2, <1>3, <1>4, <1>5, <1>6, <1>7, <1>8 DEF Versions!Next

(* Only a save writes a version, and only the one it has planned.             *)
LEMMA VersionsStepRewritesNothing ==
  ASSUME MaxId \in Nat, VersionsInv, [Versions!Next]_(Versions!versionVars) PROVE Versions!RewritesNothing
<1>1. ASSUME NEW w \in Worker, Versions!Open(w) \/ Versions!Save(w) PROVE Versions!RewritesNothing
  <2>1. doing[w] # Versions!Idle
    BY <1>1 DEF Versions!Open, Versions!Save, Versions!Idle
  <2>2. doing[w].excused \/ doing[w].id \notin Versions!Stored
    BY <2>1 DEF VersionsInv, VersionsPlansAreNew
  <2>3. doing[w].excused => parted
    BY <2>1 DEF VersionsInv, VersionsGapless, VersionsShape
  <2>4. \A id \in Versions!Id : id # doing[w].id => versionsFiles'[id] = versionsFiles[id]
    BY <1>1 DEF Versions!Open, Versions!Save, VersionsInv, VersionsShape
  <2> QED BY <2>2, <2>3, <2>4 DEF Versions!RewritesNothing, Versions!Stored
<1>2. ASSUME NEW w \in Worker, Versions!CreateVersion(w) \/ Versions!Rollback(w) PROVE Versions!RewritesNothing
  <2>1. versionsFiles' = versionsFiles
    BY <1>2, VersionsCard DEF Versions!CreateVersion, Versions!Rollback, Versions!Plan
  <2> QED BY <2>1 DEF Versions!RewritesNothing
<1>3. ASSUME NEW w \in Worker, NEW ids, Versions!Remove(w, ids) PROVE Versions!RewritesNothing
  BY <1>3 DEF Versions!Remove, Versions!RewritesNothing, Versions!Stored
<1>4. ASSUME NEW w \in Worker, Versions!SaveFails(w) \/ Versions!Restart(w) PROVE Versions!RewritesNothing
  BY <1>4 DEF Versions!SaveFails, Versions!Restart, Versions!RewritesNothing
<1>5. CASE UNCHANGED Versions!versionVars
  BY <1>5 DEF Versions!versionVars, Versions!RewritesNothing
<1>6. ASSUME NEW w \in Worker, NEW id \in Versions!Id, Versions!DeleteVersion(w, id) PROVE Versions!RewritesNothing
  BY <1>6, <1>3 DEF Versions!DeleteVersion
<1>7. ASSUME NEW w \in Worker, NEW keep \in 1..2, Versions!CleanupOldVersions(w, keep) PROVE Versions!RewritesNothing
  BY <1>7, <1>3, VersionsCard DEF Versions!CleanupOldVersions
<1> QED BY <1>1, <1>2, <1>4, <1>5, <1>6, <1>7 DEF Versions!Next

-----------------------------------------------------------------------------
(* A stored version changes, or is torn, only where its number was planned on a *)
(* count that no longer held, or that was below a number in use, and only after  *)
(* a removal or two saves at once (versioning.py 97-149, 303-331 and 388-397).  *)
THEOREM HistoryIsKept == ASSUME MaxId \in Nat PROVE Versions!Spec => Versions!HistoryKept
<1>1. Versions!Init => VersionsInv
  BY VersionsInvInit
<1>2. VersionsInv /\ [Versions!Next]_(Versions!versionVars) => VersionsInv'
  BY VersionsStepKeeps
<1>3. VersionsInv /\ [Versions!Next]_(Versions!versionVars) => [Versions!RewritesNothing]_(Versions!versionVars)
  BY VersionsStepRewritesNothing
<1> QED BY <1>1, <1>2, <1>3, PTL DEF Versions!Spec, Versions!HistoryKept

-----------------------------------------------------------------------------
(* Whatever the channels, the senders, the pods and the number of presses and *)
(* deliveries.  The invariant adds that a running request acts as the user    *)
(* its press is mapped to, that the request past the check is alone in its     *)
(* pod and its pod has not decided, and that nothing is answered to a button   *)
(* nobody pressed.                                                            *)
ChatNumbers == ChatMaxClock \in Nat /\ MaxDeliveries \in Nat

ChatActsAsMapped == \A r \in chatRunning : r.user = Chat!Mapped(r.press)
ChatMayGoOn ==
    \A r \in chatRunning : r.checked =>
      /\ r.press.verb = "approve" => r.user # Creator
      /\ \A i \in DOMAIN decisions : decisions[i].pod # r.pod
ChatOneHolder ==
    \A r, q \in chatRunning : r.checked /\ q.checked /\ r.pod = q.pod => r = q
ChatClockOK ==
    /\ chatNow \in 0..ChatMaxClock /\ hasRole \subseteq User
    /\ \A p \in Chat!Press \ presses : chatAnswer[p] = "none"

ChatInv == Chat!TypeOK /\ ChatClockOK /\ ChatActsAsMapped /\ ChatMayGoOn /\ ChatOneHolder /\ Chat!ChatDecision

\* The cardinality in ChatApprovals is the one of the theorems.
LEMMA ChatCard ==
  \A S : Chat!Cardinality(S) = Cardinality(S) /\ (Chat!IsFiniteSet(S) <=> IsFiniteSet(S))
  BY DEF Chat!Cardinality, Cardinality, Chat!IsFiniteSet, IsFiniteSet

LEMMA ChatInvInit == ASSUME ChatNumbers PROVE Chat!Init => ChatInv
<1> SUFFICES ASSUME Chat!Init PROVE ChatInv
  OBVIOUS
<1>1. Chat!TypeOK
  BY DEF ChatNumbers, Chat!Init, Chat!TypeOK
<1>2. ChatClockOK /\ ChatActsAsMapped /\ ChatMayGoOn /\ ChatOneHolder
  BY DEF ChatNumbers, Chat!Init, ChatClockOK, ChatActsAsMapped, ChatMayGoOn, ChatOneHolder
<1>3. Chat!ChatDecision
  BY DEF Chat!Init, Chat!ChatDecision
<1> QED BY <1>1, <1>2, <1>3 DEF ChatInv

(* What a change of the answers may do: say "done" to the press of a decision. *)
LEMMA ChatDecisionKeeps ==
  ASSUME ChatInv, UNCHANGED <<chatStatus, decisions>>, presses \subseteq presses',
         \A p \in presses' : chatAnswer'[p] = "done" => p \in presses /\ chatAnswer[p] = "done"
  PROVE  Chat!ChatDecision'
<1>1. /\ chatStatus' = (IF decisions' = <<>> THEN "pending"
                    ELSE Chat!Outcome(decisions'[Len(decisions')].verb))
      /\ \A i, j \in DOMAIN decisions' : decisions'[i].pod = decisions'[j].pod => i = j
  BY DEF ChatInv, Chat!ChatDecision
<1>2. \A i \in DOMAIN decisions' : \E p \in presses' :
         /\ decisions'[i].by = Chat!Mapped(p) /\ decisions'[i].verb = p.verb
         /\ p.verb = "approve" => Chat!Mapped(p) # Creator
  BY DEF ChatInv, Chat!ChatDecision
<1>3. \A p \in presses' : chatAnswer'[p] = "done" =>
         \E i \in DOMAIN decisions' :
           decisions'[i].by = Chat!Mapped(p) /\ decisions'[i].verb = p.verb
  BY DEF ChatInv, Chat!ChatDecision
<1> QED BY <1>1, <1>2, <1>3 DEF Chat!ChatDecision, Chat!Mapped, Chat!Outcome

LEMMA ChatPressKeeps == ASSUME ChatInv, NEW p \in Chat!Press, Chat!PressButton(p) PROVE ChatInv'
<1>1. Chat!TypeOK'
  BY ChatCard DEF Chat!PressButton, ChatInv, Chat!TypeOK
<1>2. (ChatClockOK /\ ChatActsAsMapped /\ ChatMayGoOn /\ ChatOneHolder)'
  BY ChatCard DEF Chat!PressButton, ChatInv, ChatClockOK, ChatActsAsMapped, ChatMayGoOn,
     ChatOneHolder, Chat!Mapped
<1>3. \A q \in presses' : chatAnswer'[q] = "done" => q \in presses /\ chatAnswer[q] = "done"
  BY ChatCard DEF Chat!PressButton, ChatInv, ChatClockOK
<1>4. Chat!ChatDecision'
  BY <1>3, ChatDecisionKeeps, ChatCard DEF Chat!PressButton
<1> QED BY <1>1, <1>2, <1>4 DEF ChatInv

(* A request that is let in acts as the mapped user.                          *)
LEMMA ChatDeliverKeeps ==
  ASSUME ChatNumbers, ChatInv, NEW p \in presses, NEW pod \in ChatPod, Chat!Deliver(p, pod) PROVE ChatInv'
<1>0. p \in Chat!Press
  BY DEF ChatInv, Chat!TypeOK
<1>1. /\ UNCHANGED <<chatStatus, decisions, hasRole, presses, chatNow>>
      /\ deliveries' = [deliveries EXCEPT ![p] = @ + 1] /\ deliveries[p] < MaxDeliveries
  BY ChatCard DEF Chat!Deliver
<1>2. \/ UNCHANGED chatAnswer
      \/ chatAnswer' = [chatAnswer EXCEPT ![p] = "error"]
      \/ chatAnswer' = [chatAnswer EXCEPT ![p] = "denied"]
  BY ChatCard DEF Chat!Deliver
<1> DEFINE r == [press |-> p, nr |-> deliveries[p], pod |-> pod, user |-> Chat!Resolve(p), checked |-> FALSE]
<1>3. \/ UNCHANGED chatRunning
      \/ chatRunning' = chatRunning \cup {r} /\ Chat!Resolve(p) = Chat!Mapped(p) /\ Chat!Mapped(p) \in User
  BY ChatCard DEF Chat!Deliver, Chat!Resolve, ChatInv, ChatClockOK
<1>4. deliveries[p] \in 0..MaxDeliveries
  BY <1>0 DEF ChatInv, Chat!TypeOK
<1>5. Chat!TypeOK'
  <2>1. chatStatus' \in {"pending", "approved", "rejected"} /\ presses' \subseteq Chat!Press
        /\ decisions' \in Seq([pod : ChatPod, by : User, verb : Chat!Verb])
    BY <1>1 DEF ChatInv, Chat!TypeOK
  <2>2. deliveries' \in [Chat!Press -> 0..MaxDeliveries]
    BY <1>0, <1>1, <1>4 DEF ChatInv, Chat!TypeOK, ChatNumbers
  <2>3. chatAnswer' \in [Chat!Press -> {"none", "error", "denied", "refused", "done"}]
    BY <1>2 DEF ChatInv, Chat!TypeOK
  <2>4. chatRunning' \subseteq Chat!Running /\ \A q \in chatRunning' : q.press \in presses'
    <3>1. Chat!Resolve(p) \in User => r \in Chat!Running /\ r.press \in presses
      BY <1>0, <1>4, ChatNumbers DEF Chat!Running, ChatNumbers
    <3> HIDE DEF r
    <3> QED BY <3>1, <1>1, <1>3 DEF ChatInv, Chat!TypeOK
  <2> QED BY <2>1, <2>2, <2>3, <2>4 DEF Chat!TypeOK
<1>6. ChatClockOK'
  BY <1>0, <1>1, <1>2 DEF ChatInv, Chat!TypeOK, ChatClockOK
<1>7. (ChatActsAsMapped /\ ChatMayGoOn /\ ChatOneHolder)'
  <2>1. ~r.checked /\ r.press = p /\ r.user = Chat!Resolve(p)
    OBVIOUS
  <2> HIDE DEF r
  <2> QED BY <2>1, <1>1, <1>3 DEF ChatInv, ChatActsAsMapped, ChatMayGoOn, ChatOneHolder, Chat!Mapped
<1>8. \A q \in presses' : chatAnswer'[q] = "done" => q \in presses /\ chatAnswer[q] = "done"
  BY <1>0, <1>1, <1>2 DEF ChatInv, Chat!TypeOK
<1>9. Chat!ChatDecision'
  BY <1>1, <1>8, ChatDecisionKeeps
<1> QED BY <1>5, <1>6, <1>7, <1>9 DEF ChatInv

(* The check finds a pending action, hence no decision, and a free lock.       *)
LEMMA ChatCheckKeeps == ASSUME ChatInv, NEW r \in chatRunning, Chat!Check(r) PROVE ChatInv'
<1> DEFINE c == [r EXCEPT !.checked = TRUE]
<1>1. /\ chatRunning' = (chatRunning \ {r}) \cup {c}
      /\ UNCHANGED <<chatStatus, decisions, hasRole, presses, deliveries, chatAnswer, chatNow>>
      /\ Chat!LockFree(r.pod) /\ chatStatus = "pending"
      /\ (r.press.verb = "approve" => r.user # Creator)
  BY DEF Chat!Check, Chat!MayDecide
<1>2. r \in Chat!Running /\ r.press \in presses
  BY DEF ChatInv, Chat!TypeOK
<1>3. c \in Chat!Running /\ c.press = r.press /\ c.user = r.user /\ c.pod = r.pod /\ c.checked
  BY <1>2 DEF Chat!Running
<1> HIDE DEF c
<1>4. DOMAIN decisions = {}
  <2>1. decisions = <<>>
    BY <1>1 DEF ChatInv, Chat!ChatDecision, Chat!Outcome
  <2> QED BY <2>1
<1>5. Chat!TypeOK'
  BY <1>1, <1>2, <1>3 DEF ChatInv, Chat!TypeOK
<1>6. (ChatClockOK /\ ChatActsAsMapped /\ ChatMayGoOn)'
  BY <1>1, <1>3, <1>4 DEF ChatInv, ChatClockOK, ChatActsAsMapped, ChatMayGoOn, Chat!Mapped
<1>7. ChatOneHolder'
  BY <1>1, <1>3 DEF ChatInv, ChatOneHolder, Chat!LockFree
<1>8. Chat!ChatDecision'
  BY <1>1, ChatDecisionKeeps DEF ChatInv, Chat!TypeOK
<1> QED BY <1>5, <1>6, <1>7, <1>8 DEF ChatInv

LEMMA ChatLeaveKeeps ==
  ASSUME ChatInv, NEW r \in chatRunning, Chat!Leave(r, {"error", "refused"}), UNCHANGED <<chatStatus, decisions>>
  PROVE  ChatInv'
<1>0. r.press \in Chat!Press /\ r.press \in presses
  BY DEF ChatInv, Chat!TypeOK
<1> PICK a \in {"error", "refused"} : chatAnswer' = [chatAnswer EXCEPT ![r.press] = a]
  BY DEF Chat!Leave
<1>1. chatRunning' = chatRunning \ {r} /\ UNCHANGED <<hasRole, presses, deliveries, chatNow>>
  BY DEF Chat!Leave
<1>2. Chat!TypeOK'
  BY <1>0, <1>1 DEF ChatInv, Chat!TypeOK
<1>3. ChatClockOK'
  BY <1>0, <1>1 DEF ChatInv, Chat!TypeOK, ChatClockOK
<1>4. (ChatActsAsMapped /\ ChatMayGoOn /\ ChatOneHolder)'
  BY <1>1 DEF ChatInv, ChatActsAsMapped, ChatMayGoOn, ChatOneHolder, Chat!Mapped
<1>5. \A q \in presses' : chatAnswer'[q] = "done" => q \in presses /\ chatAnswer[q] = "done"
  BY <1>0, <1>1 DEF ChatInv, Chat!TypeOK
<1>6. Chat!ChatDecision'
  BY <1>1, <1>5, ChatDecisionKeeps
<1> QED BY <1>2, <1>3, <1>4, <1>6 DEF ChatInv

(* A decision is the first of its pod, and its press may be told so.           *)
LEMMA ChatDecideKeeps == ASSUME ChatInv, NEW r \in chatRunning, Chat!Decide(r) PROVE ChatInv'
<1> DEFINE d == [pod |-> r.pod, by |-> r.user, verb |-> r.press.verb]
<1>0. /\ r \in Chat!Running /\ r.press \in presses /\ r.press \in Chat!Press
      /\ r.user = Chat!Mapped(r.press) /\ r.checked
      /\ (r.press.verb = "approve" => r.user # Creator)
      /\ \A i \in DOMAIN decisions : decisions[i].pod # r.pod
  BY DEF ChatInv, Chat!TypeOK, ChatActsAsMapped, ChatMayGoOn, Chat!Decide
<1>1. /\ chatStatus' = Chat!Outcome(r.press.verb) /\ decisions' = Append(decisions, d)
      /\ chatRunning' = chatRunning \ {r} /\ UNCHANGED <<hasRole, presses, deliveries, chatNow>>
  BY DEF Chat!Decide, Chat!Leave
<1> PICK a \in {"done", "error", "refused"} : chatAnswer' = [chatAnswer EXCEPT ![r.press] = a]
  BY DEF Chat!Decide, Chat!Leave
<1>2. d \in [pod : ChatPod, by : User, verb : Chat!Verb] /\ r.press.verb \in Chat!Verb
  BY <1>0 DEF Chat!Running, Chat!Press
<1>3. d.pod = r.pod /\ d.by = Chat!Mapped(r.press) /\ d.verb = r.press.verb
  BY <1>0
<1> HIDE DEF d
<1>4. /\ decisions \in Seq([pod : ChatPod, by : User, verb : Chat!Verb])
      /\ Len(decisions) \in Nat /\ DOMAIN decisions = 1..Len(decisions)
  BY DEF ChatInv, Chat!TypeOK
<1>5. /\ decisions' \in Seq([pod : ChatPod, by : User, verb : Chat!Verb])
      /\ Len(decisions') = Len(decisions) + 1
      /\ DOMAIN decisions' = DOMAIN decisions \cup {Len(decisions')}
      /\ decisions'[Len(decisions')] = d /\ decisions' # <<>>
      /\ \A i \in DOMAIN decisions : i # Len(decisions') /\ decisions'[i] = decisions[i]
  BY <1>1, <1>2, <1>4
<1>6. Chat!TypeOK'
  <2>1. chatStatus' \in {"pending", "approved", "rejected"} /\ presses' \subseteq Chat!Press
        /\ deliveries' \in [Chat!Press -> 0..MaxDeliveries]
    BY <1>1 DEF ChatInv, Chat!TypeOK, Chat!Outcome
  <2>2. chatAnswer' \in [Chat!Press -> {"none", "error", "denied", "refused", "done"}]
    BY DEF ChatInv, Chat!TypeOK
  <2>3. chatRunning' \subseteq Chat!Running /\ \A q \in chatRunning' : q.press \in presses'
    BY <1>1 DEF ChatInv, Chat!TypeOK
  <2> QED BY <1>5, <2>1, <2>2, <2>3 DEF Chat!TypeOK
<1>7. ChatClockOK'
  BY <1>0, <1>1 DEF ChatInv, Chat!TypeOK, ChatClockOK
<1>8. (ChatActsAsMapped /\ ChatOneHolder)'
  BY <1>1 DEF ChatInv, ChatActsAsMapped, ChatOneHolder, Chat!Mapped
<1>9. ChatMayGoOn'
  BY <1>0, <1>1, <1>3, <1>5 DEF ChatInv, ChatMayGoOn, ChatOneHolder
<1>10. Chat!ChatDecision'
  <2>1. chatStatus' = (IF decisions' = <<>> THEN "pending"
                   ELSE Chat!Outcome(decisions'[Len(decisions')].verb))
    BY <1>1, <1>3, <1>5
  <2>2. \A i, j \in DOMAIN decisions' : decisions'[i].pod = decisions'[j].pod => i = j
    BY <1>0, <1>3, <1>5 DEF ChatInv, Chat!ChatDecision
  <2>3. \A i \in DOMAIN decisions' : \E p \in presses' :
           /\ decisions'[i].by = Chat!Mapped(p) /\ decisions'[i].verb = p.verb
           /\ p.verb = "approve" => Chat!Mapped(p) # Creator
    <3>1. \A i \in DOMAIN decisions : \E p \in presses' :
             /\ decisions'[i].by = Chat!Mapped(p) /\ decisions'[i].verb = p.verb
             /\ p.verb = "approve" => Chat!Mapped(p) # Creator
      BY <1>1, <1>5 DEF ChatInv, Chat!ChatDecision
    <3>2. \E p \in presses' :
             /\ d.by = Chat!Mapped(p) /\ d.verb = p.verb
             /\ p.verb = "approve" => Chat!Mapped(p) # Creator
      BY <1>0, <1>1, <1>3
    <3> QED BY <3>1, <3>2, <1>5
  <2>4. \A p \in presses' : chatAnswer'[p] = "done" =>
           \E i \in DOMAIN decisions' :
             decisions'[i].by = Chat!Mapped(p) /\ decisions'[i].verb = p.verb
    <3> SUFFICES ASSUME NEW p \in presses, chatAnswer'[p] = "done"
                 PROVE  \E i \in DOMAIN decisions' :
                          decisions'[i].by = Chat!Mapped(p) /\ decisions'[i].verb = p.verb
      BY <1>1
    <3>1. CASE p = r.press
      BY <3>1, <1>3, <1>5
    <3>2. CASE p # r.press
      <4>1. chatAnswer[p] = "done"
        BY <3>2 DEF ChatInv, Chat!TypeOK
      <4> PICK i \in DOMAIN decisions : decisions[i].by = Chat!Mapped(p) /\ decisions[i].verb = p.verb
        BY <4>1 DEF ChatInv, Chat!ChatDecision
      <4> QED BY <1>5
    <3> QED BY <3>1, <3>2
  <2> QED BY <2>1, <2>2, <2>3, <2>4 DEF Chat!ChatDecision, Chat!Mapped, Chat!Outcome
<1> QED BY <1>6, <1>7, <1>8, <1>9, <1>10 DEF ChatInv

LEMMA ChatStepKeeps == ASSUME ChatNumbers, ChatInv, [Chat!Next]_(Chat!chatVars) PROVE ChatInv'
<1>1. ASSUME NEW u \in User, Chat!RemoveRole(u) PROVE ChatInv'
  <2>1. Chat!ChatDecision'
    BY <1>1, ChatDecisionKeeps DEF Chat!RemoveRole
  <2> QED BY <1>1, <2>1 DEF Chat!RemoveRole, ChatInv, Chat!TypeOK, ChatClockOK, ChatActsAsMapped,
             ChatMayGoOn, ChatOneHolder, Chat!Mapped
<1>2. CASE Chat!Tick
  <2>1. Chat!ChatDecision'
    BY <1>2, ChatDecisionKeeps DEF Chat!Tick
  <2> QED BY <1>2, <2>1 DEF Chat!Tick, ChatNumbers, ChatInv, Chat!TypeOK, ChatClockOK,
             ChatActsAsMapped, ChatMayGoOn, ChatOneHolder, Chat!Mapped
<1>3. CASE UNCHANGED Chat!chatVars
  <2>1. Chat!ChatDecision'
    BY <1>3, ChatDecisionKeeps DEF Chat!chatVars
  <2> QED BY <1>3, <2>1 DEF Chat!chatVars, ChatInv, Chat!TypeOK, ChatClockOK, ChatActsAsMapped,
             ChatMayGoOn, ChatOneHolder, Chat!Mapped
<1>4. ASSUME NEW r \in chatRunning, Chat!Refuse(r) \/ Chat!FailRequest(r) PROVE ChatInv'
  <2>1. Chat!Leave(r, {"error", "refused"}) /\ UNCHANGED <<chatStatus, decisions>>
    BY <1>4 DEF Chat!Refuse, Chat!FailRequest, Chat!Leave
  <2> QED BY <2>1, ChatLeaveKeeps
<1> QED BY <1>1, <1>2, <1>3, <1>4, ChatPressKeeps, ChatDeliverKeeps, ChatCheckKeeps, ChatDecideKeeps
           DEF Chat!Next

------------------------------------------------------------------------------
(* Types, for every number of presses and deliveries.                         *)
THEOREM ChatTypes == ASSUME ChatNumbers PROVE Chat!Spec => []Chat!TypeOK
<1>1. ChatInv => Chat!TypeOK
  BY DEF ChatInv
<1> QED BY ChatInvInit, ChatStepKeeps, <1>1, PTL DEF Chat!Spec

(* Whatever the pods, the delays, the repetitions and the failures: a pod       *)
(* decides at most once, as the user a press is mapped to and never as the       *)
(* creator approving, and "done" is told for a stored decision of that press    *)
(* only (approvals/webhook.py, slack.py, teams.py, telegram_webhook.py,          *)
(* actions/engine.py).                                                         *)
THEOREM PodsDecideOnce == ASSUME ChatNumbers PROVE Chat!Spec => []Chat!ChatDecision
<1>1. ChatInv => Chat!ChatDecision
  BY DEF ChatInv
<1> QED BY ChatInvInit, ChatStepKeeps, <1>1, PTL DEF Chat!Spec

-----------------------------------------------------------------------------
(***************************************************************************)
(* However many executions ask for however many inputs, none goes through on  *)
(* an allowance older than the cache's time to live and one call.  The         *)
(* invariant follows the age of an allowance on its way from the server       *)
(* through a waiting call into the cache.                                    *)
(***************************************************************************)
PolicyEntry == [allow : BOOLEAN, age : Nat]
PolicyCall == [input : Input, answer : Policy!Answer, waited : Nat]

PolicyTimes == PolicyTTL \in Nat /\ PolicyTimeout \in Nat

PolicyTypeOK == /\ policy \subseteq Input /\ denied \in [Input -> Nat]
                /\ policyCache \in [DOMAIN policyCache -> PolicyEntry] /\ DOMAIN policyCache \subseteq Input
                /\ policyAsking \in [DOMAIN policyAsking -> PolicyCall]

PolicyAllowedNow == \A i \in policy : denied[i] = 0

\* An allowance under way is as old as its call at most.
PolicyAnswersAreRecent ==
  \A e \in DOMAIN policyAsking : /\ policyAsking[e].waited <= PolicyTimeout
                                 /\ policyAsking[e].answer = "allow" => denied[policyAsking[e].input] <= policyAsking[e].waited

\* A cached one is older by one call at most than its entry.
PolicyCacheIsRecent ==
  \A i \in DOMAIN policyCache :
    policyCache[i].allow /\ policyCache[i].age < PolicyTTL => denied[i] <= policyCache[i].age + PolicyTimeout

PolicyInv == PolicyTypeOK /\ PolicyAllowedNow /\ PolicyAnswersAreRecent /\ PolicyCacheIsRecent /\ Policy!PassWasAllowed

-----------------------------------------------------------------------------
(* What the operators on functions make of the cache and the calls.           *)
LEMMA PolicyRestrictFunction ==
  ASSUME NEW f, NEW S, S \subseteq DOMAIN f
  PROVE  /\ DOMAIN Policy!Restrict(f, S) = S
         /\ \A y \in S : Policy!Restrict(f, S)[y] = f[y]
         /\ \A T : f \in [DOMAIN f -> T] => Policy!Restrict(f, S) \in [S -> T]
  BY DEF Policy!Restrict

-----------------------------------------------------------------------------
LEMMA PolicyInvInit == ASSUME PolicyTimes PROVE Policy!Init => PolicyInv
<1> SUFFICES ASSUME Policy!Init PROVE PolicyInv
  OBVIOUS
<1>1. DOMAIN policyCache = {} /\ DOMAIN policyAsking = {}
  BY DEF Policy!Init
<1>2. policyCache \in [DOMAIN policyCache -> PolicyEntry] /\ policyAsking \in [DOMAIN policyAsking -> PolicyCall]
  BY <1>1 DEF Policy!Init
<1> QED BY <1>1, <1>2 DEF Policy!Init, PolicyInv, PolicyTypeOK, PolicyAllowedNow,
           PolicyAnswersAreRecent, PolicyCacheIsRecent, Policy!PassWasAllowed

LEMMA PolicyChangeKeeps ==
  ASSUME PolicyTimes, PolicyInv, NEW i \in Input, Policy!ChangePolicy(i) PROVE PolicyInv'
  BY DEF Policy!ChangePolicy, PolicyTimes, PolicyInv, PolicyTypeOK, PolicyEntry, PolicyCall,
     PolicyAllowedNow, PolicyAnswersAreRecent, PolicyCacheIsRecent, Policy!PassWasAllowed

(* A fresh entry lets through what was allowed; an expired one goes.           *)
LEMMA PolicyAskKeeps ==
  ASSUME PolicyTimes, PolicyInv, NEW e \in PolicyExecution, NEW i \in Input, Policy!Ask(e, i) PROVE PolicyInv'
<1> USE DEF PolicyTimes, PolicyInv, PolicyTypeOK
<1>0. UNCHANGED <<policy, denied>>
  BY DEF Policy!Ask
<1>1. CASE i \in DOMAIN policyCache /\ policyCache[i].age < PolicyTTL
  <2>1. UNCHANGED <<policyCache, policyAsking>>
    BY <1>1 DEF Policy!Ask
  <2>2. Policy!PassWasAllowed'
    BY <1>1 DEF Policy!Ask, Policy!Pass, Policy!PassWasAllowed, PolicyCacheIsRecent, PolicyEntry
  <2> QED BY <1>0, <2>1, <2>2 DEF PolicyAllowedNow, PolicyAnswersAreRecent, PolicyCacheIsRecent
<1>2. CASE ~(i \in DOMAIN policyCache /\ policyCache[i].age < PolicyTTL)
  <2> DEFINE call == [input |-> i, answer |-> "none", waited |-> 0]
             rest == DOMAIN policyCache \ {i}
  <2>1. /\ policyCache' = Policy!Restrict(policyCache, rest) /\ policyAsking' = Policy!Put(policyAsking, e, call)
        /\ passed' = passed
    BY <1>2 DEF Policy!Ask
  <2>2. call \in PolicyCall
    BY DEF PolicyCall, Policy!Answer
  <2>3. /\ policyCache' \in [DOMAIN policyCache' -> PolicyEntry] /\ DOMAIN policyCache' = rest
        /\ \A k \in rest : policyCache'[k] = policyCache[k]
    BY <2>1, PolicyRestrictFunction
  <2>4. /\ policyAsking' \in [DOMAIN policyAsking' -> PolicyCall] /\ DOMAIN policyAsking' = DOMAIN policyAsking \cup {e}
        /\ policyAsking'[e] = call
        /\ \A f \in DOMAIN policyAsking : f # e => policyAsking'[f] = policyAsking[f]
    <3>1. policyAsking \in [DOMAIN policyAsking -> PolicyCall]
      OBVIOUS
    <3> HIDE DEF call, PolicyTypeOK, PolicyInv
    <3> QED BY <2>1, <2>2, <3>1 DEF Policy!Put
  <2>5. PolicyTypeOK'
    BY <1>0, <2>3, <2>4
  <2>6. PolicyAnswersAreRecent'
    BY <1>0, <2>4 DEF PolicyAnswersAreRecent
  <2>7. PolicyCacheIsRecent'
    BY <1>0, <2>3 DEF PolicyCacheIsRecent
  <2> QED BY <1>0, <2>1, <2>5, <2>6, <2>7 DEF PolicyAllowedNow, Policy!PassWasAllowed
<1> QED BY <1>1, <1>2

LEMMA PolicyEvaluateKeeps ==
  ASSUME PolicyTimes, PolicyInv, NEW e \in PolicyExecution, Policy!Evaluate(e) PROVE PolicyInv'
<1> PICK answer \in {IF policyAsking[e].input \in policy THEN "allow" ELSE "deny", "undefined", "failed"} :
         policyAsking' = [policyAsking EXCEPT ![e].answer = answer]
  BY DEF Policy!Evaluate
<1>1. answer \in Policy!Answer /\ (answer = "allow" => policyAsking[e].input \in policy)
  BY DEF Policy!Answer
<1> QED BY <1>1 DEF Policy!Evaluate, PolicyTimes, PolicyInv, PolicyTypeOK, PolicyCall,
           PolicyAllowedNow, PolicyAnswersAreRecent, PolicyCacheIsRecent, Policy!PassWasAllowed

(* The answer enters the cache as new, although its call took its time.        *)
LEMMA PolicyReceiveKeeps ==
  ASSUME PolicyTimes, PolicyInv, NEW e \in PolicyExecution, Policy!Receive(e) PROVE PolicyInv'
<1> USE DEF PolicyTimes, PolicyInv, PolicyTypeOK
<1> DEFINE a == policyAsking[e]
           fresh == [allow |-> a.answer = "allow", age |-> 0]
           rest == DOMAIN policyAsking \ {e}
<1>1. /\ e \in DOMAIN policyAsking /\ a \in PolicyCall /\ a.waited <= PolicyTimeout
      /\ a.answer = "allow" => denied[a.input] <= PolicyTimeout
  BY DEF Policy!Receive, PolicyAnswersAreRecent, PolicyCall
<1>2. /\ policyAsking' \in [DOMAIN policyAsking' -> PolicyCall] /\ DOMAIN policyAsking' = rest
      /\ \A f \in rest : policyAsking'[f] = policyAsking[f]
  BY PolicyRestrictFunction DEF Policy!Receive
<1>3. fresh \in PolicyEntry /\ a.input \in Input
  BY <1>1 DEF PolicyEntry, PolicyCall
<1>4. UNCHANGED <<policy, denied>>
  BY DEF Policy!Receive
<1>5. policyCache' \in [DOMAIN policyCache' -> PolicyEntry] /\ DOMAIN policyCache' \subseteq Input /\ PolicyCacheIsRecent'
  <2>1. CASE a.answer \in {"allow", "deny"}
    <3>1. policyCache' = Policy!Put(policyCache, a.input, fresh)
      BY <2>1 DEF Policy!Receive
    <3>2. /\ policyCache' \in [DOMAIN policyCache' -> PolicyEntry] /\ DOMAIN policyCache' = DOMAIN policyCache \cup {a.input}
          /\ policyCache'[a.input] = fresh
          /\ \A k \in DOMAIN policyCache : k # a.input => policyCache'[k] = policyCache[k]
      <4>1. policyCache \in [DOMAIN policyCache -> PolicyEntry]
        OBVIOUS
      <4> HIDE DEF a, fresh, PolicyTypeOK, PolicyInv
      <4> QED BY <3>1, <4>1, <1>3 DEF Policy!Put
    <3>3. DOMAIN policyCache \subseteq Input /\ PolicyCacheIsRecent
      OBVIOUS
    <3>4. fresh.allow => a.answer = "allow"
      OBVIOUS
    <3>5. fresh.age = 0
      OBVIOUS
    <3> HIDE DEF a, fresh, PolicyTypeOK, PolicyInv
    <3>6. PolicyCacheIsRecent'
      BY <3>2, <3>3, <3>4, <3>5, <1>1, <1>4 DEF PolicyCacheIsRecent
    <3> QED BY <3>2, <3>3, <3>6, <1>3
  <2>2. CASE a.answer \notin {"allow", "deny"}
    BY <2>2, <1>4 DEF Policy!Receive, PolicyCacheIsRecent
  <2> QED BY <2>1, <2>2
<1>6. Policy!PassWasAllowed'
  BY <1>1, <1>3 DEF Policy!Receive, Policy!Pass, Policy!PassWasAllowed
<1> QED BY <1>2, <1>4, <1>5, <1>6 DEF PolicyAllowedNow, PolicyAnswersAreRecent

LEMMA PolicyLoseKeeps ==
  ASSUME PolicyTimes, PolicyInv, NEW e \in PolicyExecution, Policy!Lose(e) PROVE PolicyInv'
<1>1. /\ policyAsking' \in [DOMAIN policyAsking' -> PolicyCall] /\ DOMAIN policyAsking' \subseteq DOMAIN policyAsking
      /\ \A f \in DOMAIN policyAsking' : policyAsking'[f] = policyAsking[f]
  BY PolicyRestrictFunction DEF Policy!Lose, PolicyInv, PolicyTypeOK
<1> QED BY <1>1 DEF Policy!Lose, PolicyInv, PolicyTypeOK, PolicyAllowedNow, PolicyAnswersAreRecent,
           PolicyCacheIsRecent, Policy!PassWasAllowed

LEMMA PolicySweepKeeps == ASSUME PolicyTimes, PolicyInv, Policy!Sweep PROVE PolicyInv'
<1>1. /\ policyCache' \in [DOMAIN policyCache' -> PolicyEntry] /\ DOMAIN policyCache' \subseteq DOMAIN policyCache
      /\ \A i \in DOMAIN policyCache' : policyCache'[i] = policyCache[i]
  <2> DEFINE young == {i \in DOMAIN policyCache : policyCache[i].age < PolicyTTL}
  <2>1. policyCache' = Policy!Restrict(policyCache, young) /\ young \subseteq DOMAIN policyCache
    BY DEF Policy!Sweep
  <2> QED BY <2>1, PolicyRestrictFunction DEF PolicyInv, PolicyTypeOK
<1> QED BY <1>1 DEF Policy!Sweep, PolicyInv, PolicyTypeOK, PolicyAllowedNow, PolicyAnswersAreRecent,
           PolicyCacheIsRecent, Policy!PassWasAllowed

(* Time passes for an allowance, its call and its fresh alike.                 *)
LEMMA PolicyTickKeeps == ASSUME PolicyTimes, PolicyInv, Policy!Tick PROVE PolicyInv'
<1> USE DEF PolicyTimes, PolicyInv, PolicyTypeOK, PolicyEntry, PolicyCall
<1>1. \A i \in Input : denied'[i] \in Nat /\ denied'[i] <= denied[i] + 1 /\ (i \in policy => denied'[i] = 0)
  BY DEF Policy!Tick, Policy!Capped, Policy!Forever
<1>2. denied' \in [Input -> Nat] /\ policy' = policy /\ PolicyAllowedNow'
  BY <1>1 DEF Policy!Tick, PolicyAllowedNow
<1>3. policyAsking' \in [DOMAIN policyAsking' -> PolicyCall] /\ PolicyAnswersAreRecent'
  <2>1. DOMAIN policyAsking' = DOMAIN policyAsking
    BY DEF Policy!Tick
  <2>2. \A e \in DOMAIN policyAsking : /\ policyAsking'[e] \in PolicyCall /\ policyAsking'[e].input = policyAsking[e].input
                                       /\ policyAsking'[e].answer = policyAsking[e].answer
                                       /\ policyAsking'[e].waited = policyAsking[e].waited + 1
                                       /\ policyAsking[e].waited < PolicyTimeout
    BY DEF Policy!Tick
  <2>3. policyAsking' \in [DOMAIN policyAsking' -> PolicyCall]
    BY <2>1, <2>2 DEF Policy!Tick
  <2>4. PolicyAnswersAreRecent'
    BY <1>1, <2>1, <2>2 DEF PolicyAnswersAreRecent
  <2> QED BY <2>3, <2>4
<1>4. policyCache' \in [DOMAIN policyCache' -> PolicyEntry] /\ DOMAIN policyCache' = DOMAIN policyCache /\ PolicyCacheIsRecent'
  <2>1. DOMAIN policyCache' = DOMAIN policyCache
    BY DEF Policy!Tick
  <2>2. \A i \in DOMAIN policyCache : /\ policyCache'[i] \in PolicyEntry /\ policyCache'[i].allow = policyCache[i].allow
                                      /\ policyCache'[i].age = Policy!Capped(policyCache[i].age, PolicyTTL)
    BY DEF Policy!Tick, Policy!Capped
  <2>3. policyCache' \in [DOMAIN policyCache' -> PolicyEntry]
    BY <2>1, <2>2 DEF Policy!Tick
  <2>4. PolicyCacheIsRecent'
    BY <1>1, <2>1, <2>2 DEF PolicyCacheIsRecent, Policy!Capped
  <2> QED BY <2>1, <2>3, <2>4
<1>5. Policy!PassWasAllowed'
  BY DEF Policy!Tick, Policy!PassWasAllowed
<1> QED BY <1>2, <1>3, <1>4, <1>5

LEMMA PolicyStepKeeps == ASSUME PolicyTimes, PolicyInv, [Policy!Next]_(Policy!policyVars) PROVE PolicyInv'
<1>1. CASE UNCHANGED Policy!policyVars
  BY <1>1 DEF Policy!policyVars, PolicyInv, PolicyTypeOK, PolicyAllowedNow, PolicyAnswersAreRecent,
     PolicyCacheIsRecent, Policy!PassWasAllowed
<1> QED BY <1>1, PolicyChangeKeeps, PolicyAskKeeps, PolicyEvaluateKeeps, PolicyReceiveKeeps,
           PolicyLoseKeeps, PolicySweepKeeps, PolicyTickKeeps DEF Policy!Next

-----------------------------------------------------------------------------
(* An execution goes through only if the policy allowed it not longer ago than *)
(* TTL and Timeout together, for any of them (opa_client.py 121-262).          *)
THEOREM GateIsSound == ASSUME PolicyTimes PROVE Policy!Spec => []Policy!PassWasAllowed
<1>1. PolicyInv => Policy!PassWasAllowed
  BY DEF PolicyInv
<1> QED BY PolicyInvInit, PolicyStepKeeps, <1>1, PTL DEF Policy!Spec

-----------------------------------------------------------------------------
(***************************************************************************)
(* A feature branch starts at its base, for any number of requests and base   *)
(* branches, however they interleave, as long as no other request checks out   *)
(* another branch after its base is checked out.  The property is about a      *)
(* step; what makes it true is what a request nobody disturbed may rely on at   *)
(* each git command: its branch is the one that is checked out.               *)
(***************************************************************************)
\* A feature branch is named after its request: no base has that name.
GitNames == GitRequest \cap Base = {}

GitSteps == {"new", "checkout", "checked out", "pull", "checkout again", "checked out again",
          "pulling", "pulled", "commit", "push", "done"}
GitNamed == Git!CheckedOut \cup {"checkout", "checkout again"}
GitCommits == GitRequest \cup {Git!Theirs}

GitTypeOK == /\ head \in Git!Branch /\ believed \in Base
             /\ commits \in [Git!Branch -> SUBSET GitCommits] /\ remote \in [Git!Branch -> SUBSET GitCommits]
             /\ dirty \in BOOLEAN
             /\ step \in [GitRequest -> GitSteps]
             /\ gitAsked = [r \in GitRequest |-> gitAsked[r]]
             /\ clean \in [GitRequest -> BOOLEAN]

\* What a request asked for: a base, and what the origin had then, which it keeps.
GitNamesBase ==
  \A r \in GitRequest : step[r] \in GitNamed =>
    gitAsked[r].branch \in Base /\ gitAsked[r].origin \subseteq remote[gitAsked[r].branch]

\* The commands of one that creates a branch succeeded: the base it named is
\* checked out, and pulled.
GitBaseIsOut(r) ==
  clean[r] /\ gitAsked[r].feature /\ step[r] \in Git!CheckedOut =>
    /\ head = gitAsked[r].branch
    /\ step[r] = "pulled" => gitAsked[r].origin \subseteq commits[head]
GitAtBase == \A r \in GitRequest : GitBaseIsOut(r)

GitInv == GitTypeOK /\ GitNamesBase /\ GitAtBase

LEMMA GitInvInit == Git!Init => GitInv
  BY DEF Git!Init, GitInv, GitTypeOK, GitNamesBase, GitAtBase, GitBaseIsOut, GitSteps, GitNamed,
     Git!CheckedOut, Git!Branch

(* The branch of a clean request stays checked out, and loses no commit.       *)
LEMMA GitOthersStay ==
  ASSUME GitInv, NEW q \in GitRequest, step'[q] = step[q], gitAsked'[q] = gitAsked[q],
         clean'[q] /\ step[q] \in Git!CheckedOut => clean[q] /\ head' = head,
         \A b \in Base : commits[b] \subseteq commits'[b]
  PROVE  GitBaseIsOut(q)'
<1> SUFFICES ASSUME clean'[q], gitAsked[q].feature, step[q] \in Git!CheckedOut
             PROVE  /\ head' = gitAsked[q].branch
                    /\ step[q] = "pulled" => gitAsked[q].origin \subseteq commits'[head']
  BY DEF GitBaseIsOut
<1>1. head = gitAsked[q].branch /\ step[q] = "pulled" => gitAsked[q].origin \subseteq commits[head]
  BY DEF GitInv, GitAtBase, GitBaseIsOut
<1>2. gitAsked[q].branch \in Base
  BY DEF GitInv, GitNamesBase, GitNamed
<1>3. head' = head /\ head = gitAsked[q].branch
  BY DEF GitInv, GitAtBase, GitBaseIsOut
<1> QED BY <1>1, <1>2, <1>3

LEMMA GitBeginningKeeps ==
  ASSUME GitInv, NEW r \in GitRequest,
         Git!CreateBranch(r) \/ Git!SyncFromGit(r) \/ Git!CreateVersion(r) \/ Git!Rollback(r)
  PROVE  GitInv'
<1>1. ASSUME NEW s \in {"checkout", "pull"}, NEW feature \in BOOLEAN, Git!Ask(r, s, feature),
             s = "pull" => ~feature
      PROVE  GitInv'
  <2>1. PICK b \in Base :
          /\ Git!Begin(r, s)
          /\ gitAsked' = [gitAsked EXCEPT ![r] = [branch |-> b, feature |-> feature, origin |-> remote[b]]]
          /\ UNCHANGED <<head, believed, commits, remote, dirty>>
    BY <1>1 DEF Git!Ask
  <2>2. /\ step' \in [GitRequest -> GitSteps] /\ clean' = clean
        /\ step'[r] = s /\ \A q \in GitRequest : q # r => step'[q] = step[q]
    BY <2>1 DEF Git!Begin, Git!Goto, GitInv, GitTypeOK, GitSteps
  <2>3. /\ gitAsked'[r] = [branch |-> b, feature |-> feature, origin |-> remote[b]]
        /\ \A q \in GitRequest : q # r => gitAsked'[q] = gitAsked[q]
        /\ gitAsked' = [q \in GitRequest |-> gitAsked'[q]]
    BY <2>1 DEF GitInv, GitTypeOK
  <2>4. GitTypeOK'
    BY <2>1, <2>2, <2>3 DEF GitInv, GitTypeOK
  <2>5. GitNamesBase'
    BY <2>1, <2>2, <2>3 DEF GitInv, GitNamesBase
  <2>6. GitBaseIsOut(r)'
    <3>1. gitAsked'[r].feature = feature
      BY <2>3
    <3> QED BY <1>1, <2>2, <3>1 DEF GitBaseIsOut, Git!CheckedOut
  <2>7. \A q \in GitRequest : q # r => GitBaseIsOut(q)'
    BY <2>1, <2>2, <2>3, GitOthersStay
  <2>8. GitAtBase'
    BY <2>6, <2>7 DEF GitAtBase
  <2> QED BY <2>4, <2>5, <2>8 DEF GitInv
<1>2. ASSUME NEW s \in {"commit", "push"}, Git!Begin(r, s), dirty' \in BOOLEAN,
             UNCHANGED <<head, believed, commits, remote, gitAsked>>
      PROVE  GitInv'
  <2>1. /\ step' \in [GitRequest -> GitSteps] /\ clean' = clean
        /\ step'[r] = s /\ \A q \in GitRequest : q # r => step'[q] = step[q]
    BY <1>2 DEF Git!Begin, Git!Goto, GitInv, GitTypeOK, GitSteps
  <2>2. GitTypeOK'
    BY <1>2, <2>1 DEF GitInv, GitTypeOK
  <2>3. GitNamesBase'
    BY <1>2, <2>1 DEF GitInv, GitNamesBase, GitNamed, Git!CheckedOut
  <2>4. GitBaseIsOut(r)'
    BY <2>1 DEF GitBaseIsOut, Git!CheckedOut
  <2>5. \A q \in GitRequest : q # r => GitBaseIsOut(q)'
    BY <1>2, <2>1, GitOthersStay
  <2>6. GitAtBase'
    BY <2>4, <2>5 DEF GitAtBase
  <2> QED BY <2>2, <2>3, <2>6 DEF GitInv
<1> QED BY <1>1, <1>2 DEF Git!CreateBranch, Git!SyncFromGit, Git!CreateVersion, Git!Rollback,
           GitInv, GitTypeOK

(* What a request leaves checked out disturbs the others that rely on theirs.  *)
LEMMA GitCleanStays ==
  ASSUME GitInv, NEW r \in GitRequest, NEW b, clean' = Git!CleanAfter(r, b), head' = b
  PROVE  /\ clean' \in [GitRequest -> BOOLEAN]
         /\ \A q \in GitRequest : clean'[q] => clean[q]
         /\ \A q \in GitRequest :
              q # r /\ clean'[q] /\ step[q] \in Git!CheckedOut => head' = head
  BY DEF Git!CleanAfter, GitInv, GitTypeOK

LEMMA GitCheckoutKeeps ==
  ASSUME GitInv, NEW r \in GitRequest,
         Git!Checkout(r) \/ Git!CheckoutFails(r) \/ Git!Believe(r) \/ Git!Pull(r)
  PROVE  GitInv'
<1>1. PICK s \in {"pull", "pulling", "checked out", "checked out again", "checkout again"} :
        Git!Goto(r, s)
  BY DEF Git!Checkout, Git!CheckoutFails, Git!Believe, Git!Pull
<1>2. step[r] \in GitNamed /\ s \in GitSteps /\ s \in GitNamed /\ s # "pulled"
  BY <1>1 DEF Git!Checkout, Git!CheckoutFails, Git!Believe, Git!Pull, GitNamed, Git!CheckedOut,
     GitSteps
<1>3. /\ clean' \in [GitRequest -> BOOLEAN] /\ \A q \in GitRequest : clean'[q] => clean[q]
      /\ \A q \in GitRequest : q # r /\ clean'[q] /\ step[q] \in Git!CheckedOut => head' = head
      /\ UNCHANGED <<commits, remote, dirty, gitAsked>>
  <2>1. CASE Git!Checkout(r)
    BY <2>1, GitCleanStays DEF Git!Checkout
  <2>2. CASE Git!CheckoutFails(r) \/ Git!Believe(r) \/ Git!Pull(r)
    BY <2>2 DEF Git!CheckoutFails, Git!Believe, Git!Pull, GitInv, GitTypeOK
  <2> QED BY <2>1, <2>2
<1>4. /\ step' \in [GitRequest -> GitSteps]
      /\ step'[r] = s /\ \A q \in GitRequest : q # r => step'[q] = step[q]
  BY <1>1, <1>2 DEF Git!Goto, GitInv, GitTypeOK
<1>5. gitAsked[r].branch \in Base /\ gitAsked[r].origin \subseteq remote[gitAsked[r].branch]
  BY <1>2 DEF GitInv, GitNamesBase
<1>6. GitTypeOK'
  <2>1. head' \in Git!Branch /\ believed' \in Base
    BY <1>5 DEF Git!Checkout, Git!CheckoutFails, Git!Believe, Git!Pull, GitInv, GitTypeOK,
       Git!Branch
  <2> QED BY <1>3, <1>4, <2>1 DEF GitInv, GitTypeOK
<1>7. GitNamesBase'
  BY <1>2, <1>3, <1>4, <1>5 DEF GitInv, GitNamesBase
<1>8. ASSUME clean'[r], gitAsked[r].feature, s \in Git!CheckedOut PROVE head' = gitAsked[r].branch
  <2>1. CASE Git!Checkout(r)
    BY <2>1 DEF Git!Checkout
  <2>2. CASE Git!CheckoutFails(r)
    BY <1>8, <2>2 DEF Git!CheckoutFails, GitInv, GitTypeOK
  <2>3. CASE Git!Believe(r) \/ Git!Pull(r)
    <3>1. step[r] \in Git!CheckedOut /\ clean[r] /\ head' = head
      BY <1>3, <1>8, <2>3 DEF Git!Believe, Git!Pull, Git!CheckedOut
    <3> QED BY <1>8, <3>1 DEF GitInv, GitAtBase, GitBaseIsOut
  <2> QED BY <2>1, <2>2, <2>3
<1>9. GitBaseIsOut(r)'
  BY <1>2, <1>3, <1>4, <1>8 DEF GitBaseIsOut
<1>10. \A q \in GitRequest : q # r => GitBaseIsOut(q)'
  BY <1>3, <1>4, GitOthersStay
<1>11. GitAtBase'
  BY <1>9, <1>10 DEF GitAtBase
<1> QED BY <1>6, <1>7, <1>11 DEF GitInv

(* The pull brings what the origin had when the request came, and more.       *)
LEMMA GitPullingKeeps == ASSUME GitInv, NEW r \in GitRequest, Git!Pulling(r) PROVE GitInv'
<1>1. step[r] = "pulling" /\ Git!Goto(r, "pulled")
  BY DEF Git!Pulling
<1>2. /\ clean' \in [GitRequest -> BOOLEAN] /\ \A q \in GitRequest : clean'[q] => clean[q]
      /\ UNCHANGED <<head, believed, remote, dirty, gitAsked>>
  BY DEF Git!Pulling, GitInv, GitTypeOK
<1>3. /\ step' \in [GitRequest -> GitSteps]
      /\ step'[r] = "pulled" /\ \A q \in GitRequest : q # r => step'[q] = step[q]
  BY <1>1 DEF Git!Goto, GitInv, GitTypeOK, GitSteps
<1>4. gitAsked[r].branch \in Base /\ gitAsked[r].origin \subseteq remote[gitAsked[r].branch]
  BY <1>1 DEF GitInv, GitNamesBase, GitNamed, Git!CheckedOut
<1>5. remote[gitAsked[r].branch] \subseteq GitCommits
  BY <1>4 DEF GitInv, GitTypeOK, Git!Branch
<1>6. /\ commits' \in [Git!Branch -> SUBSET GitCommits]
      /\ \A b \in Base : commits[b] \subseteq commits'[b]
  BY <1>5 DEF Git!Pulling, Git!Pulled, GitInv, GitTypeOK, Git!Branch
<1>7. GitTypeOK'
  BY <1>2, <1>3, <1>6 DEF GitInv, GitTypeOK
<1>8. GitNamesBase'
  BY <1>2, <1>3, <1>4 DEF GitInv, GitNamesBase
<1>9. ASSUME clean'[r], gitAsked[r].feature
      PROVE  head = gitAsked[r].branch /\ gitAsked[r].origin \subseteq commits'[head]
  <2>1. head = gitAsked[r].branch
    BY <1>1, <1>2, <1>9 DEF GitInv, GitAtBase, GitBaseIsOut, Git!CheckedOut
  <2>2. commits' = Git!Pulled(r)
    BY <1>9 DEF Git!Pulling, GitInv, GitTypeOK
  <2>3. commits'[head] = commits[head] \cup remote[gitAsked[r].branch]
    BY <2>2 DEF Git!Pulled, GitInv, GitTypeOK
  <2> QED BY <1>4, <2>1, <2>3
<1>10. GitBaseIsOut(r)'
  BY <1>2, <1>3, <1>9 DEF GitBaseIsOut
<1>11. \A q \in GitRequest : q # r => GitBaseIsOut(q)'
  BY <1>2, <1>3, <1>6, GitOthersStay
<1>12. GitAtBase'
  BY <1>10, <1>11 DEF GitAtBase
<1> QED BY <1>7, <1>8, <1>12 DEF GitInv

LEMMA GitEndKeeps ==
  ASSUME GitNames, GitInv, NEW r \in GitRequest, Git!Branched(r) \/ Git!Commit(r) \/ Git!Push(r) PROVE GitInv'
<1>1. Git!Goto(r, "done") /\ UNCHANGED <<believed, gitAsked>>
  BY DEF Git!Branched, Git!Commit, Git!Push
<1>2. /\ clean' \in [GitRequest -> BOOLEAN] /\ \A q \in GitRequest : clean'[q] => clean[q]
      /\ \A q \in GitRequest : q # r /\ clean'[q] /\ step[q] \in Git!CheckedOut => head' = head
  <2>1. CASE head' = r /\ clean' = Git!CleanAfter(r, r)
    BY <2>1, GitCleanStays
  <2>2. CASE UNCHANGED <<head, clean>>
    BY <2>2 DEF GitInv, GitTypeOK
  <2> QED BY <2>1, <2>2 DEF Git!Branched, Git!Commit, Git!Push
<1>3. /\ step' \in [GitRequest -> GitSteps]
      /\ step'[r] = "done" /\ \A q \in GitRequest : q # r => step'[q] = step[q]
  BY <1>1 DEF Git!Goto, GitInv, GitTypeOK, GitSteps
<1>4. /\ head' \in Git!Branch /\ commits' \in [Git!Branch -> SUBSET GitCommits] /\ dirty' \in BOOLEAN
      /\ remote' \in [Git!Branch -> SUBSET GitCommits]
      /\ \A b \in Base : remote[b] \subseteq remote'[b]
      /\ \A b \in Base : commits[b] \subseteq commits'[b]
  <2>1. CASE Git!Branched(r)
    BY <2>1 DEF Git!Branched, GitInv, GitTypeOK, Git!Branch, GitNames
  <2>2. CASE Git!Commit(r)
    <3>1. r \in GitCommits
      BY DEF GitCommits
    <3> QED BY <2>2, <3>1 DEF Git!Commit, GitInv, GitTypeOK, Git!Branch
  <2>3. CASE Git!Push(r)
    <3>1. believed \in Git!Branch
      BY DEF GitInv, GitTypeOK, Git!Branch
    <3> QED BY <2>3, <3>1 DEF Git!Push, GitInv, GitTypeOK, Git!Branch
  <2> QED BY <2>1, <2>2, <2>3
<1>5. GitTypeOK'
  BY <1>1, <1>2, <1>3, <1>4 DEF GitInv, GitTypeOK
<1>6. GitNamesBase'
  BY <1>1, <1>3, <1>4 DEF GitInv, GitNamesBase, GitNamed, Git!CheckedOut
<1>7. GitBaseIsOut(r)'
  BY <1>3 DEF GitBaseIsOut, Git!CheckedOut
<1>8. \A q \in GitRequest : q # r => GitBaseIsOut(q)'
  BY <1>1, <1>2, <1>3, <1>4, GitOthersStay
<1>9. GitAtBase'
  BY <1>7, <1>8 DEF GitAtBase
<1> QED BY <1>5, <1>6, <1>9 DEF GitInv

LEMMA GitMergeKeeps == ASSUME GitInv, NEW b \in Base, Git!Merge(b) PROVE GitInv'
<1>1. /\ UNCHANGED <<head, believed, commits, dirty, step, gitAsked, clean>>
      /\ remote' = [remote EXCEPT ![b] = @ \cup {Git!Theirs}]
      /\ Git!Theirs \in GitCommits
  BY DEF Git!Merge, GitCommits
<1>2. remote' \in [Git!Branch -> SUBSET GitCommits] /\ \A a \in Base : remote[a] \subseteq remote'[a]
  BY <1>1 DEF GitInv, GitTypeOK, Git!Branch
<1>3. GitTypeOK'
  BY <1>1, <1>2 DEF GitInv, GitTypeOK
<1>4. GitNamesBase'
  BY <1>1, <1>2 DEF GitInv, GitNamesBase
<1>5. GitAtBase'
  BY <1>1 DEF GitInv, GitAtBase, GitBaseIsOut
<1> QED BY <1>3, <1>4, <1>5 DEF GitInv

LEMMA GitStepKeeps == ASSUME GitNames, GitInv, [Git!Next]_(Git!gitVars) PROVE GitInv'
<1>1. CASE UNCHANGED Git!gitVars
  BY <1>1 DEF Git!gitVars, GitInv, GitTypeOK, GitNamesBase, GitAtBase, GitBaseIsOut
<1> QED BY <1>1, GitBeginningKeeps, GitCheckoutKeeps, GitPullingKeeps, GitEndKeeps, GitMergeKeeps
           DEF Git!Next

(* Only the creation of a branch checks out one that is no base.              *)
LEMMA GitStepBranchesAtBase ==
  ASSUME GitNames, GitInv, [Git!Next]_(Git!gitVars) PROVE [Git!BranchesAtBase]_(Git!gitVars)
<1> SUFFICES ASSUME NEW r \in GitRequest, head # r, head' = r, clean[r]
             PROVE  /\ commits'[r] = commits[gitAsked[r].branch]
                    /\ gitAsked[r].origin \subseteq commits'[r]
  BY DEF Git!BranchesAtBase
<1>1. head' # head /\ head' \notin Base
  BY DEF GitNames
<1>2. Git!Branched(r) /\ gitAsked[r].feature /\ commits' = [commits EXCEPT ![r] = commits[head]]
  <2>1. PICK q \in GitRequest : Git!Checkout(q) \/ Git!Branched(q)
    BY <1>1 DEF Git!Next, Git!gitVars, Git!CreateBranch, Git!SyncFromGit, Git!Ask,
       Git!CreateVersion, Git!Rollback, Git!CheckoutFails, Git!Believe, Git!Pull, Git!Pulling,
       Git!Commit, Git!Push, Git!Merge
  <2>2. ~Git!Checkout(q)
    <3>1. step[q] \in {"checkout", "checkout again"} => gitAsked[q].branch \in Base
      BY DEF GitInv, GitNamesBase, GitNamed
    <3> QED BY <1>1, <3>1 DEF Git!Checkout
  <2> QED BY <1>1, <2>1, <2>2 DEF Git!Branched
<1>3. step[r] = "pulled"
  BY <1>2 DEF Git!Branched
<1>4. head = gitAsked[r].branch /\ gitAsked[r].origin \subseteq commits[head]
  BY <1>2, <1>3 DEF GitInv, GitAtBase, GitBaseIsOut, Git!CheckedOut
<1>5. commits'[r] = commits[head]
  BY <1>2 DEF GitInv, GitTypeOK, Git!Branch
<1> QED BY <1>4, <1>5

-----------------------------------------------------------------------------
(* A feature branch whose own commands succeeded starts with all that its base  *)
(* and the origin have, and nothing else, however the requests interleave, but  *)
(* for another request that checks out another branch after it has checked out   *)
(* its base (gitops.py 155-205).                                             *)
THEOREM BranchStartsAtBase == ASSUME GitNames PROVE Git!Spec => Git!FeatureStartsAtBase
<1>1. Git!Init => GitInv
  BY GitInvInit
<1>2. GitInv /\ [Git!Next]_(Git!gitVars) => GitInv'
  BY GitStepKeeps
<1>3. GitInv /\ [Git!Next]_(Git!gitVars) => [Git!BranchesAtBase]_(Git!gitVars)
  BY GitStepBranchesAtBase
<1> QED BY <1>1, <1>2, <1>3, PTL DEF Git!Spec, Git!FeatureStartsAtBase

-----------------------------------------------------------------------------
(***************************************************************************)
(* An entry of the configuration log is found for as long as its file is in   *)
(* the range that is read, for any days, windows and sizes of a file.  An     *)
(* entry lies in the file of the day its process chose, or was rotated away;  *)
(* its number tells it from every other, and what is behind a tear is in a     *)
(* file that has one.                                                        *)
(***************************************************************************)
ConfigLogNumbers == ConfigLogWindow \in Nat /\ MaxDay \in Nat

ConfigLogEntries == [no : Nat, day : ConfigLog!Day, opened : ConfigLog!Day]
ConfigLogTypeOK == /\ today \in ConfigLog!Day /\ opened \in ConfigLog!Day /\ opened <= today
                   /\ written \in SUBSET ConfigLogEntries /\ IsFiniteSet(written)
                   /\ configLogFiles \in [ConfigLog!Day -> SUBSET written] /\ configLogRotated \in SUBSET written
                   /\ configLogTorn \in SUBSET ConfigLog!Day /\ hidden \in SUBSET written

\* An entry has a number that was used up.
ConfigLogNumbered == \A e \in written : e.no < Cardinality(written)

\* It was written after its process had chosen the file.
ConfigLogDated == \A e \in written : e.opened <= e.day /\ e.day <= today

\* It is in the file of that day, and in no other, until that file is rotated.
ConfigLogFiled == /\ \A d \in ConfigLog!Day : \A e \in configLogFiles[d] : e.opened = d /\ e \notin configLogRotated
                  /\ \A e \in written \ configLogRotated : e \in configLogFiles[e.opened]

\* Without a tear all of a file is read.
ConfigLogWhole == \A d \in ConfigLog!Day \ configLogTorn : configLogFiles[d] \cap hidden = {}

ConfigLogInv == ConfigLogTypeOK /\ ConfigLogNumbered /\ ConfigLogDated /\ ConfigLogFiled /\ ConfigLogWhole

\* The cardinality in ConfigAudit is the one of the theorems.
LEMMA ConfigLogCard ==
  \A S : ConfigLog!Cardinality(S) = Cardinality(S) /\ (ConfigLog!IsFiniteSet(S) <=> IsFiniteSet(S))
  BY DEF ConfigLog!Cardinality, Cardinality, ConfigLog!IsFiniteSet, IsFiniteSet

LEMMA ConfigLogInvInit == ConfigLogNumbers /\ ConfigLog!Init => ConfigLogInv
<1> SUFFICES ASSUME ConfigLogNumbers, ConfigLog!Init PROVE ConfigLogInv
  OBVIOUS
<1>1. IsFiniteSet({})
  BY FS_EmptySet
<1> QED BY <1>1 DEF ConfigLogNumbers, ConfigLog!Init, ConfigLogInv, ConfigLogTypeOK,
           ConfigLogNumbered, ConfigLogDated, ConfigLogFiled, ConfigLogWhole, ConfigLog!Day

\* The new entry is no old one.
LEMMA ConfigLogEntryIsNew ==
  ASSUME ConfigLogInv
  PROVE  /\ ConfigLog!Entry \in ConfigLogEntries /\ ConfigLog!Entry \notin written
         /\ ConfigLog!Entry.opened = opened /\ ConfigLog!Entry.day = today /\ ConfigLog!Entry.no = Cardinality(written)
         /\ IsFiniteSet(written \cup {ConfigLog!Entry})
         /\ Cardinality(written) \in Nat
         /\ Cardinality(written \cup {ConfigLog!Entry}) = Cardinality(written) + 1
<1>1. Cardinality(written) \in Nat
  BY FS_CardinalityType DEF ConfigLogInv, ConfigLogTypeOK
<1>2. ConfigLog!Entry \in ConfigLogEntries /\ ConfigLog!Entry.no = Cardinality(written) /\ ConfigLog!Entry.opened = opened /\ ConfigLog!Entry.day = today
  BY <1>1, ConfigLogCard DEF ConfigLog!Entry, ConfigLogEntries, ConfigLogInv, ConfigLogTypeOK
<1>3. ConfigLog!Entry \notin written
  BY <1>1, <1>2 DEF ConfigLogInv, ConfigLogTypeOK, ConfigLogNumbered
<1>4. /\ IsFiniteSet(written \cup {ConfigLog!Entry})
      /\ Cardinality(written \cup {ConfigLog!Entry}) = Cardinality(written) + 1
  BY <1>3, FS_AddElement DEF ConfigLogInv, ConfigLogTypeOK
<1> QED BY <1>1, <1>2, <1>3, <1>4

\* What a write does to the numbers and the dates, wherever the entry ends.
LEMMA ConfigLogWriteKeeps ==
  ASSUME ConfigLogNumbers, ConfigLogInv, written' = written \cup {ConfigLog!Entry}, today' = today,
         opened' \in {opened, today}
  PROVE  /\ today' \in ConfigLog!Day /\ opened' \in ConfigLog!Day /\ opened' <= today'
         /\ written' \in SUBSET ConfigLogEntries /\ IsFiniteSet(written')
         /\ ConfigLogNumbered' /\ ConfigLogDated'
<1>1. /\ today' \in ConfigLog!Day /\ opened' \in ConfigLog!Day /\ opened' <= today'
      /\ written' \in SUBSET ConfigLogEntries /\ IsFiniteSet(written')
  BY ConfigLogEntryIsNew DEF ConfigLogInv, ConfigLogTypeOK, ConfigLog!Day, ConfigLogNumbers
<1>2. ConfigLogNumbered'
  <2> SUFFICES ASSUME NEW e \in written' PROVE e.no < Cardinality(written')
    BY DEF ConfigLogNumbered
  <2>1. Cardinality(written') = Cardinality(written) + 1 /\ Cardinality(written) \in Nat
    BY ConfigLogEntryIsNew
  <2>2. e.no \in Nat /\ e.no <= Cardinality(written)
    BY ConfigLogEntryIsNew, <1>1 DEF ConfigLogInv, ConfigLogNumbered, ConfigLogEntries,
       ConfigLogTypeOK
  <2> QED BY <2>1, <2>2
<1>3. ConfigLogDated'
  <2> SUFFICES ASSUME NEW e \in written' PROVE e.opened <= e.day /\ e.day <= today'
    BY DEF ConfigLogDated
  <2>1. CASE e \in written
    BY <2>1 DEF ConfigLogInv, ConfigLogDated
  <2>2. CASE e = ConfigLog!Entry
    BY <2>2, ConfigLogEntryIsNew DEF ConfigLogInv, ConfigLogTypeOK, ConfigLog!Day, ConfigLogNumbers
  <2> QED BY <2>1, <2>2
<1> QED BY <1>1, <1>2, <1>3

LEMMA ConfigLogInvNext == ConfigLogNumbers /\ ConfigLogInv /\ [ConfigLog!Next]_(ConfigLog!auditVars) => ConfigLogInv'
<1> SUFFICES ASSUME ConfigLogNumbers, ConfigLogInv, [ConfigLog!Next]_(ConfigLog!auditVars) PROVE ConfigLogInv'
  OBVIOUS
<1>1. ASSUME NEW tears \in SUBSET ConfigLog!Day, configLogTorn \subseteq tears, ConfigLog!AppendToLog(tears) PROVE ConfigLogInv'
  <2> DEFINE file == configLogFiles[opened] \cup {ConfigLog!Entry}
  <2>1. /\ written' = written \cup {ConfigLog!Entry} /\ today' = today
        /\ hidden' = hidden \cup ConfigLog!Behind(ConfigLog!Entry) /\ ConfigLog!CheckRotation(file, tears)
    BY <1>1, ConfigLogCard DEF ConfigLog!AppendToLog
  <2>2. opened' \in {opened, today}
    BY <2>1 DEF ConfigLog!CheckRotation, ConfigLog!Rotate, ConfigLog!Stay
  <2>3. /\ today' \in ConfigLog!Day /\ opened' \in ConfigLog!Day /\ opened' <= today'
        /\ written' \in SUBSET ConfigLogEntries /\ IsFiniteSet(written') /\ ConfigLogNumbered' /\ ConfigLogDated'
    BY <2>1, <2>2, ConfigLogWriteKeeps
  <2>4. /\ configLogFiles \in [ConfigLog!Day -> SUBSET written] /\ configLogRotated \in SUBSET written /\ opened \in ConfigLog!Day
        /\ configLogTorn \in SUBSET ConfigLog!Day /\ hidden \in SUBSET written /\ ConfigLogFiled /\ ConfigLogWhole
    BY DEF ConfigLogInv, ConfigLogTypeOK
  <2>5. hidden' \in SUBSET written'
    BY <2>1, <2>4 DEF ConfigLog!Behind
  <2>6. CASE ConfigLog!Rotate(file, tears)
    <3>1. /\ configLogFiles' = [configLogFiles EXCEPT ![opened] = {}] /\ configLogRotated' = configLogRotated \cup file
          /\ configLogTorn' = tears \ {opened}
      BY <2>6 DEF ConfigLog!Rotate
    <3>2. configLogFiles' \in [ConfigLog!Day -> SUBSET written'] /\ configLogRotated' \in SUBSET written' /\ configLogTorn' \in SUBSET ConfigLog!Day
      BY <1>1, <2>1, <2>4, <3>1
    <3>3. ConfigLogFiled'
      BY <2>1, <2>4, <3>1, ConfigLogEntryIsNew DEF ConfigLogFiled
    <3>4. ConfigLogWhole'
      <4> SUFFICES ASSUME NEW d \in ConfigLog!Day, d \notin configLogTorn' PROVE configLogFiles'[d] \cap hidden' = {}
        BY DEF ConfigLogWhole
      <4>1. CASE d = opened
        BY <2>4, <3>1, <4>1
      <4>2. CASE d # opened
        <5>1. configLogFiles'[d] = configLogFiles[d] /\ configLogFiles[d] \subseteq written /\ configLogFiles[d] \cap hidden = {}
          BY <1>1, <2>4, <3>1, <4>2 DEF ConfigLogWhole
        <5> QED BY <2>1, <5>1, ConfigLogEntryIsNew DEF ConfigLog!Behind
      <4> QED BY <4>1, <4>2
    <3> QED BY <2>3, <2>5, <3>2, <3>3, <3>4 DEF ConfigLogInv, ConfigLogTypeOK
  <2>7. CASE ConfigLog!Stay(file, tears)
    <3>1. configLogFiles' = [configLogFiles EXCEPT ![opened] = file] /\ configLogRotated' = configLogRotated /\ configLogTorn' = tears
      BY <2>7 DEF ConfigLog!Stay
    <3>2. configLogFiles' \in [ConfigLog!Day -> SUBSET written'] /\ configLogRotated' \in SUBSET written' /\ configLogTorn' \in SUBSET ConfigLog!Day
      BY <1>1, <2>1, <2>4, <3>1
    <3>3. ConfigLogFiled'
      BY <2>1, <2>4, <3>1, ConfigLogEntryIsNew DEF ConfigLogFiled
    <3>4. ConfigLogWhole'
      <4> SUFFICES ASSUME NEW d \in ConfigLog!Day, d \notin configLogTorn' PROVE configLogFiles'[d] \cap hidden' = {}
        BY DEF ConfigLogWhole
      <4>1. configLogFiles[d] \subseteq written /\ configLogFiles[d] \cap hidden = {} /\ hidden \subseteq written
        BY <1>1, <2>4, <3>1 DEF ConfigLogWhole
      <4>2. CASE d = opened
        <5>1. ConfigLog!Behind(ConfigLog!Entry) = {} /\ hidden' = hidden
          BY <1>1, <2>1, <3>1, <4>2 DEF ConfigLog!Behind
        <5>2. configLogFiles'[d] = configLogFiles[d] \cup {ConfigLog!Entry}
          BY <2>4, <3>1, <4>2
        <5> QED BY <4>1, <5>1, <5>2, ConfigLogEntryIsNew
      <4>3. CASE d # opened
        <5>1. configLogFiles'[d] = configLogFiles[d]
          BY <2>4, <3>1, <4>3
        <5> QED BY <2>1, <4>1, <5>1, ConfigLogEntryIsNew DEF ConfigLog!Behind
      <4> QED BY <4>2, <4>3
    <3> QED BY <2>3, <2>5, <3>2, <3>3, <3>4 DEF ConfigLogInv, ConfigLogTypeOK
  <2> QED BY <2>1, <2>6, <2>7 DEF ConfigLog!CheckRotation
<1>2. CASE ConfigLog!Log \/ ConfigLog!LogEndTorn
  <2>1. configLogTorn \in SUBSET ConfigLog!Day /\ configLogTorn \cup {opened} \in SUBSET ConfigLog!Day
    BY DEF ConfigLogInv, ConfigLogTypeOK
  <2> QED BY <1>1, <1>2, <2>1 DEF ConfigLog!Log, ConfigLog!LogEndTorn
<1>6. CASE ConfigLog!LogFails
  <2>1. PICK tears \in {configLogTorn, configLogTorn \cup {opened}} : ConfigLog!CheckRotation(configLogFiles[opened], tears)
    BY <1>6 DEF ConfigLog!LogFails
  <2>2. /\ UNCHANGED <<today, hidden, written>> /\ tears \in SUBSET ConfigLog!Day /\ configLogTorn \subseteq tears
        /\ opened' \in {opened, today}
    BY <1>6, <2>1 DEF ConfigLog!LogFails, ConfigLog!CheckRotation, ConfigLog!Rotate, ConfigLog!Stay,
       ConfigLogInv, ConfigLogTypeOK
  <2>3. /\ configLogFiles \in [ConfigLog!Day -> SUBSET written] /\ configLogRotated \in SUBSET written /\ opened \in ConfigLog!Day
        /\ ConfigLogFiled /\ ConfigLogWhole
    BY DEF ConfigLogInv, ConfigLogTypeOK
  <2>4. CASE ConfigLog!Rotate(configLogFiles[opened], tears)
    <3>1. /\ configLogFiles' = [configLogFiles EXCEPT ![opened] = {}] /\ configLogRotated' = configLogRotated \cup configLogFiles[opened]
          /\ configLogTorn' = tears \ {opened}
      BY <2>4 DEF ConfigLog!Rotate
    <3>2. ConfigLogTypeOK'
      BY <2>2, <2>3, <3>1 DEF ConfigLogInv, ConfigLogTypeOK, ConfigLog!Day, ConfigLogNumbers
    <3>3. ConfigLogFiled' /\ ConfigLogWhole'
      BY <2>2, <2>3, <3>1 DEF ConfigLogFiled, ConfigLogWhole
    <3> QED BY <2>2, <3>2, <3>3 DEF ConfigLogInv, ConfigLogNumbered, ConfigLogDated
  <2>5. CASE ConfigLog!Stay(configLogFiles[opened], tears)
    <3>1. configLogFiles' = configLogFiles /\ configLogRotated' = configLogRotated /\ configLogTorn' = tears /\ opened' = opened
      BY <2>3, <2>5 DEF ConfigLog!Stay
    <3>2. ConfigLogTypeOK' /\ ConfigLogFiled' /\ ConfigLogWhole'
      BY <2>2, <3>1 DEF ConfigLogInv, ConfigLogTypeOK, ConfigLogFiled, ConfigLogWhole
    <3> QED BY <2>2, <3>2 DEF ConfigLogInv, ConfigLogNumbered, ConfigLogDated
  <2> QED BY <2>1, <2>4, <2>5 DEF ConfigLog!CheckRotation
<1>3. ASSUME ConfigLog!Restart PROVE ConfigLogInv'
  BY <1>3 DEF ConfigLog!Restart, ConfigLogInv, ConfigLogTypeOK, ConfigLogNumbered, ConfigLogDated,
     ConfigLogFiled, ConfigLogWhole, ConfigLog!Day, ConfigLogNumbers
<1>4. ASSUME ConfigLog!NextDay PROVE ConfigLogInv'
  <2>1. today' = today + 1 /\ today' \in ConfigLog!Day /\ UNCHANGED <<opened, configLogFiles, configLogTorn, hidden, configLogRotated, written>>
    BY <1>4 DEF ConfigLog!NextDay, ConfigLogInv, ConfigLogTypeOK, ConfigLog!Day, ConfigLogNumbers
  <2>2. ConfigLogDated'
    <3> SUFFICES ASSUME NEW e \in written PROVE e.opened <= e.day /\ e.day <= today'
      BY <2>1 DEF ConfigLogDated
    <3> QED BY <2>1 DEF ConfigLogInv, ConfigLogTypeOK, ConfigLogDated, ConfigLogEntries,
               ConfigLog!Day, ConfigLogNumbers
  <2>3. ConfigLogTypeOK' /\ ConfigLogNumbered' /\ ConfigLogFiled' /\ ConfigLogWhole'
    BY <2>1 DEF ConfigLogInv, ConfigLogTypeOK, ConfigLogNumbered, ConfigLogFiled, ConfigLogWhole,
       ConfigLog!Day, ConfigLogNumbers
  <2> QED BY <2>2, <2>3 DEF ConfigLogInv
<1>5. ASSUME UNCHANGED ConfigLog!auditVars PROVE ConfigLogInv'
  BY <1>5 DEF ConfigLog!auditVars, ConfigLogInv, ConfigLogTypeOK, ConfigLogNumbered, ConfigLogDated,
     ConfigLogFiled, ConfigLogWhole
<1> QED BY <1>2, <1>3, <1>4, <1>5, <1>6 DEF ConfigLog!Next

LEMMA ConfigLogInvFinds == ConfigLogNumbers /\ ConfigLogInv => ConfigLog!RecentIsFound
<1> SUFFICES ASSUME ConfigLogNumbers, ConfigLogInv PROVE ConfigLog!RecentIsFound
  OBVIOUS
<1> DEFINE first == IF today < ConfigLogWindow THEN 0 ELSE today - ConfigLogWindow
           read == UNION {configLogFiles[d] : d \in ConfigLog!FilesInRange(first, today)}
<1>1. \A d \in ConfigLog!Day : d \in ConfigLog!FilesInRange(first, today) <=> first <= d /\ d <= today
  BY DEF ConfigLog!FilesInRange
<1>2. ConfigLog!RecentTrail = read \ hidden
  <2>1. ConfigLog!RecentTrail = ConfigLog!Trail(first, today)
    BY DEF ConfigLog!RecentTrail
  <2>2. ConfigLog!Trail(first, today) = read \ hidden
    <3> HIDE DEF first
    <3> QED BY DEF ConfigLog!Trail
  <2> QED BY <2>1, <2>2
<1>3. ASSUME NEW e \in written \ (configLogRotated \cup hidden), (today - e.day) + (e.day - e.opened) <= ConfigLogWindow
      PROVE  e \in ConfigLog!RecentTrail
  <2>1. e \in configLogFiles[e.opened] /\ e.opened \in ConfigLog!Day /\ e.day \in ConfigLog!Day /\ e.opened <= e.day /\ e.day <= today
    BY <1>3 DEF ConfigLogInv, ConfigLogTypeOK, ConfigLogFiled, ConfigLogDated, ConfigLogEntries
  <2>2. today \in ConfigLog!Day
    BY DEF ConfigLogInv, ConfigLogTypeOK
  <2>3. first <= e.opened /\ e.opened <= today
    BY <1>3, <2>1, <2>2 DEF ConfigLog!Day, ConfigLogNumbers
  <2>4. e.opened \in ConfigLog!FilesInRange(first, today)
    BY <1>1, <2>1, <2>3
  <2>5. configLogFiles[e.opened] \in {configLogFiles[d] : d \in ConfigLog!FilesInRange(first, today)}
    BY <2>4
  <2>6. e \in read
    BY <2>1, <2>5
  <2>7. e \notin hidden
    BY <1>3
  <2> HIDE DEF read
  <2> QED BY <1>2, <2>6, <2>7
<1>4. ConfigLog!RecentTrail \subseteq written \ configLogRotated
  BY <1>2 DEF ConfigLogInv, ConfigLogTypeOK, ConfigLogFiled, ConfigLog!FilesInRange
<1>5. \A c, d \in ConfigLog!Day : c # d => configLogFiles[c] \cap configLogFiles[d] = {}
  BY DEF ConfigLogInv, ConfigLogFiled
<1>6. \A d \in ConfigLog!Day \ configLogTorn : configLogFiles[d] \cap hidden = {}
  BY DEF ConfigLogInv, ConfigLogWhole
<1> QED BY <1>3, <1>4, <1>5, <1>6 DEF ConfigLog!RecentIsFound

(* A configuration change is found for Window days, less those its process    *)
(* had been up, unless its file was rotated or torn before it, and once         *)
(* (audit.py 98-226).                                                        *)
THEOREM ChangesAreFound == ASSUME ConfigLogNumbers PROVE ConfigLog!Spec => []ConfigLog!RecentIsFound
<1> QED BY ConfigLogInvInit, ConfigLogInvNext, ConfigLogInvFinds, PTL DEF ConfigLog!Spec

-----------------------------------------------------------------------------
(***************************************************************************)
(* The audit log of the actions keeps what was logged, for any sizes and any  *)
(* number of torn writes.  The invariant pays for an entry that a torn line   *)
(* takes with it in advance: while the last line is torn, one failure more    *)
(* was counted than entries were lost.                                       *)
(***************************************************************************)
TrailNumbers == Legacy \in Nat /\ MaxEntries \in Nat /\ MaxRead \in Nat

TrailTypeOK == /\ exists \in BOOLEAN /\ (~exists => log = <<>>)
               /\ log \in Seq(Int) /\ trailRotated \in Seq(Int) /\ rows \in Seq(Int)
               /\ logged \in 0..MaxEntries /\ trailTorn \in Nat
               /\ acked \in SUBSET (1..logged) /\ trailTasks \in SUBSET acked

\* The lines that can be read are older than the next entry, and in order.
TrailSays(line) == line \notin {Trail!Torn, Trail!Garbled}
TrailOrdered ==
  /\ \A i \in 1..Len(log) : TrailSays(log[i]) => log[i] <= logged
  /\ \A i, j \in 1..Len(log) : TrailSays(log[i]) /\ TrailSays(log[j]) /\ i < j => log[i] < log[j]

\* What was lost, and what the open line will cost.
TrailLost == acked \ (Trail!Entries(log) \cup Trail!Entries(trailRotated) \cup gone)
TrailOpen(lines) == Len(lines) > 0 /\ lines[Len(lines)] = Trail!Torn
TrailPaid == Cardinality(TrailLost) <= trailTorn /\ (TrailOpen(log) => Cardinality(TrailLost) < trailTorn)

\* A copy is made of what was logged, once.
TrailCopiedOnce ==
  /\ \A i \in 1..Len(rows) : rows[i] \in acked /\ rows[i] \notin trailTasks
  /\ \A i, j \in 1..Len(rows) : rows[i] = rows[j] => i = j

TrailInv == TrailTypeOK /\ TrailOrdered /\ TrailPaid /\ TrailCopiedOnce

-----------------------------------------------------------------------------
\* What a line appended does to a file.
\* The cardinality in AuditTrail is the one of the theorems.
LEMMA TrailCard ==
  \A S : Trail!Cardinality(S) = Cardinality(S) /\ (Trail!IsFiniteSet(S) <=> IsFiniteSet(S))
  BY DEF Trail!Cardinality, Cardinality, Trail!IsFiniteSet, IsFiniteSet

LEMMA TrailAppended ==
  ASSUME TrailNumbers, NEW lines \in Seq(Int), NEW x \in Int
  PROVE  LET more == Trail!AppendLine(lines, x) IN
         /\ more \in Seq(Int) /\ Len(more) > 0
         /\ TrailOpen(lines) => /\ Len(more) = Len(lines)
                                /\ more[Len(more)] = IF x = Trail!Torn THEN Trail!Torn ELSE Trail!Garbled
         /\ ~TrailOpen(lines) => Len(more) = Len(lines) + 1 /\ more[Len(more)] = x
         /\ \A i \in 1..Len(more) : i < Len(more) => i \in 1..Len(lines) /\ more[i] = lines[i]
<1> DEFINE more == Trail!AppendLine(lines, x)
<1>1. Trail!Torn \in Int /\ Trail!Garbled \in Int /\ Len(lines) \in Nat
  BY DEF Trail!Torn, Trail!Garbled, TrailNumbers
<1>2. CASE TrailOpen(lines)
  <2> DEFINE front == Trail!Front(lines)
             y == IF x = Trail!Torn THEN Trail!Torn ELSE Trail!Garbled
  <2>1. lines # <<>> /\ Trail!Last(lines) = Trail!Torn
    BY <1>2 DEF TrailOpen, Trail!Last
  <2>2. more = Append(front, y)
    BY <2>1 DEF Trail!AppendLine
  <2>3. /\ front \in Seq(Int) /\ Len(front) = Len(lines) - 1
        /\ \A i \in 1..Len(front) : front[i] = lines[i]
    <3> DEFINE n == Len(lines) - 1
    <3>1. n \in Nat /\ n <= Len(lines)
      BY <1>1, <1>2 DEF TrailOpen
    <3>2. front = SubSeq(lines, 1, n)
      BY DEF Trail!Front
    <3> HIDE DEF n
    <3>3. /\ SubSeq(lines, 1, n) \in Seq(Int) /\ Len(SubSeq(lines, 1, n)) = n
          /\ \A i \in 1..n : SubSeq(lines, 1, n)[i] = lines[i]
      BY <1>1, <3>1
    <3> HIDE DEF front
    <3> QED BY <3>2, <3>3 DEF n
  <2>4. y \in Int
    BY <1>1
  <2> HIDE DEF front, y
  <2>5. /\ more \in Seq(Int) /\ Len(more) = Len(front) + 1 /\ more[Len(more)] = y
        /\ \A i \in 1..Len(front) : more[i] = front[i]
    BY <2>2, <2>3, <2>4
  <2>6. Len(more) = Len(lines) /\ Len(more) > 0
    BY <1>1, <1>2, <2>3, <2>5 DEF TrailOpen
  <2> HIDE DEF more
  <2>7. \A i \in 1..Len(more) : i < Len(more) => i \in 1..Len(lines) /\ more[i] = lines[i]
    <3> SUFFICES ASSUME NEW i \in 1..Len(more), i < Len(more)
                 PROVE  i \in 1..Len(lines) /\ more[i] = lines[i]
      OBVIOUS
    <3>1. Len(more) = Len(front) + 1 /\ Len(front) = Len(lines) - 1
      BY <2>3, <2>5
    <3>2. i \in 1..Len(front) /\ i \in 1..Len(lines)
      BY <1>1, <3>1
    <3> QED BY <2>3, <2>5, <3>2
  <2> QED BY <1>2, <2>5, <2>6, <2>7 DEF more, y
<1>3. CASE ~TrailOpen(lines)
  <2>1. ~(lines # <<>> /\ Trail!Last(lines) = Trail!Torn)
    BY <1>1, <1>3 DEF TrailOpen, Trail!Last
  <2>2. more = Append(lines, x)
    BY <2>1 DEF Trail!AppendLine
  <2> QED BY <1>1, <1>3, <2>2
<1> QED BY <1>2, <1>3

LEMMA TrailEntriesOf ==
  ASSUME NEW lines \in Seq(Int)
  PROVE  /\ \A e : e \in Trail!Entries(lines) <=> \E i \in 1..Len(lines) : TrailSays(lines[i]) /\ lines[i] = e
         /\ \A e \in Trail!Entries(lines) : e \in Int /\ TrailSays(e)
  BY DEF Trail!Entries, Trail!Readable, TrailSays

\* A line that says nothing adds no entry, and the last line says nothing when
\* it is open.
LEMMA TrailAppendedEntries ==
  ASSUME TrailNumbers, NEW lines \in Seq(Int), NEW x \in Int
  PROVE  /\ Trail!Entries(lines) \subseteq Trail!Entries(Trail!AppendLine(lines, x))
         /\ ~TrailOpen(lines) /\ TrailSays(x) => x \in Trail!Entries(Trail!AppendLine(lines, x))
<1> DEFINE more == Trail!AppendLine(lines, x)
<1>1. /\ more \in Seq(Int) /\ Len(more) > 0
      /\ TrailOpen(lines) => Len(more) = Len(lines)
      /\ ~TrailOpen(lines) => Len(more) = Len(lines) + 1 /\ more[Len(more)] = x
      /\ \A i \in 1..Len(more) : i < Len(more) => i \in 1..Len(lines) /\ more[i] = lines[i]
  BY TrailAppended
<1> HIDE DEF more
<1>2. ASSUME NEW e \in Trail!Entries(lines) PROVE e \in Trail!Entries(more)
  <2>1. PICK i \in 1..Len(lines) : TrailSays(lines[i]) /\ lines[i] = e
    BY TrailEntriesOf
  <2>2. i \in 1..Len(more) /\ i < Len(more)
    <3>1. CASE TrailOpen(lines)
      BY <1>1, <2>1, <3>1 DEF TrailOpen, TrailSays
    <3>2. CASE ~TrailOpen(lines)
      BY <1>1, <3>2
    <3> QED BY <3>1, <3>2
  <2>3. more[i] = e
    BY <1>1, <2>1, <2>2
  <2> QED BY <1>1, <2>1, <2>2, <2>3, TrailEntriesOf
<1>3. ASSUME ~TrailOpen(lines), TrailSays(x) PROVE x \in Trail!Entries(more)
  <2>1. Len(more) \in 1..Len(more)
    BY <1>1
  <2> QED BY <1>1, <1>3, <2>1, TrailEntriesOf
<1> QED BY <1>2, <1>3 DEF more

\* An entry of the log is not lost, so few are.
LEMMA TrailLostIsFinite ==
  ASSUME TrailNumbers, NEW n \in Nat, NEW S \in SUBSET (1..n)
  PROVE  IsFiniteSet(S) /\ Cardinality(S) \in Nat
<1>1. IsFiniteSet(1..n)
  BY FS_Interval
<1>2. IsFiniteSet(S)
  BY <1>1, FS_Subset
<1> QED BY <1>2, FS_CardinalityType

LEMMA TrailFewerLost ==
  ASSUME NEW S, NEW T, IsFiniteSet(T), S \subseteq T
  PROVE  Cardinality(S) <= Cardinality(T)
  BY FS_Subset

-----------------------------------------------------------------------------
LEMMA TrailInvInit == TrailNumbers /\ Trail!Init => TrailInv
<1> SUFFICES ASSUME TrailNumbers, Trail!Init PROVE TrailInv
  OBVIOUS
<1>1. Len(<<>>) = 0 /\ <<>> \in Seq(Int) /\ 0 \in 0..MaxEntries
  BY DEF TrailNumbers
<1>3. TrailTypeOK
  BY <1>1 DEF Trail!Init, TrailTypeOK
<1>4. TrailOrdered /\ TrailCopiedOnce
  BY <1>1 DEF Trail!Init, TrailOrdered, TrailCopiedOnce
<1>2. TrailLost = {} /\ ~TrailOpen(log)
  BY DEF TrailLost, Trail!Init, TrailOpen
<1> QED BY <1>2, <1>3, <1>4, FS_EmptySet DEF Trail!Init, TrailInv, TrailPaid

\* The entries in the log when a line is written at its end.
LEMMA TrailWriteOrders ==
  ASSUME TrailNumbers, TrailInv, logged < MaxEntries, NEW x \in {logged + 1, Trail!Torn}
  PROVE  LET more == Trail!AppendLine(log, x) IN
         /\ more \in Seq(Int)
         /\ \A i \in 1..Len(more) : TrailSays(more[i]) => more[i] <= logged + 1
         /\ \A i, j \in 1..Len(more) : TrailSays(more[i]) /\ TrailSays(more[j]) /\ i < j => more[i] < more[j]
<1> DEFINE more == Trail!AppendLine(log, x)
<1>0. x \in Int /\ log \in Seq(Int) /\ logged \in Nat
  BY DEF TrailInv, TrailTypeOK, TrailNumbers, Trail!Torn
<1>1. /\ more \in Seq(Int) /\ Len(more) > 0
      /\ more[Len(more)] \in {x, Trail!Torn, Trail!Garbled}
      /\ \A i \in 1..Len(more) : i < Len(more) => i \in 1..Len(log) /\ more[i] = log[i]
  BY <1>0, TrailAppended
<1> HIDE DEF more
<1>2. ASSUME NEW i \in 1..Len(more), TrailSays(more[i])
      PROVE  /\ i < Len(more) => more[i] <= logged
             /\ i = Len(more) => more[i] = logged + 1
  BY <1>0, <1>1, <1>2 DEF TrailInv, TrailOrdered, TrailSays
<1>3. ASSUME NEW i \in 1..Len(more), TrailSays(more[i]) PROVE more[i] <= logged + 1
  <2>1. more[i] \in Int /\ (i < Len(more) \/ i = Len(more))
    BY <1>1
  <2>2. more[i] <= logged \/ more[i] = logged + 1
    BY <1>2, <1>3, <2>1
  <2> QED BY <1>0, <2>1, <2>2
<1>4. ASSUME NEW i \in 1..Len(more), NEW j \in 1..Len(more), TrailSays(more[i]), TrailSays(more[j]), i < j
      PROVE  more[i] < more[j]
  <2>1. i < Len(more) /\ more[i] \in Int
    BY <1>1, <1>4
  <2>2. CASE j < Len(more)
    <3>1. more[i] = log[i] /\ more[j] = log[j] /\ i \in 1..Len(log) /\ j \in 1..Len(log)
      BY <1>1, <2>1, <2>2
    <3> QED BY <1>4, <3>1 DEF TrailInv, TrailOrdered
  <2>3. CASE j = Len(more)
    BY <1>0, <1>2, <1>4, <2>1, <2>3
  <2> QED BY <1>1, <2>2, <2>3
<1> QED BY <1>1, <1>3, <1>4 DEF more

LEMMA TrailLogKeeps == ASSUME TrailNumbers, TrailInv, Trail!Log PROVE TrailInv'
<1> DEFINE new == logged + 1
           lines == Trail!AppendLine(log, new)
<1>1. /\ logged < MaxEntries /\ logged' = new /\ acked' = acked \cup {new}
      /\ \/ trailTasks' = trailTasks \cup {new}
         \/ trailTasks' = trailTasks
      /\ \/ trailRotated' = lines /\ gone' = gone \cup Trail!ToSet(trailRotated) /\ log' = <<>> /\ exists' = FALSE
         \/ log' = lines /\ exists' = TRUE /\ trailRotated' = trailRotated /\ gone' = gone
      /\ rows' = rows /\ trailTorn' = trailTorn
  BY DEF Trail!Log, Trail!Rotate
<1>2. /\ logged \in Nat /\ new \in 1..MaxEntries /\ new \in Int /\ MaxEntries \in Nat
      /\ log \in Seq(Int) /\ trailRotated \in Seq(Int) /\ trailTorn \in Nat
      /\ acked \in SUBSET (1..logged) /\ trailTasks \in SUBSET acked
  BY <1>1 DEF TrailInv, TrailTypeOK, TrailNumbers
<1>3. TrailSays(new) /\ new \notin acked
  BY <1>2 DEF TrailSays, Trail!Torn, Trail!Garbled
<1>4. /\ lines \in Seq(Int) /\ Len(lines) > 0
      /\ TrailOpen(log) => lines[Len(lines)] = Trail!Garbled
      /\ ~TrailOpen(log) => lines[Len(lines)] = new
  <2>1. new # Trail!Torn
    BY <1>3 DEF TrailSays
  <2> QED BY <1>2, <2>1, TrailAppended
<1>5. ~TrailOpen(lines)
  BY <1>2, <1>3, <1>4 DEF TrailOpen, TrailSays, Trail!Torn, Trail!Garbled
<1>6. /\ \A i \in 1..Len(lines) : TrailSays(lines[i]) => lines[i] <= new
      /\ \A i, j \in 1..Len(lines) : TrailSays(lines[i]) /\ TrailSays(lines[j]) /\ i < j => lines[i] < lines[j]
  BY <1>1, TrailWriteOrders
<1>7. /\ Trail!Entries(log) \subseteq Trail!Entries(lines)
      /\ ~TrailOpen(log) => new \in Trail!Entries(lines)
  BY <1>2, <1>3, TrailAppendedEntries
<1> HIDE DEF new, lines
<1>8. TrailTypeOK'
  <2>1. logged' \in 0..MaxEntries /\ acked' \in SUBSET (1..logged')
    BY <1>1, <1>2 DEF new
  <2>2. trailTasks' \in SUBSET acked' /\ rows' \in Seq(Int) /\ trailTorn' \in Nat
    BY <1>1, <1>2 DEF TrailInv, TrailTypeOK
  <2>3. /\ exists' \in BOOLEAN /\ (~exists' => log' = <<>>)
        /\ log' \in Seq(Int) /\ trailRotated' \in Seq(Int)
    <3>1. <<>> \in Seq(Int)
      OBVIOUS
    <3>2. CASE trailRotated' = lines /\ log' = <<>> /\ exists' = FALSE
      BY <1>4, <3>1, <3>2
    <3>3. CASE log' = lines /\ exists' = TRUE /\ trailRotated' = trailRotated
      BY <1>2, <1>4, <3>3
    <3> QED BY <1>1, <3>2, <3>3
  <2> QED BY <2>1, <2>2, <2>3 DEF TrailTypeOK
<1>9. TrailOrdered'
  BY <1>1, <1>6 DEF TrailOrdered
<1>10. TrailCopiedOnce'
  BY <1>1, <1>3 DEF TrailInv, TrailCopiedOnce
<1>11. TrailPaid'
  <2>1. ~TrailOpen(log')
    BY <1>1, <1>5 DEF TrailOpen
  <2>2. Trail!Entries(trailRotated) \subseteq Trail!ToSet(trailRotated)
    BY DEF Trail!Entries, Trail!Readable, Trail!ToSet
  <2>3. TrailLost' \subseteq TrailLost \cup (IF TrailOpen(log) THEN {new} ELSE {})
    <3>1. CASE log' = lines /\ trailRotated' = trailRotated /\ gone' = gone
      BY <1>1, <1>7, <3>1 DEF TrailLost
    <3>2. CASE trailRotated' = lines /\ gone' = gone \cup Trail!ToSet(trailRotated)
      BY <1>1, <1>7, <2>2, <3>2 DEF TrailLost
    <3> QED BY <1>1, <3>1, <3>2
  <2>4. IsFiniteSet(TrailLost) /\ Cardinality(TrailLost) \in Nat
    BY <1>2, TrailLostIsFinite DEF TrailLost
  <2>5. CASE TrailOpen(log)
    <3>1. IsFiniteSet(TrailLost \cup {new}) /\ Cardinality(TrailLost \cup {new}) <= Cardinality(TrailLost) + 1
      BY <2>4, FS_AddElement
    <3>2. Cardinality(TrailLost') <= Cardinality(TrailLost \cup {new})
      BY <2>3, <2>5, <3>1, TrailFewerLost
    <3>3. Cardinality(TrailLost \cup {new}) \in Nat /\ Cardinality(TrailLost') \in Nat
      <4>1. IsFiniteSet(TrailLost')
        BY <2>3, <2>5, <3>1, FS_Subset
      <4> QED BY <3>1, <4>1, FS_CardinalityType
    <3>4. Cardinality(TrailLost) < trailTorn
      BY <2>5 DEF TrailInv, TrailPaid
    <3> QED BY <1>1, <1>2, <2>1, <2>4, <3>1, <3>2, <3>3, <3>4 DEF TrailPaid
  <2>6. CASE ~TrailOpen(log)
    <3>1. Cardinality(TrailLost') <= Cardinality(TrailLost)
      BY <2>3, <2>4, <2>6, TrailFewerLost
    <3>2. Cardinality(TrailLost') \in Nat
      <4>1. IsFiniteSet(TrailLost')
        BY <2>3, <2>4, <2>6, FS_Subset
      <4> QED BY <4>1, FS_CardinalityType
    <3> QED BY <1>1, <1>2, <2>1, <2>4, <3>1, <3>2 DEF TrailInv, TrailPaid
  <2> QED BY <2>5, <2>6
<1> QED BY <1>8, <1>9, <1>10, <1>11 DEF TrailInv

LEMMA TrailLogFailsKeeps == ASSUME TrailNumbers, TrailInv, Trail!LogFails PROVE TrailInv'
<1> DEFINE lines == Trail!AppendLine(log, Trail!Torn)
<1>1. /\ logged < MaxEntries /\ logged' = logged + 1 /\ trailTorn' = trailTorn + 1
      /\ log' = lines /\ exists' = TRUE
      /\ UNCHANGED <<trailRotated, trailTasks, rows, acked, gone>>
  BY DEF Trail!LogFails
<1>2. /\ logged \in Nat /\ MaxEntries \in Nat /\ log \in Seq(Int) /\ trailTorn \in Nat /\ Trail!Torn \in Int
      /\ acked \in SUBSET (1..logged)
  BY DEF TrailInv, TrailTypeOK, TrailNumbers, Trail!Torn
<1>3. /\ lines \in Seq(Int)
      /\ \A i \in 1..Len(lines) : TrailSays(lines[i]) => lines[i] <= logged + 1
      /\ \A i, j \in 1..Len(lines) : TrailSays(lines[i]) /\ TrailSays(lines[j]) /\ i < j => lines[i] < lines[j]
  BY <1>1, TrailWriteOrders
<1>4. Trail!Entries(log) \subseteq Trail!Entries(lines)
  BY <1>2, TrailAppendedEntries
<1> HIDE DEF lines
<1>5. TrailTypeOK' /\ TrailOrdered' /\ TrailCopiedOnce'
  BY <1>1, <1>2, <1>3 DEF TrailInv, TrailTypeOK, TrailOrdered, TrailCopiedOnce
<1>6. TrailLost' \subseteq TrailLost
  BY <1>1, <1>4 DEF TrailLost
<1>7. IsFiniteSet(TrailLost) /\ Cardinality(TrailLost) \in Nat
  BY <1>2, TrailLostIsFinite DEF TrailLost
<1>8. Cardinality(TrailLost') <= Cardinality(TrailLost)
  BY <1>6, <1>7, TrailFewerLost
<1>9. Cardinality(TrailLost') \in Nat
  <2>1. IsFiniteSet(TrailLost')
    BY <1>6, <1>7, FS_Subset
  <2> QED BY <2>1, FS_CardinalityType
<1>10. TrailPaid'
  <2>1. Cardinality(TrailLost') < trailTorn'
    BY <1>1, <1>2, <1>7, <1>8, <1>9 DEF TrailInv, TrailPaid
  <2>2. trailTorn' \in Nat
    BY <1>1, <1>2
  <2> QED BY <1>9, <2>1, <2>2 DEF TrailPaid
<1> QED BY <1>5, <1>10 DEF TrailInv

LEMMA TrailMirrorKeeps == ASSUME TrailNumbers, TrailInv, NEW e \in trailTasks, Trail!Mirror(e) PROVE TrailInv'
<1>1. /\ trailTasks' = trailTasks \ {e} /\ rows' \in {Append(rows, e), rows}
      /\ UNCHANGED <<exists, log, trailRotated, logged, acked, gone, trailTorn>>
  BY DEF Trail!Mirror
<1>2. rows \in Seq(Int) /\ e \in Int /\ e \in acked
  BY DEF TrailInv, TrailTypeOK, TrailNumbers
<1>3. TrailTypeOK'
  <2>1. rows' \in Seq(Int)
    BY <1>1, <1>2
  <2>2. trailTasks' \in SUBSET acked'
    BY <1>1 DEF TrailInv, TrailTypeOK
  <2> QED BY <1>1, <2>1, <2>2 DEF TrailInv, TrailTypeOK
<1>4. TrailCopiedOnce'
  <2>1. CASE rows' = rows
    BY <1>1, <2>1 DEF TrailInv, TrailCopiedOnce
  <2>2. CASE rows' = Append(rows, e)
    <3>1. /\ Len(rows') = Len(rows) + 1 /\ rows'[Len(rows) + 1] = e
          /\ \A i \in 1..Len(rows) : rows'[i] = rows[i]
      BY <1>2, <2>2
    <3>2. ASSUME NEW i \in 1..Len(rows') PROVE rows'[i] \in acked /\ rows'[i] \notin trailTasks'
      BY <1>1, <1>2, <3>1 DEF TrailInv, TrailCopiedOnce
    <3>3. ASSUME NEW i \in 1..Len(rows'), NEW j \in 1..Len(rows'), rows'[i] = rows'[j] PROVE i = j
      BY <1>1, <1>2, <3>1, <3>3 DEF TrailInv, TrailCopiedOnce
    <3> QED BY <1>1, <3>2, <3>3 DEF TrailCopiedOnce
  <2> QED BY <1>1, <2>1, <2>2
<1>5. TrailLost' = TrailLost /\ TrailOrdered'
  BY <1>1 DEF TrailLost, TrailInv, TrailOrdered
<1> QED BY <1>1, <1>3, <1>4, <1>5 DEF TrailInv, TrailPaid

LEMMA TrailRestartKeeps == ASSUME TrailNumbers, TrailInv, Trail!Restart PROVE TrailInv'
<1>1. trailTasks' = {} /\ UNCHANGED <<trailRotated, logged, rows, acked, gone>>
  BY DEF Trail!Restart
<1>2. Legacy \in Nat /\ Trail!Torn \in Int /\ trailTorn \in Nat /\ logged \in Nat /\ acked \in SUBSET (1..logged)
  BY DEF TrailInv, TrailTypeOK, TrailNumbers, Trail!Torn
<1>3. CASE exists \/ Legacy = 0
  <2>1. UNCHANGED <<exists, log, trailTorn>>
    BY <1>3 DEF Trail!Restart
  <2>2. TrailTypeOK' /\ TrailOrdered' /\ TrailCopiedOnce'
    BY <1>1, <2>1 DEF TrailInv, TrailTypeOK, TrailOrdered, TrailCopiedOnce
  <2>3. TrailLost' = TrailLost
    BY <1>1, <2>1 DEF TrailLost
  <2> QED BY <2>1, <2>2, <2>3 DEF TrailInv, TrailPaid
<1>4. CASE ~(exists \/ Legacy = 0)
  <2>1. exists' = TRUE /\ log = <<>> /\ Trail!Entries(log) = {} /\ ~TrailOpen(log)
    BY <1>4 DEF Trail!Restart, TrailInv, TrailTypeOK, Trail!Entries, Trail!Readable, TrailOpen
  <2>2. PICK n \in 0..Legacy :
          \/ /\ log' = [i \in 1..n |-> Trail!Oldest + i - 1]
             /\ trailTorn' = trailTorn
          \/ /\ log' = Append([i \in 1..n |-> Trail!Oldest + i - 1], Trail!Torn)
             /\ trailTorn' = trailTorn + 1
    BY <1>2, <1>4 DEF Trail!Restart
  <2> DEFINE old == [i \in 1..n |-> Trail!Oldest + i - 1]
  <2>3. /\ old \in Seq(Int) /\ Len(old) = n
        /\ \A i \in 1..n : old[i] = Trail!Oldest + i - 1
    BY <1>2 DEF Trail!Oldest
  <2> HIDE DEF old
  <2>4. \/ log' = old /\ trailTorn' = trailTorn
        \/ log' = Append(old, Trail!Torn) /\ trailTorn' = trailTorn + 1
    BY <2>2 DEF old
  <2>5. ASSUME NEW i \in 1..n
        PROVE  old[i] \in Int /\ old[i] <= 0 /\ \A j \in 1..n : i < j => old[i] < old[j]
    BY <1>2, <2>3 DEF Trail!Oldest
  <2>6. /\ log' \in Seq(Int)
        /\ \A i \in 1..Len(log') : TrailSays(log'[i]) => i \in 1..n /\ log'[i] = old[i]
    <3>1. CASE log' = old
      BY <2>3, <3>1
    <3>2. CASE log' = Append(old, Trail!Torn)
      <4>1. /\ log' \in Seq(Int) /\ Len(log') = n + 1 /\ log'[n + 1] = Trail!Torn
            /\ \A i \in 1..n : log'[i] = old[i]
        BY <1>2, <2>3, <3>2
      <4> QED BY <4>1 DEF TrailSays
    <3> QED BY <2>4, <3>1, <3>2
  <2>7. TrailOrdered'
    <3>1. ASSUME NEW i \in 1..Len(log'), TrailSays(log'[i]) PROVE log'[i] <= logged'
      BY <1>1, <1>2, <2>5, <2>6, <3>1
    <3>2. ASSUME NEW i \in 1..Len(log'), NEW j \in 1..Len(log'), TrailSays(log'[i]), TrailSays(log'[j]), i < j
          PROVE  log'[i] < log'[j]
      BY <2>5, <2>6, <3>2
    <3>3. Trail!Torn' = Trail!Torn /\ Trail!Garbled' = Trail!Garbled
      BY DEF Trail!Torn, Trail!Garbled
    <3> QED BY <3>1, <3>2, <3>3 DEF TrailOrdered, TrailSays
  <2>8. TrailTypeOK' /\ TrailCopiedOnce'
    <3>1. UNCHANGED <<logged, acked, rows>> /\ trailTasks' = {} /\ exists' = TRUE
      BY <1>1, <2>1
    <3>2. trailTorn' \in Nat
      BY <1>2, <2>4
    <3>3. TrailTypeOK'
      <4>1. exists' \in BOOLEAN /\ (~exists' => log' = <<>>)
        BY <3>1
      <4>2. trailRotated' \in Seq(Int) /\ rows' \in Seq(Int)
        BY <1>1 DEF TrailInv, TrailTypeOK
      <4>3. logged' \in 0..MaxEntries /\ acked' \in SUBSET (1..logged') /\ trailTasks' \in SUBSET acked'
        BY <1>1, <3>1 DEF TrailInv, TrailTypeOK
      <4> QED BY <2>6, <3>2, <4>1, <4>2, <4>3 DEF TrailTypeOK
    <3>4. TrailCopiedOnce'
      BY <3>1 DEF TrailInv, TrailCopiedOnce
    <3> QED BY <3>3, <3>4
  <2>9. TrailLost' \subseteq TrailLost
    BY <1>1, <2>1 DEF TrailLost
  <2>10. IsFiniteSet(TrailLost) /\ Cardinality(TrailLost) \in Nat
    BY <1>2, TrailLostIsFinite DEF TrailLost
  <2>11. Cardinality(TrailLost') <= Cardinality(TrailLost)
    BY <2>9, <2>10, TrailFewerLost
  <2>12. Cardinality(TrailLost') \in Nat
    <3>1. IsFiniteSet(TrailLost')
      BY <2>9, <2>10, FS_Subset
    <3> QED BY <3>1, FS_CardinalityType
  <2>13. TrailPaid'
    <3>1. CASE log' = old /\ trailTorn' = trailTorn
      <4>1. ~TrailOpen(log')
        <5>1. ASSUME Len(old) > 0, old[Len(old)] = Trail!Torn PROVE FALSE
          BY <1>2, <2>3, <2>5, <5>1 DEF Trail!Torn, TrailNumbers
        <5> QED BY <3>1, <5>1 DEF TrailOpen
      <4> QED BY <1>2, <2>10, <2>11, <2>12, <3>1, <4>1 DEF TrailInv, TrailPaid
    <3>2. CASE trailTorn' = trailTorn + 1
      <4>1. Cardinality(TrailLost') < trailTorn' /\ trailTorn' \in Nat
        BY <1>2, <2>10, <2>11, <2>12, <3>2 DEF TrailInv, TrailPaid
      <4> QED BY <2>12, <4>1 DEF TrailPaid
    <3> QED BY <2>4, <3>1, <3>2
  <2> QED BY <2>7, <2>8, <2>13 DEF TrailInv
<1> QED BY <1>3, <1>4

LEMMA TrailInvNext == TrailNumbers /\ TrailInv /\ [Trail!Next]_(Trail!trailVars) => TrailInv'
<1> SUFFICES ASSUME TrailNumbers, TrailInv, [Trail!Next]_(Trail!trailVars) PROVE TrailInv'
  OBVIOUS
<1>1. CASE UNCHANGED Trail!trailVars
  <2>1. TrailTypeOK' /\ TrailOrdered' /\ TrailCopiedOnce'
    BY <1>1 DEF Trail!trailVars, TrailInv, TrailTypeOK, TrailOrdered, TrailCopiedOnce
  <2>2. TrailLost' = TrailLost
    BY <1>1 DEF Trail!trailVars, TrailLost
  <2> QED BY <1>1, <2>1, <2>2 DEF Trail!trailVars, TrailInv, TrailPaid
<1> QED BY <1>1, TrailLogKeeps, TrailLogFailsKeeps, TrailMirrorKeeps, TrailRestartKeeps DEF
           Trail!Next

\* The lines that are read are the last: a line before one of them that is not
\* read is followed by as many as are read.
LEMMA TrailLastAreRead ==
  ASSUME TrailNumbers, TrailInv, NEW i \in Trail!Loaded, NEW j \in Trail!Readable(log) \ Trail!Loaded
  PROVE  j < i
<1>1. SUFFICES ASSUME ~(j < i) PROVE FALSE
  OBVIOUS
<1>2. log \in Seq(Int) /\ Len(log) \in Nat
  BY DEF TrailInv, TrailTypeOK
<1>3. i \in 1..Len(log) /\ j \in 1..Len(log) /\ i \in Trail!Readable(log) /\ i # j
  <2>1. DOMAIN log = 1..Len(log)
    BY <1>2
  <2> QED BY <2>1, TrailCard DEF Trail!Loaded, Trail!Readable
<1> DEFINE after(k) == {m \in Trail!Readable(log) : k < m}
<1>4. after(j) \subseteq after(i)
  BY <1>1, <1>2, <1>3 DEF Trail!Readable
<1>5. IsFiniteSet(after(i)) /\ IsFiniteSet(after(j))
  <2>1. IsFiniteSet(1..Len(log))
    BY <1>2, FS_Interval
  <2>2. after(i) \subseteq 1..Len(log) /\ after(j) \subseteq 1..Len(log)
    BY <1>2 DEF Trail!Readable
  <2> QED BY <2>1, <2>2, FS_Subset
<1>6. /\ Cardinality(after(j)) <= Cardinality(after(i))
      /\ Cardinality(after(i)) \in Nat /\ Cardinality(after(j)) \in Nat
  <2> HIDE DEF after
  <2> QED BY <1>4, <1>5, TrailFewerLost, FS_CardinalityType
<1>7. Cardinality(after(i)) < MaxRead /\ ~(Cardinality(after(j)) < MaxRead)
  BY TrailCard DEF Trail!Loaded
<1> HIDE DEF after
<1> QED BY <1>6, <1>7 DEF TrailNumbers

LEMMA TrailInvKeeps == TrailNumbers /\ TrailInv => Trail!AuditIsKept
<1> SUFFICES ASSUME TrailNumbers, TrailInv PROVE Trail!AuditIsKept
  OBVIOUS
<1>1. log \in Seq(Int) /\ rows \in Seq(Int) /\ Trail!Loaded \subseteq Trail!Readable(log)
  BY TrailCard DEF TrailInv, TrailTypeOK, Trail!Loaded
<1>2. Cardinality(acked \ (Trail!Entries(log) \cup Trail!Entries(trailRotated) \cup gone)) <= trailTorn
  BY DEF TrailInv, TrailPaid, TrailLost
<1>3. \A i, j \in Trail!Readable(log) : i < j => log[i] < log[j]
  <2>1. \A i \in Trail!Readable(log) : i \in 1..Len(log) /\ TrailSays(log[i])
    <3>1. DOMAIN log = 1..Len(log)
      BY <1>1
    <3> QED BY <3>1 DEF Trail!Readable, TrailSays
  <2>2. \A i, j \in 1..Len(log) : TrailSays(log[i]) /\ TrailSays(log[j]) /\ i < j => log[i] < log[j]
    BY DEF TrailInv, TrailOrdered
  <2> QED BY <2>1, <2>2
<1>4. ASSUME NEW e \in Trail!Entries(log) \ Trail!Query, NEW shown \in Trail!Query PROVE e < shown
  <2>1. PICK j \in Trail!Readable(log) : log[j] = e
    BY DEF Trail!Entries
  <2>2. PICK i \in Trail!Loaded : log[i] = shown
    BY DEF Trail!Query
  <2>3. j \notin Trail!Loaded
    BY <1>4, <2>1 DEF Trail!Query
  <2>4. j < i
    BY <2>3, TrailLastAreRead
  <2> QED BY <1>1, <1>3, <2>1, <2>2, <2>4
<1>5. Trail!ToSet(rows) \subseteq acked /\ Trail!IsInjective(rows)
  BY <1>1 DEF TrailInv, TrailCopiedOnce, Trail!ToSet, Trail!IsInjective
<1> QED BY <1>1, <1>2, <1>3, <1>4, <1>5, TrailCard DEF Trail!AuditIsKept

(* What was logged is found again but for one entry per write that failed, in *)
(* order and copied once (logger.py 45-86, 217-346, mirror.py 30-97).          *)
THEOREM LogIsKept == ASSUME TrailNumbers PROVE Trail!Spec => []Trail!AuditIsKept
<1> QED BY TrailInvInit, TrailInvNext, TrailInvKeeps, PTL DEF Trail!Spec
=============================================================================
