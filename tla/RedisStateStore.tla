--------------------------- MODULE RedisStateStore ---------------------------
(***************************************************************************)
(* The locked read-modify-write of the Redis stores (backend/app/            *)
(* redis_store_base.py; the approval and alert stores build on it), for one  *)
(* entity.  The lock is a key with an expiry and a fixed value: it does not  *)
(* say who holds it.                                                         *)
(*                                                                          *)
(* A Redis call is executed at most once, and answered or timed out within   *)
(* OpTimeout; between two calls a coroutine waits at most Lag for the loop.  *)
(***************************************************************************)
EXTENDS Naturals, FiniteSets

CONSTANTS
  Client,       \* updates of the entity, each by one coroutine
  Attempts,     \* LOCK_ATTEMPTS
  LockTTL,      \* lock_ttl
  OpTimeout,    \* socket_timeout
  Lag,          \* bound on a wait for the event loop
  MaxTimeouts   \* bound: calls that time out, and crashes

VARIABLES
  lockttl,    \* time to live of the lock key, 0 when there is none
  value,      \* the updates the stored state contains
  at,         \* the call each client is in
  left,       \* time left of that call
  answer,     \* what Redis answered to it
  tries,      \* attempts to lock
  seen,       \* what the client read
  failed      \* calls that timed out, and crashes

storeVars == <<lockttl, value, at, left, answer, tries, seen, failed>>

Idle == {"new", "backoff", "done", "dead"}
Calls == {"lock", "get", "setex", "unlock"}

Init == /\ lockttl = 0 /\ value = {} /\ failed = 0
        /\ at = [c \in Client |-> "new"]
        /\ left = [c \in Client |-> 0]
        /\ answer = [c \in Client |-> "none"]
        /\ tries = [c \in Client |-> 0]
        /\ seen = [c \in Client |-> {}]

Goto(c, op) == /\ at' = [at EXCEPT ![c] = op]
               /\ left' = [left EXCEPT ![c] = IF op \in Calls THEN OpTimeout + Lag ELSE 0]
               /\ answer' = [answer EXCEPT ![c] = "none"]
Executes(c, op) == at[c] = op /\ answer[c] = "none"
Answers(c, a) == answer' = [answer EXCEPT ![c] = a]

\* SET NX EX, GET, SETEX, DEL at the server.
ExecuteLock(c) ==
  /\ Executes(c, "lock")
  /\ IF lockttl = 0 THEN lockttl' = LockTTL /\ Answers(c, "yes")
     ELSE Answers(c, "no") /\ UNCHANGED lockttl
  /\ UNCHANGED <<value, at, left, tries, seen, failed>>

ExecuteGet(c) ==
  /\ Executes(c, "get")
  /\ seen' = [seen EXCEPT ![c] = value]
  /\ Answers(c, "yes")
  /\ UNCHANGED <<lockttl, value, at, left, tries, failed>>

ExecuteSetex(c) ==
  /\ Executes(c, "setex")
  /\ value' = seen[c] \cup {c}
  /\ Answers(c, "yes")
  /\ UNCHANGED <<lockttl, at, left, tries, seen, failed>>

ExecuteUnlock(c) ==
  /\ Executes(c, "unlock")
  /\ lockttl' = 0
  /\ Answers(c, "yes")
  /\ UNCHANGED <<value, at, left, tries, seen, failed>>

-----------------------------------------------------------------------------
\* _acquire_lock_or_raise: up to Attempts calls with a pause after each.
TryLock(c) ==
  /\ at[c] \in {"new", "backoff"} /\ tries[c] < Attempts
  /\ tries' = [tries EXCEPT ![c] = @ + 1]
  /\ Goto(c, "lock")
  /\ UNCHANGED <<lockttl, value, seen, failed>>

\* A plausible slip: the last attempt goes on without the lock.
LockRefusedGoesOn(c) ==
  /\ at[c] = "lock" /\ answer[c] = "no"
  /\ Goto(c, IF tries[c] = Attempts THEN "get" ELSE "backoff")
  /\ UNCHANGED <<lockttl, value, tries, seen, failed>>

LockRefused(c) ==
  /\ at[c] = "lock" /\ answer[c] = "no"
  /\ Goto(c, IF tries[c] = Attempts THEN "done" ELSE "backoff")
  /\ UNCHANGED <<lockttl, value, tries, seen, failed>>

\* _locked_update: read, write, and always unlock.
After(op) == CASE op = "lock" -> "get" [] op = "get" -> "setex"
               [] op = "setex" -> "unlock" [] op = "unlock" -> "done"

Proceed(c) ==
  /\ at[c] \in Calls /\ answer[c] = "yes"
  /\ Goto(c, After(at[c]))
  /\ UNCHANGED <<lockttl, value, tries, seen, failed>>

\* The call raises, executed or not: a failed lock ends the update at once, a
\* failed read or write goes to the unlock of the finally block.
TimeOut(c) ==
  /\ at[c] \in Calls /\ failed < MaxTimeouts
  /\ failed' = failed + 1
  /\ Goto(c, IF at[c] \in {"get", "setex"} THEN "unlock" ELSE "done")
  /\ UNCHANGED <<lockttl, value, tries, seen>>

Crash(c) ==
  /\ at[c] \notin {"done", "dead"} /\ failed < MaxTimeouts
  /\ failed' = failed + 1
  /\ Goto(c, "dead")
  /\ UNCHANGED <<lockttl, value, tries, seen>>

\* A plausible slip: SET NX without the expiry.
KeyStays(t) == t

\* The key expires by itself; a call in flight ends in time.
Before(t) == IF t = 0 THEN 0 ELSE t - 1
KeyAges(t) == Before(t)
Tick ==
  /\ \A c \in Client : at[c] \in Calls => left[c] > 0
  /\ lockttl' = KeyAges(lockttl)
  /\ left' = [c \in Client |-> Before(left[c])]
  /\ UNCHANGED <<value, at, answer, tries, seen, failed>>

Step(c) == \/ ExecuteLock(c) \/ ExecuteGet(c) \/ ExecuteSetex(c) \/ ExecuteUnlock(c)
           \/ TryLock(c) \/ LockRefused(c) \/ Proceed(c)

Next == \/ \E c \in Client : Step(c) \/ TimeOut(c) \/ Crash(c)
        \/ Tick
Spec == Init /\ [][Next]_storeVars

\* Redis and the event loop make progress.
StoreFairness == WF_storeVars(Tick) /\ \A c \in Client : WF_storeVars(Step(c))
FairSpec == Spec /\ StoreFairness

-----------------------------------------------------------------------------
(* No update is lost: a write adds its own change to all that were stored,    *)
(* although the lock may expire, or be deleted by somebody else's unlock      *)
(* (redis_store_base.py 277-315).                                             *)
KeepsUpdates == value \subseteq value'
NoLostUpdate == [][KeepsUpdates]_storeVars

(* The lock is never held for good: a holder that dies, or whose answer was   *)
(* lost, leaves a key that expires (redis_store_base.py 225-233).             *)
LockIsFree == lockttl = 0
LockIsFreedAgain == []<>LockIsFree
=============================================================================
