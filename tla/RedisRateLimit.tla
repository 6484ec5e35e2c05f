---------------------------- MODULE RedisRateLimit ----------------------------
(***************************************************************************)
(* The distributed limit of HTTP requests for one client (backend/app/       *)
(* rate_limiting/redis_rate_limiter.py): a sorted set of request times, read  *)
(* and written by one pipeline from any pod.  A request is scored by its      *)
(* pod's clock, read before the pipeline is sent, so scores arrive late, out  *)
(* of order and skewed.                                                      *)
(***************************************************************************)
EXTENDS Integers, FiniteSets

CONSTANTS
  Request,       \* requests that may be under way together
  MaxRequests,   \* max_requests
  Window,        \* window_seconds
  Delay,         \* ticks from reading the clock to giving up: timeouts, retries
  Skew,          \* ticks by which the pods' clocks differ at most
  MaxClock       \* bound: ticks

VARIABLES
  now,        \* the slowest pod's clock
  asking,     \* per request: its reading, from time.time() to the verdict
  entries,    \* the sorted set: readings, each its own score and member
  touched,    \* when EXPIRE was last set
  admitted    \* history: requests that Redis admitted in the last Sure ticks

redisLimitVars == <<now, asking, entries, touched, admitted>>

\* What late and skewed readings leave of the window.
Sure == Window - Delay - Skew

Idle == [reading |-> 0, began |-> 0, waits |-> FALSE, sent |-> FALSE]

Init == /\ now = 0 /\ touched = 0 /\ entries = {} /\ admitted = {}
        /\ asking = [r \in Request |-> Idle]

Read(r) ==
  /\ asking[r] = Idle
  /\ \E ahead \in 0..Skew :
       asking' = [asking EXCEPT ![r] =
                    [reading |-> now + ahead, began |-> now, waits |-> TRUE, sent |-> TRUE]]
  /\ UNCHANGED <<now, entries, touched, admitted>>

Live(reading) == {e \in entries : e > reading - Window}
Admits(count) == count < MaxRequests

\* The pipeline: clean, count and add, whatever the verdict will be: a denied
\* request counts in the next verdict.  Two requests of one reading are one
\* member.
Execute(r) ==
  /\ asking[r].sent
  /\ entries' = Live(asking[r].reading) \cup {asking[r].reading}
  /\ touched' = now

Ask(r) ==
  /\ asking[r].waits /\ Execute(r)
  /\ admitted' = IF Admits(Cardinality(Live(asking[r].reading)))
                 THEN admitted \cup {[reading |-> asking[r].reading, at |-> now]} ELSE admitted
  /\ asking' = [asking EXCEPT ![r] = Idle]
  /\ UNCHANGED now

\* The answer is lost: the client may send the pipeline again.
AskUnheard(r) == /\ Execute(r)
                 /\ asking' \in {asking, [asking EXCEPT ![r] = Idle]}
                 /\ asking[r].waits => asking' = asking
                 /\ UNCHANGED <<now, admitted>>

\* No answer in time: the request is let through uncounted, and Redis may
\* still run what was sent.
AskUnanswered(r) ==
  /\ asking[r].waits
  /\ asking' \in {[asking EXCEPT ![r] = Idle], [asking EXCEPT ![r].waits = FALSE]}
  /\ UNCHANGED <<now, entries, touched, admitted>>

\* An operator resets the key, or Redis loses it.
Reset == /\ entries' = {} /\ admitted' = {}
         /\ UNCHANGED <<now, asking, touched>>

Expire == /\ entries # {} /\ now >= touched + Window + 1
          /\ entries' = {}
          /\ UNCHANGED <<now, asking, touched, admitted>>

Tick == /\ now < MaxClock
        /\ \A r \in Request : asking[r].waits => now < asking[r].began + Delay
        /\ now' = now + 1
        /\ admitted' = {a \in admitted : a.at > now' - Sure}
        /\ UNCHANGED <<asking, entries, touched>>

Next == \/ \E r \in Request : Read(r) \/ Ask(r) \/ AskUnheard(r) \/ AskUnanswered(r)
        \/ Reset \/ Expire \/ Tick
Spec == Init /\ [][Next]_redisLimitVars

-----------------------------------------------------------------------------
(* From any number of pods, at most MaxRequests readings are admitted in a     *)
(* sliding window, however late and out of order they reach Redis and whatever  *)
(* answers are lost: the window is shorter by the wait for Redis and by what     *)
(* two clocks differ (redis_rate_limiter.py 100-130).                          *)
RedisLimitHolds == Cardinality({a.reading : a \in admitted}) <= MaxRequests
=============================================================================
