--------------------------- MODULE AssistantQueries ---------------------------
(***************************************************************************)
(* Queries of the AI assistant (ai_assistant/core/cache.py, single_flight.py, *)
(* tools/run_query_v2.py): an answer is taken from a cache, else callers that *)
(* ask for the same thing at the same time share one query.  The callers are *)
(* threads; the only lock of the single flight is held while one waits.      *)
(***************************************************************************)
EXTENDS Naturals, FiniteSets, Functions

CONSTANTS
  Caller,      \* threads
  Query,       \* what is asked: a source and a rendered body
  Asks,        \* what each thread may ask
  TTL,         \* cache_ttl_seconds
  MaxSize,     \* entries the cache keeps
  QueryTime,   \* the timeout of a request to the source
  MaxClock,    \* bound: time
  Free         \* no caller

VARIABLES
  cache,       \* _cache: query -> [answer, at]
  flights,     \* _flights: query -> [landed, answer]
  lock,        \* SingleFlight._lock
  stage,       \* where a caller stands
  query,       \* what it asks
  got,         \* its answer: when the source was read, whether that failed and
               \* how long (history) its flight was kept from being removed
  began,       \* when the query it runs began
  now

queryVars == <<cache, flights, lock, stage, query, got, began, now>>

NoAnswer == [read |-> 0, raised |-> FALSE, kept |-> 0]
AnyQuery == CHOOSE k \in Query : TRUE   \* a caller that is idle asks nothing

Init == /\ cache = <<>> /\ flights = <<>> /\ lock = Free /\ now = 0
        /\ stage = [c \in Caller |-> "idle"]
        /\ query = [c \in Caller |-> AnyQuery]
        /\ got = [c \in Caller |-> NoAnswer]
        /\ began = [c \in Caller |-> 0]

Put(f, k, e) == [j \in DOMAIN f \cup {k} |-> IF j = k THEN e ELSE f[j]]
Goto(c, s) == stage' = [stage EXCEPT ![c] = s]
Expired(k) == now - cache[k].at > TTL

-----------------------------------------------------------------------------
\* A plausible slip: an entry is served whatever its age.
AskAnyAge(c) ==
  /\ stage[c] = "idle"
  /\ \E k \in Asks[c] : query' = [query EXCEPT ![c] = k] /\
       IF k \in DOMAIN cache
       THEN Goto(c, "done") /\ got' = [got EXCEPT ![c] = cache[k].answer] /\ UNCHANGED cache
       ELSE Goto(c, "fetch") /\ UNCHANGED <<cache, got>>
  /\ UNCHANGED <<flights, lock, began, now>>

\* cached: an entry that is too old is deleted, and the query is run.
Ask(c) ==
  /\ stage[c] = "idle"
  /\ \E k \in Asks[c] : query' = [query EXCEPT ![c] = k] /\
       IF k \in DOMAIN cache /\ ~Expired(k)
       THEN Goto(c, "done") /\ got' = [got EXCEPT ![c] = cache[k].answer] /\ UNCHANGED cache
       ELSE Goto(c, "fetch") /\ cache' = Restrict(cache, DOMAIN cache \ {k}) /\ UNCHANGED got
  /\ UNCHANGED <<flights, lock, began, now>>

\* SingleFlight.execute: join a flight, keeping the lock, or start one.
Join(c) ==
  /\ stage[c] = "fetch" /\ lock = Free /\ query[c] \in DOMAIN flights
  /\ lock' = c /\ Goto(c, "waiting")
  /\ UNCHANGED <<cache, flights, query, got, began, now>>
Start(c) ==
  /\ stage[c] = "fetch" /\ lock = Free /\ query[c] \notin DOMAIN flights
  /\ flights' = Put(flights, query[c], [landed |-> FALSE, answer |-> NoAnswer])
  /\ Goto(c, "running") /\ began' = [began EXCEPT ![c] = now]
  /\ UNCHANGED <<cache, lock, query, got, now>>

\* A plausible slip: the lock is asked for before the event is set.
LandUnderLock(c) ==
  /\ stage[c] = "running" /\ lock = Free
  /\ \E raised \in BOOLEAN, at \in began[c]..now :
       flights' = [flights EXCEPT ![query[c]] =
                     [landed |-> TRUE, answer |-> [read |-> at, raised |-> raised, kept |-> 0]]]
  /\ Goto(c, "landed") /\ began' = [began EXCEPT ![c] = 0]
  /\ UNCHANGED <<cache, lock, query, got, now>>

\* The source answers, as of some moment since it was asked, times out or is
\* unreachable, which is an answer as well; what raises is an audit entry that
\* cannot be written.  The event is set before the lock is asked for, and only
\* then does the flight go.
Land(c) ==
  /\ stage[c] = "running"
  /\ \E raised \in BOOLEAN, at \in began[c]..now :
       flights' = [flights EXCEPT ![query[c]] =
                     [landed |-> TRUE, answer |-> [read |-> at, raised |-> raised, kept |-> 0]]]
  /\ Goto(c, "landed") /\ began' = [began EXCEPT ![c] = 0]
  /\ UNCHANGED <<cache, lock, query, got, now>>

Remove(c) ==
  /\ stage[c] = "landed" /\ lock = Free
  /\ flights' = Restrict(flights, DOMAIN flights \ {query[c]})
  /\ got' = [got EXCEPT ![c] = flights[query[c]].answer]
  /\ Goto(c, IF flights[query[c]].answer.raised THEN "done" ELSE "store")
  /\ UNCHANGED <<cache, lock, query, began, now>>

\* The one that waited has the answer, or raises what the query raised.
WakeUp(c) ==
  /\ stage[c] = "waiting" /\ flights[query[c]].landed
  /\ lock' = Free
  /\ got' = [got EXCEPT ![c] = flights[query[c]].answer]
  /\ Goto(c, IF flights[query[c]].answer.raised THEN "done" ELSE "store")
  /\ UNCHANGED <<cache, flights, query, began, now>>

\* SimpleCache.set: the entries too old go, then, when it is full, the oldest.
Kept == {k \in DOMAIN cache : ~Expired(k)}
Oldest == CHOOSE k \in Kept : \A j \in Kept : cache[k].at <= cache[j].at
Store(c) ==
  /\ stage[c] = "store"
  /\ LET kept == IF Cardinality(Kept) >= MaxSize THEN Kept \ {Oldest} ELSE Kept
     IN  cache' = Put(Restrict(cache, kept), query[c], [answer |-> got[c], at |-> now])
  /\ Goto(c, "done")
  /\ UNCHANGED <<flights, lock, query, got, began, now>>

Return(c) ==
  /\ stage[c] = "done" /\ Goto(c, "idle") /\ got' = [got EXCEPT ![c] = NoAnswer]
  /\ query' = [query EXCEPT ![c] = AnyQuery]
  /\ UNCHANGED <<cache, flights, lock, began, now>>

\* Only requests to the source take time, and no longer than their timeout.  A
\* flight that has landed stays as long as another caller has the lock, waiting
\* for a flight of its own.
KeptOn(f) == IF f.landed THEN [f EXCEPT !.answer.kept = @ + 1] ELSE f
Tick ==
  /\ now < MaxClock /\ now' = now + 1
  /\ \A c \in Caller : stage[c] \in {"idle", "fetch", "waiting", "running", "landed"}
  /\ \A c \in Caller : stage[c] \in {"fetch", "landed"} => lock # Free
  /\ \A c \in Caller : stage[c] = "waiting" => ~flights[query[c]].landed
  /\ \A c \in Caller : stage[c] = "running" => now < began[c] + QueryTime
  /\ flights' = [k \in DOMAIN flights |-> KeptOn(flights[k])]
  /\ UNCHANGED <<cache, lock, stage, query, got, began>>

Step(c) == Join(c) \/ Start(c) \/ Land(c) \/ Remove(c) \/ WakeUp(c) \/ Store(c)
Next == \/ \E c \in Caller : Ask(c) \/ Step(c) \/ Return(c)
        \/ Tick
\* A thread that waits for a lock that is free again and again gets it.
QueryFairness == \A c \in Caller : SF_queryVars(Step(c))
Spec == Init /\ [][Next]_queryVars
FairSpec == Spec /\ QueryFairness

-----------------------------------------------------------------------------
(* One thing is never queried twice at the same time; and an answer is at     *)
(* most one TTL older than the query behind it took, however often it was     *)
(* passed on, and than its flight was then kept from being removed by callers  *)
(* that had the lock and waited for another flight: the lock is not fair, and   *)
(* nothing else bounds how long (single_flight.py 60-99, cache.py 40-125,       *)
(* 190-225).                                                                  *)
QueriesAreShared ==
  /\ \A c, d \in {c \in Caller : stage[c] = "running"} :
       query[c] = query[d] => c = d
  /\ \A c \in Caller :
       stage[c] = "done" => now - got[c].read <= TTL + QueryTime + got[c].kept

(* Every caller gets an answer or an exception: the one that waits holds the   *)
(* lock that the one it waits for needs to finish, and neither waits for      *)
(* ever (single_flight.py 58-95).                                             *)
Served(c) == stage[c] \in {"idle", "done"}
EveryCallerReturns == \A c \in Caller : []<>Served(c)
=============================================================================
