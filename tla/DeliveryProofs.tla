--------------------------- MODULE DeliveryProofs ---------------------------
(***************************************************************************)
(* Proofs about the services that hand something on: an answer, an event, a   *)
(* result, a decision, a report.  Each service is an instance under its own   *)
(* name; its constants and variables keep their names, with the name of the   *)
(* instance before those that two services use.  What is proved of a service *)
(* holds for all values of its constants and says nothing of the others.     *)
(***************************************************************************)
EXTENDS Integers, Sequences, FiniteSets, FiniteSetTheorems, TLAPS

CONSTANTS
  Caller, QueriesQuery, Asks, QueriesTTL, QueriesMaxSize, QueryTime,
  QueriesMaxClock, Free, FanoutPod, FanoutClient, Home, Event, View, Socket, Timer,
  FirstDelay, MaxDelay, Refusal, NoSocket, NoTimer, Skill, Stub, MaxResults,
  MaxHistory, MaxTimeout, MaxRuns, Type, FeedbackWindow, Proven, Enough,
  FeedbackMaxEvents, Agent, NameOfAgent, AgentsTimeout, Named, Advice, Normal,
  MaxAdvice, MaxNames, SloPod, SloNobody, Hours, Offset, ReportHour, Never, Cut,
  MaxNow, MaxFaults

VARIABLES
  queriesCache, flights, lock, queriesStage, query, got, began, queriesNow,
  useRedis, active, broken, channel, listening, fanoutStage, origin, sending,
  fanoutSeen, owed, doubted, mounted, ws, life, reconnectTimer, pending,
  reconnectDelay, connected, overwritten, config, skillsStatus, skillsRunning,
  results, skillsHistory, answered, started, feedback, feedbackFile, writing,
  recorded, feedbackLossy, agentsAsked, agentsTasks, outcome, age, report, sloNow,
  lastReport, sloAt, leader, looked, posts, faults, harm

Queries == INSTANCE AssistantQueries WITH
  Query <- QueriesQuery, TTL <- QueriesTTL, MaxSize <- QueriesMaxSize,
  MaxClock <- QueriesMaxClock, cache <- queriesCache, stage <- queriesStage,
  now <- queriesNow
Fanout == INSTANCE LiveFanout WITH
  Pod <- FanoutPod, Client <- FanoutClient, stage <- fanoutStage, seen <- fanoutSeen
WebClient == INSTANCE LiveClient
Skills == INSTANCE SkillRegistry WITH
  status <- skillsStatus, running <- skillsRunning, history <- skillsHistory
Feedback == INSTANCE FeedbackLearning WITH
  Window <- FeedbackWindow, MaxEvents <- FeedbackMaxEvents, file <- feedbackFile,
  lossy <- feedbackLossy
Agents == INSTANCE AgentOrchestrator WITH
  Timeout <- AgentsTimeout, asked <- agentsAsked, tasks <- agentsTasks
Slo == INSTANCE SloReporter WITH
  Pod <- SloPod, Nobody <- SloNobody, now <- sloNow, at <- sloAt

-----------------------------------------------------------------------------
(***************************************************************************)
(* Callers share queries, and the answers they share are not old, for any     *)
(* callers and queries.  Nobody notes when an answer was read: the invariant  *)
(* follows it from the query through its flight and the cache to the one that *)
(* asks.  An answer stays where it was put because a flight has one owner,    *)
(* who removes it under the lock that a waiting caller keeps.                *)
(***************************************************************************)
QueriesNumbers == /\ QueriesTTL \in Nat /\ QueryTime \in Nat
                  /\ Free \notin Caller /\ QueriesQuery # {} /\ Asks \in [Caller -> SUBSET QueriesQuery]

QueriesStages == {"idle", "fetch", "waiting", "running", "landed", "store", "done"}
QueriesOwners == {c \in Caller : queriesStage[c] \in {"running", "landed"}}
QueriesIsMapping(f) == f = [k \in DOMAIN f |-> f[k]]
QueriesAnswer == [read : Nat, raised : BOOLEAN, kept : Nat]

QueriesTypeOK == /\ queriesNow \in Nat /\ lock \in Caller \cup {Free}
                 /\ queriesStage \in [Caller -> QueriesStages] /\ query \in [Caller -> QueriesQuery]
                 /\ got \in [Caller -> QueriesAnswer] /\ began \in [Caller -> Nat]
                 /\ DOMAIN queriesCache \subseteq QueriesQuery /\ DOMAIN flights \subseteq QueriesQuery
                 /\ QueriesIsMapping(queriesCache)
                 /\ QueriesIsMapping(flights)
                 /\ \A k \in DOMAIN queriesCache : queriesCache[k] \in [answer : QueriesAnswer, at : Nat]
                 /\ \A k \in DOMAIN flights : flights[k] \in [landed : BOOLEAN, answer : QueriesAnswer]

\* A flight is its owner's alone, and there is one while the owner needs it.
QueriesOneOwner ==
  /\ \A c \in QueriesOwners : query[c] \in DOMAIN flights
  /\ \A c, d \in QueriesOwners : query[c] = query[d] => c = d
  /\ \A k \in DOMAIN flights : \E c \in QueriesOwners : query[c] = k

\* Who waits has the lock.
QueriesWaitsLocked ==
  \A c \in Caller : queriesStage[c] = "waiting" => lock = c /\ query[c] \in DOMAIN flights

\* How old the answers are that are under way ...
QueriesRecent(answer) == answer.read <= queriesNow /\ queriesNow <= answer.read + QueryTime + answer.kept
QueriesUnderWay ==
  \A c \in Caller :
    /\ queriesStage[c] = "running" =>
         began[c] <= queriesNow /\ queriesNow <= began[c] + QueryTime /\ ~flights[query[c]].landed
    /\ queriesStage[c] = "landed" => flights[query[c]].landed /\ QueriesRecent(flights[query[c]].answer)
    /\ queriesStage[c] = "store" => QueriesRecent(got[c])
\* ... and those that are kept.
QueriesCached ==
  \A k \in DOMAIN queriesCache :
    LET e == queriesCache[k]
    IN  e.at <= queriesNow /\ e.answer.read <= e.at /\ e.at <= e.answer.read + QueryTime + e.answer.kept
QueriesYoung(answer) == queriesNow - answer.read <= QueriesTTL + QueryTime + answer.kept
QueriesHanded == \A c \in Caller : queriesStage[c] = "done" => QueriesYoung(got[c])

QueriesInv == QueriesTypeOK /\ QueriesOneOwner /\ QueriesWaitsLocked /\ QueriesUnderWay /\ QueriesCached /\ QueriesHanded

\* The cardinality in AssistantQueries is the one of the theorems.
LEMMA QueriesCard ==
  \A S : Queries!Cardinality(S) = Cardinality(S) /\ (Queries!IsFiniteSet(S) <=> IsFiniteSet(S))
  BY DEF Queries!Cardinality, Cardinality, Queries!IsFiniteSet, IsFiniteSet

LEMMA QueriesInvInit == ASSUME QueriesNumbers, Queries!Init PROVE QueriesInv
<1>1. Queries!AnyQuery \in QueriesQuery
  BY DEF QueriesNumbers, Queries!AnyQuery
<1>2. Queries!NoAnswer \in QueriesAnswer
  BY DEF Queries!NoAnswer, QueriesAnswer
<1>3. QueriesTypeOK
  BY <1>1, <1>2 DEF Queries!Init, QueriesTypeOK, QueriesStages, QueriesIsMapping
<1> QED BY <1>3 DEF Queries!Init, QueriesInv, QueriesOneOwner, QueriesOwners, QueriesWaitsLocked,
           QueriesUnderWay, QueriesCached, QueriesHanded

\* An entry is put, or some are dropped.
LEMMA QueriesPutEntry ==
  ASSUME NEW f, NEW k, NEW e
  PROVE  /\ DOMAIN Queries!Put(f, k, e) = DOMAIN f \cup {k} /\ Queries!Put(f, k, e)[k] = e
         /\ \A j \in DOMAIN f : j # k => Queries!Put(f, k, e)[j] = f[j]
         /\ QueriesIsMapping(Queries!Put(f, k, e))
  BY DEF Queries!Put, QueriesIsMapping
LEMMA QueriesRestricted ==
  ASSUME NEW f, NEW S
  PROVE  /\ DOMAIN Queries!Restrict(f, S) = S /\ \A j \in S : Queries!Restrict(f, S)[j] = f[j]
         /\ QueriesIsMapping(Queries!Restrict(f, S))
  BY DEF Queries!Restrict, QueriesIsMapping

\* A caller goes on.
LEMMA QueriesGoesOn ==
  ASSUME QueriesTypeOK, NEW c \in Caller, NEW s \in QueriesStages, Queries!Goto(c, s)
  PROVE  /\ queriesStage' \in [Caller -> QueriesStages] /\ queriesStage'[c] = s
         /\ \A d \in Caller : d # c => queriesStage'[d] = queriesStage[d]
  BY DEF Queries!Goto, QueriesTypeOK

\* Nothing happens to the flights and their owners.
LEMMA QueriesOwnersStay ==
  ASSUME QueriesOneOwner, DOMAIN flights' = DOMAIN flights, QueriesOwners' = QueriesOwners,
         \A c \in QueriesOwners : query'[c] = query[c]
  PROVE  QueriesOneOwner'
  BY DEF QueriesOneOwner

\* What is kept of a cache is as old as it was.
LEMMA QueriesCacheShrinks ==
  ASSUME QueriesTypeOK, QueriesCached, queriesNow' = queriesNow, NEW S \in SUBSET DOMAIN queriesCache, queriesCache' = Queries!Restrict(queriesCache, S)
  PROVE  /\ DOMAIN queriesCache' \subseteq QueriesQuery /\ QueriesIsMapping(queriesCache')
         /\ \A k \in DOMAIN queriesCache' : queriesCache'[k] \in [answer : QueriesAnswer, at : Nat]
         /\ QueriesCached'
  BY QueriesRestricted DEF QueriesTypeOK, QueriesCached

LEMMA QueriesAskKeeps == ASSUME QueriesNumbers, QueriesInv, NEW c \in Caller, Queries!Ask(c) PROVE QueriesInv'
<1>1. PICK k \in Asks[c] :
        /\ query' = [query EXCEPT ![c] = k]
        /\ IF k \in DOMAIN queriesCache /\ ~Queries!Expired(k)
           THEN Queries!Goto(c, "done") /\ got' = [got EXCEPT ![c] = queriesCache[k].answer] /\ UNCHANGED queriesCache
           ELSE Queries!Goto(c, "fetch") /\ queriesCache' = Queries!Restrict(queriesCache, DOMAIN queriesCache \ {k}) /\ UNCHANGED got
  BY DEF Queries!Ask
<1>2. /\ queriesStage[c] = "idle" /\ UNCHANGED <<flights, lock, began, queriesNow>>
      /\ query' \in [Caller -> QueriesQuery] /\ \A d \in Caller : d # c => query'[d] = query[d]
  <2>1. k \in QueriesQuery
    BY DEF QueriesNumbers
  <2> QED BY <1>1, <2>1 DEF Queries!Ask, QueriesInv, QueriesTypeOK
<1>3. PICK s \in {"done", "fetch"} : Queries!Goto(c, s)
  BY <1>1
<1>4. /\ queriesStage' \in [Caller -> QueriesStages] /\ queriesStage'[c] = s
      /\ \A d \in Caller : d # c => queriesStage'[d] = queriesStage[d]
  BY <1>3, QueriesGoesOn DEF QueriesInv, QueriesStages
<1>5. QueriesOwners' = QueriesOwners /\ c \notin QueriesOwners
  BY <1>2, <1>4 DEF QueriesOwners
<1>6. QueriesOneOwner'
  <2>1. \A d \in QueriesOwners : query'[d] = query[d]
    BY <1>2, <1>5 DEF QueriesOwners
  <2> QED BY <1>2, <1>5, <2>1, QueriesOwnersStay DEF QueriesInv
<1>7. QueriesWaitsLocked'
  BY <1>2, <1>4 DEF QueriesInv, QueriesWaitsLocked
<1>8. /\ got' \in [Caller -> QueriesAnswer] /\ \A d \in Caller : d # c => got'[d] = got[d]
      /\ queriesStage'[c] = "done" => QueriesYoung(got'[c])
      /\ DOMAIN queriesCache' \subseteq QueriesQuery /\ QueriesIsMapping(queriesCache')
      /\ \A j \in DOMAIN queriesCache' : queriesCache'[j] \in [answer : QueriesAnswer, at : Nat]
      /\ QueriesCached'
  <2>1. CASE k \in DOMAIN queriesCache /\ ~Queries!Expired(k)
    <3>1. got' = [got EXCEPT ![c] = queriesCache[k].answer] /\ queriesCache' = queriesCache
      BY <1>1, <2>1
    <3>2. /\ queriesCache[k].answer \in QueriesAnswer /\ queriesCache[k].at \in Nat /\ queriesNow \in Nat
          /\ queriesCache[k].answer.read \in Nat /\ QueriesTTL \in Nat /\ QueryTime \in Nat
          /\ queriesCache[k].answer.kept \in Nat
      BY <2>1 DEF QueriesInv, QueriesTypeOK, QueriesAnswer, QueriesNumbers
    <3>3. /\ queriesNow - queriesCache[k].at <= QueriesTTL
          /\ queriesCache[k].at <= queriesCache[k].answer.read + QueryTime + queriesCache[k].answer.kept
      BY <2>1, <3>2 DEF Queries!Expired, QueriesInv, QueriesCached
    <3>4. got' \in [Caller -> QueriesAnswer] /\ got'[c] = queriesCache[k].answer
          /\ \A d \in Caller : d # c => got'[d] = got[d]
      BY <3>1, <3>2 DEF QueriesInv, QueriesTypeOK
    <3>5. QueriesYoung(got'[c])
      BY <3>2, <3>3, <3>4 DEF QueriesYoung
    <3> QED BY <1>2, <3>1, <3>4, <3>5 DEF QueriesInv, QueriesTypeOK, QueriesCached
  <2>2. CASE ~(k \in DOMAIN queriesCache /\ ~Queries!Expired(k))
    <3>1. got' = got /\ queriesCache' = Queries!Restrict(queriesCache, DOMAIN queriesCache \ {k}) /\ Queries!Goto(c, "fetch")
      BY <1>1, <2>2
    <3>2. queriesStage'[c] = "fetch"
      BY <3>1 DEF Queries!Goto, QueriesInv, QueriesTypeOK
    <3> QED BY <1>2, <3>1, <3>2, QueriesCacheShrinks DEF QueriesInv, QueriesTypeOK
  <2> QED BY <2>1, <2>2
<1>9. QueriesTypeOK'
  BY <1>2, <1>4, <1>8 DEF QueriesInv, QueriesTypeOK
<1>10. QueriesUnderWay'
  BY <1>2, <1>4, <1>8 DEF QueriesInv, QueriesUnderWay, QueriesRecent
<1>11. QueriesHanded'
  BY <1>2, <1>4, <1>8 DEF QueriesInv, QueriesHanded, QueriesYoung
<1> QED BY <1>6, <1>7, <1>8, <1>9, <1>10, <1>11 DEF QueriesInv

LEMMA QueriesJoinKeeps == ASSUME QueriesNumbers, QueriesInv, NEW c \in Caller, Queries!Join(c) PROVE QueriesInv'
<1>1. /\ queriesStage[c] = "fetch" /\ lock = Free /\ query[c] \in DOMAIN flights /\ lock' = c
      /\ UNCHANGED <<queriesCache, flights, query, got, began, queriesNow>>
      /\ queriesStage' \in [Caller -> QueriesStages] /\ queriesStage'[c] = "waiting"
      /\ \A d \in Caller : d # c => queriesStage'[d] = queriesStage[d]
  BY QueriesGoesOn DEF Queries!Join, QueriesInv, QueriesStages
<1>2. QueriesTypeOK'
  BY <1>1 DEF QueriesInv, QueriesTypeOK
<1>3. QueriesOneOwner'
  BY <1>1, QueriesOwnersStay DEF QueriesOwners, QueriesInv
<1>4. QueriesWaitsLocked'
  BY <1>1 DEF QueriesInv, QueriesWaitsLocked, QueriesNumbers
<1>5. QueriesUnderWay' /\ QueriesCached' /\ QueriesHanded'
  BY <1>1 DEF QueriesInv, QueriesUnderWay, QueriesRecent, QueriesCached, QueriesHanded, QueriesYoung
<1> QED BY <1>2, <1>3, <1>4, <1>5 DEF QueriesInv

LEMMA QueriesStartKeeps == ASSUME QueriesNumbers, QueriesInv, NEW c \in Caller, Queries!Start(c) PROVE QueriesInv'
<1> DEFINE new == [landed |-> FALSE, answer |-> Queries!NoAnswer]
<1>1. /\ queriesStage[c] = "fetch" /\ query[c] \notin DOMAIN flights /\ query[c] \in QueriesQuery
      /\ flights' = Queries!Put(flights, query[c], new)
      /\ UNCHANGED <<queriesCache, lock, query, got, queriesNow>>
      /\ queriesStage' \in [Caller -> QueriesStages] /\ queriesStage'[c] = "running"
      /\ \A d \in Caller : d # c => queriesStage'[d] = queriesStage[d]
      /\ began' \in [Caller -> Nat] /\ began'[c] = queriesNow
      /\ \A d \in Caller : d # c => began'[d] = began[d]
  BY QueriesGoesOn DEF Queries!Start, QueriesInv, QueriesTypeOK, QueriesStages
<1>2. /\ DOMAIN flights' = DOMAIN flights \cup {query[c]} /\ flights'[query[c]] = new
      /\ \A k \in DOMAIN flights : flights'[k] = flights[k]
      /\ QueriesIsMapping(flights')
  <2> DEFINE put == Queries!Put(flights, query[c], new)
  <2>1. /\ DOMAIN put = DOMAIN flights \cup {query[c]} /\ put[query[c]] = new
        /\ \A k \in DOMAIN flights : k # query[c] => put[k] = flights[k]
        /\ QueriesIsMapping(put)
    BY QueriesPutEntry
  <2>2. flights' = put
    BY <1>1
  <2> HIDE DEF put, new
  <2> QED BY <1>1, <2>1, <2>2
<1>3. new \in [landed : BOOLEAN, answer : QueriesAnswer] /\ new.landed = FALSE
  BY DEF Queries!NoAnswer, QueriesAnswer
<1> HIDE DEF new
<1>4. QueriesOwners' = QueriesOwners \cup {c} /\ c \notin QueriesOwners
  BY <1>1 DEF QueriesOwners
<1>5. QueriesTypeOK'
  BY <1>1, <1>2, <1>3 DEF QueriesInv, QueriesTypeOK
<1>6. QueriesOneOwner'
  <2>1. \A d \in QueriesOwners : query[d] \in DOMAIN flights /\ query[d] # query[c]
    BY <1>1 DEF QueriesInv, QueriesOneOwner
  <2>2. \A k \in DOMAIN flights : \E d \in QueriesOwners : query[d] = k
    BY DEF QueriesInv, QueriesOneOwner
  <2>3. \A d, e \in QueriesOwners : query[d] = query[e] => d = e
    BY DEF QueriesInv, QueriesOneOwner
  <2>4. \A d \in QueriesOwners' : query'[d] \in DOMAIN flights'
    BY <1>1, <1>2, <1>4, <2>1
  <2>5. \A d, e \in QueriesOwners' : query'[d] = query'[e] => d = e
    BY <1>1, <1>4, <2>1, <2>3
  <2>6. \A k \in DOMAIN flights' : \E d \in QueriesOwners' : query'[d] = k
    BY <1>1, <1>2, <1>4, <2>2
  <2> QED BY <2>4, <2>5, <2>6 DEF QueriesOneOwner
<1>7. QueriesWaitsLocked'
  BY <1>1, <1>2 DEF QueriesInv, QueriesWaitsLocked
<1>8. QueriesUnderWay'
  <2>1. ASSUME NEW d \in Caller, d # c, d \in QueriesOwners PROVE flights'[query'[d]] = flights[query[d]]
    BY <1>1, <1>2, <2>1 DEF QueriesInv, QueriesOneOwner
  <2>2. queriesNow \in Nat /\ QueryTime \in Nat
    BY DEF QueriesInv, QueriesTypeOK, QueriesNumbers
  <2> QED BY <1>1, <1>2, <1>3, <2>1, <2>2 DEF QueriesInv, QueriesUnderWay, QueriesRecent,
             QueriesOwners
<1>9. QueriesCached' /\ QueriesHanded'
  BY <1>1 DEF QueriesInv, QueriesCached, QueriesHanded, QueriesYoung
<1> QED BY <1>5, <1>6, <1>7, <1>8, <1>9 DEF QueriesInv

\* The answer is from a moment since the query began.
LEMMA QueriesLandKeeps == ASSUME QueriesNumbers, QueriesInv, NEW c \in Caller, Queries!Land(c) PROVE QueriesInv'
<1>1. PICK raised \in BOOLEAN, at \in began[c]..queriesNow :
        flights' = [flights EXCEPT ![query[c]] =
                      [landed |-> TRUE, answer |-> [read |-> at, raised |-> raised, kept |-> 0]]]
  BY DEF Queries!Land
<1> DEFINE answer == [read |-> at, raised |-> raised, kept |-> 0]
           flight == [landed |-> TRUE, answer |-> answer]
<1>2. /\ queriesStage[c] = "running" /\ UNCHANGED <<queriesCache, lock, query, got, queriesNow>>
      /\ queriesStage' \in [Caller -> QueriesStages] /\ queriesStage'[c] = "landed"
      /\ \A d \in Caller : d # c => queriesStage'[d] = queriesStage[d]
      /\ began' \in [Caller -> Nat] /\ \A d \in Caller : d # c => began'[d] = began[d]
  BY QueriesGoesOn DEF Queries!Land, QueriesInv, QueriesTypeOK, QueriesStages
<1>3. /\ began[c] \in Nat /\ queriesNow \in Nat /\ QueryTime \in Nat /\ queriesNow <= began[c] + QueryTime
      /\ query[c] \in DOMAIN flights /\ c \in QueriesOwners
  BY <1>2 DEF QueriesInv, QueriesTypeOK, QueriesUnderWay, QueriesOneOwner, QueriesOwners,
     QueriesNumbers
<1>4. flight \in [landed : BOOLEAN, answer : QueriesAnswer] /\ flight.landed /\ QueriesRecent(flight.answer)
  BY <1>3 DEF QueriesAnswer, QueriesRecent
<1>5. flights' = [flights EXCEPT ![query[c]] = flight]
  BY <1>1
<1> HIDE DEF answer, flight
<1>6. /\ DOMAIN flights' = DOMAIN flights /\ flights'[query[c]] = flight
      /\ \A k \in DOMAIN flights : k # query[c] => flights'[k] = flights[k]
      /\ QueriesIsMapping(flights')
  BY <1>3, <1>5 DEF QueriesInv, QueriesTypeOK, QueriesIsMapping
<1>7. QueriesTypeOK'
  BY <1>2, <1>4, <1>6 DEF QueriesInv, QueriesTypeOK
<1>8. QueriesOneOwner'
  BY <1>2, <1>6, QueriesOwnersStay DEF QueriesInv, QueriesOwners
<1>9. QueriesWaitsLocked'
  BY <1>2, <1>6 DEF QueriesInv, QueriesWaitsLocked
<1>10. QueriesUnderWay'
  <2>1. ASSUME NEW d \in Caller, d # c, d \in QueriesOwners PROVE flights'[query'[d]] = flights[query[d]]
    BY <1>2, <1>3, <1>6, <2>1 DEF QueriesInv, QueriesOneOwner
  <2>2. flights'[query'[c]].landed /\ QueriesRecent(flights[query[c]].answer)'
    BY <1>2, <1>4, <1>6 DEF QueriesRecent
  <2>3. ASSUME NEW d \in Caller, d # c
        PROVE  /\ queriesStage'[d] = "running" => began'[d] <= queriesNow' /\ queriesNow' <= began'[d] + QueryTime
                                             /\ ~flights'[query'[d]].landed
               /\ queriesStage'[d] = "landed" =>
                    flights'[query'[d]].landed /\ QueriesRecent(flights[query[d]].answer)'
               /\ queriesStage'[d] = "store" => QueriesRecent(got[d])'
    BY <1>2, <2>1, <2>3 DEF QueriesInv, QueriesUnderWay, QueriesRecent, QueriesOwners
  <2> QED BY <1>2, <2>2, <2>3 DEF QueriesUnderWay
<1>11. QueriesCached' /\ QueriesHanded'
  BY <1>2 DEF QueriesInv, QueriesCached, QueriesHanded, QueriesYoung
<1> QED BY <1>7, <1>8, <1>9, <1>10, <1>11 DEF QueriesInv

\* The lock is free, so nobody waits for the flight that goes.
LEMMA QueriesRemoveKeeps == ASSUME QueriesNumbers, QueriesInv, NEW c \in Caller, Queries!Remove(c) PROVE QueriesInv'
<1>1. PICK s \in {"done", "store"} : Queries!Goto(c, s)
  BY DEF Queries!Remove
<1>2. /\ queriesStage[c] = "landed" /\ lock = Free /\ UNCHANGED <<queriesCache, lock, query, began, queriesNow>>
      /\ queriesStage' \in [Caller -> QueriesStages] /\ queriesStage'[c] = s
      /\ \A d \in Caller : d # c => queriesStage'[d] = queriesStage[d]
      /\ flights' = Queries!Restrict(flights, DOMAIN flights \ {query[c]})
      /\ got' = [got EXCEPT ![c] = flights[query[c]].answer]
  BY <1>1, QueriesGoesOn DEF Queries!Remove, QueriesInv, QueriesStages
<1>3. /\ DOMAIN flights' = DOMAIN flights \ {query[c]}
      /\ \A k \in DOMAIN flights' : flights'[k] = flights[k]
      /\ QueriesIsMapping(flights')
  BY <1>2, QueriesRestricted
<1>4. c \in QueriesOwners /\ QueriesOwners' = QueriesOwners \ {c}
  BY <1>2 DEF QueriesOwners
<1>5. flights[query[c]].answer \in QueriesAnswer /\ QueriesRecent(flights[query[c]].answer)
  BY <1>2, <1>4 DEF QueriesInv, QueriesTypeOK, QueriesOneOwner, QueriesUnderWay
<1>6. /\ got' \in [Caller -> QueriesAnswer] /\ got'[c] = flights[query[c]].answer
      /\ \A d \in Caller : d # c => got'[d] = got[d]
  BY <1>2, <1>5 DEF QueriesInv, QueriesTypeOK
<1>7. QueriesTypeOK'
  BY <1>2, <1>3, <1>6 DEF QueriesInv, QueriesTypeOK
<1>8. QueriesOneOwner'
  <2>1. \A d \in QueriesOwners : query[d] \in DOMAIN flights
    BY DEF QueriesInv, QueriesOneOwner
  <2>2. \A d, e \in QueriesOwners : query[d] = query[e] => d = e
    BY DEF QueriesInv, QueriesOneOwner
  <2>3. \A k \in DOMAIN flights : \E d \in QueriesOwners : query[d] = k
    BY DEF QueriesInv, QueriesOneOwner
  <2>4. \A d \in QueriesOwners' : query'[d] \in DOMAIN flights'
    BY <1>2, <1>3, <1>4, <2>1, <2>2
  <2>5. \A d, e \in QueriesOwners' : query'[d] = query'[e] => d = e
    BY <1>2, <1>4, <2>2
  <2>6. \A k \in DOMAIN flights' : \E d \in QueriesOwners' : query'[d] = k
    BY <1>2, <1>3, <1>4, <2>3
  <2> QED BY <2>4, <2>5, <2>6 DEF QueriesOneOwner
<1>9. QueriesWaitsLocked'
  BY <1>2 DEF QueriesInv, QueriesWaitsLocked, QueriesNumbers
<1>10. QueriesUnderWay'
  <2>1. ASSUME NEW d \in Caller, d # c, d \in QueriesOwners PROVE flights'[query'[d]] = flights[query[d]]
    BY <1>2, <1>3, <1>4, <2>1 DEF QueriesInv, QueriesOneOwner
  <2>2. QueriesRecent(got[c])'
    BY <1>2, <1>5, <1>6 DEF QueriesRecent
  <2>3. ASSUME NEW d \in Caller, d # c
        PROVE  /\ queriesStage'[d] = "running" => began'[d] <= queriesNow' /\ queriesNow' <= began'[d] + QueryTime
                                             /\ ~flights'[query'[d]].landed
               /\ queriesStage'[d] = "landed" =>
                    flights'[query'[d]].landed /\ QueriesRecent(flights[query[d]].answer)'
               /\ queriesStage'[d] = "store" => QueriesRecent(got[d])'
    BY <1>2, <1>6, <2>1, <2>3 DEF QueriesInv, QueriesUnderWay, QueriesRecent, QueriesOwners
  <2> QED BY <1>2, <2>2, <2>3 DEF QueriesUnderWay
<1>11. QueriesHanded'
  <2>1. QueriesYoung(got[c])'
    BY <1>2, <1>5, <1>6 DEF QueriesInv, QueriesTypeOK, QueriesAnswer, QueriesRecent, QueriesYoung,
       QueriesNumbers
  <2> QED BY <1>2, <1>6, <2>1 DEF QueriesInv, QueriesHanded, QueriesYoung
<1>12. QueriesCached'
  BY <1>2 DEF QueriesInv, QueriesCached
<1> QED BY <1>7, <1>8, <1>9, <1>10, <1>11, <1>12 DEF QueriesInv

\* What woke the waiting caller is an answer that its owner has just landed.
LEMMA QueriesWakeUpKeeps == ASSUME QueriesNumbers, QueriesInv, NEW c \in Caller, Queries!WakeUp(c) PROVE QueriesInv'
<1>1. PICK s \in {"done", "store"} : Queries!Goto(c, s)
  BY DEF Queries!WakeUp
<1>2. /\ queriesStage[c] = "waiting" /\ flights[query[c]].landed /\ lock' = Free
      /\ got' = [got EXCEPT ![c] = flights[query[c]].answer]
      /\ UNCHANGED <<queriesCache, flights, query, began, queriesNow>>
      /\ queriesStage' \in [Caller -> QueriesStages] /\ queriesStage'[c] = s
      /\ \A d \in Caller : d # c => queriesStage'[d] = queriesStage[d]
  BY <1>1, QueriesGoesOn DEF Queries!WakeUp, QueriesInv, QueriesStages
<1>3. lock = c /\ query[c] \in DOMAIN flights
  BY <1>2 DEF QueriesInv, QueriesWaitsLocked
<1>4. PICK d \in QueriesOwners : query[d] = query[c]
  BY <1>3 DEF QueriesInv, QueriesOneOwner
<1>5. QueriesRecent(flights[query[c]].answer) /\ flights[query[c]].answer \in QueriesAnswer
  BY <1>2, <1>3, <1>4 DEF QueriesInv, QueriesUnderWay, QueriesOwners, QueriesTypeOK
<1>6. /\ got' \in [Caller -> QueriesAnswer] /\ got'[c] = flights[query[c]].answer
      /\ \A e \in Caller : e # c => got'[e] = got[e]
  BY <1>2, <1>5 DEF QueriesInv, QueriesTypeOK
<1>7. QueriesTypeOK'
  BY <1>2, <1>6 DEF QueriesInv, QueriesTypeOK
<1>8. QueriesOneOwner'
  BY <1>2, QueriesOwnersStay DEF QueriesInv, QueriesOwners
<1>9. QueriesWaitsLocked'
  BY <1>2, <1>3 DEF QueriesInv, QueriesWaitsLocked
<1>10. QueriesRecent(got[c])'
  BY <1>2, <1>5, <1>6 DEF QueriesRecent
<1>11. QueriesUnderWay'
  BY <1>2, <1>6, <1>10 DEF QueriesInv, QueriesUnderWay, QueriesRecent
<1>12. QueriesHanded'
  <2>1. QueriesYoung(got[c])'
    BY <1>2, <1>5, <1>6 DEF QueriesInv, QueriesTypeOK, QueriesAnswer, QueriesRecent, QueriesYoung,
       QueriesNumbers
  <2> QED BY <1>2, <1>6, <2>1 DEF QueriesInv, QueriesHanded, QueriesYoung
<1>13. QueriesCached'
  BY <1>2 DEF QueriesInv, QueriesCached
<1> QED BY <1>7, <1>8, <1>9, <1>11, <1>12, <1>13 DEF QueriesInv

LEMMA QueriesStoreKeeps == ASSUME QueriesNumbers, QueriesInv, NEW c \in Caller, Queries!Store(c) PROVE QueriesInv'
<1> DEFINE kept == IF Cardinality(Queries!Kept) >= QueriesMaxSize THEN Queries!Kept \ {Queries!Oldest} ELSE Queries!Kept
           entry == [answer |-> got[c], at |-> queriesNow]
<1>1. /\ queriesStage[c] = "store" /\ UNCHANGED <<flights, lock, query, got, began, queriesNow>>
      /\ queriesStage' \in [Caller -> QueriesStages] /\ queriesStage'[c] = "done"
      /\ \A d \in Caller : d # c => queriesStage'[d] = queriesStage[d]
      /\ queriesCache' = Queries!Put(Queries!Restrict(queriesCache, kept), query[c], entry)
  BY QueriesGoesOn, QueriesCard DEF Queries!Store, QueriesInv, QueriesStages
<1>2. kept \subseteq DOMAIN queriesCache
  BY DEF Queries!Kept
<1>3. /\ query[c] \in QueriesQuery /\ got[c] \in QueriesAnswer /\ queriesNow \in Nat /\ QueriesRecent(got[c])
      /\ got[c].read \in Nat /\ got[c].kept \in Nat /\ QueryTime \in Nat /\ QueriesTTL \in Nat
  BY <1>1 DEF QueriesInv, QueriesTypeOK, QueriesUnderWay, QueriesAnswer, QueriesNumbers
<1>4. entry \in [answer : QueriesAnswer, at : Nat] /\ entry.at = queriesNow /\ entry.answer = got[c]
  BY <1>3
<1> HIDE DEF kept, entry
<1>5. /\ DOMAIN queriesCache' = kept \cup {query[c]} /\ queriesCache'[query[c]] = entry
      /\ \A k \in kept : k # query[c] => queriesCache'[k] = queriesCache[k]
      /\ QueriesIsMapping(queriesCache')
  <2> DEFINE rest == Queries!Restrict(queriesCache, kept)
             put == Queries!Put(rest, query[c], entry)
  <2>1. DOMAIN rest = kept /\ \A k \in kept : rest[k] = queriesCache[k]
    BY QueriesRestricted
  <2> HIDE DEF rest
  <2>2. /\ DOMAIN put = DOMAIN rest \cup {query[c]} /\ put[query[c]] = entry
        /\ \A k \in DOMAIN rest : k # query[c] => put[k] = rest[k]
        /\ QueriesIsMapping(put)
    BY QueriesPutEntry
  <2>3. queriesCache' = put
    BY <1>1 DEF rest
  <2> HIDE DEF put
  <2> QED BY <2>1, <2>2, <2>3
<1>6. QueriesTypeOK'
  BY <1>1, <1>2, <1>3, <1>4, <1>5 DEF QueriesInv, QueriesTypeOK
<1>7. QueriesCached'
  <2>1. ASSUME NEW k \in DOMAIN queriesCache'
        PROVE  /\ queriesCache'[k].at <= queriesNow /\ queriesCache'[k].answer.read <= queriesCache'[k].at
               /\ queriesCache'[k].at <= queriesCache'[k].answer.read + QueryTime + queriesCache'[k].answer.kept
    <3>1. CASE k = query[c]
      BY <1>3, <1>4, <1>5, <3>1 DEF QueriesRecent
    <3>2. CASE k # query[c]
      BY <1>2, <1>5, <3>2 DEF QueriesInv, QueriesCached
    <3> QED BY <3>1, <3>2
  <2> QED BY <1>1, <2>1 DEF QueriesCached
<1>8. QueriesOneOwner'
  BY <1>1, QueriesOwnersStay DEF QueriesInv, QueriesOwners
<1>9. QueriesWaitsLocked' /\ QueriesUnderWay'
  BY <1>1 DEF QueriesInv, QueriesWaitsLocked, QueriesUnderWay, QueriesRecent
<1>10. QueriesHanded'
  <2>1. QueriesYoung(got[c])
    BY <1>3 DEF QueriesRecent, QueriesYoung
  <2> QED BY <1>1, <2>1 DEF QueriesInv, QueriesHanded, QueriesYoung
<1> QED BY <1>6, <1>7, <1>8, <1>9, <1>10 DEF QueriesInv

LEMMA QueriesReturnKeeps == ASSUME QueriesNumbers, QueriesInv, NEW c \in Caller, Queries!Return(c) PROVE QueriesInv'
<1>1. Queries!AnyQuery \in QueriesQuery /\ Queries!NoAnswer \in QueriesAnswer
  BY DEF QueriesNumbers, Queries!AnyQuery, Queries!NoAnswer, QueriesAnswer
<1>2. /\ queriesStage[c] = "done" /\ UNCHANGED <<queriesCache, flights, lock, began, queriesNow>>
      /\ queriesStage' \in [Caller -> QueriesStages] /\ queriesStage'[c] = "idle"
      /\ \A d \in Caller : d # c => queriesStage'[d] = queriesStage[d]
  BY QueriesGoesOn DEF Queries!Return, QueriesInv, QueriesStages
<1>3. /\ got' \in [Caller -> QueriesAnswer] /\ query' \in [Caller -> QueriesQuery]
      /\ \A d \in Caller : d # c => got'[d] = got[d] /\ query'[d] = query[d]
  BY <1>1 DEF Queries!Return, QueriesInv, QueriesTypeOK
<1>4. QueriesTypeOK'
  BY <1>2, <1>3 DEF QueriesInv, QueriesTypeOK
<1>5. QueriesOneOwner'
  <2>1. QueriesOwners' = QueriesOwners /\ c \notin QueriesOwners
    BY <1>2 DEF QueriesOwners
  <2>2. \A d \in QueriesOwners : query'[d] = query[d]
    BY <1>3, <2>1 DEF QueriesOwners
  <2> QED BY <1>2, <2>1, <2>2, QueriesOwnersStay DEF QueriesInv
<1>6. QueriesWaitsLocked' /\ QueriesUnderWay' /\ QueriesCached' /\ QueriesHanded'
  BY <1>2, <1>3 DEF QueriesInv, QueriesWaitsLocked, QueriesUnderWay, QueriesRecent, QueriesCached,
     QueriesHanded, QueriesYoung
<1> QED BY <1>4, <1>5, <1>6 DEF QueriesInv

\* While time passes nobody holds an answer, only the cache and the flights do.
LEMMA QueriesTickKeeps == ASSUME QueriesNumbers, QueriesInv, Queries!Tick PROVE QueriesInv'
<1>1. /\ queriesNow' = queriesNow + 1 /\ UNCHANGED <<queriesCache, lock, queriesStage, query, got, began>>
      /\ \A c \in Caller : queriesStage[c] \in {"idle", "fetch", "waiting", "running", "landed"}
      /\ \A c \in Caller : queriesStage[c] = "running" => queriesNow < began[c] + QueryTime
      /\ queriesNow \in Nat /\ QueryTime \in Nat
  BY DEF Queries!Tick, QueriesInv, QueriesTypeOK, QueriesNumbers
<1>2. DOMAIN flights' = DOMAIN flights /\ \A k \in DOMAIN flights : flights'[k] = Queries!KeptOn(flights[k])
  BY DEF Queries!Tick
<1>3. ASSUME NEW f \in [landed : BOOLEAN, answer : QueriesAnswer]
      PROVE  /\ Queries!KeptOn(f) \in [landed : BOOLEAN, answer : QueriesAnswer]
             /\ Queries!KeptOn(f).landed = f.landed /\ Queries!KeptOn(f).answer.read = f.answer.read
             /\ f.landed => Queries!KeptOn(f).answer.kept = f.answer.kept + 1
  BY DEF Queries!KeptOn, QueriesAnswer
<1>4. \A k \in DOMAIN flights : flights[k] \in [landed : BOOLEAN, answer : QueriesAnswer]
  BY DEF QueriesInv, QueriesTypeOK
<1>5. \A k \in DOMAIN flights :
        /\ flights'[k] \in [landed : BOOLEAN, answer : QueriesAnswer]
        /\ flights'[k].landed = flights[k].landed
        /\ flights'[k].answer.read = flights[k].answer.read
        /\ flights[k].landed => flights'[k].answer.kept = flights[k].answer.kept + 1
  BY <1>2, <1>3, <1>4
<1>6. QueriesTypeOK'
  <2>1. QueriesIsMapping(flights')
    BY DEF Queries!Tick, QueriesIsMapping
  <2> QED BY <1>1, <1>2, <1>5, <2>1 DEF QueriesInv, QueriesTypeOK
<1>7. QueriesOneOwner' /\ QueriesWaitsLocked'
  BY <1>1, <1>2 DEF QueriesInv, QueriesOneOwner, QueriesOwners, QueriesWaitsLocked
<1>8. QueriesUnderWay'
  <2> SUFFICES ASSUME NEW c \in Caller
               PROVE  /\ queriesStage[c] = "running" => began[c] <= queriesNow' /\ queriesNow' <= began[c] + QueryTime
                                                  /\ ~flights'[query[c]].landed
                      /\ queriesStage[c] = "landed" =>
                           flights'[query[c]].landed /\ QueriesRecent(flights[query[c]].answer)'
                      /\ queriesStage[c] # "store"
    BY <1>1 DEF QueriesUnderWay
  <2>1. CASE queriesStage[c] = "running"
    <3>1. query[c] \in DOMAIN flights /\ began[c] \in Nat
      BY <2>1 DEF QueriesInv, QueriesOneOwner, QueriesOwners, QueriesTypeOK
    <3> QED BY <1>1, <1>5, <2>1, <3>1 DEF QueriesInv, QueriesUnderWay
  <2>2. CASE queriesStage[c] = "landed"
    <3>1. query[c] \in DOMAIN flights /\ flights[query[c]].landed
      BY <2>2 DEF QueriesInv, QueriesOneOwner, QueriesOwners, QueriesUnderWay
    <3>2. QueriesRecent(flights[query[c]].answer)
      BY <2>2 DEF QueriesInv, QueriesUnderWay
    <3>3. /\ flights'[query[c]].landed
          /\ flights'[query[c]].answer.read = flights[query[c]].answer.read
          /\ flights'[query[c]].answer.kept = flights[query[c]].answer.kept + 1
      BY <1>5, <3>1
    <3>4. flights[query[c]].answer.read \in Nat /\ flights[query[c]].answer.kept \in Nat
      BY <1>4, <3>1 DEF QueriesAnswer
    <3>5. QueriesRecent(flights[query[c]].answer)'
      BY <1>1, <3>2, <3>3, <3>4 DEF QueriesRecent
    <3> QED BY <2>2, <3>3, <3>5
  <2> QED BY <1>1, <2>1, <2>2
<1>9. QueriesCached'
  <2>1. \A k \in DOMAIN queriesCache : queriesCache[k].at \in Nat
    BY DEF QueriesInv, QueriesTypeOK
  <2> QED BY <1>1, <2>1 DEF QueriesInv, QueriesCached
<1>10. QueriesHanded'
  BY <1>1 DEF QueriesHanded
<1> QED BY <1>6, <1>7, <1>8, <1>9, <1>10 DEF QueriesInv

LEMMA QueriesStepKeeps == ASSUME QueriesNumbers, QueriesInv, [Queries!Next]_(Queries!queryVars) PROVE QueriesInv'
<1>1. CASE UNCHANGED Queries!queryVars
  BY <1>1 DEF Queries!queryVars, QueriesInv, QueriesTypeOK, QueriesOneOwner, QueriesOwners,
     QueriesWaitsLocked, QueriesUnderWay, QueriesRecent, QueriesCached, QueriesHanded, QueriesYoung
<1> QED BY <1>1, QueriesAskKeeps, QueriesJoinKeeps, QueriesStartKeeps, QueriesLandKeeps,
           QueriesRemoveKeeps, QueriesWakeUpKeeps, QueriesStoreKeeps, QueriesReturnKeeps,
           QueriesTickKeeps DEF Queries!Next, Queries!Step

-----------------------------------------------------------------------------
(* One thing is never queried twice at the same time, and an answer is at     *)
(* most one TTL older than the query behind it took and than its flight was    *)
(* then kept from being removed (single_flight.py 60-99, cache.py 40-125,      *)
(* 190-225).                                                                  *)
THEOREM QueriesAreSingle == ASSUME QueriesNumbers PROVE Queries!Spec => []Queries!QueriesAreShared
<1>1. Queries!Init => QueriesInv
  BY QueriesInvInit
<1>2. QueriesInv /\ [Queries!Next]_(Queries!queryVars) => QueriesInv'
  BY QueriesStepKeeps
<1>3. QueriesInv => Queries!QueriesAreShared
  BY DEF QueriesInv, QueriesOneOwner, QueriesOwners, QueriesHanded, QueriesYoung,
     Queries!QueriesAreShared
<1> QED BY <1>1, <1>2, <1>3, PTL DEF Queries!Spec

-----------------------------------------------------------------------------
(***************************************************************************)
(* An event reaches each client once, for any pods, clients and events.  An   *)
(* event comes to a client on two ways, through Redis and from its own pod;   *)
(* the invariant counts what came and what is still to come on each, in the   *)
(* channel, before it is sent, or while it is sent client by client.          *)
(***************************************************************************)
FanoutHomesArePods == Home \in [FanoutClient -> FanoutPod]

FanoutStages == {"new", "publishing", "local", "handed over"}
FanoutBroadcasts == [event : Event, pod : FanoutPod, own : BOOLEAN, left : SUBSET FanoutClient]

FanoutTypeOK == /\ active \subseteq FanoutClient /\ broken \subseteq FanoutClient /\ listening \subseteq FanoutPod
                /\ channel \in [FanoutPod -> Seq(Event)]
                /\ fanoutStage \in [Event -> FanoutStages] /\ origin \in [Event -> FanoutPod]
                /\ sending \subseteq FanoutBroadcasts
                /\ fanoutSeen \in [FanoutClient -> [Event -> Nat]]
                /\ owed \in [Event -> SUBSET FanoutClient] /\ doubted \subseteq Event

\* The event waits for the subscriber of the pod.
FanoutHas(s, e) == \E i \in DOMAIN s : s[i] = e
FanoutDistinct(s) == \A i, j \in DOMAIN s : s[i] = s[j] => i = j
FanoutInChannel(p, e) == FanoutHas(channel[p], e)

\* A broadcast goes to clients of its pod; there is one of each kind for an
\* event and a pod, which is the event's when it sends by itself.
FanoutOneBroadcast ==
  /\ \A b, d \in sending : b.event = d.event /\ b.pod = d.pod /\ b.own = d.own => b = d
  /\ \A b \in sending : /\ \A c \in b.left : Home[c] = b.pod
                        /\ b.own => b.pod = origin[b.event] /\ fanoutStage[b.event] = "handed over"
                        /\ ~b.own => ~FanoutInChannel(b.pod, b.event)

\* An event is in a channel once.
FanoutOneMessage == \A p \in FanoutPod : FanoutDistinct(channel[p])

\* Nothing of an event that has not happened is on its way.
FanoutNewIsNowhere ==
  \A e \in Event : fanoutStage[e] = "new" =>
    /\ \A p \in FanoutPod : ~FanoutInChannel(p, e)
    /\ \A b \in sending : b.event # e
    /\ \A c \in FanoutClient : fanoutSeen[c][e] = 0
    /\ e \notin doubted /\ owed[e] = {}

\* What is still to come to a client.
FanoutViaRedis(c, e) == \/ FanoutInChannel(Home[c], e)
                        \/ \E b \in sending : b.event = e /\ ~b.own /\ c \in b.left
FanoutViaPod(c, e) == \/ fanoutStage[e] = "local" /\ Home[c] = origin[e]
                      \/ \E b \in sending : b.event = e /\ b.own /\ c \in b.left
FanoutDue(c, e) == (IF FanoutViaRedis(c, e) THEN 1 ELSE 0) + (IF FanoutViaPod(c, e) THEN 1 ELSE 0)
FanoutMost(c, e) == IF e \in doubted /\ Home[c] = origin[e] THEN 2 ELSE 1

FanoutCounted == \A c \in FanoutClient, e \in Event : fanoutSeen[c][e] + FanoutDue(c, e) <= FanoutMost(c, e)

\* Who is owed an event is there, and got it or will.
FanoutOwed ==
  \A e \in Event : \A c \in owed[e] :
    c \in active \ broken /\ (fanoutSeen[c][e] >= 1 \/ FanoutViaRedis(c, e) \/ FanoutViaPod(c, e))

FanoutInv == FanoutTypeOK /\ FanoutOneBroadcast /\ FanoutOneMessage /\ FanoutNewIsNowhere /\ FanoutCounted /\ FanoutOwed

LEMMA FanoutHasAppend ==
  ASSUME NEW s \in Seq(Event), NEW e \in Event
  PROVE  /\ \A f : FanoutHas(Append(s, e), f) <=> f = e \/ FanoutHas(s, f)
         /\ FanoutDistinct(s) /\ ~FanoutHas(s, e) => FanoutDistinct(Append(s, e))
         /\ Append(s, e) \in Seq(Event)
<1>1. /\ Len(s) \in Nat /\ DOMAIN s = 1..Len(s) /\ DOMAIN Append(s, e) = 1..Len(s) + 1
      /\ Append(s, e)[Len(s) + 1] = e /\ \A i \in 1..Len(s) : Append(s, e)[i] = s[i]
  OBVIOUS
<1>2. DOMAIN Append(s, e) = DOMAIN s \cup {Len(s) + 1} /\ Len(s) + 1 \notin DOMAIN s
  BY <1>1
<1>3. \A f : FanoutHas(Append(s, e), f) <=> f = e \/ FanoutHas(s, f)
  BY <1>1, <1>2 DEF FanoutHas
<1>4. FanoutDistinct(s) /\ ~FanoutHas(s, e) => FanoutDistinct(Append(s, e))
  BY <1>1, <1>2 DEF FanoutHas, FanoutDistinct
<1> QED BY <1>3, <1>4

LEMMA FanoutHasTail ==
  ASSUME NEW s \in Seq(Event), s # <<>>, FanoutDistinct(s)
  PROVE  /\ Tail(s) \in Seq(Event) /\ Head(s) \in Event
         /\ \A f : FanoutHas(Tail(s), f) <=> f # Head(s) /\ FanoutHas(s, f)
         /\ FanoutDistinct(Tail(s)) /\ FanoutHas(s, Head(s))
<1>1. /\ Tail(s) \in Seq(Event) /\ Len(s) \in Nat /\ Len(s) > 0 /\ Len(Tail(s)) = Len(s) - 1
      /\ \A i \in 1..Len(s) - 1 : Tail(s)[i] = s[i + 1]
      /\ Head(s) = s[1] /\ Head(s) \in Event
      /\ DOMAIN s = 1..Len(s) /\ DOMAIN Tail(s) = 1..Len(s) - 1
  OBVIOUS
<1>2. ASSUME NEW f, FanoutHas(s, f), f # Head(s) PROVE FanoutHas(Tail(s), f)
  <2>1. PICK i \in DOMAIN s : s[i] = f
    BY <1>2 DEF FanoutHas
  <2>2. i - 1 \in DOMAIN Tail(s) /\ Tail(s)[i - 1] = f
    BY <1>1, <1>2, <2>1
  <2> QED BY <2>2 DEF FanoutHas
<1>3. ASSUME NEW f, FanoutHas(Tail(s), f) PROVE FanoutHas(s, f) /\ f # Head(s)
  <2>1. PICK i \in DOMAIN Tail(s) : Tail(s)[i] = f
    BY <1>3 DEF FanoutHas
  <2>2. i + 1 \in DOMAIN s /\ s[i + 1] = f /\ 1 \in DOMAIN s /\ i + 1 # 1
    BY <1>1, <2>1
  <2> QED BY <1>1, <2>2 DEF FanoutHas, FanoutDistinct
<1>4. FanoutDistinct(Tail(s))
  <2> SUFFICES ASSUME NEW i \in DOMAIN Tail(s), NEW j \in DOMAIN Tail(s), Tail(s)[i] = Tail(s)[j]
               PROVE  i = j
    BY DEF FanoutDistinct
  <2>1. i + 1 \in DOMAIN s /\ j + 1 \in DOMAIN s /\ s[i + 1] = s[j + 1] /\ i \in Nat /\ j \in Nat
    BY <1>1
  <2> QED BY <2>1 DEF FanoutDistinct
<1>5. FanoutHas(s, Head(s))
  BY <1>1 DEF FanoutHas
<1> QED BY <1>1, <1>2, <1>3, <1>4, <1>5

LEMMA FanoutDueType == ASSUME NEW c, NEW e PROVE FanoutDue(c, e) \in 0..2
  BY DEF FanoutDue

\* Nothing more is to come, and no more came.
LEMMA FanoutNoMoreDue ==
  ASSUME FanoutTypeOK, FanoutCounted, UNCHANGED <<fanoutSeen, origin, doubted>>,
         \A c \in FanoutClient, e \in Event : FanoutViaRedis(c, e)' => FanoutViaRedis(c, e),
         \A c \in FanoutClient, e \in Event : FanoutViaPod(c, e)' => FanoutViaPod(c, e)
  PROVE  FanoutCounted'
<1> SUFFICES ASSUME NEW c \in FanoutClient, NEW e \in Event
             PROVE  fanoutSeen[c][e] + FanoutDue(c, e)' <= FanoutMost(c, e)
  BY DEF FanoutCounted, FanoutMost
<1>1. FanoutDue(c, e)' <= FanoutDue(c, e)
  BY DEF FanoutDue
<1>2. fanoutSeen[c][e] \in Nat /\ FanoutDue(c, e) \in 0..2 /\ FanoutDue(c, e)' \in 0..2 /\ FanoutMost(c, e) \in 1..2
  BY DEF FanoutTypeOK, FanoutDue, FanoutMost
<1>3. fanoutSeen[c][e] + FanoutDue(c, e) <= FanoutMost(c, e)
  BY DEF FanoutCounted
<1> QED BY <1>1, <1>2, <1>3

LEMMA FanoutInvInit == ASSUME FanoutHomesArePods, Fanout!Init PROVE FanoutInv
<1>1. FanoutTypeOK
  BY DEF Fanout!Init, FanoutTypeOK, FanoutStages
<1>2. \A p \in FanoutPod : \A e : ~FanoutInChannel(p, e)
  BY DEF Fanout!Init, FanoutInChannel, FanoutHas
<1>3. \A c \in FanoutClient, e \in Event : ~FanoutViaRedis(c, e) /\ ~FanoutViaPod(c, e)
  BY <1>2 DEF Fanout!Init, FanoutViaRedis, FanoutViaPod, FanoutHomesArePods
<1>4. FanoutCounted
  BY <1>3 DEF Fanout!Init, FanoutCounted, FanoutDue, FanoutMost
<1> QED BY <1>1, <1>2, <1>4 DEF Fanout!Init, FanoutInv, FanoutOneBroadcast, FanoutOneMessage,
           FanoutDistinct, FanoutNewIsNowhere, FanoutOwed

-----------------------------------------------------------------------------
(* Clients come and go.                                                      *)
LEMMA FanoutSameEventsKeep ==
  ASSUME FanoutInv, FanoutTypeOK', UNCHANGED <<channel, fanoutStage, origin, sending, fanoutSeen, doubted>>,
         \A e \in Event : owed'[e] \subseteq owed[e] /\ owed'[e] \subseteq active' \ broken'
  PROVE  FanoutInv'
<1>1. /\ \A p \in FanoutPod : \A e : FanoutInChannel(p, e)' = FanoutInChannel(p, e)
      /\ \A c \in FanoutClient, e \in Event : FanoutViaRedis(c, e)' = FanoutViaRedis(c, e)
      /\ \A c \in FanoutClient, e \in Event : FanoutViaPod(c, e)' = FanoutViaPod(c, e)
  BY DEF FanoutInChannel, FanoutHas, FanoutViaRedis, FanoutViaPod
<1>2. FanoutOneBroadcast' /\ FanoutOneMessage'
  BY <1>1 DEF FanoutInv, FanoutOneBroadcast, FanoutOneMessage, FanoutDistinct, FanoutInChannel
<1>3. FanoutCounted'
  BY <1>1, FanoutNoMoreDue DEF FanoutInv
<1>4. FanoutNewIsNowhere'
  BY <1>1 DEF FanoutInv, FanoutNewIsNowhere, FanoutTypeOK
<1>5. FanoutOwed'
  BY <1>1 DEF FanoutInv, FanoutTypeOK, FanoutOwed
<1> QED BY <1>2, <1>3, <1>4, <1>5 DEF FanoutInv

LEMMA FanoutConnectKeeps == ASSUME FanoutInv, NEW c \in FanoutClient, Fanout!Connect(c) PROVE FanoutInv'
<1>1. /\ UNCHANGED <<channel, fanoutStage, origin, sending, fanoutSeen, owed, doubted>> /\ FanoutTypeOK'
      /\ active' = active \cup {c} /\ broken' = broken \ {c}
  BY DEF Fanout!Connect, FanoutInv, FanoutTypeOK
<1>2. \A e \in Event : owed[e] \subseteq active' \ broken'
  BY <1>1 DEF FanoutInv, FanoutOwed
<1> QED BY <1>1, <1>2, FanoutSameEventsKeep

LEMMA FanoutBreakKeeps == ASSUME FanoutInv, NEW c \in FanoutClient, Fanout!Break(c) PROVE FanoutInv'
<1>1. /\ UNCHANGED <<active, channel, fanoutStage, origin, sending, fanoutSeen, doubted>>
      /\ broken' = broken \cup {c} /\ owed' = [e \in Event |-> owed[e] \ {c}]
  BY DEF Fanout!Break, Fanout!Forgiven
<1>2. FanoutTypeOK'
  <2>1. broken' \subseteq FanoutClient /\ owed' \in [Event -> SUBSET FanoutClient]
    BY <1>1 DEF FanoutInv, FanoutTypeOK
  <2>2. UNCHANGED <<listening, active, channel, fanoutStage, origin, sending, fanoutSeen, doubted>>
    BY <1>1 DEF Fanout!Break
  <2> QED BY <2>1, <2>2 DEF FanoutInv, FanoutTypeOK
<1>3. \A e \in Event : owed'[e] \subseteq owed[e] /\ owed'[e] \subseteq active' \ broken'
  BY <1>1 DEF FanoutInv, FanoutOwed
<1> QED BY <1>1, <1>2, <1>3, FanoutSameEventsKeep

LEMMA FanoutResubscribeKeeps == ASSUME FanoutInv, NEW p \in FanoutPod, Fanout!Resubscribe(p) PROVE FanoutInv'
<1>1. UNCHANGED <<active, broken, channel, fanoutStage, origin, sending, fanoutSeen, owed, doubted>> /\ FanoutTypeOK'
  BY DEF Fanout!Resubscribe, FanoutInv, FanoutTypeOK
<1>2. \A e \in Event : owed[e] \subseteq active \ broken
  BY DEF FanoutInv, FanoutOwed
<1> QED BY <1>1, <1>2, FanoutSameEventsKeep

\* Broadcasts go on without a client.
LEMMA FanoutDisconnectKeeps == ASSUME FanoutInv, NEW c \in FanoutClient, Fanout!Disconnect(c) PROVE FanoutInv'
<1> DEFINE rest(b) == [b EXCEPT !.left = @ \ {c}]
<1>1. /\ UNCHANGED <<broken, channel, listening, fanoutStage, origin, fanoutSeen, doubted>>
      /\ active' = active \ {c} /\ owed' = [e \in Event |-> owed[e] \ {c}]
      /\ sending' = {rest(b) : b \in sending}
  BY DEF Fanout!Disconnect, Fanout!Forgiven
<1>2. ASSUME NEW b \in sending
      PROVE  /\ rest(b) \in FanoutBroadcasts /\ rest(b).event = b.event /\ rest(b).pod = b.pod
             /\ rest(b).own = b.own /\ rest(b).left = b.left \ {c}
  <2>1. b \in FanoutBroadcasts
    BY DEF FanoutInv, FanoutTypeOK
  <2> QED BY <2>1 DEF FanoutBroadcasts
<1> HIDE DEF rest
<1>3. FanoutTypeOK'
  BY <1>1, <1>2 DEF FanoutInv, FanoutTypeOK
<1>4. /\ \A p \in FanoutPod : \A e : FanoutInChannel(p, e)' = FanoutInChannel(p, e)
      /\ \A d \in FanoutClient, e \in Event : FanoutViaRedis(d, e)' => FanoutViaRedis(d, e)
      /\ \A d \in FanoutClient, e \in Event : FanoutViaPod(d, e)' => FanoutViaPod(d, e)
      /\ \A d \in FanoutClient, e \in Event : d # c /\ FanoutViaRedis(d, e) => FanoutViaRedis(d, e)'
      /\ \A d \in FanoutClient, e \in Event : d # c /\ FanoutViaPod(d, e) => FanoutViaPod(d, e)'
  <2>1. \A p \in FanoutPod : \A e : FanoutInChannel(p, e)' = FanoutInChannel(p, e)
    BY <1>1 DEF FanoutInChannel
  <2>2. \A d \in FanoutClient : \A e : FanoutInChannel(Home[d], e)' = FanoutInChannel(Home[d], e)
    BY <1>1 DEF FanoutInChannel
  <2> QED BY <1>1, <1>2, <2>1, <2>2 DEF FanoutViaRedis, FanoutViaPod
<1>5. FanoutOneBroadcast'
  <2>1. ASSUME NEW b \in sending', NEW d \in sending',
               b.event = d.event, b.pod = d.pod, b.own = d.own
        PROVE  b = d
    <3>1. PICK x \in sending, y \in sending : b = rest(x) /\ d = rest(y)
      BY <1>1
    <3>2. x.event = y.event /\ x.pod = y.pod /\ x.own = y.own
      BY <1>2, <2>1, <3>1
    <3> QED BY <3>1, <3>2 DEF FanoutInv, FanoutOneBroadcast
  <2>2. ASSUME NEW b \in sending'
        PROVE  /\ \A d \in b.left : Home[d] = b.pod
               /\ b.own => b.pod = origin'[b.event] /\ fanoutStage'[b.event] = "handed over"
               /\ ~b.own => ~FanoutInChannel(b.pod, b.event)'
    <3>1. PICK x \in sending : b = rest(x)
      BY <1>1
    <3>2. x \in FanoutBroadcasts
      BY DEF FanoutInv, FanoutTypeOK
    <3>3. /\ b.left = x.left \ {c} /\ b.event = x.event /\ b.pod = x.pod /\ b.own = x.own
          /\ x.pod \in FanoutPod
      BY <1>2, <3>1, <3>2 DEF FanoutBroadcasts
    <3> QED BY <1>1, <1>4, <3>3 DEF FanoutInv, FanoutOneBroadcast
  <2> QED BY <2>1, <2>2 DEF FanoutOneBroadcast
<1>6. FanoutOneMessage'
  BY <1>1 DEF FanoutInv, FanoutOneMessage
<1>7. FanoutNewIsNowhere'
  <2>1. \A e \in Event : (\A b \in sending : b.event # e) => \A b \in sending' : b.event # e
    BY <1>1, <1>2
  <2> QED BY <1>1, <1>4, <2>1 DEF FanoutInv, FanoutNewIsNowhere
<1>8. FanoutCounted'
  BY <1>1, <1>4, FanoutNoMoreDue DEF FanoutInv
<1>9. FanoutOwed'
  <2> SUFFICES ASSUME NEW e \in Event, NEW d \in owed'[e]
               PROVE  d \in active' \ broken' /\ (fanoutSeen'[d][e] >= 1 \/ FanoutViaRedis(d, e)' \/ FanoutViaPod(d, e)')
    BY DEF FanoutOwed
  <2>1. d \in owed[e] /\ d # c /\ d \in FanoutClient
    BY <1>1 DEF FanoutInv, FanoutTypeOK
  <2>2. d \in active \ broken /\ (fanoutSeen[d][e] >= 1 \/ FanoutViaRedis(d, e) \/ FanoutViaPod(d, e))
    BY <2>1 DEF FanoutInv, FanoutOwed
  <2> QED BY <1>1, <1>4, <2>1, <2>2
<1> QED BY <1>3, <1>5, <1>6, <1>7, <1>8, <1>9 DEF FanoutInv

-----------------------------------------------------------------------------
(* An event happens.                                                         *)
LEMMA FanoutPublishKeeps == ASSUME FanoutHomesArePods, FanoutInv, NEW e \in Event, Fanout!Publish(e) PROVE FanoutInv'
<1>1. PICK executed \in BOOLEAN, raised \in BOOLEAN :
        /\ executed \/ raised
        /\ channel' = [p \in FanoutPod |-> IF executed /\ p \in listening
                                           THEN Append(channel[p], e) ELSE channel[p]]
        /\ owed' = [owed EXCEPT ![e] =
                      {c \in active \ broken : \/ executed /\ Home[c] \in listening
                                               \/ raised /\ Home[c] = origin[e]}]
        /\ doubted' = IF executed /\ raised THEN doubted \cup {e} ELSE doubted
        /\ fanoutStage' = [fanoutStage EXCEPT ![e] = IF raised THEN "local" ELSE "handed over"]
  BY DEF Fanout!Publish
<1>2. /\ fanoutStage[e] = "new" /\ UNCHANGED <<active, broken, listening, origin, sending, fanoutSeen>>
      /\ \A p \in FanoutPod : ~FanoutInChannel(p, e)
      /\ \A b \in sending : b.event # e
      /\ \A c \in FanoutClient : fanoutSeen[c][e] = 0
      /\ e \notin doubted
  BY DEF Fanout!Publish, FanoutInv, FanoutNewIsNowhere
<1>3. /\ fanoutStage' \in [Event -> FanoutStages] /\ \A f \in Event : f # e => fanoutStage'[f] = fanoutStage[f]
      /\ fanoutStage'[e] = "local" <=> raised
      /\ fanoutStage'[e] # "new"
  BY <1>1 DEF FanoutInv, FanoutTypeOK, FanoutStages
<1>4. ASSUME NEW p \in FanoutPod
      PROVE  /\ channel'[p] \in Seq(Event) /\ FanoutDistinct(channel'[p])
             /\ \A f : FanoutInChannel(p, f)' <=>
                         FanoutInChannel(p, f) \/ (f = e /\ executed /\ p \in listening)
  <2>1. channel[p] \in Seq(Event) /\ FanoutDistinct(channel[p]) /\ ~FanoutHas(channel[p], e)
    BY <1>2 DEF FanoutInv, FanoutTypeOK, FanoutOneMessage, FanoutInChannel
  <2>2. CASE executed /\ p \in listening
    <3>1. channel'[p] = Append(channel[p], e)
      BY <1>1, <2>2
    <3>2. /\ Append(channel[p], e) \in Seq(Event) /\ FanoutDistinct(Append(channel[p], e))
          /\ \A f : FanoutHas(Append(channel[p], e), f) <=> f = e \/ FanoutHas(channel[p], f)
      BY <2>1, FanoutHasAppend
    <3> QED BY <2>2, <3>1, <3>2 DEF FanoutInChannel
  <2>3. CASE ~(executed /\ p \in listening)
    <3>1. channel'[p] = channel[p]
      BY <1>1, <2>3
    <3> QED BY <2>1, <2>3, <3>1 DEF FanoutInChannel
  <2> QED BY <2>2, <2>3
<1>5. /\ owed' \in [Event -> SUBSET FanoutClient]
      /\ owed'[e] = {c \in active \ broken : \/ executed /\ Home[c] \in listening
                                             \/ raised /\ Home[c] = origin[e]}
      /\ \A f \in Event : f # e => owed'[f] = owed[f]
  BY <1>1 DEF FanoutInv, FanoutTypeOK
<1>6. FanoutTypeOK'
  <2>1. channel' \in [FanoutPod -> Seq(Event)]
    BY <1>1, <1>4
  <2> QED BY <1>1, <1>2, <1>3, <1>5, <2>1 DEF FanoutInv, FanoutTypeOK
<1>7. \A b \in sending : /\ b.event \in Event /\ b.event # e /\ b.pod \in FanoutPod
                         /\ fanoutStage'[b.event] = fanoutStage[b.event]
                         /\ (FanoutInChannel(b.pod, b.event)' <=> FanoutInChannel(b.pod, b.event))
  BY <1>2, <1>3, <1>4 DEF FanoutInv, FanoutTypeOK, FanoutBroadcasts
<1>8. FanoutOneBroadcast'
  BY <1>2, <1>7 DEF FanoutInv, FanoutOneBroadcast
<1>9. FanoutOneMessage'
  BY <1>4 DEF FanoutOneMessage
<1>10. FanoutNewIsNowhere'
  <2> SUFFICES ASSUME NEW f \in Event, fanoutStage'[f] = "new"
               PROVE  /\ \A p \in FanoutPod : ~FanoutInChannel(p, f)'
                      /\ \A b \in sending : b.event # f
                      /\ \A c \in FanoutClient : fanoutSeen[c][f] = 0
                      /\ f \notin doubted' /\ owed'[f] = {}
    BY <1>2 DEF FanoutNewIsNowhere
  <2>1. f # e /\ fanoutStage[f] = "new"
    BY <1>3
  <2>2. /\ \A p \in FanoutPod : ~FanoutInChannel(p, f)
        /\ \A b \in sending : b.event # f
        /\ \A c \in FanoutClient : fanoutSeen[c][f] = 0
        /\ f \notin doubted /\ owed[f] = {}
    BY <2>1 DEF FanoutInv, FanoutNewIsNowhere
  <2> QED BY <1>1, <1>4, <1>5, <2>1, <2>2
<1>11. ASSUME NEW c \in FanoutClient, NEW f \in Event
       PROVE  /\ Home[c] \in FanoutPod
              /\ f # e => FanoutViaRedis(c, f)' = FanoutViaRedis(c, f) /\ FanoutViaPod(c, f)' = FanoutViaPod(c, f)
              /\ f = e => /\ FanoutViaRedis(c, f)' <=> executed /\ Home[c] \in listening
                          /\ FanoutViaPod(c, f)' <=> raised /\ Home[c] = origin[e]
  <2>1. Home[c] \in FanoutPod
    BY DEF FanoutHomesArePods
  <2>2. CASE f # e
    <3>1. (FanoutInChannel(Home[c], f)' <=> FanoutInChannel(Home[c], f)) /\ fanoutStage'[f] = fanoutStage[f]
      BY <1>3, <1>4, <2>1, <2>2
    <3> QED BY <1>2, <2>1, <2>2, <3>1 DEF FanoutViaRedis, FanoutViaPod
  <2>3. CASE f = e
    <3>1. FanoutInChannel(Home[c], e)' <=> executed /\ Home[c] \in listening
      BY <1>2, <1>4, <2>1
    <3>2. FanoutViaRedis(c, e)' <=> executed /\ Home[c] \in listening
      BY <1>2, <3>1 DEF FanoutViaRedis
    <3>3. FanoutViaPod(c, e)' <=> raised /\ Home[c] = origin[e]
      BY <1>2, <1>3 DEF FanoutViaPod
    <3> QED BY <2>1, <2>3, <3>2, <3>3
  <2> QED BY <2>2, <2>3
<1>12. FanoutCounted'
  <2> SUFFICES ASSUME NEW c \in FanoutClient, NEW f \in Event
               PROVE  fanoutSeen[c][f] + FanoutDue(c, f)' <= FanoutMost(c, f)'
    BY <1>2 DEF FanoutCounted
  <2>1. CASE f # e
    <3>1. FanoutDue(c, f)' = FanoutDue(c, f) /\ FanoutMost(c, f)' = FanoutMost(c, f)
      BY <1>1, <1>2, <1>11, <2>1 DEF FanoutDue, FanoutMost
    <3> QED BY <3>1 DEF FanoutInv, FanoutCounted
  <2>2. CASE f = e
    <3>1. FanoutMost(c, f)' = IF executed /\ raised /\ Home[c] = origin[e] THEN 2 ELSE 1
      BY <1>1, <1>2, <2>2 DEF FanoutMost
    <3>2. FanoutDue(c, f)' = (IF executed /\ Home[c] \in listening THEN 1 ELSE 0)
                         + (IF raised /\ Home[c] = origin[e] THEN 1 ELSE 0)
      BY <1>11, <2>2 DEF FanoutDue
    <3> QED BY <1>2, <2>2, <3>1, <3>2
  <2> QED BY <2>1, <2>2
<1>13. FanoutOwed'
  <2> SUFFICES ASSUME NEW f \in Event, NEW c \in owed'[f]
               PROVE  c \in active \ broken /\ (fanoutSeen[c][f] >= 1 \/ FanoutViaRedis(c, f)' \/ FanoutViaPod(c, f)')
    BY <1>2 DEF FanoutOwed
  <2>1. c \in FanoutClient
    BY <1>5
  <2>2. CASE f # e
    BY <1>5, <1>11, <2>1, <2>2 DEF FanoutInv, FanoutOwed
  <2>3. CASE f = e
    BY <1>5, <1>11, <2>1, <2>3
  <2> QED BY <2>2, <2>3
<1> QED BY <1>6, <1>8, <1>9, <1>10, <1>12, <1>13 DEF FanoutInv

LEMMA FanoutUnpublishedKeeps == ASSUME FanoutHomesArePods, FanoutInv, NEW e \in Event, Fanout!Unpublished(e) PROVE FanoutInv'
<1>1. /\ fanoutStage[e] = "new"
      /\ UNCHANGED <<active, broken, channel, listening, origin, sending, fanoutSeen, doubted>>
      /\ owed' = [owed EXCEPT ![e] = Fanout!At(origin[e]) \ broken]
      /\ fanoutStage' = [fanoutStage EXCEPT ![e] = "local"]
      /\ \A p \in FanoutPod : ~FanoutInChannel(p, e)
      /\ \A b \in sending : b.event # e
      /\ \A c \in FanoutClient : fanoutSeen[c][e] = 0
  BY DEF Fanout!Unpublished, FanoutInv, FanoutNewIsNowhere
<1>2. /\ fanoutStage' \in [Event -> FanoutStages] /\ fanoutStage'[e] = "local"
      /\ \A f \in Event : f # e => fanoutStage'[f] = fanoutStage[f]
      /\ owed' \in [Event -> SUBSET FanoutClient]
      /\ owed'[e] = {c \in active : Home[c] = origin[e]} \ broken
      /\ \A f \in Event : f # e => owed'[f] = owed[f]
  BY <1>1 DEF FanoutInv, FanoutTypeOK, FanoutStages, Fanout!At
<1>3. FanoutTypeOK'
  BY <1>1, <1>2 DEF FanoutInv, FanoutTypeOK
<1>4. \A p \in FanoutPod : \A f : FanoutInChannel(p, f)' = FanoutInChannel(p, f)
  BY <1>1 DEF FanoutInChannel
<1>5. FanoutOneBroadcast'
  <2>1. \A b \in sending : /\ b.event \in Event /\ b.pod \in FanoutPod /\ fanoutStage'[b.event] = fanoutStage[b.event]
                           /\ FanoutInChannel(b.pod, b.event)' = FanoutInChannel(b.pod, b.event)
    BY <1>1, <1>2, <1>4 DEF FanoutInv, FanoutTypeOK, FanoutBroadcasts
  <2> QED BY <1>1, <2>1 DEF FanoutInv, FanoutOneBroadcast
<1>6. FanoutOneMessage'
  BY <1>1 DEF FanoutInv, FanoutOneMessage
<1>7. FanoutNewIsNowhere'
  <2> SUFFICES ASSUME NEW f \in Event, fanoutStage'[f] = "new"
               PROVE  /\ \A q \in FanoutPod : ~FanoutInChannel(q, f)'
                      /\ \A b \in sending' : b.event # f
                      /\ \A c \in FanoutClient : fanoutSeen[c][f] = 0
                      /\ f \notin doubted /\ owed'[f] = {}
    BY <1>1 DEF FanoutNewIsNowhere
  <2>1. f # e /\ fanoutStage[f] = "new" /\ owed'[f] = owed[f]
    BY <1>2
  <2>2. /\ \A q \in FanoutPod : ~FanoutInChannel(q, f)
        /\ \A b \in sending : b.event # f
        /\ \A c \in FanoutClient : fanoutSeen[c][f] = 0
        /\ f \notin doubted /\ owed[f] = {}
    BY <2>1 DEF FanoutInv, FanoutNewIsNowhere
  <2> QED BY <1>1, <1>4, <2>1, <2>2
<1>8. ASSUME NEW c \in FanoutClient, NEW f \in Event
      PROVE  /\ f # e => FanoutViaRedis(c, f)' = FanoutViaRedis(c, f) /\ FanoutViaPod(c, f)' = FanoutViaPod(c, f)
             /\ f = e => ~FanoutViaRedis(c, f)' /\ (FanoutViaPod(c, f)' <=> Home[c] = origin[e])
  <2>1. Home[c] \in FanoutPod
    BY DEF FanoutHomesArePods
  <2> QED BY <1>1, <1>2, <1>4, <2>1 DEF FanoutViaRedis, FanoutViaPod
<1>9. FanoutCounted'
  <2> SUFFICES ASSUME NEW c \in FanoutClient, NEW f \in Event
               PROVE  fanoutSeen[c][f] + FanoutDue(c, f)' <= FanoutMost(c, f)
    BY <1>1 DEF FanoutCounted, FanoutMost
  <2>1. CASE f # e
    <3>1. FanoutDue(c, f)' = FanoutDue(c, f)
      BY <1>8, <2>1 DEF FanoutDue
    <3> QED BY <3>1 DEF FanoutInv, FanoutCounted
  <2>2. CASE f = e
    <3>1. FanoutDue(c, f)' \in 0..1 /\ FanoutMost(c, f) \in 1..2
      BY <1>8, <2>2 DEF FanoutDue, FanoutMost
    <3> QED BY <1>1, <2>2, <3>1
  <2> QED BY <2>1, <2>2
<1>10. FanoutOwed'
  <2> SUFFICES ASSUME NEW f \in Event, NEW c \in owed'[f]
               PROVE  c \in active \ broken /\ (fanoutSeen[c][f] >= 1 \/ FanoutViaRedis(c, f)' \/ FanoutViaPod(c, f)')
    BY <1>1 DEF FanoutOwed
  <2>1. c \in FanoutClient
    BY <1>2
  <2> QED BY <1>2, <1>8, <2>1 DEF FanoutInv, FanoutOwed
<1> QED BY <1>3, <1>5, <1>6, <1>7, <1>9, <1>10 DEF FanoutInv

\* What waited to be sent by the pod itself is sent.
LEMMA FanoutSendOwnKeeps == ASSUME FanoutHomesArePods, FanoutInv, NEW e \in Event, Fanout!SendOwn(e) PROVE FanoutInv'
<1> DEFINE new == Fanout!Broadcast(e, origin[e], TRUE)
<1>1. /\ fanoutStage[e] = "local" /\ fanoutStage' = [fanoutStage EXCEPT ![e] = "handed over"]
      /\ sending' = sending \cup {new}
      /\ UNCHANGED <<active, broken, channel, listening, origin, fanoutSeen, owed, doubted>>
  BY DEF Fanout!SendOwn
<1>2. /\ new.event = e /\ new.pod = origin[e] /\ new.own = TRUE
      /\ new.left = {c \in active : Home[c] = origin[e]} /\ new \in FanoutBroadcasts
  BY DEF Fanout!Broadcast, FanoutBroadcasts, Fanout!At, FanoutInv, FanoutTypeOK
<1> HIDE DEF new
<1>3. /\ fanoutStage' \in [Event -> FanoutStages] /\ fanoutStage'[e] = "handed over"
      /\ \A f \in Event : f # e => fanoutStage'[f] = fanoutStage[f]
  BY <1>1 DEF FanoutInv, FanoutTypeOK, FanoutStages
<1>4. FanoutTypeOK'
  BY <1>1, <1>2, <1>3 DEF FanoutInv, FanoutTypeOK
<1>5. \A p \in FanoutPod : \A f : FanoutInChannel(p, f)' = FanoutInChannel(p, f)
  BY <1>1 DEF FanoutInChannel
<1>6. \A b \in sending : b.event = e => ~b.own
  BY <1>1 DEF FanoutInv, FanoutOneBroadcast
<1>7. FanoutOneBroadcast'
  <2>1. ASSUME NEW b \in sending', NEW d \in sending',
               b.event = d.event, b.pod = d.pod, b.own = d.own
        PROVE  b = d
    BY <1>1, <1>2, <1>6, <2>1 DEF FanoutInv, FanoutOneBroadcast
  <2>2. ASSUME NEW b \in sending'
        PROVE  /\ \A c \in b.left : Home[c] = b.pod
               /\ b.own => b.pod = origin'[b.event] /\ fanoutStage'[b.event] = "handed over"
               /\ ~b.own => ~FanoutInChannel(b.pod, b.event)'
    <3>1. CASE b = new
      BY <1>1, <1>2, <1>3, <3>1
    <3>2. CASE b \in sending
      <4>1. b.pod \in FanoutPod /\ b.event \in Event
        BY <3>2 DEF FanoutInv, FanoutTypeOK, FanoutBroadcasts
      <4> QED BY <1>1, <1>3, <1>5, <3>2, <4>1 DEF FanoutInv, FanoutOneBroadcast
    <3> QED BY <1>1, <3>1, <3>2
  <2> QED BY <2>1, <2>2 DEF FanoutOneBroadcast
<1>8. FanoutOneMessage'
  BY <1>1 DEF FanoutInv, FanoutOneMessage
<1>9. FanoutNewIsNowhere'
  <2> SUFFICES ASSUME NEW f \in Event, fanoutStage'[f] = "new"
               PROVE  /\ \A q \in FanoutPod : ~FanoutInChannel(q, f)'
                      /\ \A b \in sending' : b.event # f
                      /\ \A c \in FanoutClient : fanoutSeen[c][f] = 0
                      /\ f \notin doubted /\ owed'[f] = {}
    BY <1>1 DEF FanoutNewIsNowhere
  <2>1. f # e /\ fanoutStage[f] = "new"
    BY <1>3
  <2>2. /\ \A q \in FanoutPod : ~FanoutInChannel(q, f)
        /\ \A b \in sending : b.event # f
        /\ \A c \in FanoutClient : fanoutSeen[c][f] = 0
        /\ f \notin doubted /\ owed[f] = {}
    BY <2>1 DEF FanoutInv, FanoutNewIsNowhere
  <2> QED BY <1>1, <1>2, <1>5, <2>1, <2>2
<1>10. ASSUME NEW c \in FanoutClient, NEW f \in Event
       PROVE  /\ FanoutViaRedis(c, f)' = FanoutViaRedis(c, f)
              /\ FanoutViaPod(c, f)' => FanoutViaPod(c, f)
              /\ c \in active /\ FanoutViaPod(c, f) => FanoutViaPod(c, f)'
  <2>1. Home[c] \in FanoutPod
    BY DEF FanoutHomesArePods
  <2>2. FanoutViaRedis(c, f)' = FanoutViaRedis(c, f)
    BY <1>1, <1>2, <1>5, <2>1 DEF FanoutViaRedis
  <2>3. FanoutViaPod(c, f)' => FanoutViaPod(c, f)
    BY <1>1, <1>2, <1>3 DEF FanoutViaPod
  <2>4. c \in active /\ FanoutViaPod(c, f) => FanoutViaPod(c, f)'
    BY <1>1, <1>2, <1>3 DEF FanoutViaPod
  <2> QED BY <2>2, <2>3, <2>4
<1>11. FanoutCounted'
  BY <1>1, <1>10, FanoutNoMoreDue DEF FanoutInv
<1>12. FanoutOwed'
  <2>1. \A f \in Event : owed[f] \subseteq FanoutClient
    BY DEF FanoutInv, FanoutTypeOK
  <2> QED BY <1>1, <1>10, <2>1 DEF FanoutInv, FanoutOwed
<1> QED BY <1>4, <1>7, <1>8, <1>9, <1>11, <1>12 DEF FanoutInv

\* The subscriber takes the next message.
LEMMA FanoutReceiveKeeps == ASSUME FanoutHomesArePods, FanoutInv, NEW p \in FanoutPod, Fanout!Receive(p) PROVE FanoutInv'
<1> DEFINE e == Head(channel[p])
           new == Fanout!Broadcast(e, p, FALSE)
<1>1. /\ channel[p] # <<>> /\ \A b \in sending : b.pod = p => b.own
      /\ sending' = sending \cup {new} /\ channel' = [channel EXCEPT ![p] = Tail(@)]
      /\ UNCHANGED <<active, broken, listening, fanoutStage, origin, fanoutSeen, owed, doubted>>
  BY DEF Fanout!Receive
<1>2. channel[p] \in Seq(Event) /\ FanoutDistinct(channel[p])
  BY DEF FanoutInv, FanoutTypeOK, FanoutOneMessage
<1>3. /\ Tail(channel[p]) \in Seq(Event) /\ e \in Event
      /\ \A f : FanoutHas(Tail(channel[p]), f) <=> f # e /\ FanoutHas(channel[p], f)
      /\ FanoutDistinct(Tail(channel[p])) /\ FanoutHas(channel[p], e)
  BY <1>1, <1>2, FanoutHasTail
<1>4. /\ new.event = e /\ new.pod = p /\ new.own = FALSE
      /\ new.left = {c \in active : Home[c] = p} /\ new \in FanoutBroadcasts
  BY <1>3 DEF Fanout!Broadcast, FanoutBroadcasts, Fanout!At, FanoutInv, FanoutTypeOK
<1> HIDE DEF e, new
<1>5. /\ channel' \in [FanoutPod -> Seq(Event)] /\ channel'[p] = Tail(channel[p])
      /\ \A q \in FanoutPod : q # p => channel'[q] = channel[q]
  BY <1>1, <1>3 DEF FanoutInv, FanoutTypeOK
<1>6. /\ FanoutInChannel(p, e) /\ \A f : FanoutInChannel(p, f)' <=> f # e /\ FanoutInChannel(p, f)
      /\ \A q \in FanoutPod : \A f : q # p => FanoutInChannel(q, f)' = FanoutInChannel(q, f)
  BY <1>3, <1>5 DEF FanoutInChannel
<1>7. FanoutTypeOK'
  BY <1>1, <1>4, <1>5 DEF FanoutInv, FanoutTypeOK
<1>8. FanoutOneBroadcast'
  <2>1. ASSUME NEW b \in sending', NEW d \in sending',
               b.event = d.event, b.pod = d.pod, b.own = d.own
        PROVE  b = d
    BY <1>1, <1>4, <2>1 DEF FanoutInv, FanoutOneBroadcast
  <2>2. ASSUME NEW b \in sending'
        PROVE  /\ \A c \in b.left : Home[c] = b.pod
               /\ b.own => b.pod = origin'[b.event] /\ fanoutStage'[b.event] = "handed over"
               /\ ~b.own => ~FanoutInChannel(b.pod, b.event)'
    <3>1. CASE b = new
      BY <1>4, <1>6, <3>1
    <3>2. CASE b \in sending
      <4>1. b.pod \in FanoutPod /\ b.event \in Event
        BY <3>2 DEF FanoutInv, FanoutTypeOK, FanoutBroadcasts
      <4> QED BY <1>1, <1>6, <3>2, <4>1 DEF FanoutInv, FanoutOneBroadcast
    <3> QED BY <1>1, <3>1, <3>2
  <2> QED BY <2>1, <2>2 DEF FanoutOneBroadcast
<1>9. FanoutOneMessage'
  <2>1. \A q \in FanoutPod : FanoutDistinct(channel'[q])
    BY <1>3, <1>5 DEF FanoutInv, FanoutOneMessage
  <2> QED BY <2>1 DEF FanoutOneMessage
<1>10. FanoutNewIsNowhere'
  BY <1>1, <1>3, <1>4, <1>6 DEF FanoutInv, FanoutNewIsNowhere
<1>11. ASSUME NEW c \in FanoutClient, NEW f \in Event
       PROVE  /\ FanoutViaPod(c, f)' = FanoutViaPod(c, f)
              /\ FanoutViaRedis(c, f)' => FanoutViaRedis(c, f)
              /\ c \in active /\ FanoutViaRedis(c, f) => FanoutViaRedis(c, f)'
  <2>1. Home[c] \in FanoutPod
    BY DEF FanoutHomesArePods
  <2>2. FanoutViaPod(c, f)' = FanoutViaPod(c, f)
    BY <1>1, <1>4 DEF FanoutViaPod
  <2>3. FanoutViaRedis(c, f)' => FanoutViaRedis(c, f)
    <3>1. ASSUME FanoutInChannel(Home[c], f)' PROVE FanoutInChannel(Home[c], f)
      BY <1>6, <2>1, <3>1
    <3>2. ASSUME NEW b \in sending', b.event = f, ~b.own, c \in b.left PROVE FanoutViaRedis(c, f)
      <4>1. CASE b = new
        BY <1>4, <1>6, <3>2, <4>1 DEF FanoutViaRedis
      <4>2. CASE b \in sending
        BY <3>2, <4>2 DEF FanoutViaRedis
      <4> QED BY <1>1, <4>1, <4>2
    <3> QED BY <3>1, <3>2 DEF FanoutViaRedis
  <2>4. ASSUME c \in active, FanoutViaRedis(c, f) PROVE FanoutViaRedis(c, f)'
    <3>1. CASE f = e /\ Home[c] = p
      <4>1. new \in sending' /\ c \in new.left /\ new.event = f /\ ~new.own
        BY <1>1, <1>4, <2>4, <3>1
      <4> QED BY <4>1 DEF FanoutViaRedis
    <3>2. CASE ~(f = e /\ Home[c] = p)
      <4>1. FanoutInChannel(Home[c], f) => FanoutInChannel(Home[c], f)'
        BY <1>6, <2>1, <3>2
      <4> QED BY <1>1, <2>4, <4>1 DEF FanoutViaRedis
    <3> QED BY <3>1, <3>2
  <2> QED BY <2>2, <2>3, <2>4
<1>12. FanoutCounted'
  BY <1>1, <1>11, FanoutNoMoreDue DEF FanoutInv
<1>13. FanoutOwed'
  <2>1. \A f \in Event : owed[f] \subseteq FanoutClient
    BY DEF FanoutInv, FanoutTypeOK
  <2> QED BY <1>1, <1>11, <2>1 DEF FanoutInv, FanoutOwed
<1> QED BY <1>7, <1>8, <1>9, <1>10, <1>12, <1>13 DEF FanoutInv

-----------------------------------------------------------------------------
(* A broadcast goes from client to client.                                   *)
LEMMA FanoutSendKeeps ==
  ASSUME FanoutHomesArePods, FanoutInv, NEW b \in sending, NEW c \in b.left, Fanout!Send(b, c) PROVE FanoutInv'
<1> DEFINE rest == [b EXCEPT !.left = @ \ {c}]
           e == b.event
<1>1. /\ sending' = (sending \ {b}) \cup {rest}
      /\ IF c \in broken THEN active' = active \ {c} /\ UNCHANGED fanoutSeen
         ELSE fanoutSeen' = [fanoutSeen EXCEPT ![c][e] = @ + 1] /\ UNCHANGED active
      /\ UNCHANGED <<broken, channel, listening, fanoutStage, origin, owed, doubted>>
  BY DEF Fanout!Send
<1>2. b \in FanoutBroadcasts /\ c \in FanoutClient /\ e \in Event /\ b.pod \in FanoutPod
  BY DEF FanoutInv, FanoutTypeOK, FanoutBroadcasts
<1>3. /\ rest \in FanoutBroadcasts /\ rest.event = e /\ rest.pod = b.pod /\ rest.own = b.own
      /\ rest.left = b.left \ {c}
  BY <1>2 DEF FanoutBroadcasts
<1> HIDE DEF rest, e
<1>4. /\ fanoutSeen' \in [FanoutClient -> [Event -> Nat]] /\ fanoutSeen'[c][e] \in {fanoutSeen[c][e], fanoutSeen[c][e] + 1}
      /\ \A d \in FanoutClient, f \in Event : d # c \/ f # e => fanoutSeen'[d][f] = fanoutSeen[d][f]
      /\ active' \subseteq active /\ active \ broken \subseteq active'
      /\ c \notin broken => fanoutSeen'[c][e] = fanoutSeen[c][e] + 1
      /\ c \in broken => fanoutSeen' = fanoutSeen
  <2>1. CASE c \in broken
    BY <1>1, <1>2, <2>1 DEF FanoutInv, FanoutTypeOK
  <2>2. CASE c \notin broken
    <3>1. fanoutSeen' = [fanoutSeen EXCEPT ![c] = [fanoutSeen[c] EXCEPT ![e] = fanoutSeen[c][e] + 1]] /\ active' = active
      BY <1>1, <2>2
    <3>2. fanoutSeen[c] \in [Event -> Nat]
      BY <1>2 DEF FanoutInv, FanoutTypeOK
    <3>3. /\ [fanoutSeen[c] EXCEPT ![e] = fanoutSeen[c][e] + 1] \in [Event -> Nat]
          /\ [fanoutSeen[c] EXCEPT ![e] = fanoutSeen[c][e] + 1][e] = fanoutSeen[c][e] + 1
          /\ \A f \in Event : f # e => [fanoutSeen[c] EXCEPT ![e] = fanoutSeen[c][e] + 1][f] = fanoutSeen[c][f]
      BY <1>2, <3>2
    <3>4. fanoutSeen' \in [FanoutClient -> [Event -> Nat]] /\ fanoutSeen'[c] = [fanoutSeen[c] EXCEPT ![e] = fanoutSeen[c][e] + 1]
          /\ \A d \in FanoutClient : d # c => fanoutSeen'[d] = fanoutSeen[d]
      BY <1>2, <3>1, <3>3 DEF FanoutInv, FanoutTypeOK
    <3> QED BY <1>2, <2>2, <3>1, <3>2, <3>3, <3>4
  <2> QED BY <2>1, <2>2
<1>5. FanoutTypeOK'
  BY <1>1, <1>3, <1>4 DEF FanoutInv, FanoutTypeOK
<1>6. \A p \in FanoutPod : \A f : FanoutInChannel(p, f)' = FanoutInChannel(p, f)
  BY <1>1 DEF FanoutInChannel
<1>7. \A d \in sending : d.event = e /\ d.pod = b.pod /\ d.own = b.own => d = b
  BY DEF FanoutInv, FanoutOneBroadcast, e
<1>8. FanoutOneBroadcast'
  <2>1. ASSUME NEW x \in sending', NEW y \in sending',
               x.event = y.event, x.pod = y.pod, x.own = y.own
        PROVE  x = y
    <3>1. CASE x = rest /\ y = rest
      BY <3>1
    <3>2. CASE x = rest /\ y # rest
      <4>1. y \in sending /\ y # b
        BY <1>1, <3>2
      <4> QED BY <1>3, <1>7, <2>1, <3>2, <4>1
    <3>3. CASE x # rest /\ y = rest
      <4>1. x \in sending /\ x # b
        BY <1>1, <3>3
      <4> QED BY <1>3, <1>7, <2>1, <3>3, <4>1
    <3>4. CASE x # rest /\ y # rest
      <4>1. x \in sending /\ y \in sending
        BY <1>1, <3>4
      <4> QED BY <2>1, <4>1 DEF FanoutInv, FanoutOneBroadcast
    <3> QED BY <3>1, <3>2, <3>3, <3>4
  <2>2. ASSUME NEW x \in sending'
        PROVE  /\ \A d \in x.left : Home[d] = x.pod
               /\ x.own => x.pod = origin'[x.event] /\ fanoutStage'[x.event] = "handed over"
               /\ ~x.own => ~FanoutInChannel(x.pod, x.event)'
    <3>1. CASE x = rest
      <4>1. /\ \A d \in b.left : Home[d] = b.pod
            /\ b.own => b.pod = origin[b.event] /\ fanoutStage[b.event] = "handed over"
            /\ ~b.own => ~FanoutInChannel(b.pod, b.event)
        BY DEF FanoutInv, FanoutOneBroadcast
      <4>2. UNCHANGED <<origin, fanoutStage>> /\ b.pod \in FanoutPod
        BY <1>1, <1>2 DEF FanoutInv, FanoutTypeOK, FanoutBroadcasts
      <4>3. x.event = b.event /\ x.pod = b.pod /\ x.own = b.own /\ x.left \subseteq b.left
        BY <1>3, <3>1 DEF e
      <4> QED BY <1>6, <4>1, <4>2, <4>3
    <3>2. CASE x # rest
      <4>1. x \in sending /\ x.pod \in FanoutPod
        BY <1>1, <3>2 DEF FanoutInv, FanoutTypeOK, FanoutBroadcasts
      <4> QED BY <1>1, <1>6, <4>1 DEF FanoutInv, FanoutOneBroadcast
    <3> QED BY <3>1, <3>2
  <2> QED BY <2>1, <2>2 DEF FanoutOneBroadcast
<1>9. FanoutOneMessage'
  BY <1>1 DEF FanoutInv, FanoutOneMessage
<1>10. fanoutStage[e] # "new"
  BY <1>2 DEF FanoutInv, FanoutNewIsNowhere, e
<1>11. FanoutNewIsNowhere'
  <2> SUFFICES ASSUME NEW f \in Event, fanoutStage[f] = "new"
               PROVE  /\ \A p \in FanoutPod : ~FanoutInChannel(p, f)'
                      /\ \A d \in sending' : d.event # f
                      /\ \A d \in FanoutClient : fanoutSeen'[d][f] = 0
                      /\ f \notin doubted /\ owed[f] = {}
    BY <1>1 DEF FanoutNewIsNowhere
  <2>1. f # e
    BY <1>10
  <2>2. /\ \A p \in FanoutPod : ~FanoutInChannel(p, f)
        /\ \A d \in sending : d.event # f
        /\ \A d \in FanoutClient : fanoutSeen[d][f] = 0
        /\ f \notin doubted /\ owed[f] = {}
    BY DEF FanoutInv, FanoutNewIsNowhere
  <2> QED BY <1>1, <1>3, <1>4, <1>6, <2>1, <2>2
<1>12. ASSUME NEW d \in FanoutClient, NEW f \in Event
       PROVE  /\ FanoutViaRedis(d, f)' => FanoutViaRedis(d, f)
              /\ FanoutViaPod(d, f)' => FanoutViaPod(d, f)
              /\ d # c \/ f # e => /\ FanoutViaRedis(d, f) => FanoutViaRedis(d, f)'
                                   /\ FanoutViaPod(d, f) => FanoutViaPod(d, f)'
  <2>1. Home[d] \in FanoutPod /\ FanoutInChannel(Home[d], f)' = FanoutInChannel(Home[d], f)
    BY <1>6 DEF FanoutHomesArePods
  <2>2. ASSUME NEW x \in sending', x.event = f, d \in x.left
        PROVE  \E y \in sending : y.event = f /\ y.own = x.own /\ d \in y.left
    BY <1>1, <1>3, <2>2 DEF e
  <2>3. ASSUME NEW x \in sending, x.event = f, d \in x.left, d # c \/ f # e
        PROVE  \E y \in sending' : y.event = f /\ y.own = x.own /\ d \in y.left
    <3>1. CASE x = b
      <4>1. f = e /\ d # c
        BY <2>3, <3>1 DEF e
      <4>2. rest \in sending' /\ rest.event = f /\ rest.own = x.own /\ d \in rest.left
        BY <1>1, <1>3, <2>3, <3>1, <4>1
      <4> QED BY <4>2
    <3>2. CASE x # b
      BY <1>1, <2>3, <3>2
    <3> QED BY <3>1, <3>2
  <2>4. (FanoutViaRedis(d, f)' => FanoutViaRedis(d, f)) /\ (FanoutViaPod(d, f)' => FanoutViaPod(d, f))
    BY <1>1, <2>1, <2>2 DEF FanoutViaRedis, FanoutViaPod
  <2>5. ASSUME d # c \/ f # e
        PROVE  (FanoutViaRedis(d, f) => FanoutViaRedis(d, f)') /\ (FanoutViaPod(d, f) => FanoutViaPod(d, f)')
    BY <1>1, <2>1, <2>3, <2>5 DEF FanoutViaRedis, FanoutViaPod
  <2> QED BY <2>4, <2>5
\* What came is no longer to come.
<1>13. FanoutDue(c, e)' + 1 <= FanoutDue(c, e)
  <2>1. Home[c] = b.pod
    BY DEF FanoutInv, FanoutOneBroadcast
  <2>2. ASSUME NEW x \in sending', x.event = e, x.own = b.own, c \in x.left PROVE FALSE
    <3>1. x # rest
      BY <1>3, <2>2
    <3>2. x \in sending /\ x # b
      BY <1>1, <3>1
    <3>3. x.pod = Home[c]
      BY <2>2, <3>2 DEF FanoutInv, FanoutOneBroadcast
    <3> QED BY <1>7, <2>1, <2>2, <3>2, <3>3
  <2>3. CASE b.own
    <3>1. FanoutViaPod(c, e)
      BY <2>3 DEF FanoutViaPod, e
    <3>2. fanoutStage'[e] = "handed over"
      BY <1>1, <2>3 DEF FanoutInv, FanoutOneBroadcast, e
    <3>3. ~FanoutViaPod(c, e)'
      BY <2>2, <2>3, <3>2 DEF FanoutViaPod
    <3> QED BY <1>2, <1>12, <3>1, <3>3 DEF FanoutDue
  <2>4. CASE ~b.own
    <3>1. FanoutViaRedis(c, e)
      BY <2>4 DEF FanoutViaRedis, e
    <3>2. ~FanoutInChannel(Home[c], e)'
      BY <1>2, <1>6, <2>1, <2>4 DEF FanoutInv, FanoutOneBroadcast, e
    <3>3. \A x \in sending' : x.event = e /\ c \in x.left => x.own
      <4> SUFFICES ASSUME NEW x \in sending', x.event = e, c \in x.left, ~x.own PROVE FALSE
        OBVIOUS
      <4>1. x.own \in BOOLEAN /\ b.own \in BOOLEAN
        BY <1>2, <1>5 DEF FanoutTypeOK, FanoutBroadcasts
      <4>2. x.own = b.own
        BY <2>4, <4>1
      <4> QED BY <2>2, <4>2
    <3>4. ~FanoutViaRedis(c, e)'
      BY <3>2, <3>3 DEF FanoutViaRedis
    <3> QED BY <1>2, <1>12, <3>1, <3>4 DEF FanoutDue
  <2> QED BY <2>3, <2>4
<1>14. FanoutCounted'
  <2> SUFFICES ASSUME NEW d \in FanoutClient, NEW f \in Event
               PROVE  fanoutSeen'[d][f] + FanoutDue(d, f)' <= FanoutMost(d, f)
    BY <1>1 DEF FanoutCounted, FanoutMost
  <2>1. /\ fanoutSeen[d][f] + FanoutDue(d, f) <= FanoutMost(d, f) /\ FanoutDue(d, f) \in 0..2 /\ FanoutDue(d, f)' \in 0..2
        /\ FanoutMost(d, f) \in 1..2 /\ fanoutSeen[d][f] \in Nat
    BY DEF FanoutInv, FanoutTypeOK, FanoutCounted, FanoutDue, FanoutMost
  <2>2. CASE d = c /\ f = e
    BY <1>4, <1>13, <2>1, <2>2
  <2>3. CASE ~(d = c /\ f = e)
    <3>1. fanoutSeen'[d][f] = fanoutSeen[d][f]
      BY <1>4, <2>3
    <3>2. FanoutDue(d, f)' <= FanoutDue(d, f)
      BY <1>12 DEF FanoutDue
    <3> QED BY <2>1, <3>1, <3>2
  <2> QED BY <2>2, <2>3
<1>15. FanoutOwed'
  <2> SUFFICES ASSUME NEW f \in Event, NEW d \in owed[f]
               PROVE  d \in active' \ broken /\ (fanoutSeen'[d][f] >= 1 \/ FanoutViaRedis(d, f)' \/ FanoutViaPod(d, f)')
    BY <1>1 DEF FanoutOwed
  <2>1. d \in FanoutClient /\ d \in active \ broken /\ (fanoutSeen[d][f] >= 1 \/ FanoutViaRedis(d, f) \/ FanoutViaPod(d, f))
    BY DEF FanoutInv, FanoutTypeOK, FanoutOwed
  <2>2. d \in active' \ broken
    BY <1>4, <2>1
  <2>3. CASE d = c /\ f = e
    <3>1. fanoutSeen[c][e] \in Nat /\ fanoutSeen'[c][e] = fanoutSeen[c][e] + 1
      BY <1>2, <1>4, <2>1, <2>3 DEF FanoutInv, FanoutTypeOK
    <3>2. fanoutSeen'[c][e] >= 1
      BY <3>1
    <3> QED BY <2>2, <2>3, <3>2
  <2>4. CASE ~(d = c /\ f = e)
    <3>1. fanoutSeen'[d][f] = fanoutSeen[d][f]
      BY <1>4, <2>1, <2>4
    <3> QED BY <1>12, <2>1, <2>2, <2>4, <3>1
  <2> QED BY <2>3, <2>4
<1> QED BY <1>5, <1>8, <1>9, <1>11, <1>14, <1>15 DEF FanoutInv

LEMMA FanoutSentKeeps == ASSUME FanoutHomesArePods, FanoutInv, NEW b \in sending, Fanout!Sent(b) PROVE FanoutInv'
<1>1. /\ b.left = {} /\ sending' = sending \ {b}
      /\ UNCHANGED <<active, broken, channel, listening, fanoutStage, origin, fanoutSeen, owed, doubted>>
  BY DEF Fanout!Sent
<1>2. FanoutTypeOK'
  BY <1>1 DEF FanoutInv, FanoutTypeOK
<1>3. \A p, f : FanoutInChannel(p, f)' = FanoutInChannel(p, f)
  BY <1>1 DEF FanoutInChannel
<1>4. \A d, f : FanoutViaRedis(d, f)' = FanoutViaRedis(d, f) /\ FanoutViaPod(d, f)' = FanoutViaPod(d, f)
  BY <1>1, <1>3 DEF FanoutViaRedis, FanoutViaPod
<1>5. FanoutOneBroadcast'
  BY <1>1, <1>3 DEF FanoutInv, FanoutOneBroadcast
<1>6. FanoutOneMessage' /\ FanoutNewIsNowhere'
  BY <1>1, <1>3 DEF FanoutInv, FanoutOneMessage, FanoutNewIsNowhere
<1>7. FanoutCounted'
  BY <1>1, <1>4, FanoutNoMoreDue DEF FanoutInv
<1>8. FanoutOwed'
  BY <1>1, <1>4 DEF FanoutInv, FanoutOwed
<1> QED BY <1>2, <1>5, <1>6, <1>7, <1>8 DEF FanoutInv

\* What a subscriber had not received is lost, and no longer owed.
LEMMA FanoutDropKeeps == ASSUME FanoutHomesArePods, FanoutInv, NEW p \in FanoutPod, Fanout!Drop(p) PROVE FanoutInv'
<1>1. /\ p \in listening /\ \A b \in sending : b.pod = p => b.own
      /\ listening' = listening \ {p} /\ channel' = [channel EXCEPT ![p] = <<>>]
      /\ owed' = [e \in Event |-> {c \in owed[e] : ~(FanoutInChannel(p, e) /\ Home[c] = p)}]
      /\ UNCHANGED <<active, broken, fanoutStage, origin, sending, fanoutSeen, doubted>>
  BY DEF Fanout!Drop, FanoutInChannel, FanoutHas
<1>2. /\ channel' \in [FanoutPod -> Seq(Event)] /\ channel'[p] = <<>>
      /\ \A q \in FanoutPod : q # p => channel'[q] = channel[q]
  BY <1>1 DEF FanoutInv, FanoutTypeOK
<1>3. FanoutTypeOK'
  BY <1>1, <1>2 DEF FanoutInv, FanoutTypeOK
<1>4. /\ \A f : ~FanoutInChannel(p, f)'
      /\ \A q \in FanoutPod : \A f : q # p => FanoutInChannel(q, f)' = FanoutInChannel(q, f)
  BY <1>2 DEF FanoutInChannel, FanoutHas
<1>5. \A q \in FanoutPod : \A f : FanoutInChannel(q, f)' => FanoutInChannel(q, f)
  BY <1>4
<1>6. FanoutOneBroadcast'
  <2>1. \A b \in sending : b.pod \in FanoutPod
    BY DEF FanoutInv, FanoutTypeOK, FanoutBroadcasts
  <2> QED BY <1>1, <1>5, <2>1 DEF FanoutInv, FanoutOneBroadcast
<1>7. FanoutOneMessage'
  <2>1. \A q \in FanoutPod : FanoutDistinct(channel'[q])
    BY <1>2 DEF FanoutInv, FanoutOneMessage, FanoutDistinct
  <2> QED BY <2>1 DEF FanoutOneMessage
<1>8. FanoutNewIsNowhere'
  BY <1>1, <1>5 DEF FanoutInv, FanoutNewIsNowhere
<1>9. ASSUME NEW c \in FanoutClient, NEW f \in Event
      PROVE  /\ FanoutViaPod(c, f)' = FanoutViaPod(c, f) /\ (FanoutViaRedis(c, f)' => FanoutViaRedis(c, f))
             /\ ~(FanoutInChannel(p, f) /\ Home[c] = p) /\ FanoutViaRedis(c, f) => FanoutViaRedis(c, f)'
  <2>1. Home[c] \in FanoutPod
    BY DEF FanoutHomesArePods
  <2> QED BY <1>1, <1>4, <1>5, <2>1 DEF FanoutViaRedis, FanoutViaPod
<1>10. FanoutCounted'
  BY <1>1, <1>9, FanoutNoMoreDue DEF FanoutInv
<1>11. FanoutOwed'
  <2>1. \A f \in Event : owed[f] \subseteq FanoutClient
    BY DEF FanoutInv, FanoutTypeOK
  <2> QED BY <1>1, <1>9, <2>1 DEF FanoutInv, FanoutOwed
<1> QED BY <1>3, <1>6, <1>7, <1>8, <1>10, <1>11 DEF FanoutInv

LEMMA FanoutStepKeeps == ASSUME FanoutHomesArePods, FanoutInv, [Fanout!Next]_(Fanout!liveVars) PROVE FanoutInv'
<1>1. CASE UNCHANGED Fanout!liveVars
  <2>1. /\ UNCHANGED <<active, broken, channel, listening, fanoutStage, origin, sending, fanoutSeen, owed,
                       doubted>>
        /\ FanoutTypeOK'
    BY <1>1 DEF Fanout!liveVars, FanoutInv, FanoutTypeOK
  <2>2. \A e \in Event : owed[e] \subseteq active \ broken
    BY DEF FanoutInv, FanoutOwed
  <2> QED BY <2>1, <2>2, FanoutSameEventsKeep
<1> QED BY <1>1, FanoutConnectKeeps, FanoutDisconnectKeeps, FanoutBreakKeeps, FanoutPublishKeeps,
           FanoutUnpublishedKeeps, FanoutSendOwnKeeps, FanoutReceiveKeeps, FanoutDropKeeps,
           FanoutResubscribeKeeps, FanoutSentKeeps, FanoutSendKeeps DEF Fanout!Next

-----------------------------------------------------------------------------
(* A client gets an event once, twice on its own pod when Redis took it       *)
(* although publishing raised, and in the end not never, if it stayed          *)
(* (fanout.py 6-9, live.py 61-83).                                           *)
THEOREM EventsReachAll == ASSUME FanoutHomesArePods PROVE Fanout!Spec => []Fanout!EventsReachClients
<1>1. Fanout!Init => FanoutInv
  BY FanoutInvInit
<1>2. FanoutInv /\ [Fanout!Next]_(Fanout!liveVars) => FanoutInv'
  BY FanoutStepKeeps
<1>3. FanoutInv => Fanout!EventsReachClients
  <2> SUFFICES ASSUME FanoutInv, NEW c \in FanoutClient, NEW e \in Event
               PROVE  /\ fanoutSeen[c][e] <= FanoutMost(c, e)
                      /\ Fanout!Settled(e) /\ c \in owed[e] => fanoutSeen[c][e] >= 1
    BY DEF Fanout!EventsReachClients, FanoutMost
  <2>1. /\ fanoutSeen[c][e] + FanoutDue(c, e) <= FanoutMost(c, e) /\ FanoutDue(c, e) \in 0..2
        /\ FanoutMost(c, e) \in 1..2 /\ fanoutSeen[c][e] \in Nat
    BY DEF FanoutInv, FanoutTypeOK, FanoutCounted, FanoutDue, FanoutMost
  <2>2. ASSUME Fanout!Settled(e), c \in owed[e] PROVE fanoutSeen[c][e] >= 1
    <3>1. Home[c] \in FanoutPod
      BY DEF FanoutHomesArePods
    <3>2. ~FanoutViaRedis(c, e) /\ ~FanoutViaPod(c, e)
      BY <2>2, <3>1 DEF Fanout!Settled, FanoutViaRedis, FanoutViaPod, FanoutInChannel, FanoutHas
    <3> QED BY <2>2, <3>2 DEF FanoutInv, FanoutOwed
  <2> QED BY <2>1, <2>2
<1> QED BY <1>1, <1>2, <1>3, PTL DEF Fanout!Spec

-----------------------------------------------------------------------------
(***************************************************************************)
(* The client's socket has a view, for any views, sockets and timers.  A      *)
(* handler does not know whether the socket it is about is still the module's *)
(* own, nor whether the timer it keeps is the only one: the invariant says    *)
(* when both hold.                                                           *)
(***************************************************************************)
WebClientNames == NoSocket \notin Socket

WebClientLives == {"free", "connecting", "open", "abandoned", "closing"}
WebClientTypeOK == /\ mounted \subseteq View /\ ws \in Socket \cup {NoSocket}
                   /\ life \in [Socket -> WebClientLives] /\ pending \subseteq Timer
                   /\ connected \in BOOLEAN /\ overwritten \in BOOLEAN

\* The socket in use is the module's, and the other way round.
WebClientInUse == {"connecting", "open", "closing"}
WebClientOneSocket == /\ \A s \in Socket : life[s] \in WebClientInUse => s = ws
                      /\ ws # NoSocket => life[ws] \in WebClientInUse

\* The timer that will fire is the one whose handle is kept.
WebClientOneTimer == ~overwritten => pending \subseteq {reconnectTimer}

WebClientInv == WebClientTypeOK /\ WebClientOneSocket /\ WebClientOneTimer /\ WebClient!SocketHasViewer

LEMMA WebClientInvInit == ASSUME WebClientNames, WebClient!Init PROVE WebClientInv
  BY DEF WebClient!Init, WebClientInv, WebClientTypeOK, WebClientLives, WebClientOneSocket,
     WebClientInUse, WebClientOneTimer, WebClient!SocketHasViewer

LEMMA WebClientConnectKeeps ==
  ASSUME WebClientNames, WebClientInv, WebClient!Connect, connected' = connected
  PROVE  /\ ws' \in Socket /\ life' \in [Socket -> WebClientLives] /\ WebClientOneSocket'
         /\ connected' => life'[ws'] \in {"open", "closing"}
<1>1. CASE ws # NoSocket
  BY <1>1 DEF WebClient!Connect, WebClientInv, WebClientTypeOK, WebClientOneSocket, WebClientInUse,
     WebClient!SocketHasViewer
<1>2. CASE ws = NoSocket
  BY <1>2 DEF WebClientNames, WebClient!Connect, WebClientInv, WebClientTypeOK, WebClientLives,
     WebClientOneSocket, WebClientInUse, WebClient!SocketHasViewer
<1> QED BY <1>1, <1>2

LEMMA WebClientMountKeeps ==
  ASSUME WebClientNames, WebClientInv, NEW v \in View, WebClient!Mount(v) PROVE WebClientInv'
<1>1. /\ mounted' = mounted \cup {v} /\ WebClient!Connect
      /\ UNCHANGED <<reconnectTimer, pending, connected, overwritten>>
  BY DEF WebClient!Mount
<1>2. /\ ws' \in Socket /\ life' \in [Socket -> WebClientLives] /\ WebClientOneSocket'
      /\ connected' => life'[ws'] \in {"open", "closing"}
  BY <1>1, WebClientConnectKeeps
<1> QED BY <1>1, <1>2 DEF WebClientNames, WebClientInv, WebClientTypeOK, WebClientOneTimer,
           WebClient!SocketHasViewer

LEMMA WebClientTimerKeeps ==
  ASSUME WebClientNames, WebClientInv, NEW t \in Timer, WebClient!OnTimer(t) PROVE WebClientInv'
<1>1. /\ t \in pending /\ pending' = pending \ {t} /\ WebClient!Connect
      /\ UNCHANGED <<mounted, reconnectTimer, connected, overwritten>>
  BY DEF WebClient!OnTimer
<1>2. /\ ws' \in Socket /\ life' \in [Socket -> WebClientLives] /\ WebClientOneSocket'
      /\ connected' => life'[ws'] \in {"open", "closing"}
  BY <1>1, WebClientConnectKeeps
<1> QED BY <1>1, <1>2 DEF WebClientNames, WebClientInv, WebClientTypeOK, WebClientOneTimer,
           WebClient!SocketHasViewer

LEMMA WebClientUnmountKeeps ==
  ASSUME WebClientNames, WebClientInv, NEW v \in View, WebClient!Unmount(v) PROVE WebClientInv'
<1>1. CASE mounted = {v}
  <2>1. /\ mounted' = {} /\ ws' = NoSocket /\ connected' = FALSE /\ overwritten' = overwritten
        /\ pending' = pending \ {reconnectTimer}
        /\ life' = IF ws = NoSocket THEN life
                   ELSE [life EXCEPT ![ws] = IF @ = "connecting" THEN "abandoned" ELSE "free"]
    BY <1>1 DEF WebClient!Unmount, WebClient!StopTimer
  <2>2. life' \in [Socket -> WebClientLives] /\ WebClientOneSocket'
    <3>1. CASE ws = NoSocket
      BY <2>1, <3>1 DEF WebClientNames, WebClientInv, WebClientTypeOK, WebClientLives,
         WebClientOneSocket, WebClientInUse
    <3>2. CASE ws # NoSocket
      <4>1. ws \in Socket
        BY <3>2 DEF WebClientInv, WebClientTypeOK
      <4>2. /\ life'[ws] \in {"abandoned", "free"} /\ life' \in [Socket -> WebClientLives]
            /\ \A s \in Socket : s # ws => life'[s] = life[s]
        BY <2>1, <3>2, <4>1 DEF WebClientInv, WebClientTypeOK, WebClientLives
      <4> QED BY <2>1, <4>1, <4>2 DEF WebClientNames, WebClientInv, WebClientOneSocket,
                 WebClientInUse
    <3> QED BY <3>1, <3>2
  <2>3. WebClientOneTimer' /\ WebClient!SocketHasViewer'
    BY <2>1 DEF WebClientInv, WebClientOneTimer, WebClient!SocketHasViewer
  <2> QED BY <2>1, <2>2, <2>3 DEF WebClientInv, WebClientTypeOK
<1>2. CASE mounted # {v}
  <2>1. /\ mounted' = mounted \ {v} /\ mounted' # {}
        /\ UNCHANGED <<ws, life, reconnectTimer, pending, connected, overwritten>>
    BY <1>2 DEF WebClient!Unmount
  <2> QED BY <2>1 DEF WebClientInv, WebClientTypeOK, WebClientOneSocket, WebClientOneTimer,
             WebClient!SocketHasViewer
<1> QED BY <1>1, <1>2

LEMMA WebClientOpenKeeps ==
  ASSUME WebClientNames, WebClientInv, NEW s \in Socket, WebClient!OnOpen(s) PROVE WebClientInv'
<1>1. s = ws /\ ws # NoSocket
  BY DEF WebClient!OnOpen, WebClientInv, WebClientOneSocket, WebClientInUse, WebClientNames
<1>2. /\ life' \in [Socket -> WebClientLives] /\ life'[s] = "open"
      /\ \A t \in Socket : t # s => life'[t] = life[t]
  BY DEF WebClient!OnOpen, WebClientInv, WebClientTypeOK, WebClientLives
<1> QED BY <1>1, <1>2 DEF WebClient!OnOpen, WebClientInv, WebClientTypeOK, WebClientOneSocket,
           WebClientInUse, WebClientOneTimer, WebClient!SocketHasViewer

LEMMA WebClientCloseKeeps ==
  ASSUME WebClientNames, WebClientInv, NEW s \in Socket, NEW code, WebClient!OnClose(s, code) PROVE WebClientInv'
<1>1. /\ s = ws /\ ws' = NoSocket /\ connected' = FALSE /\ mounted' = mounted
      /\ life' \in [Socket -> WebClientLives] /\ life'[s] = "free"
      /\ \A t \in Socket : t # s => life'[t] = life[t]
  BY DEF WebClient!OnClose, WebClientInv, WebClientTypeOK, WebClientLives
<1>2. WebClientOneSocket'
  BY <1>1 DEF WebClientNames, WebClientInv, WebClientOneSocket, WebClientInUse
<1>3. /\ pending' \subseteq Timer /\ overwritten' \in BOOLEAN /\ WebClientOneTimer'
      /\ ~overwritten' => ~overwritten
  <2>1. CASE UNCHANGED <<reconnectTimer, pending, reconnectDelay, overwritten>>
    BY <2>1 DEF WebClientInv, WebClientTypeOK, WebClientOneTimer
  <2>2. CASE WebClient!Schedule
    <3>1. PICK t \in Timer \ pending : reconnectTimer' = t /\ pending' = pending \cup {t}
      BY <2>2 DEF WebClient!Schedule
    <3>2. overwritten' = (overwritten \/ reconnectTimer \in pending)
      BY <2>2 DEF WebClient!Schedule
    <3>3. ASSUME ~overwritten' PROVE ~overwritten /\ pending' \subseteq {t}
      BY <3>1, <3>2, <3>3 DEF WebClientInv, WebClientOneTimer
    <3> QED BY <3>1, <3>2, <3>3 DEF WebClientInv, WebClientTypeOK, WebClientOneTimer
  <2> QED BY <2>1, <2>2 DEF WebClient!OnClose
<1>4. WebClient!SocketHasViewer'
  BY <1>1, <1>3 DEF WebClientNames, WebClientInv, WebClient!SocketHasViewer
<1> QED BY <1>1, <1>2, <1>3, <1>4 DEF WebClientInv, WebClientTypeOK

LEMMA WebClientStrayErrorKeeps ==
  ASSUME WebClientNames, WebClientInv, NEW s \in Socket, WebClient!OnStrayError(s) PROVE WebClientInv'
<1>1. /\ life[s] = "abandoned"
      /\ UNCHANGED <<mounted, ws, reconnectTimer, pending, connected, overwritten>>
      /\ life' = [t \in Socket |-> IF t = s THEN "free" ELSE IF t = ws THEN "closing" ELSE life[t]]
  BY DEF WebClient!OnStrayError
<1>2. life' \in [Socket -> WebClientLives]
  BY <1>1 DEF WebClientInv, WebClientTypeOK, WebClientLives
<1>3. s # ws
  BY <1>1 DEF WebClientNames, WebClientInv, WebClientOneSocket, WebClientInUse
<1> QED BY <1>1, <1>2, <1>3 DEF WebClientInv, WebClientTypeOK, WebClientOneSocket, WebClientInUse,
           WebClientOneTimer, WebClient!SocketHasViewer

LEMMA WebClientStepKeeps == ASSUME WebClientNames, WebClientInv, [WebClient!Next]_(WebClient!clientVars) PROVE WebClientInv'
<1>1. CASE UNCHANGED WebClient!clientVars
  BY <1>1 DEF WebClient!clientVars, WebClientInv, WebClientTypeOK, WebClientOneSocket,
     WebClientOneTimer, WebClient!SocketHasViewer
<1> QED BY <1>1, WebClientMountKeeps, WebClientUnmountKeeps, WebClientOpenKeeps,
           WebClientCloseKeeps, WebClientStrayErrorKeeps, WebClientTimerKeeps DEF WebClient!Next

-----------------------------------------------------------------------------
(* Without a view there is no socket, and none will be opened, unless the      *)
(* handle of a timer was overwritten (useWebSocket.ts 12-14, 62-85).          *)
THEOREM SocketIsWanted == ASSUME WebClientNames PROVE WebClient!Spec => []WebClient!SocketHasViewer
<1>1. WebClient!Init => WebClientInv
  BY WebClientInvInit
<1>2. WebClientInv /\ [WebClient!Next]_(WebClient!clientVars) => WebClientInv'
  BY WebClientStepKeeps
<1>3. WebClientInv => WebClient!SocketHasViewer
  BY DEF WebClientInv
<1> QED BY <1>1, <1>2, <1>3, PTL DEF WebClient!Spec

-----------------------------------------------------------------------------
(***************************************************************************)
(* What the registry keeps is of the latest answers, for any skills and caps. *)
(* The invariant says which answers are kept and in which order, and that an  *)
(* execution answers at most once: its statistics count distinct executions.  *)
(***************************************************************************)
SkillsCaps == MaxResults \in Nat /\ MaxHistory \in Nat

\* s is the last n of all the answers.
SkillsEnding(s, all, n) == /\ Len(s) <= Len(all) /\ Len(s) <= n
                           /\ Len(s) < n => Len(s) = Len(all)
                           /\ \A i \in 1..Len(s) : s[i] = all[Len(all) - Len(s) + i]
SkillsTells(s, n, all) == s \in Seq(Nat) /\ SkillsEnding(s, all, n)
SkillsIds == [i \in 1..Len(skillsHistory) |-> skillsHistory[i].id]

SkillsLine == [id : Nat, success : BOOLEAN]
SkillsTypeOK == /\ answered \in Seq(Nat) /\ started \in Nat
                /\ results \in Seq(Nat)
                /\ skillsHistory \in Seq(SkillsLine)
                /\ \A r \in skillsRunning : r.id \in Nat

\* An id is of one execution, which answers once.
SkillsOneAnswer ==
  /\ \A i, j \in 1..Len(answered) : answered[i] = answered[j] => i = j
  /\ \A i \in 1..Len(answered) : answered[i] <= started
  /\ \A r \in skillsRunning : r.id <= started /\ \A i \in 1..Len(answered) : answered[i] # r.id
  /\ \A r, q \in skillsRunning : r.id = q.id => r = q

SkillsInv == SkillsTypeOK /\ SkillsOneAnswer /\ SkillsTells(results, MaxResults, answered) /\ SkillsTells(SkillsIds, MaxHistory, answered)

\* What KeepNewest keeps.
\* The cardinality in SkillRegistry is the one of the theorems.
LEMMA SkillsCard ==
  \A S : Skills!Cardinality(S) = Cardinality(S) /\ (Skills!IsFiniteSet(S) <=> IsFiniteSet(S))
  BY DEF Skills!Cardinality, Cardinality, Skills!IsFiniteSet, IsFiniteSet

LEMMA SkillsNewestOf ==
  ASSUME NEW S, NEW s \in Seq(S), NEW n \in Nat, NEW k, k = Skills!KeepNewest(s, n)
  PROVE  k \in Seq(S) /\ SkillsEnding(k, s, n)
<1>1. CASE Len(s) <= n
  BY <1>1 DEF Skills!KeepNewest, SkillsEnding
<1>2. CASE Len(s) > n
  <2>1. Len(s) \in Nat /\ k = SubSeq(s, Len(s) - n + 1, Len(s))
    BY <1>2 DEF Skills!KeepNewest
  <2>2. k \in Seq(S) /\ Len(k) = n /\ \A i \in 1..n : k[i] = s[Len(s) - n + i]
    BY <1>2, <2>1
  <2> QED BY <1>2, <2>1, <2>2 DEF SkillsEnding
<1> QED BY <1>1, <1>2

\* One more answer, and the last n of what was kept and it.
LEMMA SkillsNewestTells ==
  ASSUME NEW all \in Seq(Nat), NEW x \in Nat, NEW n \in Nat, NEW s, SkillsTells(s, n, all),
         NEW t, t = Skills!KeepNewest(Append(s, x), n)
  PROVE  SkillsTells(t, n, Append(all, x))
<1> DEFINE a == Append(s, x)
           more == Append(all, x)
<1>1. a \in Seq(Nat) /\ Len(a) = Len(s) + 1 /\ Len(s) \in Nat /\ Len(all) \in Nat
  BY DEF SkillsTells, SkillsEnding
<1>2. /\ more \in Seq(Nat) /\ Len(more) = Len(all) + 1
      /\ \A i \in 1..Len(all) : more[i] = all[i]
      /\ more[Len(all) + 1] = x
  OBVIOUS
<1>3. \A i \in 1..Len(a) : a[i] = more[Len(more) - Len(a) + i]
  <2> SUFFICES ASSUME NEW i \in 1..Len(a) PROVE a[i] = more[Len(more) - Len(a) + i]
    OBVIOUS
  <2>1. CASE i = Len(s) + 1
    <3>1. a[i] = x /\ Len(more) - Len(a) + i = Len(all) + 1
      BY <1>1, <1>2, <2>1 DEF SkillsTells, SkillsEnding
    <3> QED BY <1>1, <1>2, <3>1
  <2>2. CASE i # Len(s) + 1
    <3>1. i \in 1..Len(s) /\ a[i] = s[i]
      BY <1>1, <2>2 DEF SkillsTells, SkillsEnding
    <3>2. s[i] = all[Len(all) - Len(s) + i] /\ Len(all) - Len(s) + i \in 1..Len(all)
      BY <1>1, <3>1 DEF SkillsTells, SkillsEnding
    <3>3. Len(all) + 1 - (Len(s) + 1) + i = Len(all) - Len(s) + i
      BY <1>1
    <3> QED BY <1>1, <1>2, <3>1, <3>2, <3>3
  <2> QED BY <2>1, <2>2
<1>9. t = Skills!KeepNewest(a, n)
  OBVIOUS
<1> HIDE DEF a, more
<1>4. /\ t \in Seq(Nat) /\ Len(t) <= Len(a) /\ Len(t) <= n
      /\ Len(t) < n => Len(t) = Len(a)
      /\ \A i \in 1..Len(t) : t[i] = a[Len(a) - Len(t) + i]
  <2>1. a \in Seq(Nat)
    BY <1>1
  <2>2. t \in Seq(Nat) /\ SkillsEnding(t, a, n)
    BY <1>9, <2>1, SkillsNewestOf
  <2> QED BY <2>2 DEF SkillsEnding
<1>5. Len(t) \in Nat /\ Len(a) <= Len(more)
  BY <1>1, <1>2 DEF SkillsTells, SkillsEnding
<1>6. ASSUME NEW i \in 1..Len(t) PROVE t[i] = more[Len(more) - Len(t) + i]
  <2>1. Len(a) - Len(t) + i \in 1..Len(a)
    BY <1>1, <1>4, <1>5
  <2>2. t[i] = more[Len(more) - Len(a) + (Len(a) - Len(t) + i)]
    BY <1>3, <1>4, <2>1
  <2>3. Len(more) - Len(a) + (Len(a) - Len(t) + i) = Len(more) - Len(t) + i
    BY <1>1, <1>2, <1>5
  <2> QED BY <2>2, <2>3
<1>7. Len(t) < n => Len(t) = Len(more)
  <2> SUFFICES ASSUME Len(t) < n PROVE Len(t) = Len(more)
    OBVIOUS
  <2>1. Len(t) = Len(a) /\ Len(a) = Len(s) + 1
    BY <1>1, <1>4
  <2>2. Len(s) < n
    BY <1>1, <2>1
  <2>3. Len(s) = Len(all)
    BY <1>1, <2>2 DEF SkillsTells, SkillsEnding
  <2> QED BY <1>2, <2>1, <2>3
<1>8. SkillsTells(t, n, more)
  BY <1>1, <1>2, <1>4, <1>5, <1>6, <1>7 DEF SkillsTells, SkillsEnding
<1> QED BY <1>8 DEF more

LEMMA SkillsIdsOf ==
  ASSUME SkillsTypeOK
  PROVE  /\ SkillsIds \in Seq(Nat) /\ Len(SkillsIds) = Len(skillsHistory)
         /\ \A i \in 1..Len(skillsHistory) : SkillsIds[i] = skillsHistory[i].id
<1>3. Len(skillsHistory) \in Nat /\ \A i \in 1..Len(skillsHistory) : skillsHistory[i] \in SkillsLine
  BY DEF SkillsTypeOK
<1>1. Len(skillsHistory) \in Nat /\ \A i \in 1..Len(skillsHistory) : skillsHistory[i].id \in Nat
  BY <1>3 DEF SkillsLine
<1>2. SkillsIds \in [1..Len(skillsHistory) -> Nat] /\ \A i \in 1..Len(skillsHistory) : SkillsIds[i] = skillsHistory[i].id
  BY <1>1 DEF SkillsIds
<1> HIDE DEF SkillsIds
<1> QED BY <1>1, <1>2

LEMMA SkillsInvInit == ASSUME SkillsCaps, Skills!Init PROVE SkillsInv
<1>1. SkillsIds = << >>
  BY DEF Skills!Init, SkillsIds
<1> QED BY <1>1 DEF SkillsCaps, Skills!Init, SkillsInv, SkillsTypeOK, SkillsOneAnswer, SkillsTells,
           SkillsEnding

LEMMA SkillsExecuteKeeps == ASSUME SkillsInv, NEW s \in Skill, Skills!Execute(s) PROVE SkillsInv'
<1> DEFINE new == [id |-> started + 1, skill |-> s, timeout |-> config[s].timeout,
                   left |-> config[s].timeout]
<1>1. /\ started' = started + 1 /\ skillsRunning' = skillsRunning \cup {new}
      /\ UNCHANGED <<results, skillsHistory, answered>>
  BY DEF Skills!Execute
<1>2. new.id = started + 1
  OBVIOUS
<1> HIDE DEF new
<1>3. SkillsTypeOK'
  BY <1>1, <1>2 DEF SkillsInv, SkillsTypeOK
<1>4. started \in Nat /\ \A i \in 1..Len(answered) : answered[i] \in Nat
  BY DEF SkillsInv, SkillsTypeOK
<1>5. SkillsOneAnswer'
  BY <1>1, <1>2, <1>4 DEF SkillsInv, SkillsTypeOK, SkillsOneAnswer
<1> QED BY <1>1, <1>3, <1>5 DEF SkillsInv, SkillsTells, SkillsIds

LEMMA SkillsCompleteKeeps == ASSUME SkillsCaps, SkillsInv, NEW r \in skillsRunning, Skills!Complete(r) PROVE SkillsInv'
<1>1. PICK success \in BOOLEAN :
        skillsHistory' = Skills!KeepNewest(Append(skillsHistory, [id |-> r.id, success |-> success]), MaxHistory)
  BY DEF Skills!Complete
<1> DEFINE line == [id |-> r.id, success |-> success]
           long == Append(skillsHistory, line)
<1>2. /\ skillsRunning' = skillsRunning \ {r} /\ answered' = Append(answered, r.id) /\ started' = started
      /\ results' = Skills!KeepNewest(Append(results, r.id), MaxResults)
  BY DEF Skills!Complete
<1>3. r.id \in Nat /\ line \in SkillsLine /\ line.id = r.id
  BY DEF SkillsInv, SkillsTypeOK, SkillsLine
<1>13. Append(results, r.id) \in Seq(Nat)
  BY <1>3 DEF SkillsInv, SkillsTypeOK
<1>4. results' \in Seq(Nat)
  BY <1>2, <1>13, SkillsNewestOf DEF SkillsCaps, SkillsEnding
<1>5. /\ long \in Seq(SkillsLine) /\ Len(long) = Len(skillsHistory) + 1
      /\ Len(skillsHistory) \in Nat
      /\ \A i \in 1..Len(skillsHistory) : long[i] = skillsHistory[i]
      /\ long[Len(skillsHistory) + 1] = line
  BY <1>3 DEF SkillsInv, SkillsTypeOK
<1> HIDE DEF line, long
<1>12. skillsHistory' = Skills!KeepNewest(long, MaxHistory)
  BY <1>1 DEF long, line
<1>6. /\ skillsHistory' \in Seq(SkillsLine)
      /\ Len(skillsHistory') <= Len(long) /\ Len(skillsHistory') <= MaxHistory
      /\ Len(skillsHistory') < MaxHistory => Len(skillsHistory') = Len(long)
      /\ \A i \in 1..Len(skillsHistory') : skillsHistory'[i] = long[Len(long) - Len(skillsHistory') + i]
  <2>1. long \in Seq(SkillsLine)
    BY <1>5
  <2>2. skillsHistory' \in Seq(SkillsLine) /\ SkillsEnding(skillsHistory', long, MaxHistory)
    BY <1>12, <2>1, SkillsNewestOf DEF SkillsCaps
  <2> QED BY <2>2 DEF SkillsEnding
<1>7. /\ answered' \in Seq(Nat) /\ Len(answered') = Len(answered) + 1 /\ Len(answered) \in Nat
      /\ \A i \in 1..Len(answered) : answered'[i] = answered[i]
      /\ answered'[Len(answered) + 1] = r.id
  BY <1>2, <1>3 DEF SkillsInv, SkillsTypeOK
<1>8. SkillsTypeOK'
  BY <1>2, <1>4, <1>6, <1>7 DEF SkillsInv, SkillsTypeOK
<1>9. SkillsOneAnswer'
  <2>1. \A i \in 1..Len(answered') : i \in 1..Len(answered) \/ i = Len(answered) + 1
    BY <1>7
  <2>2. \A i \in 1..Len(answered) : answered[i] # r.id
    BY DEF SkillsInv, SkillsOneAnswer
  <2>3. ASSUME NEW i \in 1..Len(answered'), NEW j \in 1..Len(answered'), answered'[i] = answered'[j]
        PROVE  i = j
    BY <1>7, <2>1, <2>2, <2>3 DEF SkillsInv, SkillsOneAnswer
  <2>4. ASSUME NEW i \in 1..Len(answered')
        PROVE  answered'[i] <= started' /\ \A q \in skillsRunning' : answered'[i] # q.id
    BY <1>2, <1>7, <2>1 DEF SkillsInv, SkillsOneAnswer
  <2>5. \A q \in skillsRunning' : q.id <= started' /\ \A p \in skillsRunning' : q.id = p.id => q = p
    BY <1>2 DEF SkillsInv, SkillsOneAnswer
  <2> QED BY <2>3, <2>4, <2>5 DEF SkillsOneAnswer
<1>10. SkillsTells(results, MaxResults, answered)'
  BY <1>2, <1>3, SkillsNewestTells DEF SkillsInv, SkillsTypeOK, SkillsCaps
<1>11. SkillsTells(SkillsIds, MaxHistory, answered)'
  <2> DEFINE ids == [i \in 1..Len(skillsHistory') |-> skillsHistory'[i].id]
             more == Append(SkillsIds, r.id)
             t == Skills!KeepNewest(more, MaxHistory)
  <2>1. SkillsIds \in Seq(Nat) /\ Len(SkillsIds) = Len(skillsHistory) /\ \A i \in 1..Len(skillsHistory) : SkillsIds[i] = skillsHistory[i].id
    BY SkillsIdsOf DEF SkillsInv
  <2>2. /\ more \in Seq(Nat) /\ Len(more) = Len(long)
        /\ \A i \in 1..Len(long) : more[i] = long[i].id
    <3>1. /\ more \in Seq(Nat) /\ Len(more) = Len(skillsHistory) + 1
          /\ \A i \in 1..Len(skillsHistory) : more[i] = SkillsIds[i]
          /\ more[Len(skillsHistory) + 1] = r.id
      BY <1>3, <1>5, <2>1
    <3>2. ASSUME NEW i \in 1..Len(long) PROVE more[i] = long[i].id
      <4>1. CASE i = Len(skillsHistory) + 1
        <5>1. long[i] = line /\ more[i] = r.id
          BY <1>5, <3>1, <4>1, Zenon
        <5> QED BY <1>3, <5>1
      <4>2. CASE i # Len(skillsHistory) + 1
        BY <1>5, <2>1, <3>1, <4>2
      <4> QED BY <4>1, <4>2
    <3> QED BY <1>5, <3>1, <3>2
  <2>11. t = Skills!KeepNewest(more, MaxHistory)
    OBVIOUS
  <2> HIDE DEF t, more
  <2>3. /\ t \in Seq(Nat) /\ Len(t) <= Len(long) /\ Len(t) <= MaxHistory
        /\ Len(t) < MaxHistory => Len(t) = Len(long)
        /\ \A i \in 1..Len(t) : t[i] = more[Len(long) - Len(t) + i]
    <3>1. more \in Seq(Nat)
      BY <2>2
    <3>2. t \in Seq(Nat) /\ SkillsEnding(t, more, MaxHistory)
      BY <2>11, <3>1, SkillsNewestOf DEF SkillsCaps
    <3> QED BY <2>2, <3>2 DEF SkillsEnding
  <2>4. Len(t) \in Nat /\ Len(skillsHistory') \in Nat /\ Len(long) \in Nat
    BY <1>5, <1>6, <2>3
  <2>5. Len(t) = Len(skillsHistory')
    BY <1>6, <2>3, <2>4 DEF SkillsCaps
  <2>6. ASSUME NEW i \in 1..Len(t) PROVE t[i] = skillsHistory'[i].id
    <3>1. Len(long) - Len(t) + i \in 1..Len(long)
      BY <2>3, <2>4
    <3> QED BY <1>6, <2>2, <2>3, <2>5, <3>1
  <2>7. t = ids
    <3>1. t = [i \in 1..Len(t) |-> t[i]]
      BY <2>3
    <3> QED BY <2>5, <2>6, <3>1
  <2>8. SkillsIds' = t
    BY <2>7 DEF SkillsIds
  <2>9. SkillsTells(SkillsIds, MaxHistory, answered)
    BY DEF SkillsInv
  <2>10. SkillsTells(t, MaxHistory, Append(answered, r.id))
    BY <1>3, <2>9, SkillsNewestTells DEF SkillsInv, SkillsTypeOK, SkillsCaps, t, more
  <2> QED BY <1>2, <2>8, <2>10
<1> QED BY <1>8, <1>9, <1>10, <1>11 DEF SkillsInv

LEMMA SkillsOthersKeep ==
  ASSUME SkillsInv, UNCHANGED <<results, skillsHistory, answered, started>>,
         \/ \E r \in skillsRunning : skillsRunning' = skillsRunning \ {r}
         \/ skillsRunning' = skillsRunning
         \/ skillsRunning' = {[r EXCEPT !.left = @ - 1] : r \in skillsRunning}
  PROVE  SkillsInv'
<1>1. SkillsTells(results, MaxResults, answered)' /\ SkillsTells(SkillsIds, MaxHistory, answered)'
  BY DEF SkillsInv, SkillsTells, SkillsIds
<1>2. CASE skillsRunning' = skillsRunning \/ \E r \in skillsRunning : skillsRunning' = skillsRunning \ {r}
  BY <1>1, <1>2 DEF SkillsInv, SkillsTypeOK, SkillsOneAnswer
<1>3. CASE skillsRunning' = {[r EXCEPT !.left = @ - 1] : r \in skillsRunning}
  <2>1. \A q \in skillsRunning' : \E r \in skillsRunning : q = [r EXCEPT !.left = @ - 1]
    BY <1>3
  <2>2. \A q \in skillsRunning' : \E r \in skillsRunning : q = [r EXCEPT !.left = @ - 1] /\ q.id = r.id
    <3> SUFFICES ASSUME NEW q \in skillsRunning'
                 PROVE  \E r \in skillsRunning : q = [r EXCEPT !.left = @ - 1] /\ q.id = r.id
      OBVIOUS
    <3>1. PICK r \in skillsRunning : q = [r EXCEPT !.left = @ - 1]
      BY <2>1
    <3>2. [r EXCEPT !.left = @ - 1].id = r.id
      OBVIOUS
    <3>3. q.id = r.id
      BY <3>1, <3>2
    <3> QED BY <3>1, <3>3
  <2>3. SkillsTypeOK'
    BY <2>2 DEF SkillsInv, SkillsTypeOK
  <2>4. \A r \in skillsRunning' : r.id <= started' /\ \A i \in 1..Len(answered') : answered'[i] # r.id
    BY <2>2 DEF SkillsInv, SkillsOneAnswer
  <2>5. \A r, q \in skillsRunning' : r.id = q.id => r = q
    BY <2>2 DEF SkillsInv, SkillsOneAnswer
  <2> QED BY <1>1, <2>3, <2>4, <2>5 DEF SkillsInv, SkillsOneAnswer
<1> QED BY <1>2, <1>3

LEMMA SkillsInvNext == SkillsCaps /\ SkillsInv /\ [Skills!Next]_(Skills!skillVars) => SkillsInv'
<1> SUFFICES ASSUME SkillsCaps, SkillsInv, [Skills!Next]_(Skills!skillVars) PROVE SkillsInv'
  OBVIOUS
<1>1. CASE UNCHANGED Skills!skillVars
  BY <1>1, SkillsOthersKeep DEF Skills!skillVars
<1>2. ASSUME NEW s \in Skill, Skills!Execute(s) \/ Skills!UpdateSkillConfig(s) \/ Skills!Unregister(s) PROVE SkillsInv'
  BY <1>2, SkillsExecuteKeeps, SkillsOthersKeep DEF Skills!UpdateSkillConfig, Skills!Unregister
<1>3. ASSUME NEW r \in skillsRunning, Skills!Complete(r) \/ Skills!Fail(r) PROVE SkillsInv'
  BY <1>3, SkillsCompleteKeeps, SkillsOthersKeep DEF Skills!Fail
<1>4. CASE Skills!Tick
  BY <1>4, SkillsOthersKeep DEF Skills!Tick
<1> QED BY <1>1, <1>2, <1>3, <1>4 DEF Skills!Next

\* The last n answers, told by a sequence, are its elements.
LEMMA SkillsTellsNewest ==
  ASSUME SkillsInv, NEW n \in Nat, NEW s, SkillsTells(s, n, answered)
  PROVE  {s[i] : i \in 1..Len(s)}
           = {answered[i] : i \in {j \in DOMAIN answered : Len(answered) - j < n}}
<1> DEFINE new == {j \in DOMAIN answered : Len(answered) - j < n}
           shift == Len(answered) - Len(s)
<1>1. /\ Len(answered) \in Nat /\ Len(s) \in Nat /\ DOMAIN answered = 1..Len(answered)
      /\ Len(s) <= Len(answered) /\ Len(s) <= n
      /\ Len(s) < n => Len(s) = Len(answered)
      /\ \A i \in 1..Len(s) : s[i] = answered[shift + i]
  BY DEF SkillsInv, SkillsTypeOK, SkillsTells, SkillsEnding
<1>2. ASSUME NEW i \in 1..Len(s) PROVE s[i] \in {answered[j] : j \in new}
  <2>1. shift + i \in 1..Len(answered) /\ Len(answered) - (shift + i) < n
    <3>1. i \in 1..Len(s) /\ Len(answered) - Len(s) \in Nat
      BY <1>1
    <3>2. Len(answered) - Len(s) + i \in 1..Len(answered)
      BY <1>1, <3>1
    <3>3. Len(answered) - (Len(answered) - Len(s) + i) = Len(s) - i /\ Len(s) - i < n
      BY <1>1, <3>1
    <3> QED BY <3>2, <3>3
  <2> QED BY <1>1, <2>1
<1>3. ASSUME NEW j \in new PROVE \E i \in 1..Len(s) : answered[j] = s[i]
  <2> DEFINE i == j - shift
  <2>1. j \in 1..Len(answered) /\ Len(answered) - j < n
    BY <1>1
  <2>2. Len(s) = Len(answered) \/ ~(Len(s) < n)
    BY <1>1
  <2>3. i \in 1..Len(s)
    BY <1>1, <2>1, <2>2
  <2>4. shift + i = j
    BY <1>1, <2>1
  <2> HIDE DEF i, shift
  <2>5. s[i] = answered[shift + i]
    BY <1>1, <2>3
  <2> QED BY <2>3, <2>4, <2>5
<1> QED BY <1>2, <1>3

LEMMA SkillsIdsAreDistinct ==
  ASSUME SkillsInv PROVE \A i, j \in 1..Len(skillsHistory) : SkillsIds[i] = SkillsIds[j] => i = j
<1> SUFFICES ASSUME NEW i \in 1..Len(skillsHistory), NEW j \in 1..Len(skillsHistory), SkillsIds[i] = SkillsIds[j] PROVE i = j
  OBVIOUS
<1> DEFINE shift == Len(answered) - Len(SkillsIds)
<1>1. Len(SkillsIds) = Len(skillsHistory) /\ Len(skillsHistory) \in Nat /\ Len(answered) \in Nat
  BY SkillsIdsOf DEF SkillsInv, SkillsTypeOK
<1>2. Len(SkillsIds) <= Len(answered) /\ \A k \in 1..Len(SkillsIds) : SkillsIds[k] = answered[shift + k]
  BY DEF SkillsInv, SkillsTells, SkillsEnding
<1>3. shift + i \in 1..Len(answered) /\ shift + j \in 1..Len(answered) /\ shift \in Nat
  BY <1>1, <1>2
<1>4. answered[shift + i] = answered[shift + j]
  BY <1>1, <1>2
<1>5. shift + i = shift + j
  BY <1>3, <1>4 DEF SkillsInv, SkillsOneAnswer
<1> QED BY <1>3, <1>5

LEMMA SkillsInvKept == ASSUME SkillsCaps, SkillsInv PROVE Skills!LatestResultsKept
<1> DEFINE newest(n) == {answered[i] : i \in {j \in DOMAIN answered : Len(answered) - j < n}}
<1>1. Skills!Range(results) = newest(MaxResults)
  <2>1. Skills!Range(results) = {results[i] : i \in 1..Len(results)}
    <3>1. DOMAIN results = 1..Len(results)
      BY DEF SkillsInv, SkillsTypeOK
    <3> QED BY <3>1 DEF Skills!Range
  <2> QED BY <2>1, SkillsTellsNewest DEF SkillsInv, SkillsCaps
<1>2. /\ SkillsIds \in Seq(Nat) /\ Len(SkillsIds) = Len(skillsHistory) /\ Len(skillsHistory) \in Nat
      /\ DOMAIN skillsHistory = 1..Len(skillsHistory) /\ \A i \in 1..Len(skillsHistory) : SkillsIds[i] = skillsHistory[i].id
  BY SkillsIdsOf DEF SkillsInv, SkillsTypeOK
<1>3. {SkillsIds[i] : i \in 1..Len(SkillsIds)} = newest(MaxHistory)
  BY SkillsTellsNewest DEF SkillsInv, SkillsCaps
<1>4. {skillsHistory[i].id : i \in DOMAIN skillsHistory} = newest(MaxHistory)
  BY <1>2, <1>3
<1>5. Cardinality(newest(MaxHistory)) = Len(skillsHistory)
  <2> DEFINE T == {SkillsIds[i] : i \in 1..Len(SkillsIds)}
  <2>1. SkillsIds \in Bijection(1..Len(skillsHistory), T)
    <3>1. SkillsIds \in [1..Len(skillsHistory) -> T]
      BY <1>2
    <3> QED BY <1>2, <3>1, SkillsIdsAreDistinct DEF Bijection, Injection, Surjection, IsInjective
  <2>2. ExistsBijection(1..Len(skillsHistory), T)
    BY <2>1 DEF ExistsBijection
  <2>3. Cardinality(T) = Len(skillsHistory)
    BY <1>2, <2>2, FS_CountingElements
  <2> QED BY <1>3, <2>3
<1>6. Skills!Statistics.total = Len(skillsHistory)
  BY DEF Skills!Statistics
<1> QED BY <1>1, <1>4, <1>5, <1>6, SkillsCard DEF Skills!LatestResultsKept

(* Whatever finishes in whatever order, the registry keeps the results of the *)
(* latest answers, and its statistics count the latest answers and nothing    *)
(* else.                                                                     *)
THEOREM LatestAreKept == ASSUME SkillsCaps PROVE Skills!Spec => []Skills!LatestResultsKept
<1>1. Skills!Init => SkillsInv
  BY SkillsInvInit
<1>2. SkillsInv /\ [Skills!Next]_(Skills!skillVars) => SkillsInv'
  BY SkillsInvNext
<1>3. SkillsInv => Skills!LatestResultsKept
  BY SkillsInvKept
<1> QED BY <1>1, <1>2, <1>3, PTL DEF Skills!Spec

-----------------------------------------------------------------------------
(***************************************************************************)
(* What is decided is kept, and what is learned of it moves a confidence the  *)
(* right way, for any action types and thresholds.  The file equals the       *)
(* memory whenever it is not being written and no rewrite has been lost.      *)
(***************************************************************************)
FeedbackNumbers == FeedbackWindow \in Nat

FeedbackNoted == [type : Type, kind : Feedback!Kind, age : 0..FeedbackWindow]
FeedbackTypeOK == /\ feedback \in Seq(FeedbackNoted) /\ recorded \in Seq(FeedbackNoted)
                  /\ feedbackFile = Feedback!Torn \/ feedbackFile \in Seq(FeedbackNoted)

\* What is in memory is what was recorded, and the file follows it.
FeedbackKept == ~feedbackLossy => feedback = recorded /\ (~writing => feedbackFile = feedback)
FeedbackInv == FeedbackTypeOK /\ FeedbackKept

\* The cardinality in FeedbackLearning is the one of the theorems.
LEMMA FeedbackCard ==
  \A S : Feedback!Cardinality(S) = Cardinality(S) /\ (Feedback!IsFiniteSet(S) <=> IsFiniteSet(S))
  BY DEF Feedback!Cardinality, Cardinality, Feedback!IsFiniteSet, IsFiniteSet

LEMMA FeedbackTornIsNone == Feedback!Torn \notin Seq(FeedbackNoted)
<1> SUFFICES ASSUME Feedback!Torn \in Seq(FeedbackNoted) PROVE FALSE
  OBVIOUS
<1>1. Feedback!Torn[1] \in FeedbackNoted
  BY DEF Feedback!Torn
<1>2. Feedback!Torn[1].kind = "torn" /\ "torn" \notin Feedback!Kind
  BY DEF Feedback!Torn, Feedback!Kind
<1> QED BY <1>1, <1>2 DEF FeedbackNoted

\* The smaller and the larger of two numbers.
LEMMA FeedbackMinMax ==
  ASSUME NEW a \in Int, NEW b \in Int
  PROVE  /\ Feedback!Min({a, b}) = IF a <= b THEN a ELSE b
         /\ Feedback!Max({a, b}) = IF a <= b THEN b ELSE a
  BY DEF Feedback!Min, Feedback!Max

LEMMA FeedbackAgedEvents ==
  ASSUME FeedbackNumbers, NEW s \in Seq(FeedbackNoted) PROVE Feedback!Aged(s) \in Seq(FeedbackNoted)
<1>1. ASSUME NEW i \in 1..Len(s) PROVE [s[i] EXCEPT !.age = Feedback!Min({@ + 1, FeedbackWindow})] \in FeedbackNoted
  <2>3. s[i] \in FeedbackNoted
    OBVIOUS
  <2>1. s[i] \in FeedbackNoted /\ s[i].age \in 0..FeedbackWindow
    BY <2>3 DEF FeedbackNoted
  <2>2. Feedback!Min({s[i].age + 1, FeedbackWindow}) \in 0..FeedbackWindow
    BY <2>1, FeedbackMinMax DEF FeedbackNumbers
  <2> QED BY <2>1, <2>2 DEF FeedbackNoted
<1>2. DOMAIN s = 1..Len(s) /\ Len(s) \in Nat
  OBVIOUS
<1>3. Feedback!Aged(s) \in [1..Len(s) -> FeedbackNoted]
  BY <1>1, <1>2 DEF Feedback!Aged
<1> QED BY <1>2, <1>3

LEMMA FeedbackInvInit == ASSUME Feedback!Init PROVE FeedbackInv
<1>1. feedback = << >> /\ feedbackFile = << >> /\ recorded = << >>
  BY DEF Feedback!Init
<1>2. FeedbackTypeOK
  BY <1>1 DEF FeedbackTypeOK
<1>3. FeedbackKept
  BY <1>1 DEF FeedbackKept
<1> QED BY <1>2, <1>3 DEF FeedbackInv

LEMMA FeedbackRecordKeeps ==
  ASSUME FeedbackNumbers, FeedbackInv, NEW type \in Type, NEW kind \in Feedback!Kind, Feedback!Record(type, kind) PROVE FeedbackInv'
<1>1. [type |-> type, kind |-> kind, age |-> 0] \in FeedbackNoted
  BY DEF FeedbackNoted, FeedbackNumbers
<1> QED BY <1>1 DEF Feedback!Record, FeedbackInv, FeedbackTypeOK, FeedbackKept

LEMMA FeedbackSaveKeeps == ASSUME FeedbackInv, Feedback!Save \/ Feedback!SaveFails PROVE FeedbackInv'
  BY DEF Feedback!Save, Feedback!SaveFails, FeedbackInv, FeedbackTypeOK, FeedbackKept

LEMMA FeedbackRestartKeeps == ASSUME FeedbackInv, Feedback!Restart PROVE FeedbackInv'
<1>1. feedback' = (IF feedbackFile = Feedback!Torn THEN <<>> ELSE feedbackFile) /\ feedbackFile' = feedbackFile /\ recorded' = recorded
  BY DEF Feedback!Restart
<1>2. FeedbackTypeOK'
  BY <1>1 DEF FeedbackInv, FeedbackTypeOK
<1>3. ASSUME ~feedbackLossy' PROVE ~feedbackLossy /\ ~writing
  BY <1>3, Zenon DEF Feedback!Restart
<1>4. FeedbackKept'
  <2> SUFFICES ASSUME ~feedbackLossy' PROVE feedback' = recorded' /\ (~writing' => feedbackFile' = feedback')
    BY DEF FeedbackKept
  <2>1. feedback = recorded /\ feedbackFile = feedback
    BY <1>3 DEF FeedbackInv, FeedbackKept
  <2>2. feedbackFile # Feedback!Torn
    BY <2>1, FeedbackTornIsNone DEF FeedbackInv, FeedbackTypeOK
  <2> QED BY <1>1, <2>1, <2>2
<1> QED BY <1>2, <1>4 DEF FeedbackInv

LEMMA FeedbackTickKeeps == ASSUME FeedbackNumbers, FeedbackInv, Feedback!Tick PROVE FeedbackInv'
<1>1. /\ feedback' = Feedback!Aged(feedback) /\ recorded' = Feedback!Aged(recorded) /\ ~writing
      /\ feedbackFile' = IF feedbackFile = Feedback!Torn THEN Feedback!Torn ELSE Feedback!Aged(feedbackFile)
      /\ UNCHANGED <<writing, feedbackLossy>>
  BY DEF Feedback!Tick
<1>2. FeedbackTypeOK'
  BY <1>1, FeedbackAgedEvents DEF FeedbackInv, FeedbackTypeOK
<1>3. FeedbackKept'
  BY <1>1, FeedbackTornIsNone DEF FeedbackInv, FeedbackTypeOK, FeedbackKept
<1> QED BY <1>2, <1>3 DEF FeedbackInv

LEMMA FeedbackInvNext == FeedbackNumbers /\ FeedbackInv /\ [Feedback!Next]_(Feedback!feedbackVars) => FeedbackInv'
<1> SUFFICES ASSUME FeedbackNumbers, FeedbackInv, [Feedback!Next]_(Feedback!feedbackVars) PROVE FeedbackInv'
  OBVIOUS
<1>1. CASE UNCHANGED Feedback!feedbackVars
  BY <1>1 DEF Feedback!feedbackVars, FeedbackInv, FeedbackTypeOK, FeedbackKept
<1>2. CASE Feedback!Next
  BY <1>2, FeedbackRecordKeeps, FeedbackSaveKeeps, FeedbackRestartKeeps, FeedbackTickKeeps DEF
     Feedback!Next
<1> QED BY <1>1, <1>2

\* How often something happened, and that no kind happened oftener than all.
LEMMA FeedbackCounts ==
  ASSUME FeedbackTypeOK, NEW type \in Type, NEW kinds \in SUBSET Feedback!Kind
  PROVE  Feedback!Count(type, kinds) \in Nat /\ Feedback!Count(type, kinds) <= Feedback!Total(type) /\ Feedback!Total(type) \in Nat
<1> DEFINE In(k) == {i \in DOMAIN feedback : /\ feedback[i].type = type /\ feedback[i].kind \in k
                                             /\ feedback[i].age < FeedbackWindow}
<1>1. DOMAIN feedback = 1..Len(feedback) /\ Len(feedback) \in Nat
  BY DEF FeedbackTypeOK
<1>2. IsFiniteSet(1..Len(feedback))
  BY <1>1, FS_Interval
<1>3. In(Feedback!Kind) \in SUBSET (1..Len(feedback)) /\ In(kinds) \in SUBSET In(Feedback!Kind)
  BY <1>1
<1>4. Feedback!Count(type, kinds) = Cardinality(In(kinds)) /\ Feedback!Total(type) = Cardinality(In(Feedback!Kind))
  BY FeedbackCard DEF Feedback!Count, Feedback!Total
<1> HIDE DEF In
<1>5. IsFiniteSet(In(Feedback!Kind)) /\ Cardinality(In(kinds)) <= Cardinality(In(Feedback!Kind))
      /\ IsFiniteSet(In(kinds))
  BY <1>2, <1>3, FS_Subset
<1>6. Cardinality(In(Feedback!Kind)) \in Nat /\ Cardinality(In(kinds)) \in Nat
  BY <1>5, FS_CardinalityType
<1> QED BY <1>4, <1>5, <1>6

\* What is learned of a type that is neither low nor proven.
FeedbackMixed(base, a, t, w) == (base * (100 - w) + ((100 * a) \div t) * w) \div 100
LEMMA FeedbackWeighted ==
  ASSUME NEW a \in Nat, NEW t \in Nat, a <= t, t > 0, NEW w \in Nat, w <= 30,
         NEW base \in Nat, base <= 100
  PROVE  FeedbackMixed(base, a, t, w) \in Nat /\ FeedbackMixed(base, a, t, w) <= 100
<1> DEFINE rate == (100 * a) \div t
<1>1. rate \in Nat /\ rate <= 100
  BY Z3
<1> HIDE DEF rate
<1>2. rate * w \in Nat /\ rate * w <= 100 * w
  BY <1>1, Z3
<1>3. base * (100 - w) \in Nat /\ base * (100 - w) <= 100 * (100 - w)
  OBVIOUS
<1> DEFINE p == rate * w
           q == base * (100 - w)
<1>4. p \in Nat /\ q \in Nat /\ q + p <= 10000
  BY <1>1, <1>2, <1>3
<1> HIDE DEF p, q
<1>5. (q + p) \div 100 \in Nat /\ (q + p) \div 100 <= 100
  BY <1>4
<1> QED BY <1>5 DEF FeedbackMixed, rate, p, q

LEMMA FeedbackLearned ==
  ASSUME FeedbackTypeOK, NEW type \in Type, NEW base \in {0, 50, 100}
  PROVE  LET learned == Feedback!RecommendedConfidence(type, base)
         IN  /\ learned \in 0..100
             /\ Feedback!Count(type, {"approved"}) = 0 =>
                  learned <= base /\ type \notin Feedback!AutoApprovalCandidates
             /\ type \in Feedback!Seen /\ Feedback!ConfidenceLevel(type) = "low" => type \in Feedback!NeedReview /\ learned <= base
<1> DEFINE learned == Feedback!RecommendedConfidence(type, base)
           a == Feedback!Count(type, {"approved"})
           t == Feedback!Total(type)
<1>1. a \in Nat /\ t \in Nat /\ a <= t /\ (type \in Feedback!Seen <=> t > 0)
  BY FeedbackCounts DEF Feedback!Kind, Feedback!Seen
<1>2. CASE type \notin Feedback!Seen
  <2>1. learned = base
    BY <1>2 DEF Feedback!RecommendedConfidence
  <2> QED BY <1>2, <2>1 DEF Feedback!AutoApprovalCandidates
<1>3. CASE type \in Feedback!Seen
  <2>1. t > 0
    BY <1>1, <1>3
  <2>2. a = 0 => Feedback!ConfidenceLevel(type) = "low" /\ type \notin Feedback!AutoApprovalCandidates
    <3>1. a = 0 => ~Feedback!AtLeast(type, 95) /\ ~Feedback!AtLeast(type, 70) /\ ~Feedback!AtLeast(type, 99)
      BY <1>1, <2>1 DEF Feedback!AtLeast
    <3> QED BY <3>1 DEF Feedback!ConfidenceLevel, Feedback!AutoApprovalCandidates
  <2>3. Feedback!ConfidenceLevel(type) = "low" => type \in Feedback!NeedReview
    BY <1>3 DEF Feedback!NeedReview
  <2>4. CASE Feedback!ConfidenceLevel(type) = "low"
    <3>1. learned = Feedback!Max({0, base - 20})
      BY <1>3, <2>4 DEF Feedback!RecommendedConfidence
    <3>3. base - 20 \in Int /\ 0 \in Int
      OBVIOUS
    <3>4. Feedback!Max({0, base - 20}) = IF 0 <= base - 20 THEN base - 20 ELSE 0
      BY <3>3, FeedbackMinMax
    <3>2. learned \in 0..100 /\ learned <= base
      BY <3>1, <3>4
    <3> QED BY <2>2, <2>3, <3>2
  <2>5. CASE Feedback!ConfidenceLevel(type) = "high" /\ t >= Proven
    <3>1. learned = Feedback!Min({100, base + 10})
      BY <1>3, <2>5 DEF Feedback!RecommendedConfidence
    <3>2. learned \in 0..100
      BY <3>1, FeedbackMinMax
    <3> QED BY <2>2, <2>5, <3>2
  <2>6. CASE Feedback!ConfidenceLevel(type) # "low" /\ ~(Feedback!ConfidenceLevel(type) = "high" /\ t >= Proven)
    <3> DEFINE w == Feedback!Min({30, t})
    <3>1. learned = FeedbackMixed(base, a, t, w)
      BY <1>3, <2>6 DEF Feedback!RecommendedConfidence, FeedbackMixed
    <3>2. w \in Nat /\ w <= 30
      BY <1>1, FeedbackMinMax
    <3> HIDE DEF a, t, w
    <3>5. a \in Nat /\ t \in Nat /\ a <= t /\ t > 0 /\ base \in Nat /\ base <= 100
      BY <1>1, <2>1
    <3> HIDE DEF learned
    <3>6. FeedbackMixed(base, a, t, w) \in Nat /\ FeedbackMixed(base, a, t, w) <= 100
      BY <3>2, <3>5, FeedbackWeighted
    <3>3. learned \in 0..100
      BY <3>1, <3>6
    <3> QED BY <2>2, <2>6, <3>3 DEF a, learned
  <2> QED BY <2>4, <2>5, <2>6
<1> QED BY <1>2, <1>3

(* Nothing that was decided is forgotten by a restart unless a rewrite of the *)
(* file did not end; and what is learned stays a percentage, and raises no    *)
(* type that was only rejected.                                              *)
THEOREM DecisionsAreKept == ASSUME FeedbackNumbers PROVE Feedback!Spec => []Feedback!FeedbackIsKept
<1>1. Feedback!Init => FeedbackInv
  BY FeedbackInvInit
<1>2. FeedbackInv /\ [Feedback!Next]_(Feedback!feedbackVars) => FeedbackInv'
  BY FeedbackInvNext
<1>3. FeedbackInv => Feedback!FeedbackIsKept
  BY FeedbackLearned DEF FeedbackInv, FeedbackKept, Feedback!FeedbackIsKept
<1> QED BY <1>1, <1>2, <1>3, PTL DEF Feedback!Spec

-----------------------------------------------------------------------------
(***************************************************************************)
(* The report is complete, for any agents, timeouts and advice.  What the     *)
(* report holds is fixed when it is put together; that it holds as many names *)
(* as agents were asked follows because no two of them share a name.          *)
(***************************************************************************)
\* An agent calls itself by a name of its own, which is not what another one is
\* asked for by.
AgentsNames ==
    /\ \A a, b \in Agent : NameOfAgent[a] = NameOfAgent[b] => a = b
    /\ \A a, b \in Agent : NameOfAgent[a] = b => a = b
    /\ MaxNames \in Nat /\ MaxAdvice \in Nat

AgentsKnownOnce == Agents!IsInjective(agentsAsked) /\ Agents!Range(agentsAsked) \subseteq Agent
AgentsTold ==
  (report.done /\ ~report.error) =>
    /\ report.agents = {Agents!NameOf(i) : i \in DOMAIN agentsTasks}
    /\ report.errors = {Agents!NameOf(i) : i \in DOMAIN agentsTasks \ Agents!Successful}
    /\ report.insights = {Agents!NameOf(i) : i \in Agents!Successful}
    /\ \A a \in report.consensus : Agents!Majority(a)
AgentsAsked == agentsAsked \in UNION {[1..n -> Named] : n \in 0..MaxNames}
AgentsInv == AgentsAsked /\ (AgentsKnownOnce => agentsTasks = agentsAsked) /\ AgentsTold

\* The cardinality in AgentOrchestrator is the one of the theorems.
LEMMA AgentsCard ==
  \A S : Agents!Cardinality(S) = Cardinality(S) /\ (Agents!IsFiniteSet(S) <=> IsFiniteSet(S))
  BY DEF Agents!Cardinality, Cardinality, Agents!IsFiniteSet, IsFiniteSet

LEMMA AgentsAskedSeq ==
  ASSUME AgentsNames, AgentsAsked PROVE Len(agentsAsked) \in Nat /\ agentsAsked \in [1..Len(agentsAsked) -> Named]
<1>1. PICK n \in 0..MaxNames : agentsAsked \in [1..n -> Named]
  BY DEF AgentsAsked
<1>2. n \in Nat /\ agentsAsked \in Seq(Named) /\ Len(agentsAsked) = n
  BY <1>1 DEF AgentsNames
<1> QED BY <1>1, <1>2

LEMMA AgentsFromOne ==
  ASSUME NEW n \in Nat PROVE IsFiniteSet(1..n) /\ Cardinality(1..n) = n
<1>1. 1 \in Int /\ n \in Int
  OBVIOUS
<1>2. IsFiniteSet(1..n) /\ Cardinality(1..n) = IF 1 > n THEN 0 ELSE n - 1 + 1
  BY <1>1, FS_Interval
<1> QED BY <1>2

\* When every name is an agent's, all of them are started.
LEMMA AgentsAllStart ==
  ASSUME NEW n \in Nat, NEW names \in [1..n -> Agent] PROVE Agents!Started(names) = names
<1> DEFINE known == {i \in DOMAIN names : names[i] \in Agent}
<1>1. known = 1..n
  OBVIOUS
<1>2. Agents!Cardinality(known) = n
  <2> HIDE DEF known
  <2> QED BY <1>1, AgentsFromOne, AgentsCard
<1>3. ASSUME NEW i \in known PROVE Agents!Cardinality({j \in known : j <= i}) = i
  <2>1. {j \in known : j <= i} = 1..i /\ i \in Nat
    BY <1>1
  <2>2. Agents!Cardinality(1..i) = i
    BY <2>1, AgentsFromOne, AgentsCard
  <2> QED BY <2>1, <2>2
<1> DEFINE nth(m) == CHOOSE i \in known : Agents!Cardinality({j \in known : j <= i}) = m
<1>4. ASSUME NEW m \in 1..n PROVE nth(m) = m
  <2>1. m \in known /\ Agents!Cardinality({j \in known : j <= m}) = m
    BY <1>1, <1>3
  <2>2. nth(m) \in known /\ Agents!Cardinality({j \in known : j <= nth(m)}) = m
    BY <2>1
  <2> HIDE DEF nth, known
  <2>3. Agents!Cardinality({j \in known : j <= nth(m)}) = nth(m)
    BY <1>3, <2>2
  <2> QED BY <2>2, <2>3
<1>5. Agents!Started(names) = [m \in 1..Agents!Cardinality(known) |-> names[nth(m)]]
  BY AgentsCard DEF Agents!Started
<1> HIDE DEF nth, known
<1>6. Agents!Started(names) = [m \in 1..n |-> names[m]]
  BY <1>2, <1>4, <1>5
<1> QED BY <1>6

LEMMA AgentsInvInit == ASSUME AgentsNames, Agents!Init PROVE AgentsInv
<1>1. AgentsAsked
  BY DEF Agents!Init, AgentsAsked
<1>2. ASSUME AgentsKnownOnce PROVE agentsTasks = agentsAsked
  <2>1. agentsAsked \in [1..Len(agentsAsked) -> Agent] /\ Len(agentsAsked) \in Nat
    <3>1. \A i \in 1..Len(agentsAsked) : agentsAsked[i] \in Agent
      BY <1>1, <1>2, AgentsAskedSeq DEF AgentsKnownOnce, Agents!Range
    <3> QED BY <1>1, <3>1, AgentsAskedSeq
  <2> QED BY <2>1, AgentsAllStart DEF Agents!Init
<1>3. AgentsTold
  BY DEF Agents!Init, Agents!NoReport, AgentsTold
<1> QED BY <1>1, <1>2, <1>3 DEF AgentsInv

LEMMA AgentsAnswering ==
  ASSUME AgentsInv, ~report.done, UNCHANGED <<agentsAsked, agentsTasks, report>> PROVE AgentsInv'
  BY DEF AgentsInv, AgentsAsked, AgentsKnownOnce, AgentsTold

LEMMA AgentsAggregateKeeps == ASSUME AgentsInv, Agents!Aggregate PROVE AgentsInv'
<1>1. UNCHANGED <<agentsAsked, agentsTasks, outcome>>
  BY DEF Agents!Aggregate
<1>2. /\ {Agents!NameOf(i) : i \in DOMAIN agentsTasks}' = {Agents!NameOf(i) : i \in DOMAIN agentsTasks}
      /\ {Agents!NameOf(i) : i \in DOMAIN agentsTasks \ Agents!Successful}' = {Agents!NameOf(i) : i \in DOMAIN agentsTasks \ Agents!Successful}
      /\ {Agents!NameOf(i) : i \in Agents!Successful}' = {Agents!NameOf(i) : i \in Agents!Successful}
      /\ \A a : Agents!Majority(a)' <=> Agents!Majority(a)
  BY <1>1, AgentsCard DEF Agents!NameOf, Agents!Successful, Agents!Majority, Agents!Votes,
     Agents!Mentions
<1>3. CASE agentsAsked = <<>>
  BY <1>1, <1>3 DEF Agents!Aggregate, AgentsInv, AgentsAsked, AgentsKnownOnce, AgentsTold
<1>4. CASE agentsAsked # <<>>
  <2>1. /\ report'.agents = {Agents!NameOf(i) : i \in DOMAIN agentsTasks}
        /\ report'.errors = {Agents!NameOf(i) : i \in DOMAIN agentsTasks \ Agents!Successful}
        /\ report'.insights = {Agents!NameOf(i) : i \in Agents!Successful}
        /\ report'.consensus = IF Agents!NeedsConsensus
                               THEN {a \in Advice : Agents!Majority(a)} ELSE {}
    BY <1>4 DEF Agents!Aggregate
  <2>2. \A a \in report'.consensus : Agents!Majority(a)
    BY <2>1
  <2>3. AgentsTold'
    BY <1>2, <2>1, <2>2 DEF AgentsTold
  <2> QED BY <1>1, <2>3 DEF AgentsInv, AgentsAsked, AgentsKnownOnce
<1> QED BY <1>3, <1>4

LEMMA AgentsInvNext == AgentsInv /\ [Agents!Next]_(Agents!agentVars) => AgentsInv'
<1> SUFFICES ASSUME AgentsInv, [Agents!Next]_(Agents!agentVars) PROVE AgentsInv'
  OBVIOUS
<1>1. CASE UNCHANGED Agents!agentVars
  <2>1. agentsAsked' = agentsAsked /\ agentsTasks' = agentsTasks /\ report' = report
    BY <1>1 DEF Agents!agentVars
  <2>2. AgentsAsked' /\ (AgentsKnownOnce <=> AgentsKnownOnce')
    BY <2>1 DEF AgentsInv, AgentsAsked, AgentsKnownOnce
  <2>3. AgentsTold'
    BY <1>1, AgentsCard DEF Agents!agentVars, AgentsInv, AgentsTold, Agents!NameOf,
       Agents!Successful, Agents!Majority, Agents!Votes, Agents!Mentions
  <2> QED BY <2>1, <2>2, <2>3 DEF AgentsInv
<1>2. ASSUME NEW i \in DOMAIN agentsTasks, NEW r, Agents!Respond(i, r) PROVE AgentsInv'
  BY <1>2, AgentsAnswering DEF Agents!Respond
<1>3. ASSUME NEW i \in DOMAIN agentsTasks, Agents!TimeOut(i) PROVE AgentsInv'
  BY <1>3, AgentsAnswering DEF Agents!TimeOut
<1>4. CASE Agents!Tick
  BY <1>4, AgentsAnswering DEF Agents!Tick
<1> QED BY <1>1, <1>2, <1>3, <1>4, AgentsAggregateKeeps DEF Agents!Next, Agents!Catch, Agents!Raise

\* As many names as there are agents under them.
AgentsNamesOf(f, S) == {f[i] : i \in S}
LEMMA AgentsNamesCount ==
  ASSUME NEW n \in Nat, NEW S \in SUBSET (1..n), NEW f, \A i, j \in S : f[i] = f[j] => i = j
  PROVE  /\ IsFiniteSet(S) /\ Cardinality(S) \in Nat
         /\ Cardinality(AgentsNamesOf(f, S)) = Cardinality(S)
<1> DEFINE g == [i \in S |-> f[i]]
           T == {f[i] : i \in S}
<1>1. IsFiniteSet(S)
  BY AgentsFromOne, FS_Subset
<1>2. g \in Bijection(S, T)
  <2>1. g \in [S -> T] /\ \A t \in T : \E i \in S : g[i] = t
    OBVIOUS
  <2>2. \A i, j \in S : g[i] = g[j] => i = j
    OBVIOUS
  <2> QED BY <2>1, <2>2 DEF Bijection, Injection, Surjection, IsInjective
<1>3. ExistsBijection(S, T)
  BY <1>2 DEF ExistsBijection
<1>4. Cardinality(T) = Cardinality(S)
  BY <1>1, <1>3, FS_Bijection
<1> QED BY <1>1, <1>4, FS_CardinalityType DEF AgentsNamesOf

\* When no agent repeats itself, a vote is an agent's.
LEMMA AgentsVotesOfAgents ==
  ASSUME NEW a, IsFiniteSet(Agents!Successful), \A i \in Agents!Successful : Agents!NamesOnce(i, a), MaxAdvice \in Nat
  PROVE  /\ Agents!Votes(a) \in Nat
         /\ Agents!Votes(a) = Cardinality({i \in Agents!Successful : \E m \in Agents!Mentions(a) : m[1] = i})
<1> DEFINE M == Agents!Mentions(a)
           N == {i \in Agents!Successful : \E m \in Agents!Mentions(a) : m[1] = i}
           g == [m \in M |-> m[1]]
<1>1. IsFiniteSet(M)
  <2>1. IsFiniteSet(1..MaxAdvice)
    BY AgentsFromOne
  <2>2. IsFiniteSet(Agents!Successful \X (1..MaxAdvice))
    BY <2>1, FS_Product
  <2>3. M \in SUBSET (Agents!Successful \X (1..MaxAdvice))
    BY DEF Agents!Mentions
  <2> HIDE DEF M
  <2> QED BY <2>2, <2>3, FS_Subset
<1>2. \A m \in M : m[1] \in Agents!Successful
  BY DEF Agents!Mentions
<1>3. ASSUME NEW m \in M, NEW n \in M, m[1] = n[1] PROVE m = n
  <2> DEFINE O == {k \in M : k[1] = m[1]}
  <2>1. m \in O /\ n \in O /\ O \in SUBSET M
    BY <1>3
  <2>2. Cardinality(O) <= 1
    BY <1>2, AgentsCard DEF Agents!NamesOnce
  <2>3. IsFiniteSet(O)
    <3> HIDE DEF O, M
    <3> QED BY <1>1, <2>1, FS_Subset
  <2> HIDE DEF O, M
  <2>4. ASSUME m # n PROVE FALSE
    <3>1. {m, n} \in SUBSET O
      BY <2>1
    <3>2. Cardinality({m, n}) <= Cardinality(O)
      BY <2>3, <3>1, FS_Subset
    <3>3. Cardinality({m, n}) = 2
      <4>1. IsFiniteSet({m}) /\ Cardinality({m}) = 1
        BY FS_Singleton
      <4>2. Cardinality({m} \cup {n}) = Cardinality({m}) + 1
        BY <4>1, <2>4, FS_AddElement
      <4>3. {m} \cup {n} = {m, n}
        OBVIOUS
      <4> QED BY <4>1, <4>2, <4>3
    <3>4. Cardinality(O) \in Nat
      BY <2>3, FS_CardinalityType
    <3> QED BY <2>2, <3>2, <3>3, <3>4
  <2> QED BY <2>4
<1>4. g \in Bijection(M, N)
  <2>1. g \in [M -> N]
    BY <1>2
  <2>2. \A t \in N : \E m \in M : g[m] = t
    OBVIOUS
  <2>3. \A m, n \in M : g[m] = g[n] => m = n
    <3> HIDE DEF M
    <3> QED BY <1>3
  <2> HIDE DEF M, N, g
  <2> QED BY <2>1, <2>2, <2>3 DEF Bijection, Injection, Surjection, IsInjective
<1>5. ExistsBijection(M, N)
  BY <1>4 DEF ExistsBijection
<1> HIDE DEF M, N
<1>6. Cardinality(N) = Cardinality(M) /\ Cardinality(M) \in Nat
  BY <1>1, <1>5, FS_Bijection, FS_CardinalityType
<1> QED BY <1>6, AgentsCard DEF Agents!Votes, M, N

LEMMA AgentsInvComplete == ASSUME AgentsNames, AgentsInv PROVE Agents!ReportIsComplete
<1> SUFFICES ASSUME report.done, ~report.error, AgentsKnownOnce
             PROVE  /\ report.agents = report.insights \cup report.errors
                    /\ report.insights = {NameOfAgent[agentsTasks[i]] : i \in Agents!Successful}
                    /\ Cardinality(report.errors) + Cardinality(Agents!Successful) = Len(agentsAsked)
                    /\ \A a \in report.consensus : (\A i \in Agents!Successful : Agents!NamesOnce(i, a)) =>
                         2 * Cardinality({i \in Agents!Successful : \E m \in Agents!Mentions(a) : m[1] = i})
                           > Cardinality(report.agents)
  BY AgentsCard DEF Agents!ReportIsComplete, AgentsKnownOnce
<1> DEFINE D == 1..Len(agentsAsked)
<1>1. /\ agentsTasks = agentsAsked /\ Len(agentsAsked) \in Nat /\ DOMAIN agentsTasks = D
      /\ \A i \in D : agentsAsked[i] \in Agent
      /\ \A i, j \in D : agentsAsked[i] = agentsAsked[j] => i = j
  BY AgentsAskedSeq DEF AgentsInv, AgentsKnownOnce, Agents!IsInjective, Agents!Range
<1>2. Agents!Successful \in SUBSET D
  BY <1>1 DEF Agents!Successful
<1>3. \A i, j \in D : Agents!NameOf(i) = Agents!NameOf(j) => i = j
  BY <1>1 DEF Agents!NameOf, AgentsNames
<1>4. /\ report.agents = {Agents!NameOf(i) : i \in D}
      /\ report.errors = {Agents!NameOf(i) : i \in D \ Agents!Successful}
      /\ report.insights = {Agents!NameOf(i) : i \in Agents!Successful}
      /\ \A a \in report.consensus : Agents!Majority(a)
  BY <1>1 DEF AgentsInv, AgentsTold
<1>5. \A i \in Agents!Successful : Agents!NameOf(i) = NameOfAgent[agentsTasks[i]]
  BY DEF Agents!Successful, Agents!NameOf
<1> HIDE DEF D
<1>6. /\ Cardinality(report.agents) = Len(agentsAsked)
      /\ Cardinality(report.errors) = Cardinality(D \ Agents!Successful)
      /\ Cardinality(report.insights) = Cardinality(Agents!Successful)
      /\ Cardinality(Agents!Successful) \in Nat /\ Cardinality(D \ Agents!Successful) \in Nat
      /\ IsFiniteSet(Agents!Successful) /\ IsFiniteSet(D \ Agents!Successful) /\ Cardinality(D) = Len(agentsAsked)
  <2> DEFINE f == [i \in D |-> Agents!NameOf(i)]
  <2>1. /\ D \in SUBSET (1..Len(agentsAsked)) /\ Agents!Successful \in SUBSET (1..Len(agentsAsked))
        /\ D \ Agents!Successful \in SUBSET (1..Len(agentsAsked))
    BY <1>2 DEF D
  <2>2. \A i, j \in D : f[i] = f[j] => i = j
    BY <1>3
  <2>3. Cardinality(D) = Len(agentsAsked)
    BY <1>1, AgentsFromOne DEF D
  <2>4. /\ AgentsNamesOf(f, D) = report.agents
        /\ AgentsNamesOf(f, Agents!Successful) = report.insights
        /\ AgentsNamesOf(f, D \ Agents!Successful) = report.errors
    BY <1>2, <1>4 DEF AgentsNamesOf
  <2> HIDE DEF f
  <2>5. Cardinality(AgentsNamesOf(f, D)) = Cardinality(D)
    BY <1>1, <2>1, <2>2, AgentsNamesCount
  <2>6. /\ Cardinality(AgentsNamesOf(f, Agents!Successful)) = Cardinality(Agents!Successful)
        /\ IsFiniteSet(Agents!Successful) /\ Cardinality(Agents!Successful) \in Nat
    BY <1>1, <1>2, <2>1, <2>2, AgentsNamesCount
  <2>7. /\ Cardinality(AgentsNamesOf(f, D \ Agents!Successful)) = Cardinality(D \ Agents!Successful)
        /\ IsFiniteSet(D \ Agents!Successful) /\ Cardinality(D \ Agents!Successful) \in Nat
    <3> DEFINE F == D \ Agents!Successful
    <3>1. F \in SUBSET (1..Len(agentsAsked)) /\ \A i, j \in F : f[i] = f[j] => i = j
      BY <2>1, <2>2
    <3> HIDE DEF F
    <3>2. /\ Cardinality(AgentsNamesOf(f, F)) = Cardinality(F)
          /\ IsFiniteSet(F) /\ Cardinality(F) \in Nat
      BY <1>1, <3>1, AgentsNamesCount
    <3> QED BY <3>2 DEF F
  <2> QED BY <2>3, <2>4, <2>5, <2>6, <2>7
<1>7. Cardinality(D \ Agents!Successful) + Cardinality(Agents!Successful) = Len(agentsAsked)
  <2> DEFINE S == Agents!Successful
             F == D \ Agents!Successful
  <2>1. F \cup S = D /\ F \cap S = {} /\ IsFiniteSet(S) /\ IsFiniteSet(F)
    BY <1>2, <1>6
  <2>2. Cardinality(S) \in Nat /\ Cardinality(F) \in Nat /\ Cardinality(D) = Len(agentsAsked)
    BY <1>6
  <2> HIDE DEF S, F
  <2>3. Cardinality(F \cup S) = Cardinality(F) + Cardinality(S) - Cardinality(F \cap S)
    BY <2>1, FS_Union
  <2>4. Cardinality(F \cap S) = 0
    BY <2>1, FS_EmptySet
  <2>5. Cardinality(F \cup S) = Len(agentsAsked)
    BY <2>1, <2>2
  <2>6. Cardinality(F) + Cardinality(S) = Cardinality(F \cup S)
    BY <2>2, <2>3, <2>4
  <2> QED BY <2>5, <2>6 DEF S, F
<1>8. ASSUME NEW a \in report.consensus, \A i \in Agents!Successful : Agents!NamesOnce(i, a)
      PROVE  2 * Cardinality({i \in Agents!Successful : \E m \in Agents!Mentions(a) : m[1] = i})
               > Cardinality(report.agents)
  <2>1. Agents!Votes(a) >= Len(agentsAsked) \div 2 + 1
    BY <1>1, <1>4 DEF Agents!Majority
  <2>2. Agents!Votes(a) \in Nat
        /\ Agents!Votes(a) = Cardinality({i \in Agents!Successful : \E m \in Agents!Mentions(a) : m[1] = i})
    <3>1. IsFiniteSet(Agents!Successful) /\ MaxAdvice \in Nat
      BY <1>6 DEF AgentsNames
    <3> QED BY <1>8, <3>1, AgentsVotesOfAgents, Zenon
  <2> DEFINE c == Cardinality({i \in Agents!Successful : \E m \in Agents!Mentions(a) : m[1] = i})
  <2>3. c \in Nat /\ c >= Len(agentsAsked) \div 2 + 1
    BY <2>1, <2>2
  <2> HIDE DEF c
  <2>4. 2 * c > Len(agentsAsked)
    BY <1>1, <2>3
  <2> QED BY <1>6, <2>4 DEF c
<1>9. report.agents = report.insights \cup report.errors
  BY <1>2, <1>4
<1>10. report.insights = {NameOfAgent[agentsTasks[i]] : i \in Agents!Successful}
  BY <1>4, <1>5
<1> QED BY <1>6, <1>7, <1>8, <1>9, <1>10

(* Whatever agents fail or hang, an analysis that named known agents, each    *)
(* once, reports every one of them under a name of its own, with insights or  *)
(* with an error; and a consensus was said by more than half of the agents,    *)
(* unless one of them repeated itself.                                        *)
THEOREM ReportsAreComplete == ASSUME AgentsNames PROVE Agents!Spec => []Agents!ReportIsComplete
<1>1. Agents!Init => AgentsInv
  BY AgentsInvInit
<1>2. AgentsInv /\ [Agents!Next]_(Agents!agentVars) => AgentsInv'
  BY AgentsInvNext
<1>3. AgentsInv => Agents!ReportIsComplete
  BY AgentsInvComplete
<1> QED BY <1>1, <1>2, <1>3, PTL DEF Agents!Spec

-----------------------------------------------------------------------------
(***************************************************************************)
(* The SLO report goes out once a day, for any number of pods, hours and      *)
(* faults, when the two clocks have one date in the hour of the report.  A    *)
(* pod that stands before its post, and a leader that may still find the      *)
(* report due, are counted as posts already; each one too many was paid for   *)
(* by a fault of that day.                                                   *)
(***************************************************************************)
SloNumbers ==
  /\ IsFiniteSet(SloPod) /\ SloNobody \notin SloPod
  /\ Hours \in Nat \ {0} /\ Offset \in Nat
  /\ ReportHour \in Nat /\ Offset <= ReportHour /\ ReportHour < Hours
  /\ Never \notin Nat /\ Cut \notin Nat

SloActive == {"making", "posting", "saving"}
SloWhere == SloActive \cup {"idle", "dead", "off", "down"}
SloTypeOK == /\ sloNow \in Nat /\ lastReport \in Nat \cup {Never, Cut}
             /\ sloAt \in [SloPod -> SloWhere] /\ leader \in SloPod \cup {SloNobody}
             /\ posts \in Nat /\ harm \in Nat

\* The leader runs; a report is made in its hour; a saved date has come.
SloStands == leader \in SloPod => sloAt[leader] \notin {"off", "down"}
SloInTime == \A p \in SloPod : sloAt[p] \in SloActive => Slo!LocalHour = ReportHour
SloDated == lastReport \in Nat => lastReport <= Slo!LocalDate

\* The reports that were posted, or still may be, without another fault.
SloPosting == {p \in SloPod : sloAt[p] = "posting"}
SloMayStart == \/ leader \in SloPod /\ sloAt[leader] = "making"
               \/ lastReport # Slo!LocalDate /\ ~(leader \in SloPod /\ sloAt[leader] \in {"posting", "saving"})
SloOwed == IF SloMayStart THEN 1 ELSE 0
SloBudget == posts + Cardinality(SloPosting) + SloOwed <= 1 + harm

\* A day without a fault has one leader, which alone reports.
SloCalm ==
  harm = 0 =>
    /\ leader \in SloPod
    /\ \A p \in SloPod : sloAt[p] \in {"posting", "saving"} => p = leader
    /\ sloAt[leader] = "saving" => posts = 1
    /\ lastReport = Slo!LocalDate => posts = 1
    /\ Slo!LocalHour = ReportHour /\ looked /\ sloAt[leader] = "idle" => lastReport = Slo!LocalDate
    /\ Slo!LocalHour > ReportHour /\ sloAt[leader] # "dead" => lastReport = Slo!LocalDate

SloInv == SloTypeOK /\ SloStands /\ SloInTime /\ SloDated /\ SloBudget /\ SloCalm

-----------------------------------------------------------------------------
\* Hours and dates.
LEMMA SloDivision ==
  ASSUME NEW n \in Nat, NEW h \in Nat \ {0}
  PROVE  n \div h \in Nat /\ n % h \in 0..h - 1 /\ n = h * (n \div h) + (n % h)
  OBVIOUS

LEMMA SloDivisionIsUnique ==
  ASSUME NEW n \in Nat, NEW h \in Nat \ {0}, NEW q \in Nat, NEW r \in 0..h - 1, n = h * q + r
  PROVE  n \div h = q /\ n % h = r
<1> DEFINE d == n \div h
           m == n % h
<1>1. d \in Nat /\ m \in 0..h - 1 /\ n = h * d + m
  BY SloDivision
<1> HIDE DEF d, m
<1>2. CASE d < q
  <2>1. PICK k \in Nat : q = d + 1 + k
    <3>1. q - d - 1 \in Nat /\ q = d + 1 + (q - d - 1)
      BY <1>1, <1>2
    <3> QED BY <3>1
  <2>2. h * q = h * d + h + h * k /\ h * k >= 0
    BY <1>1, <2>1
  <2> QED BY <1>1, <2>2
<1>3. CASE q < d
  <2>1. PICK k \in Nat : d = q + 1 + k
    <3>1. d - q - 1 \in Nat /\ d = q + 1 + (d - q - 1)
      BY <1>1, <1>3
    <3> QED BY <3>1
  <2>2. h * d = h * q + h + h * k /\ h * k >= 0
    BY <1>1, <2>1
  <2> QED BY <1>1, <2>2
<1>4. CASE d = q
  BY <1>1, <1>4 DEF d, m
<1> QED BY <1>1, <1>2, <1>3, <1>4

LEMMA SloClock ==
  ASSUME SloNumbers, SloTypeOK
  PROVE  /\ Slo!LocalHour \in 0..Hours - 1 /\ Slo!LocalDate \in Nat /\ Slo!UtcDate \in Nat
         /\ Slo!LocalHour = ReportHour => Slo!UtcDate = Slo!LocalDate
<1>1. sloNow \in Nat /\ Offset \in Nat /\ Hours \in Nat \ {0} /\ ReportHour \in Nat
      /\ Offset <= ReportHour /\ ReportHour < Hours
  BY DEF SloNumbers, SloTypeOK
<1>2. sloNow + Offset \in Nat
  BY <1>1
<1>3. Slo!LocalHour \in 0..Hours - 1 /\ Slo!LocalDate \in Nat /\ sloNow + Offset = Hours * Slo!LocalDate + Slo!LocalHour
  BY <1>1, <1>2, SloDivision DEF Slo!LocalHour, Slo!LocalDate
<1>4. Slo!UtcDate \in Nat
  BY <1>1, SloDivision DEF Slo!UtcDate
<1>5. ASSUME Slo!LocalHour = ReportHour PROVE Slo!UtcDate = Slo!LocalDate
  <2>1. ReportHour - Offset \in 0..Hours - 1
    BY <1>1
  <2>2. Hours * Slo!LocalDate \in Nat
    BY <1>1, <1>3
  <2>3. sloNow = Hours * Slo!LocalDate + (ReportHour - Offset)
    BY <1>1, <1>3, <1>5, <2>2
  <2>4. sloNow \div Hours = Slo!LocalDate
    BY <1>1, <1>3, <2>1, <2>3, SloDivisionIsUnique
  <2> QED BY <2>4 DEF Slo!UtcDate
<1> QED BY <1>3, <1>4, <1>5

\* The next hour is one of the same date, or the first of the next one.
LEMMA SloNextHour ==
  ASSUME SloNumbers, SloTypeOK, sloNow' = sloNow + 1
  PROVE  \/ Slo!LocalHour' = Slo!LocalHour + 1 /\ Slo!LocalDate' = Slo!LocalDate
         \/ Slo!LocalHour' = 0 /\ Slo!LocalDate' = Slo!LocalDate + 1
<1> DEFINE n == sloNow + Offset
<1>1. n \in Nat /\ n + 1 \in Nat /\ Hours \in Nat \ {0} /\ (sloNow + 1) + Offset = n + 1
  BY DEF SloNumbers, SloTypeOK
<1>2. Slo!LocalHour = n % Hours /\ Slo!LocalDate = n \div Hours
  BY DEF Slo!LocalHour, Slo!LocalDate
<1>3. Slo!LocalHour' = (n + 1) % Hours /\ Slo!LocalDate' = (n + 1) \div Hours
  BY <1>1 DEF Slo!LocalHour, Slo!LocalDate
<1> HIDE DEF n
<1>4. Slo!LocalHour \in 0..Hours - 1 /\ Slo!LocalDate \in Nat /\ n = Hours * Slo!LocalDate + Slo!LocalHour
  BY <1>1, <1>2, SloDivision
<1>5. CASE Slo!LocalHour + 1 < Hours
  <2>1. Slo!LocalHour + 1 \in 0..Hours - 1 /\ n + 1 = Hours * Slo!LocalDate + (Slo!LocalHour + 1)
    BY <1>1, <1>4, <1>5
  <2>2. (n + 1) \div Hours = Slo!LocalDate /\ (n + 1) % Hours = Slo!LocalHour + 1
    BY <1>1, <1>4, <2>1, SloDivisionIsUnique
  <2> QED BY <1>3, <2>2
<1>6. CASE Slo!LocalHour + 1 = Hours
  <2>1. Slo!LocalDate + 1 \in Nat /\ 0 \in 0..Hours - 1
    BY <1>1, <1>4
  <2>2. n + 1 = Hours * (Slo!LocalDate + 1) + 0
    BY <1>1, <1>4, <1>6
  <2>3. (n + 1) \div Hours = Slo!LocalDate + 1 /\ (n + 1) % Hours = 0
    BY <1>1, <2>1, <2>2, SloDivisionIsUnique
  <2> QED BY <1>3, <2>3
<1>7. Slo!LocalHour + 1 < Hours \/ Slo!LocalHour + 1 = Hours
  BY <1>1, <1>4
<1> QED BY <1>5, <1>6, <1>7

LEMMA SloPostingCount ==
  ASSUME SloNumbers, SloTypeOK
  PROVE  IsFiniteSet(SloPosting) /\ Cardinality(SloPosting) \in Nat
<1>1. IsFiniteSet(SloPosting)
  BY FS_Subset DEF SloNumbers, SloPosting
<1> QED BY <1>1, FS_CardinalityType

\* One more or one less is about to post when a pod gets there or leaves.
LEMMA SloPostingMoves ==
  ASSUME SloNumbers, SloTypeOK, NEW p \in SloPod, NEW where \in SloWhere, Slo!Goto(p, where)
  PROVE  /\ Cardinality(SloPosting') \in Nat
         /\ sloAt[p] = "posting" /\ where # "posting" => Cardinality(SloPosting') = Cardinality(SloPosting) - 1
         /\ sloAt[p] # "posting" /\ where = "posting" => Cardinality(SloPosting') = Cardinality(SloPosting) + 1
         /\ sloAt[p] # "posting" /\ where # "posting" => Cardinality(SloPosting') = Cardinality(SloPosting)
         /\ sloAt' \in [SloPod -> SloWhere] /\ sloAt'[p] = where /\ \A q \in SloPod : q # p => sloAt'[q] = sloAt[q]
<1>1. sloAt' \in [SloPod -> SloWhere] /\ sloAt'[p] = where /\ \A q \in SloPod : q # p => sloAt'[q] = sloAt[q]
  BY DEF Slo!Goto, SloTypeOK
<1>2. IsFiniteSet(SloPosting) /\ Cardinality(SloPosting) \in Nat
  BY SloPostingCount
<1>3. CASE sloAt[p] = "posting" /\ where # "posting"
  <2>1. p \in SloPosting /\ SloPosting' = SloPosting \ {p}
    BY <1>1, <1>3 DEF SloPosting
  <2>2. IsFiniteSet(SloPosting \ {p}) /\ Cardinality(SloPosting \ {p}) = Cardinality(SloPosting) - 1
    BY <1>2, <2>1, FS_RemoveElement
  <2>3. Cardinality(SloPosting \ {p}) \in Nat
    BY <2>2, FS_CardinalityType
  <2> QED BY <1>1, <1>3, <2>1, <2>2, <2>3
<1>4. CASE sloAt[p] # "posting" /\ where = "posting"
  <2>1. p \notin SloPosting /\ SloPosting' = SloPosting \cup {p}
    BY <1>1, <1>4 DEF SloPosting
  <2>2. Cardinality(SloPosting \cup {p}) = Cardinality(SloPosting) + 1
    BY <1>2, <2>1, FS_AddElement
  <2>3. Cardinality(SloPosting') \in Nat
    BY <1>2, <2>1, <2>2
  <2> QED BY <1>1, <1>4, <2>1, <2>2, <2>3
<1>5. CASE (sloAt[p] = "posting") <=> (where = "posting")
  <2>1. SloPosting' = SloPosting
    BY <1>1, <1>5 DEF SloPosting
  <2> QED BY <1>1, <1>2, <1>5, <2>1
<1> QED BY <1>3, <1>4, <1>5

-----------------------------------------------------------------------------
LEMMA SloInvInit == SloNumbers /\ Slo!Init => SloInv
<1> SUFFICES ASSUME SloNumbers, Slo!Init PROVE SloInv
  OBVIOUS
<1>1. SloTypeOK
  BY DEF Slo!Init, SloTypeOK, SloWhere, SloNumbers
<1>2. SloPosting = {}
  BY DEF Slo!Init, SloPosting
<1>3. Cardinality(SloPosting) = 0
  BY <1>2, FS_EmptySet
<1>4. Slo!LocalHour = Offset /\ Slo!LocalDate \in Nat
  <2>1. Hours * 0 = 0 /\ sloNow + Offset = Hours * 0 + Offset /\ sloNow + Offset \in Nat
        /\ Offset \in 0..Hours - 1
    BY DEF Slo!Init, SloNumbers
  <2>2. (sloNow + Offset) % Hours = Offset
    BY <2>1, SloDivisionIsUnique DEF SloNumbers
  <2> QED BY <1>1, <2>2, SloClock DEF Slo!LocalHour
<1>5. SloStands /\ SloInTime /\ SloDated
  BY DEF Slo!Init, SloStands, SloInTime, SloDated, SloActive, SloNumbers
<1>6. SloBudget
  BY <1>3 DEF Slo!Init, SloBudget, SloOwed
<1>7. SloCalm
  BY <1>4 DEF Slo!Init, SloCalm, SloNumbers
<1> QED BY <1>1, <1>5, <1>6, <1>7 DEF SloInv

\* While no hour ends the clock says the same.
LEMMA SloSameHour ==
  ASSUME SloNumbers, SloTypeOK, sloNow' = sloNow
  PROVE  Slo!LocalHour' = Slo!LocalHour /\ Slo!LocalDate' = Slo!LocalDate /\ Slo!UtcDate' = Slo!UtcDate
  BY DEF Slo!LocalHour, Slo!LocalDate, Slo!UtcDate

LEMMA SloFaultCounts ==
  ASSUME SloTypeOK, Slo!Fault
  PROVE  harm' = harm + 1 /\ harm' \in Nat /\ harm' # 0
  BY DEF Slo!Fault, SloTypeOK

\* What holds between the hours, of the clock and of the counts.
SloFacts == /\ Slo!LocalHour' = Slo!LocalHour /\ Slo!LocalDate' = Slo!LocalDate
            /\ Slo!LocalHour \in Nat /\ Slo!LocalDate \in Nat
            /\ Slo!UtcDate = Slo!LocalDate \/ Slo!LocalHour # ReportHour
            /\ ReportHour \in Nat
            /\ posts \in Nat /\ harm \in Nat /\ Cardinality(SloPosting) \in Nat

LEMMA SloStepFacts == ASSUME SloNumbers, SloInv, sloNow' = sloNow PROVE SloFacts
  BY SloClock, SloSameHour, SloPostingCount DEF SloFacts, SloInv, SloTypeOK, SloNumbers

LEMMA SloLookKeeps == ASSUME SloNumbers, SloInv, NEW p \in SloPod, Slo!Look(p) PROVE SloInv'
<1>1. SloFacts /\ SloTypeOK
  BY SloStepFacts DEF Slo!Look, SloInv
<1>2. PICK where \in {"dead", "making", "idle"} :
        /\ Slo!Goto(p, where) /\ (where = "making" => Slo!Due)
        /\ where = "idle" => ~(Slo!LocalHour = ReportHour /\ lastReport = Cut) /\ ~Slo!Due
  BY DEF Slo!Look
<1>3. /\ sloAt[p] = "idle" /\ looked' = (looked \/ p = leader)
      /\ sloNow' = sloNow /\ lastReport' = lastReport /\ leader' = leader /\ posts' = posts /\ harm' = harm
  BY DEF Slo!Look
<1>4. /\ Cardinality(SloPosting') = Cardinality(SloPosting)
      /\ sloAt' \in [SloPod -> SloWhere] /\ sloAt'[p] = where /\ \A q \in SloPod : q # p => sloAt'[q] = sloAt[q]
  BY <1>1, <1>2, <1>3, SloPostingMoves DEF SloWhere, SloActive
<1>5. SloTypeOK' /\ SloStands' /\ SloDated'
  BY <1>1, <1>3, <1>4 DEF SloInv, SloTypeOK, SloStands, SloDated, SloFacts
<1>6. SloInTime'
  BY <1>1, <1>2, <1>3, <1>4 DEF SloInv, SloInTime, SloFacts, Slo!Due, SloActive
<1>7. SloMayStart' => SloMayStart
  BY <1>1, <1>2, <1>3, <1>4 DEF SloMayStart, SloFacts, Slo!Due
<1>8. SloBudget'
  BY <1>1, <1>3, <1>4, <1>7 DEF SloInv, SloBudget, SloOwed, SloFacts
<1>9. SloCalm'
  <2> SUFFICES ASSUME harm' = 0
               PROVE  /\ leader \in SloPod
                      /\ \A q \in SloPod : sloAt'[q] \in {"posting", "saving"} => q = leader
                      /\ sloAt'[leader] = "saving" => posts = 1
                      /\ lastReport = Slo!LocalDate => posts = 1
                      /\ Slo!LocalHour = ReportHour /\ looked' /\ sloAt'[leader] = "idle" => lastReport = Slo!LocalDate
                      /\ Slo!LocalHour > ReportHour /\ sloAt'[leader] # "dead" => lastReport = Slo!LocalDate
    BY <1>1, <1>3 DEF SloCalm, SloFacts
  <2>1. /\ leader \in SloPod
        /\ \A q \in SloPod : sloAt[q] \in {"posting", "saving"} => q = leader
        /\ sloAt[leader] = "saving" => posts = 1
        /\ lastReport = Slo!LocalDate => posts = 1
        /\ Slo!LocalHour = ReportHour /\ looked /\ sloAt[leader] = "idle" => lastReport = Slo!LocalDate
        /\ Slo!LocalHour > ReportHour /\ sloAt[leader] # "dead" => lastReport = Slo!LocalDate
    BY <1>3 DEF SloInv, SloCalm
  <2>2. ASSUME Slo!LocalHour = ReportHour, looked', sloAt'[leader] = "idle" PROVE lastReport = Slo!LocalDate
    <3>1. CASE leader = p
      BY <1>2, <1>4, <2>2, <3>1 DEF Slo!Due
    <3>2. CASE leader # p
      BY <1>3, <1>4, <2>1, <2>2, <3>2
    <3> QED BY <3>1, <3>2
  <2>3. ASSUME Slo!LocalHour > ReportHour, sloAt'[leader] # "dead" PROVE lastReport = Slo!LocalDate
    BY <1>3, <1>4, <2>1, <2>3
  <2> QED BY <1>2, <1>4, <2>1, <2>2, <2>3
<1> QED BY <1>5, <1>6, <1>8, <1>9 DEF SloInv

\* What a day without a fault lets one conclude before a step.
SloCalmNow ==
  /\ leader \in SloPod
  /\ \A p \in SloPod : sloAt[p] \in {"posting", "saving"} => p = leader
  /\ sloAt[leader] = "saving" => posts = 1
  /\ lastReport = Slo!LocalDate => posts = 1
  /\ Slo!LocalHour = ReportHour /\ looked /\ sloAt[leader] = "idle" => lastReport = Slo!LocalDate
  /\ Slo!LocalHour > ReportHour /\ sloAt[leader] # "dead" => lastReport = Slo!LocalDate

LEMMA SloMakeKeeps == ASSUME SloNumbers, SloInv, NEW p \in SloPod, Slo!Make(p) PROVE SloInv'
<1>1. SloFacts /\ SloTypeOK
  BY SloStepFacts DEF Slo!Make, SloInv
<1>2. PICK where \in {"posting", "idle"} :
        /\ Slo!Goto(p, where) /\ (where = "posting" => leader = p)
        /\ \/ harm' = harm /\ (where = "idle" => leader # p)
           \/ Slo!Fault
  BY DEF Slo!Make
<1>3. /\ sloAt[p] = "making" /\ Slo!LocalHour = ReportHour
      /\ sloNow' = sloNow /\ lastReport' = lastReport /\ leader' = leader /\ looked' = looked /\ posts' = posts
  BY DEF Slo!Make, SloInv, SloInTime, SloActive
<1>4. /\ Cardinality(SloPosting') = Cardinality(SloPosting) + (IF where = "posting" THEN 1 ELSE 0)
      /\ sloAt' \in [SloPod -> SloWhere] /\ sloAt'[p] = where /\ \A q \in SloPod : q # p => sloAt'[q] = sloAt[q]
  <2>1. where \in SloWhere
    BY <1>2 DEF SloWhere, SloActive
  <2> QED BY <1>1, <1>2, <1>3, <2>1, SloPostingMoves
<1>5. harm' \in Nat /\ harm' >= harm
  BY <1>1, <1>2, SloFaultCounts DEF SloFacts
<1>6. SloTypeOK' /\ SloStands' /\ SloDated' /\ SloInTime'
  BY <1>1, <1>2, <1>3, <1>4, <1>5 DEF SloInv, SloTypeOK, SloStands, SloDated, SloInTime, SloFacts,
     SloActive
<1>7. SloBudget'
  <2>1. where = "posting" => SloMayStart /\ ~SloMayStart'
    BY <1>2, <1>3, <1>4 DEF SloMayStart
  <2>2. leader # p => (SloMayStart' <=> SloMayStart)
    BY <1>1, <1>3, <1>4 DEF SloMayStart, SloFacts
  <2>3. leader = p => SloMayStart
    BY <1>1, <1>3 DEF SloMayStart, SloInv, SloTypeOK
  <2>4. SloOwed \in 0..1 /\ SloOwed' \in 0..1
    BY DEF SloOwed
  <2>5. CASE where = "posting"
    BY <1>1, <1>3, <1>4, <1>5, <2>1, <2>5 DEF SloInv, SloBudget, SloOwed, SloFacts
  <2>6. CASE where = "idle"
    <3>1. SloOwed' <= SloOwed
      BY <2>2, <2>3 DEF SloOwed
    <3> QED BY <1>1, <1>3, <1>4, <1>5, <2>4, <2>6, <3>1 DEF SloInv, SloBudget, SloFacts
  <2> QED BY <2>5, <2>6
<1>8. SloCalm'
  <2> SUFFICES ASSUME harm' = 0 PROVE SloCalmNow'
    BY DEF SloCalm, SloCalmNow
  <2>1. harm = 0 /\ (where = "idle" => leader # p) /\ SloCalmNow
    BY <1>1, <1>2, <1>5, SloFaultCounts DEF SloInv, SloCalm, SloCalmNow, SloFacts
  <2> QED BY <1>1, <1>2, <1>3, <1>4, <2>1 DEF SloCalmNow, SloFacts
<1> QED BY <1>6, <1>7, <1>8 DEF SloInv

LEMMA SloPostKeeps == ASSUME SloNumbers, SloInv, NEW p \in SloPod, Slo!Post(p) PROVE SloInv'
<1>1. SloFacts /\ SloTypeOK
  BY SloStepFacts DEF Slo!Post, SloInv
<1>2. PICK where \in {"saving", "idle"} :
        /\ Slo!Goto(p, where)
        /\ \/ where = "saving" /\ posts' = posts + 1 /\ harm' = harm
           \/ posts' \in {posts, posts + 1} /\ Slo!Fault
  BY DEF Slo!Post
<1>3. /\ sloAt[p] = "posting" /\ Slo!LocalHour = ReportHour
      /\ sloNow' = sloNow /\ lastReport' = lastReport /\ leader' = leader /\ looked' = looked
  BY DEF Slo!Post, SloInv, SloInTime, SloActive
<1>4. /\ Cardinality(SloPosting') = Cardinality(SloPosting) - 1 /\ Cardinality(SloPosting') \in Nat
      /\ sloAt' \in [SloPod -> SloWhere] /\ sloAt'[p] = where /\ \A q \in SloPod : q # p => sloAt'[q] = sloAt[q]
  <2>1. where \in SloWhere /\ where # "posting"
    BY <1>2 DEF SloWhere, SloActive
  <2> QED BY <1>1, <1>2, <1>3, <2>1, SloPostingMoves
<1>5. harm' \in Nat /\ posts' \in Nat
  BY <1>1, <1>2, SloFaultCounts DEF SloFacts
<1>6. SloTypeOK' /\ SloStands' /\ SloDated' /\ SloInTime'
  BY <1>1, <1>2, <1>3, <1>4, <1>5 DEF SloInv, SloTypeOK, SloStands, SloDated, SloInTime, SloFacts,
     SloActive
<1>7. SloBudget'
  <2>1. where = "saving" => (SloMayStart' <=> SloMayStart)
    BY <1>1, <1>3, <1>4 DEF SloMayStart, SloFacts
  <2>2. SloOwed \in 0..1 /\ SloOwed' \in 0..1
    BY DEF SloOwed
  <2>3. CASE Slo!Fault
    <3>1. harm' = harm + 1 /\ posts' <= posts + 1
      BY <1>1, <1>2, <2>3, SloFaultCounts DEF SloFacts
    <3> QED BY <1>1, <1>4, <1>5, <2>2, <3>1 DEF SloInv, SloBudget, SloFacts
  <2>4. CASE where = "saving" /\ posts' = posts + 1 /\ harm' = harm
    <3>1. SloOwed' = SloOwed
      BY <2>1, <2>4 DEF SloOwed
    <3> QED BY <1>1, <1>4, <2>2, <2>4, <3>1 DEF SloInv, SloBudget, SloFacts
  <2> QED BY <1>2, <2>3, <2>4
<1>8. SloCalm'
  <2> SUFFICES ASSUME harm' = 0 PROVE SloCalmNow'
    BY DEF SloCalm, SloCalmNow
  <2>1. harm = 0 /\ where = "saving" /\ posts' = posts + 1 /\ SloCalmNow
    BY <1>1, <1>2, SloFaultCounts DEF SloInv, SloCalm, SloCalmNow
  <2>2. p = leader
    BY <1>3, <2>1 DEF SloCalmNow
  <2>3. posts = 0
    <3>1. Cardinality(SloPosting) = Cardinality(SloPosting') + 1 /\ SloOwed \in 0..1
      BY <1>1, <1>4 DEF SloFacts, SloOwed
    <3> QED BY <1>1, <1>4, <2>1, <3>1 DEF SloInv, SloBudget, SloFacts
  <2>4. lastReport # Slo!LocalDate
    BY <2>1, <2>3 DEF SloCalmNow
  <2> QED BY <1>1, <1>2, <1>3, <1>4, <2>1, <2>2, <2>3, <2>4 DEF SloCalmNow, SloFacts
<1> QED BY <1>6, <1>7, <1>8 DEF SloInv

LEMMA SloSaveKeeps == ASSUME SloNumbers, SloInv, NEW p \in SloPod, Slo!Save(p) PROVE SloInv'
<1>1. SloFacts /\ SloTypeOK
  BY SloStepFacts DEF Slo!Save, SloInv
<1>3. /\ sloAt[p] = "saving" /\ Slo!LocalHour = ReportHour /\ Slo!UtcDate = Slo!LocalDate
      /\ sloNow' = sloNow /\ leader' = leader /\ looked' = looked /\ posts' = posts
  BY <1>1 DEF Slo!Save, SloInv, SloInTime, SloActive, SloFacts
<1>2. \/ lastReport' = Slo!LocalDate /\ harm' = harm
      \/ lastReport' = Cut /\ Slo!Fault
  BY <1>3 DEF Slo!Save
<1>4. /\ Cardinality(SloPosting') = Cardinality(SloPosting)
      /\ sloAt' \in [SloPod -> SloWhere] /\ sloAt'[p] = "idle" /\ \A q \in SloPod : q # p => sloAt'[q] = sloAt[q]
  <2>1. "idle" \in SloWhere /\ Slo!Goto(p, "idle")
    BY DEF SloWhere, Slo!Save
  <2> QED BY <1>1, <1>3, <2>1, SloPostingMoves
<1>5. harm' \in Nat
  BY <1>1, <1>2, SloFaultCounts DEF SloFacts
<1>6. SloTypeOK' /\ SloStands' /\ SloDated' /\ SloInTime'
  <2>1. SloTypeOK'
    BY <1>1, <1>2, <1>3, <1>4, <1>5 DEF SloInv, SloTypeOK, SloFacts
  <2>2. SloDated'
    BY <1>1, <1>2 DEF SloDated, SloFacts, SloNumbers
  <2> QED BY <1>1, <1>3, <1>4, <2>1, <2>2 DEF SloInv, SloStands, SloInTime, SloFacts, SloActive
<1>7. SloBudget'
  <2>1. SloOwed \in 0..1 /\ SloOwed' \in 0..1
    BY DEF SloOwed
  <2>2. CASE Slo!Fault
    BY <1>1, <1>3, <1>4, <2>1, <2>2, SloFaultCounts DEF SloInv, SloBudget, SloFacts
  <2>3. CASE lastReport' = Slo!LocalDate /\ harm' = harm
    <3>1. SloMayStart' => SloMayStart
      BY <1>1, <1>3, <1>4, <2>3 DEF SloMayStart, SloFacts
    <3>2. SloOwed' <= SloOwed
      BY <3>1 DEF SloOwed
    <3> QED BY <1>1, <1>3, <1>4, <2>1, <2>3, <3>2 DEF SloInv, SloBudget, SloFacts
  <2> QED BY <1>2, <2>2, <2>3
<1>8. SloCalm'
  <2> SUFFICES ASSUME harm' = 0 PROVE SloCalmNow'
    BY DEF SloCalm, SloCalmNow
  <2>1. harm = 0 /\ lastReport' = Slo!LocalDate /\ SloCalmNow
    BY <1>1, <1>2, SloFaultCounts DEF SloInv, SloCalm, SloCalmNow
  <2>2. p = leader /\ posts = 1
    BY <1>3, <2>1 DEF SloCalmNow
  <2> QED BY <1>1, <1>3, <1>4, <2>1, <2>2 DEF SloCalmNow, SloFacts
<1> QED BY <1>6, <1>7, <1>8 DEF SloInv

LEMMA SloCrashKeeps == ASSUME SloNumbers, SloInv, NEW p \in SloPod, Slo!Crash(p) PROVE SloInv'
<1>1. SloFacts /\ SloTypeOK
  BY SloStepFacts DEF Slo!Crash, SloInv
<1>2. /\ sloAt[p] # "down" /\ Slo!Goto(p, "down") /\ sloNow' = sloNow /\ looked' = looked
      /\ leader' = IF leader = p THEN SloNobody ELSE leader
      /\ lastReport' \in {lastReport, Cut}
      /\ posts' = posts \/ (sloAt[p] = "posting" /\ posts' = posts + 1)
      /\ harm' = harm + 1 /\ harm' \in Nat /\ harm' # 0
  BY <1>1, SloFaultCounts DEF Slo!Crash
<1>3. /\ Cardinality(SloPosting') = Cardinality(SloPosting) - (IF sloAt[p] = "posting" THEN 1 ELSE 0)
      /\ Cardinality(SloPosting') \in Nat
      /\ sloAt' \in [SloPod -> SloWhere] /\ sloAt'[p] = "down" /\ \A q \in SloPod : q # p => sloAt'[q] = sloAt[q]
  <2>1. "down" \in SloWhere
    BY DEF SloWhere
  <2> QED BY <1>1, <1>2, <2>1, SloPostingMoves DEF SloFacts
<1>4. posts' \in Nat
  BY <1>1, <1>2 DEF SloFacts
<1>5. SloTypeOK'
  BY <1>1, <1>2, <1>3, <1>4 DEF SloTypeOK
<1>6. SloStands' /\ SloInTime' /\ SloDated'
  BY <1>1, <1>2, <1>3 DEF SloInv, SloNumbers, SloStands, SloInTime, SloDated, SloFacts, SloActive
<1>7. SloBudget'
  <2>1. SloOwed \in 0..1 /\ SloOwed' \in 0..1
    BY DEF SloOwed
  <2> QED BY <1>1, <1>2, <1>3, <1>4, <2>1 DEF SloInv, SloBudget, SloFacts
<1>8. SloCalm'
  BY <1>2 DEF SloCalm
<1> QED BY <1>5, <1>6, <1>7, <1>8 DEF SloInv

LEMMA SloRestartKeeps == ASSUME SloNumbers, SloInv, NEW p \in SloPod, Slo!Restart(p) PROVE SloInv'
<1>1. SloFacts /\ SloTypeOK
  BY SloStepFacts DEF Slo!Restart, SloInv
<1>2. /\ sloAt[p] = "down" /\ Slo!Goto(p, "off") /\ sloNow' = sloNow /\ looked' = looked
      /\ leader' = leader /\ lastReport' = lastReport /\ posts' = posts /\ harm' = harm
      /\ leader # p
  BY DEF Slo!Restart, SloInv, SloStands
<1>3. /\ Cardinality(SloPosting') = Cardinality(SloPosting)
      /\ sloAt' \in [SloPod -> SloWhere] /\ sloAt'[p] = "off" /\ \A q \in SloPod : q # p => sloAt'[q] = sloAt[q]
  <2>1. "off" \in SloWhere
    BY DEF SloWhere
  <2> QED BY <1>1, <1>2, <2>1, SloPostingMoves
<1>5. SloTypeOK' /\ SloStands' /\ SloInTime' /\ SloDated'
  BY <1>1, <1>2, <1>3 DEF SloInv, SloTypeOK, SloStands, SloInTime, SloDated, SloFacts, SloActive
<1>6. SloMayStart' <=> SloMayStart
  BY <1>1, <1>2, <1>3 DEF SloMayStart, SloFacts
<1>7. SloBudget'
  <2>1. SloOwed' = SloOwed
    BY <1>6 DEF SloOwed
  <2> QED BY <1>2, <1>3, <2>1 DEF SloInv, SloBudget
<1>8. SloCalm'
  BY <1>1, <1>2, <1>3 DEF SloInv, SloCalm, SloFacts
<1> QED BY <1>5, <1>7, <1>8 DEF SloInv

LEMMA SloLoseLeadKeeps == ASSUME SloNumbers, SloInv, Slo!LoseLead PROVE SloInv'
<1>1. SloFacts /\ SloTypeOK
  BY SloStepFacts DEF Slo!LoseLead, SloInv
<1>2. /\ leader' = SloNobody /\ sloNow' = sloNow /\ lastReport' = lastReport /\ sloAt' = sloAt /\ posts' = posts
      /\ harm' = harm + 1 /\ harm' \in Nat /\ harm' # 0
  BY <1>1, SloFaultCounts DEF Slo!LoseLead
<1>3. SloTypeOK' /\ SloStands' /\ SloInTime' /\ SloDated'
  BY <1>1, <1>2 DEF SloInv, SloNumbers, SloTypeOK, SloStands, SloInTime, SloDated, SloFacts
<1>4. SloBudget'
  <2>1. SloOwed \in 0..1 /\ SloOwed' \in 0..1 /\ SloPosting' = SloPosting
    BY <1>2 DEF SloOwed, SloPosting
  <2> QED BY <1>1, <1>2, <2>1 DEF SloInv, SloBudget, SloFacts
<1>5. SloCalm'
  BY <1>2 DEF SloCalm
<1> QED BY <1>3, <1>4, <1>5 DEF SloInv

LEMMA SloStandDownKeeps == ASSUME SloNumbers, SloInv, NEW p \in SloPod, Slo!StandDown(p) PROVE SloInv'
<1>1. SloFacts /\ SloTypeOK
  BY SloStepFacts DEF Slo!StandDown, SloInv
<1>2. /\ leader # p /\ Slo!Goto(p, "off") /\ sloNow' = sloNow /\ looked' = looked
      /\ leader' = leader /\ lastReport' = lastReport /\ harm' = harm
      /\ posts' = posts \/ (sloAt[p] = "posting" /\ posts' = posts + 1)
  BY DEF Slo!StandDown
<1>3. /\ Cardinality(SloPosting') = Cardinality(SloPosting) - (IF sloAt[p] = "posting" THEN 1 ELSE 0)
      /\ Cardinality(SloPosting') \in Nat
      /\ sloAt' \in [SloPod -> SloWhere] /\ sloAt'[p] = "off" /\ \A q \in SloPod : q # p => sloAt'[q] = sloAt[q]
  <2>1. "off" \in SloWhere
    BY DEF SloWhere
  <2> QED BY <1>1, <1>2, <2>1, SloPostingMoves DEF SloFacts
<1>4. posts' \in Nat
  BY <1>1, <1>2 DEF SloFacts
<1>5. SloTypeOK' /\ SloStands' /\ SloInTime' /\ SloDated'
  BY <1>1, <1>2, <1>3, <1>4 DEF SloInv, SloTypeOK, SloStands, SloInTime, SloDated, SloFacts,
     SloActive
<1>6. SloMayStart' <=> SloMayStart
  BY <1>1, <1>2, <1>3 DEF SloMayStart, SloFacts
<1>7. SloBudget'
  <2>1. SloOwed' = SloOwed /\ SloOwed \in 0..1
    BY <1>6 DEF SloOwed
  <2> QED BY <1>1, <1>2, <1>3, <1>4, <2>1 DEF SloInv, SloBudget, SloFacts
<1>8. SloCalm'
  <2> SUFFICES ASSUME harm' = 0 PROVE SloCalmNow'
    BY DEF SloCalm, SloCalmNow
  <2>1. harm = 0 /\ SloCalmNow
    BY <1>2 DEF SloInv, SloCalm, SloCalmNow
  <2>2. posts' = posts
    BY <1>2, <2>1 DEF SloCalmNow
  <2> QED BY <1>1, <1>2, <1>3, <2>1, <2>2 DEF SloCalmNow, SloFacts
<1> QED BY <1>5, <1>7, <1>8 DEF SloInv

\* Nobody leads only after a fault of the day.
LEMMA SloTakeOverKeeps == ASSUME SloNumbers, SloInv, NEW p \in SloPod, Slo!TakeOver(p) PROVE SloInv'
<1>1. SloFacts /\ SloTypeOK
  BY SloStepFacts DEF Slo!TakeOver, SloInv
<1>2. /\ leader = SloNobody /\ sloAt[p] = "off" /\ Slo!Goto(p, "idle") /\ sloNow' = sloNow
      /\ leader' = p /\ lastReport' = lastReport /\ harm' = harm /\ posts' = posts
      /\ leader \notin SloPod
  BY DEF Slo!TakeOver, SloNumbers
<1>3. /\ Cardinality(SloPosting') = Cardinality(SloPosting)
      /\ sloAt' \in [SloPod -> SloWhere] /\ sloAt'[p] = "idle" /\ \A q \in SloPod : q # p => sloAt'[q] = sloAt[q]
  <2>1. "idle" \in SloWhere
    BY DEF SloWhere
  <2> QED BY <1>1, <1>2, <2>1, SloPostingMoves
<1>4. SloTypeOK' /\ SloStands' /\ SloInTime' /\ SloDated'
  <2>1. looked' \in {TRUE, FALSE} => SloTypeOK'
    BY <1>1, <1>2, <1>3 DEF SloTypeOK
  <2>2. SloTypeOK'
    BY <1>1, <1>2, <1>3, <2>1 DEF SloTypeOK, Slo!TakeOver
  <2> QED BY <1>1, <1>2, <1>3, <2>2 DEF SloInv, SloStands, SloInTime, SloDated, SloFacts, SloActive
<1>5. SloMayStart' <=> SloMayStart
  BY <1>1, <1>2, <1>3 DEF SloMayStart, SloFacts
<1>6. SloBudget'
  <2>1. SloOwed' = SloOwed
    BY <1>5 DEF SloOwed
  <2> QED BY <1>2, <1>3, <2>1 DEF SloInv, SloBudget
<1>7. SloCalm'
  BY <1>2 DEF SloInv, SloCalm
<1> QED BY <1>4, <1>6, <1>7 DEF SloInv

LEMMA SloHourKeeps == ASSUME SloNumbers, SloInv, Slo!Hour PROVE SloInv'
<1>1. SloTypeOK /\ Slo!LocalHour \in Nat /\ Slo!LocalDate \in Nat /\ ReportHour \in Nat
  BY SloClock DEF SloInv, SloNumbers
<1>2. /\ sloNow' = sloNow + 1 /\ looked' = FALSE /\ leader # SloNobody /\ (looked \/ sloAt[leader] = "dead")
      /\ \A p \in SloPod : sloAt[p] \notin SloActive
      /\ lastReport' = lastReport /\ sloAt' = sloAt /\ leader' = leader
      /\ IF Slo!LocalDate' # Slo!LocalDate THEN posts' = 0 /\ harm' = 0 ELSE posts' = posts /\ harm' = harm
  BY DEF Slo!Hour, SloActive
<1>3. \/ Slo!LocalHour' = Slo!LocalHour + 1 /\ Slo!LocalDate' = Slo!LocalDate
      \/ Slo!LocalHour' = 0 /\ Slo!LocalDate' = Slo!LocalDate + 1
  BY <1>1, <1>2, SloNextHour
<1>4. leader \in SloPod /\ sloAt[leader] \in {"idle", "dead"}
  <2>1. leader \in SloPod
    BY <1>1, <1>2 DEF SloTypeOK
  <2>2. sloAt[leader] \in SloWhere
    BY <1>1, <2>1 DEF SloTypeOK
  <2> QED BY <1>2, <2>1, <2>2 DEF SloInv, SloStands, SloWhere, SloActive
<1>5. SloTypeOK'
  BY <1>1, <1>2, <1>3 DEF SloTypeOK
<1>6. SloStands' /\ SloInTime'
  BY <1>2 DEF SloInv, SloStands, SloInTime
<1>7. SloDated'
  <2>1. lastReport \in Nat => lastReport <= Slo!LocalDate
    BY DEF SloInv, SloDated
  <2> QED BY <1>1, <1>2, <1>3, <2>1 DEF SloDated
<1>8. CASE Slo!LocalDate' = Slo!LocalDate
  <2>1. Slo!LocalHour' = Slo!LocalHour + 1 /\ posts' = posts /\ harm' = harm
    BY <1>1, <1>2, <1>3, <1>8
  <2>2. SloBudget'
    <3>1. (SloMayStart' <=> SloMayStart) /\ SloPosting' = SloPosting
      BY <1>2, <1>8 DEF SloMayStart, SloPosting
    <3>2. SloOwed' = SloOwed
      BY <3>1 DEF SloOwed
    <3> QED BY <2>1, <3>1, <3>2 DEF SloInv, SloBudget
  <2>3. SloCalm'
    <3> SUFFICES ASSUME harm' = 0 PROVE SloCalmNow'
      BY DEF SloCalm, SloCalmNow
    <3>1. SloCalmNow
      BY <2>1 DEF SloInv, SloCalm, SloCalmNow
    <3>2. ASSUME Slo!LocalHour' > ReportHour, sloAt[leader] # "dead" PROVE lastReport = Slo!LocalDate
      <4>1. Slo!LocalHour = ReportHour \/ Slo!LocalHour > ReportHour
        BY <1>1, <2>1, <3>2
      <4> QED BY <1>2, <1>4, <3>1, <3>2, <4>1 DEF SloCalmNow
    <3> QED BY <1>2, <1>4, <1>8, <2>1, <3>1, <3>2 DEF SloCalmNow, SloActive
  <2> QED BY <1>5, <1>6, <1>7, <2>2, <2>3 DEF SloInv
<1>9. CASE Slo!LocalDate' # Slo!LocalDate
  <2>1. Slo!LocalHour' = 0 /\ Slo!LocalDate' = Slo!LocalDate + 1 /\ posts' = 0 /\ harm' = 0
    BY <1>2, <1>3, <1>9
  <2>2. SloBudget'
    <3>1. SloPosting' = {}
      BY <1>2 DEF SloPosting, SloActive
    <3>2. Cardinality(SloPosting') = 0
      BY <3>1, FS_EmptySet
    <3> QED BY <2>1, <3>2 DEF SloBudget, SloOwed
  <2>3. SloCalm'
    <3>1. lastReport # Slo!LocalDate'
      <4>1. lastReport \in Nat => lastReport <= Slo!LocalDate
        BY DEF SloInv, SloDated
      <4>2. Slo!LocalDate' \in Nat
        BY <1>1, <2>1
      <4> QED BY <1>1, <2>1, <4>1, <4>2
    <3> QED BY <1>1, <1>2, <1>4, <2>1, <3>1 DEF SloCalm, SloActive
  <2> QED BY <1>5, <1>6, <1>7, <2>2, <2>3 DEF SloInv
<1> QED BY <1>8, <1>9

LEMMA SloInvNext == SloNumbers /\ SloInv /\ [Slo!Next]_(Slo!sloVars) => SloInv'
<1> SUFFICES ASSUME SloNumbers, SloInv, [Slo!Next]_(Slo!sloVars) PROVE SloInv'
  OBVIOUS
<1>1. CASE Slo!Next
  <2>1. ASSUME NEW p \in SloPod, \/ Slo!Look(p) \/ Slo!Make(p) \/ Slo!Post(p) \/ Slo!Save(p)
                                 \/ Slo!Crash(p) \/ Slo!Restart(p) \/ Slo!StandDown(p) \/ Slo!TakeOver(p)
        PROVE  SloInv'
    BY <2>1, SloLookKeeps, SloMakeKeeps, SloPostKeeps, SloSaveKeeps, SloCrashKeeps, SloRestartKeeps,
       SloStandDownKeeps, SloTakeOverKeeps
  <2> QED BY <1>1, <2>1, SloLoseLeadKeeps, SloHourKeeps DEF Slo!Next
<1>2. CASE UNCHANGED Slo!sloVars
  BY <1>2 DEF Slo!sloVars, SloInv, SloTypeOK, SloStands, SloInTime, SloDated, SloBudget, SloCalm,
     SloPosting, SloMayStart, SloOwed, Slo!LocalHour, Slo!LocalDate
<1> QED BY <1>1, <1>2

LEMMA SloInvReports == ASSUME SloNumbers, SloInv PROVE Slo!OnceADay
<1>1. posts <= 1 + harm
  <2>1. posts \in Nat /\ harm \in Nat /\ Cardinality(SloPosting) \in Nat /\ SloOwed \in 0..1
    BY SloPostingCount DEF SloInv, SloTypeOK, SloOwed
  <2> QED BY <2>1 DEF SloInv, SloBudget
<1>2. ASSUME Slo!LocalHour > ReportHour, harm = 0, sloAt[leader] # "dead" PROVE posts = 1
  BY <1>2 DEF SloInv, SloCalm
<1> QED BY <1>1, <1>2 DEF Slo!OnceADay

\* A report goes out once a day: once more only for a fault of the day, and not
\* at all only for a fault or a task that a cut file ended (slo_reporter.py 49-94).
THEOREM ReportsOnceADay == ASSUME SloNumbers PROVE Slo!Spec => []Slo!OnceADay
<1>1. Slo!Init => SloInv
  BY SloInvInit
<1>2. SloInv /\ [Slo!Next]_(Slo!sloVars) => SloInv'
  BY SloInvNext
<1>3. SloInv => Slo!OnceADay
  BY SloInvReports
<1> QED BY <1>1, <1>2, <1>3, PTL DEF Slo!Spec
=============================================================================
