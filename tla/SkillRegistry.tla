---------------------------- MODULE SkillRegistry ----------------------------
(* The registry that runs the analysis skills (backend/app/skills/registry.py *)
(* and base.py): executions of one skill overlap, its configuration may be    *)
(* replaced or the skill dropped while one runs, and results and history are  *)
(* kept in memory up to a cap.                                                *)
EXTENDS Naturals, Sequences, SequencesExt, FiniteSets

CONSTANTS
    Skill,        \* skill ids
    Stub,         \* those with no data source: listed, never executed
    MaxResults,   \* MAX_RESULTS_SIZE
    MaxHistory,   \* MAX_HISTORY_SIZE
    MaxTimeout,   \* bound: timeout_seconds, in ticks
    MaxRuns       \* bound: executions started

VARIABLES
    config,    \* registered skill -> [enabled, timeout]
    status,    \* skill -> the status last written for it
    running,   \* executions in flight: [id, skill, timeout, left]
    results,   \* ids whose result is kept, oldest first
    history,   \* completed executions, oldest first: [id, success]
    answered,  \* history of the model: ids answered, oldest first
    started    \* executions started so far

skillVars == <<config, status, running, results, history, answered, started>>

Config == [enabled : BOOLEAN, timeout : 1..MaxTimeout]

Init ==
    /\ config = [s \in Skill |-> [enabled |-> TRUE, timeout |-> MaxTimeout]]
    /\ status = [s \in Skill |-> "none"]
    /\ running = {} /\ started = 0
    /\ results = <<>> /\ history = <<>> /\ answered = <<>>

------------------------------------------------------------------------------
\* A plausible slip: the trim drops the newest entries.
KeepOldest(s, n) == IF Len(s) <= n THEN s ELSE SubSeq(s, 1, n)
\* The newest entries of s, up to n of them.
KeepNewest(s, n) == IF Len(s) <= n THEN s ELSE SubSeq(s, Len(s) - n + 1, Len(s))

Executable(s) == s \in DOMAIN config /\ config[s].enabled /\ s \notin Stub

(* The configuration is read once, when the execution starts. *)
Execute(s) ==
    /\ Executable(s) /\ started < MaxRuns
    /\ started' = started + 1
    /\ status' = [status EXCEPT ![s] = "running"]
    /\ running' = running \cup {[id |-> started + 1, skill |-> s,
                                 timeout |-> config[s].timeout,
                                 left |-> config[s].timeout]}
    /\ UNCHANGED <<config, results, history, answered>>

(* The analysis returns: an analysis may complete without success. *)
Complete(r) ==
    /\ running' = running \ {r}
    /\ results' = KeepNewest(Append(results, r.id), MaxResults)
    /\ status' = [status EXCEPT ![r.skill] = "completed"]
    /\ \E success \in BOOLEAN :
         history' = KeepNewest(Append(history, [id |-> r.id, success |-> success]),
                               MaxHistory)
    /\ answered' = Append(answered, r.id)
    /\ UNCHANGED <<config, started>>

\* It raises, or its timeout cancels it: no result, and no line of history.
Fail(r) ==
    /\ running' = running \ {r}
    /\ status' = [status EXCEPT ![r.skill] = "failed"]
    /\ UNCHANGED <<config, results, history, answered, started>>

Tick ==
    /\ running # {} /\ \A r \in running : r.left > 0
    /\ running' = {[r EXCEPT !.left = @ - 1] : r \in running}
    /\ UNCHANGED <<config, status, results, history, answered, started>>

UpdateSkillConfig(s) ==
    /\ s \in DOMAIN config
    /\ \E c \in Config : config' = [config EXCEPT ![s] = c]
    /\ UNCHANGED <<status, running, results, history, answered, started>>

Unregister(s) ==
    /\ s \in DOMAIN config
    /\ config' = [t \in DOMAIN config \ {s} |-> config[t]]
    /\ UNCHANGED <<status, running, results, history, answered, started>>

Next ==
    \/ \E s \in Skill : Execute(s) \/ UpdateSkillConfig(s) \/ Unregister(s)
    \/ \E r \in running : Complete(r) \/ Fail(r)
    \/ Tick

\* A skill is cut off when its time is up; nothing else is sure to happen.
CutOff == \E r \in running : r.left = 0 /\ Fail(r)
SkillFairness == WF_skillVars(Tick) /\ WF_skillVars(CutOff)
Spec == Init /\ [][Next]_skillVars
FairSpec == Spec /\ SkillFairness

\* What get_statistics reports.
Statistics ==
    LET good == SelectSeq(history, LAMBDA h : h.success)
    IN  [total |-> Len(history), successful |-> Len(good),
         failed |-> Len(history) - Len(good)]

------------------------------------------------------------------------------
(* Whatever finishes in whatever order, the registry keeps the results of the *)
(* latest answers, until MaxResults later ones came, and its statistics count *)
(* the latest answers and nothing else (registry.py 230-262, 347-390).        *)
LatestResultsKept ==
    LET newest(n) == {answered[i] : i \in {j \in DOMAIN answered : Len(answered) - j < n}}
    IN  /\ Range(results) = newest(MaxResults)
        /\ {history[i].id : i \in DOMAIN history} = newest(MaxHistory)
        /\ Statistics.total = Cardinality(newest(MaxHistory))

\* No execution outlives the timeout it started with, however its skill is
\* configured or dropped meanwhile (registry.py 207-273).
Over(i) == \A r \in running : r.id # i
ExecutionsEnd == \A i \in 1..MaxRuns : []<>Over(i)
==============================================================================
