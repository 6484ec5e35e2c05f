-------------------------- MODULE AgentOrchestrator --------------------------
(* The fan-out of one analysis to the specialised agents (backend/app/agents/ *)
(* orchestrator.py, base.py, model_selector.py): the agents run at the same   *)
(* time, each under its own timeout; any of them may fail, and the answer is  *)
(* put together from what is left.                                            *)
EXTENDS Naturals, Sequences, SequencesExt, FiniteSets, FiniteSetsExt

CONSTANTS
    Agent,       \* the agents of the orchestrator
    NameOfAgent, \* [Agent -> names]: what an agent calls itself
    Timeout,     \* [Agent -> 1..]: how long each may take
    Named,       \* the names an analysis may ask for, known or not
    Advice,      \* the texts of recommendations
    Normal,      \* [Advice -> texts]: in lower case, without outer blanks
    MaxAdvice,   \* bound: recommendations in one answer
    MaxNames     \* bound: names asked for

VARIABLES
    asked,     \* the names asked for, in order
    tasks,     \* the agents started, in order: the unknown names are skipped
    outcome,   \* position in tasks -> [kind, confidence, advice, critical]
    age,       \* time since the analysis started
    report     \* the aggregated answer, or NoReport

agentVars == <<asked, tasks, outcome, age, report>>

NoReport == [done |-> FALSE]
Failed(kind) == [kind |-> kind, confidence |-> 0, advice |-> <<>>, critical |-> FALSE]
Pending == Failed("pending")
\* The advice in the order and as often as the model wrote it; critical: the
\* overall risk in the insights.
Outcome == [kind : {"success"}, confidence : {0, 65, 80},
            advice : UNION {[1..n -> Advice] : n \in 0..MaxAdvice}, critical : BOOLEAN]

\* The agents known under the names, in the order of the names.
Started(names) ==
    LET known == {i \in DOMAIN names : names[i] \in Agent}
        nth(n) == CHOOSE i \in known : Cardinality({j \in known : j <= i}) = n
    IN  [n \in 1..Cardinality(known) |-> names[nth(n)]]

Init ==
    /\ asked \in UNION {[1..n -> Named] : n \in 0..MaxNames}
    /\ tasks = Started(asked)
    /\ outcome = [i \in DOMAIN tasks |-> Pending]
    /\ age = 0
    /\ report = NoReport

------------------------------------------------------------------------------
(* _determine_agents: each agent reads keys of its own in the context. *)
DetermineAgents(present, keys) == {a \in DOMAIN keys : keys[a] \cap present # {}}

(* select_model: complexity in hundredths, from the volume of the data and    *)
(* the flags of the request.                                                  *)
Clamp(n, low, high) == IF n < low THEN low ELSE IF n > high THEN high ELSE n
Complexity(logs, metrics, sources, flags) ==
    LET volume == IF logs > 1000 THEN 40 ELSE IF logs > 100 THEN 20
                  ELSE IF logs > 10 THEN 10 ELSE 0
        series == IF metrics > 50 THEN 20 ELSE IF metrics > 10 THEN 10 ELSE 0
        spread == IF sources >= 2 THEN 30 ELSE 15 * sources
        need == (IF "deep" \in flags THEN 20 ELSE 0)
                  + (IF "multi_hop" \in flags THEN 15 ELSE 0)
                  + (IF "correlation" \in flags THEN 15 ELSE 0)
        total == volume + series + spread + need
    IN  IF "cost_critical" \in flags
        THEN Clamp(total, 20, 120) - 20 ELSE Clamp(total, 0, 100)
Tier(complexity) ==
    IF complexity < 30 THEN "fast" ELSE IF complexity < 70 THEN "balanced" ELSE "capable"

------------------------------------------------------------------------------
Respond(i, response) ==
    /\ ~report.done /\ outcome[i] = Pending /\ age < Timeout[tasks[i]]
    /\ outcome' = [outcome EXCEPT ![i] = response]
    /\ UNCHANGED <<asked, tasks, age, report>>

\* The call to the model raises, or its answer cannot be read: the agent says so.
Catch(i) == Respond(i, Failed("error"))

\* It raises before that, on data it did not expect.
Raise(i) == Respond(i, Failed("raised"))

TimeOut(i) ==
    /\ ~report.done /\ outcome[i] = Pending /\ age >= Timeout[tasks[i]]
    /\ outcome' = [outcome EXCEPT ![i] = Failed("timeout")]
    /\ UNCHANGED <<asked, tasks, age, report>>

Tick ==
    /\ ~report.done
    /\ \E i \in DOMAIN tasks : outcome[i] = Pending
    /\ \A i \in DOMAIN tasks : outcome[i] = Pending => age < Timeout[tasks[i]]
    /\ age' = age + 1
    /\ UNCHANGED <<asked, tasks, outcome, report>>

(* A response carries the name its agent gives itself.  An exception is named *)
(* after the name asked for in its position, which is another agent's once an *)
(* unknown name was skipped before it.                                        *)
NameOf(i) == IF outcome[i].kind = "raised" THEN asked[i] ELSE NameOfAgent[tasks[i]]

Successful == {i \in DOMAIN tasks : outcome[i].kind = "success"}

\* The mean of the confidences above 0.
Confidence ==
    LET sure == {i \in Successful : outcome[i].confidence > 0}
    IN  IF sure = {} THEN 0
        ELSE FoldSet(LAMBDA i, sum : sum + outcome[i].confidence, 0, sure)
               \div Cardinality(sure)

\* Every occurrence of a recommendation is a vote, a repeated one of the same
\* agent too; a majority is of all the agents that ran.
Mentions(advice) ==
    {m \in Successful \X (1..MaxAdvice) :
       m[2] \in DOMAIN outcome[m[1]].advice /\ outcome[m[1]].advice[m[2]] = advice}
Votes(advice) == Cardinality(Mentions(advice))
MajorityOfSuccessful(advice) == Votes(advice) >= Cardinality(Successful) \div 2 + 1
Majority(advice) == Votes(advice) >= Len(tasks) \div 2 + 1

\* One of each that read the same.
Recommendations == {Normal[a] : a \in {b \in Advice : Mentions(b) # {}}}

\* What the answer says of an agent is the last response under its name.
LastOfItsName(i) == \A j \in DOMAIN tasks : j > i => NameOf(j) # NameOf(i)
NeedsConsensus ==
    \/ Confidence < 60
    \/ Cardinality(Recommendations) > 5
    \/ \E i \in Successful :
         LastOfItsName(i) /\ outcome[i].confidence < 70 /\ outcome[i].critical

Aggregate ==
    /\ ~report.done
    /\ \A i \in DOMAIN tasks : outcome[i] # Pending
    /\ report' =
         IF asked = <<>>
         THEN [done |-> TRUE, agents |-> {}, errors |-> {}, insights |-> {},
               recommendations |-> {}, confidence |-> 0, consensus |-> {}, error |-> TRUE]
         ELSE [done |-> TRUE,
               agents |-> {NameOf(i) : i \in DOMAIN tasks},
               errors |-> {NameOf(i) : i \in DOMAIN tasks \ Successful},
               insights |-> {NameOf(i) : i \in Successful},
               recommendations |-> Recommendations,
               confidence |-> Confidence,
               consensus |-> IF NeedsConsensus
                             THEN {a \in Advice : Majority(a)} ELSE {},
               error |-> FALSE]
    /\ UNCHANGED <<asked, tasks, outcome, age>>

Next ==
    \/ \E i \in DOMAIN tasks :
         \/ \E response \in Outcome : Respond(i, response)
         \/ Catch(i) \/ Raise(i) \/ TimeOut(i)
    \/ Tick
    \/ Aggregate

\* Every agent runs under asyncio.wait_for, and gather waits for all of them.
Progress == Tick \/ Aggregate \/ \E i \in DOMAIN tasks : TimeOut(i)
AgentFairness == WF_agentVars(Progress)
Spec == Init /\ [][Next]_agentVars
FairSpec == Spec /\ AgentFairness

------------------------------------------------------------------------------
NamesOnce(i, advice) == Cardinality({m \in Mentions(advice) : m[1] = i}) <= 1

(* Whatever agents fail or hang, an analysis that named known agents, each    *)
(* once, reports every one of them under a name of its own, either with       *)
(* insights or with an error; and what the answer calls a consensus was said   *)
(* by more than half of the agents, the failed ones counted, unless an agent    *)
(* repeated itself (orchestrator.py 205-258, 296-345, 376-414).               *)
ReportIsComplete ==
    (report.done /\ ~report.error /\ IsInjective(asked) /\ Range(asked) \subseteq Agent) =>
        /\ report.agents = report.insights \cup report.errors
        /\ report.insights = {NameOfAgent[tasks[i]] : i \in Successful}
        /\ Cardinality(report.errors) + Cardinality(Successful) = Len(asked)
        /\ \A a \in report.consensus : (\A i \in Successful : NamesOnce(i, a)) =>
             2 * Cardinality({i \in Successful : \E m \in Mentions(a) : m[1] = i})
               > Cardinality(report.agents)

\* Every analysis is answered, however its agents hang (orchestrator.py 264-300).
Answered == report.done
AnalysisAnswers == []<>Answered
==============================================================================
