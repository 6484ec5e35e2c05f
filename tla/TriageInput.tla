----------------------------- MODULE TriageInput -----------------------------
(***************************************************************************)
(* What the triage analysis shows the model (backend/app/services/           *)
(* llm_input.py, llm_client.py, api/v1/analyze.py): the log lines that fit    *)
(* the input budget, and the alert history collapsed to one entry per rule.  *)
(* The history is the file the alert engine writes (alerting/state.py).       *)
(***************************************************************************)
EXTENDS Windows, Integers, Sequences, SequencesExt, FiniteSets, FiniteSetsExt

CONSTANTS
  Rule,        \* alert rules: [name, severity]
  MaxEntries,  \* entries the history file keeps
  MaxGroups,   \* alerts shown at most
  MaxEvents    \* bound: events, which are numbered as they happen

VARIABLES
  firing,      \* rules that fire
  history,     \* the file: [rule, status, at], newest first
  events       \* events so far

triageVars == <<firing, history, events>>

Init == firing = {} /\ history = <<>> /\ events = 0

\* AlertHistory.add puts an event in front and cuts the rest.
Add(event) ==
  LET longer == <<event>> \o history
  IN  history' = SubSeq(longer, 1, Min({Len(longer), MaxEntries}))
Happens(rule, status) ==
  /\ events < MaxEvents /\ events' = events + 1
  /\ Add([rule |-> rule, status |-> status, at |-> events + 1])
FireAlert(rule) ==
  rule \notin firing /\ firing' = firing \cup {rule} /\ Happens(rule, "firing")
ResolveAlert(rule) ==
  rule \in firing /\ firing' = firing \ {rule} /\ Happens(rule, "resolved")

Next == \E rule \in Rule : FireAlert(rule) \/ ResolveAlert(rule)
Spec == Init /\ [][Next]_triageVars

-----------------------------------------------------------------------------
\* _get_alerts_context: what happened before the window, or is less severe than
\* asked for, is left out.
InScope(since, severities) ==
  Kept(history, {e \in ToSet(history) : e.at >= since /\ e.rule.severity \in severities})

\* Positions of the alerts of one group: those with its name and severity.
GroupOf(alerts, i) == {j \in DOMAIN alerts : alerts[j].rule = alerts[i].rule}
Firsts(alerts) == {i \in DOMAIN alerts : i = Min(GroupOf(alerts, i))}

\* A plausible slip: the cut is made before the alerts are grouped.
CutFirst(alerts) ==
  LET few == SubSeq(alerts, 1, Min({Len(alerts), MaxGroups}))
  IN  {[rule |-> few[i].rule, occurrences |-> Cardinality(GroupOf(few, i)),
        shown |-> few[Max(GroupOf(few, i))]] : i \in Firsts(few)}

\* dedupe_alerts: a group keeps the place of its first alert and shows the
\* status, message and time of the last one in the order of the history.
DedupeAlerts(alerts) ==
  {[rule |-> alerts[i].rule,
    occurrences |-> Cardinality(GroupOf(alerts, i)),
    shown |-> alerts[Max(GroupOf(alerts, i))]] :
     i \in {i \in Firsts(alerts) :
              Cardinality({f \in Firsts(alerts) : f <= i}) <= MaxGroups}}

-----------------------------------------------------------------------------
\* _bucket_for_log.
Bucket(level) ==
  CASE level \in {"critical", "fatal", "alert", "emerg"} -> "critical"
    [] level \in {"error", "err"} -> "error"
    [] level \in {"warn", "warning"} -> "warning"
    [] OTHER -> "info"

\* sample_logs_by_severity, as the positions of the lines it keeps.
RankInBucket(logs, i) ==
  Cardinality({j \in 1..i : Bucket(logs[j].level) = Bucket(logs[i].level)})
SampleLogsBySeverity(logs, rung) ==
  IF Len(logs) <= rung.trigger THEN DOMAIN logs
  ELSE {i \in DOMAIN logs : RankInBucket(logs, i) <= rung.quota[Bucket(logs[i].level)]}

\* A long message is cut to its head.
Estimate(logs, kept, cap) ==
  LET upto[n \in 0..Len(logs)] ==
        IF n = 0 THEN 0
        ELSE upto[n - 1] + (IF n \in kept THEN Min({logs[n].size, cap}) ELSE 0)
  IN  upto[Len(logs)]

\* _fit_logs_section: the first rung that fits what the other sections leave;
\* no line when none does.
FitLogsSection(logs, ladder, cap, remaining) ==
  LET kept(k) == SampleLogsBySeverity(logs, ladder[k])
      fits == {k \in DOMAIN ladder :
                 kept(k) # {} /\ Estimate(logs, kept(k), cap) <= remaining}
  IN  IF fits = {} THEN {} ELSE kept(Min(fits))

-----------------------------------------------------------------------------
(* An alert storm is shown whole: every rule of the newest events is there    *)
(* once, with as many occurrences as the history holds, and only when more    *)
(* rules fired than are shown does one go missing (llm_input.py 124-164).     *)
StormIsCounted ==
  \A since \in 0..MaxEvents :
    LET alerts == InScope(since, {rule.severity : rule \in Rule})
        groups == DedupeAlerts(alerts)
        rules == {alerts[i].rule : i \in DOMAIN alerts}
    IN  /\ Cardinality(groups) = Min({MaxGroups, Cardinality(rules)})
        /\ Cardinality({g.rule : g \in groups}) = Cardinality(groups)
        /\ \A g \in groups :
             g.occurrences = Len(Kept(alerts, {e \in ToSet(alerts) : e.rule = g.rule}))
        /\ alerts # <<>> => \E g \in groups : g.rule = alerts[1].rule

(* Each entry shows the latest state of its rule: a rule that was resolved is *)
(* not shown as firing (llm_input.py 131-133, 151-152).                       *)
LatestStateShown ==
  \A g \in DedupeAlerts(history) : (g.shown.status = "firing") = (g.rule \in firing)

(* A larger budget never shows less, what is shown fits, and of two lines in  *)
(* one bucket the newer one stays (llm_client.py 246-303, llm_input.py 59-98). *)
BudgetIsMonotone(logs, ladder, cap, low, high) ==
  LET little == FitLogsSection(logs, ladder, cap, low)
      much == FitLogsSection(logs, ladder, cap, high)
  IN  low <= high =>
        /\ little \subseteq much
        /\ much # {} => Estimate(logs, much, cap) <= high
        /\ \A i \in much, j \in DOMAIN logs \ much :
             Bucket(logs[i].level) = Bucket(logs[j].level) => i < j
=============================================================================
