----------------------------- MODULE ServiceHealth -----------------------------
(***************************************************************************)
(* What the service says of the health of others: the readiness of the        *)
(* backend itself (backend/app/main.py) and the dependency health skill       *)
(* (backend/app/skills/reliability/dependency_health.py).  Pure functions.    *)
(***************************************************************************)
EXTENDS Naturals, FiniteSets

Source == {"elasticsearch", "prometheus", "kubernetes", "redis"}

\* _probe: how a check ends.
Probed(ends) == IF ends = "answers" THEN "up" ELSE "down"

\* The Kubernetes API is up when it lists a node.
KubernetesEnds(loaded, nodes) == IF loaded /\ nodes > 0 THEN "answers" ELSE "raises"

\* health_ready: a source that is not configured is skipped.
Status(configured, ends) ==
  [s \in Source |-> IF s \in configured THEN Probed(ends[s]) ELSE "skipped"]
Checked(sources) == {s \in Source : sources[s] # "skipped"}
Down(sources) == {s \in Source : sources[s] = "down"}

Overall(sources) ==
  CASE Checked(sources) = {} \/ Down(sources) = {} -> "ok"
    [] Down(sources) # {} /\ Down(sources) = Checked(sources) -> "down"
    [] OTHER -> "degraded"
StatusCode(sources) == IF Overall(sources) = "down" THEN 503 ELSE 200

-----------------------------------------------------------------------------
\* An internal service is told by its name: named says whether it has the word
\* of a database or of authentication in it, or is one of the two critical ones.
Kind(service) ==
  CASE service.external -> "external"
    [] ~service.external /\ service.database -> "database"
    [] ~service.external /\ ~service.database /\ service.auth -> "upstream"
    [] OTHER -> "downstream"
Critical(service) == service.external \/ service.primary

\* The probe of one service: answered, with less than 500, and how fast.
Healthy(service) == service.answer = "ok"
Slow(service) == service.slow

Count(services) == Cardinality({i \in DOMAIN services : Healthy(services[i])})
\* The health score, as a percentage.
HealthScore(services) ==
  IF services = <<>> THEN 100 ELSE (100 * Count(services)) \div Cardinality(DOMAIN services)

CriticalIssues(services) ==
  {i \in DOMAIN services : /\ ~Healthy(services[i]) /\ Critical(services[i])
                           /\ Kind(services[i]) \in {"upstream", "database", "external"}}
LatencyIssues(services) ==
  {i \in DOMAIN services : /\ Slow(services[i])
                           /\ Kind(services[i]) \in {"upstream", "downstream"}}

\* What is recommended, besides the monitoring that always is.
Recommended(services) ==
  {[fix |-> i] : i \in CriticalIssues(services)}
    \cup (IF HealthScore(services) < 80 THEN {[fix |-> 0]} ELSE {})

-----------------------------------------------------------------------------
(* One flaky source never takes the pod out while another one is up, a pod    *)
(* that reaches nothing it watches is taken out, and what is not configured   *)
(* counts neither way; and no failure makes a report look better: a service   *)
(* that fails lowers the score, a critical one that is down is always an       *)
(* issue with a recommendation, of whatever kind its name makes it (main.py   *)
(* 548-652, dependency_health.py 143-190, 295-440).                          *)
HealthIsHonest(configured, ends, services, failing) ==
  LET sources == Status(configured, ends)
      worse == IF failing \in DOMAIN services
               THEN [services EXCEPT ![failing].answer = "error"] ELSE services
  IN  /\ (StatusCode(sources) = 503) <=>
           configured # {} /\ \A s \in configured : ends[s] # "answers"
      /\ (Overall(sources) = "ok") <=> \A s \in configured : ends[s] = "answers"
      /\ HealthScore(worse) <= HealthScore(services)
      /\ Recommended(services) \subseteq Recommended(worse)
      /\ \A i \in DOMAIN services :
           Critical(services[i]) /\ ~Healthy(services[i]) => [fix |-> i] \in Recommended(services)
=============================================================================
