-------------------------- MODULE RemediationTargets --------------------------
(***************************************************************************)
(* What the remediation actions choose to change (backend/app/actions/       *)
(* remediation_actions.py): the pods, jobs and replica numbers, as functions *)
(* of what kubectl listed and of the parameters of the alert rule.           *)
(* A listing is a function from names to records; times are hours or minutes *)
(* before now, and no two jobs fail at the same instant.                     *)
(***************************************************************************)
EXTENDS Integers, FiniteSets

Wanted(name, target) == target = "any" \/ name = target

\* DeleteCrashLoopPodAction: the first container counts.
CrashLooping(pod, threshold) ==
  pod.restarts >= threshold \/ (pod.phase = "Running" /\ pod.restarts >= 3)
CrashloopPods(pods, target, threshold) ==
  {n \in DOMAIN pods : CrashLooping(pods[n], threshold) /\ Wanted(n, target)}

\* RestartStatefulSetPodAction: the restarts of all containers together.
StatefulSetPods(pods, target, threshold) ==
  {n \in DOMAIN pods : pods[n].restarts >= threshold /\ Wanted(n, target)}

\* ScaleDeploymentAction: "+n" and "-n" are changes, other values are targets;
\* the lower limit is applied last.
ScaleTarget(current, asked, low, high) ==
  LET raw == IF asked.relative THEN current + asked.by ELSE asked.by
      cut == IF raw > high THEN high ELSE raw
  IN  IF cut < low THEN low ELSE cut

\* AdjustHPAMinReplicasAction: refused values change nothing.
HpaMin(current, asked, max) == IF asked < 1 \/ asked > max THEN current ELSE asked

\* ClearStuckPodsAction: a stuck pod is kept when it started before the cutoff;
\* a start time that cannot be read ("unknown") does not count.
IsStuck(pod) == pod.phase \in {"Terminating", "Unknown"} \/ pod.waiting
StuckPods(pods, minutes, targets) ==
  {n \in DOMAIN pods :
     /\ IsStuck(pods[n])
     /\ ~pods[n].dated \/ pods[n].age < minutes
     /\ targets = {} \/ n \in targets}

\* CleanupFailedJobsAction: the failed jobs older than the cutoff, without the
\* keep youngest of them.  A slice up to -0 is empty.
OldFailures(jobs, hours) == {n \in DOMAIN jobs : jobs[n].failed /\ jobs[n].age > hours}
YoungerThan(jobs, among, n) == {k \in among : jobs[k].age < jobs[n].age}
OlderThan(jobs, among, n) == {k \in among : jobs[k].age > jobs[n].age}

\* A plausible slip: the oldest are kept.
KeepsOldest(jobs, hours, keep) ==
  LET old == OldFailures(jobs, hours)
  IN  IF keep = 0 THEN {}
      ELSE {n \in old : Cardinality(OlderThan(jobs, old, n)) >= keep}

JobsToDelete(jobs, hours, keep) ==
  LET old == OldFailures(jobs, hours)
  IN  IF keep = 0 THEN {}
      ELSE {n \in old : Cardinality(YoungerThan(jobs, old, n)) >= keep}

-----------------------------------------------------------------------------
(* The clean-up removes what nobody looks at: only jobs that failed before    *)
(* the cutoff go, each is older than every failed job that stays, and at      *)
(* least keep_last of them stay (remediation_actions.py 577-666).             *)
CleanupKeepsYoungest(jobs, hours, keep) ==
  LET gone == JobsToDelete(jobs, hours, keep)
      stay == OldFailures(jobs, hours) \ gone
  IN  /\ \A n \in gone : jobs[n].failed /\ jobs[n].age > hours
      /\ \A n \in gone, k \in stay : jobs[n].age > jobs[k].age
      /\ gone # {} => Cardinality(stay) = keep

(* Scaling ends inside the limits whatever was asked, and repeating an alert  *)
(* never undoes it: from the target, the same relative request moves on in    *)
(* the same direction or stops at the limit (remediation_actions.py 346-354). *)
ScalingStaysInLimits(current, asked, low, high) ==
  LET once == ScaleTarget(current, asked, low, high)
      twice == ScaleTarget(once, asked, low, high)
  IN  low <= high =>
        /\ once \in low..high /\ twice \in low..high
        /\ asked.relative /\ asked.by >= 0 => twice >= once
        /\ asked.relative /\ asked.by <= 0 => twice <= once
        /\ ~asked.relative => twice = once
=============================================================================
