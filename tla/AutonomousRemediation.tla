------------------------ MODULE AutonomousRemediation ------------------------
(***************************************************************************)
(* Autonomous remediation (backend/app/actions/autonomous_executor.py,       *)
(* remediation_actions.py, and the AutonomousRateLimiter of rate_limiter.py):  *)
(* an alert starts one action of kubectl calls; a success is counted against *)
(* an hourly quota and a cooldown, in memory and in a file.                  *)
(*                                                                          *)
(* The quotas of two action types do not meet, so a behaviour follows one    *)
(* type.  Times are ages in ticks of one cooldown, dropped after Window.     *)
(***************************************************************************)
EXTENDS Windows

CONSTANTS
  Requested,     \* action types of the alert rules
  MaxPerHour,    \* quota of AutonomousRateLimiter
  Cooldown,      \* of SafetyChecker.check_cooldown
  Window,        \* the hour
  MaxTargets,    \* bound: pods, jobs or secrets one batch finds
  MaxRecords     \* bound: executions the history remembers

VARIABLES
  type,      \* the action type of this behaviour
  times,     \* _execution_times: ages of the counted executions, oldest first
  file,      \* the ages on disk
  stage,     \* where the execution stands
  left,      \* targets its batch has still to treat
  changed,   \* calls that changed the cluster
  refused,   \* calls that failed
  unanswered,\* of these: calls that changed the cluster and timed out
  counted,   \* history: ages of all counted executions
  lossy      \* history: a save failed, or the file was unreadable

quotaVars == <<times, file, counted, lossy>>
callVars == <<stage, left, changed, refused, unanswered>>
remediationVars == <<type, quotaVars, callVars>>

\* One row per action class.  reads: a first call whose failure fails the
\* action ("must"), or not ("may"), or no such call; batch: one call per target
\* found; tolerant: a batch succeeds although calls of it failed; calls: the
\* action calls kubectl to change something at all.
Row(reads, batch, tolerant, calls) ==
  [reads |-> reads, batch |-> batch, tolerant |-> tolerant, calls |-> calls]
Single(reads) == Row(reads, FALSE, FALSE, TRUE)

DeleteCrashLoopPod == Row("must", TRUE, FALSE, TRUE)
ScaleDeployment == Row("must", TRUE, FALSE, TRUE)   \* one target, or none
RollbackDeployment == Single("may")
RestartDeployment == Single("none")
ClearStuckPods == Row("must", TRUE, TRUE, TRUE)
CleanupFailedJobs == Row("must", TRUE, TRUE, TRUE)
AdjustHPAMinReplicas == Single("must")
RestartStatefulSetPod == Row("must", TRUE, FALSE, TRUE)
FlushEndpoints == Single("may")
EvictPodFromNode == Single("may")
RotateServiceAccountToken == Row("must", TRUE, TRUE, TRUE)
RestartDaemonSet == Single("none")
TruncateNodeLogs == Row("none", FALSE, FALSE, FALSE)
RestartIngressController == Single("must")

ActionRow ==
  [ delete_crashloop_pod         |-> DeleteCrashLoopPod,
    scale_deployment             |-> ScaleDeployment,
    rollback_deployment          |-> RollbackDeployment,
    restart_deployment           |-> RestartDeployment,
    clear_stuck_pods             |-> ClearStuckPods,
    cleanup_failed_jobs          |-> CleanupFailedJobs,
    adjust_hpa_min_replicas      |-> AdjustHPAMinReplicas,
    restart_statefulset_pod      |-> RestartStatefulSetPod,
    flush_endpoints              |-> FlushEndpoints,
    evict_pod_from_node          |-> EvictPodFromNode,
    rotate_service_account_token |-> RotateServiceAccountToken,
    restart_daemonset            |-> RestartDaemonSet,
    truncate_node_logs           |-> TruncateNodeLogs,
    restart_ingress_controller   |-> RestartIngressController ]

\* AUTONOMOUS_ACTION_RISK: the other types are "high" or "critical".
MediumRisk == {"scale_deployment", "restart_deployment", "clear_stuck_pods",
               "cleanup_failed_jobs", "adjust_hpa_min_replicas", "restart_statefulset_pod"}

Init == /\ type \in Requested
        /\ times = <<>> /\ file = <<>> /\ counted = <<>> /\ lossy = FALSE
        /\ stage = "idle" /\ left = 0 /\ changed = 0 /\ refused = 0 /\ unanswered = 0

Within(ages) == Inside(ages, Window)

\* can_execute and check_cooldown.
UnderQuota == Len(Within(times)) < MaxPerHour
CooledDown == \A i \in DOMAIN times : times[i] >= Cooldown

Rest == stage' = "idle" /\ left' = 0 /\ changed' = 0 /\ refused' = 0 /\ unanswered' = 0
Goto(s) == stage' = s /\ UNCHANGED <<left, changed, refused, unanswered>>

\* execute_autonomous_action: the checks in their order; parameters that are
\* missing or out of range fail the action before its first call.
Start ==
  /\ stage = "idle"
  /\ type \in MediumRisk /\ UnderQuota /\ CooledDown
  /\ Len(counted) < MaxRecords
  /\ times' = Within(times)
  /\ Goto(IF ActionRow[type].reads = "none" THEN "ready" ELSE "read")
  /\ UNCHANGED <<type, file, counted, lossy>>

\* The listing call: it fails, or finds the targets of the batch.
Read ==
  /\ stage = "read"
  /\ \/ ActionRow[type].reads = "must" /\ Rest
     \/ Goto("ready")
  /\ UNCHANGED <<type, quotaVars>>

Plan ==
  /\ stage = "ready"
  /\ stage' = "call"
  /\ left' \in IF ~ActionRow[type].calls THEN {0}
               ELSE IF ~ActionRow[type].batch THEN {1}
               ELSE IF type = "scale_deployment" THEN 0..1 ELSE 0..MaxTargets
  /\ UNCHANGED <<type, quotaVars, changed, refused, unanswered>>

\* kubectl, once per target, and on after a failure.  A call that times out is a
\* failure, although the API server may have done what it asked.
Kubectl ==
  /\ stage = "call" /\ left > 0
  /\ left' = left - 1
  /\ \/ changed' = changed + 1 /\ UNCHANGED <<refused, unanswered>>
     \/ refused' = refused + 1 /\ UNCHANGED <<changed, unanswered>>
     \/ /\ changed' = changed + 1 /\ refused' = refused + 1
        /\ unanswered' = unanswered + 1
  /\ UNCHANGED <<type, quotaVars, stage>>

\* Plausible slip: every batch must be complete to succeed.
SucceedsWhole == refused = 0

\* _deletions_result wants every deletion, _batch_result reports its errors.
Succeeds == refused = 0 \/ ActionRow[type].tolerant

\* record_execution prunes, and replaces the file in one step or not at all.
Count(ages) == Append(Within(ages), 0)

\* Plausible slip: a success is counted in memory only.
FinishUnsaved ==
  /\ stage = "call" /\ left = 0
  /\ IF Succeeds
     THEN /\ times' = Count(times) /\ counted' = Count(counted)
          /\ UNCHANGED <<file, lossy>>
     ELSE UNCHANGED quotaVars
  /\ Goto(IF Succeeds THEN "succeeded" ELSE "failed")
  /\ UNCHANGED type

Finish ==
  /\ stage = "call" /\ left = 0
  /\ IF Succeeds
     THEN /\ times' = Count(times) /\ counted' = Count(counted)
          /\ \/ file' = times' /\ UNCHANGED lossy
             \/ lossy' = TRUE /\ UNCHANGED file
     ELSE UNCHANGED quotaVars
  /\ Goto(IF Succeeds THEN "succeeded" ELSE "failed")
  /\ UNCHANGED type

\* The result goes to the log and the WebSocket.
Report == stage \in {"succeeded", "failed"} /\ Rest /\ UNCHANGED <<type, quotaVars>>

\* A new process reads the file; a missing or unreadable one is empty.
Restart ==
  /\ \/ times' = Within(file) /\ UNCHANGED <<file, lossy>>
     \/ times' = <<>> /\ file' = <<>> /\ lossy' = TRUE
  /\ Rest
  /\ UNCHANGED <<type, counted>>

Tick ==
  /\ times' = Aged(times, Window) /\ file' = Aged(file, Window)
  /\ counted' = Within(Aged(counted, Window))
  /\ UNCHANGED <<type, callVars, lossy>>

Next == Start \/ Read \/ Plan \/ Kubectl \/ Finish \/ Report \/ Restart \/ Tick
Spec == Init /\ [][Next]_remediationVars

-----------------------------------------------------------------------------
(* The quota and the cooldown hold across restarts: unless a save failed or   *)
(* the file was lost, at most MaxPerHour executions are counted in a window,  *)
(* a cooldown apart.  Executions that failed are not counted, whatever a call  *)
(* of theirs that timed out did (rate_limiter.py 478-590,                     *)
(* autonomous_executor.py 193-212).                                           *)
WithinQuota ==
  ~lossy => /\ Len(counted) <= MaxPerHour
            /\ \A i, j \in DOMAIN counted : i < j => counted[i] >= counted[j] + Cooldown

(* What the quota does not count did nothing but by a call that timed out: an  *)
(* action that fails has changed the cluster by calls the API server did not   *)
(* answer in time, and by no call that succeeded; the exception are the        *)
(* deletions that all must succeed (remediation_actions.py 111-138,           *)
(* executor.py 351-363).                                                      *)
AllOrNothing == {"delete_crashloop_pod", "restart_statefulset_pod"}
FailureIsClean == stage = "failed" /\ changed > unanswered => type \in AllOrNothing
=============================================================================
