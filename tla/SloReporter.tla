----------------------------- MODULE SloReporter -----------------------------
(***************************************************************************)
(* The daily SLO report (backend/app/alerting/slo_reporter.py), which runs    *)
(* as a task of the leading pod (main.py 259-268).  The pods share the file   *)
(* that holds the date of the last report.  The clock counts hours of UTC; a  *)
(* report is due in one hour of the LOCAL day, and its date is saved in UTC.  *)
(***************************************************************************)
EXTENDS Naturals

CONSTANTS
  Pod, Nobody,   \* backend processes; no pod leads
  Hours,         \* hours of a day
  Offset,        \* how far the local clock is ahead of UTC
  ReportHour,    \* SLO_REPORT_HOUR
  Never, Cut,    \* the file does not exist, or is no JSON
  MaxNow,        \* bound: hours of the run
  MaxFaults      \* bound: faults of the run

VARIABLES
  now,          \* hours of UTC
  lastReport,   \* the UTC date in the file
  at,           \* where the task of each pod stands
  leader,       \* the pod that leads
  looked,       \* the leader looked at the clock in this hour
  posts,        \* history: reports that reached Slack on this local date
  faults, harm   \* faults so far; history: on this local date

sloVars == <<now, lastReport, at, leader, looked, posts, faults, harm>>

LocalHour == (now + Offset) % Hours
LocalDate == (now + Offset) \div Hours
UtcDate == now \div Hours

Init == /\ now = 0 /\ lastReport = Never
        /\ leader \in Pod
        /\ at = [p \in Pod |-> IF p = leader THEN "idle" ELSE "off"]
        /\ looked = FALSE /\ posts = 0 /\ faults = 0 /\ harm = 0

Goto(p, where) == at' = [at EXCEPT ![p] = where]
Fault == /\ faults < MaxFaults
         /\ faults' = faults + 1 /\ harm' = harm + 1

\* The saved date is compared with the local one.
Due == LocalHour = ReportHour /\ lastReport # LocalDate

\* Every ten minutes.  A file that is no JSON raises outside the try block: the
\* task ends, and the wrapper renews its lock for nobody.
Look(p) ==
  /\ at[p] = "idle"
  /\ looked' = (looked \/ p = leader)
  /\ Goto(p, IF LocalHour = ReportHour /\ lastReport = Cut THEN "dead"
             ELSE IF Due THEN "making" ELSE "idle")
  /\ UNCHANGED <<now, lastReport, leader, posts, faults, harm>>

\* The report is made and the fence asked, which answers False for an error;
\* whatever is raised is caught.
Make(p) ==
  /\ at[p] = "making"
  /\ \/ leader = p /\ Goto(p, "posting") /\ UNCHANGED <<faults, harm>>
     \/ leader # p /\ Goto(p, "idle") /\ UNCHANGED <<faults, harm>>
     \/ Fault /\ Goto(p, "idle")
  /\ UNCHANGED <<now, lastReport, leader, looked, posts>>

\* Slack takes the report, refuses it (which is logged), or does not answer.
Post(p) ==
  /\ at[p] = "posting"
  /\ \/ Goto(p, "saving") /\ posts' = posts + 1 /\ UNCHANGED <<faults, harm>>
     \/ Goto(p, "saving") /\ posts' = posts /\ Fault
     \/ Goto(p, "idle") /\ posts' \in {posts, posts + 1} /\ Fault
  /\ UNCHANGED <<now, lastReport, leader, looked>>

\* The file is cut before it is written.
Save(p) ==
  /\ at[p] = "saving" /\ Goto(p, "idle")
  /\ \/ lastReport' = UtcDate /\ UNCHANGED <<faults, harm>>
     \/ lastReport' = Cut /\ Fault
  /\ UNCHANGED <<now, leader, looked, posts>>

Crash(p) ==
  /\ at[p] # "down" /\ Fault /\ Goto(p, "down")
  /\ leader' = IF leader = p THEN Nobody ELSE leader
  /\ lastReport' \in {lastReport} \cup (IF at[p] = "saving" THEN {Cut} ELSE {})
  /\ posts' \in {posts} \cup (IF at[p] = "posting" THEN {posts + 1} ELSE {})
  /\ UNCHANGED <<now, looked>>

Restart(p) ==
  /\ at[p] = "down" /\ Goto(p, "off")
  /\ UNCHANGED <<now, lastReport, leader, looked, posts, faults, harm>>

LoseLead ==
  /\ leader # Nobody /\ Fault /\ leader' = Nobody
  /\ UNCHANGED <<now, lastReport, at, looked, posts>>

\* A task without its lock is cancelled where it waits: a post may have arrived.
StandDown(p) ==
  /\ leader # p /\ at[p] \in {"idle", "making", "posting"}
  /\ Goto(p, "off")
  /\ posts' \in {posts} \cup (IF at[p] = "posting" THEN {posts + 1} ELSE {})
  /\ UNCHANGED <<now, lastReport, leader, looked, faults, harm>>

TakeOver(p) ==
  /\ leader = Nobody /\ at[p] = "off"
  /\ leader' = p /\ Goto(p, "idle") /\ looked' = FALSE
  /\ UNCHANGED <<now, lastReport, posts, faults, harm>>

\* An hour ends; the leader looked at the clock in it.  No report and no change
\* of the leader takes that long.
Hour ==
  /\ now < MaxNow
  /\ leader # Nobody /\ (looked \/ at[leader] = "dead")
  /\ \A p \in Pod : at[p] \notin {"making", "posting", "saving"}
  /\ now' = now + 1 /\ looked' = FALSE
  /\ IF LocalDate' # LocalDate THEN posts' = 0 /\ harm' = 0 ELSE UNCHANGED <<posts, harm>>
  /\ UNCHANGED <<lastReport, at, leader, faults>>

Next == \/ \E p \in Pod : \/ Look(p) \/ Make(p) \/ Post(p) \/ Save(p)
                          \/ Crash(p) \/ Restart(p) \/ StandDown(p) \/ TakeOver(p)
        \/ LoseLead \/ Hour

Spec == Init /\ [][Next]_sloVars

(* A report goes out once a day: again only for a fault of that day between   *)
(* its post and the saved date, and not at all only for a fault or a task     *)
(* that a cut file ended.  The dates of the two clocks must agree in the      *)
(* report's hour (slo_reporter.py 49-64, 94).                                *)
OnceADay ==
  /\ posts <= 1 + harm
  /\ LocalHour > ReportHour /\ harm = 0 /\ leader # Nobody /\ at[leader] # "dead" => posts = 1
=============================================================================
