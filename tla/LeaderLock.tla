------------------------------ MODULE LeaderLock ------------------------------
(***************************************************************************)
(* What leader election promises to a background task (backend/app/alerting/ *)
(* leader.py, run_as_leader): an engine starts only while no engine that     *)
(* runs has the lock, and one whose lock is lost may run on until it is      *)
(* told.  LeaderElection implements this, and AlertEngine assumes no more.   *)
(***************************************************************************)
CONSTANTS Pod, Nobody

VARIABLES
  holder,   \* the pod whose engine runs with the lock
  on        \* the pods whose engine runs

lockVars == <<holder, on>>

Init == holder = Nobody /\ on = {}

\* The lock is free, or its owner's engine is not running.
Start(p) == /\ holder = Nobody /\ p \notin on
            /\ holder' = p /\ on' = on \cup {p}

\* The lock expires under a running engine.
Lose == holder # Nobody /\ holder' = Nobody /\ UNCHANGED on

\* The engine of a pod ends: told so, cancelled, failed or crashed.
Stop(p) == /\ p \in on
           /\ on' = on \ {p}
           /\ holder' = IF holder = p THEN Nobody ELSE holder

Next == Lose \/ \E p \in Pod : Start(p) \/ Stop(p)

Spec == Init /\ [][Next]_lockVars
=============================================================================
