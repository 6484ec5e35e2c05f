--------------------------- MODULE ActionRateLimit ---------------------------
(***************************************************************************)
(* The rate limiter of the action engine (backend/app/actions/               *)
(* rate_limiter.py) with its chain monitor (chain_monitor.py), for one pair  *)
(* of project and action type.  An execution is checked before its command   *)
(* and recorded after it, so other executions come in between.               *)
(*                                                                          *)
(* Times are ages in ticks of one cooldown (five minutes); an age that no    *)
(* test can tell from "never" stays at Window.                               *)
(***************************************************************************)
EXTENDS Windows, FiniteSets

CONSTANTS
  Execution,     \* requests that may be under way at the same time
  MaxPerWindow,  \* max_actions_per_hour
  Cooldown,      \* cooldown_seconds
  Window,        \* time_window_seconds
  MaxChain,      \* max_chain_length
  ChainBreak,    \* chain_break_seconds
  WarnAt         \* the chain length from which the monitor warns

VARIABLES
  records,   \* ages of the recorded actions, oldest first
  idle,      \* since the last record: _last_action, _last_chain_break
  chain,     \* _consecutive_actions
  warned,    \* since the monitor's last warning
  running,   \* executions between their check and their end
  omen       \* history: this chain was warned of, or its executions overlapped

limitVars == <<records, idle, chain, warned, running, omen>>

Init == /\ records = <<>> /\ idle = Window
        /\ chain = 0 /\ warned = Window
        /\ running = {} /\ omen = "none"

Recent(r) == Inside(r, Window)
Broken == idle >= ChainBreak

\* A plausible slip: the chain is not reset when it was broken.
ChainKept == chain
ChainNow == IF Broken THEN 0 ELSE chain

\* The verdict of check, in the order of its tests.
Cooling == idle < Cooldown
Allowed == /\ ~Cooling
           /\ ChainNow < MaxChain
           /\ Len(Recent(records)) < MaxPerWindow

\* check_chain repeats a warning after five minutes only, and forgets it when
\* the limit is met.
Warns(c) == c >= WarnAt /\ c < MaxChain /\ warned > Cooldown
MonitorChain(c) ==
  /\ warned' = IF c >= MaxChain THEN Window ELSE IF Warns(c) THEN 0 ELSE warned
  /\ omen' = IF Warns(c) /\ omen = "none" THEN "warned"
             ELSE IF Broken THEN "none" ELSE omen

\* What check changes, whatever it answers: old records go, and a chain ends.
Check ==
  /\ records' = Recent(records)
  /\ IF Cooling THEN UNCHANGED <<chain, warned, omen>>
     ELSE chain' = ChainNow /\ MonitorChain(ChainNow)
  /\ UNCHANGED idle

\* The engine checks before it executes, the validator only asks.
Begin(e) == /\ e \notin running
            /\ Check
            /\ running' = IF Allowed THEN running \cup {e} ELSE running
Validate == Check /\ UNCHANGED running

\* A success is recorded; a failure, an exception or a dry run is not.
Record(e) == /\ records' = Append(records, 0)
          /\ idle' = 0 /\ chain' = chain + 1
          /\ omen' = IF running = {e} THEN omen ELSE "overlap"
End(e) == /\ e \in running
          /\ running' = running \ {e}
          /\ UNCHANGED warned
          /\ Record(e) \/ UNCHANGED <<records, idle, chain, omen>>

\* The limiter lives in memory.
Restart == /\ running # {} \/ records # <<>>
           /\ records' = <<>> /\ idle' = Window /\ chain' = 0 /\ warned' = Window
           /\ running' = {} /\ omen' = "none"

Tick == /\ records' = Aged(records, Window)
        /\ idle' = Older(idle, Window) /\ warned' = Older(warned, Window)
        /\ UNCHANGED <<chain, running, omen>>

Next == \/ \E e \in Execution : Begin(e) \/ End(e)
        \/ Validate \/ Restart \/ Tick
Spec == Init /\ [][Next]_limitVars

-----------------------------------------------------------------------------
(* Executions that were checked before the others were recorded share one     *)
(* slot: the hourly limit is exceeded by at most the other executions under   *)
(* way (engine.py 485-751, rate_limiter.py 144).                              *)
OvershootBounded ==
  Len(Recent(records)) + Cardinality(running) < MaxPerWindow + Cardinality(Execution)

(* Nobody is locked out for good: a project that was quiet for a whole window *)
(* is admitted, however long its chain had grown (rate_limiter.py 118-142).   *)
QuietIsAdmitted == idle >= Window => Allowed

(* The monitor warns before it reports: while the executions of a chain do    *)
(* not overlap, the chain meets its limit only after a warning                *)
(* (chain_monitor.py 107-141).                                                *)
WarnedBeforeLimit == chain >= MaxChain => omen # "none"
=============================================================================
