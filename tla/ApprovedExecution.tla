--------------------------- MODULE ApprovedExecution ---------------------------
(***************************************************************************)
(* What the approval workflow promises of every action, whatever requests,  *)
(* stores and crashes do inside: a command starts only while the action is  *)
(* cleared, a refused action never starts, a settled one never starts       *)
(* again, and a start that is forfeited (its outcome was never stored)      *)
(* leaves the action cleared, to be started again.                          *)
(***************************************************************************)
EXTENDS Naturals

CONSTANT Action

VARIABLES phase, started, forfeited

vars == <<phase, started, forfeited>>

Phase == {"none", "proposed", "cleared", "running", "refused", "settled"}

Init == /\ phase = [a \in Action |-> "none"]
        /\ started = [a \in Action |-> 0]
        /\ forfeited = [a \in Action |-> 0]

Move(a, from, to) == /\ phase[a] = from
                     /\ phase' = [phase EXCEPT ![a] = to]

Propose(a) == /\ Move(a, "none", "proposed") \/ Move(a, "none", "cleared")
              /\ UNCHANGED <<started, forfeited>>

Clear(a) == Move(a, "proposed", "cleared") /\ UNCHANGED <<started, forfeited>>

Refuse(a) == Move(a, "proposed", "refused") /\ UNCHANGED <<started, forfeited>>

Start(a) == /\ Move(a, "cleared", "running")
            /\ started' = [started EXCEPT ![a] = @ + 1]
            /\ UNCHANGED forfeited

Settle(a) == Move(a, "running", "settled") /\ UNCHANGED <<started, forfeited>>

\* The command could not be started at all.
Abandon(a) == Move(a, "cleared", "settled") /\ UNCHANGED <<started, forfeited>>

\* One pod may take several running actions with it.
Forfeit(S) ==
  /\ \A a \in S : phase[a] = "running"
  /\ phase' = [a \in Action |-> IF a \in S THEN "cleared" ELSE phase[a]]
  /\ forfeited' = [a \in Action |-> IF a \in S THEN forfeited[a] + 1 ELSE forfeited[a]]
  /\ UNCHANGED started

Next == \/ \E a \in Action : \/ Propose(a) \/ Clear(a) \/ Refuse(a) \/ Start(a)
                             \/ Settle(a) \/ Abandon(a)
        \/ \E S \in SUBSET Action : Forfeit(S)

Spec == Init /\ [][Next]_vars
=============================================================================
