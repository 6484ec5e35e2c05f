------------------------------ MODULE PolicyGate ------------------------------
(***************************************************************************)
(* The policy decision an execution waits for (backend/app/governance/        *)
(* opa_client.py, actions/engine.py 548-569): the policy server is asked,     *)
(* its answers are cached, the policy changes meanwhile, and whatever is not  *)
(* an answer blocks the execution.  Times are in ticks of the call timeout.   *)
(***************************************************************************)
EXTENDS Naturals, Functions

CONSTANTS
  Execution,   \* executions that may ask at the same time
  Input,       \* what is asked: action, project, environment and user
  TTL,         \* _cache_ttl
  Timeout      \* of one call to the policy server

VARIABLES
  policy,      \* the inputs the policy allows now
  denied,      \* input -> how long the policy has denied it, up to a bound
  cache,       \* input -> [allow, age], for the cached inputs
  asking,      \* execution -> [input, answer, waited], for those that wait
  passed       \* executions let through: [input, denied]

policyVars == <<policy, denied, cache, asking, passed>>

Forever == TTL + Timeout + 1
Answer == {"none", "allow", "deny", "undefined", "failed"}

Init ==
  /\ policy = Input /\ denied = [i \in Input |-> 0]
  /\ cache = <<>> /\ asking = <<>> /\ passed = {}

\* A dictionary with one more entry, or another one.
Put(f, x, v) == [y \in DOMAIN f \cup {x} |-> IF y = x THEN v ELSE f[y]]

Pass(i) == passed' = passed \cup {[input |-> i, denied |-> denied[i]]}

\* The policy server is given another policy (external).
ChangePolicy(i) ==
  /\ policy' = (policy \ {i}) \cup ({i} \ policy)
  /\ denied' = [denied EXCEPT ![i] = 0]
  /\ UNCHANGED <<cache, asking, passed>>

\* evaluate_action up to its first await: a fresh entry answers, an expired one
\* is deleted.
Ask(e, i) ==
  /\ e \notin DOMAIN asking
  /\ IF i \in DOMAIN cache /\ cache[i].age < TTL
     THEN /\ IF cache[i].allow THEN Pass(i) ELSE UNCHANGED passed
          /\ UNCHANGED <<cache, asking>>
     ELSE /\ cache' = Restrict(cache, DOMAIN cache \ {i})
          /\ asking' = Put(asking, e, [input |-> i, answer |-> "none", waited |-> 0])
          /\ UNCHANGED passed
  /\ UNCHANGED <<policy, denied>>

\* The server evaluates what it was asked (external).
Evaluate(e) ==
  /\ e \in DOMAIN asking /\ asking[e].answer = "none"
  /\ \E answer \in {IF asking[e].input \in policy THEN "allow" ELSE "deny", "undefined", "failed"} :
       asking' = [asking EXCEPT ![e].answer = answer]
  /\ UNCHANGED <<policy, denied, cache, passed>>

\* A plausible slip: no result is taken for an allowance and cached.
UndefinedAllows(e) ==
  LET a == asking[e] IN
  /\ e \in DOMAIN asking /\ a.answer # "none"
  /\ cache' = Put(cache, a.input, [allow |-> a.answer # "deny", age |-> 0])
  /\ IF a.answer # "deny" THEN Pass(a.input) ELSE UNCHANGED passed
  /\ asking' = Restrict(asking, DOMAIN asking \ {e})
  /\ UNCHANGED <<policy, denied>>

\* The answer arrives: only a decision is cached, as of now.
Receive(e) ==
  LET a == asking[e] IN
  /\ e \in DOMAIN asking /\ a.answer # "none"
  /\ cache' = IF a.answer \in {"allow", "deny"}
              THEN Put(cache, a.input, [allow |-> a.answer = "allow", age |-> 0])
              ELSE cache
  /\ IF a.answer = "allow" THEN Pass(a.input) ELSE UNCHANGED passed
  /\ asking' = Restrict(asking, DOMAIN asking \ {e})
  /\ UNCHANGED <<policy, denied>>

\* A timeout or any other error escapes from the client and blocks.
Lose(e) ==
  /\ e \in DOMAIN asking
  /\ asking' = Restrict(asking, DOMAIN asking \ {e})
  /\ UNCHANGED <<policy, denied, cache, passed>>

Sweep ==
  /\ \E i \in DOMAIN cache : cache[i].age >= TTL
  /\ cache' = Restrict(cache, {i \in DOMAIN cache : cache[i].age < TTL})
  /\ UNCHANGED <<policy, denied, asking, passed>>

Capped(n, high) == IF n < high THEN n + 1 ELSE n
Tick ==
  /\ \A e \in DOMAIN asking : asking[e].waited < Timeout
  /\ asking' = [e \in DOMAIN asking |-> [asking[e] EXCEPT !.waited = @ + 1]]
  /\ cache' = [i \in DOMAIN cache |-> [cache[i] EXCEPT !.age = Capped(@, TTL)]]
  /\ denied' = [i \in Input |-> IF i \in policy THEN 0 ELSE Capped(denied[i], Forever)]
  /\ passed' = {}
  /\ UNCHANGED policy

Next ==
  \/ \E i \in Input : ChangePolicy(i)
  \/ \E e \in Execution, i \in Input : Ask(e, i)
  \/ \E e \in Execution : Evaluate(e) \/ Receive(e) \/ Lose(e)
  \/ Sweep \/ Tick
Spec == Init /\ [][Next]_policyVars

-----------------------------------------------------------------------------
(* An execution goes through only if the policy allowed it not longer ago     *)
(* than the cache lives and a call takes, whatever answers are lost, missing  *)
(* or late, and however the policy changes (opa_client.py 121-262).           *)
PassWasAllowed == \A p \in passed : p.denied <= TTL + Timeout
=============================================================================
