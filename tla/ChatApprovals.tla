---------------------------- MODULE ChatApprovals ----------------------------
(* Approvals decided from chat (backend/app/approvals): a button pressed in   *)
(* Slack, Teams or Telegram reaches a webhook, possibly late and more than    *)
(* once, since the chat platform repeats a request that is not answered 200.  *)
(* The webhook checks the request, maps the chat identity to a local user     *)
(* and asks the action engine of its pod; the engine decides a pending action  *)
(* only, under a lock that is its process's: two pods may both decide.         *)
EXTENDS Naturals, Sequences, FiniteSets

CONSTANTS
    Pod,         \* the processes a request may reach
    Channel,     \* the chat platforms
    Keyed,       \* the channels whose signing secret is configured
    Stamped,     \* the channels whose signature covers a time (Slack, Teams)
    Tolerance,   \* how old a stamped request may be
    Sender,      \* chat senders: [id, name], a stable id and a display name
    User,        \* local users
    ApproverMap, \* [Channel -> [identities -> User \cup {Nobody}]]
    Nobody,
    Creator,     \* the user who recommended the action
    AuthRequired,\* AUTH_ENABLED or a production environment
    Enabled,     \* CHATOPS_APPROVALS_ENABLED
    MaxClock,    \* bound: time
    MaxPresses,  \* bound: buttons pressed
    MaxDeliveries\* bound: deliveries of one press, and of all of them

VARIABLES
    status,      \* the status of the action in the store
    decisions,   \* history: the decisions stored: [pod, by, verb]
    hasRole,     \* the users that have a local role
    presses,     \* buttons pressed: [channel, who, verb, at]
    deliveries,  \* press -> how often it reached the webhook
    running,     \* requests on their way: [press, nr, pod, user, checked]
    answer,      \* press -> the last answer the platform got
    now

chatVars ==
    <<status, decisions, hasRole, presses, deliveries, running, answer, now>>

Verb == {"approve", "reject"}
Press == [channel : Channel, who : Sender, verb : Verb, at : 0..MaxClock]
Outcome(verb) == IF verb = "approve" THEN "approved" ELSE "rejected"

Init ==
    /\ status = "pending"
    /\ decisions = <<>>
    /\ hasRole = User
    /\ presses = {}
    /\ deliveries = [p \in Press |-> 0]
    /\ running = {}
    /\ answer = [p \in Press |-> "none"]
    /\ now = 0

------------------------------------------------------------------------------
(* A webhook without its secret is refused where authentication is required;  *)
(* Slack and Telegram refuse it everywhere.  A stamped request is refused     *)
(* once it is older than the tolerance.                                       *)
Authentic(p) ==
    /\ p.channel \in Keyed \/ (~AuthRequired /\ p.channel = "teams")
    /\ p.channel \in Stamped \cap Keyed => now - p.at <= Tolerance

\* The stable id of the sender wins over its display name.
Mapped(p) ==
    LET map == ApproverMap[p.channel]
    IN  IF map[p.who.id] # Nobody THEN map[p.who.id] ELSE map[p.who.name]

Resolve(p) ==
    IF Enabled /\ Mapped(p) \in hasRole THEN Mapped(p) ELSE Nobody

PressButton(p) ==
    /\ p.at = now /\ p \notin presses
    /\ Cardinality(presses) < MaxPresses
    /\ presses' = presses \cup {p}
    /\ UNCHANGED <<status, decisions, hasRole, deliveries, running, answer, now>>

Delivered == {d \in presses \X (1..MaxDeliveries) : d[2] <= deliveries[d[1]]}

(* The handler up to its first await: the request is refused with an HTTP     *)
(* error (the platform repeats it), denied with a 200 (it does not), or       *)
(* goes on to the engine as the mapped user.  A platform that waits too long   *)
(* repeats a request that is still running.                                  *)
Deliver(p, pod) ==
    /\ deliveries[p] < MaxDeliveries /\ Cardinality(Delivered) < MaxDeliveries
    /\ deliveries' = [deliveries EXCEPT ![p] = @ + 1]
    /\ \/ /\ ~Authentic(p)
          /\ answer' = [answer EXCEPT ![p] = "error"]
          /\ UNCHANGED running
       \/ /\ Authentic(p) /\ Resolve(p) = Nobody
          /\ answer' = [answer EXCEPT ![p] = "denied"]
          /\ UNCHANGED running
       \/ /\ Authentic(p) /\ Resolve(p) # Nobody
          /\ running' = running \cup {[press |-> p, nr |-> deliveries[p], pod |-> pod,
                                     user |-> Resolve(p), checked |-> FALSE]}
          /\ UNCHANGED answer
    /\ UNCHANGED <<status, decisions, hasRole, presses, now>>

\* _action_lock: held from the check of the status to the end of the request.
LockFree(pod) == \A q \in running : q.pod = pod => ~q.checked

\* A plausible slip: the status is not read again.
DecideAgain(user, verb) == verb = "approve" => user # Creator
\* The engine refuses an action that is not pending, and its own creator.
MayDecide(user, verb) ==
    /\ status = "pending"
    /\ verb = "approve" => user # Creator

Check(r) ==
    /\ ~r.checked /\ LockFree(r.pod)
    /\ MayDecide(r.user, r.press.verb)
    /\ running' = (running \ {r}) \cup {[r EXCEPT !.checked = TRUE]}
    /\ UNCHANGED <<status, decisions, hasRole, presses, deliveries, answer, now>>

Leave(r, answers) ==
    /\ running' = running \ {r}
    /\ \E a \in answers : answer' = [answer EXCEPT ![r.press] = a]
    /\ UNCHANGED <<hasRole, presses, deliveries, now>>

\* The status, the creator or the permission of the user is against it.
Refuse(r) ==
    /\ ~r.checked /\ LockFree(r.pod)
    /\ Leave(r, {"refused"})
    /\ UNCHANGED <<status, decisions>>

\* set_status, whatever the status is by now.  The history, the feedback and the
\* messages that follow may raise: the press is answered a 500, or "refused"
\* for a ValueError, though its decision is stored.
Decide(r) ==
    /\ r.checked
    /\ status' = Outcome(r.press.verb)
    /\ decisions' = Append(decisions, [pod |-> r.pod, by |-> r.user, verb |-> r.press.verb])
    /\ Leave(r, {"done", "error", "refused"})

\* The engine or its store fails before that, or the server stops: a 500 or no
\* answer.
FailRequest(r) ==
    /\ Leave(r, {"error"})
    /\ UNCHANGED <<status, decisions>>

RemoveRole(u) ==
    /\ u \in hasRole
    /\ hasRole' = hasRole \ {u}
    /\ UNCHANGED <<status, decisions, presses, deliveries, running, answer, now>>

Tick ==
    /\ now < MaxClock
    /\ now' = now + 1
    /\ UNCHANGED <<status, decisions, hasRole, presses, deliveries, running, answer>>

Next ==
    \/ \E p \in Press : PressButton(p)
    \/ \E p \in presses, pod \in Pod : Deliver(p, pod)
    \/ \E r \in running : Check(r) \/ Refuse(r) \/ Decide(r) \/ FailRequest(r)
    \/ \E u \in User : RemoveRole(u)
    \/ Tick

Spec == Init /\ [][Next]_chatVars

------------------------------------------------------------------------------
Running == [press : Press, nr : Nat, pod : Pod, user : User, checked : BOOLEAN]
TypeOK ==
    /\ status \in {"pending", "approved", "rejected"}
    /\ decisions \in Seq([pod : Pod, by : User, verb : Verb])
    /\ presses \subseteq Press
    /\ deliveries \in [Press -> 0..MaxDeliveries]
    /\ running \subseteq Running /\ \A r \in running : r.press \in presses
    /\ answer \in [Press -> {"none", "error", "denied", "refused", "done"}]

(* However late, repeated, reordered or failed the requests are: a pod decides *)
(* an action at most once, so one pod never reverses what it decided; every     *)
(* decision is a press's, by the local user it is mapped to, and no approval is   *)
(* by the creator; and a press is told "done" only for a decision of its own    *)
(* that was stored (webhook.py 225-276, engine.py 308-331, 378-405).           *)
ChatDecision ==
    /\ status = (IF decisions = <<>> THEN "pending"
                 ELSE Outcome(decisions[Len(decisions)].verb))
    /\ \A i, j \in DOMAIN decisions : decisions[i].pod = decisions[j].pod => i = j
    /\ \A i \in DOMAIN decisions : \E p \in presses :
         /\ decisions[i].by = Mapped(p) /\ decisions[i].verb = p.verb
         /\ p.verb = "approve" => Mapped(p) # Creator
    /\ \A p \in presses : answer[p] = "done" =>
         \E i \in DOMAIN decisions :
           decisions[i].by = Mapped(p) /\ decisions[i].verb = p.verb
==============================================================================
