------------------------------ MODULE LiveFanout ------------------------------
(***************************************************************************)
(* Live events (backend/app/api/ws/live.py, fanout.py): an event is published *)
(* to a Redis channel, and every pod sends what its subscriber receives to    *)
(* its own WebSocket clients; when publishing raises, the pod of the event   *)
(* sends it to its clients by itself.                                        *)
(***************************************************************************)
EXTENDS Naturals, Sequences, FiniteSets

CONSTANTS
  Pod,
  Client,      \* WebSocket clients
  Home,        \* [Client -> Pod]
  Event        \* events of the alert engine, the approvals and the overview

VARIABLES
  useRedis,    \* WS_FANOUT_USE_REDIS
  active,      \* clients in ConnectionManager.active of their pod
  broken,      \* clients whose connection fails when something is sent
  channel,     \* pod -> events its subscriber will receive, or none when it is away
  listening,   \* pods whose subscriber is connected
  stage,       \* event -> "new", "publishing", "local" or "handed over"
  origin,      \* event -> the pod it happens on
  sending,     \* broadcasts under way: [event, pod, own, left]
  seen,        \* client -> event -> how often it got it
  owed,        \* history: event -> clients that were there and stayed
  doubted      \* history: events published although publishing raised

liveVars == <<useRedis, active, broken, channel, listening, stage, origin, sending,
              seen, owed, doubted>>

Init ==
  /\ useRedis \in BOOLEAN
  /\ active \in SUBSET Client /\ broken = {}
  /\ channel = [p \in Pod |-> <<>>] /\ listening = IF useRedis THEN Pod ELSE {}
  /\ stage = [e \in Event |-> "new"] /\ origin \in [Event -> Pod]
  /\ sending = {}
  /\ seen = [c \in Client |-> [e \in Event |-> 0]]
  /\ owed = [e \in Event |-> {}] /\ doubted = {}

At(p) == {c \in active : Home[c] = p}
Forgiven(clients) == [e \in Event |-> owed[e] \ clients]

-----------------------------------------------------------------------------
(* Clients: connect and disconnect; a connection that breaks is noticed by    *)
(* the next send.                                                            *)
Connect(c) ==
  /\ c \notin active /\ active' = active \cup {c} /\ broken' = broken \ {c}
  /\ UNCHANGED <<useRedis, channel, listening, stage, origin, sending, seen, owed, doubted>>
Disconnect(c) ==
  /\ c \in active /\ active' = active \ {c} /\ owed' = Forgiven({c})
  /\ sending' = {[b EXCEPT !.left = @ \ {c}] : b \in sending}
  /\ UNCHANGED <<useRedis, broken, channel, listening, stage, origin, seen, doubted>>
Break(c) ==
  /\ c \in active \ broken /\ broken' = broken \cup {c} /\ owed' = Forgiven({c})
  /\ UNCHANGED <<useRedis, active, channel, listening, stage, origin, sending, seen, doubted>>

-----------------------------------------------------------------------------
\* broadcast_local goes through a copy of the list of clients.
Broadcast(e, p, own) == [event |-> e, pod |-> p, own |-> own, left |-> At(p)]

\* broadcast: it publishes, and sends by itself when that raised.
Publish(e) ==
  /\ stage[e] = "new" /\ useRedis
  /\ \E executed, raised \in BOOLEAN :
       /\ executed \/ raised
       /\ channel' = [p \in Pod |-> IF executed /\ p \in listening
                                    THEN Append(channel[p], e) ELSE channel[p]]
       /\ owed' = [owed EXCEPT ![e] =
                     {c \in active \ broken : \/ executed /\ Home[c] \in listening
                                              \/ raised /\ Home[c] = origin[e]}]
       /\ doubted' = IF executed /\ raised THEN doubted \cup {e} ELSE doubted
       /\ stage' = [stage EXCEPT ![e] = IF raised THEN "local" ELSE "handed over"]
  /\ UNCHANGED <<useRedis, active, broken, listening, origin, sending, seen>>
Unpublished(e) ==
  /\ stage[e] = "new" /\ ~useRedis
  /\ owed' = [owed EXCEPT ![e] = At(origin[e]) \ broken]
  /\ stage' = [stage EXCEPT ![e] = "local"]
  /\ UNCHANGED <<useRedis, active, broken, channel, listening, origin, sending, seen, doubted>>
SendOwn(e) ==
  /\ stage[e] = "local" /\ stage' = [stage EXCEPT ![e] = "handed over"]
  /\ sending' = sending \cup {Broadcast(e, origin[e], TRUE)}
  /\ UNCHANGED <<useRedis, active, broken, channel, listening, origin, seen, owed, doubted>>

\* The subscriber: the next message only after it sent the one before.
Receive(p) ==
  /\ p \in listening /\ channel[p] # <<>>
  /\ \A b \in sending : b.pod = p => b.own
  /\ sending' = sending \cup {Broadcast(Head(channel[p]), p, FALSE)}
  /\ channel' = [channel EXCEPT ![p] = Tail(@)]
  /\ UNCHANGED <<useRedis, active, broken, listening, stage, origin, seen, owed, doubted>>

\* A plausible slip: a send that fails ends the broadcast.
SendOrStop(b, c) ==
  /\ b \in sending /\ c \in b.left
  /\ LET on == IF c \in broken THEN {} ELSE b.left \ {c}
     IN  sending' = (sending \ {b}) \cup (IF on = {} THEN {} ELSE {[b EXCEPT !.left = on]})
  /\ IF c \in broken THEN active' = active \ {c} /\ UNCHANGED seen
     ELSE seen' = [seen EXCEPT ![c][b.event] = @ + 1] /\ UNCHANGED active
  /\ UNCHANGED <<useRedis, broken, channel, listening, stage, origin, owed, doubted>>

\* send_text, one client at a time; a client whose connection fails is removed.
Send(b, c) ==
  /\ b \in sending /\ c \in b.left
  /\ sending' = (sending \ {b}) \cup {[b EXCEPT !.left = @ \ {c}]}
  /\ IF c \in broken THEN active' = active \ {c} /\ UNCHANGED seen
     ELSE seen' = [seen EXCEPT ![c][b.event] = @ + 1] /\ UNCHANGED active
  /\ UNCHANGED <<useRedis, broken, channel, listening, stage, origin, owed, doubted>>
Sent(b) ==
  /\ b \in sending /\ b.left = {} /\ sending' = sending \ {b}
  /\ UNCHANGED <<useRedis, active, broken, channel, listening, stage, origin, seen, owed, doubted>>

\* The subscriber loses its connection, and what it had not received yet; it
\* comes back after RECONNECT_SECONDS.
Drop(p) ==
  /\ p \in listening /\ \A b \in sending : b.pod = p => b.own
  /\ listening' = listening \ {p} /\ channel' = [channel EXCEPT ![p] = <<>>]
  /\ owed' = [e \in Event |->
                {c \in owed[e] : ~\E i \in DOMAIN channel[p] : channel[p][i] = e /\ Home[c] = p}]
  /\ UNCHANGED <<useRedis, active, broken, stage, origin, sending, seen, doubted>>
Resubscribe(p) ==
  /\ useRedis /\ p \notin listening /\ listening' = listening \cup {p}
  /\ UNCHANGED <<useRedis, active, broken, channel, stage, origin, sending, seen, owed, doubted>>

Next ==
  \/ \E c \in Client : Connect(c) \/ Disconnect(c) \/ Break(c)
  \/ \E e \in Event : Publish(e) \/ Unpublished(e) \/ SendOwn(e)
  \/ \E p \in Pod : Receive(p) \/ Drop(p) \/ Resubscribe(p)
  \/ \E b \in sending : Sent(b) \/ \E c \in b.left : Send(b, c)
Spec == Init /\ [][Next]_liveVars

-----------------------------------------------------------------------------
(* A client gets an event once, on the pod of the event as well ("single      *)
(* delivery path, no double-send on the originating pod", fanout.py 6-9); it   *)
(* gets it twice only when the publishing raised after Redis had taken it.    *)
(* And when all is sent, every client that was there, stayed, and was not on  *)
(* a pod that lost its subscription, has it (live.py 61-83).                  *)
Settled(e) ==
  /\ stage[e] = "handed over" /\ \A b \in sending : b.event # e
  /\ \A p \in Pod : \A i \in DOMAIN channel[p] : channel[p][i] # e
EventsReachClients ==
  \A c \in Client, e \in Event :
    /\ seen[c][e] <= (IF e \in doubted /\ Home[c] = origin[e] THEN 2 ELSE 1)
    /\ Settled(e) /\ c \in owed[e] => seen[c][e] >= 1
=============================================================================
