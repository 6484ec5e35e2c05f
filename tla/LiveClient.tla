------------------------------ MODULE LiveClient ------------------------------
(***************************************************************************)
(* The one WebSocket of the web client (frontend/src/hooks/useWebSocket.ts):  *)
(* it opens for the first view that listens, is closed after the last, and   *)
(* comes back after a delay that doubles.  Handlers run one at a time, but    *)
(* the events of a socket that was given up still arrive (external: the       *)
(* browser).                                                                *)
(***************************************************************************)
EXTENDS Naturals, FiniteSets

CONSTANTS
  View,        \* components that listen
  Socket,      \* sockets: bound on those that exist at the same time
  Timer,       \* timer handles: bound on those that are pending
  FirstDelay,  \* the first reconnect delay
  MaxDelay,    \* the longest
  Refusal,     \* the close code of a refused handshake
  NoSocket, NoTimer

VARIABLES
  mounted,         \* views in messageListeners and stateListeners
  ws,              \* the module's socket
  life,            \* socket -> "free", "connecting", "open", "abandoned" or "closing"
  reconnectTimer,  \* the handle kept of the last timer
  pending,         \* timers that will fire
  reconnectDelay,
  connected,       \* what the views are told
  overwritten      \* history: the handle of a pending timer was overwritten

clientVars == <<mounted, ws, life, reconnectTimer, pending, reconnectDelay, connected,
                overwritten>>

Init == /\ mounted = {} /\ ws = NoSocket
        /\ life = [s \in Socket |-> "free"]
        /\ reconnectTimer = NoTimer /\ pending = {}
        /\ reconnectDelay = FirstDelay /\ connected = FALSE /\ overwritten = FALSE

\* connect: nothing while there is a socket.
Connect ==
  IF ws # NoSocket THEN UNCHANGED <<ws, life>>
  ELSE \E s \in Socket :
         life[s] = "free" /\ ws' = s /\ life' = [life EXCEPT ![s] = "connecting"]

\* subscribeMessages and subscribeState of a view.
Mount(v) ==
  /\ v \notin mounted /\ mounted' = mounted \cup {v}
  /\ Connect
  /\ UNCHANGED <<reconnectTimer, pending, reconnectDelay, connected, overwritten>>

StopTimer == reconnectTimer' = NoTimer /\ pending' = pending \ {reconnectTimer}

\* The last view goes: disconnect.  A socket that was still connecting fails,
\* and says so later.
Unmount(v) ==
  /\ v \in mounted /\ mounted' = mounted \ {v}
  /\ IF mounted = {v}
     THEN /\ StopTimer
          /\ ws' = NoSocket /\ connected' = FALSE
          /\ life' = IF ws = NoSocket THEN life
                     ELSE [life EXCEPT ![ws] = IF @ = "connecting" THEN "abandoned" ELSE "free"]
     ELSE UNCHANGED <<ws, life, reconnectTimer, pending, connected>>
  /\ UNCHANGED <<reconnectDelay, overwritten>>

-----------------------------------------------------------------------------
(* Events of the browser                                                     *)

OnOpen(s) ==
  /\ life[s] = "connecting" /\ life' = [life EXCEPT ![s] = "open"]
  /\ reconnectDelay' = FirstDelay /\ connected' = TRUE
  /\ UNCHANGED <<mounted, ws, reconnectTimer, pending, overwritten>>

Least(a, b) == IF a < b THEN a ELSE b

Schedule ==
  /\ \E t \in Timer \ pending : reconnectTimer' = t /\ pending' = pending \cup {t}
  /\ overwritten' = (overwritten \/ reconnectTimer \in pending)
  /\ reconnectDelay' = Least(2 * reconnectDelay, MaxDelay)

Ended == 1006

\* onclose of the module's socket: it ended, it was never accepted, or a stray
\* error closed it.
OnClose(s, code) ==
  /\ s = ws /\ life[s] \in {"connecting", "open", "closing"}
  /\ life[s] # "connecting" => code = Ended
  /\ ws' = NoSocket /\ connected' = FALSE /\ life' = [life EXCEPT ![s] = "free"]
  /\ IF code = 4403 THEN UNCHANGED <<reconnectTimer, pending, reconnectDelay, overwritten>>
     ELSE Schedule
  /\ UNCHANGED mounted

\* onerror of a socket that was given up while it connected: its handler closes
\* whatever socket the module has by now.
OnStrayError(s) ==
  /\ life[s] = "abandoned"
  /\ life' = [t \in Socket |-> IF t = s THEN "free" ELSE IF t = ws THEN "closing" ELSE life[t]]
  /\ UNCHANGED <<mounted, ws, reconnectTimer, pending, reconnectDelay, connected, overwritten>>

OnTimer(t) ==
  /\ t \in pending /\ pending' = pending \ {t}
  /\ Connect
  /\ UNCHANGED <<mounted, reconnectTimer, reconnectDelay, connected, overwritten>>

Next == \/ \E v \in View : Mount(v) \/ Unmount(v)
        \/ \E s \in Socket : OnOpen(s) \/ OnStrayError(s)
        \/ \E s \in Socket, code \in {Ended, Refusal} : OnClose(s, code)
        \/ \E t \in Timer : OnTimer(t)
Spec == Init /\ [][Next]_clientVars

\* Timers fire, given-up sockets end, and a server that is asked again and again
\* accepts at some time.
EndClosing(s) == life[s] = "closing" /\ OnClose(s, Ended)
ClientFairness ==
  /\ \A s \in Socket :
       /\ SF_clientVars(OnOpen(s)) /\ WF_clientVars(OnStrayError(s))
       /\ WF_clientVars(EndClosing(s))
  /\ \A t \in Timer : WF_clientVars(OnTimer(t))
FairSpec == Spec /\ ClientFairness

-----------------------------------------------------------------------------
(* "Opens on first subscriber, closes when the last one unmounts": without a  *)
(* view there is no socket and no timer that will open one, but for a timer   *)
(* whose handle was overwritten by a second one (useWebSocket.ts 12-14,        *)
(* 62-85).                                                                   *)
SocketHasViewer ==
  /\ mounted = {} /\ ~overwritten => ws = NoSocket /\ pending = {}
  /\ connected => ws # NoSocket /\ life[ws] \in {"open", "closing"}

(* While a view stays and the handshake is not refused for good, the client   *)
(* is connected again and again, whatever is mounted, unmounted, given up and *)
(* closed in between (useWebSocket.ts 42-85).                                *)
Connected == connected \/ mounted = {}
ViewerIsConnected == []<>Connected
=============================================================================
