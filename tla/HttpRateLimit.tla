---------------------------- MODULE HttpRateLimit ----------------------------
(***************************************************************************)
(* The windows in which one process counts the requests of its clients       *)
(* (backend/app/rate_limit.py): a dictionary bounded by sweeping and, when   *)
(* that is not enough, by eviction.  Times are ages in ticks of a burst (two  *)
(* seconds), dropped after Window.                                           *)
(***************************************************************************)
EXTENDS Windows, SequencesExt

CONSTANTS
  Remote,         \* clients, as ClientId tells them apart
  MaxRequests,    \* requests_per_minute
  MaxBurst,       \* burst
  Window,         \* _WINDOW_SECONDS, _SWEEP_INTERVAL_SECONDS
  MaxTracked      \* MAX_TRACKED_CLIENTS

VARIABLES
  tracked,    \* the clients with a window, oldest insertion first
  window,     \* ages of the requests in each window, oldest first
  swept,      \* age of the last sweep
  admitted,   \* history: ages of the last MaxRequests + 1 admitted requests
  excused     \* history: clients that lost a window that still counted

httpVars == <<tracked, window, swept, admitted, excused>>

Init == /\ tracked = <<>> /\ swept = Window /\ excused = {}
        /\ window = [c \in Remote |-> <<>>]
        /\ admitted = [c \in Remote |-> <<>>]

Live(ages) == Inside(ages, Window)
Burst(ages) == Len(Inside(ages, 1))
Noted(ages) == IF Len(ages) > MaxRequests THEN Append(Tail(ages), 0) ELSE Append(ages, 0)

-----------------------------------------------------------------------------
\* Every minute the windows without a live request go ...
Stale(c) == window[c] = <<>> \/ Last(window[c]) >= Window
Swept == IF swept < Window THEN tracked ELSE Kept(tracked, {c \in Remote : ~Stale(c)})

\* ... and at the cap the oldest insertions do, until there is room for one.
Bounded(s) == IF Len(s) < MaxTracked THEN s ELSE SubSeq(s, Len(s) - MaxTracked + 2, Len(s))

\* The verdict; only an admitted request is added to the window.
Admits(mine) == Len(mine) < MaxRequests /\ Burst(mine) < MaxBurst

Ask(c) ==
  LET kept == Bounded(Swept)
      mine == IF c \in ToSet(kept) THEN Live(window[c]) ELSE <<>>
      next == IF Admits(mine) THEN Append(mine, 0) ELSE mine
  IN  /\ tracked' = IF c \in ToSet(kept) THEN kept ELSE Append(kept, c)
      /\ swept' = IF swept < Window THEN swept ELSE 0
      /\ window' = [d \in Remote |-> IF d = c THEN next
                                     ELSE IF d \in ToSet(kept) THEN window[d] ELSE <<>>]
      /\ excused' = excused \cup {d \in ToSet(tracked) \ ToSet(kept) : ~Stale(d)}
      /\ admitted' = IF Admits(mine) THEN [admitted EXCEPT ![c] = Noted(@)] ELSE admitted

Tick == /\ window' = [c \in Remote |-> Aged(window[c], Window)]
        /\ admitted' = [c \in Remote |-> Live(Aged(admitted[c], Window))]
        /\ swept' = Older(swept, Window)
        /\ excused' = {c \in excused : admitted'[c] # <<>>}
        /\ UNCHANGED tracked

Next == (\E c \in Remote : Ask(c)) \/ Tick
Spec == Init /\ [][Next]_httpVars

-----------------------------------------------------------------------------
(* The limit and the burst hold in every sliding window, across sweeps, for   *)
(* every client but those that an eviction gave a fresh window: limiting is   *)
(* degraded, never bypassed (rate_limit.py 20-28, 177-228).                   *)
LimitHolds == \A c \in Remote \ excused : /\ Len(admitted[c]) <= MaxRequests
                                          /\ Burst(admitted[c]) <= MaxBurst

(* The dictionary stays bounded, however many clients come, and no live       *)
(* window is outside it (rate_limit.py 177-204).                              *)
TrackedBounded ==
  /\ Len(tracked) <= MaxTracked
  /\ \A c \in Remote : window[c] # <<>> => c \in ToSet(tracked)

-----------------------------------------------------------------------------
(* The bucket of a request: the right-most address of the forwarded chain     *)
(* that is not a trusted proxy, when a trusted proxy delivers it.  An address *)
(* that does not parse is "bad", a missing one is "".                         *)
ClientId(direct, forwarded, real, trusted) ==
  LET chain == Kept(forwarded, ToSet(forwarded) \ (trusted \cup {""}))
      known == chain # <<>> /\ Last(chain) # "bad"
  IN  CASE direct \in trusted /\ forwarded # <<>> -> IF known THEN Last(chain) ELSE direct
        [] direct \in trusted /\ forwarded = <<>> /\ real \notin {"", "bad"} -> real
        [] OTHER -> IF direct = "" THEN "unknown" ELSE direct

(* A client is told apart by what the proxies in front of the service saw: it  *)
(* does not move to another bucket by what it writes into the forwarded chain *)
(* itself, and without a trusted proxy nothing it writes counts              *)
(* (rate_limit.py 83-152).                                                   *)
BucketIsNotChosen(direct, seen, written, real, trusted) ==
  /\ direct \in trusted /\ seen \notin trusted \cup {""} =>
       ClientId(direct, Append(written, seen), real, trusted)
         = ClientId(direct, <<seen>>, "", trusted)
  /\ direct \notin trusted =>
       ClientId(direct, written, real, trusted) = ClientId(direct, <<>>, "", trusted)
=============================================================================
