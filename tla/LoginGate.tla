------------------------------ MODULE LoginGate ------------------------------
(***************************************************************************)
(* The brake on failed logins (backend/app/main.py): failures are counted in  *)
(* memory, per pair of address and user name and per address.  The password   *)
(* is verified in a thread, so logins are between their gate and their record *)
(* at the same time.  Times are ages in ticks, dropped after Window.          *)
(***************************************************************************)
EXTENDS Windows, FiniteSets

CONSTANTS
  Address,     \* client addresses
  Name,        \* user names
  Login,       \* logins that may be under way at the same time
  Limit,       \* _LOGIN_FAIL_LIMIT
  IpLimit,     \* _LOGIN_IP_FAIL_LIMIT
  Window,      \* _LOGIN_FAIL_WINDOW_SECONDS
  NoLogin

VARIABLES
  failures,    \* _login_failures: pair -> ages
  ipFailures,  \* _login_ip_failures: address -> ages
  verifying,   \* login -> the pair it tries, or NoLogin
  guessed,     \* history: pair -> ages of the wrong passwords since it last succeeded
  tried        \* history: address -> ages of all wrong passwords

gateVars == <<failures, ipFailures, verifying, guessed, tried>>

Pair == Address \X Name
Init == /\ failures = [p \in Pair |-> <<>>] /\ ipFailures = [a \in Address |-> <<>>]
        /\ verifying = [l \in Login |-> NoLogin]
        /\ guessed = [p \in Pair |-> <<>>] /\ tried = [a \in Address |-> <<>>]

Recent(ages) == Inside(ages, Window)

\* A plausible slip: a failure of the pair alone closes the gate.
OpenForPair(p) == Len(Recent(failures[p])) < Limit
Open(p) == /\ Len(Recent(failures[p])) < Limit
           /\ Len(Recent(ipFailures[p[1]])) < IpLimit

\* _login_gate prunes both windows, whatever it answers.
Gate(l, p) ==
  /\ verifying[l] = NoLogin
  /\ failures' = [failures EXCEPT ![p] = Recent(@)]
  /\ ipFailures' = [ipFailures EXCEPT ![p[1]] = Recent(@)]
  /\ verifying' = IF Open(p) THEN [verifying EXCEPT ![l] = p] ELSE verifying
  /\ UNCHANGED <<guessed, tried>>

\* The password is wrong.
RecordFailure(l) ==
  LET p == verifying[l] IN
  /\ p # NoLogin /\ verifying' = [verifying EXCEPT ![l] = NoLogin]
  /\ failures' = [failures EXCEPT ![p] = Append(@, 0)]
  /\ ipFailures' = [ipFailures EXCEPT ![p[1]] = Append(@, 0)]
  /\ guessed' = [guessed EXCEPT ![p] = Append(@, 0)]
  /\ tried' = [tried EXCEPT ![p[1]] = Append(@, 0)]

\* It is right: the pair starts anew, the address does not.
RecordSuccess(l) ==
  LET p == verifying[l] IN
  /\ p # NoLogin /\ verifying' = [verifying EXCEPT ![l] = NoLogin]
  /\ failures' = [failures EXCEPT ![p] = <<>>]
  /\ guessed' = [guessed EXCEPT ![p] = <<>>]
  /\ UNCHANGED <<ipFailures, tried>>

Tick ==
  /\ failures' = [p \in Pair |-> Recent(Aged(failures[p], Window))]
  /\ ipFailures' = [a \in Address |-> Recent(Aged(ipFailures[a], Window))]
  /\ guessed' = [p \in Pair |-> Recent(Aged(guessed[p], Window))]
  /\ tried' = [a \in Address |-> Recent(Aged(tried[a], Window))]
  /\ UNCHANGED verifying

Restart ==
  /\ verifying' = [l \in Login |-> NoLogin]
  /\ failures' = [p \in Pair |-> <<>>] /\ ipFailures' = [a \in Address |-> <<>>]
  /\ guessed' = [p \in Pair |-> <<>>] /\ tried' = [a \in Address |-> <<>>]

Next == \/ \E l \in Login : \/ \E p \in Pair : Gate(l, p)
                            \/ RecordFailure(l) \/ RecordSuccess(l)
        \/ Tick \/ Restart
Spec == Init /\ [][Next]_gateVars

-----------------------------------------------------------------------------
(* However many logins run at the same time, one name is guessed at from one   *)
(* address at most Limit times in a window, and any names IpLimit times, but   *)
(* for the logins that had passed the gate already; and a success forgives     *)
(* its own pair only (main.py 724-800).                                      *)
Others(pairs) == Cardinality({l \in Login : verifying[l] \in pairs})
GuessesBounded ==
  /\ \A p \in Pair : Len(guessed[p]) + Others({p}) < Limit + Cardinality(Login)
  /\ \A a \in Address : Len(tried[a]) + Others({a} \X Name) < IpLimit + Cardinality(Login)
=============================================================================
