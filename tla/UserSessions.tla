----------------------------- MODULE UserSessions -----------------------------
(***************************************************************************)
(* The tokens of one user (backend/app/auth.py) and the user file that       *)
(* decides whether they still count (users.py, the middleware and the auth    *)
(* endpoints of main.py).  Tokens are not stored anywhere: a token is the     *)
(* second it was issued in.  The server and the command line tool each read   *)
(* the whole file, change their copy and write all of it back.               *)
(***************************************************************************)
EXTENDS Naturals

CONSTANTS
  TTL,        \* AUTH_TOKEN_TTL_SECONDS
  MaxClock    \* bound: seconds

VARIABLES
  now,      \* the second
  entry,    \* the user in the file: Missing, or min_iat
  tokens,   \* the seconds in which a token was issued
  copy,     \* what each process is about to write, None between updates
  floor     \* history: the last logout that nothing has undone

sessionVars == <<now, entry, tokens, copy, floor>>

Missing == MaxClock + 1
Process == {"server", "cli"}
None == [op |-> "none", entry |-> Missing, stale |-> FALSE]
Exists == entry # Missing

Init == /\ now = 0 /\ entry = Missing /\ tokens = {} /\ floor = 0
        /\ copy = [p \in Process |-> None]

\* AuthMiddleware.dispatch, for a token of this user.
Accepted(iat) == /\ now - iat <= TTL
                 /\ Exists /\ iat >= entry

Issue == tokens' = tokens \cup {now}

\* The password is right.
Login == /\ Exists
         /\ Issue
         /\ UNCHANGED <<now, entry, copy, floor>>

\* A token the middleware accepts is exchanged for a fresh one; the user may
\* have logged out between the middleware and the handler.
Refresh(iat) == /\ iat \in tokens /\ now - iat <= TTL
                /\ Exists
                /\ Issue
                /\ UNCHANGED <<now, entry, copy, floor>>

-----------------------------------------------------------------------------
(* Updates of the file                                                       *)

\* A plausible slip: the floor is set to the age of the token that logs out.
FloorOfToken(iat) == iat
LogoutFloor(iat) == now

\* What an update makes of the user: the command line tool creates an entry
\* without min_iat, deletes it, or changes another user.
Load(p, op, e) ==
  /\ copy[p] = None
  /\ copy' = [copy EXCEPT ![p] = [op |-> op, entry |-> e, stale |-> FALSE]]
  /\ UNCHANGED <<now, entry, tokens, floor>>

Logout(iat) == /\ iat \in tokens /\ now - iat <= TTL /\ Exists
               /\ Load("server", "logout", LogoutFloor(iat))
Create == Load("cli", "create", 0)
Delete == Exists /\ Load("cli", "delete", Missing)
ChangeOther == Load("cli", "other", entry)

\* The file is replaced as a whole; readers see it at their next stat.
Save(p) ==
  LET c == copy[p] IN
  /\ c # None
  /\ entry' = c.entry
  /\ copy' = [q \in Process |-> IF q = p THEN None
                ELSE [copy[q] EXCEPT !.stale = copy[q] # None]]
  /\ floor' = IF c.stale \/ c.op = "create" THEN 0
              ELSE IF c.op = "logout" THEN now ELSE floor
  /\ UNCHANGED <<now, tokens>>

\* The process dies before it replaces the file.
Abandon(p) == /\ copy[p] # None
              /\ copy' = [copy EXCEPT ![p] = None]
              /\ UNCHANGED <<now, entry, tokens, floor>>

\* The clock; an update takes less than a second.
Tick == /\ now < MaxClock /\ \A p \in Process : copy[p] = None
        /\ now' = now + 1
        /\ UNCHANGED <<entry, tokens, copy, floor>>

Next == \/ Login \/ Create \/ Delete \/ ChangeOther \/ Tick
        \/ \E iat \in tokens : Refresh(iat) \/ Logout(iat)
        \/ \E p \in Process : Save(p) \/ Abandon(p)
Spec == Init /\ [][Next]_sessionVars

-----------------------------------------------------------------------------
(* A logout holds: no token of a second before its own is accepted again,     *)
(* whatever is refreshed, deleted or changed for another user, until the       *)
(* account is created anew or a process writes back a copy it had read before  *)
(* (users.py 97-189, main.py 60-86 and 682-724).                              *)
LogoutHolds == \A iat \in tokens : Accepted(iat) => iat >= floor

(* A logout ends every token issued so far: as soon as it is saved none is      *)
(* accepted (users.py 178-179, main.py 711-714).                              *)
LogoutEndsTokens ==
  [][\A p \in Process : Save(p) /\ copy[p].op = "logout" =>
       \A iat \in tokens : ~Accepted(iat)']_sessionVars
=============================================================================
