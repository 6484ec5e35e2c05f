---------------------------- MODULE ConfigVersions ----------------------------
(***************************************************************************)
(* The versions of one project's configuration (backend/app/configmgmt/      *)
(* versioning.py behind api/v1/config.py).  Versions are files numbered by    *)
(* the count of the files; each worker process remembers which version it     *)
(* made current.  Nothing is awaited between the count and the write, so the   *)
(* two are apart only between processes, or when one dies.                    *)
(***************************************************************************)
EXTENDS Naturals, FiniteSets

CONSTANTS
  Worker,      \* processes on the same storage path
  Config,      \* configurations
  MaxId,       \* bound: version numbers
  MaxSerial    \* bound: versions ever written

VARIABLES
  files,      \* version number -> version; None without a file, or Torn
  current,    \* per worker: _current_versions, 0 after a start
  live,       \* projects/<project>/config.yaml
  doing,      \* per worker: the version it is about to write
  serial,     \* timestamps given so far
  parted      \* history: a version was removed, or two processes saved at once

versionVars == <<files, current, live, doing, serial, parted>>

Id == 1..MaxId
None == [serial |-> 0, config |-> "none", parent |-> 0]
Torn == [serial |-> 0, config |-> "torn", parent |-> 0]
Idle == [id |-> 0, version |-> None, rollback |-> FALSE, excused |-> FALSE, opened |-> FALSE]
Role == {"admin", "operator", "viewer", "service"}

\* The files that can be read: _list_versions skips a torn one.
Stored == {id \in Id : files[id] \notin {None, Torn}}

Init == /\ files = [id \in Id |-> None] /\ live = "none" /\ serial = 0 /\ parted = FALSE
        /\ current = [w \in Worker |-> 0]
        /\ doing = [w \in Worker |-> Idle]

\* _require_config_editor: an API key has no user and may edit.
MayEdit(role) == role # "viewer"

\* _list_versions sorts by timestamp, newest first.
Newest(ids) == CHOOSE id \in ids : \A k \in ids : files[k].serial <= files[id].serial
Latest == IF Stored = {} THEN 0 ELSE Newest(Stored)

\* A plausible slip: the number of the latest version is used again.
NumberOfLatest == IF Stored = {} THEN 1 ELSE Cardinality(Stored)
NextNumber == Cardinality(Stored) + 1

\* The number, the parent and the time of a new version.
Plan(w, config, rollback) ==
  /\ doing[w] = Idle /\ NextNumber <= MaxId /\ serial < MaxSerial
  /\ serial' = serial + 1
  /\ doing' = [doing EXCEPT ![w] =
       [id |-> NextNumber, rollback |-> rollback, opened |-> FALSE,
        version |-> [serial |-> serial + 1, config |-> config, parent |-> Latest],
        excused |-> \E id \in Stored : id > Cardinality(Stored)]]
  /\ UNCHANGED <<files, current, live, parted>>

CreateVersion(w) == \E config \in Config, role \in Role : MayEdit(role) /\ Plan(w, config, FALSE)
Rollback(w) ==
  \E target \in Stored, role \in Role : MayEdit(role) /\ Plan(w, files[target].config, TRUE)

\* What the other workers count is out of date now.
Disturb(w) == [v \in Worker |-> IF v = w \/ doing[v] = Idle THEN doing[v]
                                ELSE [doing[v] EXCEPT !.excused = TRUE]]

Alone(w) == \A v \in Worker \ {w} : doing[v] = Idle

\* open(..., "w"): what was in the file is gone.
Open(w) == /\ doing[w] # Idle /\ ~doing[w].opened
           /\ files' = [files EXCEPT ![doing[w].id] = Torn]
           /\ doing' = [Disturb(w) EXCEPT ![w].opened = TRUE]
           /\ parted' = (parted \/ ~Alone(w))
           /\ UNCHANGED <<current, live, serial>>

\* The file is written, the version is current; a rollback opens and writes the
\* live configuration as well, or fails there.
Save(w) ==
  /\ doing[w].opened
  /\ files' = [files EXCEPT ![doing[w].id] = doing[w].version]
  /\ current' = [current EXCEPT ![w] = doing[w].id]
  /\ live' \in IF doing[w].rollback THEN {doing[w].version.config, "torn", live} ELSE {live}
  /\ doing' = [Disturb(w) EXCEPT ![w] = Idle]
  /\ parted' = (parted \/ ~Alone(w))
  /\ UNCHANGED serial

\* The disk is full, or the process dies: what was opened stays torn.
SaveFails(w) == /\ doing[w] # Idle
                /\ doing' = [doing EXCEPT ![w] = Idle]
                /\ UNCHANGED <<files, current, live, serial, parted>>

Remove(w, ids) == /\ files' = [id \in Id |-> IF id \in ids THEN None ELSE files[id]]
                  /\ doing' = Disturb(w)
                  /\ parted' = TRUE
                  /\ UNCHANGED <<current, live, serial>>

\* The version this worker made current stays.
DeleteVersion(w, id) == /\ doing[w] = Idle /\ files[id] # None /\ id # current[w]
                        /\ Remove(w, {id})

\* All but the newest keep, and the current one.
CleanupOldVersions(w, keep) ==
  LET old == {id \in Stored : keep <= Cardinality({k \in Stored : files[k].serial > files[id].serial})}
  IN  /\ doing[w] = Idle /\ old \ {current[w]} # {}
      /\ Remove(w, old \ {current[w]})

Restart(w) == /\ current[w] # 0
              /\ current' = [current EXCEPT ![w] = 0]
              /\ doing' = [doing EXCEPT ![w] = Idle]
              /\ UNCHANGED <<files, live, serial, parted>>

Next == \E w \in Worker :
          \/ CreateVersion(w) \/ Rollback(w) \/ Open(w) \/ Save(w) \/ SaveFails(w) \/ Restart(w)
          \/ \E id \in Id : DeleteVersion(w, id)
          \/ \E keep \in 1..2 : CleanupOldVersions(w, keep)
Spec == Init /\ [][Next]_versionVars

-----------------------------------------------------------------------------
(* History is never rewritten, not even by a rollback, a clean-up or a save    *)
(* that dies half way: a stored version changes, or is torn, only when its       *)
(* number was given twice, which takes a number below it that is missing or      *)
(* torn, or two processes that counted at the same time; and neither comes about  *)
(* by failed saves alone (versioning.py 97-149, 303-331, 388-397).              *)
RewritesNothing ==
  \A id \in Stored : files'[id] \notin {files[id], None} =>
    parted /\ \E w \in Worker : doing[w].id = id /\ doing[w].excused
HistoryKept == [][RewritesNothing]_versionVars
=============================================================================
