------------------------------ MODULE ConfigAudit ------------------------------
(***************************************************************************)
(* The audit log of configuration changes (backend/app/configmgmt/audit.py):  *)
(* one file per day, chosen when the process starts and again when the file   *)
(* is rotated for its size.  Writing is best effort.                         *)
(***************************************************************************)
EXTENDS Naturals, FiniteSets

CONSTANTS
  Window,       \* days the unfiltered trail goes back: 90
  FileLimit,    \* entries that fill a file: rotation_size
  MaxDay,       \* bound: days
  MaxWritten    \* bound: entries

VARIABLES
  today,      \* the day
  opened,     \* the day in the name of current_log_file
  files,      \* day -> entries in the file of that name
  torn,       \* days whose file has a torn gzip member in it
  hidden,     \* entries behind a torn member: the reader does not get to them
  rotated,    \* entries in files that were renamed
  written     \* history: every entry that reached a file whole

auditVars == <<today, opened, files, torn, hidden, rotated, written>>

Day == 0..MaxDay

Init == /\ today = 0 /\ opened = 0
        /\ files = [d \in Day |-> {}]
        /\ torn = {} /\ hidden = {} /\ rotated = {} /\ written = {}

\* An entry is known by its number, the day it was written and the day its
\* process chose the file.
Entry == [no |-> Cardinality(written), day |-> today, opened |-> opened]
Full(entries) == Cardinality(entries) >= FileLimit

\* _check_rotation, after every write: the file, which has these entries and
\* tears now, is renamed when it is full, what is torn counting as well, ...
Rotate(file, tears) ==
  /\ Full(file) \/ opened \in tears
  /\ files' = [files EXCEPT ![opened] = {}]
  /\ rotated' = rotated \cup file
  /\ torn' = tears \ {opened}
  /\ opened' = today

\* ... and goes on when it is not, or the rename fails.
Stay(file, tears) == /\ files' = [files EXCEPT ![opened] = file]
                     /\ torn' = tears
                     /\ UNCHANGED <<rotated, opened>>

CheckRotation(file, tears) == Rotate(file, tears) \/ Stay(file, tears)

\* The reader gives up on a file at its first tear.
Behind(entry) == IF opened \in torn THEN {entry} ELSE {}

AppendToLog(tears) ==
  /\ Cardinality(written) < MaxWritten
  /\ written' = written \cup {Entry}
  /\ hidden' = hidden \cup Behind(Entry)
  /\ CheckRotation(files[opened] \cup {Entry}, tears)
  /\ UNCHANGED today

Log == AppendToLog(torn)

\* The disk fills up in the trailer, after the last byte of the entry ...
LogEndTorn == AppendToLog(torn \cup {opened})

\* ... in the entry, or the file cannot be opened: the error is only reported.
LogFails == /\ \E tears \in {torn, torn \cup {opened}} : CheckRotation(files[opened], tears)
            /\ UNCHANGED <<today, hidden, written>>

Restart == /\ opened # today
           /\ opened' = today
           /\ UNCHANGED <<today, files, torn, hidden, rotated, written>>

NextDay == /\ today < MaxDay
           /\ today' = today + 1
           /\ UNCHANGED <<opened, files, torn, hidden, rotated, written>>

Next == Log \/ LogEndTorn \/ LogFails \/ Restart \/ NextDay
Spec == Init /\ [][Next]_auditVars

\* get_audit_trail: the files named after the days of the range, all of the
\* last Window days when there is none, each up to its first tear.  Rotated
\* names are never among them.
FilesInRange(first, last) == {d \in Day : first <= d /\ d <= last}
Trail(first, last) == (UNION {files[d] : d \in FilesInRange(first, last)}) \ hidden
RecentTrail == Trail(IF today < Window THEN 0 ELSE today - Window, today)

-----------------------------------------------------------------------------
(* An entry is found for Window days, less the days its process had been up    *)
(* when it was written, unless its file was rotated or a write failed in that  *)
(* file before it: a torn entry costs what is written after it to the same     *)
(* file, and nothing before it or in another file.  No entry is found twice    *)
(* (audit.py 98-150, 163-226, 315-345).                                       *)
RecentIsFound ==
  /\ \A e \in written \ (rotated \cup hidden) :
       (today - e.day) + (e.day - e.opened) <= Window => e \in RecentTrail
  /\ \A d \in Day \ torn : files[d] \cap hidden = {}
  /\ RecentTrail \subseteq written \ rotated
  /\ \A c, d \in Day : c # d => files[c] \cap files[d] = {}
=============================================================================
