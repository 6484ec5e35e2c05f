------------------------------ MODULE AuditTrail ------------------------------
(***************************************************************************)
(* The audit log of the actions (backend/app/audit/logger.py) and its mirror  *)
(* in the database (backend/app/database/mirror.py): a file of lines that     *)
(* only grows until it is rotated, the whole-file log of earlier releases      *)
(* that a start migrates, and one task per entry that copies it.             *)
(*                                                                          *)
(* Entries are numbered in the order of their timestamps: 1, 2, ... those     *)
(* logged here, 0, -1, ... those of the earlier releases.                     *)
(***************************************************************************)
EXTENDS Integers, Sequences, SequencesExt, FiniteSets

CONSTANTS
  Legacy,      \* entries of the earlier releases' file
  MaxSize,     \* ROTATION_SIZE_BYTES, in lines
  MaxRead,     \* max_entries
  MaxEntries,  \* bound: entries logged
  MaxTorn      \* bound: writes that fail half way

VARIABLES
  exists,      \* there is a log file
  log,         \* its lines: an entry, Torn (half a line, still open) or Garbled
  rotated,     \* the lines of the rotated file
  logged,      \* entries so far
  tasks,       \* entries a task is about to copy
  rows,        \* entries in the database, oldest row first
  acked,       \* history: entries whose log_event returned
  gone,        \* history: entries in rotated files that were replaced
  torn         \* writes that failed

trailVars == <<exists, log, rotated, logged, tasks, rows, acked, gone, torn>>

Torn == MaxEntries + 1
Garbled == MaxEntries + 2
Oldest == 1 - Legacy
Readable(lines) == {i \in DOMAIN lines : lines[i] \notin {Torn, Garbled}}
Entries(lines) == {lines[i] : i \in Readable(lines)}

\* A line is appended, to half a line when there is one.
AppendLine(lines, line) ==
  IF lines # <<>> /\ Last(lines) = Torn
  THEN Append(Front(lines), IF line = Torn THEN Torn ELSE Garbled)
  ELSE Append(lines, line)

Init == /\ exists = FALSE /\ log = <<>> /\ rotated = <<>>
        /\ logged = 0 /\ tasks = {} /\ rows = <<>>
        /\ acked = {} /\ gone = {} /\ torn = 0

-----------------------------------------------------------------------------
\* A plausible slip: the full file is dropped.
RotateDrops(lines) == UNCHANGED <<rotated, gone>>
\* os.replace: the file that was rotated before is lost.
Rotate(lines) ==
  /\ rotated' = lines
  /\ gone' = gone \cup ToSet(rotated)

\* log_event, behind one method per kind of event: the line is written, a full
\* file is rotated if that works, and then the mirror is scheduled, when there
\* is a database and an event loop.
Log ==
  LET lines == AppendLine(log, logged + 1) IN
  /\ logged < MaxEntries /\ logged' = logged + 1
  /\ acked' = acked \cup {logged'}
  /\ \E copied \in BOOLEAN : tasks' = IF copied THEN tasks \cup {logged'} ELSE tasks
  /\ \/ /\ Len(lines) > MaxSize
        /\ Rotate(lines) /\ log' = <<>> /\ exists' = FALSE
     \/ log' = lines /\ exists' = TRUE /\ UNCHANGED <<rotated, gone>>
  /\ UNCHANGED <<rows, torn>>

\* The disk is full, or the process dies while it writes.
LogFails ==
  /\ logged < MaxEntries /\ logged' = logged + 1
  /\ torn < MaxTorn /\ torn' = torn + 1
  /\ log' = AppendLine(log, Torn) /\ exists' = TRUE
  /\ UNCHANGED <<rotated, tasks, rows, acked, gone>>

\* mirror_audit_entry: a task of its own, in any order; a failure is logged.
Mirror(e) ==
  /\ e \in tasks /\ tasks' = tasks \ {e}
  /\ rows' = Append(rows, e) \/ UNCHANGED rows
  /\ UNCHANGED <<exists, log, rotated, logged, acked, gone, torn>>

\* A new process: without a log file it migrates the old one, oldest entry
\* first, as far as it gets.
Restart ==
  /\ tasks' = {}
  /\ IF exists \/ Legacy = 0 THEN UNCHANGED <<exists, log, torn>>
     ELSE /\ exists' = TRUE
          /\ \/ log' = [i \in 1..Legacy |-> Oldest + i - 1] /\ UNCHANGED torn
             \/ \E n \in 0..Legacy - 1 :
                  /\ torn < MaxTorn /\ torn' = torn + 1
                  /\ log' = Append([i \in 1..n |-> Oldest + i - 1], Torn)
  /\ UNCHANGED <<rotated, logged, rows, acked, gone>>

Next == Log \/ LogFails \/ (\E e \in tasks : Mirror(e)) \/ Restart
Spec == Init /\ [][Next]_trailVars

-----------------------------------------------------------------------------
\* _load_entries: the last lines that can be read.  query sorts what they say;
\* get_action_history leaves it as it is.
Loaded == {i \in Readable(log) : Cardinality({j \in Readable(log) : i < j}) < MaxRead}
Query == {log[i] : i \in Loaded}

(* What was logged stays: an entry whose event was logged without an error is  *)
(* in the log or in the rotated file until a second rotation, and each write   *)
(* that failed half way costs one entry more at most; the lines that are read  *)
(* have their entries in order, none twice, and the newest of the log,        *)
(* although old files are migrated; and the database holds no entry that was   *)
(* not logged, and none twice (logger.py 45-86, 217-327, mirror.py 30-97).     *)
AuditIsKept ==
  /\ Cardinality(acked \ (Entries(log) \cup Entries(rotated) \cup gone)) <= torn
  /\ \A i, j \in Loaded : i < j => log[i] < log[j]
  /\ \A e \in Entries(log) \ Query, shown \in Query : e < shown
  /\ ToSet(rows) \subseteq acked /\ IsInjective(rows)
=============================================================================
