---------------------------- MODULE LogAnalyzer ----------------------------
(***************************************************************************)
(* The log-analyzer agent (blueprints/log-analyzer/agent.ts) and the        *)
(* process that writes its log file, which may write between any two of the *)
(* agent's system calls.  Content is a file and how many lines of it.       *)
(***************************************************************************)
EXTENDS Naturals

CONSTANTS
  MaxSize,      \* bound: lines of a file
  MaxRotations  \* bound: times the file is replaced by an empty one

VARIABLES
  file,      \* the file now: which, and its size
  entries,   \* what was loaded
  lastSize,
  stat,      \* what the last load's statSync found
  loadedId,  \* history: the file the stat of the last load that succeeded found
  loading    \* "no", "changed" (before the load's stat), "stat" (before its read)

logVars == <<file, entries, lastSize, stat, loadedId, loading>>

LogInit ==
  /\ file = [id |-> 0, size |-> 0]
  /\ entries = file
  /\ lastSize = 0
  /\ stat = file
  /\ loadedId = 0
  /\ loading = "changed"

Log ==
  /\ file.size < MaxSize
  /\ file' = [file EXCEPT !.size = @ + 1]
  /\ UNCHANGED <<entries, lastSize, stat, loadedId, loading>>

Rotate ==
  /\ file.id < MaxRotations
  /\ file' = [id |-> file.id + 1, size |-> 0]
  /\ UNCHANGED <<entries, lastSize, stat, loadedId, loading>>

\* reloadIfChanged, by watchFile or by a tool.
ReloadIfChanged ==
  /\ loading = "no"
  /\ file.size # lastSize
  /\ loading' = "changed"
  /\ UNCHANGED <<file, entries, lastSize, stat, loadedId>>

\* loadLogFile: statSync.
LoadStat ==
  /\ loading = "changed"
  /\ stat' = file
  /\ loading' = "stat"
  /\ UNCHANGED <<file, entries, lastSize, loadedId>>

\* Faulty variant of LoadRead: the file is read first, its size taken after.
LoadReadFirst ==
  /\ loading = "stat"
  /\ entries' = stat
  /\ lastSize' = file.size
  /\ loadedId' = stat.id
  /\ loading' = "no"
  /\ UNCHANGED <<file, stat>>

\* loadLogFile: readFileSync and the rest.
LoadRead ==
  /\ loading = "stat"
  /\ entries' = file
  /\ lastSize' = stat.size
  /\ loadedId' = stat.id
  /\ loading' = "no"
  /\ UNCHANGED <<file, stat>>

\* statSync or readFileSync throws.
LoadFails ==
  /\ loading \in {"changed", "stat"}
  /\ loading' = "no"
  /\ UNCHANGED <<file, entries, lastSize, stat, loadedId>>

LogNext == Log \/ Rotate \/ ReloadIfChanged \/ LoadStat \/ LoadRead \/ LoadFails
-----------------------------------------------------------------------------
\* If the size says that nothing was written, and the file was not replaced
\* since the stat of the last load, the entries are the file's, whenever it was
\* written to between stat and read and whichever loads failed since
\* (loadLogFile, reloadIfChanged).
UnchangedIsLoaded ==
  loading = "no" /\ loadedId = file.id /\ lastSize = file.size => entries = file
=============================================================================
