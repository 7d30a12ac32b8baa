------------------------------- MODULE StatsSave -------------------------------
(***************************************************************************)
(* How evade-proxy keeps its counters across restarts: the maintenance     *)
(* task saves a snapshot every few ticks, main saves one more when it is   *)
(* told to stop, and a starting process loads the file (Counters::load,    *)
(* save_stats, the end of main).                                           *)
(*                                                                         *)
(* A save writes the whole snapshot to a temporary file and renames it.    *)
(* Each of the two is an operation of the runtime's blocking pool: once    *)
(* started it runs to its end even if the task that awaits it is aborted,  *)
(* and writing opens and truncates the file before it fills it.            *)
(*                                                                         *)
(* The counters are one number.  A file is its inode, because a write that *)
(* is under way follows the inode through a rename.                        *)
(***************************************************************************)
EXTENDS Integers, FiniteSets

CONSTANTS
  Inodes,       \* inodes of the state directory
  MaxCount,     \* bound: responses counted
  MaxStops,     \* bound: orderly stops, by signal or listener error
  MaxKills      \* bound: kills and crashes

NoFile == "no file"

ASSUME StatsSaveAssumption ==
  /\ IsFiniteSet(Inodes) /\ Cardinality(Inodes) >= 4 /\ NoFile \notin Inodes
  /\ MaxCount \in Nat /\ MaxStops \in Nat /\ MaxKills \in Nat

VARIABLES
  counter,   \* Counters of the running process
  pc,        \* main: serving, saving (its last save), leaving, down
  abort,     \* of the maintenance task: no, asked for, or done
  op,        \* the operation of each task in the blocking pool
  content,   \* inode -> the snapshot in it, or Torn
  tmp,       \* inode of evade_stats.json.tmp
  stats,     \* inode of evade_stats.json
  overlap,   \* history: a maintenance save has been under way during main's
  lastSave,  \* history: the snapshot main saved without an error, if it did
  stops, kills

files == <<content, tmp, stats>>
bounds == <<stops, kills>>
vars == <<counter, pc, abort, op, files, overlap, lastSave, bounds>>

Torn   == -1
NoSave == -1
Savers == {"maintenance", "main"}
NoOp   == [step |-> "none", snap |-> 0, inode |-> NoFile]

\* Steps of a save: the write is queued in the pool; the file is open and
\* empty; it is full, and the saver has to ask for the rename; the rename is
\* queued; the save is over, well or not.
UnderWay == {"write", "fill", "written", "rename"}

Init ==
  /\ counter = 0 /\ pc = "serving" /\ abort = "no"
  /\ op = [s \in Savers |-> NoOp]
  /\ content = [i \in Inodes |-> Torn]
  /\ tmp = NoFile /\ stats = NoFile
  /\ overlap = FALSE /\ lastSave = NoSave
  /\ stops = 0 /\ kills = 0

Step(s, step) == op' = [op EXCEPT ![s].step = step]

\* Relay tasks go on counting until the process ends.
Count ==
  /\ pc # "down" /\ counter < MaxCount
  /\ counter' = counter + 1
  /\ UNCHANGED <<pc, abort, op, files, overlap, lastSave, bounds>>

-------------------------------------------------------------------------------
\* save_stats.

Begin(s) == op' = [op EXCEPT ![s] = [step |-> "write", snap |-> counter, inode |-> NoFile]]

\* The temporary file is created, or truncated if there is one.
OpenTmp(s) ==
  /\ op[s].step = "write"
  /\ \E i \in Inodes :
       /\ IF tmp = NoFile
          THEN i \notin {stats} \cup {op[o].inode : o \in Savers}
          ELSE i = tmp
       /\ tmp' = i
       /\ content' = [content EXCEPT ![i] = Torn]
       /\ op' = [op EXCEPT ![s].step = "fill", ![s].inode = i]
  /\ UNCHANGED <<counter, pc, abort, stats, overlap, lastSave, bounds>>

Fill(s) ==
  /\ op[s].step = "fill"
  /\ content' = [content EXCEPT ![op[s].inode] = op[s].snap]
  /\ op' = [op EXCEPT ![s].step = "written", ![s].inode = NoFile]
  /\ UNCHANGED <<counter, pc, abort, tmp, stats, overlap, lastSave, bounds>>

AfterFailure_Renamed == "written"
AfterFailure         == "error"

\* Disk full, directory gone: whatever is there stays.
WriteFails(s) ==
  /\ op[s].step \in {"write", "fill"}
  /\ op' = [op EXCEPT ![s].step = AfterFailure, ![s].inode = NoFile]
  /\ UNCHANGED <<counter, pc, abort, files, overlap, lastSave, bounds>>

\* abort() lets the poll of the task that is in progress, if any, end.
MaintenanceRuns ==
  /\ abort # "yes"
  /\ abort' = IF abort = "asked" THEN "yes" ELSE "no"
  /\ overlap' = (overlap \/ abort = "asked")

AskRename(s) ==
  /\ op[s].step = "written"
  /\ Step(s, "rename")
  /\ IF s = "main" THEN UNCHANGED <<abort, overlap>> ELSE MaintenanceRuns
  /\ UNCHANGED <<counter, pc, files, lastSave, bounds>>

\* It fails without a temporary file, and for other reasons at any time.
Rename(s) ==
  /\ op[s].step = "rename"
  /\ \/ tmp # NoFile /\ Step(s, "ok") /\ stats' = tmp /\ tmp' = NoFile
     \/ Step(s, "error") /\ UNCHANGED <<tmp, stats>>
  /\ UNCHANGED <<counter, pc, abort, content, overlap, lastSave, bounds>>

-------------------------------------------------------------------------------
\* The maintenance task.

Maintain ==
  /\ pc # "down" /\ op["maintenance"].step = "none"
  /\ MaintenanceRuns
  /\ Begin("maintenance")
  /\ UNCHANGED <<counter, pc, files, lastSave, bounds>>

\* A failed save is only reported; the next one tries again.
Maintained ==
  /\ op["maintenance"].step \in {"ok", "error"}
  /\ MaintenanceRuns
  /\ op' = [op EXCEPT !["maintenance"] = NoOp]
  /\ UNCHANGED <<counter, pc, files, lastSave, bounds>>

Cancelled ==
  /\ abort = "asked"
  /\ abort' = "yes"
  /\ UNCHANGED <<counter, pc, op, files, overlap, lastSave, bounds>>

-------------------------------------------------------------------------------
\* main.

AbortAtSignal_Never == abort
AbortAtSignal       == "asked"

\* ctrl_c or SIGTERM: stop the maintenance task, save once more.
Signal ==
  /\ pc = "serving" /\ stops < MaxStops
  /\ stops' = stops + 1
  /\ abort' = AbortAtSignal
  /\ overlap' = (overlap \/ op["maintenance"].step \in UnderWay)
  /\ Begin("main")
  /\ pc' = "saving"
  /\ UNCHANGED <<counter, files, lastSave, kills>>

\* main returns whether or not its save succeeded.
Saved ==
  /\ pc = "saving" /\ op["main"].step \in {"ok", "error"}
  /\ lastSave' = IF op["main"].step = "ok" THEN op["main"].snap ELSE NoSave
  /\ op' = [op EXCEPT !["main"] = NoOp]
  /\ pc' = "leaving"
  /\ UNCHANGED <<counter, abort, files, overlap, bounds>>

\* The error of a listener ends main without a save.
ListenerError ==
  /\ pc = "serving" /\ stops < MaxStops
  /\ stops' = stops + 1
  /\ abort' = "asked"
  /\ pc' = "leaving"
  /\ UNCHANGED <<counter, op, files, overlap, lastSave, kills>>

\* The runtime waits for the operations that run and drops those still queued.
Exit ==
  /\ pc = "leaving" /\ abort = "yes"
  /\ op["maintenance"].step # "fill"
  /\ op' = [s \in Savers |-> NoOp]
  /\ pc' = "down"
  /\ UNCHANGED <<counter, abort, files, overlap, lastSave, bounds>>

Kill ==
  /\ pc # "down" /\ kills < MaxKills
  /\ kills' = kills + 1
  /\ op' = [s \in Savers |-> NoOp]
  /\ pc' = "down"
  /\ UNCHANGED <<counter, abort, files, overlap, lastSave, stops>>

\* What Counters::load makes of the file: one that is missing or does not
\* parse counts as zeros.
OnDisk == IF stats = NoFile \/ content[stats] = Torn THEN 0 ELSE content[stats]

AtStart_Zero == 0
AtStart      == OnDisk

Start ==
  /\ pc = "down"
  /\ counter' = AtStart
  /\ pc' = "serving" /\ abort' = "no" /\ lastSave' = NoSave
  /\ UNCHANGED <<op, files, overlap, bounds>>

Next ==
  \/ Count \/ Maintain \/ Maintained \/ Cancelled
  \/ \E s \in Savers : OpenTmp(s) \/ Fill(s) \/ WriteFails(s) \/ AskRename(s) \/ Rename(s)
  \/ Signal \/ Saved \/ ListenerError \/ Exit \/ Kill \/ Start

Spec == Init /\ [][Next]_vars

-------------------------------------------------------------------------------
\* Properties.

\* save_stats (main.rs:1277-1287).  Unless main has saved while a maintenance
\* save was under way, the file is whole at every moment, so a kill never makes
\* the next process start from zero.
FileWhole == ~overlap /\ stats # NoFile => content[stats] # Torn

\* main.rs:370-382 and 1277-1287, with the same proviso.  What a starting process
\* would load never shrinks: no save publishes an older snapshot than the last.
NeverShrinks == [][~overlap' => OnDisk <= OnDisk']_vars

\* main.rs:1455-1456, when nothing was under way: once main has saved without
\* an error, the file holds that last snapshot.
AloneSaveKept ==
  ~overlap /\ pc \in {"leaving", "down"} /\ lastSave # NoSave => OnDisk >= lastSave

\* main.rs:1455-1456 without that proviso.  abort() does not stop an operation
\* already in the blocking pool, and both saves use the same temporary file:
\* the older snapshot can end up in the file although main's save reported no
\* error.  The code does not keep this.
LastSaveKept ==
  pc = "down" /\ lastSave # NoSave => OnDisk >= lastSave
===============================================================================
