--------------------------- MODULE StatsSave_proofs ---------------------------
(***************************************************************************)
(* Proofs about the saves, for any number of inodes, responses, stops and  *)
(* crashes: as long as main has not saved while a maintenance save was     *)
(* under way, the file is whole, what it holds never shrinks, and main's   *)
(* last save stays in it.                                                  *)
(***************************************************************************)
EXTENDS StatsSave, TLAPS

Snapshots == Nat \cup {Torn}
Files     == Inodes \cup {NoFile}
Operation == [step : UnderWay \cup {"none", "ok", "error"}, snap : Nat, inode : Files]

Types ==
  /\ counter \in Nat
  /\ pc \in {"serving", "saving", "leaving", "down"}
  /\ abort \in {"no", "asked", "yes"}
  /\ op \in [Savers -> Operation]
  /\ content \in [Inodes -> Snapshots]
  /\ tmp \in Files /\ stats \in Files
  /\ overlap \in BOOLEAN
  /\ lastSave \in Nat \cup {NoSave}

\* Which operations there may be, at each point of main.
Phases ==
  /\ pc # "saving" => op["main"] = NoOp
  /\ pc = "down" => op["maintenance"] = NoOp
  /\ pc \in {"saving", "leaving"} => abort # "no"
  /\ lastSave # NoSave => pc \in {"leaving", "down"}

\* Only an open file has an inode, and the temporary file is not the file.
Apart ==
  /\ \A s \in Savers : op[s].step = "fill" <=> op[s].inode # NoFile
  /\ tmp # NoFile => tmp # stats

\* From the moment main begins its save, the maintenance task has none.
Alone ==
  pc = "saving" \/ lastSave # NoSave => op["maintenance"].step \notin UnderWay

\* A saver that is under way has the temporary file for itself, and its snapshot
\* is neither older than the file nor newer than the counters.
Owner(s) ==
  /\ op[s].step = "fill" => tmp = op[s].inode
  /\ op[s].step \in {"written", "rename"} => tmp # NoFile /\ content[tmp] = op[s].snap
  /\ op[s].step \in UnderWay => OnDisk <= op[s].snap /\ op[s].snap <= counter

Saves ==
  /\ Alone
  /\ \A s \in Savers : Owner(s)
  /\ stats # NoFile => content[stats] # Torn
  /\ pc # "down" => OnDisk <= counter
  /\ op["main"].step = "ok" => op["main"].snap <= OnDisk
  /\ lastSave # NoSave => lastSave <= OnDisk

IndInv == Types /\ Phases /\ Apart /\ (~overlap => Saves)

-------------------------------------------------------------------------------
\* The initial state, and each action.

LEMMA InitIndInv == Init => IndInv
<1> SUFFICES ASSUME Init PROVE IndInv
  OBVIOUS
<1>0. NoOp \in Operation /\ NoOp.step = "none" /\ NoOp.inode = NoFile
  BY DEF NoOp, Operation, Files
<1> USE DEF Init
<1>1. Types
  BY <1>0 DEF Types, Snapshots, Files
<1>2. Phases /\ Apart
  BY <1>0 DEF Phases, Apart, Savers
<1>3. Saves
  BY <1>0 DEF Saves, Alone, Owner, OnDisk, Savers, UnderWay
<1> QED  BY <1>1, <1>2, <1>3 DEF IndInv

LEMMA CountKeepsIndInv ==
  ASSUME IndInv, Count
  PROVE  IndInv'
<1> USE StatsSaveAssumption DEF IndInv, Count, files
<1>1. Types'
  BY DEF Types
<1>2. Phases' /\ Apart'
  BY DEF Phases, Apart
<1>3. ASSUME ~overlap' PROVE Saves'
  BY <1>3 DEF Types, Saves, Alone, Owner, OnDisk, Operation, Files, Snapshots
<1> QED  BY <1>1, <1>2, <1>3

LEMMA OpenTmpKeepsIndInv ==
  ASSUME IndInv, NEW s \in Savers, OpenTmp(s)
  PROVE  IndInv'
<1> USE StatsSaveAssumption DEF IndInv, OpenTmp
<1>1. Types'
  BY DEF Types, Snapshots, Operation, Savers, UnderWay
<1>2. Phases' /\ Apart'
  BY DEF Types, Apart, Operation
<1>3. ASSUME ~overlap' PROVE Saves'
  BY <1>3 DEF Types, Apart, Operation
<1> QED  BY <1>1, <1>2, <1>3

LEMMA FillKeepsIndInv ==
  ASSUME IndInv, NEW s \in Savers, Fill(s)
  PROVE  IndInv'
<1> USE StatsSaveAssumption DEF IndInv, Fill, bounds
<1>1. Types'
  BY DEF Types, Snapshots, Files, Operation, UnderWay
<1>2. Phases' /\ Apart'
  BY DEF Types, Apart, Operation
<1>3. ASSUME ~overlap' PROVE Saves'
  BY <1>3 DEF Types, Apart, Operation
<1> QED  BY <1>1, <1>2, <1>3

LEMMA WriteFailsKeepsIndInv ==
  ASSUME IndInv, NEW s \in Savers, WriteFails(s)
  PROVE  IndInv'
<1> USE StatsSaveAssumption DEF IndInv, WriteFails, AfterFailure, files
<1>1. Types'
  BY DEF Types, Operation, Savers
<1>2. Phases' /\ Apart'
  BY DEF Types, Phases, Apart, NoOp, Savers
<1>3. ASSUME ~overlap' PROVE Saves'
  BY <1>3 DEF Types, Saves, Alone, Owner, OnDisk, Savers, UnderWay
<1> QED  BY <1>1, <1>2, <1>3

LEMMA AskRenameKeepsIndInv ==
  ASSUME IndInv, NEW s \in Savers, AskRename(s)
  PROVE  IndInv'
<1> USE StatsSaveAssumption DEF IndInv, AskRename, files, Step, MaintenanceRuns
<1>1. Types'
  BY DEF Types, Operation, UnderWay
<1>2. Phases' /\ Apart'
  BY DEF Types, Phases, Apart, NoOp
<1>3. ASSUME ~overlap' PROVE Saves'
  BY <1>3 DEF Types, Saves, Alone, Owner, OnDisk, UnderWay
<1> QED  BY <1>1, <1>2, <1>3

LEMMA RenameKeepsIndInv ==
  ASSUME IndInv, NEW s \in Savers, Rename(s)
  PROVE  IndInv'
<1> USE StatsSaveAssumption DEF IndInv, Rename, Step
<1>1. Types'
  BY DEF Types, Files, Operation
<1>2. Phases' /\ Apart'
  BY DEF Types, Phases, Apart, Operation, NoOp, Savers
<1>3. ASSUME ~overlap' PROVE Saves'
  BY <1>3 DEF Types, Phases, Saves, Alone, Owner, OnDisk, Savers, Operation, NoOp, UnderWay, Torn
<1> QED  BY <1>1, <1>2, <1>3

\* A maintenance save begins before main's own, or overlap says otherwise.
LEMMA MaintainKeepsIndInv ==
  ASSUME IndInv, Maintain
  PROVE  IndInv'
<1> USE StatsSaveAssumption DEF IndInv, Maintain, files, Begin, MaintenanceRuns
<1>1. Types'
  BY DEF Types, Files, Operation, UnderWay
<1>2. Phases' /\ Apart'
  BY DEF Types, Phases, Apart
<1>3. ASSUME ~overlap' PROVE Saves'
  <2>1. Saves /\ pc = "serving" /\ lastSave = NoSave /\ op["main"] = NoOp /\ OnDisk' = OnDisk
    BY <1>3 DEF Types, Phases, OnDisk
  <2>2. Alone'
    BY <2>1 DEF Alone, NoSave
  <2>3. Owner("main")'
    BY <2>1 DEF Owner, NoOp, UnderWay
  <2>4. Owner("maintenance")'
    BY <2>1 DEF Types, Saves, Owner, Savers
  <2>5. op'["main"] = op["main"] /\ op["main"].step = "none"
    BY <2>1 DEF NoOp
  <2> QED  BY <2>1, <2>2, <2>3, <2>4, <2>5 DEF Saves, Savers
<1> QED  BY <1>1, <1>2, <1>3

LEMMA MaintainedKeepsIndInv ==
  ASSUME IndInv, Maintained \/ Cancelled
  PROVE  IndInv'
<1> USE StatsSaveAssumption DEF IndInv, Maintained, Cancelled, files, MaintenanceRuns
<1>0. NoOp \in Operation
  BY DEF NoOp, Operation, Files
<1>1. Types'
  BY <1>0 DEF Types
<1>2. Phases' /\ Apart'
  BY DEF Types, Phases, Apart, NoOp, Savers
<1>3. ASSUME ~overlap' PROVE Saves'
  BY <1>3 DEF Types, Saves, Alone, Owner, OnDisk, Savers, NoOp, UnderWay
<1> QED  BY <1>1, <1>2, <1>3

\* main's save finds no maintenance save under way, or overlap says otherwise.
LEMMA SignalKeepsIndInv ==
  ASSUME IndInv, Signal
  PROVE  IndInv'
<1> USE StatsSaveAssumption DEF IndInv, Signal, AbortAtSignal, files, Begin
<1>1. Types'
  BY DEF Types, Files, Operation, UnderWay
<1>2. Phases' /\ Apart'
  BY DEF Phases, Apart
<1>3. ASSUME ~overlap' PROVE Saves'
  <2>1. Saves /\ lastSave = NoSave /\ OnDisk' = OnDisk /\ op["maintenance"].step \notin UnderWay
    BY <1>3 DEF Phases, OnDisk
  <2>2. /\ op'["maintenance"] = op["maintenance"]
        /\ op'["main"].step = "write" /\ op'["main"].snap = counter
    BY DEF Types, Savers
  <2>3. Alone'
    BY <2>1, <2>2 DEF Alone
  <2>4. Owner("main")'
    BY <2>1, <2>2 DEF Types, Saves, Owner
  <2>5. Owner("maintenance")'
    BY <2>1, <2>2 DEF Owner, UnderWay
  <2> QED  BY <2>1, <2>2, <2>3, <2>4, <2>5 DEF Saves, Savers
<1> QED  BY <1>1, <1>2, <1>3

LEMMA SavedKeepsIndInv ==
  ASSUME IndInv, Saved
  PROVE  IndInv'
<1> USE StatsSaveAssumption DEF IndInv, Saved, files
<1>1. Types'
  BY DEF Types, Files, Operation, NoOp, Savers
<1>2. Phases' /\ Apart'
  BY DEF Types, Phases, Apart, NoOp, Savers
<1>3. ASSUME ~overlap' PROVE Saves'
  BY <1>3 DEF Saves, Alone, Owner, OnDisk, NoOp, UnderWay
<1> QED  BY <1>1, <1>2, <1>3

LEMMA ListenerErrorKeepsIndInv ==
  ASSUME IndInv, ListenerError
  PROVE  IndInv'
<1> USE StatsSaveAssumption DEF IndInv, ListenerError, files
<1>1. Types'
  BY DEF Types
<1>2. Phases' /\ Apart'
  BY DEF Phases, Apart
<1>3. ASSUME ~overlap' PROVE Saves'
  BY <1>3 DEF Saves, Alone, Owner, OnDisk
<1> QED  BY <1>1, <1>2, <1>3

LEMMA ExitKeepsIndInv ==
  ASSUME IndInv, Exit \/ Kill
  PROVE  IndInv'
<1> USE StatsSaveAssumption DEF IndInv, Exit, Kill, files
<1>1. Types'
  BY DEF Types, Files, Operation, NoOp
<1>2. Phases' /\ Apart'
  BY DEF Phases, Apart, NoOp, Savers
<1>3. ASSUME ~overlap' PROVE Saves'
  BY <1>3 DEF Saves, Alone, Owner, OnDisk, Savers, NoOp, UnderWay
<1> QED  BY <1>1, <1>2, <1>3

LEMMA StartKeepsIndInv ==
  ASSUME IndInv, Start
  PROVE  IndInv'
<1> USE StatsSaveAssumption DEF IndInv, Start, AtStart, files
<1>1. Types'
  BY DEF Types, Snapshots, Files, OnDisk
<1>2. Phases' /\ Apart'
  BY DEF Phases, Apart
<1>3. ASSUME ~overlap' PROVE Saves'
  BY <1>3 DEF Phases, Saves, Alone, Owner, OnDisk, Savers, NoOp, UnderWay
<1> QED  BY <1>1, <1>2, <1>3

-------------------------------------------------------------------------------
\* The invariant, and the theorems.

LEMMA NextIndInv == IndInv /\ [Next]_vars => IndInv'
<1> SUFFICES ASSUME IndInv, [Next]_vars PROVE IndInv'
  OBVIOUS
<1>1. CASE UNCHANGED vars
  BY <1>1 DEF vars, files, IndInv, Types, Phases, Apart, Saves, Alone, Owner, OnDisk
<1>2. CASE Count \/ Maintain \/ Maintained \/ Cancelled
  BY <1>2, CountKeepsIndInv, MaintainKeepsIndInv, MaintainedKeepsIndInv
<1>3. ASSUME NEW s \in Savers,
             OpenTmp(s) \/ Fill(s) \/ WriteFails(s) \/ AskRename(s) \/ Rename(s)
      PROVE  IndInv'
  BY <1>3, OpenTmpKeepsIndInv, FillKeepsIndInv, WriteFailsKeepsIndInv, AskRenameKeepsIndInv,
     RenameKeepsIndInv
<1>4. CASE Signal \/ Saved \/ ListenerError \/ Exit \/ Kill \/ Start
  BY <1>4, SignalKeepsIndInv, SavedKeepsIndInv, ListenerErrorKeepsIndInv, ExitKeepsIndInv,
     StartKeepsIndInv
<1> QED  BY <1>1, <1>2, <1>3, <1>4 DEF Next

LEMMA IndInvHolds == Spec => []IndInv
BY InitIndInv, NextIndInv, PTL DEF Spec

\* save_stats (main.rs:1277-1287).  Unless main has saved while a maintenance
\* save was under way, the file a process would load is whole at every moment.
THEOREM StatsFileWhole == Spec => []FileWhole
<1>1. IndInv => FileWhole
  BY DEF IndInv, Saves, FileWhole
<1> QED  BY <1>1, IndInvHolds, PTL

\* main.rs:1455-1456, with the same proviso: once main has saved without an
\* error, the file holds that snapshot or a later one.
THEOREM StatsLastSave == Spec => []AloneSaveKept
<1>1. IndInv => AloneSaveKept
  BY DEF IndInv, Saves, AloneSaveKept
<1> QED  BY <1>1, IndInvHolds, PTL

\* Only a rename changes what a starting process would load, and it puts there
\* the snapshot of the one save that is under way.
LEMMA NeverShrinksStep ==
  ASSUME IndInv, [Next]_vars, ~overlap'  PROVE OnDisk <= OnDisk'
<1>1. OnDisk \in Nat
  BY DEF IndInv, Types, OnDisk, Snapshots, Files
<1>2. CASE UNCHANGED <<content, stats>>
  BY <1>1, <1>2 DEF OnDisk
<1>3. ASSUME NEW s \in Savers, OpenTmp(s) \/ Fill(s) PROVE OnDisk' = OnDisk
  <2>1. ~overlap
    BY <1>3 DEF OpenTmp, Fill
  <2> QED  BY <1>3, <2>1 DEF OpenTmp, Fill, IndInv, Types, Apart, Operation
<1>4. ASSUME NEW s \in Savers, Rename(s) PROVE OnDisk <= OnDisk'
  <2>1. ~overlap
    BY <1>4 DEF Rename
  <2>2. CASE UNCHANGED <<tmp, stats>>
    BY <1>2, <1>4, <2>2 DEF Rename
  <2>3. CASE tmp # NoFile /\ stats' = tmp /\ UNCHANGED content
    BY <1>4, <2>1, <2>3 DEF Rename, OnDisk, IndInv, Types, Saves, Owner, Operation, Torn
  <2> QED  BY <1>4, <2>2, <2>3 DEF Rename
<1>5. CASE \A s \in Savers : ~ (OpenTmp(s) \/ Fill(s) \/ Rename(s))
  <2>1. UNCHANGED <<content, stats>>
    BY <1>5 DEF Next, vars, files, Count, Maintain, Maintained, Cancelled, WriteFails, AskRename,
                Signal, Saved, ListenerError, Exit, Kill, Start
  <2> QED  BY <1>2, <2>1
<1> QED  BY <1>1, <1>3, <1>4, <1>5

\* main.rs:370-382 and 1277-1287, with the same proviso: no save publishes an
\* older snapshot than the last, across crashes and restarts.
THEOREM StatsNeverShrink == Spec => NeverShrinks
<1>1. IndInv /\ [Next]_vars => [~overlap' => OnDisk <= OnDisk']_vars
  BY NeverShrinksStep
<1> QED  BY <1>1, IndInvHolds, PTL DEF Spec, NeverShrinks
===============================================================================
