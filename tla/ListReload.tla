------------------------------ MODULE ListReload ------------------------------
(***************************************************************************)
(* The maintenance task of evade-proxy (maintenance, Data::load): every    *)
(* tick it reads the redirects file again; every few ticks it looks at the *)
(* stamps of the list files, and reads all of them again when one of the   *)
(* stamps differs from those of its last reload.                           *)
(*                                                                         *)
(* Meanwhile the updater and the probe server replace the files.  They     *)
(* rename a complete file into place, so a read sees one version; but the  *)
(* stamps and the reads of the files are separate steps, in any order.  A  *)
(* read may also fail while metadata still answers (a read needs a file    *)
(* descriptor, which a burst of queries can use up).                       *)
(*                                                                         *)
(* A version stands for a file's contents and for its modification time.   *)
(***************************************************************************)
EXTENDS Integers

CONSTANTS
  Lists,        \* the list files
  ReloadEvery,  \* ticks between looks at the stamps: 5
  TickWrap,     \* the tick counter is a u8: 256
  MaxVersion,   \* bound: versions published of a list file
  MaxPins,      \* bound: versions published of the redirects file
  MaxFaults     \* bound: failed reads of a file that is there

ASSUME ListReloadAssumption ==
  /\ ReloadEvery \in Nat \ {0} /\ TickWrap \in Nat /\ TickWrap >= ReloadEvery
  /\ MaxVersion \in Nat \ {0} /\ MaxPins \in Nat /\ MaxFaults \in Nat

VARIABLES
  disk,       \* per list file: last version published, and whether it is there
  pinFile,    \* the redirects file: version, and whether its rules can be read
              \* and have not expired
  pc,         \* where the task is; "boot": App::new is loading
  ticks,      \* its tick counter
  current,    \* the stamps it has taken in this pass
  read,       \* the files it has read in this pass
  seen,       \* stamps: those of the last reload
  data,       \* App.data: the version loaded of each list, 0 for an empty one
  pins,       \* App.temporary_redirects: the version loaded, 0 for none
  missed,     \* history: the last load could not read this list
  faults

files == <<disk, pinFile>>
vars == <<files, pc, ticks, current, read, seen, data, pins, missed, faults>>

NoStamp  == 0      \* None: metadata failed
Unread   == -1     \* None: the read failed
Empty    == 0
NoStamps == <<>>   \* stamps: None
Nothing  == <<>>   \* no file looked at yet in this pass

StampOf(f) == IF disk[f].there THEN disk[f].version ELSE NoStamp

With(map, f, v) == [g \in DOMAIN map \cup {f} |-> IF g = f THEN v ELSE map[g]]

\* App::new: nothing is in memory, and the files are whatever an earlier process
\* left behind, so a restart is this state again.
Init ==
  /\ disk \in [Lists -> {[version |-> 0, there |-> FALSE], [version |-> 1, there |-> TRUE]}]
  /\ pinFile = [version |-> 0, live |-> FALSE]
  /\ pc = "boot"
  /\ ticks = 0
  /\ current = Nothing /\ read = Nothing /\ seen = NoStamps
  /\ data = [f \in Lists |-> Empty]
  /\ pins = Empty
  /\ missed = [f \in Lists |-> FALSE]
  /\ faults = 0

-------------------------------------------------------------------------------
\* One pass of the maintenance loop.

PinsRead_Kept == IF pinFile.live THEN pinFile.version ELSE pins
PinsRead      == IF pinFile.live THEN pinFile.version ELSE Empty

\* The table follows the file; one that cannot be read counts as empty.
Poll ==
  /\ pc = "wait"
  /\ \/ pins' = PinsRead /\ UNCHANGED faults
     \/ faults < MaxFaults /\ faults' = faults + 1 /\ pins' = Empty
  /\ ticks' = (ticks + 1) % TickWrap
  /\ pc' = IF ticks' % ReloadEvery = 0 THEN "stamp" ELSE "wait"
  /\ UNCHANGED <<files, current, read, seen, data, missed>>

Stamp(f) ==
  /\ pc = "stamp" /\ f \notin DOMAIN current
  /\ current' = With(current, f, StampOf(f))
  /\ UNCHANGED <<files, pc, ticks, read, seen, data, pins, missed, faults>>

Same_One == seen # NoStamps /\ \E f \in Lists : seen[f] = current[f]
Same     == seen = current

Compare ==
  /\ pc = "stamp" /\ DOMAIN current = Lists
  /\ IF Same THEN pc' = "wait" /\ current' = Nothing
             ELSE pc' = "load" /\ UNCHANGED current
  /\ UNCHANGED <<files, ticks, read, seen, data, pins, missed, faults>>

Reading(f) == pc \in {"boot", "load"} /\ f \notin DOMAIN read

Read(f) ==
  /\ Reading(f) /\ disk[f].there
  /\ read' = With(read, f, disk[f].version)
  /\ UNCHANGED <<files, pc, ticks, current, seen, data, pins, missed, faults>>

ReadFails(f) ==
  /\ Reading(f)
  /\ disk[f].there => faults < MaxFaults
  /\ faults' = IF disk[f].there THEN faults + 1 ELSE faults
  /\ read' = With(read, f, Unread)
  /\ UNCHANGED <<files, pc, ticks, current, seen, data, pins, missed>>

AllRead == DOMAIN read = Lists

Loaded_EmptyWhenUnread(f) == IF read[f] = Unread THEN Empty ELSE read[f]

\* Data::load ends, at start-up and in a pass: a file that could not be read
\* keeps what was loaded before (nothing, at start-up).
Loaded(f) == IF read[f] = Unread THEN data[f] ELSE read[f]

Boot ==
  /\ pc = "boot" /\ AllRead
  /\ data' = [f \in Lists |-> Loaded(f)]
  /\ pins' = PinsRead
  /\ pc' = "wait" /\ read' = Nothing
  /\ missed' = [f \in Lists |-> read[f] = Unread]
  /\ UNCHANGED <<files, ticks, current, seen, faults>>

SeenAfter_StampedAgain == [f \in Lists |-> StampOf(f)]
SeenAfter              == current

\* The stamps recorded as seen are those taken before the reads.
Install ==
  /\ pc = "load" /\ AllRead
  /\ data' = [f \in Lists |-> Loaded(f)]
  /\ seen' = SeenAfter
  /\ pc' = "wait" /\ current' = Nothing /\ read' = Nothing
  /\ missed' = [f \in Lists |-> read[f] = Unread]
  /\ UNCHANGED <<files, ticks, pins, faults>>

-------------------------------------------------------------------------------
\* The rest of the world.

\* publish() of the updater, os.replace of the prefix script.
Publish(f) ==
  /\ disk[f].version < MaxVersion
  /\ disk' = [disk EXCEPT ![f] = [version |-> @.version + 1, there |-> TRUE]]
  /\ UNCHANGED <<pinFile, pc, ticks, current, read, seen, data, pins, missed, faults>>

Remove(f) ==
  /\ disk[f].there
  /\ disk' = [disk EXCEPT ![f] = [version |-> @.version, there |-> FALSE]]
  /\ UNCHANGED <<pinFile, pc, ticks, current, read, seen, data, pins, missed, faults>>

PublishPins ==
  /\ pinFile.version < MaxPins
  /\ pinFile' = [version |-> pinFile.version + 1, live |-> TRUE]
  /\ UNCHANGED <<disk, pc, ticks, current, read, seen, data, pins, missed, faults>>

\* The redirects file is emptied or removed, or nobody refreshed it and its
\* rules expire.
PinsEnd ==
  /\ pinFile.live
  /\ pinFile' = [version |-> pinFile.version, live |-> FALSE]
  /\ UNCHANGED <<disk, pc, ticks, current, read, seen, data, pins, missed, faults>>

MaintenanceStep ==
  \/ Poll \/ Compare \/ Boot \/ Install
  \/ \E f \in Lists : Stamp(f) \/ Read(f) \/ ReadFails(f)

Next ==
  \/ MaintenanceStep
  \/ \E f \in Lists : Publish(f) \/ Remove(f)
  \/ PublishPins \/ PinsEnd

Spec == Init /\ [][Next]_vars

\* The ticker fires and the task runs; nothing is assumed of the writers.
LiveSpec == Spec /\ WF_vars(MaintenanceStep)

-------------------------------------------------------------------------------
\* Properties.

TypeOK ==
  /\ disk \in [Lists -> [version : 0..MaxVersion, there : BOOLEAN]]
  /\ pinFile \in [version : 0..MaxPins, live : BOOLEAN]
  /\ pc \in {"boot", "wait", "stamp", "load"}
  /\ ticks \in 0..(TickWrap - 1)
  /\ DOMAIN current \subseteq Lists /\ DOMAIN read \subseteq Lists
  /\ seen = NoStamps \/ seen \in [Lists -> 0..MaxVersion]
  /\ data \in [Lists -> 0..MaxVersion] /\ pins \in 0..MaxPins
  /\ missed \in [Lists -> BOOLEAN]
  /\ faults \in 0..MaxFaults

\* main.rs:1308-1309.  Stamps are recorded as seen only for contents that were
\* loaded, or for newer ones, unless reading that file failed: a version
\* published between the stamp and the read is not taken for one already read.
SeenMeansLoaded ==
  \A f \in DOMAIN seen : missed[f] \/ seen[f] <= data[f]

\* main.rs:245-246.  While the process runs, a reload never brings back an older
\* version of a list nor empties it because its file is unreadable.
NeverOlder ==
  [][\A f \in Lists : data[f] <= data'[f]]_vars

\* README.md:156.  A list that stays in place, and whose last read did not
\* fail, ends up loaded, whatever was published or removed before.
CatchesUp ==
  \A f \in Lists :
    <>[](disk[f].there /\ ~missed[f]) => <>[](data[f] = disk[f].version)

\* The redirect table ends up being that of the file: the rules while they
\* last, and none once the file is gone or its rules have expired.
PinsFollowFile ==
  /\ <>[](pinFile.live) => <>[](pins = pinFile.version)
  /\ <>[](~pinFile.live) => <>[](pins = Empty)

\* README.md:156, "evade-proxy lo recarga cada 5 s", without the proviso of
\* CatchesUp.  A file whose read failed once while its stamp could be taken is
\* not read again until some stamp changes: the code does not keep this.
ReloadedWhilePresent ==
  \A f \in Lists : <>[](disk[f].there) => <>[](data[f] = disk[f].version)
===============================================================================
