--------------------------- MODULE ListReload_proofs ---------------------------
(***************************************************************************)
(* Theorems about ListReload, for any set of list files and every value of *)
(* the bounds.                                                             *)
(*                                                                         *)
(* What a pass has stamped and read lies between what is in memory and     *)
(* what is on disk, and it reads a file only after stamping all of them:   *)
(* so the stamps it records at the end are not newer than what it loads.   *)
(***************************************************************************)
EXTENDS ListReload, TLAPS

StampRange == 0..MaxVersion
ReadRange  == {Unread} \cup StampRange

PassOK ==
  /\ \E S \in SUBSET Lists : current \in [S -> StampRange]
  /\ \E S \in SUBSET Lists : read \in [S -> ReadRange]
  /\ pc \in {"boot", "wait"} => current = Nothing
  /\ pc \in {"wait", "stamp"} => read = Nothing
  /\ pc = "boot" => seen = NoStamps

\* What is loaded, stamped or read was on disk before.
FromDisk ==
  /\ \A f \in Lists : data[f] <= disk[f].version
  /\ \A f \in DOMAIN current : current[f] <= disk[f].version
  /\ \A f \in DOMAIN read : read[f] <= disk[f].version

\* A read that succeeds does not go back.
Forward == \A f \in DOMAIN read : read[f] = Unread \/ data[f] <= read[f]

\* All the files are stamped before the first is read.
StampedFirst ==
  pc = "load" =>
    /\ DOMAIN current = Lists
    /\ \A f \in DOMAIN read : read[f] = Unread \/ current[f] <= read[f]

IndInv ==
  TypeOK /\ PassOK /\ FromDisk /\ Forward /\ StampedFirst /\ SeenMeansLoaded
-------------------------------------------------------------------------------
\* A pass starts with no file looked at.

LEMMA NothingType ==
  ASSUME NEW V
  PROVE  Nothing \in [{} -> V] /\ DOMAIN Nothing = {}
BY DEF Nothing

-------------------------------------------------------------------------------
\* Every step preserves IndInv.

LEMMA InitIndInv == Init => IndInv
<1> SUFFICES ASSUME Init PROVE IndInv
  OBVIOUS
<1> USE ListReloadAssumption DEF Init
<1>0. DOMAIN current = {} /\ DOMAIN read = {} /\ DOMAIN seen = {}
  BY DEF Nothing, NoStamps
<1>1. 0 \in 0..MaxPins /\ 0 \in 0..MaxFaults /\ 0 \in 0..MaxVersion
      /\ 0 \in 0..(TickWrap - 1)
  OBVIOUS
<1>2. TypeOK
  <2>1. disk \in [Lists -> [version : 0..MaxVersion, there : BOOLEAN]]
    <3>1. {[version |-> 0, there |-> FALSE], [version |-> 1, there |-> TRUE]}
            \subseteq [version : 0..MaxVersion, there : BOOLEAN]
      OBVIOUS
    <3> DEFINE Files   == {[version |-> 0, there |-> FALSE], [version |-> 1, there |-> TRUE]}
               Entries == [version : 0..MaxVersion, there : BOOLEAN]
    <3>2. disk \in [Lists -> Files]
      OBVIOUS
    <3> HIDE DEF Files, Entries
    <3>3. Files \subseteq Entries => disk \in [Lists -> Entries]
      BY <3>2
    <3> QED  BY <3>1, <3>3 DEF Files, Entries
  <2>2. pinFile \in [version : 0..MaxPins, live : BOOLEAN]
    BY <1>1
  <2> QED  BY <1>0, <1>1, <2>1, <2>2 DEF TypeOK, Empty
<1>3. PassOK
  BY NothingType DEF PassOK
<1>4. FromDisk
  BY <1>0 DEF FromDisk, Empty
<1>5. Forward /\ StampedFirst /\ SeenMeansLoaded
  BY <1>0 DEF Forward, StampedFirst, SeenMeansLoaded
<1> QED  BY <1>2, <1>3, <1>4, <1>5 DEF IndInv

LEMMA PollStep == IndInv /\ Poll => IndInv'
<1> SUFFICES ASSUME IndInv, Poll PROVE IndInv'
  OBVIOUS
<1>1. ticks' \in 0..(TickWrap - 1)
  BY ListReloadAssumption DEF IndInv, TypeOK, Poll
<1>2. pins' \in 0..MaxPins /\ faults' \in 0..MaxFaults
  BY ListReloadAssumption DEF IndInv, TypeOK, Poll, PinsRead, Empty
<1>3. pc' \in {"wait", "stamp"}
  BY DEF Poll
<1>4. TypeOK'
  BY <1>1, <1>2, <1>3 DEF IndInv, TypeOK, Poll, files
<1>5. PassOK'
  BY <1>3 DEF IndInv, PassOK, Poll
<1>6. FromDisk' /\ Forward' /\ StampedFirst' /\ SeenMeansLoaded'
  BY <1>3 DEF IndInv, FromDisk, Forward, StampedFirst, SeenMeansLoaded, Poll, files
<1> QED  BY <1>4, <1>5, <1>6 DEF IndInv

LEMMA StampStep == ASSUME NEW f \in Lists PROVE IndInv /\ Stamp(f) => IndInv'
<1> SUFFICES ASSUME IndInv, Stamp(f) PROVE IndInv'
  OBVIOUS
<1> USE DEF Stamp
<1>1. StampOf(f) \in StampRange /\ StampOf(f) <= disk[f].version
  BY ListReloadAssumption DEF IndInv, TypeOK, StampOf, NoStamp, StampRange
<1>2. PICK S \in SUBSET Lists : current \in [S -> StampRange]
  BY DEF IndInv, PassOK
<1>3. /\ current' \in [S \cup {f} -> StampRange]
      /\ DOMAIN current' = DOMAIN current \cup {f}
      /\ current'[f] = StampOf(f)
      /\ \A g \in DOMAIN current : current'[g] = current[g]
  BY <1>1, <1>2 DEF With
<1>4. TypeOK'
  BY <1>3 DEF IndInv, TypeOK, files
<1>5. PassOK'
  BY <1>3 DEF IndInv, PassOK
<1>6. FromDisk'
  BY <1>1, <1>3 DEF IndInv, FromDisk, files
<1>7. Forward' /\ StampedFirst' /\ SeenMeansLoaded'
  BY DEF IndInv, Forward, StampedFirst, SeenMeansLoaded
<1> QED  BY <1>4, <1>5, <1>6, <1>7 DEF IndInv

LEMMA CompareStep == IndInv /\ Compare => IndInv'
<1> SUFFICES ASSUME IndInv, Compare PROVE IndInv'
  OBVIOUS
<1> USE DEF Compare, Same
<1>1. \/ pc' = "wait" /\ current' = Nothing
      \/ pc' = "load" /\ current' = current
  OBVIOUS
<1>2. read = Nothing /\ read' = Nothing /\ DOMAIN read = {}
  BY NothingType DEF IndInv, PassOK
<1>3. DOMAIN current' \subseteq Lists
  BY <1>1, NothingType
<1>4. TypeOK'
  BY <1>1, <1>2, <1>3 DEF IndInv, TypeOK, files
<1>5. \E S \in SUBSET Lists : current' \in [S -> StampRange]
  BY <1>1, NothingType DEF IndInv, PassOK
<1>6. PassOK'
  BY <1>1, <1>2, <1>5 DEF IndInv, PassOK
<1>7. FromDisk'
  BY <1>1, <1>2, NothingType DEF IndInv, FromDisk, files
<1>8. Forward' /\ StampedFirst' /\ SeenMeansLoaded'
  BY <1>1, <1>2 DEF IndInv, Forward, StampedFirst, SeenMeansLoaded
<1> QED  BY <1>4, <1>6, <1>7, <1>8 DEF IndInv

\* Read and ReadFails add one outcome to the pass.
Outcome(f, v) ==
  /\ Reading(f)
  /\ v = Unread \/ v = disk[f].version
  /\ read' = With(read, f, v)
  /\ faults' \in 0..MaxFaults
  /\ UNCHANGED <<files, pc, ticks, current, seen, data, pins, missed>>

LEMMA OutcomeStep ==
  ASSUME NEW f \in Lists, NEW v, IndInv, Outcome(f, v) PROVE IndInv'
<1> USE DEF Outcome
<1>1. v \in ReadRange /\ v <= disk[f].version
  BY DEF IndInv, TypeOK, ReadRange, StampRange, Unread
<1>2. PICK S \in SUBSET Lists : read \in [S -> ReadRange]
  BY DEF IndInv, PassOK
<1>3. /\ read' \in [S \cup {f} -> ReadRange]
      /\ DOMAIN read' = DOMAIN read \cup {f}
      /\ read'[f] = v
      /\ \A g \in DOMAIN read : read'[g] = read[g]
  BY <1>1, <1>2 DEF With, Reading
<1>4. TypeOK'
  BY <1>3 DEF IndInv, TypeOK, files
<1>5. PassOK'
  BY <1>3 DEF IndInv, PassOK, Reading
<1>6. FromDisk'
  BY <1>1, <1>3 DEF IndInv, FromDisk, files
<1>7. Forward'
  BY <1>3 DEF IndInv, Forward, FromDisk
<1>8. StampedFirst'
  BY <1>3 DEF IndInv, StampedFirst, FromDisk
<1>9. SeenMeansLoaded'
  BY DEF IndInv, SeenMeansLoaded
<1> QED  BY <1>4, <1>5, <1>6, <1>7, <1>8, <1>9 DEF IndInv

LEMMA ReadStep ==
  ASSUME NEW f \in Lists PROVE IndInv /\ (Read(f) \/ ReadFails(f)) => IndInv'
<1>1. ASSUME IndInv, Read(f) PROVE Outcome(f, disk[f].version)
  BY <1>1 DEF Read, Outcome, IndInv, TypeOK
<1>2. ASSUME IndInv, ReadFails(f) PROVE Outcome(f, Unread)
  BY <1>2, ListReloadAssumption DEF ReadFails, Outcome, IndInv, TypeOK
<1> QED  BY <1>1, <1>2, OutcomeStep

\* A pass, or the start, ends: what is loaded lies between what was in memory
\* and what is on disk.
LEMMA LoadedForward ==
  ASSUME IndInv, AllRead, NEW f \in Lists
  PROVE  /\ Loaded(f) \in 0..MaxVersion
         /\ data[f] <= Loaded(f) /\ Loaded(f) <= disk[f].version
         /\ read[f] # Unread => Loaded(f) = read[f]
<1>1. read[f] \in ReadRange
  BY DEF IndInv, PassOK, AllRead
<1> QED  BY <1>1 DEF IndInv, TypeOK, FromDisk, Forward, AllRead, Loaded, ReadRange, StampRange

LEMMA BootStep == IndInv /\ Boot => IndInv'
<1> SUFFICES ASSUME IndInv, Boot PROVE IndInv'
  OBVIOUS
<1> USE DEF Boot, PinsRead
<1>1. /\ data' \in [Lists -> 0..MaxVersion]
      /\ \A f \in Lists : data'[f] <= disk[f].version
  BY LoadedForward
<1>2. current = Nothing /\ current' = Nothing /\ read' = Nothing /\ seen' = NoStamps
  BY DEF IndInv, PassOK
<1>3. DOMAIN current' = {} /\ DOMAIN read' = {} /\ DOMAIN seen' = {}
  BY <1>2, NothingType DEF Nothing, NoStamps
<1>4. pins' \in 0..MaxPins
  BY ListReloadAssumption DEF IndInv, TypeOK, Empty
<1>5. TypeOK'
  BY <1>1, <1>2, <1>3, <1>4 DEF IndInv, TypeOK, files
<1>6. PassOK'
  BY <1>2, NothingType DEF PassOK
<1>7. FromDisk' /\ Forward' /\ StampedFirst' /\ SeenMeansLoaded'
  BY <1>1, <1>3 DEF IndInv, FromDisk, Forward, StampedFirst, SeenMeansLoaded, files
<1> QED  BY <1>5, <1>6, <1>7 DEF IndInv

LEMMA InstallStep == IndInv /\ Install => IndInv'
<1> SUFFICES ASSUME IndInv, Install PROVE IndInv'
  OBVIOUS
<1> USE DEF Install, SeenAfter
<1>1. /\ data' \in [Lists -> 0..MaxVersion]
      /\ \A f \in Lists : data'[f] <= disk[f].version
  BY LoadedForward
<1>2. current' = Nothing /\ read' = Nothing /\ DOMAIN current' = {} /\ DOMAIN read' = {}
  BY NothingType
<1>3. seen' \in [Lists -> 0..MaxVersion]
  BY DEF IndInv, PassOK, StampedFirst, StampRange
<1>4. TypeOK'
  BY <1>1, <1>2, <1>3 DEF IndInv, TypeOK, files
<1>5. PassOK'
  BY <1>2, NothingType DEF PassOK
<1>6. FromDisk' /\ Forward' /\ StampedFirst'
  BY <1>1, <1>2 DEF FromDisk, Forward, StampedFirst, files
<1>7. SeenMeansLoaded'
  <2>1. SUFFICES ASSUME NEW f \in Lists, read[f] # Unread PROVE seen'[f] <= data'[f]
    BY <1>3 DEF IndInv, TypeOK, SeenMeansLoaded
  <2>2. current[f] <= read[f]
    BY <2>1 DEF IndInv, StampedFirst, AllRead
  <2>3. data'[f] = read[f]
    BY <2>1, LoadedForward
  <2> QED  BY <2>2, <2>3
<1> QED  BY <1>4, <1>5, <1>6, <1>7 DEF IndInv

\* The writers only take versions of the disk forward.
LEMMA WorldStep ==
  IndInv /\ ((\E f \in Lists : Publish(f) \/ Remove(f)) \/ PublishPins \/ PinsEnd) => IndInv'
<1> SUFFICES ASSUME IndInv,
                    (\E f \in Lists : Publish(f) \/ Remove(f)) \/ PublishPins \/ PinsEnd
             PROVE  IndInv'
  OBVIOUS
<1>1. UNCHANGED <<pc, ticks, current, read, seen, data, pins, missed, faults>>
  BY DEF Publish, Remove, PublishPins, PinsEnd
<1>2. disk' \in [Lists -> [version : 0..MaxVersion, there : BOOLEAN]]
      /\ \A f \in Lists : disk[f].version <= disk'[f].version
  <2>1. CASE UNCHANGED disk
    BY <2>1 DEF IndInv, TypeOK
  <2>2. ASSUME NEW f \in Lists, Publish(f) PROVE <1>2!1 /\ <1>2!2
    BY <2>2, ListReloadAssumption DEF IndInv, TypeOK, Publish
  <2>3. ASSUME NEW f \in Lists, Remove(f) PROVE <1>2!1 /\ <1>2!2
    BY <2>3 DEF IndInv, TypeOK, Remove
  <2> QED  BY <2>1, <2>2, <2>3 DEF PublishPins, PinsEnd
<1>3. pinFile' \in [version : 0..MaxPins, live : BOOLEAN]
  <2>1. CASE UNCHANGED pinFile
    BY <2>1 DEF IndInv, TypeOK
  <2>2. CASE PublishPins
    BY <2>2, ListReloadAssumption DEF IndInv, TypeOK, PublishPins
  <2>3. CASE PinsEnd
    BY <2>3 DEF IndInv, TypeOK, PinsEnd
  <2> QED  BY <2>1, <2>2, <2>3 DEF Publish, Remove
<1>4. TypeOK'
  BY <1>1, <1>2, <1>3 DEF IndInv, TypeOK
<1>5. PassOK'
  BY <1>1 DEF IndInv, PassOK
<1>6. FromDisk'
  <2>1. \A f \in DOMAIN current : f \in Lists /\ current[f] \in Int
    <3>1. PICK S \in SUBSET Lists : current \in [S -> StampRange]
      BY DEF IndInv, PassOK
    <3>2. DOMAIN current = S /\ \A f \in S : current[f] \in StampRange
      BY <3>1
    <3>3. StampRange \subseteq Int
      BY ListReloadAssumption DEF StampRange
    <3> QED  BY <3>2, <3>3
  <2>2. \A f \in DOMAIN read : f \in Lists /\ read[f] \in Int
    <3>1. PICK S \in SUBSET Lists : read \in [S -> ReadRange]
      BY DEF IndInv, PassOK
    <3>2. DOMAIN read = S /\ \A f \in S : read[f] \in ReadRange
      BY <3>1
    <3>3. ReadRange \subseteq Int
      BY ListReloadAssumption DEF StampRange, ReadRange, Unread
    <3> QED  BY <3>2, <3>3
  <2>3. \A f \in Lists : data[f] \in Int /\ disk[f].version \in Int /\ disk'[f].version \in Int
    BY <1>2 DEF IndInv, TypeOK
  <2> QED  BY <1>1, <1>2, <2>1, <2>2, <2>3 DEF IndInv, FromDisk
<1>7. Forward' /\ StampedFirst' /\ SeenMeansLoaded'
  BY <1>1 DEF IndInv, Forward, StampedFirst, SeenMeansLoaded
<1> QED  BY <1>4, <1>5, <1>6, <1>7 DEF IndInv

LEMMA NextIndInv == IndInv /\ [Next]_vars => IndInv'
<1> SUFFICES ASSUME IndInv, [Next]_vars PROVE IndInv'
  OBVIOUS
<1>1. CASE UNCHANGED vars
  BY <1>1 DEF vars, files, IndInv, TypeOK, PassOK, FromDisk, Forward, StampedFirst, SeenMeansLoaded
<1>2. CASE MaintenanceStep
  BY <1>2, PollStep, CompareStep, BootStep, InstallStep, StampStep, ReadStep DEF MaintenanceStep
<1>3. CASE (\E f \in Lists : Publish(f) \/ Remove(f)) \/ PublishPins \/ PinsEnd
  BY <1>3, WorldStep
<1> QED  BY <1>1, <1>2, <1>3 DEF Next

LEMMA IndInvHolds == Spec => []IndInv
BY InitIndInv, NextIndInv, PTL DEF Spec

-------------------------------------------------------------------------------
\* The theorems.

\* The variables of ListReload keep their types.
THEOREM ReloadTypes == Spec => []TypeOK
<1>1. IndInv => TypeOK
  BY DEF IndInv
<1> QED  BY <1>1, IndInvHolds, PTL

\* main.rs:1215-1225, 1308-1309: the stamps of the last reload are not newer than
\* what it loaded, for any number of lists published at any moment of a pass.
THEOREM StampsNeverHideAVersion == Spec => []SeenMeansLoaded
<1>1. IndInv => SeenMeansLoaded
  BY DEF IndInv
<1> QED  BY <1>1, IndInvHolds, PTL

\* main.rs:245-260: no reload takes a list back to an older version, and none
\* empties a list whose file cannot be read.
THEOREM ListsNeverGoBack == Spec => NeverOlder
<1>1. IndInv /\ [Next]_vars => [\A f \in Lists : data[f] <= data'[f]]_vars
  <2> SUFFICES ASSUME IndInv, Next, NEW f \in Lists PROVE data[f] <= data'[f]
    OBVIOUS
  <2>1. CASE Boot \/ Install
    BY <2>1, LoadedForward DEF Boot, Install
  <2>2. CASE UNCHANGED data
    BY <2>2 DEF IndInv, TypeOK
  <2>3. Boot \/ Install \/ UNCHANGED data
    BY DEF Next, MaintenanceStep, Poll, Compare, Stamp, Read, ReadFails, Publish, Remove,
           PublishPins, PinsEnd
  <2> QED  BY <2>1, <2>2, <2>3
<1> QED  BY <1>1, IndInvHolds, PTL DEF Spec, NeverOlder
===============================================================================
