----------------------------- MODULE CopyProofs -----------------------------
(***************************************************************************)
(* Theorems about CopyOps, for any number of versions, registrations and   *)
(* snapshots, wherever the store is, and whatever fails.                   *)
(***************************************************************************)
EXTENDS CopyOps, SequenceTheorems, TLAPS

\* A command that needs a slot has one, and a rebuild a GUID for its import.
TargetsOK ==
    /\ cmd \in {"snapshot", "restore"} => to \in Slot
    /\ cmd = "restore" => from \in Slot
    /\ /\ cmd = "rebuild"
       /\ pc \in {"terminate", "export", "exporting", "unregister", "import"}
       => next <= MaxGuid

\* TypeOK without undo, since no prover is good at both sequences and the rest.
DataOK ==
    /\ live \in Content /\ aside \in Content /\ archive \in Content
    /\ store \in [Slot -> Entry] /\ reg \in 0..MaxGuid /\ next \in 1..(MaxGuid + 1)
    /\ reg < next /\ settings \in {"own", "fresh"}
    /\ up \subseteq Distro /\ lock \in {"free", "held"}
    /\ version \in Version
    /\ cmd \in {"none", "snapshot", "restore", "rebuild", "compact"}
    /\ from \in 0..MaxSlot /\ to \in 0..MaxSlot /\ option \subseteq Option
    /\ was \subseteq Distro /\ rollback \in {"clean", "short"}
    /\ man \in {"own", "fresh"}
    /\ before \in Content /\ taken \in [Slot -> Content]
    /\ kept \subseteq Version

TypeInv == DataOK /\ TargetsOK

\* The first state has its types.
LEMMA InitType == Init => TypeInv
BY CopyAssumption DEF Init, TypeInv, DataOK, TargetsOK, Content, Version, Slot,
   Distro, Entry, NoEntry, Nothing, Part

\* What has been undone may be forgotten.
LEMMA PopType ==
    ASSUME NEW S, NEW u \in Seq(S), u # <<>>
    PROVE  SubSeq(u, 1, Len(u) - 1) \in Seq(S)
BY SubSeqProperties

\* What is needed of the sets whose members do not matter.
LEMMA Sorts ==
    /\ Nothing \in Content /\ Part \in Content /\ Version \subseteq Content
    /\ Nothing \notin Version /\ Part \notin Version /\ Nothing # Part
    /\ 0 \in 0..MaxSlot /\ Slot \subseteq 0..MaxSlot
    /\ "it" \in Distro
BY CopyAssumption DEF Content, Version, Nothing, Part, Slot, Distro

\* Entries of the store.
LEMMA EntryType ==
    ASSUME DataOK, NEW s \in Slot
    PROVE  /\ store[s] \in Entry /\ store[s].disk \in Content
           /\ NoEntry \in Entry
           /\ \A d \in Content : [NoEntry EXCEPT !.dir = "made", !.guid = reg,
                                                !.disk = d] \in Entry
           /\ [NoEntry EXCEPT !.dir = "made", !.guid = reg] \in Entry
           /\ \A d \in Content : [store[s] EXCEPT !.disk = d] \in Entry
           /\ \A m \in {"none", "cut", "whole"} :
                  [store[s] EXCEPT !.manifest = m] \in Entry
<1>1. store \in [Slot -> Entry] /\ reg \in 0..MaxGuid /\ Nothing \in Content
    BY Sorts DEF DataOK
<1>2. NoEntry \in Entry
    BY <1>1, CopyAssumption DEF NoEntry, Entry
<1> QED
    BY <1>1, <1>2 DEF NoEntry, Entry

\* An entry with one field replaced.
LEMMA EntryFields ==
    ASSUME NEW x \in Entry, NEW v
    PROVE  /\ [x EXCEPT !.disk = v].disk = v
           /\ [x EXCEPT !.disk = v].manifest = x.manifest
           /\ [x EXCEPT !.manifest = v].manifest = v
           /\ [x EXCEPT !.manifest = v].disk = x.disk
           /\ NoEntry.manifest = "none"
           /\ [NoEntry EXCEPT !.dir = "made", !.guid = v].manifest = "none"
BY DEF Entry, NoEntry

\* The store with one entry replaced.
LEMMA StoreType ==
    ASSUME DataOK, NEW s \in Slot,
           \E e \in Entry : store' = store \/ store' = [store EXCEPT ![s] = e]
    PROVE  store' \in [Slot -> Entry]
<1>1. PICK e \in Entry : store' = store \/ store' = [store EXCEPT ![s] = e]
    OBVIOUS
<1>2. store \in [Slot -> Entry]
    BY DEF DataOK
<1> QED
    BY <1>1, <1>2

\* The user, the utility VM, a rollback and a crash keep the types.
LEMMA WorldType == TypeInv /\ (WorldStep \/ UNCHANGED vars) => TypeInv'
<1> SUFFICES ASSUME TypeInv, WorldStep \/ UNCHANGED vars
             PROVE  TypeInv'
    OBVIOUS
<1> USE Sorts DEF TypeInv, DataOK, TargetsOK,
        Finish, FinishWith, vars, diskVars, fileVars, regVars, vmVars, stepVars,
        asks, histVars, Running
<1>1. CASE Use \/ Exits \/ Release
    BY <1>1 DEF Use, Exits, Release
<1>2. CASE Write
    BY <1>2, CopyAssumption DEF Write, Version
<1>3. CASE Tidy
    <2>1. \/ next <= MaxGuid /\ reg' = next /\ next' = next + 1
          \/ reg' = reg /\ next' = next
        BY <1>3 DEF Tidy
    <2>2. reg' \in 0..MaxGuid /\ next' \in 1..(MaxGuid + 1) /\ reg' < next'
        BY <2>1, CopyAssumption
    <2> QED
        BY <1>3, <2>2 DEF Tidy
<1>4. CASE Unwind
    BY <1>4 DEF Unwind
<1>5. CASE Crash
    BY <1>5 DEF Crash
<1>6. CASE UNCHANGED vars
    BY <1>6
<1> QED
    BY <1>1, <1>2, <1>3, <1>4, <1>5, <1>6 DEF WorldStep

\* So do snapshot, snapshot rm and restore.
LEMMA SnapshotType == TypeInv /\ SnapshotStep => TypeInv'
<1> SUFFICES ASSUME TypeInv, SnapshotStep
             PROVE  TypeInv'
    OBVIOUS
<1> USE Sorts DEF TypeInv, DataOK, TargetsOK,
        Finish, FinishWith, Goto, GiveUp, vars, diskVars, fileVars, regVars, vmVars,
        stepVars, asks, histVars, Running, Put
<1>1. ASSUME NEW t \in Slot, NEW o \in SUBSET Option, SnapshotBegin(t, o)
      PROVE  TypeInv'
    BY <1>1 DEF SnapshotBegin, Begin
<1>2. CASE SnapshotStop \/ SnapshotWait \/ RestoreStop \/ RestoreWait
    BY <1>2 DEF SnapshotStop, SnapshotWait, RestoreStop, RestoreWait, Stop, Wait
<1>3. CASE SnapshotMkdir
    <2>1. to \in Slot
        BY <1>3 DEF SnapshotMkdir
    <2>2. \E e \in Entry : store' = store \/ store' = [store EXCEPT ![to] = e]
        BY <1>3, <2>1, EntryType DEF SnapshotMkdir
    <2>3. store' \in [Slot -> Entry]
        BY <2>1, <2>2, StoreType
    <2> QED
        BY <1>3, <2>3 DEF SnapshotMkdir
<1>4. CASE SnapshotCopied
    <2>1. to \in Slot
        BY <1>4 DEF SnapshotCopied
    <2>2. \E e \in Entry : store' = store \/ store' = [store EXCEPT ![to] = e]
        BY <1>4, <2>1, EntryType DEF SnapshotCopied, Discard
    <2>3. store' \in [Slot -> Entry]
        BY <2>1, <2>2, StoreType
    <2> QED
        BY <1>4, <2>3 DEF SnapshotCopied, Discard
<1>5. CASE SnapshotManifest
    <2>1. to \in Slot
        BY <1>5 DEF SnapshotManifest
    <2>2. \E e \in Entry : store' = store \/ store' = [store EXCEPT ![to] = e]
        BY <1>5, <2>1, EntryType DEF SnapshotManifest, Discard
    <2>3. store' \in [Slot -> Entry]
        BY <2>1, <2>2, StoreType
    <2> QED
        BY <1>5, <2>3 DEF SnapshotManifest, Discard
<1>6. ASSUME NEW s \in Slot, RemoveSnapshot(s)
      PROVE  TypeInv'
    <2>1. \E e \in Entry : store' = store \/ store' = [store EXCEPT ![s] = e]
        BY <1>6, EntryType DEF RemoveSnapshot
    <2>2. store' \in [Slot -> Entry]
        BY <2>1, StoreType
    <2> QED
        BY <1>6, <2>2 DEF RemoveSnapshot
<1>7. ASSUME NEW s \in Slot, NEW t \in Slot, NEW o \in SUBSET Option, RestoreBegin(s, t, o)
      PROVE  TypeInv'
    BY <1>7 DEF RestoreBegin, Begin
<1>8. CASE MoveAside
    BY <1>8 DEF MoveAside
<1>9. CASE RestoreCopy \/ RestoreCopied
    <2>1. cmd = "restore" => store[from].disk \in Content
        BY EntryType
    <2> QED
        BY <1>9, <2>1 DEF RestoreCopy, RestoreCopied
<1>10. CASE RestoreStart \/ RestoreRelease \/ RestoreUnwound
    BY <1>10 DEF RestoreStart, RestoreRelease, RestoreUnwound
<1>11. CASE FileAside
    <2>1. to \in Slot
        BY <1>11 DEF FileAside
    <2>2. \E e \in Entry : store' = store \/ store' = [store EXCEPT ![to] = e]
        BY <1>11, <2>1, EntryType DEF FileAside
    <2>3. store' \in [Slot -> Entry]
        BY <2>1, <2>2, StoreType
    <2> QED
        BY <1>11, <2>3 DEF FileAside
<1>12. CASE FileCopied
    <2>1. to \in Slot
        BY <1>12 DEF FileCopied
    <2>2. \E e \in Entry : store' = store \/ store' = [store EXCEPT ![to] = e]
        BY <1>12, <2>1, EntryType DEF FileCopied
    <2>3. store' \in [Slot -> Entry]
        BY <2>1, <2>2, StoreType
    <2> QED
        BY <1>12, <2>3 DEF FileCopied
<1>13. CASE FileRemove
    BY <1>13 DEF FileRemove
<1>14. CASE FileManifest
    <2>1. to \in Slot
        BY <1>14 DEF FileManifest
    <2>2. \E e \in Entry : store' = store \/ store' = [store EXCEPT ![to] = e]
        BY <1>14, <2>1, EntryType DEF FileManifest
    <2>3. store' \in [Slot -> Entry]
        BY <2>1, <2>2, StoreType
    <2> QED
        BY <1>14, <2>3 DEF FileManifest
<1> QED
    BY <1>1, <1>2, <1>3, <1>4, <1>5, <1>6, <1>7, <1>8, <1>9, <1>10, <1>11, <1>12,
       <1>13, <1>14 DEF SnapshotStep

\* So do rebuild and compact, which never use a GUID twice.
LEMMA RebuildType == TypeInv /\ RebuildStep => TypeInv'
<1> SUFFICES ASSUME TypeInv, RebuildStep
             PROVE  TypeInv'
    OBVIOUS
<1> USE Sorts DEF TypeInv, DataOK, TargetsOK,
        Finish, FinishWith, Goto, GiveUp, vars, diskVars, fileVars, regVars, vmVars,
        stepVars, asks, histVars, Running
<1>1. ASSUME NEW o \in SUBSET Option, RebuildBegin(o)
      PROVE  TypeInv'
    BY <1>1 DEF RebuildBegin, Begin
<1>2. ASSUME NEW o \in SUBSET Option, NEW p \in {"trim", "release"}, CompactBegin(o, p)
      PROVE  TypeInv'
    BY <1>2 DEF CompactBegin, Begin
<1>3. CASE RebuildStop \/ Export \/ Exported
    BY <1>3 DEF RebuildStop, Export, Exported
<1>4. CASE Unregister
    <2>1. reg' \in {0, reg} /\ next' = next
        BY <1>4 DEF Unregister
    <2>2. reg' \in 0..MaxGuid /\ next' \in 1..(MaxGuid + 1) /\ reg' < next'
        BY <2>1, CopyAssumption
    <2> QED
        BY <1>4, <2>2 DEF Unregister
<1>5. CASE Import
    <2>1. next <= MaxGuid
        BY <1>5 DEF Import
    <2>2. \/ reg' = next /\ next' = next + 1
          \/ reg' = reg /\ next' = next
        BY <1>5 DEF Import
    <2>3. reg' \in 0..MaxGuid /\ next' \in 1..(MaxGuid + 1) /\ reg' < next'
        BY <2>1, <2>2, CopyAssumption
    <2> QED
        BY <1>5, <2>3 DEF Import
<1>6. CASE RestoreSettings \/ RebuildStart \/ DeleteArchive
    BY <1>6 DEF RestoreSettings, RebuildStart, DeleteArchive
<1>7. CASE Trim \/ CompactStop \/ CompactDisk \/ CompactRestart
    BY <1>7 DEF Trim, CompactStop, CompactDisk, CompactRestart
<1> QED
    BY <1>1, <1>2, <1>3, <1>4, <1>5, <1>6, <1>7 DEF RebuildStep

\* And so every step.
LEMMA StepType == TypeInv /\ [Next]_vars => TypeInv'
BY WorldType, SnapshotType, RebuildType DEF Next

-----------------------------------------------------------------------------
(* The undo stack. *)

\* What a step does to it.
UndoMove ==
    \/ undo' = undo \/ undo' = <<>> \/ undo' = <<"put back">>
    \/ undo' = Append(undo, "remove")
    \/ undo # <<>> /\ undo' = SubSeq(undo, 1, Len(undo) - 1)

\* No step does anything else to it.
LEMMA UndoMoves == [Next]_vars => UndoMove
<1> SUFFICES ASSUME [Next]_vars
             PROVE  UndoMove
    OBVIOUS
<1> USE DEF UndoMove, Finish, FinishWith, Goto, GiveUp, Begin, vars, stepVars, asks
<1>1. CASE WorldStep \/ UNCHANGED vars
    BY <1>1 DEF WorldStep, Use, Write, Exits, Release, Tidy, Unwind, Crash
<1>2. CASE SnapshotStep
    <2>1. CASE \E t \in Slot, o \in SUBSET Option : SnapshotBegin(t, o)
        BY <2>1 DEF SnapshotBegin
    <2>2. CASE \E s, t \in Slot, o \in SUBSET Option : RestoreBegin(s, t, o)
        BY <2>2 DEF RestoreBegin
    <2>3. CASE \E s \in Slot : RemoveSnapshot(s)
        BY <2>3 DEF RemoveSnapshot
    <2>4. CASE SnapshotStop \/ SnapshotWait \/ RestoreStop \/ RestoreWait
        BY <2>4 DEF SnapshotStop, SnapshotWait, RestoreStop, RestoreWait, Stop, Wait
    <2>5. CASE SnapshotMkdir \/ SnapshotCopied \/ SnapshotManifest
        BY <2>5 DEF SnapshotMkdir, SnapshotCopied, SnapshotManifest, Discard
    <2>6. CASE MoveAside \/ RestoreCopy \/ RestoreCopied
        BY <2>6 DEF MoveAside, RestoreCopy, RestoreCopied
    <2>7. CASE RestoreStart \/ RestoreRelease \/ RestoreUnwound
        BY <2>7 DEF RestoreStart, RestoreRelease, RestoreUnwound
    <2>8. CASE FileAside \/ FileCopied \/ FileRemove \/ FileManifest
        BY <2>8 DEF FileAside, FileCopied, FileRemove, FileManifest
    <2> QED
        BY <1>2, <2>1, <2>2, <2>3, <2>4, <2>5, <2>6, <2>7, <2>8 DEF SnapshotStep
<1>3. CASE RebuildStep
    BY <1>3 DEF RebuildStep, RebuildBegin, RebuildStop, Export, Exported, Unregister,
       Import, RestoreSettings, RebuildStart, DeleteArchive, CompactBegin, Trim,
       CompactStop, CompactDisk, CompactRestart
<1> QED
    BY <1>1, <1>2, <1>3 DEF Next

UndoOK == undo \in Seq({"put back", "remove"})

\* Every step keeps its type.
LEMMA StepUndo == UndoOK /\ [Next]_vars => UndoOK'
<1> SUFFICES ASSUME UndoOK, [Next]_vars
             PROVE  UndoOK'
    OBVIOUS
<1>1. UndoMove
    BY UndoMoves
<1>2. CASE undo' = undo
    BY <1>2, Zenon DEF UndoOK
<1>5. CASE undo' = <<>>
    <2>1. <<>> \in Seq({"put back", "remove"})
        OBVIOUS
    <2> QED
        BY <1>5, <2>1 DEF UndoOK
<1>6. CASE undo' = <<"put back">>
    <2>1. <<"put back">> \in Seq({"put back", "remove"})
        OBVIOUS
    <2> QED
        BY <1>6, <2>1 DEF UndoOK
<1>3. CASE undo' = Append(undo, "remove")
    BY <1>3, AppendProperties DEF UndoOK
<1>4. CASE undo # <<>> /\ undo' = SubSeq(undo, 1, Len(undo) - 1)
    BY <1>4, PopType DEF UndoOK
<1> QED
    BY <1>1, <1>2, <1>3, <1>4, <1>5, <1>6 DEF UndoMove

\* The variables keep their types, whatever the commands do.
THEOREM Typing == Spec => []TypeOK
<1>1. Init => TypeInv /\ UndoOK
    BY InitType DEF Init, UndoOK
<1>2. TypeInv /\ UndoOK /\ [Next]_vars => TypeInv' /\ UndoOK'
    BY StepType, StepUndo
<1>3. TypeInv /\ UndoOK => TypeOK
    BY DEF TypeInv, DataOK, UndoOK, TypeOK
<1> QED
    BY <1>1, <1>2, <1>3, PTL DEF Spec
-----------------------------------------------------------------------------
(* The archive of a rebuild. *)

\* What makes ArchiveIsWhole inductive: the disk goes only once there is an
\* archive, which is only finished where the export did not fail.
ArchiveInv ==
    /\ ArchiveIsWhole
    /\ cmd = "rebuild" /\ reg = 0 => pc = "import"
    /\ cmd = "rebuild" /\ pc = "exporting" => live \in Version
    /\ cmd = "rebuild" /\ pc = "unregister" => archive \in Version

\* Every step keeps ArchiveInv.
LEMMA StepArchive == TypeInv /\ ArchiveInv /\ [Next]_vars => ArchiveInv'
<1> SUFFICES ASSUME TypeInv, ArchiveInv, [Next]_vars
             PROVE  ArchiveInv'
    OBVIOUS
<1> USE Sorts, CopyAssumption DEF TypeInv, DataOK, ArchiveInv, ArchiveIsWhole,
        Finish, FinishWith, Goto, GiveUp, Begin, vars, diskVars, fileVars, regVars, vmVars, stepVars, asks, histVars
<1>1. CASE Use \/ Write \/ Exits \/ Release \/ Unwind \/ Crash \/ UNCHANGED vars
    BY <1>1 DEF Use, Write, Exits, Release, Unwind, Crash
<1>2. CASE Tidy
    BY <1>2 DEF Tidy
<1>3. CASE SnapshotStep
    <2>1. CASE \E t \in Slot, o \in SUBSET Option : SnapshotBegin(t, o)
        BY <2>1 DEF SnapshotBegin
    <2>2. CASE \E s, t \in Slot, o \in SUBSET Option : RestoreBegin(s, t, o)
        BY <2>2 DEF RestoreBegin
    <2>3. CASE \E s \in Slot : RemoveSnapshot(s)
        BY <2>3 DEF RemoveSnapshot
    <2>4. CASE SnapshotStop \/ SnapshotWait \/ RestoreStop \/ RestoreWait
        BY <2>4 DEF SnapshotStop, SnapshotWait, RestoreStop, RestoreWait, Stop, Wait
    <2>5. CASE SnapshotMkdir \/ SnapshotCopied \/ SnapshotManifest
        BY <2>5 DEF SnapshotMkdir, SnapshotCopied, SnapshotManifest, Discard
    <2>6. CASE MoveAside \/ RestoreCopy \/ RestoreCopied
        BY <2>6 DEF MoveAside, RestoreCopy, RestoreCopied
    <2>7. CASE RestoreStart \/ RestoreRelease \/ RestoreUnwound
        BY <2>7 DEF RestoreStart, RestoreRelease, RestoreUnwound
    <2>8. CASE FileAside \/ FileCopied \/ FileRemove \/ FileManifest
        BY <2>8 DEF FileAside, FileCopied, FileRemove, FileManifest
    <2> QED
        BY <1>3, <2>1, <2>2, <2>3, <2>4, <2>5, <2>6, <2>7, <2>8 DEF SnapshotStep
<1>4. CASE RebuildStep
    <2>1. CASE \E o \in SUBSET Option : RebuildBegin(o)
        BY <2>1 DEF RebuildBegin
    <2>2. CASE \E o \in SUBSET Option, p \in {"trim", "release"} : CompactBegin(o, p)
        BY <2>2 DEF CompactBegin
    <2>3. CASE RebuildStop \/ Export \/ Exported
        BY <2>3 DEF RebuildStop, Export, Exported
    <2>4. CASE Unregister
        BY <2>4 DEF Unregister
    <2>5. CASE Import
        <3>1. reg' = next \/ reg' = reg
            BY <2>5 DEF Import
        <3>2. reg' = reg \/ reg' # 0
            BY <3>1
        <3>3. archive' = archive /\ pc' # "exporting" /\ pc' # "unregister"
            BY <2>5 DEF Import
        <3>4. cmd' = "none" \/ reg' = next
            BY <2>5 DEF Import
        <3> QED
            BY <3>2, <3>3, <3>4
    <2>6. CASE RestoreSettings \/ RebuildStart \/ DeleteArchive
        BY <2>6 DEF RestoreSettings, RebuildStart, DeleteArchive
    <2>7. CASE Trim \/ CompactStop \/ CompactDisk \/ CompactRestart
        BY <2>7 DEF Trim, CompactStop, CompactDisk, CompactRestart
    <2> QED
        BY <1>4, <2>1, <2>2, <2>3, <2>4, <2>5, <2>6, <2>7 DEF RebuildStep
<1> QED
    BY <1>1, <1>2, <1>3, <1>4 DEF Next, WorldStep

\* "From here the archive is the only copy" (rebuild.go:234), and it is whole.
THEOREM OnlyCopy == Spec => []ArchiveIsWhole
<1>1. Init => TypeInv /\ ArchiveInv
    BY InitType DEF Init, ArchiveInv, ArchiveIsWhole
<1>2. TypeInv /\ ArchiveInv /\ [Next]_vars => TypeInv' /\ ArchiveInv'
    BY StepType, StepArchive
<1>3. ArchiveInv => ArchiveIsWhole
    BY DEF ArchiveInv
<1> QED
    BY <1>1, <1>2, <1>3, PTL DEF Spec

-----------------------------------------------------------------------------
(* The snapshots. *)

\* A distribution that runs has its disk open, so that what a command locks is
\* not written to.
RunningHolds ==
    /\ Running => lock = "held" /\ live \in Version
    /\ cmd = "rebuild" /\ pc = "import" => ~Running
    /\ cmd = "restore" /\ pc = "copying" => ~Running

\* Every step keeps RunningHolds.
LEMMA StepHolds == TypeInv /\ RunningHolds /\ [Next]_vars => RunningHolds'
<1> SUFFICES ASSUME TypeInv, RunningHolds, [Next]_vars
             PROVE  RunningHolds'
    OBVIOUS
<1> USE Sorts DEF TypeInv, DataOK, RunningHolds, Running, Finish, FinishWith, Goto,
        GiveUp, Begin, vars, diskVars, fileVars, regVars, vmVars, stepVars, asks
<1>1. CASE Use \/ Exits \/ Release \/ Crash \/ UNCHANGED vars
    BY <1>1 DEF Use, Exits, Release, Crash, CanStart
<1>2. CASE Write
    BY <1>2, CopyAssumption DEF Write, Version
<1>3. CASE Tidy
    BY <1>3 DEF Tidy
<1>4. CASE Unwind
    BY <1>4 DEF Unwind
<1>5. CASE SnapshotStep
    <2>1. CASE \E t \in Slot, o \in SUBSET Option : SnapshotBegin(t, o)
        BY <2>1 DEF SnapshotBegin
    <2>2. CASE \E s, t \in Slot, o \in SUBSET Option : RestoreBegin(s, t, o)
        BY <2>2 DEF RestoreBegin
    <2>3. CASE \E s \in Slot : RemoveSnapshot(s)
        BY <2>3 DEF RemoveSnapshot
    <2>4. CASE SnapshotStop \/ SnapshotWait \/ RestoreStop \/ RestoreWait
        BY <2>4 DEF SnapshotStop, SnapshotWait, RestoreStop, RestoreWait, Stop, Wait
    <2>5. CASE SnapshotMkdir \/ SnapshotCopied \/ SnapshotManifest
        BY <2>5 DEF SnapshotMkdir, SnapshotCopied, SnapshotManifest, Discard
    <2>6. CASE MoveAside \/ RestoreCopy \/ RestoreCopied
        BY <2>6 DEF MoveAside, RestoreCopy, RestoreCopied
    <2>7. CASE RestoreStart \/ RestoreRelease \/ RestoreUnwound
        BY <2>7 DEF RestoreStart, RestoreRelease, RestoreUnwound
    <2>8. CASE FileAside \/ FileCopied \/ FileRemove \/ FileManifest
        BY <2>8 DEF FileAside, FileCopied, FileRemove, FileManifest
    <2> QED
        BY <1>5, <2>1, <2>2, <2>3, <2>4, <2>5, <2>6, <2>7, <2>8 DEF SnapshotStep
<1>6. CASE RebuildStep
    <2>1. CASE \E o \in SUBSET Option : RebuildBegin(o)
        BY <2>1 DEF RebuildBegin
    <2>2. CASE \E o \in SUBSET Option, p \in {"trim", "release"} : CompactBegin(o, p)
        BY <2>2 DEF CompactBegin
    <2>3. CASE RebuildStop \/ Export \/ Exported
        BY <2>3 DEF RebuildStop, Export, Exported
    <2>4. CASE Unregister
        BY <2>4 DEF Unregister
    <2>5. CASE Import
        BY <2>5 DEF Import
    <2>6. CASE RestoreSettings \/ RebuildStart \/ DeleteArchive
        BY <2>6 DEF RestoreSettings, RebuildStart, DeleteArchive
    <2>7. CASE Trim \/ CompactStop \/ CompactDisk \/ CompactRestart
        BY <2>7 DEF Trim, CompactStop, CompactDisk, CompactRestart
    <2> QED
        BY <1>6, <2>1, <2>2, <2>3, <2>4, <2>5, <2>6, <2>7 DEF RebuildStep
<1> QED
    BY <1>1, <1>2, <1>3, <1>4, <1>5, <1>6 DEF Next, WorldStep

\* What makes SnapshotsAreWhole inductive: what is under way in the slot that the
\* command fills.
SlotsInv ==
    /\ SnapshotsAreWhole
    /\ cmd = "snapshot" /\ pc = "copying" => ~Running /\ live = taken[to]
    /\ cmd = "snapshot" /\ pc = "manifest" => store[to].disk = taken[to]
    /\ cmd = "restore" /\ pc = "filing" => aside = taken[to]
    /\ cmd = "restore" /\ pc \in {"remove", "manifest"} => store[to].disk = taken[to]

\* A step that leaves the other slots alone need only see to this one.
LEMMA OneSlot ==
    ASSUME TypeInv, SnapshotsAreWhole, NEW t \in Slot, NEW e \in Entry,
           NEW d \in Content,
           store' = [store EXCEPT ![t] = e], taken' = [taken EXCEPT ![t] = d],
           e.manifest = "whole" /\ e.disk # Nothing => e.disk = d
    PROVE  SnapshotsAreWhole' /\ store'[t] = e /\ taken'[t] = d
BY DEF TypeInv, DataOK, SnapshotsAreWhole, Readable

\* The same, where nothing is taken anew.
LEMMA OneEntry ==
    ASSUME TypeInv, SnapshotsAreWhole, NEW t \in Slot, NEW e \in Entry,
           store' = store \/ store' = [store EXCEPT ![t] = e], taken' = taken,
           e.manifest = "whole" /\ e.disk # Nothing => e.disk = taken[t]
    PROVE  SnapshotsAreWhole'
BY DEF TypeInv, DataOK, SnapshotsAreWhole, Readable

\* The steps of snapshot that write to the store keep SlotsInv.
LEMMA SlotSnapshot ==
    ASSUME TypeInv, RunningHolds, SlotsInv,
           SnapshotMkdir \/ SnapshotCopied \/ SnapshotManifest
    PROVE  SlotsInv'
<1> USE Sorts DEF TypeInv, SlotsInv, Finish, FinishWith, Goto, GiveUp,
        stepVars, asks, vmVars, Running
<1>1. /\ to \in Slot /\ live \in Content /\ store \in [Slot -> Entry]
      /\ taken \in [Slot -> Content]
    BY DEF DataOK, TargetsOK, SnapshotMkdir, SnapshotCopied, SnapshotManifest
<1>2. CASE SnapshotMkdir
    <2> DEFINE e == [NoEntry EXCEPT !.dir = "made", !.guid = reg, !.disk = Part]
               f == [NoEntry EXCEPT !.dir = "made", !.guid = reg]
    <2>1. e \in Entry /\ f \in Entry /\ e.manifest = "none" /\ f.manifest = "none"
        BY EntryType, <1>1 DEF NoEntry
    <2>2. \/ /\ lock = "free" /\ store' = [store EXCEPT ![to] = e]
             /\ taken' = [taken EXCEPT ![to] = live]
             /\ live' = live /\ up' = up /\ to' = to /\ cmd' = cmd /\ pc' = "copying"
          \/ /\ store' = store \/ store' = [store EXCEPT ![to] = f]
             /\ taken' = taken /\ cmd' = "none"
        BY <1>2 DEF SnapshotMkdir, fileVars, diskVars
    <2> HIDE DEF e, f
    <2>3. CASE cmd' = "none" /\ taken' = taken
               /\ (store' = store \/ store' = [store EXCEPT ![to] = f])
        BY <1>1, <2>1, <2>3, OneEntry
    <2>4. CASE /\ lock = "free" /\ store' = [store EXCEPT ![to] = e]
               /\ taken' = [taken EXCEPT ![to] = live]
               /\ live' = live /\ up' = up /\ to' = to /\ cmd' = cmd /\ pc' = "copying"
        <3>1. SnapshotsAreWhole' /\ taken'[to] = live
            BY <1>1, <2>1, <2>4, OneSlot
        <3>2. ~Running
            BY <2>4 DEF RunningHolds
        <3>3. cmd = "snapshot"
            BY <1>2 DEF SnapshotMkdir
        <3> QED
            BY <2>4, <3>1, <3>2, <3>3
    <2> QED
        BY <2>2, <2>3, <2>4
<1>3. CASE SnapshotCopied
    <2> DEFINE e == [store[to] EXCEPT !.disk = live]
               f == [store[to] EXCEPT !.disk = Nothing]
    <2>1. /\ e \in Entry /\ f \in Entry /\ NoEntry \in Entry
          /\ e.disk = live /\ f.disk = Nothing /\ NoEntry.manifest = "none"
        BY <1>1, EntryType DEF NoEntry, Entry
    <2>2. /\ cmd = "snapshot" /\ pc = "copying" /\ taken' = taken /\ to \in Slot
          /\ \/ /\ store' = [store EXCEPT ![to] = e] /\ cmd' = cmd
                /\ pc' = "manifest" /\ to' = to /\ live' = live /\ up' = up
             \/ /\ \/ store' = [store EXCEPT ![to] = f] \/ store' = store
                   \/ store' = [store EXCEPT ![to] = NoEntry]
                /\ cmd' = "none"
        BY <1>1, <1>3 DEF SnapshotCopied, Discard, Put, histVars
    <2> HIDE DEF e, f
    <2>3. live = taken[to]
        BY <2>2
    <2>4. SnapshotsAreWhole'
        BY <2>1, <2>2, <2>3, OneEntry, <1>1
    <2>5. store' = [store EXCEPT ![to] = e] => store'[to].disk = live
        BY <1>1, <2>1
    <2> QED
        BY <2>2, <2>3, <2>4, <2>5
<1>4. CASE SnapshotManifest
    <2> DEFINE e == [store[to] EXCEPT !.manifest = "whole"]
               f == [store[to] EXCEPT !.disk = Nothing]
    <2>1. /\ e \in Entry /\ f \in Entry /\ NoEntry \in Entry
          /\ e.disk = store[to].disk /\ f.disk = Nothing /\ NoEntry.manifest = "none"
        BY <1>1, EntryType DEF NoEntry, Entry
    <2>2. /\ cmd = "snapshot" /\ pc = "manifest" /\ taken' = taken /\ cmd' = "none"
          /\ \/ store' = [store EXCEPT ![to] = e] \/ store' = [store EXCEPT ![to] = f]
             \/ store' = store \/ store' = [store EXCEPT ![to] = NoEntry]
        BY <1>1, <1>4 DEF SnapshotManifest, Discard, Put
    <2> HIDE DEF e, f
    <2>3. store[to].disk = taken[to]
        BY <2>2
    <2>4. SnapshotsAreWhole'
        BY <2>1, <2>2, <2>3, OneEntry, <1>1
    <2> QED
        BY <2>2, <2>4
<1> QED
    BY <1>2, <1>3, <1>4

\* So do those of restore, which files the disk it replaced.
LEMMA SlotFile ==
    ASSUME TypeInv, SlotsInv, FileAside \/ FileCopied \/ FileRemove \/ FileManifest
    PROVE  SlotsInv'
<1> USE Sorts DEF TypeInv, SlotsInv, Finish, FinishWith, Goto, stepVars, asks
<1>1. /\ to \in Slot /\ aside \in Content /\ store \in [Slot -> Entry]
      /\ taken \in [Slot -> Content]
    BY DEF DataOK, TargetsOK, FileAside, FileCopied, FileRemove, FileManifest
<1>2. CASE FileAside
    <2> DEFINE e(d) == [NoEntry EXCEPT !.dir = "made", !.guid = reg, !.disk = d]
    <2>1. /\ e(aside) \in Entry /\ e(Part) \in Entry /\ e(Nothing) \in Entry
          /\ e(Part).manifest = "none" /\ e(Nothing).manifest = "none"
          /\ e(aside).manifest = "none" /\ e(aside).disk = aside
        BY EntryType, <1>1 DEF NoEntry
    <2>2. \/ /\ store' = [store EXCEPT ![to] = e(aside)]
             /\ taken' = [taken EXCEPT ![to] = aside]
             /\ to' = to /\ cmd' = cmd /\ pc' = "manifest"
          \/ /\ store' = [store EXCEPT ![to] = e(Part)]
             /\ taken' = [taken EXCEPT ![to] = aside]
             /\ to' = to /\ cmd' = cmd /\ pc' = "filing" /\ aside' = aside
          \/ /\ store' = store \/ store' = [store EXCEPT ![to] = e(Nothing)]
             /\ taken' = taken /\ cmd' = "none"
        BY <1>2 DEF FileAside
    <2>3. cmd = "restore"
        BY <1>2 DEF FileAside
    <2> HIDE DEF e
    <2>4. CASE /\ store' = [store EXCEPT ![to] = e(aside)]
               /\ taken' = [taken EXCEPT ![to] = aside]
               /\ to' = to /\ cmd' = cmd /\ pc' = "manifest"
        <3>1. SnapshotsAreWhole' /\ store'[to] = e(aside) /\ taken'[to] = aside
            BY <1>1, <2>1, <2>4, OneSlot
        <3> QED
            BY <2>1, <2>3, <2>4, <3>1
    <2>5. CASE /\ store' = [store EXCEPT ![to] = e(Part)]
               /\ taken' = [taken EXCEPT ![to] = aside]
               /\ to' = to /\ cmd' = cmd /\ pc' = "filing" /\ aside' = aside
        <3>1. SnapshotsAreWhole' /\ taken'[to] = aside
            BY <1>1, <2>1, <2>5, OneSlot
        <3> QED
            BY <2>3, <2>5, <3>1
    <2>6. CASE /\ store' = store \/ store' = [store EXCEPT ![to] = e(Nothing)]
               /\ taken' = taken /\ cmd' = "none"
        BY <1>1, <2>1, <2>6, OneEntry
    <2> QED
        BY <2>2, <2>4, <2>5, <2>6
<1>3. CASE FileCopied
    <2> DEFINE e == [store[to] EXCEPT !.disk = aside]
               f == [store[to] EXCEPT !.disk = Nothing]
    <2>1. e \in Entry /\ f \in Entry /\ e.disk = aside /\ f.disk = Nothing
        <3>1. store[to] \in Entry /\ e \in Entry /\ f \in Entry
            BY <1>1, EntryType
        <3> QED
            BY <3>1, EntryFields
    <2>2. /\ cmd = "restore" /\ pc = "filing" /\ taken' = taken
          /\ \/ /\ store' = [store EXCEPT ![to] = e] /\ cmd' = cmd
                /\ pc' = "remove" /\ to' = to
             \/ /\ store' = store \/ store' = [store EXCEPT ![to] = f]
                /\ cmd' = "none"
        BY <1>1, <1>3 DEF FileCopied, Put, histVars
    <2> HIDE DEF e, f
    <2>3. aside = taken[to]
        BY <2>2
    <2>4. SnapshotsAreWhole'
        BY <2>1, <2>2, <2>3, OneEntry, <1>1
    <2>5. store' = [store EXCEPT ![to] = e] => store'[to].disk = aside
        BY <1>1, <2>1
    <2> QED
        BY <2>2, <2>3, <2>4, <2>5
<1>4. CASE FileRemove
    BY <1>4 DEF FileRemove, SnapshotsAreWhole, Readable, histVars
<1>5. CASE FileManifest
    <2> DEFINE e == [store[to] EXCEPT !.manifest = "whole"]
               f == [store[to] EXCEPT !.manifest = "cut"]
    <2>1. /\ e \in Entry /\ f \in Entry
          /\ e.disk = store[to].disk /\ f.manifest = "cut"
        <3>1. store[to] \in Entry /\ e \in Entry /\ f \in Entry
            BY <1>1, EntryType
        <3> QED
            BY <3>1, EntryFields
    <2>2. /\ cmd = "restore" /\ pc = "manifest" /\ taken' = taken /\ cmd' = "none"
          /\ \/ store' = [store EXCEPT ![to] = e] \/ store' = [store EXCEPT ![to] = f]
             \/ store' = store
        BY <1>1, <1>5 DEF FileManifest
    <2> HIDE DEF e, f
    <2>3. store[to].disk = taken[to]
        BY <2>2
    <2>4. SnapshotsAreWhole'
        BY <2>1, <2>2, <2>3, OneEntry, <1>1
    <2> QED
        BY <2>2, <2>4
<1> QED
    BY <1>2, <1>3, <1>4, <1>5

\* So does snapshot rm, which may leave any part of a snapshot.
LEMMA SlotRemove ==
    ASSUME TypeInv, SlotsInv, NEW s \in Slot, RemoveSnapshot(s)
    PROVE  SlotsInv'
<1> USE Sorts DEF TypeInv, SlotsInv
<1>1. store[s] \in Entry /\ taken \in [Slot -> Content]
    BY EntryType DEF DataOK
<1>2. PICK gone \in {NoEntry, store[s], [store[s] EXCEPT !.disk = Nothing],
                     [store[s] EXCEPT !.manifest = "none"],
                     [NoEntry EXCEPT !.dir = "made", !.guid = reg]} :
          store' = [store EXCEPT ![s] = gone]
    BY DEF RemoveSnapshot
<1>3. /\ gone \in Entry
      /\ gone.manifest = "whole" /\ gone.disk # Nothing => gone.disk = taken[s]
    <2>1. store[s].manifest = "whole" /\ store[s].disk # Nothing
              => store[s].disk = taken[s]
        BY DEF SnapshotsAreWhole, Readable
    <2>2. NoEntry \in Entry /\ [NoEntry EXCEPT !.dir = "made", !.guid = reg] \in Entry
        BY EntryType
    <2>3. /\ [store[s] EXCEPT !.disk = Nothing] \in Entry
          /\ [store[s] EXCEPT !.manifest = "none"] \in Entry
        BY EntryType
    <2>4. /\ [store[s] EXCEPT !.disk = Nothing].disk = Nothing
          /\ [store[s] EXCEPT !.manifest = "none"].manifest = "none"
          /\ NoEntry.manifest = "none"
          /\ [NoEntry EXCEPT !.dir = "made", !.guid = reg].manifest = "none"
        BY <1>1, EntryFields
    <2> QED
        BY <1>2, <2>1, <2>2, <2>3, <2>4, <1>1
<1>4. taken' = taken /\ cmd' = "none"
    BY DEF RemoveSnapshot
<1>5. SnapshotsAreWhole'
    BY <1>2, <1>3, <1>4, OneEntry
<1> QED
    BY <1>4, <1>5

\* And so every step.
LEMMA StepSlots == TypeInv /\ RunningHolds /\ SlotsInv /\ [Next]_vars => SlotsInv'
<1> SUFFICES ASSUME TypeInv, RunningHolds, SlotsInv, [Next]_vars
             PROVE  SlotsInv'
    OBVIOUS
<1>1. CASE SnapshotMkdir \/ SnapshotCopied \/ SnapshotManifest
    BY <1>1, SlotSnapshot
<1>2. CASE FileAside \/ FileCopied \/ FileRemove \/ FileManifest
    BY <1>2, SlotFile
<1>3. CASE \E s \in Slot : RemoveSnapshot(s)
    BY <1>3, SlotRemove
<1> USE DEF SlotsInv, SnapshotsAreWhole, Readable, Running, Finish, FinishWith, Goto,
        GiveUp, Begin, vars, diskVars, fileVars, vmVars, stepVars, asks, histVars
<1>4. CASE Use \/ Write \/ Exits \/ Release \/ Tidy \/ Unwind \/ Crash \/ UNCHANGED vars
    BY <1>4 DEF Use, CanStart, Write, Exits, Release, Tidy, Unwind, Crash
<1>5. CASE \E t \in Slot, o \in SUBSET Option : SnapshotBegin(t, o)
    BY <1>5 DEF SnapshotBegin
<1>6. CASE \E s, t \in Slot, o \in SUBSET Option : RestoreBegin(s, t, o)
    BY <1>6 DEF RestoreBegin
<1>7. CASE SnapshotStop \/ SnapshotWait \/ RestoreStop \/ RestoreWait
    BY <1>7 DEF SnapshotStop, SnapshotWait, RestoreStop, RestoreWait, Stop, Wait
<1>8. CASE MoveAside \/ RestoreCopy \/ RestoreCopied
    BY <1>8 DEF MoveAside, RestoreCopy, RestoreCopied
<1>9. CASE RestoreStart \/ RestoreRelease \/ RestoreUnwound
    BY <1>9 DEF RestoreStart, RestoreRelease, RestoreUnwound
<1>10. CASE \E o \in SUBSET Option : RebuildBegin(o)
    BY <1>10 DEF RebuildBegin
<1>11. CASE \E o \in SUBSET Option, p \in {"trim", "release"} : CompactBegin(o, p)
    BY <1>11 DEF CompactBegin
<1>12. CASE RebuildStop \/ Export \/ Exported \/ Unregister \/ Import
    BY <1>12 DEF RebuildStop, Export, Exported, Unregister, Import
<1>13. CASE RestoreSettings \/ RebuildStart \/ DeleteArchive
    BY <1>13 DEF RestoreSettings, RebuildStart, DeleteArchive
<1>14. CASE Trim \/ CompactStop \/ CompactDisk \/ CompactRestart
    BY <1>14 DEF Trim, CompactStop, CompactDisk, CompactRestart
<1> QED
    BY <1>1, <1>2, <1>3, <1>4, <1>5, <1>6, <1>7, <1>8, <1>9, <1>10, <1>11, <1>12,
       <1>13, <1>14 DEF Next, WorldStep, SnapshotStep, RebuildStep

\* A snapshot that can be restored is all of the disk it was taken of.
THEOREM WholeSnapshots == Spec => []SnapshotsAreWhole
<1>1. Init => TypeInv /\ RunningHolds /\ SlotsInv
    <2>1. Init => RunningHolds
        BY CopyAssumption DEF Init, RunningHolds, Running
    <2>2. Init => SlotsInv
        BY DEF Init, SlotsInv, SnapshotsAreWhole, Readable, NoEntry
    <2> QED
        BY <2>1, <2>2, InitType
<1>2. TypeInv /\ RunningHolds /\ SlotsInv /\ [Next]_vars
          => TypeInv' /\ RunningHolds' /\ SlotsInv'
    BY StepType, StepHolds, StepSlots
<1>3. SlotsInv => SnapshotsAreWhole
    BY DEF SlotsInv
<1> QED
    BY <1>1, <1>2, <1>3, PTL DEF Spec

-----------------------------------------------------------------------------
(* What a restore and a rebuild displace. *)

\* A folder that is not there has no disk in it, and none is copied into it.
Vacant ==
    /\ \A s \in Slot : store[s].dir = "none" => store[s].disk = Nothing
    /\ \/ cmd = "snapshot" /\ pc \in {"copying", "manifest"}
       \/ cmd = "restore" /\ pc = "filing"
       => store[to].dir = "made"

\* What the undo stack of a restore can hold.
PutBack == <<"put back">>
Remove  == <<"remove">>
Both    == <<"put back", "remove">>
Shapes  == {<<>>, PutBack, Remove, Both}

\* Where a restore has the disk that it began with, at each of its steps.
RestoreInv ==
    /\ pc \in {"stop", "wait", "aside"} => before = live /\ aside = Nothing /\ undo = <<>>
    /\ pc \in {"copy", "copying"} => before = aside /\ undo \in {<<>>, PutBack}
    /\ pc = "copy" => live = Nothing
    /\ pc \in {"start", "file", "filing", "release"} => before = aside /\ undo # <<>>
    /\ pc = "remove" => before = aside
    /\ pc \in {"remove", "manifest"} => store[to].disk = before /\ undo # <<>>
    /\ pc = "unwind" => before = aside \/ (undo = <<>> /\ before = live)
    /\ pc \in {"stop", "wait", "aside", "copy", "copying", "start", "file", "filing",
               "release", "remove", "manifest", "unwind"}
    /\ undo \in Shapes

\* And the others.
BeforeInv ==
    /\ cmd \in {"snapshot", "compact"} => before = live
    /\ cmd = "rebuild" => IF pc = "import" THEN archive = before ELSE live = before
    /\ cmd = "rebuild" /\ pc = "unregister" => archive = before
    /\ cmd # "restore" => undo = <<>>
    /\ cmd = "restore" => RestoreInv

\* What was displaced is neither in what a command is about to replace nor in the
\* slot that it fills.
Elsewhere(v) ==
    \/ v = aside /\ cmd # "restore"
    \/ v = archive /\ cmd # "rebuild"
    \/ \E s \in Slot : store[s].disk = v /\ (cmd \in {"snapshot", "restore"} => s # to)

KeptInv == \A v \in kept : Elsewhere(v)

\* An undo stack that grows from one step to two.
LEMMA AppendToOne == ASSUME NEW a, NEW b PROVE Append(<<a>>, b) = <<a, b>>
<1> DEFINE s == Append(<<a>>, b)
           t == <<a, b>>
<1>1. <<a>> \in Seq({a, b}) /\ Len(<<a>>) = 1 /\ <<a>>[1] = a
    OBVIOUS
<1>2. t \in Seq({a, b}) /\ Len(t) = 2 /\ t[1] = a /\ t[2] = b
    OBVIOUS
<1>3. s \in Seq({a, b}) /\ Len(s) = 2 /\ s[1] = a /\ s[2] = b
    BY <1>1, AppendProperties
<1> HIDE DEF s, t
<1>4. \A i \in 1..Len(s) : s[i] = t[i]
    BY <1>2, <1>3
<1>5. s = t
    BY <1>2, <1>3, <1>4, SeqEqual
<1> QED
    BY <1>5 DEF s, t

\* One that shrinks from two steps to one.
LEMMA PopOfTwo ==
    ASSUME NEW a, NEW b
    PROVE  SubSeq(<<a, b>>, 1, Len(<<a, b>>) - 1) = <<a>>
<1> DEFINE s == SubSeq(<<a, b>>, 1, 1)
           t == <<a>>
<1>1. t \in Seq({a, b}) /\ Len(t) = 1 /\ t[1] = a
    OBVIOUS
<1>2. <<a, b>> \in Seq({a, b}) /\ Len(<<a, b>>) = 2 /\ <<a, b>>[1] = a
    OBVIOUS
<1>3. s \in Seq({a, b}) /\ Len(s) = 1 /\ s[1] = a
    BY <1>2, SubSeqProperties
<1> HIDE DEF s, t
<1>4. s = t
    BY <1>1, <1>3, SeqEqual
<1> QED
    BY <1>2, <1>4 DEF s, t

\* What pushing to an undo stack of a restore, and popping it, yields.
LEMMA UndoShapes ==
    /\ PutBack # <<>> /\ Remove # <<>> /\ Both # <<>>
    /\ Append(<<>>, "remove") = Remove /\ Append(PutBack, "remove") = Both
    /\ PutBack[Len(PutBack)] = "put back" /\ SubSeq(PutBack, 1, Len(PutBack) - 1) = <<>>
    /\ Remove[Len(Remove)] = "remove" /\ SubSeq(Remove, 1, Len(Remove) - 1) = <<>>
    /\ Both[Len(Both)] = "remove" /\ SubSeq(Both, 1, Len(Both) - 1) = PutBack
<1>1. PutBack # <<>> /\ Remove # <<>> /\ Both # <<>>
    BY DEF PutBack, Remove, Both
<1>2. Append(<<>>, "remove") = Remove /\ Append(PutBack, "remove") = Both
    <2>1. Append(<<>>, "remove") = Remove
        BY DEF Remove
    <2> QED
        BY <2>1, AppendToOne DEF PutBack, Both
<1>3. PutBack[Len(PutBack)] = "put back" /\ SubSeq(PutBack, 1, Len(PutBack) - 1) = <<>>
    BY DEF PutBack
<1>4. Remove[Len(Remove)] = "remove" /\ SubSeq(Remove, 1, Len(Remove) - 1) = <<>>
    BY DEF Remove
<1>5. Both[Len(Both)] = "remove" /\ SubSeq(Both, 1, Len(Both) - 1) = PutBack
    <2>1. Both[Len(Both)] = "remove"
        BY DEF Both
    <2> QED
        BY <2>1, PopOfTwo DEF Both, PutBack
<1> QED
    BY <1>1, <1>2, <1>3, <1>4, <1>5

\* What a step of the rollback does, whichever it is.
LEMMA Unwinds ==
    ASSUME TypeInv, BeforeInv, Unwind
    PROVE  /\ undo \in {PutBack, Remove, Both} /\ cmd = "restore"
           /\ \/ /\ undo \in {Remove, Both} /\ live' = Nothing /\ aside' = aside
              \/ /\ undo = PutBack /\ live = Nothing
                 /\ live' = aside /\ aside' = Nothing
              \/ live' = live /\ aside' = aside
           /\ undo' = IF undo = Both THEN PutBack ELSE <<>>
<1>1. cmd = "restore" /\ undo \in {PutBack, Remove, Both}
    BY DEF BeforeInv, Unwind, RestoreInv, Shapes
<1>2. undo' = SubSeq(undo, 1, Len(undo) - 1)
    BY DEF Unwind
<1>3. undo' = IF undo = Both THEN PutBack ELSE <<>>
    <2>1. PutBack # Both /\ Remove # Both
        BY UndoShapes
    <2> QED
        BY <1>1, <1>2, <2>1, UndoShapes
<1>4. \/ /\ undo[Len(undo)] = "remove" /\ live' = Nothing /\ aside' = aside
      \/ /\ undo[Len(undo)] = "put back" /\ live = Nothing
         /\ live' = aside /\ aside' = Nothing
      \/ live' = live /\ aside' = aside
    BY DEF Unwind
<1> QED
    BY <1>1, <1>3, <1>4, UndoShapes

\* An entry that a slot may have.
Filled(e) == e \in Entry /\ (e.dir = "none" => e.disk = Nothing)

\* The store with one such entry.
LEMMA OneFilled ==
    ASSUME TypeInv, Vacant, NEW t \in Slot, NEW e, Filled(e),
           store' = store \/ store' = [store EXCEPT ![t] = e]
    PROVE  /\ \A s \in Slot : store'[s].dir = "none" => store'[s].disk = Nothing
           /\ store'[t] = store[t] \/ store'[t] = e
BY DEF TypeInv, DataOK, Vacant, Filled

\* The entries that the commands write are such entries.
LEMMA FilledEntries ==
    ASSUME TypeInv, Vacant, NEW s \in Slot
    PROVE  /\ Filled(NoEntry) /\ Filled(store[s])
           /\ \A d \in Content :
                  LET e == [NoEntry EXCEPT !.dir = "made", !.guid = reg, !.disk = d]
                  IN  Filled(e) /\ e.dir = "made"
           /\ Filled([NoEntry EXCEPT !.dir = "made", !.guid = reg])
           /\ Filled([store[s] EXCEPT !.disk = Nothing])
           /\ \A m \in {"none", "cut", "whole"} :
                  Filled([store[s] EXCEPT !.manifest = m])
           /\ store[s].dir = "made" => \A d \in Content :
                  LET e == [store[s] EXCEPT !.disk = d]
                  IN  Filled(e) /\ e.dir = "made"
<1>1. /\ store[s] \in Entry /\ NoEntry \in Entry /\ Nothing \in Content
      /\ store[s].dir = "none" => store[s].disk = Nothing
    BY EntryType, Sorts DEF TypeInv, Vacant
<1>2. /\ Filled(NoEntry) /\ Filled(store[s])
      /\ Filled([NoEntry EXCEPT !.dir = "made", !.guid = reg])
    BY <1>1, EntryType DEF NoEntry, Filled, TypeInv
<1>3. ASSUME NEW d \in Content
      PROVE  LET e == [NoEntry EXCEPT !.dir = "made", !.guid = reg, !.disk = d]
             IN  Filled(e) /\ e.dir = "made"
    BY EntryType DEF NoEntry, Filled, TypeInv
<1>4. Filled([store[s] EXCEPT !.disk = Nothing])
    <2>1. [store[s] EXCEPT !.disk = Nothing] \in Entry
        BY <1>1, EntryType DEF TypeInv
    <2> QED
        BY <1>1, <2>1, EntryFields DEF Filled
<1>5. ASSUME NEW m \in {"none", "cut", "whole"}
      PROVE  Filled([store[s] EXCEPT !.manifest = m])
    <2>1. [store[s] EXCEPT !.manifest = m] \in Entry
        BY EntryType DEF TypeInv
    <2>2. /\ [store[s] EXCEPT !.manifest = m].dir = store[s].dir
          /\ [store[s] EXCEPT !.manifest = m].disk = store[s].disk
        BY <1>1 DEF Entry
    <2> QED
        BY <1>1, <2>1, <2>2 DEF Filled
<1>6. ASSUME store[s].dir = "made", NEW d \in Content
      PROVE  LET e == [store[s] EXCEPT !.disk = d]
             IN  Filled(e) /\ e.dir = "made"
    <2>1. [store[s] EXCEPT !.disk = d] \in Entry
        BY EntryType DEF TypeInv
    <2>2. [store[s] EXCEPT !.disk = d].dir = "made"
        BY <1>1, <1>6 DEF Entry
    <2> QED
        BY <2>1, <2>2 DEF Filled
<1> QED
    BY <1>2, <1>3, <1>4, <1>5, <1>6
\* Every step keeps Vacant.
LEMMA StepVacant == TypeInv /\ Vacant /\ [Next]_vars => Vacant'
<1> SUFFICES ASSUME TypeInv, Vacant, [Next]_vars
             PROVE  Vacant'
    OBVIOUS
<1> USE DEF Finish, FinishWith, Goto, GiveUp, Begin, vars, diskVars, fileVars, vmVars,
        stepVars, asks, histVars
<1>1. ASSUME NEW t \in Slot, NEW e, Filled(e),
             store' = store \/ store' = [store EXCEPT ![t] = e],
             \/ cmd' = "none"
             \/ cmd' = "restore" /\ pc' # "filing"
             \/ to' = t /\ store'[t].dir = "made"
      PROVE  Vacant'
    BY <1>1, OneFilled DEF Vacant
<1>2. CASE SnapshotMkdir
    <2>1. /\ to \in Slot /\ store \in [Slot -> Entry] /\ Part \in Content
        BY <1>2, Sorts DEF TypeInv, DataOK, TargetsOK, SnapshotMkdir
    <2> DEFINE e == [NoEntry EXCEPT !.dir = "made", !.guid = reg, !.disk = Part]
               f == [NoEntry EXCEPT !.dir = "made", !.guid = reg]
    <2>2. Filled(e) /\ Filled(f) /\ e.dir = "made"
        BY <2>1, FilledEntries
    <2>3. \/ store' = [store EXCEPT ![to] = e] /\ to' = to
          \/ (store' = store \/ store' = [store EXCEPT ![to] = f]) /\ cmd' = "none"
        BY <1>2 DEF SnapshotMkdir
    <2> HIDE DEF e, f
    <2> QED
        BY <1>1, <2>1, <2>2, <2>3
<1>3. CASE SnapshotCopied
    <2>1. /\ to \in Slot /\ store \in [Slot -> Entry] /\ live \in Content
          /\ store[to].dir = "made"
        BY <1>3 DEF TypeInv, DataOK, TargetsOK, SnapshotCopied, Vacant
    <2> DEFINE e == [store[to] EXCEPT !.disk = live]
               f == [store[to] EXCEPT !.disk = Nothing]
    <2>2. Filled(e) /\ Filled(f) /\ Filled(NoEntry) /\ e.dir = "made"
        BY <2>1, FilledEntries
    <2>3. \/ store' = [store EXCEPT ![to] = e] /\ to' = to
          \/ /\ \/ store' = [store EXCEPT ![to] = f] \/ store' = store
                \/ store' = [store EXCEPT ![to] = NoEntry]
             /\ cmd' = "none"
        BY <1>3 DEF SnapshotCopied, Discard, Put
    <2> HIDE DEF e, f
    <2> QED
        BY <1>1, <2>1, <2>2, <2>3
<1>4. CASE SnapshotManifest
    <2>1. to \in Slot
        BY <1>4 DEF TypeInv, TargetsOK, SnapshotManifest
    <2> DEFINE e == [store[to] EXCEPT !.manifest = "whole"]
               f == [store[to] EXCEPT !.disk = Nothing]
    <2>2. Filled(e) /\ Filled(f) /\ Filled(NoEntry)
        BY <2>1, FilledEntries
    <2>3. /\ \/ store' = [store EXCEPT ![to] = e] \/ store' = [store EXCEPT ![to] = f]
             \/ store' = store \/ store' = [store EXCEPT ![to] = NoEntry]
          /\ cmd' = "none"
        BY <1>4 DEF SnapshotManifest, Discard, Put
    <2> HIDE DEF e, f
    <2> QED
        BY <1>1, <2>1, <2>2, <2>3
<1>5. CASE FileAside
    <2>1. to \in Slot /\ store \in [Slot -> Entry] /\ aside \in Content
        BY <1>5 DEF TypeInv, DataOK, TargetsOK, FileAside
    <2> DEFINE e(d) == [NoEntry EXCEPT !.dir = "made", !.guid = reg, !.disk = d]
    <2>2. /\ Filled(e(aside)) /\ Filled(e(Part)) /\ Filled(e(Nothing))
          /\ e(Part).dir = "made"
        BY <2>1, FilledEntries, Sorts
    <2>3. \/ store' = [store EXCEPT ![to] = e(aside)] /\ cmd' = "restore" /\ pc' = "manifest"
          \/ store' = [store EXCEPT ![to] = e(Part)] /\ to' = to
          \/ (store' = store \/ store' = [store EXCEPT ![to] = e(Nothing)]) /\ cmd' = "none"
        BY <1>5 DEF FileAside
    <2> HIDE DEF e
    <2> QED
        BY <1>1, <2>1, <2>2, <2>3
<1>6. CASE FileCopied
    <2>1. to \in Slot /\ aside \in Content /\ store[to].dir = "made"
        BY <1>6 DEF TypeInv, DataOK, TargetsOK, FileCopied, Vacant
    <2> DEFINE e == [store[to] EXCEPT !.disk = aside]
               f == [store[to] EXCEPT !.disk = Nothing]
    <2>2. Filled(e) /\ Filled(f)
        BY <2>1, FilledEntries
    <2>3. \/ store' = [store EXCEPT ![to] = e] /\ cmd' = "restore" /\ pc' = "remove"
          \/ (store' = store \/ store' = [store EXCEPT ![to] = f]) /\ cmd' = "none"
        BY <1>6 DEF FileCopied, Put
    <2> HIDE DEF e, f
    <2> QED
        BY <1>1, <2>1, <2>2, <2>3
<1>7. CASE FileManifest
    <2>1. to \in Slot
        BY <1>7 DEF TypeInv, TargetsOK, FileManifest
    <2> DEFINE e == [store[to] EXCEPT !.manifest = "whole"]
               f == [store[to] EXCEPT !.manifest = "cut"]
    <2>2. Filled(e) /\ Filled(f)
        BY <2>1, FilledEntries
    <2>3. /\ \/ store' = [store EXCEPT ![to] = e] \/ store' = [store EXCEPT ![to] = f]
             \/ store' = store
          /\ cmd' = "none"
        BY <1>7 DEF FileManifest
    <2> HIDE DEF e, f
    <2> QED
        BY <1>1, <2>1, <2>2, <2>3
<1>8. ASSUME NEW s \in Slot, RemoveSnapshot(s)
      PROVE  Vacant'
    <2>1. PICK gone \in {NoEntry, store[s], [store[s] EXCEPT !.disk = Nothing],
                         [store[s] EXCEPT !.manifest = "none"],
                         [NoEntry EXCEPT !.dir = "made", !.guid = reg]} :
              store' = [store EXCEPT ![s] = gone]
        BY <1>8 DEF RemoveSnapshot
    <2>2. Filled(gone)
        BY FilledEntries
    <2>3. cmd' = "none"
        BY <1>8 DEF RemoveSnapshot
    <2> QED
        BY <1>1, <2>1, <2>2, <2>3
<1> USE DEF Vacant
<1>9. CASE Use \/ Write \/ Exits \/ Release \/ Tidy \/ Unwind \/ Crash \/ UNCHANGED vars
    BY <1>9 DEF Use, Write, Exits, Release, Tidy, Unwind, Crash
<1>10. CASE \E t \in Slot, o \in SUBSET Option : SnapshotBegin(t, o)
    BY <1>10 DEF SnapshotBegin
<1>11. CASE \E s, t \in Slot, o \in SUBSET Option : RestoreBegin(s, t, o)
    BY <1>11 DEF RestoreBegin
<1>12. CASE SnapshotStop \/ SnapshotWait \/ RestoreStop \/ RestoreWait
    BY <1>12 DEF SnapshotStop, SnapshotWait, RestoreStop, RestoreWait, Stop, Wait
<1>13. CASE MoveAside \/ RestoreCopy \/ RestoreCopied \/ FileRemove
    BY <1>13 DEF MoveAside, RestoreCopy, RestoreCopied, FileRemove
<1>14. CASE RestoreStart \/ RestoreRelease \/ RestoreUnwound
    BY <1>14 DEF RestoreStart, RestoreRelease, RestoreUnwound
<1>15. CASE RebuildStep
    <2>1. store' = store /\ cmd' \notin {"snapshot", "restore"}
        BY <1>15 DEF RebuildStep, RebuildBegin, RebuildStop, Export, Exported,
           Unregister, Import, RestoreSettings, RebuildStart, DeleteArchive,
           CompactBegin, Trim, CompactStop, CompactDisk, CompactRestart
    <2> QED
        BY <2>1
<1> QED
    BY <1>2, <1>3, <1>4, <1>5, <1>6, <1>7, <1>8, <1>9, <1>10, <1>11, <1>12, <1>13,
       <1>14, <1>15 DEF Next, WorldStep, SnapshotStep
\* Every step keeps BeforeInv.
LEMMA StepBefore ==
    TypeInv /\ RunningHolds /\ BeforeInv /\ [Next]_vars => BeforeInv'
<1> SUFFICES ASSUME TypeInv, RunningHolds, BeforeInv, [Next]_vars
             PROVE  BeforeInv'
    OBVIOUS
<1> USE UndoShapes DEF BeforeInv, Finish, FinishWith, Goto, GiveUp, Begin, vars, diskVars,
        fileVars, vmVars, stepVars, asks, histVars
<1>1. CASE Use \/ Exits \/ Release \/ Tidy \/ Crash \/ UNCHANGED vars
    BY ZenonT(30), <1>1 DEF Use, Exits, Release, Tidy, Crash, RestoreInv
<1>2. CASE Write
    <2>1. /\ cmd' = cmd /\ pc' = pc /\ undo' = undo /\ aside' = aside
          /\ store' = store /\ to' = to /\ archive' = archive
          /\ cmd # "rebuild" /\ live' = version'
          /\ before' = IF before = live /\ undo = <<>> THEN live' ELSE before
        BY <1>2 DEF Write
    <2>2. /\ live # Nothing
          /\ ~(cmd = "restore" /\ pc \in {"copy", "copying"})
        BY <1>2, Sorts DEF Write, RunningHolds, RestoreInv
    <2>3. cmd = "restore" => RestoreInv'
        BY <2>1, <2>2 DEF RestoreInv
    <2> QED
        BY <2>1, <2>3
<1>3. CASE Unwind
    <2>1. /\ cmd = "restore" /\ pc = "unwind" /\ cmd' = cmd /\ pc' = pc
          /\ before' = before /\ undo # <<>>
        BY <1>3 DEF Unwind
    <2>2. before = aside /\ undo \in Shapes
        BY <2>1 DEF RestoreInv
    <2>3. undo' \in {<<>>, PutBack}
        BY <1>3, Unwinds
    <2>4. aside' = aside \/ (undo' = <<>> /\ live' = aside)
        BY <1>3, Unwinds
    <2> QED
        BY <2>1, <2>2, <2>3, <2>4 DEF RestoreInv, Shapes
<1>4. CASE SnapshotStep
    <2>1. CASE \E t \in Slot, o \in SUBSET Option : SnapshotBegin(t, o)
        BY <2>1 DEF SnapshotBegin
    <2>2. CASE \E s, t \in Slot, o \in SUBSET Option : RestoreBegin(s, t, o)
        BY <2>2 DEF RestoreBegin, RestoreInv, Shapes
    <2>3. CASE \E s \in Slot : RemoveSnapshot(s)
        BY <2>3 DEF RemoveSnapshot
    <2>4. CASE SnapshotStop \/ SnapshotWait
        BY <2>4 DEF SnapshotStop, SnapshotWait, Stop, Wait
    <2>5. CASE RestoreStop \/ RestoreWait
        BY <2>5 DEF RestoreStop, RestoreWait, Stop, Wait, RestoreInv
    <2>6. CASE SnapshotMkdir \/ SnapshotCopied \/ SnapshotManifest
        BY <2>6 DEF SnapshotMkdir, SnapshotCopied, SnapshotManifest, Discard
    <2>7. CASE MoveAside
        BY <2>7 DEF MoveAside, RestoreInv, Shapes, PutBack
    <2>8. CASE RestoreCopy
        BY <2>8 DEF RestoreCopy, RestoreInv
    <2>9. CASE RestoreCopied
        BY <2>9 DEF RestoreCopied, RestoreInv, Shapes
    <2>10. CASE RestoreStart
        BY <2>10 DEF RestoreStart, RestoreInv
    <2>11. CASE RestoreRelease \/ RestoreUnwound
        BY <2>11 DEF RestoreRelease, RestoreUnwound, RestoreInv
    <2>12. CASE FileAside
        <3>1. to \in Slot /\ store \in [Slot -> Entry]
            BY <2>12 DEF FileAside, TypeInv, DataOK, TargetsOK
        <3>2. store' = [store EXCEPT ![to] = [NoEntry EXCEPT !.dir = "made",
                                                  !.guid = reg, !.disk = aside]]
                  => store'[to].disk = aside
            BY <3>1 DEF NoEntry
        <3>3. cmd = "restore" /\ before = aside /\ undo \in Shapes /\ undo # <<>>
            BY <2>12 DEF FileAside, RestoreInv
        <3>4. \/ /\ store' = [store EXCEPT ![to] = [NoEntry EXCEPT !.dir = "made",
                                                  !.guid = reg, !.disk = aside]]
                 /\ pc' = "manifest" /\ to' = to /\ before' = before
                 /\ cmd' = cmd /\ undo' = undo
              \/ /\ pc' = "filing" /\ aside' = aside /\ before' = before
                 /\ cmd' = cmd /\ undo' = undo
              \/ cmd' = "none" /\ undo' = <<>>
            BY <2>12 DEF FileAside
        <3> QED
            BY <3>2, <3>3, <3>4 DEF RestoreInv
    <2>13. CASE FileCopied
        <3>1. to \in Slot /\ store \in [Slot -> Entry]
            BY <2>13 DEF FileCopied, TypeInv, DataOK, TargetsOK
        <3>2. store[to] \in Entry
            BY <3>1
        <3>3. store' = Put(to, aside) => store'[to].disk = aside
            BY <3>1, <3>2 DEF Put, Entry
        <3> QED
            BY <2>13, <3>3 DEF FileCopied, RestoreInv
    <2>14. CASE FileRemove \/ FileManifest
        BY <2>14 DEF FileRemove, FileManifest, RestoreInv
    <2> QED
        BY <1>4, <2>1, <2>2, <2>3, <2>4, <2>5, <2>6, <2>7, <2>8, <2>9, <2>10, <2>11,
           <2>12, <2>13, <2>14 DEF SnapshotStep
<1>5. CASE RebuildStep
    <2>1. CASE \E o \in SUBSET Option : RebuildBegin(o)
        BY <2>1 DEF RebuildBegin
    <2>2. CASE \E o \in SUBSET Option, p \in {"trim", "release"} : CompactBegin(o, p)
        BY <2>2 DEF CompactBegin
    <2>3. CASE RebuildStop \/ Export \/ Exported
        BY <2>3 DEF RebuildStop, Export, Exported
    <2>4. CASE Unregister \/ Import
        BY <2>4 DEF Unregister, Import
    <2>5. CASE RestoreSettings \/ RebuildStart \/ DeleteArchive
        BY <2>5 DEF RestoreSettings, RebuildStart, DeleteArchive
    <2>6. CASE Trim \/ CompactStop \/ CompactDisk \/ CompactRestart
        BY <2>6 DEF Trim, CompactStop, CompactDisk, CompactRestart
    <2> QED
        BY <1>5, <2>1, <2>2, <2>3, <2>4, <2>5, <2>6 DEF RebuildStep
<1> QED
    BY <1>1, <1>2, <1>3, <1>4, <1>5 DEF Next, WorldStep
\* A step of a command changes no place but those that it is about.
Undisturbed ==
    /\ aside' = aside \/ cmd = "restore"
    /\ archive' = archive \/ cmd = "rebuild"
    /\ \A s \in Slot : \/ store'[s] = store[s]
                       \/ cmd \in {"snapshot", "restore"} /\ s = to

\* No step of a command does otherwise.
LEMMA CommandUndisturbed ==
    ASSUME TypeInv, BeforeInv, [Next]_vars, cmd # "none"
    PROVE  Undisturbed
<1> USE DEF Undisturbed, Finish, FinishWith, Goto, GiveUp, Begin, vars, diskVars,
        fileVars, histVars
<1>1. CASE Use \/ Write \/ Exits \/ Release \/ Tidy \/ Crash \/ UNCHANGED vars
    BY <1>1 DEF Use, Write, Exits, Release, Tidy, Crash
<1>2. CASE Unwind
    <2>1. cmd = "restore" /\ store' = store /\ archive' = archive
        BY <1>2, Unwinds DEF Unwind
    <2> QED
        BY <2>1
<1>3. CASE SnapshotStep
    <2>1. store \in [Slot -> Entry]
        BY DEF TypeInv, DataOK
    <2>2. CASE \/ \E t \in Slot, o \in SUBSET Option : SnapshotBegin(t, o)
               \/ \E s, t \in Slot, o \in SUBSET Option : RestoreBegin(s, t, o)
               \/ \E s \in Slot : RemoveSnapshot(s)
        BY <2>2 DEF SnapshotBegin, RestoreBegin, RemoveSnapshot
    <2>3. CASE SnapshotStop \/ SnapshotWait \/ RestoreStop \/ RestoreWait
        BY <2>3 DEF SnapshotStop, SnapshotWait, RestoreStop, RestoreWait, Stop, Wait
    <2>4. CASE MoveAside \/ RestoreCopy \/ RestoreCopied \/ FileRemove
        BY <2>4 DEF MoveAside, RestoreCopy, RestoreCopied, FileRemove
    <2>5. CASE RestoreStart \/ RestoreRelease \/ RestoreUnwound
        BY <2>5 DEF RestoreStart, RestoreRelease, RestoreUnwound
    <2>6. CASE SnapshotMkdir
        BY <2>1, <2>6 DEF SnapshotMkdir
    <2>7. CASE SnapshotCopied \/ SnapshotManifest
        BY <2>1, <2>7 DEF SnapshotCopied, SnapshotManifest, Discard, Put
    <2>8. CASE FileAside
        BY <2>1, <2>8 DEF FileAside
    <2>9. CASE FileCopied \/ FileManifest
        BY <2>1, <2>9 DEF FileCopied, FileManifest, Put
    <2> QED
        BY <1>3, <2>2, <2>3, <2>4, <2>5, <2>6, <2>7, <2>8, <2>9 DEF SnapshotStep
<1>4. CASE RebuildStep
    BY <1>4 DEF RebuildStep, RebuildBegin, RebuildStop, Export, Exported, Unregister,
       Import, RestoreSettings, RebuildStart, DeleteArchive, CompactBegin, Trim,
       CompactStop, CompactDisk, CompactRestart
<1> QED
    BY <1>1, <1>2, <1>3, <1>4 DEF Next, WorldStep

\* A disk is displaced for good where its command ends, and is somewhere then.
PutSomewhere(v) == v = aside' \/ v = archive' \/ \E s \in Slot : store'[s].disk = v

Displaces ==
    \/ cmd' = cmd /\ to' = to /\ kept' = kept
    \/ /\ cmd' = "none"
       /\ kept' = kept \/ (kept' \subseteq kept \cup {before} /\ PutSomewhere(before))

\* No step of a command does otherwise.
LEMMA CommandDisplaces ==
    ASSUME TypeInv, BeforeInv, [Next]_vars, cmd # "none"
    PROVE  Displaces
<1> USE DEF Displaces, Finish, FinishWith, Goto, GiveUp, Begin, vars, diskVars,
        fileVars, histVars, stepVars, asks
<1>1. CASE Use \/ Write \/ Exits \/ Release \/ Tidy \/ Unwind \/ UNCHANGED vars
    BY <1>1 DEF Use, Write, Exits, Release, Tidy, Unwind
<1>2. CASE Crash
    <2>1. /\ cmd' = "none" /\ aside' = aside /\ archive' = archive /\ store' = store
          /\ kept' = IF live = before THEN kept ELSE kept \cup (Version \cap {before})
        BY <1>2 DEF Crash
    <2>2. \/ live = before \/ aside = before \/ archive = before
          \/ to \in Slot /\ store[to].disk = before
        BY DEF TypeInv, DataOK, TargetsOK, BeforeInv, RestoreInv
    <2> QED
        BY <2>1, <2>2 DEF PutSomewhere
<1>3. CASE SnapshotStep /\ cmd = "snapshot"
    <2>1. live = before
        BY <1>3 DEF BeforeInv
    <2> QED
        BY <1>3, <2>1 DEF SnapshotStep, SnapshotBegin, SnapshotStop, SnapshotWait, Stop,
           Wait, SnapshotMkdir, SnapshotCopied, SnapshotManifest, Discard,
           RemoveSnapshot, RestoreBegin, RestoreStop, RestoreWait, MoveAside,
           RestoreCopy, RestoreCopied, RestoreStart, RestoreRelease, RestoreUnwound,
           FileAside, FileCopied, FileRemove, FileManifest
<1>4. CASE SnapshotStep /\ cmd = "restore"
    <2> USE DEF BeforeInv, RestoreInv, PutSomewhere
    <2>1. CASE \/ \E t \in Slot, o \in SUBSET Option : SnapshotBegin(t, o)
               \/ \E s, t \in Slot, o \in SUBSET Option : RestoreBegin(s, t, o)
               \/ \E s \in Slot : RemoveSnapshot(s)
        BY <1>4, <2>1 DEF SnapshotBegin, RestoreBegin, RemoveSnapshot
    <2>2. CASE \/ SnapshotStop \/ SnapshotWait \/ SnapshotMkdir \/ SnapshotCopied
               \/ SnapshotManifest
        BY <1>4, <2>2 DEF SnapshotStop, SnapshotWait, SnapshotMkdir, SnapshotCopied,
           SnapshotManifest
    <2>3. CASE RestoreStop \/ RestoreWait
        BY <1>4, <2>3 DEF RestoreStop, RestoreWait, Stop, Wait
    <2>4. CASE MoveAside \/ RestoreCopy \/ RestoreCopied
        BY <1>4, <2>4 DEF MoveAside, RestoreCopy, RestoreCopied
    <2>5. CASE RestoreStart \/ RestoreRelease \/ RestoreUnwound
        BY <1>4, <2>5 DEF RestoreStart, RestoreRelease, RestoreUnwound
    <2>6. CASE FileAside \/ FileCopied \/ FileRemove
        BY <1>4, <2>6 DEF FileAside, FileCopied, FileRemove
    <2>7. CASE FileManifest
        <3>1. /\ to \in Slot /\ store \in [Slot -> Entry] /\ store[to] \in Entry
              /\ store[to].disk = before
            BY <2>7 DEF FileManifest, TypeInv, DataOK, TargetsOK
        <3>2. store'[to].disk = before
            <4>1. /\ [store[to] EXCEPT !.manifest = "whole"].disk = before
                  /\ [store[to] EXCEPT !.manifest = "cut"].disk = before
                BY <3>1, EntryFields
            <4>2. \/ store' = [store EXCEPT ![to] = [store[to] EXCEPT !.manifest = "whole"]]
                  \/ store' = [store EXCEPT ![to] = [store[to] EXCEPT !.manifest = "cut"]]
                  \/ store' = store
                BY <2>7 DEF FileManifest
            <4> QED
                BY <3>1, <4>1, <4>2
        <3>3. cmd' = "none" /\ kept' \subseteq kept \cup {before}
            BY <2>7 DEF FileManifest
        <3> QED
            BY <3>1, <3>2, <3>3
    <2> QED
        BY <1>4, <2>1, <2>2, <2>3, <2>4, <2>5, <2>6, <2>7 DEF SnapshotStep
<1>5. CASE SnapshotStep /\ cmd \notin {"snapshot", "restore"}
    BY <1>5 DEF SnapshotStep, SnapshotBegin, SnapshotStop, SnapshotWait, SnapshotMkdir,
       SnapshotCopied, SnapshotManifest, RemoveSnapshot, RestoreBegin, RestoreStop,
       RestoreWait, MoveAside, RestoreCopy, RestoreCopied, RestoreStart,
       RestoreRelease, RestoreUnwound, FileAside, FileCopied, FileRemove, FileManifest
<1>6. CASE RebuildStep
    <2> USE DEF BeforeInv, PutSomewhere
    <2>1. CASE \/ \E o \in SUBSET Option : RebuildBegin(o)
               \/ \E o \in SUBSET Option, p \in {"trim", "release"} : CompactBegin(o, p)
        BY <2>1 DEF RebuildBegin, CompactBegin
    <2>2. CASE RebuildStop \/ Export \/ Exported
        BY <2>2 DEF RebuildStop, Export, Exported
    <2>3. CASE Unregister \/ Import
        BY <2>3 DEF Unregister, Import
    <2>4. CASE RestoreSettings \/ RebuildStart \/ DeleteArchive
        BY <2>4 DEF RestoreSettings, RebuildStart, DeleteArchive
    <2>5. CASE Trim \/ CompactStop \/ CompactDisk \/ CompactRestart
        BY <2>5 DEF Trim, CompactStop, CompactDisk, CompactRestart
    <2> QED
        BY <1>6, <2>1, <2>2, <2>3, <2>4, <2>5 DEF RebuildStep
<1> QED
    BY <1>1, <1>2, <1>3, <1>4, <1>5, <1>6 DEF Next, WorldStep

\* Every step keeps KeptInv.
LEMMA StepKept ==
    TypeInv /\ Vacant /\ BeforeInv /\ KeptInv /\ [Next]_vars => KeptInv'
<1> SUFFICES ASSUME TypeInv, Vacant, BeforeInv, KeptInv, [Next]_vars
             PROVE  KeptInv'
    OBVIOUS
<1>1. CASE cmd # "none"
    <2>1. Undisturbed /\ Displaces
        BY <1>1, CommandUndisturbed, CommandDisplaces
    <2>2. CASE cmd' = cmd /\ to' = to /\ kept' = kept
        BY <2>1, <2>2 DEF KeptInv, Elsewhere, Undisturbed
    <2>3. CASE /\ cmd' = "none"
               /\ \/ kept' = kept
                  \/ kept' \subseteq kept \cup {before} /\ PutSomewhere(before)
        BY <2>1, <2>3 DEF KeptInv, Elsewhere, Undisturbed, PutSomewhere
    <2> QED
        BY <2>1, <2>2, <2>3 DEF Displaces
<1>2. CASE cmd = "none"
    <2> USE <1>2 DEF KeptInv, Elsewhere, Finish, FinishWith, Goto, GiveUp, Begin, vars,
            diskVars, fileVars, histVars
    <2>1. CASE Use \/ Write \/ Exits \/ Release \/ Crash \/ UNCHANGED vars
        BY <2>1 DEF Use, Write, Exits, Release, Crash
    <2>2. CASE Unwind
        BY <2>2, Unwinds
    <2>3. CASE Tidy
        BY <2>3 DEF Tidy
    <2>4. ASSUME NEW s \in Slot, RemoveSnapshot(s)
          PROVE  KeptInv'
        <3>1. /\ kept' = kept \ {store[s].disk} /\ cmd' = "none"
              /\ aside' = aside /\ archive' = archive
              /\ \A r \in Slot : r # s => store'[r] = store[r]
            BY <2>4 DEF RemoveSnapshot, TypeInv, DataOK
        <3> QED
            BY <3>1
    <2>5. ASSUME NEW t \in Slot, NEW o \in SUBSET Option, SnapshotBegin(t, o)
          PROVE  KeptInv'
        <3>1. /\ kept' = kept /\ cmd' = "snapshot" /\ to' = t /\ aside' = aside
              /\ archive' = archive /\ store' = store /\ store[t].disk = Nothing
            BY <2>5 DEF SnapshotBegin, NewSlot, Vacant
        <3>2. Nothing \notin kept
            BY Sorts DEF TypeInv, DataOK
        <3> QED
            BY <3>1, <3>2
    <2>6. ASSUME NEW s \in Slot, NEW t \in Slot, NEW o \in SUBSET Option,
                 RestoreBegin(s, t, o)
          PROVE  KeptInv'
        <3>1. /\ kept' = kept /\ cmd' = "restore" /\ to' = t /\ aside = Nothing
              /\ archive' = archive /\ store' = store /\ store[t].disk = Nothing
            BY <2>6 DEF RestoreBegin, NewSlot, Vacant
        <3>2. Nothing \notin kept
            BY Sorts DEF TypeInv, DataOK
        <3> QED
            BY <3>1, <3>2
    <2>7. CASE SnapshotStop \/ SnapshotWait \/ SnapshotMkdir \/ SnapshotCopied
               \/ SnapshotManifest \/ RestoreStop \/ RestoreWait \/ MoveAside
               \/ RestoreCopy \/ RestoreCopied \/ RestoreStart \/ RestoreRelease
               \/ RestoreUnwound \/ FileAside \/ FileCopied \/ FileRemove \/ FileManifest
        BY <2>7 DEF SnapshotStop, SnapshotWait, SnapshotMkdir, SnapshotCopied,
           SnapshotManifest, RestoreStop, RestoreWait, MoveAside, RestoreCopy,
           RestoreCopied, RestoreStart, RestoreRelease, RestoreUnwound, FileAside,
           FileCopied, FileRemove, FileManifest
    <2>8. ASSUME NEW o \in SUBSET Option, RebuildBegin(o)
          PROVE  KeptInv'
        <3>1. /\ kept' = kept /\ cmd' = "rebuild" /\ archive = Nothing /\ aside' = aside
              /\ store' = store
            BY <2>8 DEF RebuildBegin
        <3>2. Nothing \notin kept
            BY Sorts DEF TypeInv, DataOK
        <3> QED
            BY <3>1, <3>2
    <2>9. CASE \E o \in SUBSET Option, p \in {"trim", "release"} : CompactBegin(o, p)
        BY <2>9 DEF CompactBegin
    <2>10. CASE RebuildStop \/ Export \/ Exported \/ Unregister \/ Import
                \/ RestoreSettings \/ RebuildStart \/ DeleteArchive \/ Trim
                \/ CompactStop \/ CompactDisk \/ CompactRestart
        BY <2>10 DEF RebuildStop, Export, Exported, Unregister, Import,
           RestoreSettings, RebuildStart, DeleteArchive, Trim, CompactStop,
           CompactDisk, CompactRestart
    <2> QED
        BY <2>1, <2>2, <2>3, <2>4, <2>5, <2>6, <2>7, <2>8, <2>9, <2>10
           DEF Next, WorldStep, SnapshotStep, RebuildStep
<1> QED
    BY <1>1, <1>2

\* What a restore or a rebuild displaces is somewhere until the user takes it away,
\* whatever fails and whenever wslkit dies.
THEOREM NothingLost == Spec => []NothingThrownAway
<1> DEFINE Inv == TypeInv /\ RunningHolds /\ Vacant /\ BeforeInv /\ KeptInv
<1>1. Init => Inv
    <2> SUFFICES ASSUME Init
                 PROVE  Inv
        OBVIOUS
    <2>1. RunningHolds
        BY CopyAssumption DEF Init, RunningHolds, Running
    <2>2. Vacant
        BY DEF Init, Vacant, NoEntry
    <2>3. BeforeInv /\ KeptInv
        BY DEF Init, BeforeInv, KeptInv
    <2> QED
        BY <2>1, <2>2, <2>3, InitType
<1>2. Inv /\ [Next]_vars => Inv'
    BY StepType, StepHolds, StepVacant, StepBefore, StepKept
<1>3. Inv => NothingThrownAway
    <2> SUFFICES ASSUME Inv
                 PROVE  NothingThrownAway
        OBVIOUS
    <2>1. kept \subseteq Places
        BY DEF KeptInv, Elsewhere, Places
    <2>2. cmd \in {"restore", "rebuild"} => before \in Places
        BY DEF BeforeInv, RestoreInv, Places, TypeInv, TargetsOK
    <2> QED
        BY <2>1, <2>2 DEF NothingThrownAway
<1> QED
    BY <1>1, <1>2, <1>3, PTL DEF Spec
-----------------------------------------------------------------------------
(* How the commands end. *)

\* The slot that a command fills cannot be restored until the command is done;
\* a folder that is not there has no manifest in it.
Unfinished ==
    /\ \A s \in Slot : store[s].dir = "none" => store[s].manifest = "none"
    /\ cmd \in {"snapshot", "restore"} => store[to].manifest # "whole"

\* What a restore has still to undo is what it did: without a step that puts the
\* disk back, there was none; and a rollback that is over has put it back.
UndoneInv ==
    cmd = "restore" =>
        /\ undo \in {<<>>, Remove}
           /\ pc \in {"copy", "copying", "start", "file", "filing", "release"}
           => aside = Nothing
        /\ pc = "unwind" /\ undo = Remove => aside = Nothing
        /\ pc = "unwind" /\ undo = <<>> /\ rollback = "clean" =>
               /\ aside = Nothing
               /\ live = before \/ (before = Nothing /\ live = Part)

\* What is filed goes under the registration, and the settings that an import
\* forgets are those that the rebuild read before.
KeepsInv ==
    /\ cmd = "restore" /\ pc \in {"filing", "remove", "manifest"}
       => store[to].dir = "made" /\ store[to].guid = reg
    /\ cmd = "rebuild" /\ pc \in {"start", "delete"} => settings = man

\* Entries that a command writes before it is done.
LEMMA OneUnfinished ==
    ASSUME TypeInv, Unfinished, NEW t \in Slot, NEW e \in Entry,
           e.dir = "none" => e.manifest = "none",
           store' = store \/ store' = [store EXCEPT ![t] = e],
           cmd' = "none" \/ (to' = t /\ e.manifest # "whole" /\ store[t].manifest # "whole")
    PROVE  Unfinished'
<1>1. store \in [Slot -> Entry]
    BY DEF TypeInv, DataOK
<1>2. \A s \in Slot : store'[s] = store[s] \/ (s = t /\ store'[s] = e)
    BY <1>1
<1> QED
    BY <1>2 DEF Unfinished

\* The entries that the commands write, with the fields that matter here.
LEMMA UnfinishedEntries ==
    ASSUME TypeInv, Unfinished, NEW s \in Slot
    PROVE  /\ NoEntry \in Entry /\ NoEntry.manifest = "none"
           /\ \A d \in Content :
                  LET e == [NoEntry EXCEPT !.dir = "made", !.guid = reg, !.disk = d]
                  IN  e \in Entry /\ e.manifest = "none" /\ e.guid = reg
           /\ LET e == [NoEntry EXCEPT !.dir = "made", !.guid = reg]
              IN  e \in Entry /\ e.manifest = "none"
           /\ \A d \in Content :
                  LET e == [store[s] EXCEPT !.disk = d]
                  IN  /\ e \in Entry /\ e.manifest = store[s].manifest
                      /\ e.dir = store[s].dir /\ e.guid = store[s].guid
           /\ \A m \in {"none", "cut", "whole"} :
                  LET e == [store[s] EXCEPT !.manifest = m]
                  IN  /\ e \in Entry /\ e.manifest = m /\ e.dir = store[s].dir
                      /\ e.disk = store[s].disk /\ e.guid = store[s].guid
<1>1. store[s] \in Entry /\ NoEntry \in Entry /\ NoEntry.manifest = "none"
    BY EntryType DEF TypeInv, NoEntry
<1>2. ASSUME NEW d \in Content
      PROVE  LET e == [NoEntry EXCEPT !.dir = "made", !.guid = reg, !.disk = d]
             IN  e \in Entry /\ e.manifest = "none" /\ e.guid = reg
    BY EntryType DEF TypeInv, NoEntry
<1>3. LET e == [NoEntry EXCEPT !.dir = "made", !.guid = reg]
      IN  e \in Entry /\ e.manifest = "none"
    BY EntryType DEF TypeInv, NoEntry
<1>4. ASSUME NEW d \in Content
      PROVE  LET e == [store[s] EXCEPT !.disk = d]
             IN  /\ e \in Entry /\ e.manifest = store[s].manifest
                 /\ e.dir = store[s].dir /\ e.guid = store[s].guid
    <2>1. [store[s] EXCEPT !.disk = d] \in Entry
        BY EntryType DEF TypeInv
    <2> QED
        BY <1>1, <2>1 DEF Entry
<1>5. ASSUME NEW m \in {"none", "cut", "whole"}
      PROVE  LET e == [store[s] EXCEPT !.manifest = m]
             IN  /\ e \in Entry /\ e.manifest = m /\ e.dir = store[s].dir
                 /\ e.disk = store[s].disk /\ e.guid = store[s].guid
    <2>1. [store[s] EXCEPT !.manifest = m] \in Entry
        BY EntryType DEF TypeInv
    <2> QED
        BY <1>1, <2>1 DEF Entry
<1> QED
    BY <1>1, <1>2, <1>3, <1>4, <1>5

\* Every step keeps Unfinished: the manifest is what finishes a snapshot.
LEMMA StepUnfinished ==
    TypeInv /\ Vacant /\ KeepsInv /\ Unfinished /\ [Next]_vars => Unfinished'
<1> SUFFICES ASSUME TypeInv, Vacant, KeepsInv, Unfinished, [Next]_vars
             PROVE  Unfinished'
    OBVIOUS
<1> USE DEF Finish, FinishWith, Goto, GiveUp, Begin, vars, diskVars, fileVars, vmVars,
        stepVars, asks, histVars
<1>0. /\ cmd \in {"snapshot", "restore"} => to \in Slot
      /\ live \in Content /\ aside \in Content /\ Part \in Content /\ Nothing \in Content
    BY Sorts DEF TypeInv, DataOK, TargetsOK
<1>1. CASE SnapshotMkdir
    <2>1. cmd = "snapshot" /\ to \in Slot /\ store[to].manifest # "whole"
        BY <1>0, <1>1 DEF SnapshotMkdir, Unfinished
    <2> DEFINE e == [NoEntry EXCEPT !.dir = "made", !.guid = reg, !.disk = Part]
               f == [NoEntry EXCEPT !.dir = "made", !.guid = reg]
    <2>2. e \in Entry /\ f \in Entry /\ e.manifest = "none" /\ f.manifest = "none"
        BY <1>0, <2>1, UnfinishedEntries
    <2>3. \/ store' = [store EXCEPT ![to] = e] /\ to' = to
          \/ (store' = store \/ store' = [store EXCEPT ![to] = f]) /\ cmd' = "none"
        BY <1>1 DEF SnapshotMkdir
    <2> HIDE DEF e, f
    <2>4. CASE store' = [store EXCEPT ![to] = e] /\ to' = to
        BY <2>1, <2>2, <2>4, OneUnfinished
    <2>5. CASE (store' = store \/ store' = [store EXCEPT ![to] = f]) /\ cmd' = "none"
        BY <2>1, <2>2, <2>5, OneUnfinished
    <2> QED
        BY <2>3, <2>4, <2>5
<1>2. CASE SnapshotCopied \/ SnapshotManifest
    <2>1. cmd = "snapshot" /\ to \in Slot /\ store[to].manifest # "whole"
        BY <1>0, <1>2 DEF SnapshotCopied, SnapshotManifest, Unfinished
    <2> DEFINE e == [store[to] EXCEPT !.disk = live]
               f == [store[to] EXCEPT !.disk = Nothing]
               g == [store[to] EXCEPT !.manifest = "whole"]
    <2>2. /\ e \in Entry /\ f \in Entry /\ g \in Entry /\ NoEntry \in Entry
          /\ e.manifest = store[to].manifest /\ f.manifest = store[to].manifest
          /\ NoEntry.manifest = "none"
          /\ e.dir = store[to].dir /\ f.dir = store[to].dir /\ g.dir = store[to].dir
        BY <1>0, <2>1, UnfinishedEntries
    <2>3. \/ store' = [store EXCEPT ![to] = e] /\ to' = to
          \/ /\ \/ store' = [store EXCEPT ![to] = f] \/ store' = store
                \/ store' = [store EXCEPT ![to] = NoEntry]
             /\ cmd' = "none"
          \/ store' = [store EXCEPT ![to] = g] /\ cmd' = "none"
        BY <1>2 DEF SnapshotCopied, SnapshotManifest, Discard, Put
    <2>4. store[to].dir = "none" => store[to].manifest = "none"
        BY <2>1 DEF Unfinished
    <2>5. pc \in {"copying", "manifest"} /\ store[to].dir = "made"
        BY <1>2, <2>1 DEF SnapshotCopied, SnapshotManifest, Vacant
    <2> HIDE DEF e, f, g
    <2>6. CASE store' = [store EXCEPT ![to] = e] /\ to' = to
        BY <2>1, <2>2, <2>4, <2>6, OneUnfinished
    <2>7. CASE /\ \/ store' = [store EXCEPT ![to] = f] \/ store' = store
                  \/ store' = [store EXCEPT ![to] = NoEntry]
               /\ cmd' = "none"
        BY <2>1, <2>2, <2>4, <2>7, OneUnfinished
    <2>8. CASE store' = [store EXCEPT ![to] = g] /\ cmd' = "none"
        BY <2>1, <2>2, <2>5, <2>8, OneUnfinished
    <2> QED
        BY <2>3, <2>6, <2>7, <2>8
<1>3. CASE FileAside
    <2>1. cmd = "restore" /\ to \in Slot /\ store[to].manifest # "whole"
        BY <1>0, <1>3 DEF FileAside, Unfinished
    <2> DEFINE e(d) == [NoEntry EXCEPT !.dir = "made", !.guid = reg, !.disk = d]
    <2>2. \A d \in Content : e(d) \in Entry /\ e(d).manifest = "none"
        BY <2>1, UnfinishedEntries
    <2>3. \E d \in Content :
              /\ store' = store \/ store' = [store EXCEPT ![to] = e(d)]
              /\ cmd' = "none" \/ to' = to
        BY <1>0, <1>3 DEF FileAside
    <2> HIDE DEF e
    <2> QED
        BY <2>1, <2>2, <2>3, OneUnfinished
<1>4. CASE FileCopied
    <2>1. cmd = "restore" /\ to \in Slot /\ store[to].manifest # "whole"
        BY <1>0, <1>4 DEF FileCopied, Unfinished
    <2> DEFINE e(d) == [store[to] EXCEPT !.disk = d]
    <2>2. \A d \in Content : /\ e(d) \in Entry /\ e(d).manifest = store[to].manifest
                             /\ e(d).dir = store[to].dir
        BY <2>1, UnfinishedEntries
    <2>3. \E d \in Content :
              /\ store' = store \/ store' = [store EXCEPT ![to] = e(d)]
              /\ cmd' = "none" \/ to' = to
        BY <1>0, <1>4 DEF FileCopied, Put
    <2>4. store[to].dir = "none" => store[to].manifest = "none"
        BY <2>1 DEF Unfinished
    <2> HIDE DEF e
    <2> QED
        BY <2>1, <2>2, <2>3, <2>4, OneUnfinished
<1>5. CASE FileManifest
    <2>1. /\ cmd = "restore" /\ to \in Slot /\ cmd' = "none" /\ taken' = taken
          /\ store \in [Slot -> Entry]
        BY <1>0, <1>5 DEF FileManifest, TypeInv, DataOK
    <2> DEFINE e(m) == [store[to] EXCEPT !.manifest = m]
    <2>2. \A m \in {"cut", "whole"} : e(m) \in Entry /\ e(m).dir = store[to].dir
        BY <2>1, UnfinishedEntries
    <2>3. PICK m \in {"cut", "whole"} :
              store' = store \/ store' = [store EXCEPT ![to] = e(m)]
        BY <1>5 DEF FileManifest
    <2>4. e(m).dir = "made"
        <3>1. store[to].dir = "made"
            BY <1>5, <2>1 DEF FileManifest, KeepsInv
        <3> QED
            BY <2>2, <3>1
    <2> HIDE DEF e
    <2> QED
        BY <2>1, <2>2, <2>3, <2>4, OneUnfinished
<1>6. ASSUME NEW s \in Slot, RemoveSnapshot(s)
      PROVE  Unfinished'
    <2>1. PICK gone \in {NoEntry, store[s], [store[s] EXCEPT !.disk = Nothing],
                         [store[s] EXCEPT !.manifest = "none"],
                         [NoEntry EXCEPT !.dir = "made", !.guid = reg]} :
              store' = [store EXCEPT ![s] = gone]
        BY <1>6 DEF RemoveSnapshot
    <2>2. cmd' = "none" /\ store[s].dir = "made" /\ store[s] \in Entry
        BY <1>6 DEF RemoveSnapshot, TypeInv, DataOK
    <2>3. gone \in Entry /\ (gone.dir = "none" => gone.manifest = "none")
        <3>1. NoEntry \in Entry /\ NoEntry.manifest = "none"
            BY UnfinishedEntries, <1>6
        <3>2. LET e == [store[s] EXCEPT !.disk = Nothing]
              IN  e \in Entry /\ e.dir = "made"
            BY ZenonT(30), <1>0, <2>2, UnfinishedEntries
        <3>3. LET e == [store[s] EXCEPT !.manifest = "none"]
              IN  e \in Entry /\ e.manifest = "none"
            BY UnfinishedEntries, <1>6
        <3>4. LET e == [NoEntry EXCEPT !.dir = "made", !.guid = reg]
              IN  e \in Entry /\ e.manifest = "none"
            BY UnfinishedEntries, <1>6
        <3> QED
            BY <2>1, <2>2, <3>1, <3>2, <3>3, <3>4
    <2> QED
        BY <2>1, <2>2, <2>3, OneUnfinished
<1> USE DEF Unfinished
<1>7. CASE Use \/ Write \/ Exits \/ Release \/ Tidy \/ Unwind \/ Crash \/ UNCHANGED vars
    BY <1>7 DEF Use, Write, Exits, Release, Tidy, Unwind, Crash
<1>8. CASE \E t \in Slot, o \in SUBSET Option : SnapshotBegin(t, o)
    BY <1>8 DEF SnapshotBegin, NewSlot
<1>9. CASE \E s, t \in Slot, o \in SUBSET Option : RestoreBegin(s, t, o)
    BY <1>9 DEF RestoreBegin, NewSlot
<1>10. CASE SnapshotStop \/ SnapshotWait \/ RestoreStop \/ RestoreWait
    BY <1>10 DEF SnapshotStop, SnapshotWait, RestoreStop, RestoreWait, Stop, Wait
<1>11. CASE MoveAside \/ RestoreCopy \/ RestoreCopied \/ FileRemove
    BY <1>11 DEF MoveAside, RestoreCopy, RestoreCopied, FileRemove
<1>12. CASE RestoreStart \/ RestoreRelease \/ RestoreUnwound
    BY <1>12 DEF RestoreStart, RestoreRelease, RestoreUnwound
<1>13. CASE RebuildStep
    <2>1. store' = store /\ cmd' \notin {"snapshot", "restore"}
        BY <1>13 DEF RebuildStep, RebuildBegin, RebuildStop, Export, Exported,
           Unregister, Import, RestoreSettings, RebuildStart, DeleteArchive,
           CompactBegin, Trim, CompactStop, CompactDisk, CompactRestart
    <2> QED
        BY <2>1
<1> QED
    BY <1>1, <1>2, <1>3, <1>4, <1>5, <1>6, <1>7, <1>8, <1>9, <1>10, <1>11, <1>12,
       <1>13 DEF Next, WorldStep, SnapshotStep

\* Every step keeps KeepsInv.
LEMMA StepKeeps == TypeInv /\ KeepsInv /\ [Next]_vars => KeepsInv'
<1> SUFFICES ASSUME TypeInv, KeepsInv, [Next]_vars
             PROVE  KeepsInv'
    OBVIOUS
<1> USE DEF KeepsInv, Finish, FinishWith, Goto, GiveUp, Begin, vars, diskVars, fileVars,
        regVars, vmVars, stepVars, asks, histVars
<1>1. CASE Use \/ Write \/ Exits \/ Release \/ Tidy \/ Unwind \/ Crash \/ UNCHANGED vars
    BY <1>1 DEF Use, Write, Exits, Release, Tidy, Unwind, Crash
<1>2. CASE SnapshotStep
    <2>1. CASE \/ \E t \in Slot, o \in SUBSET Option : SnapshotBegin(t, o)
               \/ \E s, t \in Slot, o \in SUBSET Option : RestoreBegin(s, t, o)
        BY <2>1 DEF SnapshotBegin, RestoreBegin
    <2>2. CASE \E s \in Slot : RemoveSnapshot(s)
        BY <2>2 DEF RemoveSnapshot
    <2>3. CASE SnapshotStop \/ SnapshotWait \/ RestoreStop \/ RestoreWait
        BY <2>3 DEF SnapshotStop, SnapshotWait, RestoreStop, RestoreWait, Stop, Wait
    <2>4. CASE SnapshotMkdir \/ SnapshotCopied \/ SnapshotManifest
        BY <2>4 DEF SnapshotMkdir, SnapshotCopied, SnapshotManifest, Discard
    <2>5. CASE MoveAside \/ RestoreCopy \/ RestoreCopied
        BY <2>5 DEF MoveAside, RestoreCopy, RestoreCopied
    <2>6. CASE RestoreStart \/ RestoreRelease \/ RestoreUnwound
        BY <2>6 DEF RestoreStart, RestoreRelease, RestoreUnwound
    <2>7. CASE FileAside
        <3>1. to \in Slot /\ store \in [Slot -> Entry]
            BY <2>7 DEF FileAside, TypeInv, DataOK, TargetsOK
        <3> DEFINE e(d) == [NoEntry EXCEPT !.dir = "made", !.guid = reg, !.disk = d]
        <3>2. \A d : e(d).dir = "made" /\ e(d).guid = reg
            BY DEF NoEntry
        <3>3. \/ /\ cmd' = cmd /\ reg' = reg /\ to' = to /\ cmd = "restore"
                 /\ \E d : store' = [store EXCEPT ![to] = e(d)]
              \/ cmd' = "none"
            BY <2>7 DEF FileAside
        <3> HIDE DEF e
        <3> QED
            BY <3>1, <3>2, <3>3
    <2>8. CASE FileCopied
        <3>1. /\ to \in Slot /\ store \in [Slot -> Entry] /\ store[to] \in Entry
              /\ store[to].dir = "made" /\ store[to].guid = reg
            BY <2>8 DEF FileCopied, TypeInv, DataOK, TargetsOK
        <3> DEFINE e == [store[to] EXCEPT !.disk = aside]
        <3>2. e.dir = "made" /\ e.guid = reg
            BY <3>1 DEF Entry
        <3>3. \/ /\ cmd' = cmd /\ reg' = reg /\ to' = to /\ cmd = "restore"
                 /\ store' = [store EXCEPT ![to] = e]
              \/ cmd' = "none"
            BY <2>8 DEF FileCopied, Put
        <3> HIDE DEF e
        <3> QED
            BY <3>1, <3>2, <3>3
    <2>9. CASE FileRemove \/ FileManifest
        BY <2>9 DEF FileRemove, FileManifest
    <2> QED
        BY <1>2, <2>1, <2>2, <2>3, <2>4, <2>5, <2>6, <2>7, <2>8, <2>9 DEF SnapshotStep
<1>3. CASE RebuildStep
    <2>1. CASE \E o \in SUBSET Option : RebuildBegin(o)
        BY <2>1 DEF RebuildBegin
    <2>2. CASE \E o \in SUBSET Option, p \in {"trim", "release"} : CompactBegin(o, p)
        BY <2>2 DEF CompactBegin
    <2>3. CASE RebuildStop \/ Export \/ Exported
        BY <2>3 DEF RebuildStop, Export, Exported
    <2>4. CASE Unregister \/ Import
        BY <2>4 DEF Unregister, Import
    <2>5. CASE RestoreSettings \/ RebuildStart \/ DeleteArchive
        BY <2>5 DEF RestoreSettings, RebuildStart, DeleteArchive
    <2>6. CASE Trim \/ CompactStop \/ CompactDisk \/ CompactRestart
        BY <2>6 DEF Trim, CompactStop, CompactDisk, CompactRestart
    <2> QED
        BY <1>3, <2>1, <2>2, <2>3, <2>4, <2>5, <2>6 DEF RebuildStep
<1> QED
    BY <1>1, <1>2, <1>3 DEF Next, WorldStep

\* Every step keeps UndoneInv.
LEMMA StepUndone ==
    TypeInv /\ RunningHolds /\ BeforeInv /\ UndoneInv /\ [Next]_vars => UndoneInv'
<1> SUFFICES ASSUME TypeInv, RunningHolds, BeforeInv, UndoneInv, [Next]_vars
             PROVE  UndoneInv'
    OBVIOUS
<1>0. cmd = "restore" => RestoreInv
    BY DEF BeforeInv
<1> USE UndoShapes, Sorts DEF UndoneInv, Finish, FinishWith, Goto, GiveUp, Begin, vars, diskVars,
        fileVars, vmVars, stepVars, asks, histVars
<1>1. CASE Use \/ Exits \/ Release \/ Tidy \/ Crash \/ UNCHANGED vars
    BY <1>1 DEF Use, Exits, Release, Tidy, Crash
<1>2. CASE Write
    <2>1. /\ cmd' = cmd /\ pc' = pc /\ undo' = undo /\ aside' = aside
          /\ rollback' = rollback /\ live' = version'
          /\ before' = IF before = live /\ undo = <<>> THEN live' ELSE before
        BY <1>2 DEF Write
    <2>2. live # Part
        BY <1>2 DEF Write, RunningHolds
    <2> QED
        BY <2>1, <2>2
<1>3. CASE Unwind
    <2>1. /\ cmd = "restore" /\ pc = "unwind" /\ cmd' = cmd /\ pc' = pc
          /\ before' = before /\ undo # <<>>
        BY <1>3, Unwinds DEF Unwind
    <2>2. before = aside /\ undo \in {PutBack, Remove, Both}
        BY <1>0, <2>1 DEF RestoreInv, Shapes
    <2>3. undo' = IF undo = Both THEN PutBack ELSE <<>>
        BY <1>3, Unwinds
    <2>4. \/ undo[Len(undo)] = "remove" /\ live' = Nothing /\ aside' = aside
          \/ undo[Len(undo)] = "put back" /\ live' = aside /\ aside' = Nothing
          \/ rollback' = "short"
        BY <1>3 DEF Unwind
    <2>5. PutBack # Remove /\ PutBack # <<>>
        BY UndoShapes
    <2>6. CASE undo = Both
        BY <2>1, <2>3, <2>5, <2>6
    <2>7. CASE undo = PutBack
        BY <2>1, <2>2, <2>3, <2>4, <2>5, <2>7
    <2>8. CASE undo = Remove
        BY <2>1, <2>2, <2>3, <2>4, <2>5, <2>8
    <2> QED
        BY <2>2, <2>6, <2>7, <2>8
<1>4. CASE SnapshotStep
    <2>1. CASE \/ \E t \in Slot, o \in SUBSET Option : SnapshotBegin(t, o)
               \/ \E s, t \in Slot, o \in SUBSET Option : RestoreBegin(s, t, o)
        BY <2>1 DEF SnapshotBegin, RestoreBegin
    <2>2. CASE \E s \in Slot : RemoveSnapshot(s)
        BY <2>2 DEF RemoveSnapshot
    <2>3. CASE SnapshotStop \/ SnapshotWait \/ RestoreStop \/ RestoreWait
        BY <2>3 DEF SnapshotStop, SnapshotWait, RestoreStop, RestoreWait, Stop, Wait
    <2>4. CASE SnapshotMkdir \/ SnapshotCopied \/ SnapshotManifest
        BY <2>4 DEF SnapshotMkdir, SnapshotCopied, SnapshotManifest, Discard
    <2>5. CASE MoveAside
        <3>1. PutBack # Remove /\ PutBack # <<>> /\ PutBack = <<"put back">>
            BY UndoShapes DEF PutBack
        <3>2. pc = "aside" /\ aside = Nothing /\ cmd = "restore"
            BY <1>0, <2>5 DEF MoveAside, RestoreInv
        <3>3. \/ undo' = PutBack /\ pc' = "copy"
              \/ aside' = Nothing /\ pc' = "copy"
              \/ cmd' = "none"
            BY <2>5, <3>1, <3>2 DEF MoveAside
        <3> QED
            BY <3>1, <3>3
    <2>6. CASE RestoreCopy
        BY <2>6 DEF RestoreCopy
    <2>7. CASE RestoreCopied
        <3>1. /\ cmd = "restore" /\ pc = "copying" /\ before = aside
              /\ undo \in {<<>>, PutBack} /\ aside' = aside /\ before' = before
            BY <1>0, <2>7 DEF RestoreCopied, RestoreInv
        <3>2. \/ undo' = Append(undo, "remove") /\ pc' = "start"
              \/ undo' = undo /\ pc' = "unwind" /\ live' \in {Nothing, Part}
            BY <2>7 DEF RestoreCopied
        <3>3. PutBack # Remove /\ PutBack # <<>> /\ Both # Remove /\ Both # <<>>
              /\ Remove # <<>>
            BY UndoShapes
        <3>4. CASE undo = <<>>
            <4>1. aside = Nothing
                BY <3>1, <3>4
            <4> QED
                BY <3>1, <3>2, <3>3, <3>4, <4>1
        <3>5. CASE undo = PutBack
            BY <3>1, <3>2, <3>3, <3>5
        <3> QED
            BY <3>1, <3>4, <3>5
    <2>8. CASE RestoreStart
        BY <2>8 DEF RestoreStart
    <2>9. CASE RestoreRelease
        BY <1>0, <2>9 DEF RestoreRelease, RestoreInv
    <2>10. CASE RestoreUnwound
        BY <2>10 DEF RestoreUnwound
    <2>11. CASE FileAside
        BY <2>11 DEF FileAside
    <2>12. CASE FileCopied \/ FileRemove \/ FileManifest
        BY <2>12 DEF FileCopied, FileRemove, FileManifest
    <2> QED
        BY <1>4, <2>1, <2>2, <2>3, <2>4, <2>5, <2>6, <2>7, <2>8, <2>9, <2>10, <2>11,
           <2>12 DEF SnapshotStep
<1>5. CASE RebuildStep
    <2>1. cmd' # "restore"
        BY <1>5 DEF RebuildStep, RebuildBegin, RebuildStop, Export, Exported,
           Unregister, Import, RestoreSettings, RebuildStart, DeleteArchive,
           CompactBegin, Trim, CompactStop, CompactDisk, CompactRestart
    <2> QED
        BY <2>1
<1> QED
    BY <1>1, <1>2, <1>3, <1>4, <1>5 DEF Next, WorldStep

EndsInv ==
    TypeInv /\ RunningHolds /\ Vacant /\ BeforeInv /\ KeepsInv /\ Unfinished /\ UndoneInv

\* The first state has it, and every step keeps it.
LEMMA EndsInvHolds == Spec => []EndsInv
<1>1. Init => EndsInv
    <2> SUFFICES ASSUME Init
                 PROVE  EndsInv
        OBVIOUS
    <2>1. RunningHolds
        BY CopyAssumption DEF Init, RunningHolds, Running
    <2>2. Vacant /\ Unfinished
        BY DEF Init, Vacant, Unfinished, NoEntry
    <2>3. BeforeInv /\ KeepsInv /\ UndoneInv
        BY DEF Init, BeforeInv, KeepsInv, UndoneInv
    <2> QED
        BY <2>1, <2>2, <2>3, InitType DEF EndsInv
<1>2. EndsInv /\ [Next]_vars => EndsInv'
    BY StepType, StepHolds, StepVacant, StepBefore, StepKeeps, StepUnfinished,
       StepUndone DEF EndsInv
<1> QED
    BY <1>1, <1>2, PTL DEF Spec

\* The steps with which a command ends, by what it says then.
LEMMA Endings ==
    ASSUME [Next]_vars
    PROVE  /\ Ends({"rebuild"}, {"done"}) => DeleteArchive
           /\ Ends({"restore"}, {"done"}) => RestoreStart \/ FileManifest
           /\ Ends({"snapshot"}, {"failed", "restored"}) =>
                  SnapshotStop \/ SnapshotWait \/ SnapshotMkdir \/ SnapshotCopied
                  \/ SnapshotManifest
           /\ Ends({"restore"}, {"failed", "restored"}) =>
                  RestoreStop \/ RestoreWait \/ MoveAside \/ RestoreUnwound
<1> USE DEF Ends, Finish, FinishWith, Goto, GiveUp, Begin, vars, diskVars
<1>1. CASE Use \/ Write \/ Exits \/ Release \/ Tidy \/ Unwind \/ Crash \/ UNCHANGED vars
    BY <1>1 DEF Use, Write, Exits, Release, Tidy, Unwind, Crash
<1>2. CASE SnapshotStep
    <2>1. CASE \/ \E t \in Slot, o \in SUBSET Option : SnapshotBegin(t, o)
               \/ \E s, t \in Slot, o \in SUBSET Option : RestoreBegin(s, t, o)
               \/ \E s \in Slot : RemoveSnapshot(s)
        BY <2>1 DEF SnapshotBegin, RestoreBegin, RemoveSnapshot
    <2>2. CASE SnapshotStop \/ SnapshotWait \/ RestoreStop \/ RestoreWait
        BY <2>2 DEF SnapshotStop, SnapshotWait, RestoreStop, RestoreWait, Stop, Wait
    <2>3. CASE SnapshotMkdir \/ SnapshotCopied \/ SnapshotManifest
        BY <2>3 DEF SnapshotMkdir, SnapshotCopied, SnapshotManifest
    <2>4. CASE MoveAside \/ RestoreCopy \/ RestoreCopied
        BY <2>4 DEF MoveAside, RestoreCopy, RestoreCopied
    <2>5. CASE RestoreStart \/ RestoreRelease \/ RestoreUnwound
        BY <2>5 DEF RestoreStart, RestoreRelease, RestoreUnwound
    <2>6. CASE FileAside \/ FileCopied \/ FileRemove \/ FileManifest
        BY <2>6 DEF FileAside, FileCopied, FileRemove, FileManifest
    <2> QED
        BY <1>2, <2>1, <2>2, <2>3, <2>4, <2>5, <2>6 DEF SnapshotStep
<1>3. CASE RebuildStep
    <2>1. CASE \/ \E o \in SUBSET Option : RebuildBegin(o)
               \/ \E o \in SUBSET Option, p \in {"trim", "release"} : CompactBegin(o, p)
        BY <2>1 DEF RebuildBegin, CompactBegin
    <2>2. CASE RebuildStop \/ Export \/ Exported \/ Unregister \/ Import
        BY <2>2 DEF RebuildStop, Export, Exported, Unregister, Import
    <2>3. CASE RestoreSettings \/ RebuildStart \/ DeleteArchive
        BY <2>3 DEF RestoreSettings, RebuildStart, DeleteArchive
    <2>4. CASE Trim \/ CompactStop \/ CompactDisk \/ CompactRestart
        BY <2>4 DEF Trim, CompactStop, CompactDisk, CompactRestart
    <2> QED
        BY <1>3, <2>1, <2>2, <2>3, <2>4 DEF RebuildStep
<1> QED
    BY <1>1, <1>2, <1>3 DEF Next, WorldStep

\* A rebuild that is done has imported the disk it began with, and set again the
\* settings that the import forgets.
THEOREM RebuildBringsItBack == Spec => RebuildIsFaithful
<1>1. EndsInv /\ [Next]_vars =>
          (Ends({"rebuild"}, {"done"}) => live' = before /\ settings' = man)
    <2> SUFFICES ASSUME EndsInv, [Next]_vars, Ends({"rebuild"}, {"done"})
                 PROVE  live' = before /\ settings' = man
        OBVIOUS
    <2>1. DeleteArchive
        BY Endings
    <2>2. cmd = "rebuild" /\ pc = "delete" /\ live' = live /\ settings' = settings
        BY <2>1 DEF DeleteArchive, regVars
    <2> QED
        BY <2>2 DEF EndsInv, BeforeInv, KeepsInv
<1> QED
    BY <1>1, EndsInvHolds, PTL DEF Spec, RebuildIsFaithful

\* A restore that is done has filed the disk it replaced, whole, where a restore
\* of the same distribution finds it.
THEOREM RestoreCanBeUndone == Spec => RestoreIsUndoable
<1> DEFINE Filed == \E s \in Slot : /\ Readable(s)' /\ store'[s].disk = before
                                    /\ store'[s].guid = reg'
<1>1. EndsInv /\ [Next]_vars =>
          (Ends({"restore"}, {"done"}) /\ before # Nothing => Filed)
    <2> SUFFICES ASSUME EndsInv, [Next]_vars, Ends({"restore"}, {"done"}),
                        before # Nothing
                 PROVE  Filed
        OBVIOUS
    <2>1. TypeInv /\ BeforeInv /\ KeepsInv /\ cmd = "restore" /\ RestoreInv
        BY DEF EndsInv, BeforeInv, Ends
    <2>2. CASE RestoreStart
        <3>1. pc = "start" /\ (aside # Nothing => cmd' = cmd)
            BY <2>2 DEF RestoreStart, Goto
        <3>2. cmd' = "none" /\ cmd = "restore" /\ before = aside
            BY <2>1, <3>1 DEF Ends, RestoreInv
        <3> QED
            BY <3>1, <3>2
    <2>3. CASE FileManifest
        <3>1. /\ pc = "manifest" /\ to \in Slot /\ store \in [Slot -> Entry]
              /\ store[to] \in Entry /\ store[to].disk = before
              /\ store[to].guid = reg /\ reg' = reg
            BY <2>1, <2>3 DEF FileManifest, TypeInv, DataOK, TargetsOK, RestoreInv,
               KeepsInv, regVars
        <3> DEFINE e == [store[to] EXCEPT !.manifest = "whole"]
        <3>2. e.manifest = "whole" /\ e.disk = before /\ e.guid = reg
            BY <3>1 DEF Entry
        <3>3. store' = [store EXCEPT ![to] = e]
            BY <2>3 DEF FileManifest, Ends, Finish, FinishWith
        <3> HIDE DEF e
        <3>4. store'[to] = e
            BY <3>1, <3>3
        <3> QED
            BY <3>1, <3>2, <3>4 DEF Readable
    <2> QED
        BY <2>2, <2>3, Endings
<1> QED
    BY <1>1, EndsInvHolds, PTL DEF Spec, RestoreIsUndoable

\* A snapshot or a restore that failed, and said that it put things back, did, and
\* left no snapshot to be restored.
THEOREM FailureIsHarmless == Spec => FailureRestores
<1> DEFINE Back == /\ live' = before \/ (before = Nothing /\ live' = Part)
                   /\ cmd = "restore" => aside' = Nothing
                   /\ store'[to].manifest # "whole"
<1>1. EndsInv /\ [Next]_vars =>
          (Ends({"snapshot", "restore"}, {"failed", "restored"}) => Back)
    <2> SUFFICES ASSUME EndsInv, [Next]_vars,
                        Ends({"snapshot", "restore"}, {"failed", "restored"})
                 PROVE  Back
        OBVIOUS
    <2>1. /\ TypeInv /\ BeforeInv /\ KeepsInv /\ Unfinished /\ UndoneInv
          /\ to \in Slot /\ store[to].manifest # "whole"
          /\ store \in [Slot -> Entry] /\ store[to] \in Entry
        BY DEF EndsInv, Ends, Unfinished, TypeInv, TargetsOK, DataOK
    <2>2. CASE cmd = "snapshot"
        <3>1. live = before
            BY <2>1, <2>2 DEF BeforeInv
        <3>2. SnapshotStop \/ SnapshotWait \/ SnapshotMkdir \/ SnapshotCopied
              \/ SnapshotManifest
            BY <2>2, Endings DEF Ends
        <3>3. live' = live
            <4>1. CASE SnapshotStop \/ SnapshotWait
                BY <4>1, <2>2 DEF SnapshotStop, SnapshotWait, Stop, Wait, GiveUp,
                   diskVars, fileVars
            <4>2. CASE SnapshotMkdir \/ SnapshotCopied \/ SnapshotManifest
                BY <4>2 DEF SnapshotMkdir, SnapshotCopied, SnapshotManifest, GiveUp,
                   diskVars, fileVars
            <4> QED
                BY <3>2, <4>1, <4>2
        <3>4. store'[to].manifest # "whole"
            <4> DEFINE f == [NoEntry EXCEPT !.dir = "made", !.guid = reg]
                       g == [store[to] EXCEPT !.disk = Nothing]
            <4>1. /\ f.manifest = "none" /\ NoEntry.manifest = "none"
                  /\ g.manifest = store[to].manifest
                BY <2>1 DEF NoEntry, Entry
            <4>2. CASE SnapshotStop \/ SnapshotWait
                BY <2>1, <4>2 DEF SnapshotStop, SnapshotWait, Stop, Wait, GiveUp,
                   diskVars, fileVars
            <4>3. CASE SnapshotMkdir
                <5>1. store' = store \/ store' = [store EXCEPT ![to] = f]
                    BY <2>2, <4>3 DEF SnapshotMkdir, GiveUp, diskVars, fileVars, Ends
                <5> HIDE DEF f
                <5> QED
                    BY <2>1, <4>1, <5>1
            <4>4. CASE SnapshotCopied \/ SnapshotManifest
                <5>1. cmd' = "none" /\ outcome' # "done"
                    BY DEF Ends
                <5>2. \/ store' = store \/ store' = [store EXCEPT ![to] = g]
                      \/ store' = [store EXCEPT ![to] = NoEntry]
                    BY <2>2, <4>4, <5>1 DEF SnapshotCopied, SnapshotManifest, Discard,
                       Put, Goto, Finish, FinishWith
                <5> HIDE DEF g
                <5> QED
                    BY <2>1, <4>1, <5>2
            <4> QED
                BY <3>2, <4>2, <4>3, <4>4
        <3> QED
            BY <2>2, <3>1, <3>3, <3>4
    <2>3. CASE cmd = "restore"
        <3>1. RestoreInv /\ cmd' = "none"
            BY <2>1, <2>3 DEF BeforeInv, Ends
        <3>2. RestoreStop \/ RestoreWait \/ MoveAside \/ RestoreUnwound
            BY <2>3, Endings DEF Ends
        <3>3. CASE RestoreStop \/ RestoreWait
            <4>1. pc \in {"stop", "wait"} /\ UNCHANGED diskVars
                BY <2>3, <3>1, <3>3 DEF RestoreStop, RestoreWait, Stop, Wait, GiveUp, Goto
            <4> QED
                BY <2>1, <3>1, <4>1 DEF RestoreInv, diskVars, fileVars
        <3>4. CASE MoveAside
            BY <2>1, <2>3, <3>1, <3>4 DEF MoveAside, RestoreInv, Goto
        <3>5. CASE RestoreUnwound
            <4>1. pc = "unwind" /\ undo = <<>> /\ UNCHANGED diskVars
                BY <3>5 DEF RestoreUnwound
            <4>2. rollback = "clean"
                <5>1. rollback # "short"
                    BY <3>5 DEF RestoreUnwound, Finish, FinishWith, Ends
                <5> QED
                    BY <2>1, <5>1 DEF TypeInv, DataOK
            <4> QED
                BY <2>1, <2>3, <4>1, <4>2 DEF UndoneInv, diskVars, fileVars
        <3> QED
            BY <3>2, <3>3, <3>4, <3>5
    <2> QED
        BY <2>2, <2>3 DEF Ends
<1> QED
    BY <1>1, EndsInvHolds, PTL DEF Spec, FailureRestores
====
