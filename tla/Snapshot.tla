------------------------------ MODULE Snapshot ------------------------------
(***************************************************************************)
(* internal/disk/snapshot.go: snapshot copies the disk into a new folder   *)
(* of the store and writes a manifest beside it; restore moves the disk    *)
(* aside, copies a snapshot into its place, starts it, and files the disk  *)
(* it replaced as a snapshot of its own.                                   *)
(***************************************************************************)
EXTENDS CopyWorld

\* The folder of this second is new.
NewSlot == {s \in Slot : /\ store[s].dir = "none"
                          /\ \A r \in Slot : r < s => store[r].dir = "made"}

Put(s, d) == [store EXCEPT ![s].disk = d]

SnapshotBegin(t, o) ==
    /\ live # Nothing /\ t \in NewSlot /\ o \subseteq {"shutdown"}
    /\ Begin("snapshot", IF Running \/ o # {} THEN "stop" ELSE "wait",
             t, t, o)

SnapshotStop == cmd = "snapshot" /\ Stop("wait")
SnapshotWait == cmd = "snapshot" /\ Wait("mkdir")

\* The folder, and the source opened so that nobody can write to it.
SnapshotMkdir ==
    /\ cmd = "snapshot" /\ pc = "mkdir"
    /\ \/ /\ lock = "free"
          /\ store' = [store EXCEPT ![to] =
                 [NoEntry EXCEPT !.dir = "made", !.guid = reg, !.disk = Part]]
          /\ taken' = [taken EXCEPT ![to] = live]
          /\ pc' = "copying"
          /\ UNCHANGED <<live, aside, archive, regVars, vmVars, version, cmd,
                         stepVars, outcome, before, kept>>
       \/ Fails("mkdir") /\ GiveUp
       \/ /\ lock = "held" /\ Finish("failed")
          /\ store' \in {store} \cup
                 (IF Fails("remove")
                  THEN {[store EXCEPT ![to] =
                            [NoEntry EXCEPT !.dir = "made", !.guid = reg]]}
                  ELSE {})
          /\ UNCHANGED <<live, aside, archive, regVars, vmVars>>

\* The copy and its folder are removed where the rest fails; either call may
\* fail in its turn, and says nothing.
Discard ==
    /\ \/ store' = [store EXCEPT ![to] = NoEntry]
       \/ Fails("remove") /\ store' \in {store, Put(to, Nothing)}
    /\ Finish("failed")

\* Mutant: the copy is taken for done when it was cut short.
SnapshotCopiedUnchecked ==
    /\ cmd = "snapshot" /\ pc = "copying"
    /\ store' \in {Put(to, live)} \cup (IF Fails("copy") THEN {store} ELSE {})
    /\ Goto("manifest") /\ UNCHANGED stepVars
    /\ UNCHANGED <<live, aside, archive, regVars, vmVars>>

SnapshotCopied ==
    /\ cmd = "snapshot" /\ pc = "copying"
    /\ \/ store' = Put(to, live) /\ Goto("manifest") /\ UNCHANGED stepVars
       \/ Fails("copy") /\ Discard
    /\ UNCHANGED <<live, aside, archive, regVars, vmVars>>

SnapshotManifest ==
    /\ cmd = "snapshot" /\ pc = "manifest"
    /\ \/ store' = [store EXCEPT ![to].manifest = "whole"] /\ Finish("done")
       \/ Fails("manifest") /\ Discard
    /\ UNCHANGED <<live, aside, archive, regVars, vmVars>>

\* RemoveSnapshot: the files in the order of the list, the disk before the
\* manifest, each whether or not the other went; then the folder.
RemoveSnapshot(s) ==
    /\ cmd = "none" /\ "snapshot rm" \in Commands
    /\ store[s].dir = "made" /\ store[s].guid = reg
    /\ \E gone \in {NoEntry} \cup
              (IF Fails("remove")
               THEN {store[s], [store[s] EXCEPT !.disk = Nothing],
                     [store[s] EXCEPT !.manifest = "none"],
                     [NoEntry EXCEPT !.dir = "made", !.guid = reg]}
               ELSE {}) :
           store' = [store EXCEPT ![s] = gone]
    /\ kept' = kept \ {store[s].disk}
    /\ UNCHANGED <<live, aside, archive, regVars, vmVars, version, cmd, pc,
                   stepVars, outcome, before, taken>>

-----------------------------------------------------------------------------

\* FindSnapshot and PlanRestore.  The disk need not be there any more.
RestoreBegin(s, t, o) ==
    /\ Readable(s) /\ store[s].guid = reg /\ store[s].disk # Nothing
    /\ aside = Nothing /\ t \in NewSlot /\ o \subseteq {"shutdown"}
    /\ Begin("restore",
             IF Running \/ o # {} THEN "stop"
             ELSE IF live # Nothing THEN "wait" ELSE "aside", s, t, o)

RestoreStop == cmd = "restore" /\ Stop("wait")
RestoreWait == cmd = "restore" /\ Wait("aside")

MoveAside ==
    /\ cmd = "restore" /\ pc = "aside"
    /\ \/ /\ live # Nothing /\ lock = "free"
          /\ aside' = live /\ live' = Nothing /\ undo' = <<"put back">>
          /\ Goto("copy") /\ UNCHANGED <<asks, rollback>>
       \/ /\ live = Nothing /\ Goto("copy")
          /\ UNCHANGED <<aside, live, stepVars>>
       \/ /\ live # Nothing /\ (Fails("rename") \/ lock = "held")
          /\ Finish("failed") /\ UNCHANGED <<aside, live>>
    /\ UNCHANGED <<archive, store, regVars, vmVars>>

RestoreCopy ==
    /\ cmd = "restore" /\ pc = "copy" /\ live = Nothing
    /\ live' = Part /\ Goto("copying")
    /\ UNCHANGED <<aside, archive, store, regVars, vmVars, stepVars>>

\* Mutant: the disk moved aside is not put back.
RestoreCopiedForgets ==
    /\ cmd = "restore" /\ pc = "copying"
    /\ \/ /\ live' = store[from].disk /\ undo' = <<"remove">>
          /\ Goto("start")
       \/ Fails("copy") /\ live' = Nothing /\ Goto("unwind") /\ UNCHANGED undo
    /\ UNCHANGED <<aside, archive, store, regVars, vmVars, asks, rollback>>

RestoreCopied ==
    /\ cmd = "restore" /\ pc = "copying"
    /\ \/ /\ live' = store[from].disk /\ undo' = Append(undo, "remove")
          /\ Goto("start")
       \/ /\ Fails("copy") /\ Goto("unwind") /\ UNCHANGED undo
          /\ live' \in {Nothing} \cup (IF Fails("remove") THEN {Part} ELSE {})
    /\ UNCHANGED <<aside, archive, store, regVars, vmVars, asks, rollback>>

\* The start; where it fails, Terminate and WaitForDisk, whose errors say
\* nothing.  Without a disk to file, that was all.
RestoreStart ==
    /\ cmd = "restore" /\ pc = "start"
    /\ \/ /\ live \in Version /\ up' = up \cup {"it"} /\ lock' = "held"
          /\ IF aside # Nothing THEN Goto("file") /\ UNCHANGED stepVars
             ELSE Finish("done")
       \/ /\ Fails("start") \/ live \notin Version
          /\ lock' = "held" /\ Goto("release") /\ UNCHANGED <<up, stepVars>>
    /\ UNCHANGED <<fileVars, regVars>>

RestoreRelease ==
    /\ cmd = "restore" /\ pc = "release"
    /\ up' \in {up \ {"it"}} \cup (IF Fails("stop") THEN {up} ELSE {})
    /\ Goto("unwind")
    /\ UNCHANGED <<fileVars, regVars, lock, stepVars>>

RestoreUnwound ==
    /\ cmd = "restore" /\ pc = "unwind" /\ undo = <<>>
    /\ Finish(IF rollback = "short" THEN "stuck" ELSE "restored") /\ UNCHANGED diskVars

-----------------------------------------------------------------------------
(* fileAsSnapshot.  A failure leaves the restore done, and the old disk not *)
(* filed.                                                                   *)

FileAside ==
    /\ cmd = "restore" /\ pc = "file"
    /\ LET entry(d) == [NoEntry EXCEPT !.dir = "made", !.guid = reg, !.disk = d]
       IN  \/ /\ ~FarStore /\ aside' = Nothing
              /\ store' = [store EXCEPT ![to] = entry(aside)]
              /\ taken' = [taken EXCEPT ![to] = aside]
              /\ pc' = "manifest" /\ UNCHANGED <<cmd, outcome, version, before,
                                                 kept, stepVars>>
           \/ /\ FarStore \/ Fails("volume")
              /\ UNCHANGED aside
              /\ store' = [store EXCEPT ![to] = entry(Part)]
              /\ taken' = [taken EXCEPT ![to] = aside]
              /\ pc' = "filing" /\ UNCHANGED <<cmd, outcome, version, before,
                                               kept, stepVars>>
           \/ /\ Fails("mkdir") \/ Fails("rename")
              /\ UNCHANGED aside
              /\ store' \in {store, [store EXCEPT ![to] = entry(Nothing)]}
              /\ Finish("unfiled")
    /\ UNCHANGED <<live, archive, regVars, vmVars>>

\* Mutant: the old disk goes whether or not it was copied.
FileCopiedUnchecked ==
    /\ cmd = "restore" /\ pc = "filing"
    /\ store' \in {Put(to, aside)} \cup
                  (IF Fails("copy") THEN {Put(to, Nothing)} ELSE {})
    /\ Goto("remove") /\ UNCHANGED stepVars
    /\ UNCHANGED <<live, aside, archive, regVars, vmVars>>

FileCopied ==
    /\ cmd = "restore" /\ pc = "filing"
    /\ \/ store' = Put(to, aside) /\ Goto("remove") /\ UNCHANGED stepVars
       \/ /\ Fails("copy") /\ Finish("unfiled")
          /\ store' \in {Put(to, Nothing)} \cup
                        (IF Fails("remove") THEN {store} ELSE {})
    /\ UNCHANGED <<live, aside, archive, regVars, vmVars>>

FileRemove ==
    /\ cmd = "restore" /\ pc = "remove"
    /\ \/ aside' = Nothing /\ Goto("manifest") /\ UNCHANGED stepVars
       \/ Fails("remove") /\ Finish("unfiled") /\ UNCHANGED aside
    /\ UNCHANGED <<live, archive, store, regVars, vmVars>>

\* Mutant: a manifest that could not be written goes unnoticed.
FileManifestUnchecked ==
    /\ cmd = "restore" /\ pc = "manifest" /\ Finish("done")
    /\ store' \in {[store EXCEPT ![to].manifest = "whole"]} \cup
                  (IF Fails("manifest") THEN {store} ELSE {})
    /\ UNCHANGED <<live, aside, archive, regVars, vmVars>>

FileManifest ==
    /\ cmd = "restore" /\ pc = "manifest"
    /\ \/ store' = [store EXCEPT ![to].manifest = "whole"] /\ Finish("done")
       \/ /\ Fails("manifest") /\ Finish("unfiled")
          /\ store' \in {store, [store EXCEPT ![to].manifest = "cut"]}
    /\ UNCHANGED <<live, aside, archive, regVars, vmVars>>

SnapshotStep ==
    \/ \E t \in Slot, o \in SUBSET Option : SnapshotBegin(t, o)
    \/ SnapshotStop \/ SnapshotWait \/ SnapshotMkdir \/ SnapshotCopied
    \/ SnapshotManifest
    \/ \E s \in Slot : RemoveSnapshot(s)
    \/ \E s, t \in Slot, o \in SUBSET Option : RestoreBegin(s, t, o)
    \/ RestoreStop \/ RestoreWait \/ MoveAside \/ RestoreCopy \/ RestoreCopied
    \/ RestoreStart \/ RestoreRelease \/ RestoreUnwound
    \/ FileAside \/ FileCopied \/ FileRemove \/ FileManifest
=============================================================================
