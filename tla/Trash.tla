------------------------------- MODULE Trash -------------------------------
(***************************************************************************)
(* internal/disk/trash.go: trash moves the disk of a distribution and the  *)
(* files beside it into the trash folder of its GUID, writes a manifest    *)
(* there and unregisters the distribution; undelete registers the disk     *)
(* where it lies, under a new GUID, and puts the settings back; purge      *)
(* deletes trash folders.                                                  *)
(***************************************************************************)
EXTENDS DiskWorld

\* Nothing has moved yet: the error is returned as it is.
GiveUp == Finish("failed") /\ UNCHANGED diskVars

\* PlanTrash and the part of Trash that only reads.
TrashBegin ==
    /\ reg # 0 /\ files[base[reg]]["disk"] # Nothing
    /\ Begin("trash", "stop", base[reg], reg, FALSE)
    /\ UNCHANGED <<diskVars, damaged, purged, orphaned, ruined>>

TrashStop ==
    /\ cmd = "trash" /\ pc = "stop"
    /\ \/ /\ reg # 0 /\ running' = FALSE /\ Goto("wait")
          /\ UNCHANGED <<files, folder, reg, base, disk, settings, next, held, pending,
                         stepVars>>
       \/ (Fails("stop") \/ reg = 0) /\ GiveUp

\* WaitForDisk: the disk comes free, or the wait runs out.
TrashWait ==
    /\ cmd = "trash" /\ pc = "wait"
    /\ \/ held = {} /\ Goto("mkdir") /\ UNCHANGED <<diskVars, stepVars>>
       \/ held # {} /\ GiveUp

TrashMkdir ==
    /\ cmd = "trash" /\ pc = "mkdir"
    /\ \/ /\ folder' = folder \cup {to} /\ Goto("move")
          /\ UNCHANGED <<files, reg, base, disk, settings, next, running, held, pending,
                         stepVars>>
       \/ Fails("mkdir") /\ GiveUp

\* An error from here on: unwind what was done.
Abort ==
    /\ Goto("unwind")
    /\ UNCHANGED <<from, to, file, todo, keep, undo, late, uerr>>

AfterFile == IF file = "disk" THEN "list" ELSE "next"

\* Mutant: a disk that could not be renamed is taken for one that was.
TrashRenameUnchecked ==
    /\ cmd = "trash" /\ pc = "move" /\ SameVolume(from, to)
    /\ \/ /\ CanRename(from, to, file)
          /\ files' = Renamed(from, to, file)
          /\ Push(UndoOf("rename", file, to, from))
       \/ /\ Fails("rename") \/ ~CanRename(from, to, file)
          /\ UNCHANGED <<files, undo>>
    /\ Goto(AfterFile)
    /\ UNCHANGED <<from, to, file, todo, keep, late, uerr>>
    /\ UNCHANGED <<folder, reg, base, disk, settings, next, running, held, pending>>

\* move: rename on one volume, copy and remove across two.  When the volumes
\* cannot be compared the file is copied.
TrashRename ==
    /\ cmd = "trash" /\ pc = "move" /\ SameVolume(from, to)
    /\ \/ /\ CanRename(from, to, file)
          /\ files' = Renamed(from, to, file)
          /\ Push(UndoOf("rename", file, to, from)) /\ Goto(AfterFile)
          /\ UNCHANGED <<from, to, file, todo, keep, late, uerr>>
       \/ /\ Fails("rename") \/ ~CanRename(from, to, file)
          /\ Abort /\ UNCHANGED files
    /\ UNCHANGED <<folder, reg, base, disk, settings, next, running, held, pending>>

TrashCopy ==
    /\ cmd = "trash" /\ pc = "move" /\ (SameVolume(from, to) => Fails("volume"))
    /\ \/ /\ CanCopy(from, to, file)
          /\ files' = [files EXCEPT ![to][file] = Stale]
          /\ Goto("copying") /\ UNCHANGED stepVars
       \/ /\ Fails("copy") \/ ~CanCopy(from, to, file)
          /\ Abort /\ UNCHANGED files
    /\ UNCHANGED <<folder, reg, base, disk, settings, next, running, held, pending>>

\* CopySparse removes a copy it could not finish, if it can.
TrashCopied ==
    /\ cmd = "trash" /\ pc = "copying"
    /\ \/ /\ files' = Copied(from, to, file)
          /\ Push(UndoOf("remove", file, to, to)) /\ Goto("remove")
          /\ UNCHANGED <<from, to, file, todo, keep, late, uerr>>
       \/ /\ Fails("copy") /\ Abort
          /\ files' = Removed(to, file) \/ (Fails("remove") /\ UNCHANGED files)
    /\ UNCHANGED <<folder, reg, base, disk, settings, next, running, held, pending>>

TrashRemove ==
    /\ cmd = "trash" /\ pc = "remove"
    /\ \/ /\ CanRemove(from, file) /\ files' = Removed(from, file)
          /\ Goto(AfterFile) /\ UNCHANGED stepVars
       \/ /\ Fails("remove") \/ ~CanRemove(from, file)
          /\ Abort /\ UNCHANGED files
    /\ UNCHANGED <<folder, reg, base, disk, settings, next, running, held, pending>>

\* The files beside the disk; a directory that cannot be listed has none.
TrashList ==
    /\ cmd = "trash" /\ pc = "list"
    /\ \/ todo' = {f \in File \ {"disk"} : files[from][f] # Nothing}
       \/ Fails("list") /\ todo' = {}
    /\ Goto("next")
    /\ UNCHANGED <<diskVars, from, to, file, keep, undo, late, uerr>>

\* Mutant: unregister first, write the manifest never.
TrashNextUnrecorded ==
    /\ cmd = "trash" /\ pc = "next"
    /\ \/ \E f \in todo : file' = f /\ todo' = todo \ {f} /\ Goto("move")
       \/ todo = {} /\ Goto("unregister") /\ UNCHANGED <<file, todo>>
    /\ UNCHANGED <<diskVars, from, to, keep, undo, late, uerr>>

TrashNext ==
    /\ cmd = "trash" /\ pc = "next"
    /\ \/ \E f \in todo : file' = f /\ todo' = todo \ {f} /\ Goto("move")
       \/ todo = {} /\ Goto("manifest") /\ UNCHANGED <<file, todo>>
    /\ UNCHANGED <<diskVars, from, to, keep, undo, late, uerr>>

\* Mutant: a failure to write the manifest goes unnoticed.
WriteManifestUnchecked ==
    /\ cmd = "trash" /\ pc = "manifest"
    /\ \/ files' = [files EXCEPT ![to]["manifest"] = to]
       \/ Fails("manifest") /\ UNCHANGED files
    /\ Goto("unregister") /\ UNCHANGED stepVars
    /\ UNCHANGED <<folder, reg, base, disk, settings, next, running, held, pending>>

\* A write that fails may leave the file cut short.
WriteManifest ==
    /\ cmd = "trash" /\ pc = "manifest"
    /\ \/ /\ files' = [files EXCEPT ![to]["manifest"] = to]
          /\ Goto("unregister") /\ UNCHANGED stepVars
       \/ /\ Fails("manifest") /\ Abort
          /\ files' \in {files, [files EXCEPT ![to]["manifest"] = Stale]}
    /\ UNCHANGED <<folder, reg, base, disk, settings, next, running, held, pending>>

\* WSL deletes the disk at BasePath together with the registration.
Unregistered ==
    /\ reg # 0 /\ reg' = 0 /\ running' = FALSE /\ pending' = 0
    /\ files' = Removed(base[reg], "disk")

\* Mutant: a failed unregister returns without a rollback.
TrashUnregisterLeaves ==
    /\ cmd = "trash" /\ pc = "unregister"
    /\ \/ Unregistered /\ Finish("done")
       \/ /\ Fails("unregister") \/ reg = 0
          /\ UNCHANGED <<files, reg, running, pending>> /\ Finish("failed")
    /\ UNCHANGED <<folder, base, disk, settings, next, held>>

\* wsl.exe is killed after a minute ("unregister late"): the call has failed,
\* the rollback begins, and WSL still does what it was asked (UnregistersLate).
TrashUnregister ==
    /\ cmd = "trash" /\ pc = "unregister"
    /\ \/ Unregistered /\ Finish("done")
       \/ /\ \/ (Fails("unregister") \/ reg = 0) /\ UNCHANGED pending
             \/ Fails("unregister late") /\ reg # 0 /\ pending' = reg
          /\ Goto("unwind") /\ late' = TRUE
          /\ UNCHANGED <<files, reg, running, from, to, file, todo, keep, undo, uerr>>
    /\ UNCHANGED <<folder, base, disk, settings, next, held>>

\* After the rollback: the manifest goes when the unregister was what failed,
\* and the folder when nothing is left in it.
TrashClean ==
    /\ cmd = "trash" /\ pc = "unwind" /\ undo = <<>>
    /\ \/ late /\ files' = Removed(to, "manifest")
       \/ (late => Fails("remove")) /\ UNCHANGED files
    /\ \/ files'[to] = Empty /\ folder' = folder \ {to}
       \/ (files'[to] # Empty \/ Fails("list")) /\ UNCHANGED folder
    /\ Finish(IF uerr THEN "stuck" ELSE "restored")
    /\ UNCHANGED <<reg, base, disk, settings, next, running, held, pending>>

-----------------------------------------------------------------------------

\* Mutant: the registration made by the import carries a GUID already used.
ImportedAgain(g) ==
    /\ reg' = next /\ next' = next
    /\ base' = [base EXCEPT ![next] = g]
    /\ disk' = [disk EXCEPT ![next] = files[g]["disk"]]
    /\ settings' = [settings EXCEPT ![next] = "fresh"]

\* ListTrash shows every folder; an entry whose manifest cannot be read, or
\* whose name is registered, is not brought back.
Imported(g) ==
    /\ reg' = next /\ next' = next + 1
    /\ base' = [base EXCEPT ![next] = g]
    /\ disk' = [disk EXCEPT ![next] = files[g]["disk"]]
    /\ settings' = [settings EXCEPT ![next] = "fresh"]

\* PlanUndelete and the import, which makes a registration with a new GUID.
UndeleteImport(g) ==
    /\ g \in folder /\ files[g]["manifest"] \in Guid /\ reg = 0
    /\ files[g]["disk"] # Nothing /\ next <= world.guids
    /\ Begin("undelete", "import", g, g, FALSE)
    /\ UNCHANGED <<diskVars, damaged, purged, orphaned, ruined>>

UndeleteImported ==
    /\ cmd = "undelete" /\ pc = "import"
    /\ \/ Imported(to) /\ Goto("settings") /\ UNCHANGED stepVars
       \/ /\ Fails("import") /\ Finish("failed")
          /\ UNCHANGED <<reg, next, base, disk, settings>>
       \/ Fails("import late") /\ Imported(to) /\ Finish("failed")
    /\ UNCHANGED <<files, folder, running, held, pending>>

\* Mutant: the settings of the new registration are taken for the old ones.
UndeleteSettingsFresh ==
    /\ cmd = "undelete" /\ pc = "settings"
    /\ Finish("done") /\ UNCHANGED settings
    /\ UNCHANGED <<files, folder, reg, base, disk, next, running, held, pending>>

\* The list of registrations is read again, then restoreSettings.
UndeleteSettings ==
    /\ cmd = "undelete" /\ pc = "settings"
    /\ \/ /\ settings' =
                 [settings EXCEPT ![reg] = settings[files[to]["manifest"]]]
          /\ Finish("done")
       \/ Fails("registry") /\ Finish("failed") /\ UNCHANGED settings
    /\ UNCHANGED <<files, folder, reg, base, disk, next, running, held, pending>>

-----------------------------------------------------------------------------

\* trashPurge and Purge, one folder of the list at a time: what can be removed
\* is, and the folder goes when all of it did.
Purge(g) ==
    /\ cmd = "none" /\ "purge" \in world.commands /\ g \in folder
    /\ \E gone \in SUBSET {f \in File : CanRemove(g, f)} :
           /\ gone = {f \in File : CanRemove(g, f)} \/ Fails("remove")
           /\ files' = [files EXCEPT ![g] =
                  [f \in File |-> IF f \in gone THEN Nothing ELSE @[f]]]
    /\ \/ files'[g] = Empty /\ folder' = folder \ {g}
       \/ (files'[g] = Empty => Fails("remove")) /\ UNCHANGED folder
    /\ purged' = purged \cup (Guid \cap {files[g]["disk"]})
    /\ outcome' = "none"
    /\ UNCHANGED <<reg, base, disk, settings, next, running, held, pending,
                   cmd, pc, stepVars, damaged, before, orphaned, ruined>>

TrashStep ==
    \/ TrashBegin \/ TrashStop \/ TrashWait \/ TrashMkdir
    \/ TrashRename \/ TrashCopy \/ TrashCopied \/ TrashRemove
    \/ TrashList \/ TrashNext \/ WriteManifest \/ TrashUnregister \/ TrashClean
    \/ UndeleteImported \/ UndeleteSettings
    \/ \E g \in Guid : UndeleteImport(g) \/ Purge(g)
=============================================================================
