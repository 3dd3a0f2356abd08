-------------------------------- MODULE Move --------------------------------
(***************************************************************************)
(* internal/disk/move.go and relink.go: move puts the disk of a            *)
(* distribution into another directory, points the registration at it and  *)
(* starts the distribution from there before it deletes the original;      *)
(* relink only points the registration at a disk that is already           *)
(* somewhere else.  Both put everything back when the start fails.         *)
(***************************************************************************)
EXTENDS DiskWorld

\* Renamed and KeepSource decide what is at the source when the start is over.
ByRename == \E i \in DOMAIN undo : undo[i].do = "rename"

\* Nobody moves what WSL is still unregistering.
MoveBegin(p, k) ==
    /\ reg # 0 /\ pending = 0 /\ ~running
    /\ files[base[reg]]["disk"] # Nothing
    /\ p # base[reg] /\ files[p]["disk"] = Nothing
    /\ Begin("move", "mkdir", base[reg], p, k)
    /\ UNCHANGED <<diskVars, damaged, purged, orphaned, ruined>>

\* Nothing was pushed yet: the error is returned as it is.
Return == Finish("failed") /\ UNCHANGED diskVars

MoveMkdir ==
    /\ cmd = "move" /\ pc = "mkdir"
    /\ \/ Goto("move") /\ UNCHANGED <<diskVars, stepVars>>
       \/ Fails("mkdir") /\ Return

\* Mutant: the rollback of a rename deletes what is at the target.
MoveRenameDeletes ==
    /\ cmd = "move" /\ pc = "move" /\ SameVolume(from, to) /\ ~keep
    /\ CanRename(from, to, "disk")
    /\ files' = Renamed(from, to, "disk")
    /\ Push(UndoOf("remove", "disk", to, from)) /\ Goto("repoint")
    /\ UNCHANGED <<folder, reg, base, disk, settings, next, running,
                   held, pending, from, to, file, todo, keep, late, uerr>>

MoveRename ==
    /\ cmd = "move" /\ pc = "move" /\ SameVolume(from, to) /\ ~keep
    /\ \/ /\ CanRename(from, to, "disk")
          /\ files' = Renamed(from, to, "disk")
          /\ Push(UndoOf("rename", "disk", to, from)) /\ Goto("repoint")
          /\ UNCHANGED <<folder, reg, base, disk, settings, next, running,
                         held, pending, from, to, file, todo, keep, late, uerr>>
       \/ (Fails("rename") \/ ~CanRename(from, to, "disk")) /\ Return

MoveCopy ==
    /\ cmd = "move" /\ pc = "move"
    /\ keep \/ ~SameVolume(from, to) \/ Fails("volume")
    /\ \/ /\ CanCopy(from, to, "disk")
          /\ files' = [files EXCEPT ![to]["disk"] = Stale]
          /\ Goto("copying")
          /\ UNCHANGED <<folder, reg, base, disk, settings, next, running,
                         held, pending, stepVars>>
       \/ (Fails("copy") \/ ~CanCopy(from, to, "disk")) /\ Return

\* Mutant: a copy that was made has no rollback.
MoveCopiedUnrecorded ==
    /\ cmd = "move" /\ pc = "copying"
    /\ files' = Copied(from, to, "disk")
    /\ Goto("repoint") /\ UNCHANGED stepVars
    /\ UNCHANGED <<folder, reg, base, disk, settings, next, running, held, pending>>

MoveCopied ==
    /\ cmd = "move" /\ pc = "copying"
    /\ \/ /\ files' = Copied(from, to, "disk")
          /\ Push(UndoOf("remove", "disk", to, to)) /\ Goto("repoint")
          /\ UNCHANGED <<from, to, file, todo, keep, late, uerr>>
       \/ /\ Fails("copy") /\ Finish("failed")
          /\ files' = Removed(to, "disk") \/ (Fails("remove") /\ UNCHANGED files)
    /\ UNCHANGED <<folder, reg, base, disk, settings, next, running, held, pending>>

-----------------------------------------------------------------------------
(* relink begins here: there is a file where the registration should point,   *)
(* and only the start tells whether it is the disk.                          *)

RelinkBegin(p) ==
    /\ reg # 0 /\ pending = 0 /\ ~running /\ p # base[reg]
    /\ files[p]["disk"] # Nothing
    /\ Begin("relink", "repoint", base[reg], p, FALSE)
    /\ UNCHANGED <<diskVars, damaged, purged, orphaned, ruined>>

\* Mutant: the old value is read after the new one was written.
RepointLate ==
    /\ cmd \in {"move", "relink"} /\ pc = "repoint"
    /\ \/ /\ base' = [base EXCEPT ![reg] = to]
          /\ Push(UndoOf("repoint", "disk", to, to))
          /\ \/ Goto("start")
             \/ Fails("registry") /\ Goto("unwind")
       \/ /\ Fails("registry") /\ Goto("unwind")
          /\ UNCHANGED <<base, undo>>
    /\ UNCHANGED <<files, folder, reg, disk, settings, next, running, held, pending,
                   from, to, file, todo, keep, late, uerr>>

\* BasePath is written first, then VhdFileName where the entry has one.  Only a
\* value that was written has a rollback.
Repoint ==
    /\ cmd \in {"move", "relink"} /\ pc = "repoint"
    /\ \/ /\ base' = [base EXCEPT ![reg] = to]
          /\ Push(UndoOf("repoint", "disk", to, base[reg]))
          /\ \/ Goto("start")
             \/ Fails("registry") /\ Goto("unwind")
       \/ /\ Fails("registry") /\ Goto("unwind")
          /\ UNCHANGED <<base, undo>>
    /\ UNCHANGED <<files, folder, reg, disk, settings, next, running, held, pending,
                   from, to, file, todo, keep, late, uerr>>

\* The smoke test.  A start that fails attaches the disk all the same, and one
\* that wsl.exe is killed in comes up after it failed ("start late"), with nothing
\* of the user's run in it.
SmokeTest ==
    /\ cmd \in {"move", "relink"} /\ pc = "start"
    /\ \/ CanStart /\ Started(to) /\ Goto("delete")
       \/ /\ Fails("start") \/ Fails("start late") \/ ~CanStart
          /\ held' = held \cup {to}
          /\ Goto(IF cmd = "move" THEN "terminate" ELSE "unwind")
          /\ \/ UNCHANGED running
             \/ Fails("start late") /\ CanStart /\ running' = TRUE
          /\ UNCHANGED files
    /\ UNCHANGED <<folder, reg, base, disk, settings, next, pending, stepVars>>

\* Terminate, whose error is ignored.
SmokeStop ==
    /\ cmd = "move" /\ pc = "terminate" /\ Goto("release")
    /\ running' = FALSE \/ (Fails("stop") /\ UNCHANGED running)
    /\ UNCHANGED <<files, folder, reg, base, disk, settings, next, held, pending,
                   stepVars>>

\* WaitForDisk.  While the disk stays held a renamed disk is
\* left where it is, with the registration, and a copy is not removed.
Leave(u) == IF u.do = "remove" THEN [u EXCEPT !.do = "leave"] ELSE u

SmokeFailed ==
    /\ cmd = "move" /\ pc = "release"
    /\ \/ held = {} /\ Goto("unwind") /\ UNCHANGED stepVars
       \/ held # {} /\ ByRename /\ Finish("left")
       \/ /\ held # {} /\ ~ByRename /\ Goto("unwind")
          /\ undo' = [i \in DOMAIN undo |-> Leave(undo[i])]
          /\ UNCHANGED <<from, to, file, todo, keep, late, uerr>>
    /\ UNCHANGED diskVars

\* The distribution runs from the new place: the original goes last, and a
\* failure to delete it is only reported.
DeleteSource ==
    /\ cmd \in {"move", "relink"} /\ pc = "delete"
    /\ LET owed == cmd = "move" /\ ~ByRename /\ ~keep IN
           \/ /\ owed /\ CanRemove(from, "disk")
              /\ files' = Removed(from, "disk")
           \/ /\ owed => Fails("remove") \/ ~CanRemove(from, "disk")
              /\ UNCHANGED files
    /\ Finish("done")
    /\ UNCHANGED <<folder, reg, base, disk, settings, next, running, held, pending>>

MoveUnwound ==
    /\ cmd \in {"move", "relink"} /\ pc = "unwind" /\ undo = <<>>
    /\ Finish(IF uerr THEN "stuck" ELSE "restored")
    /\ UNCHANGED diskVars

MoveStep ==
    \/ \E p \in world.dirs, k \in BOOLEAN : MoveBegin(p, k)
    \/ MoveMkdir \/ MoveRename \/ MoveCopy \/ MoveCopied
    \/ \E p \in Place : RelinkBegin(p)
    \/ Repoint \/ SmokeTest \/ SmokeStop \/ SmokeFailed
    \/ DeleteSource \/ MoveUnwound
=============================================================================
