----------------------------- MODULE DiskWorld -----------------------------
(***************************************************************************)
(* What the commands of internal/disk change: one distribution name, the   *)
(* files that hold its disk, and its registration with WSL.  The commands  *)
(* themselves are in Trash and in Move; DiskOps puts them together.        *)
(*                                                                         *)
(* A place is a directory: one the user named (Dir), or the folder of the  *)
(* trash that is named after the registration whose GUID it carries.  A    *)
(* place has at most one file of each kind.  A disk is identified by the   *)
(* GUID it was installed under, so two places that hold the same number    *)
(* hold equal disks.  The manifest of a trash folder is the GUID it        *)
(* describes.                                                              *)
(*                                                                         *)
(* A world says what may happen: the commands the user gives, in which     *)
(* directories and how many registrations, which of them are on another    *)
(* volume than the trash, which calls to Windows or to wsl.exe may fail,   *)
(* and whether the process may die between any two calls, when the         *)
(* rollbacks it had collected are gone.                                    *)
(***************************************************************************)
EXTENDS Integers, Sequences

CONSTANTS
    Dir,        \* directories the user keeps distributions in
    MaxGuid,    \* bound: registrations made, by an install or by an import
    Worlds      \* what may happen, of which one is chosen at first

Guid  == 1..MaxGuid
Place == Dir \cup Guid

ASSUME DiskAssumption ==
    /\ MaxGuid \in Nat /\ Dir \cap Guid = {}
    /\ \A w \in Worlds :
           /\ w.far \subseteq w.dirs /\ w.dirs \subseteq Dir /\ w.guids \in 0..MaxGuid
           /\ w.crash \in BOOLEAN

File    == {"disk", "sibling", "manifest"}
Nothing == 0
Stale   == -1     \* half-written, or an old copy of a disk that has moved on
Content == {Nothing, Stale} \cup Guid

UndoDo == {"rename", "remove", "leave", "repoint"}
Undo   == [do : UndoDo, file : File, at : Place, to : Place]

VARIABLES
    world,     \* what may happen, fixed
    files,     \* files[p][f]: what file f of place p holds
    folder,    \* trash folders that exist
    reg,       \* the GUID the name is registered under, or 0
    base,      \* base[g]: BasePath of registration g
    disk,      \* disk[g]: the disk that registration g is of
    settings,  \* settings[g]: default user, flags and default of g
    next,      \* the next GUID
    running,   \* the distribution is up
    held,      \* the places whose disk the utility VM has open
    pending,   \* the registration WSL removes for a killed wsl.exe, or 0
    cmd, pc,   \* the command under way and its next step
    from, to,  \* the directory the disk was in, and the one it goes to
    file, todo, keep,   \* its file, the files left, KeepSource
    undo,      \* its UndoStack, newest last
    late,      \* the rollback was caused by the unregister
    uerr,      \* a rollback failed
    outcome,   \* how the last command ended
    damaged,   \* history: a command died or could not put things back
    before,    \* history: files, reg and base when the command began
    purged,    \* history: the disks the user had purged
    orphaned,  \* history: the disks of registrations that were removed late
    ruined     \* history: what WSL deleted with them

diskVars  == <<files, folder, reg, base, disk, settings, next, running, held,
               pending>>
stepVars  == <<from, to, file, todo, keep, undo, late, uerr>>
histVars  == <<damaged, before, purged, orphaned, ruined>>
vars == <<world, diskVars, cmd, pc, stepVars, outcome, histVars>>

Empty == [f \in File |-> Nothing]

Init ==
    /\ world \in Worlds
    /\ files = [p \in Place |-> Empty] /\ folder = {}
    /\ reg = 0 /\ next = 1
    /\ base = [g \in Guid |-> g] /\ disk = [g \in Guid |-> g]
    /\ settings = [g \in Guid |-> "own"]
    /\ running = FALSE /\ held = {} /\ pending = 0
    /\ cmd = "none" /\ pc = "idle" /\ from \in world.dirs /\ to = from /\ file = "disk"
    /\ todo = {} /\ keep = FALSE /\ undo = <<>> /\ late = FALSE /\ uerr = FALSE
    /\ outcome = "none" /\ damaged = FALSE /\ purged = {}
    /\ orphaned = {} /\ ruined = {}
    /\ before = [files |-> files, reg |-> 0, base |-> base]

-----------------------------------------------------------------------------
(* Files.  Rename never replaces, a copy is made at a name that is not taken, *)
(* and nothing can be done to a disk the utility VM has open.                 *)

Fails(call) == call \in world.failing

SameVolume(p, q) == (p \in world.far) = (q \in world.far)

Free(p, f) == ~(f = "disk" /\ p \in held)

CanRename(p, q, f) ==
    files[p][f] # Nothing /\ Free(p, f) /\ (p = q \/ files[q][f] = Nothing)

\* Renaming a file to its own name succeeds and changes nothing.
Renamed(p, q, f) ==
    IF p = q THEN files
    ELSE [files EXCEPT ![q][f] = files[p][f], ![p][f] = Nothing]

CanRemove(p, f) == files[p][f] # Nothing /\ Free(p, f)

Removed(p, f) == [files EXCEPT ![p][f] = Nothing]

CanCopy(p, q, f) == files[p][f] # Nothing /\ Free(p, f) /\ files[q][f] = Nothing

Copied(p, q, f) == [files EXCEPT ![q][f] = files[p][f]]

-----------------------------------------------------------------------------
(* The distribution, which is up while its disk is open. *)

\* Only the disk it runs from is current from then on.
Started(p) ==
    /\ running' = TRUE /\ held' = held \cup {p}
    /\ files' = [q \in Place |->
           IF q # p /\ files[q]["disk"] = files[p]["disk"]
           THEN [files[q] EXCEPT !["disk"] = Stale] ELSE files[q]]

CanStart == ~running /\ files[base[reg]]["disk"] = disk[reg]

\* wsl --install, or an import of something new, under the same name.
Install(d) ==
    /\ cmd = "none" /\ reg = 0 /\ next <= world.guids /\ files[d]["disk"] = Nothing
    /\ reg' = next /\ next' = next + 1
    /\ base' = [base EXCEPT ![next] = d] /\ disk' = [disk EXCEPT ![next] = next]
    /\ \E s \in {files[d]["sibling"], next} :
           files' = [files EXCEPT ![d]["disk"] = next, ![d]["sibling"] = s]
    /\ UNCHANGED <<folder, settings, running, held, pending, cmd, pc, stepVars,
                   outcome, histVars>>

\* The user works in the distribution between two commands.
Use ==
    /\ cmd = "none" /\ reg # 0 /\ CanStart /\ Started(base[reg])
    /\ UNCHANGED <<folder, reg, base, disk, settings, next, pending, cmd, pc,
                   stepVars, outcome, histVars>>

\* It exits by itself, and the VM closes the disk some time after it stopped.
Exits ==
    /\ cmd = "none" /\ running /\ running' = FALSE
    /\ UNCHANGED <<files, folder, reg, base, disk, settings, next, held, pending,
                   cmd, pc, stepVars, outcome, histVars>>

Release ==
    /\ ~running /\ held # {} /\ held' = {}
    /\ UNCHANGED <<files, folder, reg, base, disk, settings, next, running, pending,
                   cmd, pc, stepVars, outcome, histVars>>

\* WSL goes on with what it was asked by a wsl.exe that is no longer there: it
\* stops the distribution and deletes what lies at its BasePath by then, unless
\* wslkit has it open.
UnregistersLate ==
    /\ pending # 0
    /\ reg' = 0 /\ pending' = 0 /\ running' = FALSE /\ held' = held \ {base[pending]}
    /\ orphaned' = orphaned \cup {disk[pending]}
    /\ IF pc = "copying" /\ file = "disk"
       THEN UNCHANGED <<files, ruined>>
       ELSE /\ files' = Removed(base[pending], "disk")
            /\ ruined' = ruined \cup {files[base[pending]]["disk"]}
    /\ UNCHANGED <<folder, base, disk, settings, next, cmd, pc, stepVars, outcome,
                   damaged, before, purged>>

-----------------------------------------------------------------------------
(* A command, from the prompt to its result. *)

Begin(c, first, origin, dest, k) ==
    /\ cmd = "none" /\ c \in world.commands
    /\ cmd' = c /\ pc' = first /\ from' = origin /\ to' = dest /\ keep' = k
    /\ file' = "disk" /\ todo' = {} /\ undo' = <<>> /\ late' = FALSE
    /\ uerr' = FALSE /\ outcome' = "none"
    /\ before' = [files |-> files, reg |-> reg, base |-> base]

Finish(how) ==
    /\ cmd' = "none" /\ pc' = "idle" /\ outcome' = how
    /\ damaged' = (damaged \/ how \in {"stuck", "crashed"})
    /\ undo' = <<>> /\ todo' = {}
    /\ UNCHANGED <<from, to, file, keep, late, uerr, before, purged, orphaned, ruined>>

Goto(p) == pc' = p /\ UNCHANGED <<cmd, outcome, histVars>>

\* Mutant: a rollback is not recorded.
PushNothing(u) == undo' = undo

Push(u) == undo' = Append(undo, u)

UndoOf(do, f, at, dest) == [do |-> do, file |-> f, at |-> at, to |-> dest]

\* UndoStack.Unwind runs the newest entry first and keeps going after one
\* fails.
UndoWorks(u) ==
    CASE u.do = "rename"  -> CanRename(u.at, u.to, u.file)
      [] u.do = "remove"  -> CanRemove(u.at, u.file)
      [] u.do = "leave"   -> FALSE
      [] u.do = "repoint" -> reg # 0

UndoCall(u) ==
    CASE u.do = "rename" -> "rename" [] u.do = "repoint" -> "registry"
      [] OTHER -> "remove"

UndoDone(u) ==
    /\ files' = CASE u.do = "rename" -> Renamed(u.at, u.to, u.file)
                  [] u.do = "remove" -> Removed(u.at, u.file)
                  [] OTHER -> files
    /\ base' = IF u.do = "repoint" THEN [base EXCEPT ![reg] = u.to] ELSE base
    /\ UNCHANGED uerr

Unwind ==
    /\ pc = "unwind" /\ undo # <<>>
    /\ LET u == undo[Len(undo)] IN
           \/ UndoWorks(u) /\ UndoDone(u)
           \/ /\ Fails(UndoCall(u)) \/ ~UndoWorks(u)
              /\ uerr' = TRUE /\ UNCHANGED <<files, base>>
    /\ undo' = SubSeq(undo, 1, Len(undo) - 1)
    /\ UNCHANGED <<folder, reg, disk, settings, next, running, held, pending, cmd, pc,
                   from, to, file, todo, keep, late, outcome, histVars>>

\* wslkit dies, or the machine loses power.
Crash ==
    /\ world.crash /\ cmd # "none"
    /\ Finish("crashed")
    /\ UNCHANGED diskVars

WorldStep ==
    \/ \E d \in world.dirs : Install(d)
    \/ Use \/ Exits \/ Release \/ UnregistersLate \/ Unwind \/ Crash
=============================================================================
