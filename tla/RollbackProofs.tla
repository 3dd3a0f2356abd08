---------------------------- MODULE RollbackProofs ----------------------------
(***************************************************************************)
(* What a trash, a move or a relink that fails leaves behind, and that the *)
(* registration is of a disk that is there.  The invariant says at every   *)
(* step which of the changes are still to be undone, and that all else is  *)
(* as the command found it.                                                *)
(***************************************************************************)
EXTENDS DiskProofs

\* The registration is of a disk that the user has neither purged nor replaced
\* by an old copy, and no command was cut short.
Current == ~damaged /\ reg # 0 /\ disk[reg] \in Guid \ purged

\* A change that is still to be undone.
Undoing(do, f) == \E i \in DOMAIN undo : undo[i].do = do /\ undo[i].file = f

AtHome == cmd \in {"none", "undelete"} /\ Current => Disk(base[reg]) = disk[reg]

\* What a command began with.
Began ==
    cmd \in {"trash", "move", "relink"} =>
    /\ from # to /\ outcome = "none" /\ (pc # "unwind" => ~uerr)
    /\ before.files \in FS /\ before.base \in [Guid -> Place]
    /\ before.reg \in Guid /\ before.base[before.reg] = from
    /\ Current => before.files[from]["disk"] = disk[reg]
    /\ \/ reg = before.reg
       \/ cmd = "trash" /\ reg = 0 /\ disk[before.reg] \in orphaned
    /\ cmd = "trash" => to = before.reg

\* The changes that are to be undone: one for each file, and one for the registration.
Entries ==
    cmd \in {"trash", "move", "relink"} =>
    /\ \A i \in DOMAIN undo : LET u == undo[i] IN
          /\ u.at = to /\ (u.do \in {"rename", "repoint"} => u.to = from)
          /\ cmd = "trash" => u.do = "rename"
          /\ cmd # "trash" => u.file = "disk" /\ (u.do # "repoint" => cmd = "move" /\ i = 1)
    /\ \A i, j \in DOMAIN undo :
          undo[i].do = "rename" /\ undo[j].do = "rename" /\ undo[i].file = undo[j].file
              /\ undo[i].file # "manifest" => i = j
    /\ pc \in {"stop", "wait", "mkdir"} => undo = <<>>
    /\ pc \in {"mkdir", "move", "copying", "repoint"} => ~Undoing("repoint", "disk")

\* A copy that is made, and one that is to be removed.
Copying(f) ==
    cmd = "move" /\ f = "disk" /\ (pc = "copying" \/ Undoing("remove", f) \/ Undoing("leave", f))

\* The disk was where the registration said, and WSL deleted both.
Gone(f) == reg = 0 /\ f = "disk" /\ files[from][f] = Nothing /\ before.files[from][f] \in ruined

\* The files are as they were, but for the changes that are to be undone.
FilesBack ==
    cmd \in {"trash", "move", "relink"} /\ ~uerr /\ pc # "delete" =>
    \A f \in {"disk", "sibling"} :
        /\ \A p \in Place : p \notin {from, to} => files[p][f] = before.files[p][f]
        /\ Undoing("rename", f) =>
              /\ files[from][f] = Nothing /\ files[to][f] = before.files[from][f]
              /\ before.files[to][f] = Nothing
        /\ ~Undoing("rename", f) =>
              /\ files[from][f] = before.files[from][f] \/ Gone(f)
              /\ IF Copying(f) THEN before.files[to][f] = Nothing
                 ELSE files[to][f] = before.files[to][f]

\* So is the registration.
BaseBack ==
    cmd \in {"trash", "move", "relink"} =>
    /\ ~uerr => \A g \in Guid :
          base[g] = before.base[g] \/ (g = reg /\ cmd # "trash" /\ Undoing("repoint", "disk"))
    /\ cmd # "trash" /\ pc \in {"start", "terminate", "release", "delete"} => base[reg] = to

\* Where a move will point the registration, or has, there is the disk; a relink
\* knows when the distribution has started from there.
Arrived ==
    /\ cmd = "move" /\ Current /\ pc \in {"repoint", "start", "terminate", "release", "delete"} =>
          Disk(to) = disk[reg]
    /\ cmd = "relink" /\ Current /\ pc = "delete" => Disk(to) = disk[reg]

BackInv == AtHome /\ Began /\ Entries /\ FilesBack /\ BaseBack /\ Arrived

\* A command is over.
LEMMA OverBack ==
    ASSUME cmd' \in {"none", "undelete"}, AtHome'
    PROVE  BackInv'
BY DEF BackInv, Began, Entries, FilesBack, BaseBack, Arrived

\* Nothing changes that the command will undo.
LEMMA StillBack ==
    ASSUME BackInv, UNCHANGED <<files, reg, base, disk, cmd, pc, from, to, undo, uerr, outcome,
                                damaged, before, purged, orphaned, ruined>>
    PROVE  BackInv'
BY DEF BackInv, AtHome, Began, Entries, FilesBack, Gone, BaseBack, Arrived, Current, Undoing, Copying, Disk

\* The user, the utility VM and a crash.
LEMMA WorldBack ==
    ASSUME TypeInv, BackInv, UNCHANGED world,
           (\E d \in world.dirs : Install(d)) \/ Use \/ Exits \/ Release \/ UnregistersLate
               \/ Crash \/ UNCHANGED vars
    PROVE  BackInv'
<1>1. ASSUME NEW d \in world.dirs, Install(d)
      PROVE  BackInv'
    <2>1. d \in Place /\ next \in Guid
        BY <1>1, WorldSorts, Sorts DEF TypeInv, DataOK, Install
    <2>2. PICK s \in {files[d]["sibling"], next} :
              files' = [files EXCEPT ![d]["disk"] = next, ![d]["sibling"] = s]
        BY <1>1 DEF Install
    <2>3. files'[d]["disk"] = next
        BY <2>1, <2>2, Members DEF FS, TypeInv, DataOK
    <2>4. reg' = next /\ base'[next] = d /\ disk'[next] = next /\ cmd' = "none"
        BY <1>1, <2>1 DEF Install, TypeInv, DataOK
    <2> QED
        BY <2>3, <2>4, OverBack DEF AtHome, Disk
<1>2. CASE Use
    <2>1. reg # 0 /\ reg \in Guid /\ base[reg] \in Place
        BY <1>2, Numbers DEF Use, TypeInv, DataOK
    <2>2. files'[base[reg]]["disk"] = Disk(base[reg])
        BY <1>2, <2>1, StartDisks DEF Use
    <2>3. UNCHANGED <<reg, base, disk, cmd, damaged, purged>> /\ cmd = "none"
        BY <1>2 DEF Use, histVars
    <2> QED
        BY <2>2, <2>3, OverBack DEF BackInv, AtHome, Current, Disk
<1>3. CASE Exits \/ Release \/ UNCHANGED vars
    BY <1>3, StillBack DEF Exits, Release, vars, diskVars, stepVars, histVars
<1>4. CASE Crash
    BY <1>4, OverBack DEF Crash, Finish, AtHome, Current
<1>5. CASE UnregistersLate
    <2>1. /\ pending = reg /\ reg # 0 /\ reg \in Guid /\ reg' = 0 /\ base[reg] \in Place
          /\ UNCHANGED <<base, disk, cmd, pc, from, to, undo, uerr, outcome, damaged, before, purged>>
          /\ orphaned' = orphaned \cup {disk[reg]}
          /\ \/ UNCHANGED <<files, ruined>>
             \/ files' = Removed(base[reg], "disk") /\ ruined' = ruined \cup {Disk(base[reg])}
        BY <1>5, Numbers DEF UnregistersLate, TypeInv, DataOK, stepVars, Disk
    <2>2. cmd \in {"none", "trash", "undelete"}
        BY <2>1 DEF TypeInv, DataOK, TargetsOK
    <2>3. AtHome'
        BY <2>1 DEF AtHome, Current
    <2>4. CASE cmd # "trash"
        BY <2>1, <2>2, <2>3, <2>4, OverBack
    <2>5. CASE cmd = "trash"
        <3>1. reg = before.reg /\ (base[reg] = from \/ uerr)
            BY <2>1, <2>5 DEF BackInv, Began, BaseBack
        <3>2. Began'
            BY <2>1, <2>5 DEF BackInv, Began, Current
        <3>3. \A do, f : Undoing(do, f)' <=> Undoing(do, f)
            BY <2>1 DEF Undoing
        <3>4. Entries' /\ BaseBack' /\ Arrived'
            BY <2>1, <2>5, <3>3 DEF BackInv, Entries, BaseBack, Arrived
        <3>5. FilesBack'
            <4>1. CASE uerr
                BY <2>1, <4>1 DEF FilesBack
            <4>2. CASE ~uerr /\ UNCHANGED <<files, ruined>>
                BY <2>1, <2>5, <3>3, <4>2 DEF BackInv, FilesBack, Gone, Copying
            <4>3. CASE ~uerr /\ files' = Removed(base[reg], "disk") /\ ruined' = ruined \cup {Disk(base[reg])}
                <5>1. base[reg] = from /\ from \in Place /\ to \in Place /\ from # to
                    BY <2>1, <2>5, <3>1, <4>3 DEF BackInv, Began, TypeInv, DataOK
                <5>2. \A r \in Place, h \in File :
                         files'[r][h] = IF r = from /\ h = "disk" THEN Nothing ELSE files[r][h]
                    BY <4>3, <5>1, RemoveOps, Members DEF TypeInv, DataOK
                <5> SUFFICES ASSUME pc # "delete", NEW f \in {"disk", "sibling"}
                             PROVE  /\ \A p \in Place : p \notin {from, to} => files'[p][f] = before.files[p][f]
                                    /\ Undoing("rename", f) =>
                                          /\ files'[from][f] = Nothing /\ files'[to][f] = before.files[from][f]
                                          /\ before.files[to][f] = Nothing
                                    /\ ~Undoing("rename", f) =>
                                          /\ files'[from][f] = before.files[from][f] \/ Gone(f)'
                                          /\ files'[to][f] = before.files[to][f]
                    BY <2>1, <2>5, <3>3 DEF FilesBack, Copying
                <5>3. /\ \A p \in Place : p \notin {from, to} => files[p][f] = before.files[p][f]
                      /\ Undoing("rename", f) =>
                            /\ files[from][f] = Nothing /\ files[to][f] = before.files[from][f]
                            /\ before.files[to][f] = Nothing
                      /\ ~Undoing("rename", f) =>
                            /\ files[from][f] = before.files[from][f] \/ Gone(f)
                            /\ files[to][f] = before.files[to][f]
                    BY <2>5, <4>3 DEF BackInv, FilesBack, Copying
                <5>4. f \in File /\ ~Gone(f)
                    BY <2>1, Sorts DEF Gone
                <5>5. \A p \in Place : p # from => files'[p][f] = files[p][f]
                    BY <5>2, <5>4
                <5>6. f # "disk" => files'[from][f] = files[from][f]
                    BY <5>1, <5>2, <5>4
                <5>7. f = "disk" => files'[from][f] = Nothing
                    BY <5>1, <5>2, <5>4
                <5>8. ~Undoing("rename", f) => files'[from][f] = before.files[from][f] \/ Gone(f)'
                    <6>1. CASE f # "disk"
                        BY <5>3, <5>4, <5>6, <6>1
                    <6>2. CASE f = "disk" /\ ~Undoing("rename", f)
                        <7>1. before.files[from][f] \in ruined'
                            BY <4>3, <5>1, <5>3, <5>4, <6>2 DEF Disk
                        <7> QED
                            BY <2>1, <5>7, <6>2, <7>1 DEF Gone
                    <6> QED
                        BY <6>1, <6>2
                <5> QED
                    BY <5>1, <5>3, <5>4, <5>5, <5>6, <5>7, <5>8
            <4> QED
                BY <2>1, <4>1, <4>2, <4>3
        <3> QED
            BY <2>3, <3>2, <3>4, <3>5 DEF BackInv
    <2> QED
        BY <2>4, <2>5
<1> QED
    BY <1>1, <1>2, <1>3, <1>4, <1>5

\* The changes that are to be undone, when one is added.
LEMMA PushedBack ==
    ASSUME UndoOK, NEW u \in Undo, undo' = Append(undo, u)
    PROVE  /\ \A do, f : Undoing(do, f)' <=> Undoing(do, f) \/ (u.do = do /\ u.file = f)
           /\ DOMAIN undo' = DOMAIN undo \cup {Len(undo) + 1} /\ undo'[Len(undo) + 1] = u
           /\ Len(undo) + 1 \notin DOMAIN undo
           /\ \A i \in DOMAIN undo : undo'[i] = undo[i]
           /\ undo = <<>> => DOMAIN undo' = {1}
<1>1. /\ DOMAIN undo' = DOMAIN undo \cup {Len(undo) + 1} /\ undo'[Len(undo) + 1] = u
      /\ \A i \in DOMAIN undo : undo'[i] = undo[i]
      /\ undo = <<>> => DOMAIN undo' = {1}
    BY AppendItems DEF UndoOK
<1>2. Len(undo) + 1 \notin DOMAIN undo
    BY LenProperties DEF UndoOK
<1> QED
    BY <1>1, <1>2 DEF Undoing

\* One change is undone, or could not be.
LEMMA UnwindBack ==
    ASSUME TypeInv, UndoOK, PlacesOK, BackInv, UNCHANGED world, Unwind
    PROVE  BackInv'
<1> DEFINE u == undo[Len(undo)]
<1>1. /\ DOMAIN undo' = 1..(Len(undo) - 1) /\ Len(undo) \in DOMAIN undo /\ Len(undo) \in Nat
      /\ \A i \in 1..(Len(undo) - 1) : i \in DOMAIN undo /\ undo'[i] = undo[i]
      /\ u \in Undo /\ DOMAIN undo = 1..Len(undo)
    BY PopItems DEF Unwind, UndoOK
<1>2. /\ pc = "unwind" /\ UNCHANGED <<reg, disk, cmd, pc, from, to, outcome, damaged, before, purged, orphaned, ruined>>
      /\ \/ UndoWorks(u) /\ UndoDone(u)
         \/ uerr' = TRUE /\ UNCHANGED <<files, base>>
    BY DEF Unwind, histVars
<1>3. cmd \in {"trash", "move", "relink"} /\ from \in Place /\ to \in Place /\ from # to
    BY <1>2 DEF TypeInv, DataOK, TargetsOK, PlacesOK, BackInv, Began
<1>4. \A i \in DOMAIN undo' : i \in DOMAIN undo /\ undo'[i] = undo[i] /\ i # Len(undo)
    BY <1>1
<1>5. \A do, f : /\ Undoing(do, f)' => Undoing(do, f)
                 /\ Undoing(do, f) /\ ~(u.do = do /\ u.file = f) => Undoing(do, f)'
    <2>1. \A i \in DOMAIN undo : i = Len(undo) \/ (i \in DOMAIN undo' /\ undo'[i] = undo[i])
        BY <1>1
    <2> QED
        BY <1>4, <2>1 DEF Undoing
<1>6. Entries' /\ Began' /\ AtHome' /\ Arrived'
    <2>1. Entries'
        BY <1>2, <1>3, <1>4 DEF BackInv, Entries
    <2>2. Began' /\ AtHome' /\ Arrived'
        BY <1>2, <1>3 DEF BackInv, Began, AtHome, Arrived, Current
    <2> QED
        BY <2>1, <2>2
<1>7. CASE uerr' = TRUE /\ UNCHANGED <<files, base>>
    BY <1>2, <1>6, <1>7 DEF BackInv, FilesBack, BaseBack
<1>8. CASE UndoWorks(u) /\ UndoDone(u) /\ uerr
    <2>1. uerr'
        BY <1>8 DEF UndoDone
    <2> QED
        BY <1>2, <1>6, <2>1 DEF BackInv, FilesBack, BaseBack
<1>9. CASE UndoWorks(u) /\ UndoDone(u) /\ ~uerr
    <2>1. /\ ~uerr' /\ u.at = to /\ (u.do \in {"rename", "repoint"} => u.to = from)
          /\ u.do \in {"rename", "remove", "repoint"} /\ u.file \in File
          /\ cmd # "trash" => u.file = "disk" /\ (u.do # "repoint" => cmd = "move" /\ Len(undo) = 1)
          /\ cmd = "trash" => u.do = "rename"
        BY <1>1, <1>3, <1>9 DEF BackInv, Entries, UndoDone, UndoWorks, Undo, UndoDo
    <2>2. FilesBack'
        <3> SUFFICES ASSUME NEW f \in {"disk", "sibling"}
                     PROVE  /\ \A p \in Place : p \notin {from, to} => files'[p][f] = before.files[p][f]
                            /\ Undoing("rename", f)' =>
                                  /\ files'[from][f] = Nothing /\ files'[to][f] = before.files[from][f]
                                  /\ before.files[to][f] = Nothing
                            /\ ~Undoing("rename", f)' =>
                                  /\ files'[from][f] = before.files[from][f] \/ Gone(f)'
                                  /\ IF Copying(f)' THEN before.files[to][f] = Nothing
                                     ELSE files'[to][f] = before.files[to][f]
            BY <1>2 DEF FilesBack
        <3>1. /\ \A p \in Place : p \notin {from, to} => files[p][f] = before.files[p][f]
              /\ Undoing("rename", f) =>
                    /\ files[from][f] = Nothing /\ files[to][f] = before.files[from][f]
                    /\ before.files[to][f] = Nothing
              /\ ~Undoing("rename", f) =>
                    /\ files[from][f] = before.files[from][f] \/ Gone(f)
                    /\ IF Copying(f) THEN before.files[to][f] = Nothing
                       ELSE files[to][f] = before.files[to][f]
            BY <1>2, <1>3, <1>9 DEF BackInv, FilesBack
        <3>2. f \in File
            BY Sorts
        <3>3. CASE u.do = "rename"
            <4>1. \A r \in Place, h \in File : files'[r][h] =
                     IF h = u.file /\ r = from THEN files[to][u.file]
                     ELSE IF h = u.file /\ r = to THEN Nothing ELSE files[r][h]
                BY <1>3, <1>9, <2>1, <3>3, RenameOps DEF UndoDone, TypeInv, DataOK
            <4>2. Copying(f)' <=> Copying(f)
                BY <1>2, <1>5, <3>3 DEF Copying
            <4>3. CASE u.file = f
                <5>1. Undoing("rename", f)
                    BY <1>1, <3>3, <4>3 DEF Undoing
                <5>2. ~Undoing("rename", f)'
                    BY <1>1, <1>3, <1>4, <3>3, <4>3 DEF BackInv, Entries, Undoing
                <5>3. files'[from][f] = before.files[from][f] /\ files'[to][f] = before.files[to][f]
                      /\ before.files[to][f] = Nothing
                    BY <1>3, <3>1, <3>2, <4>1, <4>3, <5>1
                <5> QED
                    BY <1>3, <3>1, <3>2, <4>1, <5>2, <5>3
            <4>4. CASE u.file # f
                <5>1. Undoing("rename", f)' <=> Undoing("rename", f)
                    BY <1>5, <4>4
                <5>2. \A p \in Place : files'[p][f] = files[p][f]
                    BY <3>2, <4>1, <4>4
                <5>3. Gone(f) => Gone(f)'
                    BY <1>2, <1>3, <5>2 DEF Gone
                <5> QED
                    BY <1>3, <3>1, <4>2, <5>1, <5>2, <5>3
            <4> QED
                BY <4>3, <4>4
        <3>4. CASE u.do = "remove"
            <4>1. cmd = "move" /\ u.file = "disk" /\ Len(undo) = 1
                BY <2>1, <3>4
            <4>2. \A r \in Place, h \in File :
                     files'[r][h] = IF r = to /\ h = "disk" THEN Nothing ELSE files[r][h]
                BY <1>3, <1>9, <2>1, <3>4, <4>1, RemoveOps, Members DEF UndoDone, TypeInv, DataOK
            <4>3. \A do, h : do \in {"rename", "remove", "leave"} =>
                     ~Undoing(do, h)' /\ (Undoing(do, h) <=> do = "remove" /\ h = "disk")
                BY <1>1, <3>4, <4>1 DEF Undoing
            <4>4. ~Copying(f)' /\ (Copying(f) <=> f = "disk")
                BY <1>2, <4>1, <4>3 DEF Copying
            <4>5. Gone(f) => Gone(f)'
                BY <1>2, <1>3, <3>2, <4>2 DEF Gone
            <4> QED
                BY <1>3, <3>1, <3>2, <4>2, <4>3, <4>4, <4>5
        <3>5. CASE u.do = "repoint"
            <4>1. files' = files
                BY <1>9, <3>5 DEF UndoDone
            <4>2. (Undoing("rename", f)' <=> Undoing("rename", f)) /\ (Copying(f)' <=> Copying(f))
                BY <1>2, <1>5, <3>5 DEF Copying
            <4>3. Gone(f) => Gone(f)'
                BY <1>2, <4>1 DEF Gone
            <4> QED
                BY <3>1, <4>1, <4>2, <4>3
        <3> QED
            BY <2>1, <3>3, <3>4, <3>5
    <2>3. BaseBack'
        <3>1. \A g \in Guid : base[g] = before.base[g] \/ (g = reg /\ cmd # "trash" /\ Undoing("repoint", "disk"))
            BY <1>3, <1>9 DEF BackInv, BaseBack
        <3>2. CASE u.do = "repoint"
            <4>1. reg = before.reg /\ before.base[reg] = from /\ reg \in Guid
                BY <1>3, <2>1, <3>2 DEF BackInv, Began
            <4>2. base' = [base EXCEPT ![reg] = from]
                BY <1>9, <2>1, <3>2 DEF UndoDone
            <4>3. \A g \in Guid : base'[g] = before.base[g]
                BY <3>1, <4>1, <4>2 DEF TypeInv, DataOK
            <4> QED
                BY <1>2, <4>3 DEF BaseBack
        <3>3. CASE u.do # "repoint"
            <4>1. base' = base
                BY <1>9, <3>3 DEF UndoDone
            <4>2. Undoing("repoint", "disk")' <=> Undoing("repoint", "disk")
                BY <1>5, <3>3
            <4> QED
                BY <1>2, <3>1, <4>1, <4>2 DEF BaseBack
        <3> QED
            BY <3>2, <3>3
    <2> QED
        BY <1>6, <2>2, <2>3 DEF BackInv
<1> QED
    BY <1>2, <1>7, <1>8, <1>9

\* Nothing is left to undo.
LEMMA AllUndone ==
    ASSUME TypeInv, BackInv, cmd \in {"trash", "move", "relink"}, reg # 0, ~uerr, pc # "delete",
           ~Undoing("rename", "disk"), ~Undoing("repoint", "disk")
    PROVE  base[reg] = from /\ (Current => Disk(from) = disk[reg])
<1>1. reg \in Guid /\ reg = before.reg /\ before.base[before.reg] = from
    BY Numbers DEF TypeInv, DataOK, BackInv, Began
<1>2. base[reg] = from
    BY <1>1 DEF BackInv, BaseBack
<1>3. files[from]["disk"] = before.files[from]["disk"]
    BY DEF BackInv, FilesBack, Gone
<1> QED
    BY <1>2, <1>3 DEF BackInv, Began, Disk

\* A trash that goes on and touches no disk.
LEMMA TrashGoesOn ==
    ASSUME TypeInv, BackInv, cmd = "trash", pc # "unwind", pc # "delete", pc' # "delete",
           UNCHANGED <<reg, base, disk, cmd, from, to, undo, uerr, outcome, damaged, before, purged, orphaned, ruined>>,
           pc' \in {"stop", "wait", "mkdir"} => undo = <<>>,
           \A p \in Place, f \in {"disk", "sibling"} : files'[p][f] = files[p][f]
    PROVE  BackInv'
<1>1. from \in Place /\ to \in Place
    BY DEF TypeInv, DataOK
<1>2. \A do, f : Undoing(do, f)' <=> Undoing(do, f)
    BY DEF Undoing
<1>3. ~Undoing("repoint", "disk")
    BY DEF BackInv, Entries, Undoing
<1>4. AtHome' /\ Began' /\ Arrived'
    BY DEF BackInv, AtHome, Began, Arrived, Current
<1>5. Entries'
    BY <1>2, <1>3 DEF BackInv, Entries
<1>8. \A f \in {"disk", "sibling"} : Gone(f)' <=> Gone(f)
    BY <1>1 DEF Gone
<1>6. FilesBack'
    BY <1>1, <1>2, <1>8 DEF BackInv, FilesBack, Copying
<1>7. BaseBack'
    BY <1>2 DEF BackInv, BaseBack
<1> QED
    BY <1>4, <1>5, <1>6, <1>7 DEF BackInv

\* A trash.
LEMMA TrashBack ==
    ASSUME TypeInv, UndoOK, OneVolume, PlacesOK, TrashMoves, BackInv, UNCHANGED world,
           \/ TrashBegin \/ TrashStop \/ TrashWait \/ TrashMkdir
           \/ TrashRename \/ TrashCopy \/ TrashCopied \/ TrashRemove
           \/ TrashList \/ TrashNext \/ WriteManifest \/ TrashUnregister \/ TrashClean
    PROVE  BackInv'
<1> USE DEF Goto, Finish, diskVars, stepVars, histVars
<1>1. CASE TrashBegin
    <2>1. /\ reg # 0 /\ reg \in Guid /\ "trash" \in world.commands /\ cmd = "none"
          /\ cmd' = "trash" /\ pc' = "stop" /\ from' = base[reg] /\ to' = reg /\ undo' = <<>> /\ ~uerr'
          /\ outcome' = "none" /\ before'.files = files /\ before'.reg = reg /\ before'.base = base
          /\ UNCHANGED <<files, reg, base, disk, damaged, purged, orphaned, ruined>>
        BY <1>1, Numbers DEF TrashBegin, Begin, TypeInv, DataOK
    <2>2. base[reg] # reg /\ files \in FS /\ base \in [Guid -> Place]
        BY <2>1 DEF PlacesOK, TypeInv, DataOK
    <2>3. Began'
        BY <2>1, <2>2 DEF BackInv, AtHome, Began, Current, Disk
    <2>4. \A do, f : ~Undoing(do, f)'
        BY <2>1 DEF Undoing
    <2>5. FilesBack' /\ BaseBack'
        BY <2>1, <2>4 DEF FilesBack, BaseBack, Copying
    <2> QED
        BY <2>1, <2>3, <2>4, <2>5 DEF BackInv, AtHome, Entries, Arrived
<1>2. ASSUME cmd = "trash", pc \notin {"unwind"}, pc # "delete"
      PROVE  /\ reg # 0 => reg = to /\ base[reg] = from
             /\ ~uerr /\ from \in Place /\ to \in Place /\ from # to
             /\ \A i \in DOMAIN undo : undo[i].do = "rename" /\ undo[i].at = to /\ undo[i].to = from
             /\ pc \in {"stop", "wait", "mkdir"} => undo = <<>>
    BY <1>2 DEF TypeInv, DataOK, TargetsOK, BackInv, Began, Entries
<1>3. CASE TrashStop \/ TrashWait \/ TrashMkdir
    <2>1. cmd = "trash" /\ pc \in {"stop", "wait", "mkdir"}
        BY <1>3 DEF TrashStop, TrashWait, TrashMkdir
    <2>4. \/ cmd' = "none" /\ damaged' = damaged /\ UNCHANGED <<files, reg, base, disk, purged>>
          \/ /\ pc' \in {"wait", "mkdir", "move"}
             /\ UNCHANGED <<files, reg, base, disk, cmd, from, to, undo, uerr, outcome, damaged, before, purged, orphaned, ruined>>
        <3>1. CASE TrashStop
            BY <3>1 DEF TrashStop, GiveUp, TypeInv, DataOK
        <3>2. CASE TrashWait
            BY <3>2 DEF TrashWait, GiveUp, TypeInv, DataOK
        <3>3. CASE TrashMkdir
            BY <3>3 DEF TrashMkdir, GiveUp, TypeInv, DataOK
        <3> QED
            BY <1>3, <3>1, <3>2, <3>3
    <2>2. CASE cmd' = "none" /\ damaged' = damaged /\ UNCHANGED <<files, reg, base, disk, purged>>
        <3>1. ~Undoing("rename", "disk") /\ ~Undoing("repoint", "disk")
            BY <1>2, <2>1 DEF Undoing
        <3>2. reg # 0 => base[reg] = from /\ (Current => Disk(from) = disk[reg])
            BY <1>2, <2>1, <3>1, AllUndone
        <3>3. AtHome'
            BY <2>2, <3>2 DEF AtHome, Current, Disk
        <3> QED
            BY <2>2, <3>3, OverBack
    <2>3. CASE /\ pc' \in {"wait", "mkdir", "move"}
               /\ UNCHANGED <<files, reg, base, disk, cmd, from, to, undo, uerr, outcome, damaged, before, purged, orphaned, ruined>>
        BY <1>2, <2>1, <2>3, TrashGoesOn
    <2> QED
        BY <2>2, <2>3, <2>4
<1>4. CASE TrashRename
    <2>1. cmd = "trash" /\ pc = "move" /\ UNCHANGED <<reg, base, disk, cmd, from, to, uerr, outcome, damaged, before, purged, orphaned, ruined>>
        BY <1>4 DEF TrashRename, Abort
    <2>2. CASE Abort /\ UNCHANGED files
        BY <2>1, <2>2, TrashGoesOn DEF Abort
    <2>3. CASE /\ CanRename(from, to, file) /\ files' = Renamed(from, to, file)
               /\ Push(UndoOf("rename", file, to, from)) /\ Goto(AfterFile)
        <3>1. from \in Place /\ to \in Place /\ from # to /\ file \in File /\ ~uerr
            BY <1>2, <2>1 DEF TypeInv, DataOK
        <3>2. \A r \in Place, h \in File : files'[r][h] =
                 IF h = file /\ r = to THEN files[from][file]
                 ELSE IF h = file /\ r = from THEN Nothing ELSE files[r][h]
            BY <2>3, <3>1, RenameOps DEF TypeInv, DataOK
        <3>3. files[from][file] # Nothing /\ files[to][file] = Nothing
            BY <2>3, <3>1 DEF CanRename
        <3> DEFINE u == [do |-> "rename", file |-> file, at |-> to, to |-> from]
        <3>4. u \in Undo /\ undo' = Append(undo, u)
            BY <2>3, <3>1 DEF Push, UndoOf, Undo, UndoDo
        <3>5. /\ \A do, f : Undoing(do, f)' <=> Undoing(do, f) \/ ("rename" = do /\ file = f)
              /\ DOMAIN undo' = DOMAIN undo \cup {Len(undo) + 1} /\ undo'[Len(undo) + 1] = u
              /\ Len(undo) + 1 \notin DOMAIN undo
              /\ \A i \in DOMAIN undo : undo'[i] = undo[i]
            BY <3>4, PushedBack
        <3>6. pc' \in {"list", "next"}
            BY <2>3 DEF AfterFile
        <3>7. \A f \in {"disk", "sibling"} :
                 /\ \A p \in Place : p \notin {from, to} => files[p][f] = before.files[p][f]
                 /\ Undoing("rename", f) =>
                       /\ files[from][f] = Nothing /\ files[to][f] = before.files[from][f]
                       /\ before.files[to][f] = Nothing
                 /\ ~Undoing("rename", f) =>
                       /\ files[from][f] = before.files[from][f] \/ Gone(f)
                       /\ files[to][f] = before.files[to][f]
            BY <2>1, <3>1 DEF BackInv, FilesBack, Copying
        <3>8. FilesBack'
            <4> SUFFICES ASSUME NEW f \in {"disk", "sibling"}
                         PROVE  /\ \A p \in Place : p \notin {from, to} => files'[p][f] = before.files[p][f]
                                /\ Undoing("rename", f)' =>
                                      /\ files'[from][f] = Nothing /\ files'[to][f] = before.files[from][f]
                                      /\ before.files[to][f] = Nothing
                                /\ ~Undoing("rename", f)' =>
                                      /\ files'[from][f] = before.files[from][f] \/ Gone(f)'
                                      /\ files'[to][f] = before.files[to][f]
                BY <2>1 DEF FilesBack, Copying
            <4>1. f \in File
                BY Sorts
            <4>2. CASE f = file
                <5>1. ~Gone(f)
                    BY <3>3, <4>2 DEF Gone
                <5> QED
                    BY <3>1, <3>2, <3>3, <3>5, <3>7, <4>1, <4>2, <5>1
            <4>3. CASE f # file
                <5>1. Gone(f) => Gone(f)'
                    BY <2>1, <3>1, <3>2, <4>1, <4>3 DEF Gone
                <5> QED
                    BY <3>1, <3>2, <3>5, <3>7, <4>1, <4>3, <5>1
            <4> QED
                BY <4>2, <4>3
        <3>9. Entries'
            <4>1. \A i \in DOMAIN undo' : undo'[i].at = to /\ undo'[i].do = "rename" /\ undo'[i].to = from
                BY <1>2, <2>1, <3>5
            <4>2. file # "manifest" => \A i \in DOMAIN undo : undo[i].file # file
                <5>1. file \in {"disk", "sibling"} => ~Undoing("rename", file)
                    BY <3>3, <3>7
                <5> QED
                    <6> SUFFICES ASSUME file # "manifest", NEW i \in DOMAIN undo, undo[i].file = file
                                 PROVE  FALSE
                        OBVIOUS
                    <6>1. undo[i].do = "rename"
                        BY <1>2, <2>1
                    <6>2. file \in {"disk", "sibling"}
                        BY <3>1, Sorts
                    <6> QED
                        BY <5>1, <6>1, <6>2 DEF Undoing
            <4>3. \A i, j \in DOMAIN undo' :
                     undo'[i].do = "rename" /\ undo'[j].do = "rename" /\ undo'[i].file = undo'[j].file
                         /\ undo'[i].file # "manifest" => i = j
                <5>1. \A i, j \in DOMAIN undo :
                         undo[i].do = "rename" /\ undo[j].do = "rename" /\ undo[i].file = undo[j].file
                             /\ undo[i].file # "manifest" => i = j
                    BY <2>1 DEF BackInv, Entries
                <5>2. undo'[Len(undo) + 1].file = file
                    BY <3>5
                <5> QED
                    BY <3>5, <4>2, <5>1, <5>2
            <4>4. ~Undoing("repoint", "disk")'
                BY <4>1 DEF Undoing
            <4> QED
                BY <2>1, <3>6, <4>1, <4>3, <4>4 DEF Entries
        <3> QED
            BY <2>1, <3>1, <3>5, <3>6, <3>8, <3>9 DEF BackInv, AtHome, Began, BaseBack, Arrived, Current
    <2> QED
        BY <1>4, <2>2, <2>3 DEF TrashRename
<1>5. CASE TrashCopy \/ TrashCopied \/ TrashRemove
    BY <1>5, NoCopies DEF TrashCopy, TrashCopied, TrashRemove, TrashMoves
<1>6. CASE TrashList \/ TrashNext
    BY <1>6, TrashGoesOn DEF TrashList, TrashNext
<1>7. CASE WriteManifest
    <2>1. /\ cmd = "trash" /\ pc = "manifest" /\ pc' \in {"unregister", "unwind"}
          /\ UNCHANGED <<reg, base, disk, cmd, from, to, undo, uerr, outcome, damaged, before, purged, orphaned, ruined>>
          /\ files' = files \/ \E c \in Content : files' = [files EXCEPT ![to]["manifest"] = c]
        BY <1>7, ManifestWrites DEF WriteManifest, Abort
    <2>2. to \in Place /\ "manifest" \in File /\ files \in FS
        BY Members DEF TypeInv, DataOK
    <2>3. ASSUME NEW c \in Content, files' = [files EXCEPT ![to]["manifest"] = c]
          PROVE  \A p \in Place, f \in File : f # "manifest" => files'[p][f] = files[p][f]
        <3>1. \A p \in Place, f \in File :
                 [files EXCEPT ![to]["manifest"] = c][p][f] = IF p = to /\ f = "manifest" THEN c ELSE files[p][f]
            BY <2>2, <2>3, WriteOps
        <3> QED
            BY <2>3, <3>1
    <2>5. \A f \in {"disk", "sibling"} : f \in File /\ f # "manifest"
        BY Sorts
    <2>4. \A p \in Place, f \in {"disk", "sibling"} : files'[p][f] = files[p][f]
        <3>1. CASE files' = files
            BY <3>1
        <3>2. ASSUME NEW c \in Content, files' = [files EXCEPT ![to]["manifest"] = c]
              PROVE  \A p \in Place, f \in {"disk", "sibling"} : files'[p][f] = files[p][f]
            BY <2>3, <2>5, <3>2
        <3> QED
            BY <2>1, <3>1, <3>2
    <2> QED
        BY <2>1, <2>4, TrashGoesOn
<1>8. CASE TrashUnregister
    <2>1. /\ cmd = "trash" /\ pc = "unregister" /\ UNCHANGED <<base, disk, purged>>
        BY <1>8 DEF TrashUnregister
    <2>2. CASE /\ UNCHANGED <<files, reg, cmd, from, to, undo, uerr, outcome, damaged, before, orphaned, ruined>>
               /\ pc' = "unwind"
        BY <2>1, <2>2, TrashGoesOn
    <2>3. CASE Unregistered /\ cmd' = "none"
        BY <2>3, OverBack DEF Unregistered, AtHome, Current
    <2> QED
        BY <1>8, <2>2, <2>3 DEF TrashUnregister
<1>9. CASE TrashClean
    <2>1. /\ cmd = "trash" /\ pc = "unwind" /\ undo = <<>> /\ UNCHANGED <<reg, base, disk, purged>>
          /\ cmd' = "none" /\ damaged' = (damaged \/ uerr)
          /\ files' = files \/ files' = Removed(to, "manifest")
        BY <1>9 DEF TrashClean
    <2>2. \A p \in Place : files'[p]["disk"] = Disk(p)
        BY <2>1, RemoveDisks, Members DEF Disk, TypeInv, DataOK
    <2>3. CASE uerr \/ reg = 0
        BY <2>1, <2>3, OverBack DEF AtHome, Current
    <2>4. CASE ~uerr /\ reg # 0
        <3>1. ~Undoing("rename", "disk") /\ ~Undoing("repoint", "disk")
            BY <2>1 DEF Undoing
        <3>2. base[reg] = from /\ (Current => Disk(from) = disk[reg])
            BY <2>1, <2>4, <3>1, AllUndone
        <3>3. from \in Place
            BY DEF TypeInv, DataOK
        <3> QED
            BY <2>1, <2>2, <2>4, <3>2, <3>3, OverBack DEF AtHome, Current, Disk
    <2> QED
        BY <2>3, <2>4
<1> QED
    BY <1>1, <1>3, <1>4, <1>5, <1>6, <1>7, <1>8, <1>9

\* Undelete and purge.
LEMMA UndeleteBack ==
    ASSUME TypeInv, BackInv, UNCHANGED world,
           \/ UndeleteImported \/ UndeleteSettings
           \/ \E g \in Guid : UndeleteImport(g) \/ Purge(g)
    PROVE  BackInv'
<1> USE DEF Goto, Finish, diskVars, stepVars, histVars
<1>1. ASSUME NEW g \in Guid, UndeleteImport(g)
      PROVE  BackInv'
    BY <1>1, OverBack DEF UndeleteImport, Begin, AtHome, Current
<1>2. CASE UndeleteImported
    <2>1. cmd = "undelete" /\ pc = "import" /\ reg = 0 /\ to \in Guid /\ files' = files /\ next <= MaxGuid
          /\ cmd' \in {"none", "undelete"}
        BY <1>2 DEF UndeleteImported, TypeInv, TargetsOK, Imported
    <2>2. next \in Guid
        BY <2>1, Numbers DEF TypeInv, DataOK
    <2>3. CASE reg' = 0
        BY <2>1, <2>3, OverBack DEF AtHome, Current
    <2>4. CASE Imported(to)
        <3>1. reg' = next /\ base'[next] = to /\ disk'[next] = Disk(to)
            BY <2>2, <2>4 DEF Imported, TypeInv, DataOK, Disk
        <3> QED
            BY <2>1, <3>1, OverBack DEF AtHome, Disk
    <2> QED
        BY <1>2, <2>1, <2>3, <2>4 DEF UndeleteImported
<1>3. CASE UndeleteSettings
    BY <1>3, OverBack DEF UndeleteSettings, BackInv, AtHome, Current, Disk, TypeInv, DataOK
<1>4. ASSUME NEW g \in Guid, Purge(g)
      PROVE  BackInv'
    <2>1. PICK gone \in SUBSET {f \in File : CanRemove(g, f)} :
              files' = [files EXCEPT ![g] = [f \in File |-> IF f \in gone THEN Nothing ELSE @[f]]]
        BY <1>4 DEF Purge
    <2>2. \A p \in Place : p # g => files'[p]["disk"] = Disk(p)
        BY <2>1, Members DEF TypeInv, DataOK, FS, Disk
    <2>3. /\ UNCHANGED <<reg, base, disk, cmd, damaged>> /\ cmd = "none"
          /\ purged' = purged \cup (Guid \cap {Disk(g)})
        BY <1>4 DEF Purge, Disk
    <2>4. reg # 0 => base[reg] \in Place
        BY Numbers DEF TypeInv, DataOK
    <2>5. AtHome'
        BY <2>2, <2>3, <2>4 DEF BackInv, AtHome, Current, Disk
    <2> QED
        BY <2>3, <2>5, OverBack
<1> QED
    BY <1>1, <1>2, <1>3, <1>4

\* A move or a relink that goes on.
LEMMA MoveBack ==
    ASSUME TypeInv, UndoOK, MoveKeeps, RelinkKeeps, BackInv, UNCHANGED world,
           \/ \E p \in world.dirs, k \in BOOLEAN : MoveBegin(p, k)
           \/ \E p \in Place : RelinkBegin(p)
           \/ MoveMkdir \/ MoveRename \/ MoveCopy \/ MoveCopied
    PROVE  BackInv'
<1> USE DEF Goto, Finish, Return, diskVars, stepVars, histVars
<1>1. ASSUME NEW p, NEW k, MoveBegin(p, k) \/ RelinkBegin(p)
      PROVE  BackInv'
    <2>1. /\ reg # 0 /\ reg \in Guid /\ cmd = "none" /\ p # base[reg]
          /\ from' = base[reg] /\ to' = p /\ undo' = <<>> /\ ~uerr'
          /\ outcome' = "none" /\ before'.files = files /\ before'.reg = reg /\ before'.base = base
          /\ UNCHANGED <<files, reg, base, disk, damaged, purged, orphaned, ruined>>
          /\ \/ cmd' = "move" /\ pc' = "mkdir"
             \/ cmd' = "relink" /\ pc' = "repoint"
        BY <1>1, Numbers DEF MoveBegin, RelinkBegin, Begin, TypeInv, DataOK, Disk
    <2>2. files \in FS /\ base \in [Guid -> Place]
        BY DEF TypeInv, DataOK
    <2>3. Began'
        BY <2>1, <2>2 DEF BackInv, AtHome, Began, Current, Disk
    <2>4. \A do, f : ~Undoing(do, f)'
        BY <2>1 DEF Undoing
    <2>5. FilesBack' /\ BaseBack'
        BY <2>1, <2>4 DEF FilesBack, BaseBack, Copying
    <2> QED
        BY <2>1, <2>3, <2>4, <2>5 DEF BackInv, AtHome, Entries, Arrived, Disk
<1>2. ASSUME cmd = "move", pc \in {"mkdir", "move", "copying"}
      PROVE  /\ reg # 0 /\ ~uerr /\ from \in Place /\ to \in Place /\ from # to /\ undo = <<>>
             /\ base[reg] = from /\ (Current => Disk(from) = disk[reg])
             /\ \A do, f : ~Undoing(do, f)
             /\ \A f \in {"disk", "sibling"} :
                   /\ \A p \in Place : p # to => files[p][f] = before.files[p][f]
                   /\ IF pc = "copying" /\ f = "disk" THEN before.files[to][f] = Nothing
                      ELSE files[to][f] = before.files[to][f]
    <2>1. /\ reg # 0 /\ ~uerr /\ from \in Place /\ to \in Place /\ from # to /\ undo = <<>>
        BY <1>2 DEF TypeInv, DataOK, TargetsOK, BackInv, Began, MoveKeeps
    <2>2. \A do, f : ~Undoing(do, f)
        BY <2>1 DEF Undoing
    <2>3. base[reg] = from /\ (Current => Disk(from) = disk[reg])
        BY <1>2, <2>1, <2>2, AllUndone
    <2> QED
        BY <1>2, <2>1, <2>2, <2>3 DEF BackInv, FilesBack, Gone, Copying
<1>3. ASSUME cmd = "move", pc \in {"mkdir", "move", "copying"}, cmd' = "none",
             UNCHANGED <<reg, base, disk, damaged, purged>>, files'[from]["disk"] = Disk(from)
      PROVE  BackInv'
    <2>1. AtHome'
        BY <1>2, <1>3 DEF AtHome, Current, Disk
    <2> QED
        BY <1>3, <2>1, OverBack
<1>4. ASSUME cmd = "move", pc \in {"mkdir", "move", "copying"}, pc' \in {"move", "copying", "repoint"},
             UNCHANGED <<reg, base, disk, cmd, from, to, uerr, outcome, damaged, before, purged, orphaned, ruined>>,
             Entries', FilesBack', ~Undoing("repoint", "disk")', pc' = "repoint" => files'[to]["disk"] = Disk(from)
      PROVE  BackInv'
    <2>1. BaseBack'
        BY <1>2, <1>4 DEF BackInv, BaseBack
    <2>2. Began' /\ AtHome'
        BY <1>2, <1>4 DEF BackInv, Began, AtHome, Current
    <2>3. Arrived'
        BY <1>2, <1>4 DEF Arrived, Current, Disk
    <2> QED
        BY <1>4, <2>1, <2>2, <2>3 DEF BackInv
<1>5. CASE MoveMkdir
    <2>1. cmd = "move" /\ pc = "mkdir" /\ UNCHANGED <<files, reg, base, disk, purged>>
        BY <1>5 DEF MoveMkdir
    <2>2. CASE cmd' = "none" /\ damaged' = damaged
        BY <1>3, <2>1, <2>2 DEF Disk
    <2>3. CASE pc' = "move" /\ UNCHANGED <<cmd, from, to, undo, uerr, outcome, damaged, before, orphaned, ruined>>
        <3>1. \A do, f : ~Undoing(do, f)'
            BY <1>2, <2>1, <2>3 DEF Undoing
        <3>2. Entries' /\ FilesBack'
            BY <1>2, <2>1, <2>3, <3>1 DEF Entries, FilesBack, Copying
        <3> QED
            BY <1>4, <2>1, <2>3, <3>1, <3>2
    <2> QED
        BY <1>5, <2>2, <2>3 DEF MoveMkdir, TypeInv, DataOK
<1>6. CASE MoveRename
    <2>1. cmd = "move" /\ pc = "move" /\ UNCHANGED <<reg, base, disk, purged>>
        BY <1>6 DEF MoveRename
    <2>2. CASE cmd' = "none" /\ damaged' = damaged /\ files' = files
        BY <1>3, <2>1, <2>2 DEF Disk
    <2>3. CASE /\ CanRename(from, to, "disk") /\ files' = Renamed(from, to, "disk")
               /\ Push(UndoOf("rename", "disk", to, from)) /\ pc' = "repoint"
               /\ UNCHANGED <<cmd, from, to, uerr, outcome, damaged, before, orphaned, ruined>>
        <3>1. \A r \in Place, h \in File : files'[r][h] =
                 IF h = "disk" /\ r = to THEN files[from]["disk"]
                 ELSE IF h = "disk" /\ r = from THEN Nothing ELSE files[r][h]
            BY <1>2, <2>1, <2>3, RenameOps, Members DEF TypeInv, DataOK
        <3>2. files[to]["disk"] = Nothing
            BY <1>2, <2>1, <2>3 DEF CanRename
        <3> DEFINE u == [do |-> "rename", file |-> "disk", at |-> to, to |-> from]
        <3>3. u \in Undo /\ undo' = Append(undo, u)
            BY <1>2, <2>1, <2>3, Members DEF Push, UndoOf, Undo, UndoDo
        <3>4. /\ \A do, f : Undoing(do, f)' <=> do = "rename" /\ f = "disk"
              /\ DOMAIN undo' = {Len(undo) + 1} /\ undo'[Len(undo) + 1] = u /\ Len(undo) + 1 = 1
            BY <1>2, <2>1, <3>3, PushedBack
        <3>5. Entries'
            BY <2>1, <2>3, <3>4 DEF Entries
        <3>6. FilesBack'
            BY <1>2, <2>1, <2>3, <3>1, <3>2, <3>4, Members DEF FilesBack, Copying
        <3>7. files'[to]["disk"] = Disk(from)
            BY <1>2, <2>1, <3>1, Members DEF Disk
        <3> QED
            BY <1>4, <2>1, <2>3, <3>4, <3>5, <3>6, <3>7
    <2> QED
        BY <1>6, <2>2, <2>3 DEF MoveRename, TypeInv, DataOK
<1>7. CASE MoveCopy
    <2>1. cmd = "move" /\ pc = "move" /\ UNCHANGED <<reg, base, disk, purged>>
        BY <1>7 DEF MoveCopy
    <2>2. CASE cmd' = "none" /\ damaged' = damaged /\ files' = files
        BY <1>3, <2>1, <2>2 DEF Disk
    <2>3. CASE /\ files[to]["disk"] = Nothing /\ files' = [files EXCEPT ![to]["disk"] = Stale]
               /\ pc' = "copying" /\ UNCHANGED <<cmd, from, to, undo, uerr, outcome, damaged, before, orphaned, ruined>>
        <3>1. Stale \in Content /\ "disk" \in File /\ files \in FS
            BY Members DEF TypeInv, DataOK
        <3>2. \A r \in Place, h \in File :
                 [files EXCEPT ![to]["disk"] = Stale][r][h] = IF r = to /\ h = "disk" THEN Stale ELSE files[r][h]
            <4>1. to \in Place
                BY <1>2, <2>1
            <4> QED
                BY <2>3, <3>1, <4>1, WriteOps
        <3>3. \A do, f : ~Undoing(do, f)'
            BY <1>2, <2>1, <2>3 DEF Undoing
        <3>4. Entries'
            BY <1>2, <2>1, <2>3, <3>3 DEF Entries
        <3>5. FilesBack'
            BY <1>2, <2>1, <2>3, <3>2, <3>3, Members DEF FilesBack, Copying
        <3> QED
            BY <1>4, <2>1, <2>3, <3>3, <3>4, <3>5
    <2> QED
        BY <1>7, <2>2, <2>3 DEF MoveCopy, CanCopy, TypeInv, DataOK
<1>8. CASE MoveCopied
    <2>1. cmd = "move" /\ pc = "copying" /\ UNCHANGED <<reg, base, disk, purged>>
        BY <1>8 DEF MoveCopied
    <2>2. CASE cmd' = "none" /\ damaged' = damaged /\ (files' = Removed(to, "disk") \/ files' = files)
        <3>1. files'[from]["disk"] = Disk(from)
            BY <1>2, <2>1, <2>2, RemoveDisks, Members DEF Disk
        <3> QED
            BY <1>3, <2>1, <2>2, <3>1
    <2>3. CASE /\ files' = Copied(from, to, "disk")
               /\ Push(UndoOf("remove", "disk", to, to)) /\ pc' = "repoint"
               /\ UNCHANGED <<cmd, from, to, uerr, outcome, damaged, before, orphaned, ruined>>
        <3>1. \A r \in Place, h \in File : files'[r][h] =
                 IF r = to /\ h = "disk" THEN files[from]["disk"] ELSE files[r][h]
            BY <1>2, <2>1, <2>3, CopiedOps, Members DEF TypeInv, DataOK
        <3> DEFINE u == [do |-> "remove", file |-> "disk", at |-> to, to |-> to]
        <3>3. u \in Undo /\ undo' = Append(undo, u)
            BY <1>2, <2>1, <2>3, Members DEF Push, UndoOf, Undo, UndoDo
        <3>4. /\ \A do, f : Undoing(do, f)' <=> do = "remove" /\ f = "disk"
              /\ DOMAIN undo' = {Len(undo) + 1} /\ undo'[Len(undo) + 1] = u /\ Len(undo) + 1 = 1
            BY <1>2, <2>1, <3>3, PushedBack
        <3>5. Entries'
            <4>1. \A i \in DOMAIN undo' :
                     i = 1 /\ undo'[i].do = "remove" /\ undo'[i].file = "disk" /\ undo'[i].at = to
                BY <3>4
            <4>2. ~Undoing("repoint", "disk")'
                BY <3>4
            <4>3. cmd' = "move" /\ pc' = "repoint" /\ to' = to /\ from' = from
                BY <2>1, <2>3
            <4>4. \A i \in DOMAIN undo' :
                     /\ undo'[i].at = to' /\ (undo'[i].do \in {"rename", "repoint"} => undo'[i].to = from')
                     /\ cmd' = "trash" => undo'[i].do = "rename"
                     /\ cmd' # "trash" => undo'[i].file = "disk" /\ (undo'[i].do # "repoint" => cmd' = "move" /\ i = 1)
                BY <4>1, <4>3
            <4>5. \A i, j \in DOMAIN undo' : i = j
                BY <4>1
            <4> QED
                BY <4>2, <4>3, <4>4, <4>5 DEF Entries
        <3>6. FilesBack'
            BY <1>2, <2>1, <2>3, <3>1, <3>4, Members DEF FilesBack, Copying
        <3>7. files'[to]["disk"] = Disk(from)
            BY <1>2, <2>1, <3>1, Members DEF Disk
        <3> QED
            BY <1>4, <2>1, <2>3, <3>4, <3>5, <3>6, <3>7
    <2> QED
        BY <1>8, <2>2, <2>3 DEF MoveCopied, TypeInv, DataOK
<1> QED
    BY <1>1, <1>5, <1>6, <1>7, <1>8

\* A move or a relink once the disk is where it goes.
LEMMA MovedBack ==
    ASSUME TypeInv, UndoOK, BackInv, UNCHANGED world,
           Repoint \/ SmokeTest \/ SmokeStop \/ SmokeFailed \/ DeleteSource \/ MoveUnwound
    PROVE  BackInv'
<1> USE DEF Goto, Finish, diskVars, stepVars, histVars
<1>1. /\ cmd \in {"move", "relink"} /\ reg # 0 /\ reg \in Guid /\ reg = before.reg /\ before.base[reg] = from
      /\ from \in Place /\ to \in Place /\ from # to
    BY Numbers DEF Repoint, SmokeTest, SmokeStop, SmokeFailed, DeleteSource, MoveUnwound, TypeInv, DataOK, TargetsOK, BackInv, Began
<1>2. CASE Repoint
    <2>1. /\ pc = "repoint" /\ ~uerr /\ pc' \in {"start", "unwind"}
          /\ UNCHANGED <<files, reg, disk, cmd, from, to, uerr, outcome, damaged, before, purged, orphaned, ruined>>
          /\ \/ base' = [base EXCEPT ![reg] = to] /\ undo' = Append(undo, UndoOf("repoint", "disk", to, base[reg]))
             \/ pc' = "unwind" /\ UNCHANGED <<base, undo>>
        BY <1>1, <1>2 DEF Repoint, Push, BackInv, Began
    <2>2. ~Undoing("repoint", "disk") /\ (\A g \in Guid : base[g] = before.base[g]) /\ base[reg] = from
        BY <1>1, <2>1 DEF BackInv, Entries, BaseBack
    <2>3. Began' /\ AtHome' /\ (pc' = "start" => Arrived')
        BY <1>1, <2>1 DEF BackInv, Began, AtHome, Arrived, Current, Disk
    <2>4. CASE pc' = "unwind" /\ UNCHANGED <<base, undo>>
        <3>1. \A do, f : Undoing(do, f)' <=> Undoing(do, f)
            BY <2>4 DEF Undoing
        <3>2. Entries' /\ FilesBack'
            BY <1>1, <2>1, <2>4, <3>1 DEF BackInv, Entries, FilesBack, Gone, Copying
        <3> QED
            BY <1>1, <2>1, <2>2, <2>3, <2>4, <3>2 DEF BackInv, BaseBack, Arrived
    <2>5. CASE base' = [base EXCEPT ![reg] = to] /\ undo' = Append(undo, UndoOf("repoint", "disk", to, base[reg]))
        <3> DEFINE u == [do |-> "repoint", file |-> "disk", at |-> to, to |-> from]
        <3>1. u \in Undo /\ undo' = Append(undo, u)
            BY <1>1, <2>2, <2>5, Members DEF UndoOf, Undo, UndoDo
        <3>2. /\ \A do, f : Undoing(do, f)' <=> Undoing(do, f) \/ (do = "repoint" /\ f = "disk")
              /\ DOMAIN undo' = DOMAIN undo \cup {Len(undo) + 1} /\ undo'[Len(undo) + 1] = u
              /\ \A i \in DOMAIN undo : undo'[i] = undo[i]
            BY <3>1, PushedBack
        <3>3. \A g \in Guid : base'[g] = IF g = reg THEN to ELSE base[g]
            BY <2>5 DEF TypeInv, DataOK
        <3>4. Entries'
            <4>1. undo'[Len(undo) + 1].do = "repoint" /\ undo'[Len(undo) + 1].file = "disk"
                  /\ undo'[Len(undo) + 1].at = to /\ undo'[Len(undo) + 1].to = from
                BY <3>2
            <4> HIDE DEF u
            <4> QED
                BY <1>1, <2>1, <3>2, <4>1 DEF BackInv, Entries
        <3>5. FilesBack'
            BY <1>1, <2>1, <3>2 DEF BackInv, FilesBack, Gone, Copying
        <3>6. BaseBack'
            BY <1>1, <2>1, <2>2, <3>2, <3>3 DEF BaseBack
        <3> QED
            BY <1>1, <2>1, <2>3, <3>4, <3>5, <3>6 DEF BackInv, Arrived
    <2> QED
        BY <2>1, <2>4, <2>5
<1>3. CASE SmokeTest
    <2>1. /\ pc = "start" /\ UNCHANGED <<reg, base, disk, cmd, from, to, undo, uerr, outcome, damaged, before, purged, orphaned, ruined>>
        BY <1>3 DEF SmokeTest
    <2>2. \A do, f : Undoing(do, f)' <=> Undoing(do, f)
        BY <2>1 DEF Undoing
    <2>3. CASE CanStart /\ Started(to) /\ pc' = "delete"
        <3>1. files'[to]["disk"] = Disk(to)
            BY <1>1, <2>3, StartDisks
        <3>4. base[reg] = to /\ Disk(to) = disk[reg]
            BY <1>1, <2>1, <2>3 DEF BackInv, BaseBack, CanStart, Disk
        <3>2. Arrived'
            BY <2>1, <3>1, <3>4 DEF Arrived, Current, Disk
        <3>3. Began' /\ AtHome' /\ Entries' /\ FilesBack' /\ BaseBack'
            BY <1>1, <2>1, <2>2, <2>3 DEF BackInv, Began, AtHome, Entries, FilesBack, BaseBack, Current
        <3> QED
            BY <3>2, <3>3 DEF BackInv
    <2>4. CASE UNCHANGED files /\ (IF cmd = "move" THEN pc' = "terminate" ELSE pc' = "unwind")
        <3>1. Began' /\ AtHome' /\ Entries' /\ BaseBack' /\ Arrived'
            BY <1>1, <2>1, <2>2, <2>4 DEF BackInv, Began, AtHome, Entries, BaseBack, Arrived, Current, Disk
        <3>2. FilesBack'
            BY <1>1, <2>1, <2>2, <2>4 DEF BackInv, FilesBack, Gone, Copying
        <3> QED
            BY <3>1, <3>2 DEF BackInv
    <2> QED
        BY <1>3, <2>3, <2>4 DEF SmokeTest
<1>7. CASE SmokeStop
    <2>1. /\ cmd = "move" /\ pc = "terminate" /\ pc' = "release"
          /\ UNCHANGED <<files, reg, base, disk, cmd, from, to, undo, uerr, outcome, damaged, before, purged, orphaned, ruined>>
        BY <1>7 DEF SmokeStop
    <2>2. \A do, f : Undoing(do, f)' <=> Undoing(do, f)
        BY <2>1 DEF Undoing
    <2>3. Began' /\ AtHome' /\ Entries' /\ BaseBack' /\ Arrived'
        BY <1>1, <2>1, <2>2 DEF BackInv, Began, AtHome, Entries, BaseBack, Arrived, Current, Disk
    <2>4. FilesBack'
        BY <1>1, <2>1, <2>2 DEF BackInv, FilesBack, Gone, Copying
    <2> QED
        BY <2>3, <2>4 DEF BackInv
<1>4. CASE SmokeFailed
    <2>1. /\ cmd = "move" /\ pc = "release" /\ UNCHANGED <<files, reg, base, disk, purged>>
          /\ base[reg] = to /\ (Current => Disk(to) = disk[reg])
        BY <1>4 DEF SmokeFailed, BackInv, BaseBack, Arrived
    <2>2. CASE cmd' = "none" /\ damaged' = damaged
        BY <2>1, <2>2, OverBack DEF AtHome, Current, Disk
    <2>3. CASE /\ pc' = "unwind" /\ UNCHANGED <<cmd, from, to, uerr, outcome, damaged, before, orphaned, ruined>>
               /\ undo' = undo \/ undo' = [i \in DOMAIN undo |-> Leave(undo[i])]
        <3>1. \A i \in DOMAIN undo : undo[i] \in Undo
            BY DEF UndoOK
        <3>2. \A v \in Undo : /\ Leave(v).file = v.file /\ Leave(v).at = v.at /\ Leave(v).to = v.to
                             /\ Leave(v).do = IF v.do = "remove" THEN "leave" ELSE v.do
            BY DEF Leave, Undo, UndoDo
        <3>3. /\ DOMAIN undo' = DOMAIN undo
              /\ \A i \in DOMAIN undo :
                    /\ undo'[i].file = undo[i].file /\ undo'[i].at = undo[i].at /\ undo'[i].to = undo[i].to
                    /\ undo'[i].do = undo[i].do \/ (undo[i].do = "remove" /\ undo'[i].do = "leave")
            BY <2>3, <3>1, <3>2
        <3>4. /\ \A f : Undoing("rename", f)' <=> Undoing("rename", f)
              /\ \A f : Undoing("repoint", f)' <=> Undoing("repoint", f)
              /\ \A f : Undoing("remove", f)' \/ Undoing("leave", f)' <=> Undoing("remove", f) \/ Undoing("leave", f)
            BY <3>3 DEF Undoing
        <3>5. Entries'
            BY <1>1, <2>1, <2>3, <3>3 DEF BackInv, Entries
        <3>6. FilesBack'
            BY <1>1, <2>1, <2>3, <3>4 DEF BackInv, FilesBack, Gone, Copying
        <3>7. Began' /\ AtHome' /\ BaseBack' /\ Arrived'
            BY <1>1, <2>1, <2>3, <3>4 DEF BackInv, Began, AtHome, BaseBack, Arrived, Current
        <3> QED
            BY <3>5, <3>6, <3>7 DEF BackInv
    <2> QED
        BY <1>4, <2>2, <2>3 DEF SmokeFailed, TypeInv, DataOK
<1>5. CASE DeleteSource
    <2>1. /\ pc = "delete" /\ UNCHANGED <<reg, base, disk, purged, damaged>> /\ cmd' = "none"
          /\ files' = files \/ files' = Removed(from, "disk")
          /\ base[reg] = to /\ (Current => Disk(to) = disk[reg])
        BY <1>1, <1>5 DEF DeleteSource, BackInv, BaseBack, Arrived, TypeInv, DataOK
    <2>2. files'[to]["disk"] = Disk(to)
        BY <1>1, <2>1, RemoveDisks, Members DEF Disk
    <2> QED
        BY <2>1, <2>2, OverBack DEF AtHome, Current, Disk
<1>6. CASE MoveUnwound
    <2>1. /\ pc = "unwind" /\ undo = <<>> /\ UNCHANGED <<files, reg, base, disk, purged>> /\ cmd' = "none"
          /\ damaged' = (damaged \/ uerr)
        BY <1>6 DEF MoveUnwound
    <2>2. CASE uerr
        BY <2>1, <2>2, OverBack DEF AtHome, Current
    <2>3. CASE ~uerr
        <3>1. ~Undoing("rename", "disk") /\ ~Undoing("repoint", "disk")
            BY <2>1 DEF Undoing
        <3>2. base[reg] = from /\ (Current => Disk(from) = disk[reg])
            BY <1>1, <2>1, <2>3, <3>1, AllUndone
        <3> QED
            BY <2>1, <2>3, <3>2, OverBack DEF AtHome, Current, Disk
    <2> QED
        BY <2>2, <2>3
<1> QED
    BY <1>2, <1>3, <1>4, <1>5, <1>6, <1>7

\* Every step, where a trash does not copy.
LEMMA StepBack ==
    ASSUME TypeInv, UndoOK, OneVolume, SurviveInv, BackInv, [Next]_vars
    PROVE  BackInv'
<1>1. UNCHANGED world
    BY DEF Next, vars
<1>2. CASE WorldStep \/ UNCHANGED vars
    BY <1>1, <1>2, WorldBack, UnwindBack DEF WorldStep, SurviveInv
<1>3. CASE TrashStep
    <2>1. CASE \/ TrashBegin \/ TrashStop \/ TrashWait \/ TrashMkdir
               \/ TrashRename \/ TrashCopy \/ TrashCopied \/ TrashRemove
               \/ TrashList \/ TrashNext \/ WriteManifest \/ TrashUnregister \/ TrashClean
        BY <1>1, <2>1, TrashBack DEF SurviveInv
    <2>2. CASE UndeleteImported \/ UndeleteSettings \/ \E g \in Guid : UndeleteImport(g) \/ Purge(g)
        BY <1>1, <2>2, UndeleteBack
    <2> QED
        BY <1>3, <2>1, <2>2 DEF TrashStep
<1>4. CASE MoveStep
    BY <1>1, <1>4, MoveBack, MovedBack DEF MoveStep, SurviveInv
<1> QED
    BY <1>2, <1>3, <1>4 DEF Next

\* The files and the registration that a command began with.
PutBackExactly(fs, bs, r) ==
    /\ \A p \in Place, f \in {"disk", "sibling"} : AsBefore(p, f, fs[p][f])
    /\ bs = before.base
    /\ r = before.reg \/ disk[before.reg] \in orphaned

\* Nothing is left to undo.
LEMMA NothingLeft ==
    ASSUME TypeInv, BackInv, cmd \in {"trash", "move", "relink"}, ~uerr, pc # "delete",
           \A do, f : ~Undoing(do, f), NEW fs,
           \A p \in Place, f \in {"disk", "sibling"} :
               IF pc = "copying" /\ p = to /\ f = "disk"
               THEN fs[p][f] = Nothing \/ (fs[p][f] = Stale /\ Fails("copy") /\ Fails("remove"))
               ELSE fs[p][f] = files[p][f],
           pc = "copying" => cmd = "move"
    PROVE  PutBackExactly(fs, base, reg)
<1>1. reg = before.reg \/ disk[before.reg] \in orphaned
    BY DEF BackInv, Began
<1>2. base = before.base
    <2>1. \A g \in Guid : base[g] = before.base[g]
        BY DEF BackInv, BaseBack
    <2>2. base \in [Guid -> Place] /\ before.base \in [Guid -> Place]
        BY DEF TypeInv, DataOK, BackInv, Began
    <2> QED
        BY <2>1, <2>2
<1>3. ASSUME NEW p \in Place, NEW f \in {"disk", "sibling"}
      PROVE  AsBefore(p, f, fs[p][f])
    <2>1. /\ p \notin {from, to} => files[p][f] = before.files[p][f]
          /\ files[from][f] = before.files[from][f] \/ Gone(f)
          /\ IF Copying(f) THEN before.files[to][f] = Nothing ELSE files[to][f] = before.files[to][f]
        BY DEF BackInv, FilesBack
    <2>2. Copying(f) <=> cmd = "move" /\ pc = "copying" /\ f = "disk"
        BY DEF Copying
    <2>3. from \in Place /\ to \in Place /\ (pc = "copying" => cmd = "move") /\ from # to
        BY DEF TypeInv, DataOK, BackInv, Began
    <2>4. CASE pc = "copying" /\ p = to /\ f = "disk"
        BY <2>1, <2>2, <2>3, <2>4 DEF AsBefore
    <2>5. CASE ~(pc = "copying" /\ p = to /\ f = "disk")
        <3>1. fs[p][f] = files[p][f]
            BY <2>5
        <3> QED
            BY <2>1, <2>2, <2>3, <2>5, <3>1 DEF AsBefore, Gone
    <2> QED
        BY <2>4, <2>5
<1> QED
    BY <1>1, <1>2, <1>3 DEF PutBackExactly

\* A command that ends without having done what it was for.
LEMMA StepPutBack ==
    ASSUME TypeInv, SurviveInv, BackInv, Next, PutBack
    PROVE  PutBackExactly(files', base', reg')
<1> USE DEF Goto, Finish, GiveUp, Return, Abort, diskVars, stepVars, histVars
<1>1. cmd \in {"trash", "move", "relink"} /\ outcome = "none" /\ outcome' \in {"failed", "restored"}
      /\ from # to /\ from \in Place /\ to \in Place
    BY DEF PutBack, BackInv, Began, TypeInv, DataOK
<1>2. CASE /\ UNCHANGED <<reg, base>> /\ ~uerr /\ undo = <<>>
           /\ pc # "delete" /\ pc # "copying"
           /\ \A p \in Place, f \in {"disk", "sibling"} : files'[p][f] = files[p][f]
    BY <1>1, <1>2, NothingLeft DEF Undoing
<1>3. CASE WorldStep
    BY <1>1, <1>3 DEF WorldStep, Install, Use, Exits, Release, UnregistersLate, Unwind, Crash
<1>4. CASE TrashStep
    <2>1. CASE TrashStop \/ TrashWait \/ TrashMkdir
        <3>1. cmd = "trash" /\ pc \in {"stop", "wait", "mkdir"} /\ UNCHANGED <<files, reg, base>>
            BY <1>1, <2>1 DEF TrashStop, TrashWait, TrashMkdir
        <3>2. ~uerr /\ undo = <<>>
            BY <3>1 DEF BackInv, Began, Entries
        <3> QED
            BY <1>2, <3>1, <3>2
    <2>2. CASE TrashClean
        <3>1. /\ cmd = "trash" /\ pc = "unwind" /\ undo = <<>> /\ UNCHANGED <<reg, base>> /\ ~uerr
              /\ files' = files \/ files' = Removed(to, "manifest")
            BY <1>1, <2>2 DEF TrashClean
        <3>2. \A p \in Place, f \in {"disk", "sibling"} : files'[p][f] = files[p][f]
            BY <1>1, <3>1, RemoveOps, Sorts DEF TypeInv, DataOK
        <3> QED
            BY <1>2, <3>1, <3>2
    <2>3. CASE TrashRename \/ TrashCopy \/ TrashCopied \/ TrashRemove \/ TrashList \/ TrashNext \/ WriteManifest
        BY <1>1, <2>3 DEF TrashRename, TrashCopy, TrashCopied, TrashRemove, TrashList, TrashNext, WriteManifest
    <2>4. CASE TrashBegin \/ TrashUnregister \/ UndeleteImported \/ UndeleteSettings
               \/ \E g \in Guid : UndeleteImport(g) \/ Purge(g)
        BY <1>1, <2>4 DEF TrashBegin, TrashUnregister, UndeleteImported, UndeleteSettings, UndeleteImport, Purge, Begin
    <2> QED
        BY <1>4, <2>1, <2>2, <2>3, <2>4 DEF TrashStep
<1>5. CASE MoveStep
    <2>1. CASE MoveMkdir \/ MoveRename \/ MoveCopy
        <3>1. cmd = "move" /\ pc \in {"mkdir", "move"} /\ UNCHANGED <<files, reg, base>>
            BY <1>1, <2>1 DEF MoveMkdir, MoveRename, MoveCopy
        <3>2. ~uerr /\ undo = <<>>
            BY <3>1 DEF BackInv, Began, SurviveInv, MoveKeeps
        <3> QED
            BY <1>2, <3>1, <3>2
    <2>2. CASE MoveCopied
        <3>1. /\ cmd = "move" /\ pc = "copying" /\ UNCHANGED <<reg, base>> /\ Fails("copy")
              /\ files' = Removed(to, "disk") \/ (Fails("remove") /\ files' = files)
            BY <1>1, <2>2 DEF MoveCopied
        <3>5. files[to]["disk"] = Stale
            BY <3>1 DEF SurviveInv, MoveKeeps, Disk
        <3>2. ~uerr /\ undo = <<>>
            BY <3>1 DEF BackInv, Began, SurviveInv, MoveKeeps
        <3>3. \A p \in Place, f \in {"disk", "sibling"} :
                 IF pc = "copying" /\ p = to /\ f = "disk"
                 THEN files'[p][f] = Nothing \/ (files'[p][f] = Stale /\ Fails("copy") /\ Fails("remove"))
                 ELSE files'[p][f] = files[p][f]
            <4>1. CASE Fails("remove") /\ files' = files
                BY <3>1, <3>5, <4>1
            <4>2. CASE files' = Removed(to, "disk")
                <5>1. \A r \in Place, h \in File : files'[r][h] = IF r = to /\ h = "disk" THEN Nothing ELSE files[r][h]
                    BY <1>1, <4>2, RemoveOps, Members DEF TypeInv, DataOK
                <5>2. \A h \in {"disk", "sibling"} : h \in File
                    BY Members
                <5> QED
                    BY <3>1, <5>1, <5>2
            <4> QED
                BY <3>1, <4>1, <4>2
        <3>4. \A do, f : ~Undoing(do, f)
            BY <3>2 DEF Undoing
        <3> QED
            BY <1>1, <3>1, <3>2, <3>3, <3>4, NothingLeft
    <2>3. CASE MoveUnwound
        <3>1. pc = "unwind" /\ undo = <<>> /\ UNCHANGED <<files, reg, base>> /\ ~uerr
            BY <1>1, <2>3 DEF MoveUnwound
        <3> QED
            BY <1>2, <3>1
    <2>4. CASE Repoint \/ SmokeTest \/ SmokeStop \/ SmokeFailed \/ DeleteSource
        BY <1>1, <2>4 DEF Repoint, SmokeTest, SmokeStop, SmokeFailed, DeleteSource
    <2>5. CASE (\E p \in world.dirs, k \in BOOLEAN : MoveBegin(p, k)) \/ (\E p \in Place : RelinkBegin(p))
        BY <1>1, <2>5 DEF MoveBegin, RelinkBegin, Begin
    <2> QED
        BY <1>5, <2>1, <2>2, <2>3, <2>4, <2>5 DEF MoveStep
<1> QED
    BY <1>3, <1>4, <1>5 DEF Next

\* What holds of every state, where a trash does not copy.
KeptInv == TypeInv /\ UndoOK /\ (~TrashCopies => SurviveInv /\ BackInv)

LEMMA KeptAlways ==
    ASSUME \A w \in Worlds : ~({"trash", "relink"} \subseteq w.commands)
    PROVE  /\ Init => KeptInv
           /\ KeptInv /\ [Next]_vars => KeptInv'
<1>1. Init => KeptInv
    <2> SUFFICES ASSUME Init PROVE KeptInv
        OBVIOUS
    <2>1. TypeInv /\ UndoOK
        BY InitType DEF Init, UndoOK
    <2>2. folder \subseteq 0..(next - 1) /\ DisksKept
        BY Sorts DEF Init, DisksKept, Installed
    <2>3. SurviveInv
        BY <2>2 DEF Init, SurviveInv, PlacesOK, TrashMoves, MoveKeeps, RelinkKeeps
    <2>4. BackInv
        BY DEF Init, BackInv, AtHome, Began, Entries, FilesBack, BaseBack, Arrived, Current
    <2> QED
        BY <2>1, <2>3, <2>4 DEF KeptInv
<1>2. KeptInv /\ [Next]_vars => KeptInv'
    <2> SUFFICES ASSUME KeptInv, [Next]_vars PROVE KeptInv'
        OBVIOUS
    <2>1. TrashCopies' = TrashCopies
        BY DEF Next, vars, TrashCopies, Fails
    <2>2. TypeInv' /\ UndoOK'
        BY StepType, StepUndo DEF KeptInv, UndoOK
    <2>3. CASE ~TrashCopies
        <3>1. OneVolume
            BY <2>3 DEF KeptInv, OneVolume, TypeInv, DataOK
        <3>2. TypeInv /\ UndoOK /\ SurviveInv /\ BackInv
            BY <2>3 DEF KeptInv
        <3>3. SurviveInv'
            BY <3>1, <3>2, StepPlaces, StepTrash, StepMove, StepRelink, StepSurvive DEF SurviveInv
        <3> QED
            BY <2>2, <3>1, <3>2, <3>3, StepBack DEF KeptInv
    <2> QED
        BY <2>1, <2>2, <2>3 DEF KeptInv
<1> QED
    BY <1>1, <1>2

\* A trash, a move or a relink that fails, whatever step it fails at, leaves the
\* disks, the files beside them and the registry as they were, unless it says that
\* it could not (GiveUp, Abort, UndoStack.Unwind, Return, SmokeFailed, MoveUnwound),
\* but for what AsBefore names: half a copy that cannot be removed, and a disk that
\* WSL deletes when it unregisters after the rollback (UnregistersLate).
THEOREM FailureIsUndone ==
    ASSUME \A w \in Worlds : ~({"trash", "relink"} \subseteq w.commands)
    PROVE  Spec => FailureRestores
<1>1. KeptInv /\ [Next]_vars =>
          [PutBack => /\ \A p \in Place, f \in {"disk", "sibling"} : AsBefore(p, f, files'[p][f])
                      /\ base' = before.base
                      /\ reg' = before.reg \/ disk[before.reg] \in orphaned]_vars
    <2> SUFFICES ASSUME KeptInv, Next, PutBack
                 PROVE  PutBackExactly(files', base', reg')
        BY DEF PutBackExactly
    <2>1. TypeInv /\ SurviveInv /\ BackInv
        BY DEF KeptInv, PutBack
    <2> QED
        BY <2>1, StepPutBack
<1> QED
    BY <1>1, KeptAlways, PTL DEF Spec, FailureRestores

\* Between two commands the registration names the place where its disk is, as
\* long as nothing was cut short and every rollback said to have worked has (Move,
\* Relink, Trash, Undelete).
THEOREM RegistrationIsOfItsDisk ==
    ASSUME \A w \in Worlds : ~({"trash", "relink"} \subseteq w.commands)
    PROVE  Spec => []RegistrationHolds
<1>1. KeptInv => RegistrationHolds
    BY DEF KeptInv, BackInv, AtHome, Current, RegistrationHolds, Disk
<1> QED
    BY <1>1, KeptAlways, PTL DEF Spec
=============================================================================
