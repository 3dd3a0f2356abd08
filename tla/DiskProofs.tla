----------------------------- MODULE DiskProofs -----------------------------
(***************************************************************************)
(* Theorems about DiskOps, for any directories, any number of              *)
(* registrations and any worlds: whatever fails and whenever wslkit dies.  *)
(***************************************************************************)
EXTENDS DiskOps, SequenceTheorems, TLAPS

FS == [Place -> [File -> Content]]

\* TypeOK without undo, since no prover is good at both sequences and the rest,
\* and what the commands under way rely on.
DataOK ==
    /\ world \in Worlds
    /\ files \in FS /\ folder \subseteq Guid
    /\ reg \in 0..MaxGuid /\ next \in 1..(MaxGuid + 1) /\ reg < next
    /\ base \in [Guid -> Place] /\ disk \in [Guid -> Content]
    /\ settings \in [Guid -> {"own", "fresh"}]
    /\ running \in BOOLEAN /\ held \subseteq Place
    /\ cmd \in {"none", "trash", "undelete", "move", "relink"}
    /\ from \in Place /\ to \in Place /\ file \in File /\ todo \subseteq File
    /\ keep \in BOOLEAN
    /\ late \in BOOLEAN /\ uerr \in BOOLEAN /\ damaged \in BOOLEAN
    /\ pending \in {0, reg}
    /\ purged \subseteq Guid /\ orphaned \subseteq Content /\ ruined \subseteq Content

\* A trash and a move are of a registration, which only a trash may lose on the
\* way, a trash goes to the folder of its GUID, and an undelete has a GUID left and
\* a manifest it can read.
TargetsOK ==
    /\ cmd = "trash" /\ pc # "unwind" /\ reg # 0 => from = base[reg] /\ to = reg
    /\ cmd = "trash" => to \in Guid
    /\ cmd \in {"move", "relink"} => reg # 0 /\ disk[reg] \in Content /\ pending = 0
    /\ cmd = "move" => to \in Dir /\ from # to
    /\ cmd = "undelete" => files[to]["manifest"] \in Guid /\ to \in Guid
    /\ cmd = "undelete" /\ pc = "import" => next <= MaxGuid /\ reg = 0
    /\ cmd = "undelete" => pc \in {"import", "settings"} /\ pending = 0
    /\ cmd \in {"move", "relink"} => 
          pc \in {"mkdir", "move", "copying", "repoint", "start", "terminate", "release", "delete", "unwind"}

TypeInv == DataOK /\ TargetsOK

-----------------------------------------------------------------------------
(* Numbers, files and what is done to them. *)

\* What is needed of the sets whose members do not matter.
LEMMA Sorts ==
    /\ Guid = 1..MaxGuid /\ MaxGuid \in Nat
    /\ Content = {Nothing, Stale} \cup Guid /\ Place = Dir \cup Guid
    /\ Nothing = 0 /\ Stale = -1 /\ Nothing \notin Guid /\ Stale \notin Guid
    /\ Dir \cap Guid = {}
    /\ 0..MaxGuid \subseteq Content /\ 0..MaxGuid = {0} \cup Guid
    /\ File = {"disk", "sibling", "manifest"}
BY DiskAssumption DEF Content, Nothing, Stale, Guid, Place, File

LEMMA Members ==
    /\ Nothing \in Content /\ Stale \in Content /\ Guid \subseteq Content
    /\ Guid \subseteq Place /\ Dir \subseteq Place /\ 0..MaxGuid \subseteq Content
    /\ "disk" \in File /\ "sibling" \in File /\ "manifest" \in File
BY Sorts

\* A GUID that is used, one that is left, and one that is gone.
LEMMA Numbers ==
    /\ \A g \in 0..MaxGuid : g # 0 => g \in Guid
    /\ \A n \in 1..(MaxGuid + 1) : 
          n <= MaxGuid => n \in Guid /\ n \in 0..MaxGuid /\ n + 1 \in 1..(MaxGuid + 1) /\ n < n + 1
    /\ \A n \in 1..(MaxGuid + 1) : 0 < n
    /\ 0 \in 0..MaxGuid
BY Sorts

\* What a world may be.
LEMMA WorldSorts ==
    ASSUME world \in Worlds
    PROVE  world.dirs \subseteq Dir /\ world.guids \in 0..MaxGuid
BY DiskAssumption

\* A file that is written.
LEMMA WriteOps ==
    ASSUME NEW fs \in FS, NEW p \in Place, NEW f \in File, NEW c \in Content
    PROVE  /\ [fs EXCEPT ![p][f] = c] \in FS
           /\ \A r \in Place, h \in File :
                 [fs EXCEPT ![p][f] = c][r][h] = IF r = p /\ h = f THEN c ELSE fs[r][h]
BY DEF FS

\* A file that is removed, copied or renamed.
LEMMA RemoveOps ==
    ASSUME files \in FS, NEW p \in Place, NEW f \in File
    PROVE  /\ Removed(p, f) \in FS
           /\ \A r \in Place, h \in File :
                 Removed(p, f)[r][h] = IF r = p /\ h = f THEN Nothing ELSE files[r][h]
<1>1. Nothing \in Content
    BY Sorts
<1> QED
    BY <1>1, WriteOps DEF Removed

LEMMA CopiedOps ==
    ASSUME files \in FS, NEW p \in Place, NEW q \in Place, NEW f \in File
    PROVE  /\ Copied(p, q, f) \in FS
           /\ \A r \in Place, h \in File :
                 Copied(p, q, f)[r][h] = IF r = q /\ h = f THEN files[p][f] ELSE files[r][h]
<1>1. files[p][f] \in Content
    BY DEF FS
<1> QED
    BY <1>1, WriteOps DEF Copied

LEMMA RenameOps ==
    ASSUME files \in FS, NEW p \in Place, NEW q \in Place, NEW f \in File
    PROVE  /\ Renamed(p, q, f) \in FS
           /\ \A r \in Place, h \in File :
                 Renamed(p, q, f)[r][h] =
                     IF p # q /\ h = f /\ r = q THEN files[p][f]
                     ELSE IF p # q /\ h = f /\ r = p THEN Nothing ELSE files[r][h]
<1> DEFINE half == [files EXCEPT ![q][f] = files[p][f]]
<1>1. files[p][f] \in Content /\ Nothing \in Content
    BY Sorts DEF FS
<1>2. /\ half \in FS
      /\ \A r \in Place, h \in File : half[r][h] = IF r = q /\ h = f THEN files[p][f] ELSE files[r][h]
    BY <1>1, WriteOps
<1> HIDE DEF half
<1>3. /\ [half EXCEPT ![p][f] = Nothing] \in FS
      /\ \A r \in Place, h \in File :
             [half EXCEPT ![p][f] = Nothing][r][h] = IF r = p /\ h = f THEN Nothing ELSE half[r][h]
    BY <1>1, <1>2, WriteOps
<1>4. [files EXCEPT ![q][f] = files[p][f], ![p][f] = Nothing] = [half EXCEPT ![p][f] = Nothing]
    BY DEF half
<1>5. CASE p = q
    BY <1>5 DEF Renamed
<1>6. CASE p # q
    <2>1. Renamed(p, q, f) = [half EXCEPT ![p][f] = Nothing]
        BY <1>4, <1>6 DEF Renamed
    <2> QED
        BY <1>2, <1>3, <1>6, <2>1
<1> QED
    BY <1>5, <1>6

\* A disk that is removed leaves the manifests alone.
LEMMA DiskRemoved ==
    ASSUME files \in FS, NEW p \in Place
    PROVE  /\ Removed(p, "disk") \in FS
           /\ \A r \in Place : Removed(p, "disk")[r]["manifest"] = files[r]["manifest"]
<1>1. "disk" \in File /\ "manifest" \in File /\ "manifest" # "disk"
    BY Sorts
<1> QED
    BY <1>1, RemoveOps

\* The distribution starts from p.
LEMMA StartOps ==
    ASSUME files \in FS, NEW p \in Place, Started(p)
    PROVE  /\ files' \in FS
           /\ \A r \in Place : files'[r]["disk"] =
                 IF r # p /\ files[r]["disk"] = files[p]["disk"] THEN Stale ELSE files[r]["disk"]
           /\ \A r \in Place, h \in File : h # "disk" => files'[r][h] = files[r][h]
BY Sorts DEF Started, FS

-----------------------------------------------------------------------------
(* Types. *)

\* The first state has its types.
LEMMA InitType == Init => TypeInv
<1> SUFFICES ASSUME Init PROVE TypeInv
    OBVIOUS
<1>1. world \in Worlds /\ from \in Dir /\ to = from
    BY DiskAssumption DEF Init
<1>2. files \in FS
    BY Sorts DEF Init, FS, Empty
<1>3. reg = 0 /\ next = 1 /\ MaxGuid \in Nat
    BY Sorts DEF Init
<1>4. base \in [Guid -> Place] /\ disk \in [Guid -> Content] /\ from \in Place
    BY <1>1, Sorts DEF Init
<1>5. reg \in 0..MaxGuid /\ next \in 1..(MaxGuid + 1) /\ reg < next
    BY <1>3
<1>6. DataOK
    BY <1>1, <1>2, <1>4, <1>5 DEF Init, DataOK, File
<1> QED
    BY <1>6 DEF Init, TypeInv, TargetsOK

\* The newest rollback, and what is left when it is gone.
LEMMA TopType ==
    ASSUME NEW S, NEW u \in Seq(S), u # <<>>
    PROVE  u[Len(u)] \in S /\ SubSeq(u, 1, Len(u) - 1) \in Seq(S)
<1>1. Len(u) \in Nat /\ Len(u) # 0
    BY EmptySeq
<1> QED
    BY <1>1, SubSeqProperties

\* So do the user, the utility VM and a crash keep them.
LEMMA WorldType ==
    ASSUME TypeInv, undo \in Seq(Undo), UNCHANGED world, WorldStep \/ UNCHANGED vars
    PROVE  TypeInv'
<1> USE DEF TypeInv, DataOK, TargetsOK, vars, diskVars, stepVars, histVars
<1>1. ASSUME NEW d \in world.dirs, Install(d)
      PROVE  TypeInv'
    <2>1. d \in Place /\ next \in Guid /\ reg' = next /\ next' = next + 1
        BY <1>1, WorldSorts, Sorts DEF Install
    <2>2. PICK s \in {files[d]["sibling"], next} :
              files' = [files EXCEPT ![d]["disk"] = next, ![d]["sibling"] = s]
        BY <1>1 DEF Install
    <2>3. files' \in FS
        <3> DEFINE half == [files EXCEPT ![d]["disk"] = next]
        <3>1. half \in FS
            BY <2>1, WriteOps, Members
        <3>2. s \in Content
            BY <2>1, Members DEF FS
        <3> HIDE DEF half
        <3>3. [half EXCEPT ![d]["sibling"] = s] \in FS
            BY <2>1, <3>1, <3>2, WriteOps, Members
        <3>4. files' = [half EXCEPT ![d]["sibling"] = s]
            BY <2>2 DEF half
        <3> QED
            BY <3>3, <3>4
    <2>4. pending' = 0 /\ cmd' = "none"
        BY <1>1 DEF Install
    <2>5. next \in 1..MaxGuid
        BY <2>1, Sorts
    <2>6. next \in 0..MaxGuid /\ next + 1 \in 1..(MaxGuid + 1) /\ next < next + 1
        BY <2>5, Numbers
    <2>7. base' \in [Guid -> Place] /\ disk' \in [Guid -> Content]
        BY <1>1, <2>1, Members DEF Install
    <2> QED
        BY <1>1, <2>1, <2>3, <2>4, <2>6, <2>7 DEF Install
<1>2. CASE Use
    <2>1. base[reg] \in Place
        BY <1>2, Sorts DEF Use
    <2>2. files' \in FS
        BY <1>2, <2>1, StartOps DEF Use
    <2>3. /\ cmd' = "none" /\ running' \in BOOLEAN /\ held' \subseteq Place
          /\ UNCHANGED <<folder, reg, base, disk, settings, next, pending, cmd, pc,
                        stepVars, outcome, histVars>>
        BY <1>2, <2>1 DEF Use, Started
    <2> QED
        BY <2>2, <2>3
<1>3. CASE Exits \/ Release
    BY ZenonT(30), <1>3 DEF Exits, Release
<1>7. CASE UnregistersLate
    <2>1. pending = reg /\ reg \in Guid /\ base[reg] \in Place /\ disk[reg] \in Content
        BY <1>7, Numbers DEF UnregistersLate
    <2>2. /\ files' \in FS
          /\ \A p \in Place : files'[p]["manifest"] = files[p]["manifest"]
          /\ ruined' \subseteq Content
        <3>1. CASE UNCHANGED <<files, ruined>>
            BY <3>1
        <3>2. CASE /\ files' = Removed(base[reg], "disk")
                   /\ ruined' = ruined \cup {files[base[reg]]["disk"]}
            <4>1. Removed(base[reg], "disk") \in FS
                  /\ \A p \in Place : Removed(base[reg], "disk")[p]["manifest"] = files[p]["manifest"]
                BY <2>1, DiskRemoved
            <4>2. files[base[reg]]["disk"] \in Content
                BY <2>1, Members DEF FS
            <4> QED
                BY <3>2, <4>1, <4>2
        <3> QED
            BY <1>7, <2>1, <3>1, <3>2 DEF UnregistersLate
    <2>3. reg' = 0 /\ pending' = 0 /\ running' = FALSE /\ held' \subseteq Place
          /\ orphaned' \subseteq Content /\ 0 \in 0..MaxGuid /\ 0 < next
        BY <1>7, <2>1, Numbers DEF UnregistersLate
    <2>4. cmd \notin {"move", "relink"} /\ ~(cmd = "undelete" /\ pc = "import")
        BY <1>7 DEF UnregistersLate
    <2>5. /\ UNCHANGED <<folder, base, disk, settings, next, cmd, pc, stepVars, outcome, purged>>
          /\ damaged' = damaged
        BY <1>7 DEF UnregistersLate
    <2>6. DataOK'
        BY <2>2, <2>3, <2>5
    <2>7. TargetsOK'
        BY <2>2, <2>3, <2>4, <2>5
    <2> QED
        BY <2>6, <2>7
<1>4. CASE Unwind
    <2>1. undo[Len(undo)] \in Undo
        BY <1>4, TopType DEF Unwind
    <2> DEFINE u == undo[Len(undo)]
    <2>2. u.at \in Place /\ u.to \in Place /\ u.file \in File /\ u.do \in UndoDo
        BY <2>1 DEF Undo
    <2>3. /\ files' = files /\ base' = base /\ uerr' = TRUE
          \/ UndoDone(u)
        BY <1>4 DEF Unwind
    <2> HIDE DEF u
    <2>4. files' \in FS
        BY <2>2, <2>3, RenameOps, RemoveOps DEF UndoDone
    <2>5. base' \in [Guid -> Place]
        BY <2>2, <2>3 DEF UndoDone
    <2>6. uerr' \in BOOLEAN
        BY <2>3 DEF UndoDone
    <2> QED
        BY <1>4, <2>4, <2>5, <2>6 DEF Unwind
<1>5. CASE Crash
    BY <1>5 DEF Crash, Finish
<1>6. CASE UNCHANGED vars
    BY <1>6
<1> QED
    BY <1>1, <1>2, <1>3, <1>4, <1>5, <1>6, <1>7 DEF WorldStep
\* Trash and undelete keep them.
LEMMA TrashType ==
    ASSUME TypeInv, UNCHANGED world, TrashStep
    PROVE  TypeInv'
<1> USE DEF TypeInv, DataOK, TargetsOK, diskVars, stepVars, histVars, Finish, GiveUp, Goto,
        Begin, Abort
<1>1. CASE TrashBegin
    <2>1. reg \in Guid /\ base[reg] \in Place
        BY <1>1, Sorts DEF TrashBegin
    <2> QED
        BY <1>1, <2>1, Sorts DEF TrashBegin
<1>2. CASE TrashStop \/ TrashWait
    BY <1>2 DEF TrashStop, TrashWait
<1>3. CASE TrashMkdir
    BY <1>3 DEF TrashMkdir
<1>4. CASE TrashRename
    BY <1>4, RenameOps DEF TrashRename, AfterFile
<1>5. CASE TrashCopy
    <2>1. [files EXCEPT ![to][file] = Stale] \in FS
        BY WriteOps, Members
    <2> QED
        BY <1>5, <2>1 DEF TrashCopy
<1>6. CASE TrashCopied
    <2>1. Copied(from, to, file) \in FS /\ Removed(to, file) \in FS
        BY CopiedOps, RemoveOps
    <2> QED
        BY <1>6, <2>1 DEF TrashCopied
<1>7. CASE TrashRemove
    BY <1>7, RemoveOps DEF TrashRemove, AfterFile
<1>8. CASE TrashList
    BY <1>8 DEF TrashList
<1>9. CASE TrashNext
    BY <1>9 DEF TrashNext
<1>10. CASE WriteManifest
    <2>1. [files EXCEPT ![to]["manifest"] = to] \in FS /\ [files EXCEPT ![to]["manifest"] = Stale] \in FS
        BY <1>10, WriteOps, Members DEF WriteManifest
    <2> QED
        BY <1>10, <2>1 DEF WriteManifest
<1>11. CASE TrashUnregister
    <2>1. reg # 0 => reg \in Guid /\ base[reg] \in Place /\ disk[reg] \in Content
        BY Sorts
    <2>2. reg # 0 => Removed(base[reg], "disk") \in FS
        BY <2>1, RemoveOps, Sorts
    <2>4. reg' \in {0, reg} /\ pending' \in {0, reg'}
        BY <1>11 DEF TrashUnregister, Unregistered
    <2>3. reg' \in 0..MaxGuid /\ reg' < next
        BY <2>4, Numbers
    <2> QED
        BY <1>11, <2>2, <2>3, <2>4 DEF TrashUnregister, Unregistered
<1>12. CASE TrashClean
    <2>1. Removed(to, "manifest") \in FS
        BY RemoveOps, Sorts
    <2> QED
        BY <1>12, <2>1 DEF TrashClean
<1>13. CASE UndeleteImported
    <2>1. cmd = "undelete" /\ pc = "import" /\ next \in Guid /\ next + 1 \in 1..(MaxGuid + 1)
          /\ next \in 0..MaxGuid /\ next < next + 1 /\ pending = 0
        BY <1>13, Numbers DEF UndeleteImported
    <2>2. files[to]["disk"] \in Content /\ to \in Place
        BY Sorts DEF FS
    <2>3. /\ [base EXCEPT ![next] = to] \in [Guid -> Place]
          /\ [disk EXCEPT ![next] = files[to]["disk"]] \in [Guid -> Content]
          /\ [settings EXCEPT ![next] = "fresh"] \in [Guid -> {"own", "fresh"}]
        BY <2>1, <2>2
    <2> QED
        BY <1>13, <2>1, <2>3 DEF UndeleteImported, Imported
<1>14. CASE UndeleteSettings
    <2>1. files[to]["manifest"] \in Guid
        BY <1>14 DEF UndeleteSettings
    <2>2. settings[files[to]["manifest"]] \in {"own", "fresh"}
        BY <2>1
    <2>3. settings' \in [Guid -> {"own", "fresh"}]
        BY <1>14, <2>2 DEF UndeleteSettings
    <2>4. cmd' = "none" /\ pc' = "idle"
        BY <1>14 DEF UndeleteSettings
    <2> QED
        BY <1>14, <2>3, <2>4 DEF UndeleteSettings
<1>15. ASSUME NEW g \in Guid, UndeleteImport(g)
       PROVE  TypeInv'
    <2>1. next <= MaxGuid
        BY <1>15, WorldSorts, Sorts DEF UndeleteImport
    <2>2. g \in Place
        BY Members
    <2>3. files[g]["manifest"] \in Guid /\ reg = 0
        BY <1>15 DEF UndeleteImport
    <2>4. /\ UNCHANGED <<diskVars, damaged, purged, orphaned, ruined>>
          /\ cmd' = "undelete" /\ pc' = "import" /\ from' = g /\ to' = g /\ keep' = FALSE
          /\ file' = "disk" /\ todo' = {} /\ late' = FALSE /\ uerr' = FALSE
        BY <1>15 DEF UndeleteImport
    <2> QED
        BY <2>1, <2>2, <2>3, <2>4, Members
<1>16. ASSUME NEW g \in Guid, Purge(g)
       PROVE  TypeInv'
    <2>1. PICK gone \in SUBSET {f \in File : CanRemove(g, f)} :
              files' = [files EXCEPT ![g] = [f \in File |-> IF f \in gone THEN Nothing ELSE @[f]]]
        BY <1>16 DEF Purge
    <2>2. [f \in File |-> IF f \in gone THEN Nothing ELSE files[g][f]] \in [File -> Content]
        BY Members DEF FS
    <2>3. files' \in FS
        BY <2>1, <2>2 DEF FS
    <2> QED
        BY <1>16, <2>3 DEF Purge
<1> QED
    BY <1>1, <1>2, <1>3, <1>4, <1>5, <1>6, <1>7, <1>8, <1>9, <1>10, <1>11, <1>12,
       <1>13, <1>14, <1>15, <1>16 DEF TrashStep

\* A rename by move is done, or the command is over.
LEMMA RenameOutcome ==
    ASSUME MoveRename
    PROVE  \/ Return
           \/ /\ files' = Renamed(from, to, "disk") /\ cmd = "move"
              /\ UNCHANGED <<folder, reg, base, disk, settings, next, running, held, pending,
                            from, to, file, todo, keep, late, uerr, cmd, histVars>>
              /\ pc' = "repoint"
BY DEF MoveRename, Goto

\* Move and relink keep them.
LEMMA MoveType ==
    ASSUME TypeInv, UNCHANGED world, MoveStep
    PROVE  TypeInv'
<1> USE DEF TypeInv, DataOK, TargetsOK, diskVars, stepVars, histVars, Finish, Return, Goto, Begin
<1>1. ASSUME NEW p \in world.dirs, NEW k \in BOOLEAN, MoveBegin(p, k)
      PROVE  TypeInv'
    <2>1. reg \in Guid /\ base[reg] \in Place /\ p \in Dir /\ p \in Place
        BY <1>1, WorldSorts, Sorts DEF MoveBegin
    <2> QED
        BY <1>1, <2>1, Sorts DEF MoveBegin
<1>2. CASE MoveMkdir
    BY <1>2 DEF MoveMkdir
<1>3. CASE MoveRename
    <2>1. Renamed(from, to, "disk") \in FS
        BY RenameOps, Sorts
    <2>2. CASE Return
        BY <2>2
    <2>3. CASE /\ files' = Renamed(from, to, "disk") /\ cmd = "move"
               /\ UNCHANGED <<folder, reg, base, disk, settings, next, running, held, pending,
                             from, to, file, todo, keep, late, uerr, cmd, histVars>>
               /\ pc' = "repoint"
        BY <2>1, <2>3
    <2>4. \/ Return
          \/ /\ files' = Renamed(from, to, "disk") /\ cmd = "move"
             /\ UNCHANGED <<folder, reg, base, disk, settings, next, running, held, pending,
                           from, to, file, todo, keep, late, uerr, cmd, histVars>>
             /\ pc' = "repoint"
        BY <1>3, RenameOutcome
    <2> QED
        BY <2>2, <2>3, <2>4
<1>4. CASE MoveCopy
    <2>1. [files EXCEPT ![to]["disk"] = Stale] \in FS
        <3>1. Stale \in Content /\ "disk" \in File
            BY Sorts
        <3> QED
            BY <3>1, WriteOps
    <2> QED
        BY <1>4, <2>1 DEF MoveCopy
<1>5. CASE MoveCopied
    <2>1. Copied(from, to, "disk") \in FS /\ Removed(to, "disk") \in FS
        BY CopiedOps, RemoveOps, Sorts
    <2> QED
        BY <1>5, <2>1 DEF MoveCopied
<1>6. ASSUME NEW p \in Place, RelinkBegin(p)
      PROVE  TypeInv'
    <2>1. reg \in Guid /\ base[reg] \in Place
        BY <1>6, Sorts DEF RelinkBegin
    <2> QED
        BY <1>6, <2>1, Sorts DEF RelinkBegin
<1>7. CASE Repoint
    <2>1. base' \in [Guid -> Place]
        BY <1>7 DEF Repoint
    <2> QED
        BY <1>7, <2>1 DEF Repoint
<1>8. CASE SmokeTest
    <2>1. Started(to) => files' \in FS
        BY StartOps
    <2>2. held' \subseteq Place /\ running' \in BOOLEAN /\ files' \in FS
        BY <1>8, <2>1 DEF SmokeTest, Started
    <2> QED
        BY <1>8, <2>2 DEF SmokeTest
<1>9. CASE SmokeStop \/ SmokeFailed
    BY <1>9 DEF SmokeStop, SmokeFailed
<1>10. CASE DeleteSource
    <2>1. Removed(from, "disk") \in FS
        BY RemoveOps, Sorts
    <2> QED
        BY <1>10, <2>1 DEF DeleteSource
<1>11. CASE MoveUnwound
    BY <1>11 DEF MoveUnwound
<1> QED
    BY <1>1, <1>2, <1>3, <1>4, <1>5, <1>6, <1>7, <1>8, <1>9, <1>10, <1>11 DEF MoveStep
\* And so every step.
LEMMA StepType == TypeInv /\ undo \in Seq(Undo) /\ [Next]_vars => TypeInv'
<1>1. UNCHANGED vars => UNCHANGED world
    BY DEF vars
<1> QED
    BY <1>1, WorldType, TrashType, MoveType DEF Next

-----------------------------------------------------------------------------
(* The undo stack. *)

\* What a step does to it.
UndoMove ==
    \/ undo' = undo \/ undo' = <<>>
    \/ \E u \in Undo : undo' = Append(undo, u)
    \/ undo' = [i \in DOMAIN undo |-> Leave(undo[i])]
    \/ undo # <<>> /\ undo' = SubSeq(undo, 1, Len(undo) - 1)

\* No step does anything else to it.
LEMMA UndoMoves == TypeInv /\ [Next]_vars => UndoMove
<1> SUFFICES ASSUME TypeInv, [Next]_vars
             PROVE  UndoMove
    OBVIOUS
<1> USE DEF UndoMove, Finish, GiveUp, Return, Goto, Begin, Abort, vars, stepVars
<1>1. CASE WorldStep \/ UNCHANGED vars
    BY <1>1 DEF WorldStep, Install, Use, Exits, Release, UnregistersLate, Unwind, Crash
<1>2. CASE TrashStep
    <2>1. /\ UndoOf("rename", file, to, from) \in Undo
          /\ UndoOf("remove", file, to, to) \in Undo
        BY DEF UndoOf, Undo, UndoDo, TypeInv, DataOK
    <2>2. CASE TrashBegin \/ TrashStop \/ TrashWait \/ TrashMkdir
        BY <2>2 DEF TrashBegin, TrashStop, TrashWait, TrashMkdir
    <2>3. CASE TrashRename \/ TrashCopied
        BY <2>1, <2>3 DEF TrashRename, TrashCopied, Push
    <2>4. CASE TrashCopy \/ TrashRemove \/ TrashList \/ TrashNext
        BY <2>4 DEF TrashCopy, TrashRemove, TrashList, TrashNext
    <2>5. CASE WriteManifest \/ TrashUnregister \/ TrashClean
        BY <2>5 DEF WriteManifest, TrashUnregister, TrashClean
    <2>6. CASE UndeleteImported \/ UndeleteSettings
        BY <2>6 DEF UndeleteImported, UndeleteSettings
    <2>7. ASSUME NEW g \in Guid, UndeleteImport(g) \/ Purge(g)
          PROVE  UndoMove
        BY <2>7 DEF UndeleteImport, Purge
    <2> QED
        BY <1>2, <2>2, <2>3, <2>4, <2>5, <2>6, <2>7 DEF TrashStep
<1>3. CASE MoveStep
    <2>1. /\ UndoOf("rename", "disk", to, from) \in Undo
          /\ UndoOf("remove", "disk", to, to) \in Undo
        BY Members DEF UndoOf, Undo, UndoDo, TypeInv, DataOK
    <2>2. CASE Repoint
        <3>1. base[reg] \in Place
            BY <2>2, Numbers DEF Repoint, TypeInv, DataOK, TargetsOK
        <3>2. UndoOf("repoint", "disk", to, base[reg]) \in Undo
            BY <3>1, Members DEF UndoOf, Undo, UndoDo, TypeInv, DataOK
        <3> QED
            BY <2>2, <3>2 DEF Repoint, Push
    <2>3. CASE \E p \in world.dirs, k \in BOOLEAN : MoveBegin(p, k)
        BY <2>3 DEF MoveBegin
    <2>4. CASE \E p \in Place : RelinkBegin(p)
        BY <2>4 DEF RelinkBegin
    <2>5. CASE MoveMkdir \/ MoveCopy \/ SmokeTest
        BY <2>5 DEF MoveMkdir, MoveCopy, SmokeTest
    <2>6. CASE MoveRename \/ MoveCopied
        BY <2>1, <2>6 DEF MoveRename, MoveCopied, Push
    <2>7. CASE SmokeStop \/ SmokeFailed \/ DeleteSource \/ MoveUnwound
        BY <2>7 DEF SmokeStop, SmokeFailed, DeleteSource, MoveUnwound
    <2> QED
        BY <1>3, <2>2, <2>3, <2>4, <2>5, <2>6, <2>7 DEF MoveStep
<1> QED
    BY <1>1, <1>2, <1>3 DEF Next

UndoOK == undo \in Seq(Undo)

\* A rollback that is left is a rollback.
LEMMA LeaveType == \A u \in Undo : Leave(u) \in Undo
BY DEF Leave, Undo, UndoDo

\* Every step keeps its type.
LEMMA StepUndo == TypeInv /\ UndoOK /\ [Next]_vars => UndoOK'
<1> SUFFICES ASSUME TypeInv, UndoOK, [Next]_vars
             PROVE  UndoOK'
    OBVIOUS
<1>1. UndoMove
    BY UndoMoves
<1>2. CASE undo' = undo
    BY <1>2, Zenon DEF UndoOK
<1>3. CASE undo' = <<>>
    <2>1. <<>> \in Seq(Undo)
        OBVIOUS
    <2> QED
        BY <1>3, <2>1 DEF UndoOK
<1>4. ASSUME NEW u \in Undo, undo' = Append(undo, u)
      PROVE  UndoOK'
    BY <1>4, AppendProperties DEF UndoOK
<1>5. CASE undo' = [i \in DOMAIN undo |-> Leave(undo[i])]
    <2>1. Len(undo) \in Nat /\ DOMAIN undo = 1..Len(undo)
        BY LenProperties DEF UndoOK
    <2>2. undo' \in [1..Len(undo) -> Undo]
        BY <1>5, <2>1, LeaveType, ElementOfSeq DEF UndoOK
    <2> QED
        BY <2>1, <2>2, SeqDef DEF UndoOK
<1>6. CASE undo # <<>> /\ undo' = SubSeq(undo, 1, Len(undo) - 1)
    BY <1>6, TopType DEF UndoOK
<1> QED
    BY <1>1, <1>2, <1>3, <1>4, <1>5, <1>6 DEF UndoMove

\* The variables keep their types, whatever the commands do and wherever they die.
THEOREM Typing == Spec => []TypeOK
<1>1. Init => TypeInv /\ UndoOK
    BY InitType DEF Init, UndoOK
<1>2. TypeInv /\ UndoOK /\ [Next]_vars => TypeInv' /\ UndoOK'
    BY StepType, StepUndo DEF UndoOK
<1>3. TypeInv /\ UndoOK => TypeOK
    BY DEF TypeInv, DataOK, FS, UndoOK, TypeOK
<1> QED
    BY <1>1, <1>2, <1>3, PTL DEF Spec

-----------------------------------------------------------------------------
(* No command loses a disk. *)

Disk(p) == files[p]["disk"]

\* What is true of the places before any command.
PlacesOK ==
    /\ cmd = "none" => pc = "idle" /\ undo = <<>>
    /\ folder \subseteq 0..(next - 1)
    /\ cmd \in {"trash", "undelete"} => to < next
    /\ "trash" \in world.commands => 
          /\ reg # 0 => base[reg] # reg
          /\ cmd # "relink"
    /\ cmd = "trash" => "trash" \in world.commands /\ from # to

\* A trash that does not copy only has renames to undo; where it is about to
\* unregister, the disk is gone from where WSL would delete it.
TrashMoves ==
    cmd = "trash" =>
    /\ pc \in {"stop", "wait", "mkdir", "move", "list", "next", "manifest", "unregister", "unwind"}
    /\ \A i \in DOMAIN undo : undo[i].do = "rename"
    /\ pc \in {"stop", "wait", "mkdir"} => file = "disk"
    /\ "disk" \notin todo
    /\ pc \in {"list", "next", "manifest", "unregister"} \/ (pc = "move" /\ file # "disk")
           => Disk(from) = Nothing

\* What a move removes, at the target or at the source, is one of two.
MoveKeeps ==
    cmd = "move" =>
    /\ pc \in {"mkdir", "move", "copying"} => undo = <<>>
    /\ pc = "copying" => Disk(to) = Stale
    /\ pc \in {"repoint", "start", "terminate", "release"} => ByRename \/ Disk(from) = Disk(to)
    /\ pc = "delete" => ByRename \/ Disk(from) \notin Guid
    /\ \A i \in DOMAIN undo :
          /\ undo[i].do \in {"rename", "remove"} => i = 1
          /\ undo[i].do = "remove" =>
                undo[i].at = to /\ (pc # "delete" => Disk(from) = Disk(to))
          /\ undo[i].do = "repoint" /\ "trash" \in world.commands => undo[i].to # reg

RelinkKeeps ==
    cmd = "relink" => \A i \in DOMAIN undo : undo[i].do = "repoint"

SurviveInv == PlacesOK /\ TrashMoves /\ MoveKeeps /\ RelinkKeeps /\ DisksKept

\* The rollbacks when one is added, and when the newest is gone.
LEMMA AppendItems ==
    ASSUME NEW s \in Seq(Undo), NEW u \in Undo
    PROVE  /\ DOMAIN Append(s, u) = DOMAIN s \cup {Len(s) + 1}
           /\ Append(s, u)[Len(s) + 1] = u
           /\ \A i \in DOMAIN s : Append(s, u)[i] = s[i]
           /\ s = <<>> => DOMAIN Append(s, u) = {1} /\ Len(s) = 0
<1>1. /\ Len(s) \in Nat /\ DOMAIN s = 1..Len(s)
      /\ Append(s, u) \in Seq(Undo) /\ Len(Append(s, u)) = Len(s) + 1
      /\ \A i \in 1..Len(s) : Append(s, u)[i] = s[i]
      /\ Append(s, u)[Len(s) + 1] = u
    BY AppendProperties, LenProperties
<1>2. DOMAIN Append(s, u) = 1..(Len(s) + 1)
    BY <1>1, LenProperties
<1>3. s = <<>> => Len(s) = 0
    BY EmptySeq
<1> QED
    BY <1>1, <1>2, <1>3

LEMMA PopItems ==
    ASSUME NEW s \in Seq(Undo), s # <<>>
    PROVE  /\ DOMAIN SubSeq(s, 1, Len(s) - 1) = 1..(Len(s) - 1)
           /\ Len(s) \in DOMAIN s /\ DOMAIN s = 1..Len(s) /\ Len(s) \in Nat
           /\ s[Len(s)] \in Undo
           /\ \A i \in 1..(Len(s) - 1) : i \in DOMAIN s /\ SubSeq(s, 1, Len(s) - 1)[i] = s[i]
<1>1. Len(s) \in Nat /\ Len(s) # 0 /\ DOMAIN s = 1..Len(s)
    BY EmptySeq, LenProperties
<1>2. /\ SubSeq(s, 1, Len(s) - 1) \in Seq(Undo)
      /\ Len(SubSeq(s, 1, Len(s) - 1)) = Len(s) - 1
      /\ \A i \in 1..(Len(s) - 1) : SubSeq(s, 1, Len(s) - 1)[i] = s[i]
    BY <1>1, SubSeqProperties
<1>3. DOMAIN SubSeq(s, 1, Len(s) - 1) = 1..(Len(s) - 1)
    BY <1>2, LenProperties
<1> QED
    BY <1>1, <1>2, <1>3, TopType

\* A disk that is anywhere stays somewhere.
Stays == \A p \in Place : Disk(p) \in Guid => \E q \in Place : files'[q]["disk"] = Disk(p)

\* No disk is lost then.
LEMMA StaysSurvive ==
    ASSUME DisksKept, Stays, UNCHANGED <<next, disk>>, purged \subseteq purged', ruined \subseteq ruined'
    PROVE  DisksKept'
BY DEF DisksKept, Stays, Disk, Installed

LEMMA SameStays == UNCHANGED files => Stays
BY DEF Stays, Disk

LEMMA RenameStays ==
    ASSUME TypeInv, NEW p \in Place, NEW q \in Place, NEW f \in File,
           CanRename(p, q, f), files' = Renamed(p, q, f)
    PROVE  Stays
<1>1. \A r \in Place : files'[r]["disk"] =
         IF p # q /\ f = "disk" /\ r = q THEN files[p][f]
         ELSE IF p # q /\ f = "disk" /\ r = p THEN Nothing ELSE files[r]["disk"]
    BY RenameOps, Members DEF TypeInv, DataOK
<1>2. p # q /\ f = "disk" => files[q]["disk"] \notin Guid
    BY Sorts DEF CanRename
<1>3. ASSUME NEW r \in Place, files[r]["disk"] \in Guid
      PROVE  \E x \in Place : files'[x]["disk"] = files[r]["disk"]
    <2>1. CASE p # q /\ f = "disk" /\ r = p
        BY <1>1, <2>1
    <2>2. CASE ~(p # q /\ f = "disk" /\ r = p)
        BY <1>1, <1>2, <1>3, <2>2
    <2> QED
        BY <2>1, <2>2
<1> QED
    BY <1>3 DEF Stays, Disk

LEMMA StartStays ==
    ASSUME TypeInv, NEW p \in Place, Started(p)
    PROVE  Stays
BY StartOps DEF TypeInv, DataOK, Stays, Disk

\* A disk that is removed where another place has it, or that is none.
LEMMA RemoveStays ==
    ASSUME TypeInv, NEW p \in Place, NEW f \in File, files' = Removed(p, f),
           \/ f # "disk" \/ Disk(p) \notin Guid 
           \/ \E q \in Place : q # p /\ Disk(q) = Disk(p)
    PROVE  Stays
<1>1. \A r \in Place : files'[r]["disk"] =
         IF r = p /\ f = "disk" THEN Nothing ELSE files[r]["disk"]
    BY RemoveOps, Members DEF TypeInv, DataOK
<1> QED
    BY <1>1 DEF Stays, Disk

LEMMA WriteStays ==
    ASSUME TypeInv, NEW p \in Place, NEW f \in File, NEW c \in Content,
           files' = [files EXCEPT ![p][f] = c], f # "disk" \/ Disk(p) \notin Guid
    PROVE  Stays
<1>1. \A r \in Place : files'[r]["disk"] =
         IF r = p /\ f = "disk" THEN c ELSE files[r]["disk"]
    BY WriteOps, Members DEF TypeInv, DataOK
<1> QED
    BY <1>1 DEF Stays, Disk

\* A world has no trash that copies, and not both trash and relink.
OneVolume == ~TrashCopies /\ ~({"trash", "relink"} \subseteq world.commands)

\* Where a trash cannot copy, all that it moves is on one volume.
LEMMA NoCopies ==
    ASSUME OneVolume, TypeInv, cmd = "trash", PlacesOK
    PROVE  SameVolume(from, to) /\ ~Fails("volume")
BY DEF OneVolume, TrashCopies, PlacesOK, SameVolume, Fails

\* The places stay as they should.
LEMMA StepPlaces ==
    ASSUME TypeInv, UndoOK, OneVolume, SurviveInv, [Next]_vars
    PROVE  PlacesOK'
<1> USE DEF SurviveInv, PlacesOK, Finish, GiveUp, Return, Goto, Begin, Abort, vars, diskVars, stepVars, histVars
<1>1. ASSUME NEW d \in world.dirs, Install(d), UNCHANGED world
      PROVE  PlacesOK'
    <2>1. d \notin Guid /\ next \in Guid
        BY <1>1, WorldSorts, Sorts DEF TypeInv, DataOK, Install
    <2>2. base'[next] = d /\ reg' = next /\ next' = next + 1
        BY <1>1, <2>1 DEF TypeInv, DataOK, Install
    <2>3. folder' \subseteq 0..(next' - 1)
        BY <1>1, <2>1, <2>2, Sorts DEF Install
    <2>4. UNCHANGED <<cmd, pc, undo, to>> /\ cmd = "none"
        BY <1>1 DEF Install
    <2> QED
        BY <1>1, <2>1, <2>2, <2>3, <2>4
<1>7. CASE UnregistersLate /\ UNCHANGED world
    <2>1. UNCHANGED <<cmd, pc, folder, next, base, from, to, undo>> /\ reg' = 0
        BY <1>7 DEF UnregistersLate
    <2> QED
        BY <1>7, <2>1
<1>2. CASE (Use \/ Exits \/ Release \/ Crash) /\ UNCHANGED world
    <2>1. CASE Use \/ Exits
        <3>1. UNCHANGED <<cmd, pc, undo, folder, next, reg, base, from, to>>
            BY <2>1 DEF Use, Exits
        <3>2. UNCHANGED world
            BY <1>2
        <3> QED
            BY ZenonT(30), <3>1, <3>2
    <2>2. CASE Release
        BY <1>2, <2>2 DEF Release
    <2>3. CASE Crash
        BY <1>2, <2>3 DEF Crash
    <2> QED
        BY <1>2, <2>1, <2>2, <2>3
<1>3. CASE Unwind /\ UNCHANGED world
    <2>1. undo[Len(undo)] \in Undo /\ Len(undo) \in DOMAIN undo
        BY <1>3, PopItems DEF Unwind, UndoOK
    <2> DEFINE u == undo[Len(undo)]
    <2>2. base' = base \/ (u.do = "repoint" /\ base' = [base EXCEPT ![reg] = u.to])
        BY <1>3 DEF Unwind, UndoDone
    <2>3. "trash" \in world.commands /\ reg # 0 => base'[reg] # reg
        <3>1. CASE cmd = "move"
            BY <2>1, <2>2, <3>1, Numbers DEF MoveKeeps, TypeInv, DataOK
        <3>2. CASE cmd = "trash"
            BY <2>1, <2>2, <3>2 DEF TrashMoves
        <3> QED
            BY <1>3, <3>1, <3>2 DEF Unwind, TypeInv, DataOK, TargetsOK
    <2> QED
        BY <1>3, <2>3 DEF Unwind
<1>4. CASE TrashStep /\ UNCHANGED world
    <2>1. CASE TrashBegin \/ TrashStop \/ TrashWait
        BY <1>4, <2>1 DEF TrashBegin, TrashStop, TrashWait, TypeInv, DataOK
    <2>2. CASE TrashMkdir
        <3>1. to \in 0..(next - 1)
            BY <2>2, Sorts DEF TrashMkdir, TypeInv, DataOK, TargetsOK
        <3> QED
            BY <1>4, <2>2, <3>1 DEF TrashMkdir
    <2>3. CASE TrashRename \/ TrashCopy \/ TrashCopied \/ TrashRemove
        BY <1>4, <2>3 DEF TrashRename, TrashCopy, TrashCopied, TrashRemove
    <2>4. CASE TrashList \/ TrashNext \/ WriteManifest
        BY <1>4, <2>4 DEF TrashList, TrashNext, WriteManifest
    <2>5. CASE TrashUnregister \/ TrashClean
        BY <1>4, <2>5 DEF TrashUnregister, TrashClean, Unregistered
    <2>6. CASE UndeleteImported
        <3>0. cmd = "undelete" /\ pc = "import" /\ next \in Guid
            BY <2>6, Numbers DEF UndeleteImported, TypeInv, DataOK, TargetsOK
        <3>1. next \in Guid /\ to # next /\ to < next /\ to \in Guid
            BY <3>0, Sorts DEF TypeInv, TargetsOK
        <3>2. /\ UNCHANGED folder
              /\ \/ reg' = next /\ next' = next + 1 /\ base' = [base EXCEPT ![next] = to]
                 \/ reg' = reg /\ next' = next /\ base' = base
              /\ \/ cmd' = "none" /\ pc' = "idle" /\ undo' = <<>>
                 \/ UNCHANGED <<cmd, to>>
            BY <2>6 DEF UndeleteImported, Imported
        <3>3. folder \subseteq 0..next
            BY <3>1, Sorts
        <3>4. "trash" \in world.commands => (reg' # 0 => base'[reg'] # reg')
            BY <3>1, <3>2 DEF TypeInv, DataOK
        <3> QED
            <4>1. folder' \subseteq 0..(next' - 1)
                BY <3>1, <3>2, <3>3, Sorts
            <4>2. cmd' \in {"trash", "undelete"} => to' < next'
                BY <3>0, <3>1, <3>2, Sorts
            <4>3. cmd' \in {"none", "undelete"}
                BY <3>0, <3>2
            <4> QED
                BY <1>4, <3>0, <3>2, <3>4, <4>1, <4>2, <4>3
    <2>7. CASE UndeleteSettings
        BY <1>4, <2>7 DEF UndeleteSettings
    <2>8. ASSUME NEW g \in Guid, UndeleteImport(g) \/ Purge(g)
          PROVE  PlacesOK'
        BY <1>4, <2>8 DEF UndeleteImport, Purge, TypeInv, DataOK
    <2> QED
        BY <1>4, <2>1, <2>2, <2>3, <2>4, <2>5, <2>6, <2>7, <2>8 DEF TrashStep
<1>5. CASE MoveStep /\ UNCHANGED world
    <2>1. CASE \E p \in world.dirs, k \in BOOLEAN : MoveBegin(p, k)
        BY <1>5, <2>1 DEF MoveBegin
    <2>2. CASE \E p \in Place : RelinkBegin(p)
        BY <1>5, <2>2 DEF RelinkBegin, OneVolume
    <2>3. CASE MoveMkdir \/ MoveRename \/ MoveCopy \/ MoveCopied
        BY <1>5, <2>3 DEF MoveMkdir, MoveRename, MoveCopy, MoveCopied
    <2>4. CASE Repoint
        BY <1>5, <2>4, Numbers, Sorts DEF Repoint, TypeInv, DataOK, TargetsOK
    <2>5. CASE SmokeTest \/ SmokeStop \/ SmokeFailed \/ DeleteSource \/ MoveUnwound
        BY <1>5, <2>5 DEF SmokeTest, SmokeStop, SmokeFailed, DeleteSource, MoveUnwound, Started
    <2> QED
        BY <1>5, <2>1, <2>2, <2>3, <2>4, <2>5 DEF MoveStep
<1>6. CASE UNCHANGED vars
    BY <1>6
<1> QED
    BY <1>1, <1>2, <1>3, <1>4, <1>5, <1>6, <1>7 DEF Next, WorldStep

\* What is written of a manifest.
LEMMA ManifestWrites ==
    ASSUME TypeInv, WriteManifest
    PROVE  /\ to \in Content
           /\ \/ files' = files
              \/ files' = [files EXCEPT ![to]["manifest"] = to]
              \/ files' = [files EXCEPT ![to]["manifest"] = Stale]
           /\ \/ files' = files
              \/ \E c \in Content : files' = [files EXCEPT ![to]["manifest"] = c]
<1>1. to \in Content /\ Stale \in Content
    BY Members DEF WriteManifest, TypeInv, TargetsOK
<1>2. \/ files' = files
      \/ files' = [files EXCEPT ![to]["manifest"] = to]
      \/ files' = [files EXCEPT ![to]["manifest"] = Stale]
    BY DEF WriteManifest
<1> QED
    BY <1>1, <1>2

\* A trash that does not copy.
LEMMA StepTrash ==
    ASSUME TypeInv, UndoOK, OneVolume, SurviveInv, [Next]_vars
    PROVE  TrashMoves'
<1> USE DEF SurviveInv, TrashMoves, Finish, GiveUp, Return, Goto, Begin, Abort, vars, diskVars, stepVars, histVars
<1>1. CASE cmd' # "trash"
    BY <1>1
<1>2. CASE UNCHANGED <<cmd, pc, undo, todo, from, file, files>>
    BY <1>2 DEF Disk
<1>3. ASSUME cmd' = "trash"
      PROVE  cmd = "trash" \/ TrashBegin
    <2>1. CASE WorldStep \/ UNCHANGED vars
        BY <1>3, <2>1 DEF WorldStep, Install, Use, Exits, Release, UnregistersLate, Unwind, Crash, PlacesOK
    <2>2. CASE TrashStep
        BY <1>3, <2>2 DEF TrashStep, TrashStop, TrashWait, TrashMkdir, TrashRename, TrashCopy,
           TrashCopied, TrashRemove, TrashList, TrashNext, WriteManifest, TrashUnregister,
           TrashClean, UndeleteImported, UndeleteSettings, UndeleteImport, Purge
    <2>3. CASE MoveStep
        BY <1>3, <2>3 DEF MoveStep, MoveBegin, MoveMkdir, MoveRename, MoveCopy, MoveCopied,
           RelinkBegin, Repoint, SmokeTest, SmokeStop, SmokeFailed, DeleteSource, MoveUnwound
    <2> QED
        BY <2>1, <2>2, <2>3 DEF Next
<1>4. CASE TrashBegin
    BY <1>4 DEF TrashBegin
<1>5. CASE cmd = "trash" /\ cmd' = "trash"
    <2> USE <1>5
    <2>1. CASE WorldStep \/ UNCHANGED vars
        <3>1. CASE Unwind
            <4>1. /\ DOMAIN undo' = 1..(Len(undo) - 1)
                  /\ \A i \in 1..(Len(undo) - 1) : i \in DOMAIN undo /\ undo'[i] = undo[i]
                BY <3>1, PopItems DEF Unwind, UndoOK
            <4> QED
                BY <3>1, <4>1 DEF Unwind
        <3>2. CASE Release
            BY <1>2, <3>2 DEF Release
        <3>3. CASE UnregistersLate
            <4>1. base[pending] \in Place /\ from \in Place
                BY <3>3, Numbers DEF UnregistersLate, TypeInv, DataOK
            <4>2. Disk(from) = Nothing => files'[from]["disk"] = Nothing
                BY <3>3, <4>1, RemoveOps, Members DEF UnregistersLate, Disk, TypeInv, DataOK
            <4> QED
                BY <3>3, <4>2 DEF UnregistersLate, Disk
        <3> QED
            BY <1>2, <2>1, <3>1, <3>2, <3>3 DEF WorldStep, Install, Use, Exits, Crash
    <2>2. CASE TrashStep
        <3>1. CASE TrashStop \/ TrashWait \/ TrashMkdir
            BY <3>1 DEF TrashStop, TrashWait, TrashMkdir
        <3>2. CASE TrashRename
            <4>1. from # to /\ from \in Place /\ to \in Place
                BY <3>2 DEF TrashRename, PlacesOK, TypeInv, TargetsOK, DataOK
            <4>2. CASE /\ CanRename(from, to, file) /\ files' = Renamed(from, to, file)
                       /\ Push(UndoOf("rename", file, to, from)) /\ Goto(AfterFile)
                       /\ UNCHANGED <<from, to, file, todo, keep, late, uerr>>
                <5>1. /\ UndoOf("rename", file, to, from) \in Undo
                      /\ UndoOf("rename", file, to, from).do = "rename"
                    BY DEF UndoOf, Undo, UndoDo, TypeInv, DataOK
                <5>2. \A i \in DOMAIN undo' : undo'[i].do = "rename"
                    BY <4>2, <5>1, AppendItems DEF Push, UndoOK
                <5>3. file = "disk" => files'[from]["disk"] = Nothing
                    BY <4>1, <4>2, RenameOps DEF TypeInv, DataOK
                <5>4. file # "disk" => files'[from]["disk"] = files[from]["disk"]
                    BY <4>1, <4>2, RenameOps, Members DEF TypeInv, DataOK
                <5> QED
                    BY <3>2, <4>2, <5>2, <5>3, <5>4 DEF TrashRename, AfterFile, Disk
            <4>3. CASE Abort
                BY <4>3
            <4> QED
                BY <3>2, <4>2, <4>3 DEF TrashRename
        <3>3. CASE TrashCopy
            BY <3>3, NoCopies DEF TrashCopy
        <3>4. CASE TrashCopied \/ TrashRemove
            BY <3>4 DEF TrashCopied, TrashRemove
        <3>5. CASE TrashList \/ TrashNext
            BY <3>5 DEF TrashList, TrashNext, Disk
        <3>6. CASE WriteManifest
            <4>1. \/ files' = files
                  \/ \E c \in Content : files' = [files EXCEPT ![to]["manifest"] = c]
                BY <3>6, ManifestWrites
            <4>2. files \in FS /\ from \in Place /\ to \in Place
                BY DEF TypeInv, DataOK
            <4>3. files'[from]["disk"] = files[from]["disk"]
                <5>1. CASE files' = files
                    BY <5>1
                <5>2. ASSUME NEW c \in Content, files' = [files EXCEPT ![to]["manifest"] = c]
                      PROVE  files'[from]["disk"] = files[from]["disk"]
                    BY <4>2, <5>2, WriteOps, Members
                <5> QED
                    BY <4>1, <5>1, <5>2
            <4> QED
                BY <3>6, <4>3 DEF WriteManifest, Disk
        <3>7. CASE TrashUnregister
            BY <3>7 DEF TrashUnregister
        <3> QED
            BY <2>2, <3>1, <3>2, <3>3, <3>4, <3>5, <3>6, <3>7 DEF TrashStep, TrashBegin,
               TrashClean, UndeleteImported, UndeleteSettings, UndeleteImport, Purge
    <2>3. CASE MoveStep
        BY <2>3 DEF MoveStep, MoveBegin, MoveMkdir, MoveRename, MoveCopy, MoveCopied,
           RelinkBegin, Repoint, SmokeTest, SmokeStop, SmokeFailed, DeleteSource, MoveUnwound
    <2> QED
        BY <2>1, <2>2, <2>3 DEF Next
<1> QED
    BY <1>1, <1>3, <1>4, <1>5

\* A move.
LEMMA StepMove ==
    ASSUME TypeInv, UndoOK, OneVolume, SurviveInv, [Next]_vars
    PROVE  MoveKeeps'
<1> USE DEF SurviveInv, MoveKeeps, Finish, GiveUp, Return, Goto, Begin, Abort, vars, diskVars, stepVars, histVars
<1>1. CASE cmd' # "move"
    BY <1>1
<1>2. CASE UNCHANGED <<world, reg, cmd, pc, undo, to, from, files>>
    BY <1>2 DEF Disk, ByRename
<1>3. ASSUME cmd' = "move"
      PROVE  cmd = "move" \/ \E p \in world.dirs, k \in BOOLEAN : MoveBegin(p, k)
    <2>1. CASE WorldStep \/ UNCHANGED vars
        BY <1>3, <2>1 DEF WorldStep, Install, Use, Exits, Release, UnregistersLate, Unwind, Crash, PlacesOK
    <2>2. CASE TrashStep
        BY <1>3, <2>2 DEF TrashStep, TrashBegin, TrashStop, TrashWait, TrashMkdir, TrashRename, TrashCopy,
           TrashCopied, TrashRemove, TrashList, TrashNext, WriteManifest, TrashUnregister,
           TrashClean, UndeleteImported, UndeleteSettings, UndeleteImport, Purge
    <2>3. CASE MoveStep
        BY <1>3, <2>3 DEF MoveStep, MoveMkdir, MoveRename, MoveCopy, MoveCopied,
           RelinkBegin, Repoint, SmokeTest, SmokeStop, SmokeFailed, DeleteSource, MoveUnwound
    <2> QED
        BY <2>1, <2>2, <2>3 DEF Next
<1>4. ASSUME NEW p \in world.dirs, NEW k \in BOOLEAN, MoveBegin(p, k)
      PROVE  MoveKeeps'
    BY <1>4 DEF MoveBegin
<1>5. CASE cmd = "move" /\ cmd' = "move"
    <2> USE <1>5
    <2>1. CASE WorldStep \/ UNCHANGED vars
        <3>1. CASE Unwind
            <4>1. /\ DOMAIN undo' = 1..(Len(undo) - 1)
                  /\ \A i \in 1..(Len(undo) - 1) : i \in DOMAIN undo /\ undo'[i] = undo[i]
                  /\ Len(undo) \in DOMAIN undo /\ DOMAIN undo = 1..Len(undo) /\ Len(undo) \in Nat
                BY <3>1, PopItems DEF Unwind, UndoOK
            <4>2. pc = "unwind" /\ UNCHANGED <<cmd, pc, reg, from, to>> /\ UNCHANGED world
                BY <3>1 DEF Unwind, Next
            <4>3. CASE undo[Len(undo)].do \in {"rename", "remove"}
                <5>1. DOMAIN undo' = {}
                    BY <4>1, <4>3
                <5> QED
                    BY <4>2, <5>1
            <4>4. CASE undo[Len(undo)].do \notin {"rename", "remove"}
                <5>1. files' = files
                    BY <3>1, <4>4 DEF Unwind, UndoDone
                <5> QED
                    BY <4>1, <4>2, <5>1 DEF Disk
            <4> QED
                BY <4>3, <4>4
        <3>2. CASE Release
            BY <1>2, <3>2 DEF Release, Next
        <3>3. ~UnregistersLate
            BY DEF UnregistersLate, TypeInv, TargetsOK
        <3> QED
            BY <1>2, <2>1, <3>1, <3>2, <3>3 DEF WorldStep, Install, Use, Exits, Crash, PlacesOK
    <2>2. CASE TrashStep
        BY <2>2 DEF TrashStep, TrashBegin, TrashStop, TrashWait, TrashMkdir, TrashRename, TrashCopy,
           TrashCopied, TrashRemove, TrashList, TrashNext, WriteManifest, TrashUnregister,
           TrashClean, UndeleteImported, UndeleteSettings, UndeleteImport, Purge, PlacesOK
    <2>3. CASE MoveStep
        <3>1. CASE MoveMkdir
            BY <3>1 DEF MoveMkdir
        <3>2. CASE MoveRename \/ MoveCopied
            <4>1. undo = <<>> /\ from # to /\ to \in Place /\ from \in Place /\ files \in FS
                BY <3>2 DEF MoveRename, MoveCopied, TypeInv, DataOK, TargetsOK
            <4>2. /\ UndoOf("rename", "disk", to, from) \in Undo
                  /\ UndoOf("remove", "disk", to, to) \in Undo
                BY <4>1, Members DEF UndoOf, Undo, UndoDo
            <4>3. CASE MoveRename
                <5>1. undo' = Append(undo, UndoOf("rename", "disk", to, from)) /\ pc' = "repoint"
                    BY <4>3 DEF MoveRename, Push
                <5>2. DOMAIN undo' = {1} /\ undo'[1] = UndoOf("rename", "disk", to, from)
                    BY <4>1, <4>2, <5>1, AppendItems DEF UndoOK
                <5> QED
                    BY <5>1, <5>2 DEF ByRename, UndoOf
            <4>4. CASE MoveCopied
                <5>1. /\ undo' = Append(undo, UndoOf("remove", "disk", to, to)) /\ pc' = "repoint"
                      /\ files' = Copied(from, to, "disk") /\ UNCHANGED <<from, to>>
                    BY <4>4 DEF MoveCopied, Push
                <5>2. DOMAIN undo' = {1} /\ undo'[1] = UndoOf("remove", "disk", to, to)
                    BY <4>1, <4>2, <5>1, AppendItems DEF UndoOK
                <5>3. files'[from]["disk"] = files'[to]["disk"]
                    BY <4>1, <5>1, CopiedOps, Members
                <5> QED
                    BY <5>1, <5>2, <5>3 DEF UndoOf, Disk
            <4> QED
                BY <3>2, <4>3, <4>4
        <3>3. CASE MoveCopy
            <4>1. undo' = <<>> /\ pc' = "copying" /\ UNCHANGED <<from, to>>
                  /\ files' = [files EXCEPT ![to]["disk"] = Stale]
                BY <3>3 DEF MoveCopy
            <4>2. files'[to]["disk"] = Stale
                BY <4>1, WriteOps, Members DEF TypeInv, DataOK
            <4> QED
                BY <4>1, <4>2 DEF Disk
        <3>4. CASE Repoint
            <4>1. /\ UNCHANGED <<reg, from, to, files>> /\ UNCHANGED world
                  /\ pc' \in {"start", "unwind"} /\ pc = "repoint"
                  /\ undo' = undo \/ undo' = Append(undo, UndoOf("repoint", "disk", to, base[reg]))
                BY <3>4 DEF Repoint, Push, Next
            <4>2. "trash" \in world.commands => base[reg] # reg
                BY DEF PlacesOK, TypeInv, TargetsOK
            <4>3. base[reg] \in Place /\ to \in Place
                BY Numbers DEF TypeInv, DataOK, TargetsOK
            <4>4. UndoOf("repoint", "disk", to, base[reg]) \in Undo
                BY <4>3, Members DEF UndoOf, Undo, UndoDo
            <4>5. CASE undo' = undo
                BY <4>1, <4>5 DEF Disk, ByRename
            <4>6. CASE undo' = Append(undo, UndoOf("repoint", "disk", to, base[reg]))
                <5>1. /\ DOMAIN undo' = DOMAIN undo \cup {Len(undo) + 1}
                      /\ undo'[Len(undo) + 1] = UndoOf("repoint", "disk", to, base[reg])
                      /\ \A i \in DOMAIN undo : undo'[i] = undo[i]
                    BY <4>4, <4>6, AppendItems DEF UndoOK
                <5>2. ByRename => ByRename'
                    BY <5>1 DEF ByRename
                <5> QED
                    BY <4>1, <4>2, <5>1, <5>2 DEF Disk, UndoOf
            <4> QED
                BY <4>1, <4>5, <4>6
        <3>5. CASE SmokeTest
            <4>1. UNCHANGED <<world, reg, from, to, undo>> /\ from # to /\ from \in Place
                BY <3>5 DEF SmokeTest, Next, TypeInv, DataOK, TargetsOK
            <4>2. CASE Started(to) /\ pc' = "delete"
                <5>1. Disk(from) = Disk(to) => files'[from]["disk"] = Stale
                    BY <4>1, <4>2, StartOps DEF Disk, TypeInv, DataOK
                <5> QED
                    BY <3>5, <4>1, <4>2, <5>1, Sorts DEF SmokeTest, ByRename, Disk
            <4>3. CASE files' = files /\ pc' = "terminate"
                BY <3>5, <4>1, <4>3 DEF SmokeTest, ByRename, Disk
            <4> QED
                BY <3>5, <4>2, <4>3 DEF SmokeTest
        <3>7. CASE SmokeStop
            BY <3>7 DEF SmokeStop, Disk, ByRename, Next
        <3>6. CASE SmokeFailed
            <4>1. /\ UNCHANGED <<world, reg, from, to, files>> /\ pc' = "unwind" /\ pc = "release"
                  /\ undo' = undo \/ undo' = [i \in DOMAIN undo |-> Leave(undo[i])]
                BY <3>6 DEF SmokeFailed, Next
            <4>2. \A u \in Undo : /\ Leave(u).do \notin {"remove"}
                                  /\ Leave(u).do # "leave" => Leave(u) = u
                BY DEF Leave, Undo
            <4>3. \A i \in DOMAIN undo : undo[i] \in Undo
                BY LenProperties, ElementOfSeq DEF UndoOK
            <4> QED
                BY <4>1, <4>2, <4>3 DEF Disk
        <3> QED
            BY <2>3, <3>1, <3>2, <3>3, <3>4, <3>5, <3>6, <3>7 DEF MoveStep, MoveBegin, RelinkBegin,
               DeleteSource, MoveUnwound
    <2> QED
        BY <2>1, <2>2, <2>3 DEF Next
<1> QED
    BY <1>1, <1>3, <1>4, <1>5

\* A relink.
LEMMA StepRelink ==
    ASSUME TypeInv, UndoOK, OneVolume, SurviveInv, [Next]_vars
    PROVE  RelinkKeeps'
<1> USE DEF SurviveInv, RelinkKeeps, Finish, GiveUp, Return, Goto, Begin, Abort, vars, diskVars, stepVars, histVars
<1>1. CASE WorldStep \/ UNCHANGED vars
    <2>1. CASE Unwind
        <3>1. /\ DOMAIN undo' = 1..(Len(undo) - 1) /\ cmd' = cmd
              /\ \A i \in 1..(Len(undo) - 1) : i \in DOMAIN undo /\ undo'[i] = undo[i]
            BY <2>1, PopItems DEF Unwind, UndoOK
        <3> QED
            BY <3>1
    <2> QED
        BY <1>1, <2>1 DEF WorldStep, Install, Use, Exits, Release, UnregistersLate, Crash
<1>2. CASE TrashStep
    BY <1>2 DEF TrashStep, TrashBegin, TrashStop, TrashWait, TrashMkdir, TrashRename, TrashCopy,
       TrashCopied, TrashRemove, TrashList, TrashNext, WriteManifest, TrashUnregister,
       TrashClean, UndeleteImported, UndeleteSettings, UndeleteImport, Purge
<1>3. CASE MoveStep
    <2>1. CASE Repoint
        <3>1. UndoOf("repoint", "disk", to, base[reg]) \in Undo
            BY <2>1, Members, Numbers DEF Repoint, UndoOf, Undo, UndoDo, TypeInv, DataOK, TargetsOK
        <3>2. undo' = undo \/ undo' = Append(undo, UndoOf("repoint", "disk", to, base[reg]))
            BY <2>1 DEF Repoint, Push
        <3> QED
            BY <2>1, <3>1, <3>2, AppendItems DEF Repoint, UndoOK, UndoOf
    <2>2. CASE \E p \in Place : RelinkBegin(p)
        BY <2>2 DEF RelinkBegin
    <2>3. CASE SmokeFailed \/ MoveRename \/ MoveCopied
        BY <2>3 DEF SmokeFailed, MoveRename, MoveCopied
    <2> QED
        BY <1>3, <2>1, <2>2, <2>3 DEF MoveStep, MoveBegin, MoveMkdir, MoveCopy,
           SmokeTest, SmokeStop, DeleteSource, MoveUnwound
<1> QED
    BY <1>1, <1>2, <1>3 DEF Next

\* Every step keeps a current copy of every disk.
LEMMA StepSurvive ==
    ASSUME TypeInv, UndoOK, OneVolume, SurviveInv, [Next]_vars
    PROVE  DisksKept'
<1> USE DEF SurviveInv, Finish, GiveUp, Return, Goto, Begin, Abort, vars, diskVars, stepVars, histVars
<1>1. ASSUME NEW d \in world.dirs, Install(d)
      PROVE  DisksKept'
    <2>1. d \in Place /\ next \in Guid
        BY <1>1, WorldSorts, Sorts DEF TypeInv, DataOK, Install
    <2>2. PICK s \in {files[d]["sibling"], next} :
              files' = [files EXCEPT ![d]["disk"] = next, ![d]["sibling"] = s]
        BY <1>1 DEF Install
    <2>3. \A p \in Place : files'[p]["disk"] = IF p = d THEN next ELSE files[p]["disk"]
        BY <2>1, <2>2, Members DEF FS, TypeInv, DataOK
    <2>4. /\ disk' = [disk EXCEPT ![next] = next] /\ next' = next + 1 /\ purged' = purged /\ ruined' = ruined
          /\ files[d]["disk"] = Nothing
        BY <1>1 DEF Install
    <2>5. ASSUME NEW g \in (Installed \ (purged \cup ruined))'
          PROVE  \E p \in Place : files'[p]["disk"] = g
        <3>1. CASE g = next
            BY <2>1, <2>3, <3>1
        <3>2. CASE g # next
            <4>1. g \in Installed \ (purged \cup ruined)
                BY <2>1, <2>4, <3>2, Sorts DEF Installed, TypeInv, DataOK
            <4>2. PICK p \in Place : files[p]["disk"] = g
                BY <4>1 DEF DisksKept
            <4>3. p # d
                BY <2>4, <4>1, <4>2, Sorts DEF Installed
            <4> QED
                BY <2>3, <4>2, <4>3
        <3> QED
            BY <3>1, <3>2
    <2> QED
        BY <2>5 DEF DisksKept
<1>2. CASE UndeleteImported
    <2>1. next \in Guid /\ to \in Place /\ files' = files /\ purged' = purged /\ ruined' = ruined
        BY <1>2, Numbers DEF UndeleteImported, TypeInv, DataOK, TargetsOK
    <2>2. \/ next' = next + 1 /\ disk' = [disk EXCEPT ![next] = files[to]["disk"]]
          \/ next' = next /\ disk' = disk
        BY <1>2 DEF UndeleteImported, Imported
    <2>3. ASSUME NEW g \in (Installed \ (purged \cup ruined))'
          PROVE  \E p \in Place : files'[p]["disk"] = g
        <3>1. CASE next' = next + 1 /\ g = next
            BY <2>1, <2>2, <2>3, <3>1 DEF Installed, TypeInv, DataOK
        <3>2. CASE next' = next \/ g # next
            <4>1. g \in Installed \ (purged \cup ruined)
                BY <2>1, <2>2, <2>3, <3>2, Sorts DEF Installed, TypeInv, DataOK
            <4> QED
                BY <2>1, <4>1 DEF DisksKept
        <3> QED
            BY <2>1, <2>2, <3>1, <3>2, Sorts
    <2> QED
        BY <2>3 DEF DisksKept
<1>3. ASSUME NEW g \in Guid, Purge(g)
      PROVE  DisksKept'
    <2>1. PICK gone \in SUBSET {f \in File : CanRemove(g, f)} :
              files' = [files EXCEPT ![g] = [f \in File |-> IF f \in gone THEN Nothing ELSE @[f]]]
        BY <1>3 DEF Purge
    <2>2. \A p \in Place : p # g => files'[p]["disk"] = files[p]["disk"]
        BY <2>1 DEF TypeInv, DataOK, FS
    <2>3. /\ UNCHANGED <<next, disk, ruined>>
          /\ purged' = purged \cup (Guid \cap {files[g]["disk"]})
        BY <1>3 DEF Purge
    <2> QED
        BY <2>2, <2>3 DEF DisksKept, Installed
<1>5. CASE UnregistersLate
    <2>1. pending = reg /\ base[reg] \in Place
        BY <1>5, Numbers DEF UnregistersLate, TypeInv, DataOK
    <2>2. UNCHANGED <<next, disk, purged>> /\ ruined \subseteq ruined'
        BY <1>5 DEF UnregistersLate
    <2>3. CASE UNCHANGED files
        BY <2>2, <2>3, SameStays, StaysSurvive
    <2>4. CASE /\ files' = Removed(base[reg], "disk")
               /\ ruined' = ruined \cup {files[base[reg]]["disk"]}
        <3>1. \A p \in Place : p # base[reg] => files'[p]["disk"] = files[p]["disk"]
            BY <2>1, <2>4, RemoveOps, Members DEF TypeInv, DataOK
        <3> QED
            BY <2>2, <2>4, <3>1 DEF DisksKept, Installed
    <2> QED
        BY <1>5, <2>1, <2>3, <2>4 DEF UnregistersLate
<1>4. \/ Stays /\ UNCHANGED <<next, disk, purged, ruined>>
      \/ (\E d \in world.dirs : Install(d)) \/ UnregistersLate
      \/ UndeleteImported \/ (\E g \in Guid : Purge(g))
    <2> DEFINE Kept == Stays /\ UNCHANGED <<next, disk, purged, ruined>>
    <2>1. from \in Place /\ to \in Place /\ file \in File /\ files \in FS
        BY DEF TypeInv, DataOK
    <2>2. CASE WorldStep \/ UNCHANGED vars
        <3>1. CASE Use
            <4>1. base[reg] \in Place
                BY <3>1, Numbers DEF Use, TypeInv, DataOK
            <4> QED
                BY <3>1, <4>1, StartStays DEF Use
        <3>2. CASE Exits \/ Release \/ Crash \/ UNCHANGED vars
            BY <3>2, SameStays DEF Exits, Release, Crash
        <3>3. CASE Unwind
            <4>1. /\ undo[Len(undo)] \in Undo /\ Len(undo) \in DOMAIN undo
                  /\ UNCHANGED <<next, disk, purged, ruined>> /\ pc = "unwind"
                BY <3>3, PopItems DEF Unwind, UndoOK
            <4> DEFINE u == undo[Len(undo)]
            <4>2. /\ u.at \in Place /\ u.to \in Place /\ u.file \in File
                  /\ u.do \in {"rename", "remove", "leave", "repoint"}
                BY <4>1 DEF Undo, UndoDo
            <4>3. files' = files \/ (UndoWorks(u) /\ UndoDone(u))
                BY <3>3 DEF Unwind
            <4>4. CASE files' = files
                BY <4>1, <4>4, SameStays
            <4>5. CASE UndoWorks(u) /\ UndoDone(u) /\ u.do = "rename"
                BY <4>1, <4>2, <4>5, RenameStays DEF UndoWorks, UndoDone
            <4>6. CASE UndoDone(u) /\ u.do = "remove"
                <5>1. cmd \in {"trash", "move", "relink"}
                    BY <3>3 DEF Unwind, PlacesOK, TypeInv, DataOK, TargetsOK
                <5>2. cmd = "move"
                    BY <4>1, <4>6, <5>1 DEF TrashMoves, RelinkKeeps
                <5>3. u.at = to /\ Disk(from) = Disk(to) /\ from # to
                    BY <4>1, <4>6, <5>2 DEF MoveKeeps, TypeInv, TargetsOK
                <5>4. files' = Removed(u.at, u.file)
                    BY <4>6 DEF UndoDone
                <5> QED
                    BY <2>1, <4>1, <4>2, <5>3, <5>4, RemoveStays
            <4>7. CASE UndoDone(u) /\ u.do \in {"leave", "repoint"}
                BY <4>1, <4>7, SameStays DEF UndoDone
            <4> QED
                BY <4>2, <4>3, <4>4, <4>5, <4>6, <4>7
        <3> QED
            BY <2>2, <3>1, <3>2, <3>3 DEF WorldStep
    <2>3. CASE TrashStep
        <3>1. CASE TrashBegin \/ TrashStop \/ TrashWait \/ TrashMkdir
            BY <3>1, SameStays DEF TrashBegin, TrashStop, TrashWait, TrashMkdir
        <3>2. CASE TrashRename
            BY <2>1, <3>2, RenameStays, SameStays DEF TrashRename
        <3>3. CASE TrashCopy
            BY <3>3, NoCopies DEF TrashCopy
        <3>4. CASE TrashCopied \/ TrashRemove
            BY <3>4 DEF TrashCopied, TrashRemove, TrashMoves
        <3>5. CASE TrashList \/ TrashNext \/ UndeleteSettings
            BY <3>5, SameStays DEF TrashList, TrashNext, UndeleteSettings
        <3>6. CASE WriteManifest
            <4>1. /\ \/ files' = files
                     \/ \E c \in Content : files' = [files EXCEPT ![to]["manifest"] = c]
                  /\ UNCHANGED <<next, disk, purged, ruined>>
                BY <3>6, ManifestWrites DEF WriteManifest
            <4> QED
                BY <2>1, <4>1, SameStays, WriteStays, Members
        <3>7. CASE TrashUnregister
            <4>1. /\ files' = files \/ files' = Removed(from, "disk")
                  /\ UNCHANGED <<next, disk, purged, ruined>> /\ Disk(from) = Nothing
                BY <3>7 DEF TrashUnregister, Unregistered, TrashMoves, TypeInv, TargetsOK
            <4> QED
                BY <2>1, <4>1, SameStays, RemoveStays, Members, Sorts
        <3>8. CASE TrashClean
            <4>1. /\ files' = files \/ files' = Removed(to, "manifest")
                  /\ UNCHANGED <<next, disk, purged, ruined>>
                BY <3>8 DEF TrashClean
            <4> QED
                BY <2>1, <4>1, SameStays, RemoveStays, Members
        <3>9. ASSUME NEW g \in Guid, UndeleteImport(g)
              PROVE  Kept
            BY <3>9, SameStays DEF UndeleteImport
        <3> QED
            BY <2>3, <3>1, <3>2, <3>3, <3>4, <3>5, <3>6, <3>7, <3>8, <3>9 DEF TrashStep
    <2>4. CASE MoveStep
        <3>1. CASE (\E p \in world.dirs, k \in BOOLEAN : MoveBegin(p, k)) \/ MoveMkdir
            BY <3>1, SameStays DEF MoveBegin, MoveMkdir
        <3>2. CASE MoveRename
            BY <2>1, <3>2, RenameStays, SameStays, Members DEF MoveRename
        <3>3. CASE MoveCopy
            BY <2>1, <3>3, WriteStays, SameStays, Members, Sorts DEF MoveCopy, CanCopy, Disk
        <3>4. CASE MoveCopied
            <4>1. files[to]["disk"] = Stale /\ files[from]["disk"] \in Content
                BY <2>1, <3>4, Members DEF MoveCopied, MoveKeeps, Disk, FS
            <4>2. /\ \/ files' = [files EXCEPT ![to]["disk"] = files[from]["disk"]]
                     \/ files' = Removed(to, "disk") \/ files' = files
                  /\ UNCHANGED <<next, disk, purged, ruined>>
                BY <3>4 DEF MoveCopied, Copied
            <4> QED
                BY <2>1, <4>1, <4>2, WriteStays, RemoveStays, SameStays, Members, Sorts DEF Disk
        <3>5. CASE (\E p \in Place : RelinkBegin(p)) \/ Repoint
            BY <3>5, SameStays DEF RelinkBegin, Repoint
        <3>6. CASE SmokeTest
            BY <2>1, <3>6, StartStays, SameStays DEF SmokeTest
        <3>7. CASE SmokeStop \/ SmokeFailed \/ MoveUnwound
            BY <3>7, SameStays DEF SmokeStop, SmokeFailed, MoveUnwound
        <3>8. CASE DeleteSource
            <4>1. /\ files' = files \/ (files' = Removed(from, "disk") /\ Disk(from) \notin Guid)
                  /\ UNCHANGED <<next, disk, purged, ruined>>
                BY <3>8 DEF DeleteSource, MoveKeeps
            <4> QED
                BY <2>1, <4>1, SameStays, RemoveStays, Members
        <3> QED
            BY <2>4, <3>1, <3>2, <3>3, <3>4, <3>5, <3>6, <3>7, <3>8 DEF MoveStep
    <2> QED
        BY <2>2, <2>3, <2>4 DEF Next
<1> QED
    BY <1>1, <1>2, <1>3, <1>4, <1>5, StaysSurvive

\* Wherever a trash has no disk to copy, no command loses one: until the user
\* purges it, some place holds it, current and complete, whatever fails and wherever
\* wslkit dies (Trash, Move, Relink, Undelete, Purge, UndoStack), unless WSL deletes
\* it for a wsl.exe that was killed (TrashLate).  Without relink in the same world,
\* which breaks it: TrashRelinked.
THEOREM NoDiskIsLost ==
    ASSUME \A w \in Worlds : ~({"trash", "relink"} \subseteq w.commands)
    PROVE  Spec => []DiskSurvivesOnVolume
<1> DEFINE Inv == ~TrashCopies => SurviveInv
<1>1. Init => TypeInv /\ UndoOK /\ Inv
    <2> SUFFICES ASSUME Init PROVE TypeInv /\ UndoOK /\ Inv
        OBVIOUS
    <2>1. TypeInv /\ UndoOK
        BY InitType DEF Init, UndoOK
    <2>2. folder \subseteq 0..(next - 1) /\ DisksKept
        BY Sorts DEF Init, DisksKept, Installed
    <2> QED
        BY <2>1, <2>2 DEF Init, SurviveInv, PlacesOK, TrashMoves, MoveKeeps, RelinkKeeps
<1>2. TypeInv /\ UndoOK /\ Inv /\ [Next]_vars => TypeInv' /\ UndoOK' /\ Inv'
    <2> SUFFICES ASSUME TypeInv, UndoOK, Inv, [Next]_vars
                 PROVE  Inv'
        BY StepType, StepUndo DEF UndoOK
    <2>1. TrashCopies' = TrashCopies
        BY DEF Next, vars, TrashCopies, Fails
    <2>2. CASE TrashCopies
        BY <2>1, <2>2
    <2>3. CASE ~TrashCopies
        <3>1. OneVolume
            BY <2>3 DEF OneVolume, TypeInv, DataOK
        <3> QED
            BY <2>3, <3>1, StepPlaces, StepTrash, StepMove, StepRelink, StepSurvive DEF SurviveInv
    <2> QED
        BY <2>2, <2>3
<1>3. Inv => DiskSurvivesOnVolume
    BY DEF SurviveInv, DiskSurvivesOnVolume
<1> QED
    BY <1>1, <1>2, <1>3, PTL DEF Spec

-----------------------------------------------------------------------------
(* The settings come back. *)

\* Where a manifest comes from: it was there, or a trash writes it.
Manifests ==
    \A p \in Place : files'[p]["manifest"] \in Guid =>
        \/ \E q \in Place : files[q]["manifest"] = files'[p]["manifest"]
        \/ cmd = "trash" /\ pc = "manifest" /\ files'[p]["manifest"] = to

LEMMA RenameManifests ==
    ASSUME TypeInv, NEW p \in Place, NEW q \in Place, NEW f \in File, files' = Renamed(p, q, f)
    PROVE  Manifests
<1>1. \A r \in Place : files'[r]["manifest"] =
         IF p # q /\ f = "manifest" /\ r = q THEN files[p][f]
         ELSE IF p # q /\ f = "manifest" /\ r = p THEN Nothing ELSE files[r]["manifest"]
    BY RenameOps, Members DEF TypeInv, DataOK
<1> QED
    BY <1>1, Sorts DEF Manifests

LEMMA RemoveManifests ==
    ASSUME TypeInv, NEW p \in Place, NEW f \in File, files' = Removed(p, f)
    PROVE  Manifests
<1>1. \A r \in Place : files'[r]["manifest"] =
         IF r = p /\ f = "manifest" THEN Nothing ELSE files[r]["manifest"]
    BY RemoveOps, Members DEF TypeInv, DataOK
<1> QED
    BY <1>1, Sorts DEF Manifests

LEMMA CopyManifests ==
    ASSUME TypeInv, NEW p \in Place, NEW q \in Place, NEW f \in File, files' = Copied(p, q, f)
    PROVE  Manifests
<1>1. \A r \in Place : files'[r]["manifest"] =
         IF r = q /\ f = "manifest" THEN files[p][f] ELSE files[r]["manifest"]
    BY CopiedOps, Members DEF TypeInv, DataOK
<1> QED
    BY <1>1 DEF Manifests

LEMMA WriteManifests ==
    ASSUME TypeInv, NEW p \in Place, NEW f \in File, NEW c \in Content,
           files' = [files EXCEPT ![p][f] = c],
           f # "manifest" \/ c = Stale \/ (cmd = "trash" /\ pc = "manifest" /\ c = to)
    PROVE  Manifests
<1>1. files \in FS
    BY DEF TypeInv, DataOK
<1>2. \A r \in Place, h \in File :
         [files EXCEPT ![p][f] = c][r][h] = IF r = p /\ h = f THEN c ELSE files[r][h]
    BY <1>1, WriteOps
<1> QED
    BY <1>2, Members, Sorts DEF Manifests

LEMMA StartManifests ==
    ASSUME TypeInv, NEW p \in Place, Started(p)
    PROVE  Manifests
<1>1. \A r \in Place : files'[r]["manifest"] = files[r]["manifest"]
    BY StartOps, Members DEF TypeInv, DataOK
<1> QED
    BY <1>1 DEF Manifests

\* No step makes one up.
LEMMA StepManifests ==
    ASSUME TypeInv, UndoOK, [Next]_vars
    PROVE  Manifests
<1> USE DEF Finish, GiveUp, Return, Goto, Begin, Abort, vars, diskVars, stepVars, histVars
<1>1. from \in Place /\ to \in Place /\ file \in File /\ files \in FS
    BY DEF TypeInv, DataOK
<1>2. UNCHANGED files => Manifests
    BY DEF Manifests
<1>3. CASE WorldStep \/ UNCHANGED vars
    <2>1. ASSUME NEW d \in world.dirs, Install(d)
          PROVE  Manifests
        <3>1. d \in Place
            BY WorldSorts, Members DEF TypeInv, DataOK
        <3>2. PICK s \in {files[d]["sibling"], next} :
                  files' = [files EXCEPT ![d]["disk"] = next, ![d]["sibling"] = s]
            BY <2>1 DEF Install
        <3>3. \A r \in Place : files'[r]["manifest"] = files[r]["manifest"]
            BY <1>1, <3>1, <3>2, Members DEF FS
        <3> QED
            BY <3>3 DEF Manifests
    <2>2. CASE Use
        <3>1. base[reg] \in Place
            BY <2>2, Numbers DEF Use, TypeInv, DataOK
        <3> QED
            BY <2>2, <3>1, StartManifests DEF Use
    <2>3. CASE Unwind
        <3>1. undo[Len(undo)] \in Undo
            BY <2>3, PopItems DEF Unwind, UndoOK
        <3> DEFINE u == undo[Len(undo)]
        <3>2. u.at \in Place /\ u.to \in Place /\ u.file \in File
            BY <3>1 DEF Undo
        <3>3. files' = files \/ files' = Renamed(u.at, u.to, u.file) \/ files' = Removed(u.at, u.file)
            BY <2>3 DEF Unwind, UndoDone
        <3> QED
            BY <1>2, <3>2, <3>3, RenameManifests, RemoveManifests
    <2>4. CASE Exits \/ Release \/ Crash \/ UNCHANGED vars
        BY <1>2, <2>4 DEF Exits, Release, Crash
    <2>5. CASE UnregistersLate
        <3>1. base[pending] \in Place
            BY <2>5, Numbers DEF UnregistersLate, TypeInv, DataOK
        <3> QED
            BY <1>2, <2>5, <3>1, RemoveManifests, Members DEF UnregistersLate
    <2> QED
        BY <1>3, <2>1, <2>2, <2>3, <2>4, <2>5 DEF WorldStep
<1>4. CASE TrashStep
    <2>1. CASE TrashBegin \/ TrashStop \/ TrashWait \/ TrashMkdir \/ TrashList \/ TrashNext
        BY <1>2, <2>1 DEF TrashBegin, TrashStop, TrashWait, TrashMkdir, TrashList, TrashNext
    <2>2. CASE TrashRename
        BY <1>1, <1>2, <2>2, RenameManifests DEF TrashRename
    <2>3. CASE TrashCopy
        BY <1>1, <1>2, <2>3, WriteManifests, Members DEF TrashCopy
    <2>4. CASE TrashCopied \/ TrashRemove
        BY <1>1, <1>2, <2>4, CopyManifests, RemoveManifests DEF TrashCopied, TrashRemove
    <2>5. CASE WriteManifest
        <3>1. /\ cmd = "trash" /\ pc = "manifest" /\ to \in Content
              /\ \/ files' = files
                 \/ files' = [files EXCEPT ![to]["manifest"] = to]
                 \/ files' = [files EXCEPT ![to]["manifest"] = Stale]
            BY <2>5, ManifestWrites DEF WriteManifest
        <3> QED
            BY <1>1, <1>2, <3>1, WriteManifests, Members
    <2>6. CASE TrashUnregister
        <3>1. reg # 0 => base[reg] \in Place
            BY Numbers DEF TypeInv, DataOK
        <3>2. files' = files \/ (reg # 0 /\ files' = Removed(base[reg], "disk"))
            BY <2>6 DEF TrashUnregister, Unregistered
        <3> QED
            BY <1>2, <3>1, <3>2, RemoveManifests, Members
    <2>7. CASE TrashClean
        BY <1>1, <1>2, <2>7, RemoveManifests, Members DEF TrashClean
    <2>8. CASE UndeleteImported \/ UndeleteSettings
        BY <1>2, <2>8 DEF UndeleteImported, UndeleteSettings
    <2>9. ASSUME NEW g \in Guid, UndeleteImport(g)
          PROVE  Manifests
        BY <1>2, <2>9 DEF UndeleteImport
    <2>10. ASSUME NEW g \in Guid, Purge(g)
           PROVE  Manifests
        <3>1. PICK gone \in SUBSET {f \in File : CanRemove(g, f)} :
                  files' = [files EXCEPT ![g] = [f \in File |-> IF f \in gone THEN Nothing ELSE @[f]]]
            BY <2>10 DEF Purge
        <3>2. \A p \in Place : files'[p]["manifest"] \in {Nothing, files[p]["manifest"]}
            BY <1>1, <3>1, Members DEF FS
        <3> QED
            BY <3>2, Sorts DEF Manifests
    <2> QED
        BY <1>4, <2>1, <2>2, <2>3, <2>4, <2>5, <2>6, <2>7, <2>8, <2>9, <2>10 DEF TrashStep
<1>5. CASE MoveStep
    <2>1. CASE (\E p \in world.dirs, k \in BOOLEAN : MoveBegin(p, k)) \/ MoveMkdir
               \/ (\E p \in Place : RelinkBegin(p)) \/ Repoint \/ SmokeStop \/ SmokeFailed \/ MoveUnwound
        BY <1>2, <2>1 DEF MoveBegin, MoveMkdir, RelinkBegin, Repoint, SmokeStop, SmokeFailed, MoveUnwound
    <2>2. CASE MoveRename
        BY <1>1, <1>2, <2>2, RenameManifests, Members DEF MoveRename
    <2>3. CASE MoveCopy
        BY <1>1, <1>2, <2>3, WriteManifests, Members DEF MoveCopy
    <2>4. CASE MoveCopied \/ DeleteSource
        BY <1>1, <1>2, <2>4, CopyManifests, RemoveManifests, Members DEF MoveCopied, DeleteSource
    <2>5. CASE SmokeTest
        BY <1>1, <1>2, <2>5, StartManifests DEF SmokeTest
    <2> QED
        BY <1>5, <2>1, <2>2, <2>3, <2>4, <2>5 DEF MoveStep
<1> QED
    BY <1>3, <1>4, <1>5 DEF Next

\* A manifest describes a registration that had its settings, and so does the
\* registration there is, apart from one that an undelete has only just made.
SettingsInv ==
    /\ reg # 0 /\ cmd # "undelete" => settings[reg] = "own"
    /\ cmd = "undelete" /\ pc = "settings" => reg # 0
    /\ cmd = "trash" => to < next /\ settings[to] = "own"
    /\ \A p \in Place : files[p]["manifest"] \in Guid =>
           files[p]["manifest"] < next /\ settings[files[p]["manifest"]] = "own"
    /\ \A g \in Guid : g >= next => settings[g] = "own"

Writable == ~world.crash /\ ~Fails("registry") /\ ~Fails("import late")

\* What changes of the registrations and their settings.
LEMMA StepSettings ==
    ASSUME TypeInv, UndoOK, Writable, SettingsInv, [Next]_vars
    PROVE  SettingsInv'
<1> USE DEF Finish, GiveUp, Return, Goto, Begin, Abort, vars, diskVars, stepVars, histVars
<1>1. Manifests
    BY StepManifests
<1>2. ASSUME UNCHANGED <<next, settings>>, reg' = reg \/ reg' = 0,
             cmd' = "undelete" => pc' = "import" \/ UNCHANGED <<cmd, pc, reg>>,
             cmd = "undelete" /\ cmd' # "undelete" => reg' = 0,
             cmd' = "trash" => UNCHANGED <<cmd, to>> \/ (cmd = "none" /\ to' = reg /\ reg # 0)
      PROVE  SettingsInv'
    <2>1. \A p \in Place : files'[p]["manifest"] \in Guid =>
              files'[p]["manifest"] < next /\ settings[files'[p]["manifest"]] = "own"
        <3> SUFFICES ASSUME NEW p \in Place, files'[p]["manifest"] \in Guid
                     PROVE  files'[p]["manifest"] < next /\ settings[files'[p]["manifest"]] = "own"
            OBVIOUS
        <3>1. CASE \E q \in Place : files[q]["manifest"] = files'[p]["manifest"]
            BY <3>1 DEF SettingsInv
        <3>2. CASE cmd = "trash" /\ pc = "manifest" /\ files'[p]["manifest"] = to
            BY <3>2 DEF SettingsInv
        <3> QED
            BY <1>1, <3>1, <3>2 DEF Manifests
    <2>2. cmd' = "trash" => to' < next /\ settings[to'] = "own"
        BY <1>2 DEF SettingsInv, TypeInv, DataOK
    <2> QED
        BY <1>2, <2>1, <2>2 DEF SettingsInv
<1>3. ASSUME NEW d \in world.dirs, Install(d)
      PROVE  SettingsInv'
    <2>1. next \in Guid /\ reg' = next /\ next' = next + 1 /\ settings' = settings /\ cmd' = "none"
        BY <1>3, WorldSorts, Sorts DEF Install, TypeInv, DataOK
    <2>2. \A p \in Place : files'[p]["manifest"] \in Guid =>
              \E q \in Place : files[q]["manifest"] = files'[p]["manifest"]
        BY <1>1, <1>3 DEF Manifests, Install
    <2> QED
        BY <2>1, <2>2, Sorts DEF SettingsInv
<1>4. CASE UndeleteImported
    <2>1. cmd = "undelete" /\ pc = "import" /\ next \in Guid /\ files' = files /\ reg = 0
        BY <1>4, Numbers DEF UndeleteImported, TypeInv, DataOK, TargetsOK
    <2>2. \/ /\ reg' = next /\ next' = next + 1 /\ pc' = "settings" /\ cmd' = cmd
             /\ settings' = [settings EXCEPT ![next] = "fresh"]
          \/ UNCHANGED <<reg, next, settings>> /\ cmd' = "none"
        BY <1>4 DEF UndeleteImported, Imported, Writable
    <2>3. CASE UNCHANGED <<reg, next, settings>> /\ cmd' = "none"
        BY <2>1, <2>3 DEF SettingsInv
    <2>4. CASE /\ reg' = next /\ next' = next + 1 /\ pc' = "settings" /\ cmd' = cmd
               /\ settings' = [settings EXCEPT ![next] = "fresh"]
        <3>1. \A g \in Guid : g # next => settings'[g] = settings[g]
            BY <2>4 DEF TypeInv, DataOK
        <3>2. \A g \in Guid : g >= next' => g >= next /\ g # next
            BY <2>1, <2>4, Sorts
        <3>3. \A g \in Guid : g < next => g # next /\ g < next'
            BY <2>1, <2>4, Sorts
        <3>4. reg' # 0
            BY <2>1, <2>4, Sorts
        <3> QED
            BY <2>1, <2>4, <3>1, <3>2, <3>3, <3>4 DEF SettingsInv
    <2> QED
        BY <2>2, <2>3, <2>4
<1>5. CASE UndeleteSettings
    <2>1. /\ cmd = "undelete" /\ reg # 0 /\ cmd' = "none" /\ UNCHANGED <<files, reg, next>>
          /\ settings' = [settings EXCEPT ![reg] = settings[files[to]["manifest"]]]
        BY <1>5 DEF UndeleteSettings, SettingsInv, Writable
    <2>2. settings[files[to]["manifest"]] = "own" /\ reg \in Guid
        BY <2>1, Numbers DEF SettingsInv, TypeInv, DataOK, TargetsOK
    <2>3. \A g \in Guid : settings'[g] = IF g = reg THEN "own" ELSE settings[g]
        BY <2>1, <2>2 DEF TypeInv, DataOK
    <2> QED
        BY <2>1, <2>2, <2>3 DEF SettingsInv
<1>6. CASE WorldStep \/ UNCHANGED vars
    <2>1. CASE Use \/ Exits \/ Release \/ Unwind \/ UNCHANGED vars
        <3>1. UNCHANGED <<next, settings, reg, cmd, pc, to>>
            BY <2>1 DEF Use, Exits, Release, Unwind
        <3> QED
            BY <1>2, <3>1
    <2>2. CASE UnregistersLate
        <3>1. UNCHANGED <<next, settings, cmd, pc, to>> /\ reg' = 0 /\ cmd # "undelete"
            BY <2>2 DEF UnregistersLate, TypeInv, TargetsOK
        <3> QED
            BY <1>2, <3>1
    <2> QED
        BY <1>3, <1>6, <2>1, <2>2 DEF WorldStep, Crash, Writable
<1>7. CASE TrashStep
    <2>1. CASE TrashUnregister
        BY <1>2, <2>1 DEF TrashUnregister, Unregistered
    <2>2. CASE TrashBegin \/ TrashStop \/ TrashWait \/ TrashMkdir
        BY <1>2, <2>2 DEF TrashBegin, TrashStop, TrashWait, TrashMkdir
    <2>3. CASE TrashRename \/ TrashCopy \/ TrashCopied \/ TrashRemove
        BY <1>2, <2>3 DEF TrashRename, TrashCopy, TrashCopied, TrashRemove
    <2>4. CASE TrashList \/ TrashNext \/ WriteManifest \/ TrashClean
        BY <1>2, <2>4 DEF TrashList, TrashNext, WriteManifest, TrashClean
    <2>5. ASSUME NEW g \in Guid, UndeleteImport(g)
          PROVE  SettingsInv'
        BY <1>2, <2>5 DEF UndeleteImport
    <2>6. ASSUME NEW g \in Guid, Purge(g)
          PROVE  SettingsInv'
        BY <1>2, <2>6 DEF Purge
    <2> QED
        BY <1>4, <1>5, <1>7, <2>1, <2>2, <2>3, <2>4, <2>5, <2>6 DEF TrashStep
<1>8. CASE MoveStep
    <2>1. CASE \E p \in world.dirs, k \in BOOLEAN : MoveBegin(p, k)
        BY <1>2, <2>1 DEF MoveBegin
    <2>2. CASE MoveMkdir \/ MoveRename \/ MoveCopy \/ MoveCopied
        BY <1>2, <2>2 DEF MoveMkdir, MoveRename, MoveCopy, MoveCopied
    <2>3. CASE (\E p \in Place : RelinkBegin(p)) \/ Repoint
        BY <1>2, <2>3 DEF RelinkBegin, Repoint
    <2>4. CASE SmokeTest \/ SmokeStop \/ SmokeFailed \/ DeleteSource \/ MoveUnwound
        BY <1>2, <2>4 DEF SmokeTest, SmokeStop, SmokeFailed, DeleteSource, MoveUnwound
    <2> QED
        BY <1>8, <2>1, <2>2, <2>3, <2>4 DEF MoveStep
<1> QED
    BY <1>6, <1>7, <1>8 DEF Next

\* However often a distribution goes to the trash and back, and is moved in
\* between, it ends up with the settings it was installed with, where no command
\* dies, WSL finishes its imports and the registry can be written
\* (restoreSettings).
THEOREM SettingsComeBack == Spec => []SettingsReturn
<1> DEFINE Inv == Writable => SettingsInv
<1>1. Init => TypeInv /\ UndoOK /\ Inv
    <2> SUFFICES ASSUME Init PROVE TypeInv /\ UndoOK /\ Inv
        OBVIOUS
    <2>1. TypeInv /\ UndoOK
        BY InitType DEF Init, UndoOK
    <2>2. \A p \in Place : files[p]["manifest"] \notin Guid
        BY Sorts DEF Init, Empty
    <2> QED
        BY <2>1, <2>2 DEF Init, SettingsInv
<1>2. TypeInv /\ UndoOK /\ Inv /\ [Next]_vars => TypeInv' /\ UndoOK' /\ Inv'
    <2> SUFFICES ASSUME TypeInv, UndoOK, Inv, [Next]_vars
                 PROVE  Inv'
        BY StepType, StepUndo DEF UndoOK
    <2>1. Writable' = Writable
        BY DEF Next, vars, Writable, Fails
    <2> QED
        BY <2>1, StepSettings
<1>3. Inv => SettingsReturn
    BY DEF SettingsInv, SettingsReturn, Writable
<1> QED
    BY <1>1, <1>2, <1>3, PTL DEF Spec

-----------------------------------------------------------------------------
(* What is in the trash can be brought back. *)

\* Where there is no trash, one distribution is installed and stays registered.
NoTrash ==
    /\ folder = {} /\ purged = {} /\ cmd \notin {"trash", "undelete"}
    /\ (next = 1 /\ reg = 0) \/ (next = 2 /\ reg = 1)
    /\ pending = 0
    /\ \A g \in Guid : disk[g] = g

\* A registration, and the folder a trash of it would fill.
Registered ==
    /\ \A p \in Guid : p >= next => Disk(p) = Nothing
    /\ folder \subseteq 0..(next - 1)
    /\ reg # 0 =>
          /\ base[reg] # reg /\ (base[reg] \in Dir \/ base[reg] < next) /\ disk[reg] # Nothing
          /\ Disk(reg) \in {Nothing, Stale, disk[reg]}
          /\ Disk(base[reg]) \in {Nothing, disk[reg]}

\* What is under way, and the folder an undelete brings back.
UnderWay ==
    /\ cmd = "none" => pc = "idle" /\ undo = <<>>
    /\ cmd # "relink"
    /\ cmd \in {"trash", "undelete"} => to < next
    /\ cmd = "undelete" /\ pc = "import" => Disk(to) # Nothing

\* A trash changes the two places of its own disk and no other.
TrashHolds ==
    cmd = "trash" =>
    /\ base[to] = from /\ from # to /\ disk[to] # Nothing
    /\ from \in Dir \/ from < next
    /\ reg # 0 => reg = to
    /\ reg = 0 => disk[to] \in orphaned
    /\ Disk(to) \in {Nothing, Stale, disk[to]} /\ Disk(from) \in {Nothing, disk[to]}
    /\ pc \in {"stop", "wait", "mkdir"} => file = "disk"
    /\ pc \in {"stop", "wait", "mkdir", "move", "copying"} /\ file = "disk" =>
          undo = <<>> /\ (pc = "copying" \/ reg # 0 => Disk(from) = disk[to])
    /\ "disk" \notin todo
    /\ pc = "remove" /\ file = "disk" => Disk(to) = disk[to]
    /\ \/ pc \in {"list", "next", "manifest", "unregister"}
       \/ pc \in {"move", "copying", "remove"} /\ file # "disk"
       => Disk(to) = disk[to] /\ Disk(from) = Nothing
    /\ pc = "unregister" => files[to]["manifest"] \in Guid
    /\ \A i \in DOMAIN undo : LET u == undo[i] IN
          /\ u.do \in {"rename", "remove"} /\ u.at = to
          /\ u.do = "rename" => u.to = from
          /\ u.file = "disk" => i = 1 /\ Disk(to) = disk[to]

\* So does a move.
MoveHolds ==
    cmd = "move" =>
    /\ base[reg] \in {from, to} /\ from # reg /\ (from \in Dir \/ from < next)
    /\ pc \in {"mkdir", "move", "copying"} => undo = <<>> /\ Disk(from) = disk[reg]
    /\ pc \in {"mkdir", "move", "copying", "repoint"} => base[reg] = from
    /\ pc \in {"repoint", "start", "terminate", "release", "unwind"} =>
          Disk(from) \in {Nothing, disk[reg]} /\ Disk(to) \in {Nothing, disk[reg]}
    /\ pc \in {"start", "terminate", "release", "delete"} => base[reg] = to
    /\ pc = "delete" => Disk(from) \in {Nothing, Stale, disk[reg]}
    /\ \A i \in DOMAIN undo : LET u == undo[i] IN
          /\ u.file = "disk" /\ u.at = to
          /\ u.do \in {"rename", "repoint"} => u.to = from

RecoverInv == Registered /\ UnderWay /\ TrashHolds /\ MoveHolds /\ Recoverable

\* What is done to a disk, and to a manifest, of any place.
LEMMA RenameDisks ==
    ASSUME TypeInv, NEW p \in Place, NEW q \in Place, NEW f \in File, files' = Renamed(p, q, f)
    PROVE  \A r \in Place :
              /\ files'[r]["disk"] = IF p # q /\ f = "disk" /\ r = q THEN Disk(p)
                                     ELSE IF p # q /\ f = "disk" /\ r = p THEN Nothing ELSE Disk(r)
              /\ r # p /\ r # q => files'[r]["manifest"] = files[r]["manifest"]
BY RenameOps, Members DEF TypeInv, DataOK, Disk

LEMMA RemoveDisks ==
    ASSUME TypeInv, NEW p \in Place, NEW f \in File, files' = Removed(p, f)
    PROVE  \A r \in Place :
              /\ files'[r]["disk"] = IF r = p /\ f = "disk" THEN Nothing ELSE Disk(r)
              /\ r # p \/ f # "manifest" => files'[r]["manifest"] = files[r]["manifest"]
BY RemoveOps, Members DEF TypeInv, DataOK, Disk

LEMMA CopyDisks ==
    ASSUME TypeInv, NEW p \in Place, NEW q \in Place, NEW f \in File, files' = Copied(p, q, f)
    PROVE  \A r \in Place :
              /\ files'[r]["disk"] = IF r = q /\ f = "disk" THEN Disk(p) ELSE Disk(r)
              /\ r # q => files'[r]["manifest"] = files[r]["manifest"]
BY CopiedOps, Members DEF TypeInv, DataOK, Disk

LEMMA WriteDisks ==
    ASSUME TypeInv, NEW p \in Place, NEW f \in File, NEW c \in Content,
           files' = [files EXCEPT ![p][f] = c]
    PROVE  \A r \in Place :
              /\ files'[r]["disk"] = IF r = p /\ f = "disk" THEN c ELSE Disk(r)
              /\ files'[r]["manifest"] = IF r = p /\ f = "manifest" THEN c ELSE files[r]["manifest"]
<1>1. files \in FS
    BY DEF TypeInv, DataOK
<1>2. \A r \in Place, h \in File :
         [files EXCEPT ![p][f] = c][r][h] = IF r = p /\ h = f THEN c ELSE files[r][h]
    BY <1>1, WriteOps
<1> QED
    BY <1>2, Members DEF Disk

LEMMA StartDisks ==
    ASSUME TypeInv, NEW p \in Place, Started(p)
    PROVE  \A r \in Place :
              /\ files'[r]["disk"] = IF r # p /\ Disk(r) = Disk(p) THEN Stale ELSE Disk(r)
              /\ files'[r]["manifest"] = files[r]["manifest"]
BY StartOps, Members DEF TypeInv, DataOK, Disk

\* All that is in the trash stays there, but for one disk that is registered or
\* that a trash which failed too late has left.
Apart(h) ==
    \A p \in Guid :
        Disk(p) \in Guid /\ files[p]["manifest"] \in Guid /\ Disk(p) # h =>
            files'[p]["disk"] = Disk(p) /\ files'[p]["manifest"] = files[p]["manifest"]

LEMMA ApartRecoverable ==
    ASSUME Recoverable, UNCHANGED <<next, disk>>, purged \subseteq purged', orphaned \subseteq orphaned',
           NEW h, Apart(h), reg # 0 => disk[reg] = h,
           h \in Installed => h \in orphaned' \/ (reg' # 0 /\ disk[reg'] = h)
    PROVE  Recoverable'
<1> SUFFICES ASSUME NEW g \in (Installed \ (purged \cup orphaned))'
             PROVE  \/ reg' # 0 /\ disk'[reg'] = g
                    \/ \E p \in Guid : files'[p]["disk"] = g /\ files'[p]["manifest"] \in Guid
    BY DEF Recoverable
<1>1. g \in Guid /\ g \in Installed /\ g \in Installed \ (purged \cup orphaned)
    BY DEF Installed
<1>2. CASE g = h
    BY <1>1, <1>2
<1>3. CASE g # h
    <2>1. PICK p \in Guid : files[p]["disk"] = g /\ files[p]["manifest"] \in Guid
        BY <1>1, <1>3 DEF Recoverable
    <2> QED
        BY <1>1, <1>3, <2>1 DEF Apart, Disk
<1> QED
    BY <1>2, <1>3

\* A place of the user's, or of a registration that was made, is no later folder.
LEMMA NotLater ==
    ASSUME TypeInv, NEW x, x \in Dir \/ x < next
    PROVE  \A p \in Guid : p >= next => p # x
<1>1. \A p \in Guid : p \notin Dir /\ p \in Int
    BY Sorts
<1>2. next \in Int
    BY DEF TypeInv, DataOK
<1> QED
    BY <1>1, <1>2

WithTrash == "trash" \in world.commands /\ "relink" \notin world.commands

\* A step that touches no file and no registration.
LEMMA QuietStep ==
    ASSUME Registered, Recoverable, UNCHANGED <<files, folder, reg, base, disk, next, purged, orphaned>>
    PROVE  Registered' /\ Recoverable'
BY DEF Registered, Recoverable, Disk, Installed

\* A command is over.
LEMMA OverStep ==
    ASSUME cmd' = "none", pc' = "idle", undo' = <<>>
    PROVE  UnderWay' /\ TrashHolds' /\ MoveHolds'
BY DEF UnderWay, TrashHolds, MoveHolds

\* The user, the utility VM and a crash.
LEMMA WorldRecovers ==
    ASSUME TypeInv, UndoOK, WithTrash, RecoverInv, UNCHANGED world,
           \/ (\E d \in world.dirs : Install(d)) \/ Use \/ Exits \/ Release
           \/ UnregistersLate \/ Crash \/ UNCHANGED vars
    PROVE  RecoverInv'
<1> USE DEF RecoverInv, Finish, vars, diskVars, stepVars, histVars
<1>1. ASSUME NEW d \in world.dirs, Install(d)
      PROVE  RecoverInv'
    <2>1. d \in Dir /\ d \in Place /\ d \notin Guid /\ next \in Guid
        BY <1>1, WorldSorts, Sorts DEF TypeInv, DataOK, Install
    <2>2. PICK s \in {files[d]["sibling"], next} :
              files' = [files EXCEPT ![d]["disk"] = next, ![d]["sibling"] = s]
        BY <1>1 DEF Install
    <2>3. \A p \in Place : /\ files'[p]["disk"] = IF p = d THEN next ELSE Disk(p)
                           /\ files'[p]["manifest"] = files[p]["manifest"]
        BY <2>1, <2>2, Members DEF FS, TypeInv, DataOK, Disk
    <2>4. /\ reg = 0 /\ reg' = next /\ next' = next + 1 /\ folder' = folder
          /\ base' = [base EXCEPT ![next] = d] /\ disk' = [disk EXCEPT ![next] = next]
          /\ UNCHANGED <<cmd, pc, undo, purged, orphaned>> /\ cmd = "none"
        BY <1>1 DEF Install
    <2>5. \A g \in Guid : /\ base'[g] = IF g = next THEN d ELSE base[g]
                          /\ disk'[g] = IF g = next THEN next ELSE disk[g]
        BY <2>1, <2>4 DEF TypeInv, DataOK
    <2>6. Registered'
        <3>1. \A p \in Guid : p >= next' => p >= next
            BY <2>1, <2>4, Sorts
        <3>2. folder' \subseteq 0..(next' - 1)
            BY <2>1, <2>4, Sorts DEF Registered
        <3>3. Disk(next) = Nothing
            BY <2>1, Sorts DEF Registered
        <3>4. base'[reg'] = d /\ disk'[reg'] = next /\ d # next /\ next # Nothing /\ reg' = next
            BY <2>1, <2>4, <2>5, Sorts
        <3>5. files'[next]["disk"] = Nothing /\ files'[d]["disk"] = next
            BY <2>1, <2>3, <3>3, <3>4, Members
        <3>6. \A p \in Guid : p >= next' => files'[p]["disk"] = Nothing
            BY <2>1, <2>3, <3>1, Members DEF Registered
        <3> QED
            BY <2>1, <3>2, <3>4, <3>5, <3>6 DEF Registered, Disk
    <2>8. reg' # 0 /\ disk'[reg'] = next
        BY <2>1, <2>4, <2>5, Sorts
    <2>7. Recoverable'
        <3> SUFFICES ASSUME NEW g \in (Installed \ (purged \cup orphaned))', g # next
                     PROVE  \E p \in Guid : files'[p]["disk"] = g /\ files'[p]["manifest"] \in Guid
            BY <2>8 DEF Recoverable
        <3>1. g \in Installed \ (purged \cup orphaned)
            BY <2>1, <2>4, <2>5, Sorts DEF Installed
        <3> QED
            BY <2>1, <2>3, <2>4, <3>1, Members DEF Recoverable, Disk
    <2> QED
        BY <2>4, <2>6, <2>7, OverStep DEF UnderWay
<1>2. CASE Use
    <2>1. reg # 0 /\ reg \in Guid /\ base[reg] \in Place /\ Disk(base[reg]) = disk[reg]
        BY <1>2, Numbers DEF Use, CanStart, Disk, TypeInv, DataOK
    <2>2. \A r \in Place :
              /\ files'[r]["disk"] = IF r # base[reg] /\ Disk(r) = disk[reg] THEN Stale ELSE Disk(r)
              /\ files'[r]["manifest"] = files[r]["manifest"]
        BY <1>2, <2>1, StartDisks DEF Use
    <2>3. UNCHANGED <<reg, next, folder, base, disk, cmd, pc, undo, purged, orphaned>> /\ cmd = "none"
        BY <1>2 DEF Use
    <2>4. Registered'
        BY <2>1, <2>2, <2>3, Members, Sorts DEF Registered, Disk
    <2>5. Apart(disk[reg])
        BY <2>2, Members DEF Apart
    <2>6. Recoverable'
        BY <2>1, <2>3, <2>5, ApartRecoverable
    <2> QED
        BY <2>3, <2>4, <2>6, OverStep DEF UnderWay
<1>3. CASE Exits \/ Release \/ UNCHANGED vars
    <2>1. UNCHANGED <<files, folder, reg, base, disk, next, purged, orphaned, cmd, pc, from, to, file, todo, undo>>
        BY <1>3 DEF Exits, Release
    <2> QED
        BY <2>1, QuietStep DEF UnderWay, TrashHolds, MoveHolds, Disk
<1>4. CASE Crash
    <2>1. UNCHANGED <<files, folder, reg, base, disk, next, purged, orphaned>>
          /\ cmd' = "none" /\ pc' = "idle" /\ undo' = <<>>
        BY <1>4 DEF Crash
    <2> QED
        BY <2>1, QuietStep, OverStep
<1>5. CASE UnregistersLate
    <2>1. /\ pending = reg /\ reg # 0 /\ reg \in Guid /\ base[reg] \in Place /\ reg' = 0
          /\ UNCHANGED <<folder, base, disk, next, cmd, pc, from, to, file, todo, undo, purged>>
          /\ orphaned' = orphaned \cup {disk[reg]}
          /\ base[reg] \in Dir \/ base[reg] < next
          /\ Disk(base[reg]) \in {Nothing, disk[reg]}
        BY <1>5, Numbers DEF UnregistersLate, Registered, TypeInv, DataOK
    <2>2. cmd \notin {"move", "undelete"}
        BY <1>5 DEF UnregistersLate, TypeInv, TargetsOK
    <2>3. \A r \in Place :
              /\ files'[r]["disk"] = Disk(r) \/ (r = base[reg] /\ files'[r]["disk"] = Nothing)
              /\ files'[r]["manifest"] = files[r]["manifest"]
              /\ pc = "copying" /\ file = "disk" => files'[r]["disk"] = Disk(r)
        <3>1. CASE UNCHANGED files
            BY <3>1 DEF Disk
        <3>2. CASE files' = Removed(base[reg], "disk") /\ ~(pc = "copying" /\ file = "disk")
            BY <2>1, <3>2, RemoveDisks, Members
        <3> QED
            BY <1>5, <2>1, <3>1, <3>2 DEF UnregistersLate
    <2>4. Apart(disk[reg])
        BY <2>1, <2>3, Members DEF Apart
    <2>5. Recoverable'
        BY <2>1, <2>4, ApartRecoverable
    <2>6. Registered'
        <3>1. \A p \in Guid : p >= next => Disk(p) = Nothing
            BY DEF Registered
        <3> QED
            BY <2>1, <2>3, <3>1, Members DEF Registered, Disk
    <2>7. TrashHolds'
        <3>1. CASE cmd = "trash"
            <4>1. reg = to /\ base[reg] = from /\ from # to /\ to \in Place /\ from \in Place
                BY <2>1, <3>1 DEF TrashHolds, TypeInv, DataOK
            <4>2. /\ files'[to]["disk"] = Disk(to) /\ files'[to]["manifest"] = files[to]["manifest"]
                  /\ files'[from]["disk"] \in {Nothing, Disk(from)}
                  /\ pc = "copying" /\ file = "disk" => files'[from]["disk"] = Disk(from)
                BY <2>1, <2>3, <4>1
            <4>3. UNCHANGED <<base, disk, next, cmd, pc, from, to, file, todo, undo>> /\ reg' = 0
                  /\ orphaned' = orphaned \cup {disk[reg]}
                BY <2>1
            <4>4. \A i \in DOMAIN undo' : LET u == undo'[i] IN
                        /\ u.do \in {"rename", "remove"} /\ u.at = to'
                        /\ u.do = "rename" => u.to = from'
                        /\ u.file = "disk" => i = 1 /\ files'[to']["disk"] = disk'[to']
                <5>1. \A i \in DOMAIN undo : LET u == undo[i] IN
                        /\ u.do \in {"rename", "remove"} /\ u.at = to
                        /\ u.do = "rename" => u.to = from
                        /\ u.file = "disk" => i = 1 /\ Disk(to) = disk[to]
                    BY <3>1 DEF TrashHolds
                <5>2. files'[to]["disk"] = Disk(to)
                    BY <4>2
                <5> QED
                    BY <4>3, <5>1, <5>2
            <4>5. /\ base[to] = from /\ disk[to] # Nothing
                  /\ from \in Dir \/ from < next
                  /\ Disk(to) \in {Nothing, Stale, disk[to]} /\ Disk(from) \in {Nothing, disk[to]}
                BY <3>1 DEF TrashHolds
            <4>6. /\ base'[to'] = from' /\ from' # to' /\ disk'[to'] # Nothing
                  /\ from' \in Dir \/ from' < next'
                  /\ reg' = 0 /\ disk'[to'] \in orphaned'
                  /\ files'[to']["disk"] \in {Nothing, Stale, disk'[to']}
                  /\ files'[from']["disk"] \in {Nothing, disk'[to']}
                BY <4>1, <4>2, <4>3, <4>5
            <4>7. /\ pc \in {"stop", "wait", "mkdir"} => file = "disk"
                  /\ pc \in {"stop", "wait", "mkdir", "move", "copying"} /\ file = "disk" =>
                        undo = <<>> /\ (pc = "copying" => Disk(from) = disk[to])
                  /\ "disk" \notin todo
                BY <3>1 DEF TrashHolds
            <4>8. /\ pc' \in {"stop", "wait", "mkdir"} => file' = "disk"
                  /\ pc' \in {"stop", "wait", "mkdir", "move", "copying"} /\ file' = "disk" =>
                        undo' = <<>> /\ (pc' = "copying" \/ reg' # 0 => files'[from']["disk"] = disk'[to'])
                  /\ "disk" \notin todo'
                BY <4>2, <4>3, <4>7
            <4>9. /\ pc = "remove" /\ file = "disk" => Disk(to) = disk[to]
                  /\ \/ pc \in {"list", "next", "manifest", "unregister"}
                     \/ pc \in {"move", "copying", "remove"} /\ file # "disk"
                     => Disk(to) = disk[to] /\ Disk(from) = Nothing
                  /\ pc = "unregister" => files[to]["manifest"] \in Guid
                BY <3>1 DEF TrashHolds
            <4>10. /\ pc' = "remove" /\ file' = "disk" => files'[to']["disk"] = disk'[to']
                   /\ \/ pc' \in {"list", "next", "manifest", "unregister"}
                      \/ pc' \in {"move", "copying", "remove"} /\ file' # "disk"
                      => files'[to']["disk"] = disk'[to'] /\ files'[from']["disk"] = Nothing
                   /\ pc' = "unregister" => files'[to']["manifest"] \in Guid
                <5>1. files'[from]["disk"] = Disk(from) \/ files'[from]["disk"] = Nothing
                    BY <4>2
                <5> QED
                    BY <4>2, <4>3, <4>9, <5>1
            <4> QED
                BY <4>4, <4>6, <4>8, <4>10 DEF TrashHolds, Disk
        <3> QED
            BY <2>1, <3>1 DEF TrashHolds
    <2> QED
        BY <2>1, <2>2, <2>5, <2>6, <2>7 DEF UnderWay, MoveHolds
<1> QED
    BY <1>1, <1>2, <1>3, <1>4, <1>5

\* A rollback.
LEMMA UnwindRecovers ==
    ASSUME TypeInv, UndoOK, WithTrash, RecoverInv, UNCHANGED world, Unwind
    PROVE  RecoverInv'
<1> DEFINE u == undo[Len(undo)]
<1>1. /\ DOMAIN undo' = 1..(Len(undo) - 1) /\ Len(undo) \in DOMAIN undo /\ Len(undo) \in Nat
      /\ \A i \in 1..(Len(undo) - 1) : i \in DOMAIN undo /\ undo'[i] = undo[i]
      /\ u \in Undo /\ DOMAIN undo = 1..Len(undo)
    BY PopItems DEF Unwind, UndoOK
<1>2. /\ u.at \in Place /\ u.to \in Place /\ u.file \in File
      /\ u.do \in {"rename", "remove", "leave", "repoint"}
    BY <1>1 DEF Undo, UndoDo
<1>3. /\ pc = "unwind"
      /\ UNCHANGED <<folder, reg, disk, next, cmd, pc, from, to, file, todo, purged, orphaned>>
      /\ \/ UndoWorks(u) /\ UndoDone(u)
         \/ UNCHANGED <<files, base>>
    BY DEF Unwind, histVars
<1>4. cmd \in {"trash", "move"}
    BY <1>3 DEF RecoverInv, UnderWay, TypeInv, DataOK, TargetsOK
<1>5. from \in Place /\ to \in Place
    BY DEF TypeInv, DataOK
<1>6. UnderWay'
    BY <1>3, <1>4 DEF RecoverInv, UnderWay
<1> HIDE DEF u
<1>7. CASE cmd = "trash"
    <2>1. /\ u.do \in {"rename", "remove"} /\ u.at = to /\ (u.do = "rename" => u.to = from)
          /\ u.file = "disk" => Len(undo) = 1 /\ Disk(to) = disk[to]
        BY <1>1, <1>7 DEF RecoverInv, TrashHolds, u
    <2>2. /\ base[to] = from /\ from # to /\ disk[to] # Nothing /\ (reg # 0 => reg = to)
          /\ (from \in Dir \/ from < next) /\ to \in Guid /\ to < next
          /\ reg = 0 => disk[to] \in orphaned
          /\ Disk(to) \in {Nothing, Stale, disk[to]} /\ Disk(from) \in {Nothing, disk[to]}
          /\ "disk" \notin todo
        BY <1>3, <1>7 DEF RecoverInv, TrashHolds, UnderWay, TypeInv, TargetsOK
    <2>3. base' = base
        BY <1>3, <2>1 DEF UndoDone
    <2>4. /\ \A r \in Place : r \notin {from, to} => files'[r]["disk"] = Disk(r) /\ files'[r]["manifest"] = files[r]["manifest"]
          /\ files'[to]["disk"] \in {Nothing, Disk(to)} /\ files'[from]["disk"] \in {Nothing, disk[to]}
          /\ u.file # "disk" => files'[to]["disk"] = Disk(to)
        <3>1. CASE files' = files
            BY <2>2, <3>1 DEF Disk
        <3>2. CASE UndoDone(u) /\ u.do = "rename"
            <4>1. files' = Renamed(to, from, u.file)
                BY <2>1, <3>2 DEF UndoDone
            <4> QED
                BY <1>2, <1>5, <2>1, <2>2, <4>1, RenameDisks
        <3>3. CASE UndoDone(u) /\ u.do = "remove"
            <4>1. files' = Removed(to, u.file)
                BY <2>1, <3>3 DEF UndoDone
            <4> QED
                BY <1>2, <1>5, <2>1, <2>2, <4>1, RemoveDisks
        <3> QED
            BY <1>3, <2>1, <3>1, <3>2, <3>3
    <2>5. \A i \in DOMAIN undo' : u.file # "disk" \/ undo'[i].file # "disk"
        BY <1>1, <2>1
    <2>6. TrashHolds'
        BY <1>1, <1>3, <1>7, <2>2, <2>3, <2>4, <2>5 DEF RecoverInv, TrashHolds, Disk
    <2>7. Apart(disk[to])
        BY <2>2, <2>4, Members, Sorts DEF Apart
    <2>8. Recoverable'
        BY <1>3, <2>2, <2>7, ApartRecoverable DEF RecoverInv
    <2>9. Registered'
        <3>1. \A p \in Guid : p >= next => p \notin {from, to} /\ Disk(p) = Nothing
            BY <2>2, NotLater DEF RecoverInv, Registered
        <3>2. reg # 0 => reg = to /\ base[reg] = from
            BY <2>2
        <3> QED
            BY <1>3, <2>2, <2>3, <2>4, <3>1, <3>2, Members DEF RecoverInv, Registered, Disk
    <2> QED
        BY <1>6, <1>7, <1>3, <2>6, <2>8, <2>9 DEF RecoverInv, MoveHolds
<1>8. CASE cmd = "move"
    <2>1. u.file = "disk" /\ u.at = to /\ (u.do \in {"rename", "repoint"} => u.to = from)
        BY <1>1, <1>8 DEF RecoverInv, MoveHolds, u
    <2>2. /\ base[reg] \in {from, to} /\ from # reg /\ (from \in Dir \/ from < next)
          /\ Disk(from) \in {Nothing, disk[reg]} /\ Disk(to) \in {Nothing, disk[reg]}
          /\ to \in Dir /\ to \notin Guid /\ from # to /\ reg # 0 /\ reg \in Guid
          /\ to # reg /\ disk[reg] # Nothing
        BY <1>3, <1>8, Sorts, Numbers DEF RecoverInv, MoveHolds, Registered, TypeInv, DataOK, TargetsOK
    <2>3. /\ \A r \in Place : r \notin {from, to} => files'[r]["disk"] = Disk(r) /\ files'[r]["manifest"] = files[r]["manifest"]
          /\ files'[to]["disk"] \in {Nothing, disk[reg]} /\ files'[from]["disk"] \in {Nothing, disk[reg]}
        <3>1. CASE files' = files
            BY <2>2, <3>1 DEF Disk
        <3>2. CASE UndoDone(u) /\ u.do = "rename"
            <4>1. files' = Renamed(to, from, "disk")
                BY <2>1, <3>2 DEF UndoDone
            <4> QED
                BY <1>5, <2>2, <4>1, RenameDisks, Members
        <3>3. CASE UndoDone(u) /\ u.do = "remove"
            <4>1. files' = Removed(to, "disk")
                BY <2>1, <3>3 DEF UndoDone
            <4> QED
                BY <1>5, <2>2, <4>1, RemoveDisks, Members
        <3>4. CASE UndoDone(u) /\ u.do \in {"leave", "repoint"}
            BY <2>2, <3>4 DEF UndoDone, Disk
        <3> QED
            BY <1>2, <1>3, <3>1, <3>2, <3>3, <3>4
    <2>4. base'[reg] \in {from, to} /\ (base'[reg] \in Dir \/ base'[reg] < next) /\ base'[reg] # reg
        <3>1. base' = base \/ base' = [base EXCEPT ![reg] = from]
            BY <1>3, <2>1 DEF UndoDone
        <3>2. base'[reg] \in {from, to}
            BY <2>2, <3>1 DEF TypeInv, DataOK
        <3> QED
            BY <2>2, <3>2
    <2>5. MoveHolds'
        BY <1>1, <1>3, <1>8, <2>2, <2>3, <2>4 DEF RecoverInv, MoveHolds, Disk
    <2>6. Apart(disk[reg])
        BY <2>2, <2>3, Members, Sorts DEF Apart
    <2>7. Recoverable'
        BY <1>3, <2>2, <2>6, ApartRecoverable DEF RecoverInv
    <2>8. Registered'
        <3>1. \A p \in Guid : p >= next => p \notin {from, to} /\ Disk(p) = Nothing
            BY <2>2, NotLater DEF RecoverInv, Registered
        <3>2. files'[reg]["disk"] = Disk(reg)
            BY <2>2, <2>3, Members
        <3> QED
            BY <1>3, <2>2, <2>3, <2>4, <3>1, <3>2, Members DEF RecoverInv, Registered, Disk
    <2> QED
        BY <1>6, <1>8, <1>3, <2>5, <2>7, <2>8 DEF RecoverInv, TrashHolds
<1> QED
    BY <1>4, <1>7, <1>8

\* A step of a trash that only changes its own two places.
Touched ==
    /\ \A r \in Place : r \notin {from, to} =>
           files'[r]["disk"] = Disk(r) /\ files'[r]["manifest"] = files[r]["manifest"]
    /\ files'[to]["disk"] \in {Nothing, Stale, disk[to]}
    /\ files'[from]["disk"] \in {Nothing, disk[to]}

LEMMA TouchedHolds ==
    ASSUME TypeInv, RecoverInv, cmd = "trash", Touched, folder' \subseteq folder,
           UNCHANGED <<reg, base, disk, next, purged, orphaned>>
    PROVE  Registered' /\ Recoverable'
<1>1. /\ base[to] = from /\ from # to /\ disk[to] # Nothing /\ (reg # 0 => reg = to)
      /\ (from \in Dir \/ from < next) /\ to \in Guid /\ to < next
      /\ reg = 0 => disk[to] \in orphaned
      /\ Disk(to) \in {Nothing, Stale, disk[to]} /\ Disk(from) \in {Nothing, disk[to]}
    BY DEF RecoverInv, TrashHolds, UnderWay, TypeInv, TargetsOK
<1>2. Apart(disk[to])
    BY <1>1, Members, Sorts DEF Apart, Touched
<1>3. Recoverable'
    BY <1>1, <1>2, ApartRecoverable DEF RecoverInv
<1>4. \A p \in Guid : p >= next => p \notin {from, to} /\ Disk(p) = Nothing
    BY <1>1, NotLater DEF RecoverInv, Registered
<1>5. Registered'
    BY <1>1, <1>4, Members DEF RecoverInv, Registered, Disk, Touched
<1> QED
    BY <1>3, <1>5

\* Nothing is touched.
LEMMA UntouchedHolds ==
    ASSUME RecoverInv, cmd = "trash", UNCHANGED files
    PROVE  Touched
BY DEF RecoverInv, TrashHolds, Touched, Disk

\* A trash up to where it moves the files.
LEMMA TrashBeginRecovers ==
    ASSUME TypeInv, UndoOK, WithTrash, RecoverInv, UNCHANGED world,
           TrashBegin \/ TrashStop \/ TrashWait \/ TrashMkdir \/ TrashList \/ TrashNext
    PROVE  RecoverInv'
<1> USE DEF Finish, GiveUp, Goto, diskVars, stepVars, histVars
<1>1. CASE TrashBegin
    <2>1. /\ reg # 0 /\ reg \in Guid /\ files[base[reg]]["disk"] # Nothing
          /\ cmd' = "trash" /\ pc' = "stop" /\ from' = base[reg] /\ to' = reg
          /\ file' = "disk" /\ todo' = {} /\ undo' = <<>>
          /\ UNCHANGED <<files, folder, reg, base, disk, next, purged, orphaned>>
        BY <1>1, Numbers DEF TrashBegin, Begin, TypeInv, DataOK
    <2>2. Disk(base[reg]) = disk[reg]
        BY <2>1 DEF RecoverInv, Registered, Disk
    <2>3. Registered' /\ Recoverable'
        BY <2>1, QuietStep DEF RecoverInv
    <2>4. TrashHolds'
        BY <2>1, <2>2 DEF TrashHolds, RecoverInv, Registered, Disk
    <2> QED
        BY <2>1, <2>3, <2>4 DEF RecoverInv, UnderWay, MoveHolds, TypeInv, DataOK
<1>2. CASE TrashStop \/ TrashWait
    <2>1. UNCHANGED <<files, folder, reg, base, disk, next, purged, orphaned>>
        BY <1>2 DEF TrashStop, TrashWait
    <2>2. \/ cmd' = "none" /\ pc' = "idle" /\ undo' = <<>>
          \/ /\ cmd' = cmd /\ pc' \in {"wait", "mkdir"} /\ UNCHANGED <<from, to, file, todo, undo>>
             /\ pc \in {"stop", "wait"}
        BY <1>2 DEF TrashStop, TrashWait
    <2>3. cmd = "trash"
        BY <1>2 DEF TrashStop, TrashWait
    <2> QED
        BY <2>1, <2>2, <2>3, QuietStep, OverStep DEF RecoverInv, UnderWay, TrashHolds, MoveHolds, Disk
<1>3. CASE TrashMkdir
    <2>1. UNCHANGED <<files, reg, base, disk, next, purged, orphaned>> /\ cmd = "trash"
          /\ folder' \in {folder, folder \cup {to}} /\ pc = "mkdir"
        BY <1>3 DEF TrashMkdir
    <2>2. \/ cmd' = "none" /\ pc' = "idle" /\ undo' = <<>>
          \/ cmd' = cmd /\ pc' = "move" /\ UNCHANGED <<from, to, file, todo, undo>>
        BY <1>3 DEF TrashMkdir
    <2>3. to \in 0..(next - 1)
        BY <2>1, Sorts DEF RecoverInv, UnderWay, TypeInv, DataOK, TargetsOK
    <2>4. Registered' /\ Recoverable'
        BY <2>1, <2>3 DEF RecoverInv, Registered, Recoverable, Installed, Disk
    <2> QED
        BY <2>1, <2>2, <2>4, OverStep DEF RecoverInv, UnderWay, TrashHolds, MoveHolds, Disk
<1>4. CASE TrashList \/ TrashNext
    <2>1. /\ UNCHANGED <<files, folder, reg, base, disk, next, purged, orphaned, cmd, from, to, undo>>
          /\ cmd = "trash" /\ pc \in {"list", "next"}
          /\ "disk" \notin todo => "disk" \notin todo'
          /\ \/ pc' \in {"next", "manifest"}
             \/ pc' = "move" /\ file' \in todo
        BY <1>4 DEF TrashList, TrashNext
    <2>2. TrashHolds'
        BY <2>1 DEF RecoverInv, TrashHolds, Disk
    <2> QED
        BY <2>1, <2>2, QuietStep DEF RecoverInv, UnderWay, MoveHolds
<1> QED
    BY <1>1, <1>2, <1>3, <1>4

\* A trash that has failed and begins to put things back.
LEMMA AbortRecovers ==
    ASSUME TypeInv, WithTrash, RecoverInv, UNCHANGED world, cmd = "trash", pc # "unwind", Touched,
           Abort, UNCHANGED <<folder, reg, base, disk, next>>,
           \A i \in DOMAIN undo : undo[i].file = "disk" => files'[to]["disk"] = disk[to]
    PROVE  RecoverInv'
<1>1. pc' = "unwind" /\ UNCHANGED <<cmd, from, to, file, todo, undo, purged, orphaned>>
    BY DEF Abort, Goto, histVars
<1>2. Registered' /\ Recoverable'
    BY <1>1, TouchedHolds
<1>3. TrashHolds'
    BY <1>1 DEF RecoverInv, TrashHolds, Touched, Disk
<1> QED
    BY <1>1, <1>2, <1>3 DEF RecoverInv, UnderWay, MoveHolds

\* A trash while it moves the files.
LEMMA TrashMoveRecovers ==
    ASSUME TypeInv, UndoOK, WithTrash, RecoverInv, UNCHANGED world,
           TrashRename \/ TrashCopy \/ TrashCopied \/ TrashRemove
    PROVE  RecoverInv'
<1> USE DEF Goto, stepVars, histVars
<1>1. /\ cmd = "trash" /\ pc \in {"move", "copying", "remove"}
      /\ UNCHANGED <<folder, reg, base, disk, next>>
    BY DEF TrashRename, TrashCopy, TrashCopied, TrashRemove
<1>2. from \in Place /\ to \in Place /\ file \in File /\ to \in Guid
    BY <1>1 DEF TypeInv, DataOK, TargetsOK
<1>3. /\ base[to] = from /\ from # to /\ disk[to] # Nothing
      /\ pc \in {"move", "copying"} /\ file = "disk" => undo = <<>>
      /\ pc = "copying" /\ file = "disk" => Disk(from) = disk[to]
      /\ pc = "remove" /\ file = "disk" => Disk(to) = disk[to]
      /\ file # "disk" => Disk(to) = disk[to] /\ Disk(from) = Nothing
      /\ Disk(to) \in {Nothing, Stale, disk[to]} /\ Disk(from) \in {Nothing, disk[to]}
      /\ \A i \in DOMAIN undo : undo[i].file = "disk" => i = 1 /\ Disk(to) = disk[to]
      /\ "disk" \notin todo
    BY <1>1 DEF RecoverInv, TrashHolds
<1>4. CASE files' = files /\ Abort
    BY <1>1, <1>3, <1>4, UntouchedHolds, AbortRecovers DEF Disk
<1>5. ASSUME Touched, cmd' = cmd, UNCHANGED <<from, to, file, todo, purged, orphaned>>, TrashHolds'
      PROVE  RecoverInv'
    <2>1. Registered' /\ Recoverable'
        BY <1>1, <1>5, TouchedHolds
    <2> QED
        BY <1>1, <1>5, <2>1 DEF RecoverInv, UnderWay, MoveHolds
<1>6. ASSUME NEW u \in Undo, undo' = Append(undo, u), u.do \in {"rename", "remove"}, u.at = to,
             u.do = "rename" => u.to = from, u.file = file,
             files'[to]["disk"] = disk[to], UNCHANGED <<from, to, file, disk>>,
             pc \in {"move", "copying"}
      PROVE  \A i \in DOMAIN undo' :
                /\ undo'[i].do \in {"rename", "remove"} /\ undo'[i].at = to
                /\ undo'[i].do = "rename" => undo'[i].to = from
                /\ undo'[i].file = "disk" => i = 1 /\ files'[to]["disk"] = disk[to]
    <2>1. /\ DOMAIN undo' = DOMAIN undo \cup {Len(undo) + 1}
          /\ undo'[Len(undo) + 1] = u
          /\ \A i \in DOMAIN undo : undo'[i] = undo[i]
          /\ undo = <<>> => Len(undo) = 0
        BY <1>6, AppendItems DEF UndoOK
    <2>2. file = "disk" => undo = <<>>
        BY <1>1, <1>3, <1>6 DEF RecoverInv, TrashHolds
    <2> QED
        BY <1>1, <1>3, <1>6, <2>1, <2>2 DEF RecoverInv, TrashHolds
<1>7. /\ UndoOf("rename", file, to, from) \in Undo /\ UndoOf("remove", file, to, to) \in Undo
      /\ UndoOf("rename", file, to, from) = [do |-> "rename", file |-> file, at |-> to, to |-> from]
      /\ UndoOf("remove", file, to, to) = [do |-> "remove", file |-> file, at |-> to, to |-> to]
    BY <1>2 DEF UndoOf, Undo, UndoDo
<1>8. CASE TrashRename
    <2>1. CASE /\ CanRename(from, to, file) /\ files' = Renamed(from, to, file)
               /\ Push(UndoOf("rename", file, to, from)) /\ Goto(AfterFile)
               /\ UNCHANGED <<from, to, file, todo, keep, late, uerr>>
        <3>1. /\ pc = "move" /\ pc' = IF file = "disk" THEN "list" ELSE "next"
              /\ UNCHANGED <<cmd, purged, orphaned>>
              /\ undo' = Append(undo, UndoOf("rename", file, to, from))
            BY <1>8, <2>1 DEF TrashRename, AfterFile, Push
        <3>2. \A r \in Place :
                 /\ files'[r]["disk"] = IF file = "disk" /\ r = to THEN Disk(from)
                                        ELSE IF file = "disk" /\ r = from THEN Nothing ELSE Disk(r)
                 /\ r # from /\ r # to => files'[r]["manifest"] = files[r]["manifest"]
            BY <1>2, <1>3, <2>1, RenameDisks
        <3>0. file = "disk" => Disk(from) = disk[to]
            BY <1>3, <2>1 DEF CanRename, Disk
        <3>3. files'[to]["disk"] = disk[to] /\ files'[from]["disk"] = Nothing
            BY <1>2, <1>3, <3>0, <3>1, <3>2
        <3>4. Touched
            BY <3>2, <3>3 DEF Touched
        <3>5. \A i \in DOMAIN undo' :
                /\ undo'[i].do \in {"rename", "remove"} /\ undo'[i].at = to
                /\ undo'[i].do = "rename" => undo'[i].to = from
                /\ undo'[i].file = "disk" => i = 1 /\ files'[to]["disk"] = disk[to]
            BY <1>1, <1>6, <1>7, <2>1, <3>1, <3>3
        <3>6. TrashHolds'
            BY <1>1, <1>3, <2>1, <3>1, <3>3, <3>5 DEF RecoverInv, TrashHolds, Disk
        <3> QED
            BY <1>5, <2>1, <3>1, <3>4, <3>6
    <2> QED
        BY <1>4, <1>8, <2>1 DEF TrashRename
<1>9. CASE TrashCopy
    <2>1. CASE /\ CanCopy(from, to, file) /\ files' = [files EXCEPT ![to][file] = Stale]
               /\ Goto("copying") /\ UNCHANGED stepVars
        <3>1. /\ pc = "move" /\ pc' = "copying"
              /\ UNCHANGED <<cmd, from, to, file, todo, undo, purged, orphaned>>
            BY <1>9, <2>1 DEF TrashCopy
        <3>2. \A r \in Place :
                 /\ files'[r]["disk"] = IF r = to /\ file = "disk" THEN Stale ELSE Disk(r)
                 /\ r # to => files'[r]["manifest"] = files[r]["manifest"]
            <4>1. Stale \in Content
                BY Members
            <4>2. files' = [files EXCEPT ![to][file] = Stale]
                BY <2>1
            <4>3. \A r \in Place :
                     /\ files'[r]["disk"] = IF r = to /\ file = "disk" THEN Stale ELSE Disk(r)
                     /\ files'[r]["manifest"] = IF r = to /\ file = "manifest" THEN Stale ELSE files[r]["manifest"]
                BY <1>2, <4>1, <4>2, WriteDisks
            <4> QED
                BY <4>3
        <3>3. files'[from]["disk"] = Disk(from) /\ (file # "disk" => files'[to]["disk"] = disk[to])
              /\ files'[to]["disk"] \in {Nothing, Stale, disk[to]}
            BY <1>2, <1>3, <3>2
        <3>4. Touched
            BY <1>3, <3>2, <3>3 DEF Touched
        <3>5. \A i \in DOMAIN undo : undo[i].file = "disk" => i = 1 /\ files'[to]["disk"] = disk[to]
            BY <1>3, <3>1, <3>3
        <3>0. file = "disk" => files'[from]["disk"] = disk[to]
            BY <1>3, <2>1, <3>3 DEF CanCopy, Disk
        <3>6. TrashHolds'
            BY <1>1, <1>3, <3>0, <3>1, <3>3, <3>5 DEF RecoverInv, TrashHolds, Disk
        <3> QED
            BY <1>5, <3>1, <3>4, <3>6
    <2> QED
        BY <1>4, <1>9, <2>1 DEF TrashCopy
<1>10. CASE TrashCopied
    <2>1. CASE /\ files' = Copied(from, to, file)
               /\ Push(UndoOf("remove", file, to, to)) /\ Goto("remove")
               /\ UNCHANGED <<from, to, file, todo, keep, late, uerr>>
        <3>1. /\ pc = "copying" /\ pc' = "remove"
              /\ UNCHANGED <<cmd, purged, orphaned>>
              /\ undo' = Append(undo, UndoOf("remove", file, to, to))
            BY <1>10, <2>1 DEF TrashCopied, Push
        <3>2. \A r \in Place :
                 /\ files'[r]["disk"] = IF r = to /\ file = "disk" THEN Disk(from) ELSE Disk(r)
                 /\ r # to => files'[r]["manifest"] = files[r]["manifest"]
            BY <1>2, <2>1, CopyDisks
        <3>3. files'[to]["disk"] = disk[to] /\ files'[from]["disk"] = Disk(from)
            BY <1>2, <1>3, <3>1, <3>2
        <3>4. Touched
            BY <1>3, <3>2, <3>3 DEF Touched
        <3>5. \A i \in DOMAIN undo' :
                /\ undo'[i].do \in {"rename", "remove"} /\ undo'[i].at = to
                /\ undo'[i].do = "rename" => undo'[i].to = from
                /\ undo'[i].file = "disk" => i = 1 /\ files'[to]["disk"] = disk[to]
            BY <1>1, <1>6, <1>7, <2>1, <3>1, <3>3
        <3>6. TrashHolds'
            BY <1>1, <1>3, <2>1, <3>1, <3>3, <3>5 DEF RecoverInv, TrashHolds, Disk
        <3> QED
            BY <1>5, <2>1, <3>1, <3>4, <3>6
    <2>2. CASE files' = Removed(to, file) /\ Abort
        <3>1. \A r \in Place :
                 /\ files'[r]["disk"] = IF r = to /\ file = "disk" THEN Nothing ELSE Disk(r)
                 /\ r # to => files'[r]["manifest"] = files[r]["manifest"]
            BY <1>2, <2>2, RemoveDisks
        <3>2. Touched
            BY <1>2, <1>3, <3>1 DEF Touched
        <3>3. pc = "copying"
            BY <1>10 DEF TrashCopied
        <3>4. \A i \in DOMAIN undo : undo[i].file = "disk" => files'[to]["disk"] = disk[to]
            BY <1>2, <1>3, <3>1, <3>3
        <3> QED
            BY <1>1, <2>2, <3>2, <3>4, AbortRecovers
    <2> QED
        BY <1>4, <1>10, <2>1, <2>2 DEF TrashCopied
<1>11. CASE TrashRemove
    <2>1. CASE files' = Removed(from, file) /\ Goto(AfterFile) /\ UNCHANGED stepVars
        <3>1. /\ pc = "remove" /\ pc' = IF file = "disk" THEN "list" ELSE "next"
              /\ UNCHANGED <<cmd, from, to, file, todo, undo, purged, orphaned>>
            BY <1>11, <2>1 DEF TrashRemove, AfterFile
        <3>2. \A r \in Place :
                 /\ files'[r]["disk"] = IF r = from /\ file = "disk" THEN Nothing ELSE Disk(r)
                 /\ r # from => files'[r]["manifest"] = files[r]["manifest"]
            BY <1>2, <2>1, RemoveDisks
        <3>3. files'[to]["disk"] = disk[to] /\ files'[from]["disk"] = Nothing
            BY <1>2, <1>3, <3>1, <3>2
        <3>4. Touched
            BY <3>2, <3>3 DEF Touched
        <3>6. TrashHolds'
            BY <1>1, <1>3, <3>1, <3>3 DEF RecoverInv, TrashHolds, Disk
        <3> QED
            BY <1>5, <3>1, <3>4, <3>6
    <2> QED
        BY <1>4, <1>11, <2>1 DEF TrashRemove
<1> QED
    BY <1>8, <1>9, <1>10, <1>11

\* A trash once the files have moved.
LEMMA TrashEndRecovers ==
    ASSUME TypeInv, UndoOK, WithTrash, RecoverInv, UNCHANGED world,
           WriteManifest \/ TrashUnregister \/ TrashClean
    PROVE  RecoverInv'
<1> USE DEF Goto, Finish, stepVars, histVars
<1>1. /\ cmd = "trash" /\ from \in Place /\ to \in Place /\ to \in Guid
      /\ base[to] = from /\ from # to /\ disk[to] # Nothing
      /\ reg # 0 => reg = to
      /\ reg = 0 => disk[to] \in orphaned
      /\ Disk(to) \in {Nothing, Stale, disk[to]} /\ Disk(from) \in {Nothing, disk[to]}
      /\ pc \in {"manifest", "unregister"} => Disk(to) = disk[to] /\ Disk(from) = Nothing
      /\ pc = "unregister" => files[to]["manifest"] \in Guid
    BY DEF WriteManifest, TrashUnregister, TrashClean, RecoverInv, TrashHolds, TypeInv, DataOK, TargetsOK
<1>2. CASE WriteManifest
    <2>1. pc = "manifest" /\ UNCHANGED <<folder, reg, base, disk, next>>
        BY <1>2 DEF WriteManifest
    <2>2. ASSUME NEW c \in Content, files' = [files EXCEPT ![to]["manifest"] = c]
          PROVE  Touched /\ files'[to]["disk"] = disk[to] /\ files'[from]["disk"] = Nothing /\ files'[to]["manifest"] = c
        <3>1. "manifest" \in File /\ "manifest" # "disk"
            BY Members
        <3>2. \A r \in Place :
                 /\ files'[r]["disk"] = IF r = to /\ "manifest" = "disk" THEN c ELSE Disk(r)
                 /\ files'[r]["manifest"] = IF r = to /\ "manifest" = "manifest" THEN c ELSE files[r]["manifest"]
            BY ZenonT(40), <1>1, <2>2, <3>1, WriteDisks
        <3> QED
            BY <1>1, <2>1, <3>2 DEF Touched
    <2>3. CASE files' = [files EXCEPT ![to]["manifest"] = to] /\ Goto("unregister") /\ UNCHANGED stepVars
        <3>1. Touched /\ files'[to]["disk"] = disk[to] /\ files'[from]["disk"] = Nothing /\ files'[to]["manifest"] = to
            BY <1>1, <2>2, <2>3, Members
        <3>2. pc' = "unregister" /\ UNCHANGED <<cmd, from, to, file, todo, undo, purged, orphaned>>
            BY <2>3
        <3>3. TrashHolds'
            BY <1>1, <2>1, <3>1, <3>2 DEF RecoverInv, TrashHolds, Disk
        <3>4. Registered' /\ Recoverable'
            BY <1>1, <2>1, <3>1, <3>2, TouchedHolds
        <3> QED
            BY <1>1, <2>1, <3>2, <3>3, <3>4 DEF RecoverInv, UnderWay, MoveHolds
    <2>4. CASE Abort /\ files' \in {files, [files EXCEPT ![to]["manifest"] = Stale]}
        <3>1. Touched /\ files'[to]["disk"] = disk[to]
            <4>1. CASE files' = files
                BY <1>1, <2>1, <4>1, UntouchedHolds DEF Disk
            <4>2. CASE files' = [files EXCEPT ![to]["manifest"] = Stale]
                BY <2>2, <4>2, Members
            <4> QED
                BY <2>4, <4>1, <4>2
        <3> QED
            BY <1>1, <2>1, <2>4, <3>1, AbortRecovers
    <2> QED
        BY <1>2, <2>3, <2>4 DEF WriteManifest
<1>3. CASE TrashUnregister
    <2>1. /\ pc = "unregister" /\ UNCHANGED <<folder, base, disk, next, purged, orphaned>>
        BY <1>3 DEF TrashUnregister
    <2>4. \/ Unregistered /\ cmd' = "none" /\ pc' = "idle" /\ undo' = <<>>
          \/ UNCHANGED <<files, reg, cmd, from, to, file, todo, undo>> /\ pc' = "unwind"
        BY <1>3 DEF TrashUnregister
    <2>2. CASE UNCHANGED <<files, reg, cmd, from, to, file, todo, undo>> /\ pc' = "unwind"
        <3>1. Registered' /\ Recoverable'
            BY <2>1, <2>2, QuietStep DEF RecoverInv
        <3>2. TrashHolds'
            BY <1>1, <2>1, <2>2 DEF RecoverInv, TrashHolds, Disk
        <3> QED
            BY <1>1, <2>1, <2>2, <3>1, <3>2 DEF RecoverInv, UnderWay, MoveHolds
    <2>3. CASE Unregistered /\ cmd' = "none" /\ pc' = "idle" /\ undo' = <<>>
        <3>1. files' = Removed(from, "disk") /\ reg' = 0
            BY <1>1, <2>1, <2>3 DEF Unregistered
        <3>2. \A r \in Place : files'[r]["disk"] = Disk(r) /\ files'[r]["manifest"] = files[r]["manifest"]
            BY <1>1, <2>1, <3>1, RemoveDisks, Members
        <3>3. Registered'
            BY <2>1, <3>1, <3>2, Members DEF RecoverInv, Registered, Disk
        <3>5. Recoverable'
            <4> SUFFICES ASSUME NEW g \in (Installed \ (purged \cup orphaned))'
                         PROVE  \E p \in Guid : files'[p]["disk"] = g /\ files'[p]["manifest"] \in Guid
                BY DEF Recoverable
            <4>1. g \in Installed \ (purged \cup orphaned)
                BY <2>1 DEF Installed
            <4>2. CASE g = disk[to]
                BY <1>1, <2>1, <3>2, <4>2, Members
            <4>3. CASE g # disk[to]
                <5>1. PICK p \in Guid : files[p]["disk"] = g /\ files[p]["manifest"] \in Guid
                    BY <1>1, <2>3, <4>1, <4>3 DEF Unregistered, RecoverInv, Recoverable
                <5> QED
                    BY <3>2, <5>1, Members DEF Disk
            <4> QED
                BY <4>2, <4>3
        <3> QED
            BY <2>3, <3>3, <3>5, OverStep DEF RecoverInv
    <2> QED
        BY <2>2, <2>3, <2>4
<1>4. CASE TrashClean
    <2>1. /\ UNCHANGED <<reg, base, disk, next, purged, orphaned>> /\ folder' \subseteq folder
          /\ cmd' = "none" /\ pc' = "idle" /\ undo' = <<>>
          /\ files' = files \/ files' = Removed(to, "manifest")
        BY <1>4 DEF TrashClean
    <2>2. Touched
        <3>1. CASE files' = files
            BY <1>1, <3>1, UntouchedHolds
        <3>2. CASE files' = Removed(to, "manifest")
            BY <1>1, <3>2, RemoveDisks, Members DEF Touched
        <3> QED
            BY <2>1, <3>1, <3>2
    <2>3. Registered' /\ Recoverable'
        BY <1>1, <2>1, <2>2, TouchedHolds
    <2> QED
        BY <2>1, <2>3, OverStep DEF RecoverInv
<1> QED
    BY <1>2, <1>3, <1>4

\* Undelete and purge.
LEMMA UndeleteRecovers ==
    ASSUME TypeInv, UndoOK, WithTrash, RecoverInv, UNCHANGED world,
           \/ UndeleteImported \/ UndeleteSettings
           \/ \E g \in Guid : UndeleteImport(g) \/ Purge(g)
    PROVE  RecoverInv'
<1> USE DEF Goto, Finish, diskVars, stepVars, histVars
<1>1. ASSUME NEW g \in Guid, UndeleteImport(g)
      PROVE  RecoverInv'
    <2>1. /\ UNCHANGED <<files, folder, reg, base, disk, next, purged, orphaned>>
          /\ cmd' = "undelete" /\ to' = g /\ Disk(g) # Nothing /\ g \in folder
        BY <1>1 DEF UndeleteImport, Begin, Disk
    <2>2. g < next
        BY <2>1, Sorts DEF RecoverInv, Registered, TypeInv, DataOK
    <2> QED
        BY <2>1, <2>2, QuietStep DEF RecoverInv, UnderWay, TrashHolds, MoveHolds, Disk
<1>2. CASE UndeleteImported
    <2>1. /\ cmd = "undelete" /\ pc = "import" /\ next \in Guid /\ reg = 0 /\ to \in Guid /\ to < next
          /\ Disk(to) # Nothing /\ next \in Int /\ to \in Int
          /\ UNCHANGED <<files, folder, purged, orphaned>>
        <3>1. /\ cmd = "undelete" /\ pc = "import" /\ UNCHANGED <<files, folder, purged, orphaned>>
            BY <1>2 DEF UndeleteImported
        <3>2. to < next /\ Disk(to) # Nothing
            BY <3>1 DEF RecoverInv, UnderWay
        <3>3. next \in 1..(MaxGuid + 1) /\ next <= MaxGuid /\ reg = 0 /\ to \in Guid
            BY <3>1 DEF TypeInv, DataOK, TargetsOK
        <3>4. next \in Guid
            BY <3>3, Numbers
        <3>5. next \in Int /\ to \in Int
            BY <3>3, <3>4, Sorts
        <3> QED
            BY <3>1, <3>2, <3>3, <3>4, <3>5
    <2>2. \/ /\ reg' = next /\ next' = next + 1
             /\ base' = [base EXCEPT ![next] = to] /\ disk' = [disk EXCEPT ![next] = files[to]["disk"]]
          \/ UNCHANGED <<reg, next, base, disk>>
        BY <1>2 DEF UndeleteImported, Imported
    <2>3. \/ cmd' = "none" /\ pc' = "idle" /\ undo' = <<>>
          \/ cmd' = "undelete" /\ pc' = "settings" /\ to' = to /\ next' = next + 1
        BY <1>2 DEF UndeleteImported, Imported
    <2>4. UnderWay' /\ TrashHolds' /\ MoveHolds'
        BY <2>1, <2>3, OverStep DEF UnderWay, TrashHolds, MoveHolds
    <2>5. CASE UNCHANGED <<reg, next, base, disk>>
        BY <2>1, <2>4, <2>5, QuietStep DEF RecoverInv
    <2>6. CASE /\ reg' = next /\ next' = next + 1
               /\ base' = [base EXCEPT ![next] = to] /\ disk' = [disk EXCEPT ![next] = files[to]["disk"]]
        <3>1. \A g \in Guid : /\ base'[g] = IF g = next THEN to ELSE base[g]
                              /\ disk'[g] = IF g = next THEN Disk(to) ELSE disk[g]
            BY <2>1, <2>6 DEF TypeInv, DataOK, Disk
        <3>2. folder' \subseteq 0..(next' - 1) /\ \A p \in Guid : p >= next' => p >= next
            BY <2>1, <2>6, Sorts DEF RecoverInv, Registered
        <3>3. files'[next]["disk"] = Nothing
            BY <2>1 DEF RecoverInv, Registered, Disk
        <3>4. base'[reg'] = to /\ disk'[reg'] = files'[to]["disk"] /\ to # reg' /\ to < next' /\ disk'[reg'] # Nothing
              /\ reg' = next /\ reg' # 0
            BY <2>1, <2>6, <3>1, Sorts DEF Disk
        <3>5. Registered'
            BY <2>1, <3>2, <3>3, <3>4 DEF RecoverInv, Registered, Disk
        <3>6. Recoverable'
            <4> SUFFICES ASSUME NEW g \in (Installed \ (purged \cup orphaned))', g # disk'[reg']
                         PROVE  \E p \in Guid : files'[p]["disk"] = g /\ files'[p]["manifest"] \in Guid
                BY <3>4 DEF Recoverable
            <4>1. g # next
                BY <3>4 DEF Installed
            <4>2. g \in Installed \ (purged \cup orphaned)
                BY <2>1, <2>6, <3>1, <4>1, Sorts DEF Installed
            <4> QED
                BY <2>1, <4>2 DEF RecoverInv, Recoverable
        <3> QED
            BY <2>4, <3>5, <3>6 DEF RecoverInv
    <2> QED
        BY <2>2, <2>5, <2>6
<1>3. CASE UndeleteSettings
    <2>1. UNCHANGED <<files, folder, reg, base, disk, next, purged, orphaned>>
          /\ cmd' = "none" /\ pc' = "idle" /\ undo' = <<>>
        BY <1>3 DEF UndeleteSettings
    <2> QED
        BY <2>1, QuietStep, OverStep DEF RecoverInv
<1>4. ASSUME NEW g \in Guid, Purge(g)
      PROVE  RecoverInv'
    <2>1. PICK gone \in SUBSET {f \in File : CanRemove(g, f)} :
              files' = [files EXCEPT ![g] = [f \in File |-> IF f \in gone THEN Nothing ELSE @[f]]]
        BY <1>4 DEF Purge
    <2>2. \A p \in Place : /\ p # g => files'[p]["disk"] = Disk(p) /\ files'[p]["manifest"] = files[p]["manifest"]
                           /\ files'[p]["disk"] \in {Nothing, Disk(p)}
        BY <2>1, Members DEF TypeInv, DataOK, FS, Disk
    <2>3. /\ UNCHANGED <<reg, base, disk, next, cmd, pc, undo, orphaned>> /\ cmd = "none"
          /\ folder' \subseteq folder /\ purged' = purged \cup (Guid \cap {Disk(g)})
        BY <1>4 DEF Purge, Disk
    <2>4. reg # 0 => reg \in Guid /\ base[reg] \in Place
        BY Numbers DEF TypeInv, DataOK
    <2>5. Registered'
        BY <2>2, <2>3, <2>4, Members DEF RecoverInv, Registered, Disk
    <2>6. Recoverable'
        <3> SUFFICES ASSUME NEW x \in (Installed \ (purged \cup orphaned))', ~(reg # 0 /\ disk[reg] = x)
                     PROVE  \E p \in Guid : files'[p]["disk"] = x /\ files'[p]["manifest"] \in Guid
            BY <2>3 DEF Recoverable
        <3>1. x \in Installed \ (purged \cup orphaned) /\ x # Disk(g)
            BY <2>3 DEF Installed
        <3> QED
            BY <2>2, <3>1, Members DEF RecoverInv, Recoverable, Disk
    <2> QED
        BY <2>3, <2>5, <2>6, OverStep DEF RecoverInv, UnderWay
<1> QED
    BY <1>1, <1>2, <1>3, <1>4

\* A step of a move that only changes its own two places.
LEMMA MovedHolds ==
    ASSUME TypeInv, RecoverInv, cmd = "move",
           UNCHANGED <<folder, reg, disk, next, purged, orphaned>>,
           \A r \in Place : /\ files'[r]["manifest"] = files[r]["manifest"]
                            /\ r \notin {from, to} /\ Disk(r) # disk[reg] => files'[r]["disk"] = Disk(r)
                            /\ r \notin {from, to} => files'[r]["disk"] \in {Stale, Disk(r)},
           Disk(from) \in {Nothing, Stale, disk[reg]},
           base'[reg] \in {from, to},
           files'[base'[reg]]["disk"] \in {Nothing, disk[reg]}
    PROVE  Registered' /\ Recoverable'
<1>1. /\ reg # 0 /\ reg \in Guid /\ from \in Place /\ to \in Place /\ to \in Dir /\ to \notin Guid
      /\ from # reg /\ to # reg /\ (from \in Dir \/ from < next)
    BY Numbers, Sorts DEF RecoverInv, MoveHolds, TypeInv, DataOK, TargetsOK
<1>8. reg \in Place
    BY <1>1, Members
<1>2. Apart(disk[reg])
    <2> SUFFICES ASSUME NEW p \in Guid, Disk(p) \in Guid, files[p]["manifest"] \in Guid, Disk(p) # disk[reg]
                 PROVE  files'[p]["disk"] = Disk(p) /\ files'[p]["manifest"] = files[p]["manifest"]
        BY DEF Apart
    <2>1. p \in Place /\ p # to
        BY <1>1, Members
    <2>2. p # from
        BY Sorts
    <2> QED
        BY <2>1, <2>2
<1>3. Recoverable'
    BY <1>1, <1>2, ApartRecoverable DEF RecoverInv
<1>4. \A p \in Guid : p >= next => p \notin {from, to} /\ Disk(p) = Nothing
    BY <1>1, NotLater DEF RecoverInv, Registered
<1>5. disk[reg] # Nothing /\ Disk(reg) \in {Nothing, Stale, disk[reg]}
    BY <1>1 DEF RecoverInv, Registered
<1>7. files'[reg]["disk"] \in {Nothing, Stale, disk[reg]}
    <2>1. files'[reg]["disk"] \in {Stale, Disk(reg)}
        BY <1>1, <1>8
    <2> QED
        BY <1>5, <2>1
<1>6. Registered'
    <2>1. \A p \in Guid : p >= next' => files'[p]["disk"] = Nothing
        BY <1>4, <1>5, Members
    <2>2. base'[reg'] # reg' /\ (base'[reg'] \in Dir \/ base'[reg'] < next')
        BY <1>1
    <2> QED
        BY <1>1, <1>5, <1>7, <2>1, <2>2 DEF RecoverInv, Registered, Disk
<1> QED
    BY <1>3, <1>6

\* A move that goes on.
LEMMA MoveGoesOn ==
    ASSUME TypeInv, UndoOK, WithTrash, RecoverInv, UNCHANGED world, Registered', Recoverable',
           cmd = "move", cmd' = "move", pc' # "idle", MoveHolds'
    PROVE  RecoverInv'
BY DEF RecoverInv, UnderWay, TrashHolds

\* A move until the disk is where it goes.
LEMMA MoveFilesRecovers ==
    ASSUME TypeInv, UndoOK, WithTrash, RecoverInv, UNCHANGED world,
           MoveMkdir \/ MoveRename \/ MoveCopy \/ MoveCopied
    PROVE  RecoverInv'
<1> USE DEF Goto, Finish, Return, diskVars, stepVars, histVars
<1>1. cmd = "move" /\ pc \in {"mkdir", "move", "copying"}
    BY DEF MoveMkdir, MoveRename, MoveCopy, MoveCopied
<1>2. /\ reg # 0 /\ from \in Place /\ to \in Place /\ to \in Dir /\ from # to /\ undo = <<>>
      /\ base[reg] = from /\ from # reg /\ (from \in Dir \/ from < next) /\ Disk(from) = disk[reg]
    BY <1>1 DEF RecoverInv, MoveHolds, TypeInv, DataOK, TargetsOK
<1>3. CASE UNCHANGED <<files, folder, reg, base, disk, next, purged, orphaned>>
           /\ cmd' = "none" /\ pc' = "idle" /\ undo' = <<>>
    BY <1>3, QuietStep, OverStep DEF RecoverInv
<1>4. CASE MoveMkdir
    <2>1. CASE Goto("move") /\ UNCHANGED <<diskVars, stepVars>>
        <3>1. MoveHolds'
            BY <1>1, <1>2, <2>1 DEF MoveHolds, Disk
        <3>2. Registered' /\ Recoverable'
            BY <2>1, QuietStep DEF RecoverInv
        <3> QED
            BY <1>1, <2>1, <3>1, <3>2, MoveGoesOn
    <2> QED
        BY <1>3, <1>4, <2>1 DEF MoveMkdir
<1>5. ASSUME UNCHANGED <<folder, reg, base, disk, next, purged, orphaned>>, cmd' \in {"move", "none"},
             cmd' = "none" => pc' = "idle" /\ undo' = <<>>, cmd' = "move" => pc' # "idle" /\ MoveHolds',
             \A r \in Place : files'[r]["manifest"] = files[r]["manifest"] /\ (r # from /\ r # to => files'[r]["disk"] = Disk(r)),
             files'[from]["disk"] \in {Nothing, disk[reg]}
      PROVE  RecoverInv'
    <2>1. Registered' /\ Recoverable'
        BY <1>1, <1>2, <1>5, MovedHolds
    <2> QED
        BY <1>1, <1>5, <2>1, OverStep, MoveGoesOn DEF RecoverInv
<1>6. ASSUME NEW u \in Undo, undo' = Append(undo, u)
      PROVE  undo' = <<u>> /\ DOMAIN undo' = {1} /\ undo'[1] = u
    BY <1>2, <1>6
<1>7. /\ UndoOf("rename", "disk", to, from) \in Undo /\ UndoOf("remove", "disk", to, to) \in Undo
      /\ UndoOf("rename", "disk", to, from) = [do |-> "rename", file |-> "disk", at |-> to, to |-> from]
      /\ UndoOf("remove", "disk", to, to) = [do |-> "remove", file |-> "disk", at |-> to, to |-> to]
    BY <1>2, Members DEF UndoOf, Undo, UndoDo
<1>8. CASE MoveRename
    <2>1. CASE /\ files' = Renamed(from, to, "disk")
               /\ Push(UndoOf("rename", "disk", to, from)) /\ Goto("repoint")
               /\ UNCHANGED <<folder, reg, base, disk, settings, next, running,
                              held, from, to, file, todo, keep, late, uerr>>
        <3>1. \A r \in Place :
                 /\ files'[r]["disk"] = IF r = to THEN Disk(from) ELSE IF r = from THEN Nothing ELSE Disk(r)
                 /\ files'[r]["manifest"] = files[r]["manifest"]
            BY <1>2, <2>1, RenameOps, Members DEF TypeInv, DataOK, Disk
        <3>2. undo' = Append(undo, UndoOf("rename", "disk", to, from))
            BY <2>1 DEF Push
        <3>3. DOMAIN undo' = {1} /\ undo'[1] = [do |-> "rename", file |-> "disk", at |-> to, to |-> from]
            BY <1>6, <1>7, <3>2
        <3>4. files'[from]["disk"] = Nothing /\ files'[to]["disk"] = disk[reg]
            BY <1>2, <3>1
        <3>5. MoveHolds'
            BY <1>1, <1>2, <2>1, <3>3, <3>4 DEF MoveHolds, Disk
        <3> QED
            BY <1>1, <1>5, <2>1, <3>1, <3>4, <3>5
    <2> QED
        BY <1>3, <1>8, <2>1 DEF MoveRename
<1>9. CASE MoveCopy
    <2>1. CASE /\ files' = [files EXCEPT ![to]["disk"] = Stale] /\ Goto("copying")
               /\ UNCHANGED <<folder, reg, base, disk, settings, next, running, held, stepVars>>
        <3>1. Stale \in Content /\ "disk" \in File
            BY Members
        <3>2. files' = [files EXCEPT ![to]["disk"] = Stale]
            BY <2>1
        <3>3. \A r \in Place :
                 /\ files'[r]["disk"] = IF r = to /\ "disk" = "disk" THEN Stale ELSE Disk(r)
                 /\ files'[r]["manifest"] = IF r = to /\ "disk" = "manifest" THEN Stale ELSE files[r]["manifest"]
            BY ZenonT(40), <1>2, <3>1, <3>2, WriteDisks
        <3>4. files'[from]["disk"] = disk[reg]
            BY <1>2, <3>3
        <3>5. MoveHolds'
            BY <1>1, <1>2, <2>1, <3>4 DEF MoveHolds, Disk
        <3> QED
            BY <1>1, <1>5, <2>1, <3>3, <3>4, <3>5
    <2> QED
        BY <1>3, <1>9, <2>1 DEF MoveCopy
<1>10. CASE MoveCopied
    <2>1. CASE /\ files' = Copied(from, to, "disk")
               /\ Push(UndoOf("remove", "disk", to, to)) /\ Goto("repoint")
               /\ UNCHANGED <<from, to, file, todo, keep, late, uerr>>
        <3>1. \A r \in Place :
                 /\ files'[r]["disk"] = IF r = to THEN Disk(from) ELSE Disk(r)
                 /\ files'[r]["manifest"] = files[r]["manifest"]
            BY <1>2, <2>1, CopiedOps, Members DEF TypeInv, DataOK, Disk
        <3>2. undo' = Append(undo, UndoOf("remove", "disk", to, to))
            BY <2>1 DEF Push
        <3>3. DOMAIN undo' = {1} /\ undo'[1] = [do |-> "remove", file |-> "disk", at |-> to, to |-> to]
            BY <1>6, <1>7, <3>2
        <3>4. files'[from]["disk"] = disk[reg] /\ files'[to]["disk"] = disk[reg]
            BY <1>2, <3>1
        <3>6. UNCHANGED <<folder, reg, base, disk, next>>
            BY <1>10 DEF MoveCopied
        <3>5. MoveHolds'
            BY <1>1, <1>2, <2>1, <3>3, <3>4, <3>6 DEF MoveHolds, Disk
        <3> QED
            BY <1>1, <1>5, <2>1, <3>1, <3>4, <3>5, <3>6
    <2>2. CASE files' \in {files, Removed(to, "disk")} /\ Finish("failed")
        <3>1. \A r \in Place :
                 /\ files'[r]["disk"] = Disk(r) \/ (r = to /\ files'[r]["disk"] = Nothing)
                 /\ files'[r]["manifest"] = files[r]["manifest"]
            <4>1. CASE files' = files
                BY <4>1 DEF Disk
            <4>2. CASE files' = Removed(to, "disk")
                BY <1>2, <4>2, RemoveDisks, Members
            <4> QED
                BY <2>2, <4>1, <4>2
        <3>2. UNCHANGED <<folder, reg, base, disk, next>>
            BY <1>10 DEF MoveCopied
        <3>3. files'[from]["disk"] = disk[reg]
            BY <1>2, <3>1
        <3> QED
            BY <1>1, <1>5, <2>2, <3>1, <3>2, <3>3
    <2> QED
        BY <1>10, <2>1, <2>2 DEF MoveCopied
<1> QED
    BY <1>4, <1>8, <1>9, <1>10, <1>1

\* A move that begins, and one whose disk has moved.
LEMMA MoveEndRecovers ==
    ASSUME TypeInv, UndoOK, WithTrash, RecoverInv, UNCHANGED world,
           \/ \E p \in world.dirs, k \in BOOLEAN : MoveBegin(p, k)
           \/ \E p \in Place : RelinkBegin(p)
           \/ Repoint \/ SmokeTest \/ SmokeStop \/ SmokeFailed \/ DeleteSource \/ MoveUnwound
    PROVE  RecoverInv'
<1> USE DEF Goto, Finish, diskVars, stepVars, histVars
<1>1. ASSUME NEW p \in world.dirs, NEW k \in BOOLEAN, MoveBegin(p, k)
      PROVE  RecoverInv'
    <2>1. /\ reg # 0 /\ reg \in Guid /\ files[base[reg]]["disk"] # Nothing
          /\ cmd' = "move" /\ pc' = "mkdir" /\ from' = base[reg] /\ to' = p /\ undo' = <<>>
          /\ UNCHANGED <<files, folder, reg, base, disk, next, purged, orphaned>>
        BY <1>1, Numbers DEF MoveBegin, Begin, TypeInv, DataOK
    <2>2. Disk(base[reg]) = disk[reg]
        BY <2>1 DEF RecoverInv, Registered, Disk
    <2>3. Registered' /\ Recoverable'
        BY <2>1, QuietStep DEF RecoverInv
    <2>4. MoveHolds'
        BY <2>1, <2>2 DEF MoveHolds, RecoverInv, Registered, Disk
    <2> QED
        BY <2>1, <2>3, <2>4 DEF RecoverInv, UnderWay, TrashHolds
<1>2. ASSUME NEW p \in Place, RelinkBegin(p)
      PROVE  FALSE
    BY <1>2 DEF RelinkBegin, Begin, WithTrash
<1>3. ASSUME cmd = "move", pc # "idle"
      PROVE  /\ reg # 0 /\ from \in Place /\ to \in Place /\ to \in Dir /\ from # to
             /\ base[reg] \in {from, to} /\ reg \in Guid
             /\ pc \in {"repoint", "start", "terminate", "release", "unwind"} =>
                   Disk(from) \in {Nothing, disk[reg]} /\ Disk(to) \in {Nothing, disk[reg]}
             /\ pc = "repoint" => base[reg] = from
             /\ pc \in {"start", "terminate", "release", "delete"} => base[reg] = to
             /\ pc = "delete" => Disk(from) \in {Nothing, Stale, disk[reg]}
             /\ Disk(base[reg]) \in {Nothing, disk[reg]}
             /\ from # reg /\ (from \in Dir \/ from < next)
    BY <1>3, Numbers DEF RecoverInv, Registered, MoveHolds, TypeInv, DataOK, TargetsOK
<1>4. CASE Repoint
    <2>1. /\ cmd = "move" /\ pc = "repoint" /\ pc' \in {"start", "unwind"}
          /\ UNCHANGED <<files, folder, reg, disk, next, purged, orphaned, cmd, from, to>>
        BY <1>4 DEF Repoint, RecoverInv, UnderWay
    <2>2. \/ base' = [base EXCEPT ![reg] = to] /\ undo' = Append(undo, UndoOf("repoint", "disk", to, base[reg]))
          \/ pc' = "unwind" /\ UNCHANGED <<base, undo>>
        BY <1>4 DEF Repoint, Push
    <2>3. base'[reg] \in {from, to} /\ (pc' = "start" => base'[reg] = to)
        BY <1>3, <2>1, <2>2 DEF TypeInv, DataOK
    <2>4. files'[base'[reg]]["disk"] \in {Nothing, disk[reg]}
        BY <1>3, <2>1, <2>3 DEF Disk
    <2>5. Registered' /\ Recoverable'
        BY <1>3, <2>1, <2>3, <2>4, MovedHolds DEF Disk
    <2>6. \A i \in DOMAIN undo' : undo'[i].file = "disk" /\ undo'[i].at = to
                                 /\ (undo'[i].do \in {"rename", "repoint"} => undo'[i].to = from)
        <3>1. CASE undo' = undo
            BY <2>1, <3>1 DEF RecoverInv, MoveHolds
        <3>2. CASE undo' = Append(undo, UndoOf("repoint", "disk", to, base[reg]))
            <4>1. UndoOf("repoint", "disk", to, base[reg]) = [do |-> "repoint", file |-> "disk", at |-> to, to |-> from]
                BY <1>3, <2>1 DEF UndoOf
            <4>2. [do |-> "repoint", file |-> "disk", at |-> to, to |-> from] \in Undo
                BY <1>3, <2>1, Members DEF Undo, UndoDo
            <4>3. /\ DOMAIN undo' = DOMAIN undo \cup {Len(undo) + 1}
                  /\ undo'[Len(undo) + 1] = [do |-> "repoint", file |-> "disk", at |-> to, to |-> from]
                  /\ \A i \in DOMAIN undo : undo'[i] = undo[i]
                BY <3>2, <4>1, <4>2, AppendItems DEF UndoOK
            <4> QED
                BY <2>1, <4>3 DEF RecoverInv, MoveHolds
        <3> QED
            BY <2>2, <3>1, <3>2
    <2>7. MoveHolds'
        BY <1>3, <2>1, <2>3, <2>6 DEF MoveHolds, Disk
    <2> QED
        BY <2>1, <2>5, <2>7, MoveGoesOn
<1>5. CASE SmokeTest
    <2>1. /\ cmd = "move" /\ pc = "start"
          /\ UNCHANGED <<folder, reg, base, disk, next, purged, orphaned, cmd, from, to, undo>>
        BY <1>5 DEF SmokeTest, RecoverInv, UnderWay
    <2>2. CASE CanStart /\ Started(to) /\ Goto("delete")
        <3>1. Disk(to) = disk[reg]
            BY <1>3, <2>1, <2>2 DEF CanStart, Disk
        <3>2. \A r \in Place :
                 /\ files'[r]["disk"] = IF r # to /\ Disk(r) = disk[reg] THEN Stale ELSE Disk(r)
                 /\ files'[r]["manifest"] = files[r]["manifest"]
            BY <1>3, <2>1, <2>2, <3>1, StartDisks
        <3>3. Registered' /\ Recoverable'
            BY <1>3, <2>1, <3>1, <3>2, MovedHolds
        <3>4. files'[from]["disk"] \in {Nothing, Stale, disk[reg]} /\ pc' = "delete"
            BY <1>3, <2>1, <2>2, <3>2
        <3>5. MoveHolds'
            BY <1>3, <2>1, <3>4 DEF RecoverInv, MoveHolds, Disk
        <3> QED
            BY <2>1, <3>3, <3>4, <3>5, MoveGoesOn
    <2>3. CASE UNCHANGED files /\ pc' = "terminate"
        <3>1. Registered' /\ Recoverable'
            BY <2>1, <2>3, QuietStep DEF RecoverInv
        <3>2. MoveHolds'
            BY <1>3, <2>1, <2>3 DEF RecoverInv, MoveHolds, Disk
        <3> QED
            BY <2>1, <2>3, <3>1, <3>2, MoveGoesOn
    <2> QED
        BY <1>5, <2>1, <2>2, <2>3 DEF SmokeTest
<1>9. CASE SmokeStop
    <2>1. /\ cmd = "move" /\ pc = "terminate" /\ pc' = "release"
          /\ UNCHANGED <<files, folder, reg, base, disk, next, purged, orphaned, cmd, from, to, undo>>
        BY <1>9 DEF SmokeStop
    <2>2. Registered' /\ Recoverable'
        BY <2>1, QuietStep DEF RecoverInv
    <2>3. MoveHolds'
        BY <1>3, <2>1 DEF RecoverInv, MoveHolds, Disk
    <2> QED
        BY <2>1, <2>2, <2>3, MoveGoesOn
<1>6. CASE SmokeFailed
    <2>1. /\ cmd = "move" /\ pc = "release"
          /\ UNCHANGED <<files, folder, reg, base, disk, next, purged, orphaned>>
        BY <1>6 DEF SmokeFailed
    <2>2. Registered' /\ Recoverable'
        BY <2>1, QuietStep DEF RecoverInv
    <2>3. CASE cmd' = "none" /\ pc' = "idle" /\ undo' = <<>>
        BY <2>2, <2>3, OverStep DEF RecoverInv
    <2>4. CASE /\ pc' = "unwind" /\ UNCHANGED <<cmd, from, to>>
               /\ undo' = undo \/ undo' = [i \in DOMAIN undo |-> Leave(undo[i])]
        <3>1. \A i \in DOMAIN undo : undo[i] \in Undo
            BY DEF UndoOK
        <3>2. \A v \in Undo : /\ Leave(v).file = v.file /\ Leave(v).at = v.at /\ Leave(v).to = v.to
                             /\ Leave(v).do = IF v.do = "remove" THEN "leave" ELSE v.do
            BY DEF Leave, Undo, UndoDo
        <3>3. \A i \in DOMAIN undo' : undo'[i].file = "disk" /\ undo'[i].at = to
                                     /\ (undo'[i].do \in {"rename", "repoint"} => undo'[i].to = from)
            BY <2>1, <2>4, <3>1, <3>2 DEF RecoverInv, MoveHolds
        <3>4. MoveHolds'
            BY <1>3, <2>1, <2>4, <3>3 DEF MoveHolds, Disk
        <3> QED
            BY <2>1, <2>2, <2>4, <3>4, MoveGoesOn
    <2> QED
        BY <1>6, <2>3, <2>4 DEF SmokeFailed
<1>7. CASE DeleteSource
    <2>1. /\ cmd = "move" /\ pc = "delete" /\ cmd' = "none" /\ pc' = "idle" /\ undo' = <<>>
          /\ UNCHANGED <<folder, reg, base, disk, next, purged, orphaned>>
          /\ files' = files \/ files' = Removed(from, "disk")
        BY <1>7 DEF DeleteSource, RecoverInv, UnderWay
    <2>2. \A r \in Place : /\ files'[r]["disk"] = Disk(r) \/ (r = from /\ files'[r]["disk"] = Nothing)
                          /\ files'[r]["manifest"] = files[r]["manifest"]
        BY <1>3, <2>1, RemoveDisks, Members DEF Disk
    <2>3. Registered' /\ Recoverable'
        BY <1>3, <2>1, <2>2, MovedHolds
    <2> QED
        BY <2>1, <2>3, OverStep DEF RecoverInv
<1>8. CASE MoveUnwound
    <2>1. /\ cmd' = "none" /\ pc' = "idle" /\ undo' = <<>>
          /\ UNCHANGED <<files, folder, reg, base, disk, next, purged, orphaned>>
        BY <1>8 DEF MoveUnwound
    <2> QED
        BY <2>1, QuietStep, OverStep DEF RecoverInv
<1> QED
    BY <1>1, <1>2, <1>4, <1>5, <1>6, <1>7, <1>8, <1>9

-----------------------------------------------------------------------------

\* Where there is no trash: a registration is never given up, and there is no
\* folder that an undelete or a purge could be of.
LEMMA StepNoTrash ==
    ASSUME TypeInv, "trash" \notin world.commands, NoTrash, [Next]_vars
    PROVE  NoTrash'
<1> USE DEF NoTrash, Goto, Finish, Begin, diskVars, stepVars, histVars, vars
<1>1. CASE UNCHANGED vars
    BY <1>1
<1>2. ASSUME NEW d \in world.dirs, Install(d)
      PROVE  NoTrash'
    <2>1. next \in Int /\ disk' = [disk EXCEPT ![next] = next] /\ next = 1 /\ next' = next + 1 /\ reg' = next
          /\ UNCHANGED <<folder, purged, cmd, pending>>
        BY <1>2 DEF Install
    <2>2. \A g \in Guid : disk'[g] = g
        BY <2>1 DEF TypeInv, DataOK
    <2> QED
        BY <2>1, <2>2
<1>3. CASE Use \/ Exits \/ Release \/ Unwind \/ Crash
    BY <1>3 DEF Use, Exits, Release, Unwind, Crash
<1>12. CASE UnregistersLate
    BY <1>12 DEF UnregistersLate
<1>4. CASE TrashBegin \/ TrashStop \/ TrashWait \/ TrashMkdir
    BY <1>4 DEF TrashBegin, TrashStop, TrashWait, TrashMkdir, GiveUp
<1>5. CASE TrashRename \/ TrashCopy \/ TrashCopied \/ TrashRemove
    BY <1>5 DEF TrashRename, TrashCopy, TrashCopied, TrashRemove
<1>6. CASE TrashList \/ TrashNext \/ WriteManifest \/ TrashUnregister \/ TrashClean
    BY <1>6 DEF TrashList, TrashNext, WriteManifest, TrashUnregister, TrashClean
<1>7. CASE UndeleteImported \/ UndeleteSettings
    BY <1>7 DEF UndeleteImported, UndeleteSettings
<1>8. ASSUME NEW g \in Guid, UndeleteImport(g) \/ Purge(g)
      PROVE  NoTrash'
    BY <1>8 DEF UndeleteImport, Purge
<1>9. ASSUME NEW p, NEW k, MoveBegin(p, k) \/ RelinkBegin(p)
      PROVE  NoTrash'
    BY <1>9 DEF MoveBegin, RelinkBegin
<1>10. CASE MoveMkdir \/ MoveRename \/ MoveCopy \/ MoveCopied
    BY <1>10 DEF MoveMkdir, MoveRename, MoveCopy, MoveCopied, Return
<1>11. CASE Repoint \/ SmokeTest \/ SmokeStop \/ SmokeFailed \/ DeleteSource \/ MoveUnwound
    BY <1>11 DEF Repoint, SmokeTest, SmokeStop, SmokeFailed, DeleteSource, MoveUnwound
<1> QED
    BY <1>1, <1>2, <1>3, <1>4, <1>5, <1>6, <1>7, <1>8, <1>9, <1>10, <1>11, <1>12 DEF Next, WorldStep, TrashStep, MoveStep

\* Every step of a world with a trash.
LEMMA StepRecovers ==
    ASSUME TypeInv, UndoOK, WithTrash, RecoverInv, [Next]_vars
    PROVE  RecoverInv'
<1>1. UNCHANGED world
    BY DEF Next, vars
<1>2. CASE WorldStep \/ UNCHANGED vars
    BY <1>1, <1>2, WorldRecovers, UnwindRecovers DEF WorldStep
<1>3. CASE TrashStep
    <2>1. CASE TrashBegin \/ TrashStop \/ TrashWait \/ TrashMkdir \/ TrashList \/ TrashNext
        BY <1>1, <2>1, TrashBeginRecovers
    <2>2. CASE TrashRename \/ TrashCopy \/ TrashCopied \/ TrashRemove
        BY <1>1, <2>2, TrashMoveRecovers
    <2>3. CASE WriteManifest \/ TrashUnregister \/ TrashClean
        BY <1>1, <2>3, TrashEndRecovers
    <2>4. CASE UndeleteImported \/ UndeleteSettings \/ \E g \in Guid : UndeleteImport(g) \/ Purge(g)
        BY <1>1, <2>4, UndeleteRecovers
    <2> QED
        BY <1>3, <2>1, <2>2, <2>3, <2>4 DEF TrashStep
<1>4. CASE MoveStep
    BY <1>1, <1>4, MoveFilesRecovers, MoveEndRecovers DEF MoveStep
<1> QED
    BY <1>2, <1>3, <1>4 DEF Next

\* Nothing is ever out of reach of undelete: a distribution that is no longer
\* registered, and was not purged, has its disk in a trash folder beside a
\* manifest that can be read, across volumes too, whatever fails and wherever
\* wslkit dies (Trash, Undelete, Purge, Move).  The disks of a trash that was
\* rolled back after WSL had unregistered are the exception the property names.
\* Without relink in the same world, as above.
THEOREM TrashIsRecoverable ==
    ASSUME \A w \in Worlds : ~({"trash", "relink"} \subseteq w.commands)
    PROVE  Spec => []Recoverable
<1> DEFINE Inv == /\ WithTrash => RecoverInv
                  /\ "trash" \notin world.commands => NoTrash
<1>1. Init => TypeInv /\ UndoOK /\ Inv
    <2> SUFFICES ASSUME Init PROVE TypeInv /\ UndoOK /\ Inv
        OBVIOUS
    <2>1. TypeInv /\ UndoOK
        BY InitType DEF Init, UndoOK
    <2>2. Installed = {}
        BY Sorts DEF Init, Installed
    <2>3. Recoverable
        BY <2>2 DEF Recoverable
    <2>4. Registered
        BY Members DEF Init, Registered, Empty, Disk
    <2>5. RecoverInv
        BY <2>3, <2>4 DEF Init, RecoverInv, UnderWay, TrashHolds, MoveHolds
    <2>6. NoTrash
        BY DEF Init, NoTrash
    <2> QED
        BY <2>1, <2>5, <2>6
<1>2. TypeInv /\ UndoOK /\ Inv /\ [Next]_vars => TypeInv' /\ UndoOK' /\ Inv'
    <2> SUFFICES ASSUME TypeInv, UndoOK, Inv, [Next]_vars
                 PROVE  Inv'
        BY StepType, StepUndo DEF UndoOK
    <2>1. UNCHANGED world
        BY DEF Next, vars
    <2>2. WithTrash' = WithTrash /\ ("trash" \notin world'.commands) = ("trash" \notin world.commands)
        BY <2>1 DEF WithTrash
    <2>3. WithTrash => RecoverInv'
        BY StepRecovers
    <2>4. "trash" \notin world.commands => NoTrash'
        BY StepNoTrash
    <2> QED
        BY <2>1, <2>2, <2>3, <2>4
<1>3. TypeInv /\ Inv => Recoverable
    <2> SUFFICES ASSUME TypeInv, Inv PROVE Recoverable
        OBVIOUS
    <2>1. WithTrash \/ "trash" \notin world.commands
        BY DEF WithTrash, TypeInv, DataOK
    <2>2. CASE WithTrash
        BY <2>2 DEF RecoverInv
    <2>3. CASE NoTrash
        <3>1. next \in Int /\ \A g \in Guid : g \in Int /\ g > 0
            BY Sorts DEF TypeInv, DataOK
        <3> QED
            BY <2>3, <3>1 DEF NoTrash, Recoverable, Installed
    <2> QED
        BY <2>1, <2>2, <2>3
<1> QED
    BY <1>1, <1>2, <1>3, PTL DEF Spec
=============================================================================
