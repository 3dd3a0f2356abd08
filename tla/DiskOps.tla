------------------------------ MODULE DiskOps ------------------------------
(***************************************************************************)
(* The commands of internal/disk that touch one distribution, given one    *)
(* after the other, with the distribution used in between.                 *)
(***************************************************************************)
EXTENDS Trash, Move

Next == UNCHANGED world /\ (WorldStep \/ TrashStep \/ MoveStep)

Spec == Init /\ [][Next]_vars

-----------------------------------------------------------------------------

\* The variables keep their types; this is the one type invariant.
TypeOK ==
    /\ files \in [Place -> [File -> Content]] /\ folder \subseteq Guid
    /\ reg \in 0..MaxGuid /\ next \in 1..(MaxGuid + 1) /\ reg < next
    /\ base \in [Guid -> Place] /\ disk \in [Guid -> Content]
    /\ settings \in [Guid -> {"own", "fresh"}]
    /\ running \in BOOLEAN /\ held \subseteq Place
    /\ cmd \in {"none", "trash", "undelete", "move", "relink"}
    /\ from \in Place /\ to \in Place /\ file \in File /\ todo \subseteq File
    /\ keep \in BOOLEAN /\ undo \in Seq(Undo)
    /\ late \in BOOLEAN /\ uerr \in BOOLEAN /\ damaged \in BOOLEAN
    /\ pending \in {0, reg}
    /\ purged \subseteq Guid /\ orphaned \subseteq Content /\ ruined \subseteq Content

Installed == {g \in Guid : g < next /\ disk[g] = g}

\* No command loses a distribution: until the user purges it, a current and
\* complete copy of every disk is somewhere, whatever fails and whenever
\* wslkit dies.
DiskSurvives ==
    \A g \in Installed \ purged : \E p \in Place : files[p]["disk"] = g

\* A trash may have to copy a disk, from another volume or from one that cannot
\* be told, whose original is gone when a later step fails (TrashAcross).
TrashCopies ==
    "trash" \in world.commands /\ (world.far # {} \/ Fails("volume"))

\* Wherever that cannot happen, no command loses a distribution, unless wsl.exe
\* was killed while WSL unregistered, and WSL deleted what the rollback had put
\* back (TrashLate).
DisksKept ==
    \A g \in Installed \ (purged \cup ruined) : \E p \in Place : files[p]["disk"] = g
DiskSurvivesOnVolume == ~TrashCopies => DisksKept

\* A distribution that is not registered any more can be brought back: its disk
\* is in a trash folder beside a manifest that says what it was.  (Except where
\* wsl.exe was killed, and WSL unregistered it afterwards: UnregistersLate.)
Recoverable ==
    \A g \in Installed \ (purged \cup orphaned) :
        \/ reg # 0 /\ disk[reg] = g
        \/ \E p \in Guid : files[p]["disk"] = g /\ files[p]["manifest"] \in Guid

\* A trash, a move or a relink that failed, and did not say that it could not
\* put things back, left the files as it found them (on one volume; the manifests
\* of trash folders apart), and the registration too.  What it does not undo are
\* the half of a copy that cannot be removed (MoveCopied), and a registration that
\* WSL removes after all, with the disk if the rollback was faster (UnregistersLate).
AsBefore(p, f, c) ==
    \/ c = before.files[p][f]
    \/ /\ cmd = "move" /\ p = to /\ before.files[p][f] = Nothing /\ c = Stale
       /\ Fails("copy") /\ Fails("remove")
    \/ p = from /\ f = "disk" /\ c = Nothing /\ before.files[p][f] \in ruined

PutBack ==
    /\ cmd \in {"trash", "move", "relink"} /\ outcome' \in {"failed", "restored"}
    /\ ~TrashCopies

FailureRestores ==
    [][PutBack => /\ \A p \in Place, f \in {"disk", "sibling"} : AsBefore(p, f, files'[p][f])
                  /\ base' = before.base
                  /\ reg' = before.reg \/ disk[before.reg] \in orphaned]_vars

\* However often a distribution goes to the trash and back, it ends up with
\* the default user, the flags and the place it had when it was installed,
\* where no command dies or is cut short, and the registry can be written.
SettingsReturn ==
    cmd = "none" /\ reg # 0 /\ ~world.crash /\ ~Fails("registry")
        /\ ~Fails("import late") => settings[reg] = "own"

\* Unless a command died, or said that it could not put things back, the
\* registration is of a disk that is where the registration says (on one volume,
\* and unless the user purged it or brought an old copy back).
RegistrationHolds ==
    cmd = "none" /\ reg # 0 /\ ~damaged /\ disk[reg] \in Guid \ purged
        /\ ~TrashCopies =>
        files[base[reg]]["disk"] = disk[reg]
=============================================================================
