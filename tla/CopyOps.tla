------------------------------ MODULE CopyOps ------------------------------
(***************************************************************************)
(* snapshot, restore, snapshot rm, rebuild and compact, given one after    *)
(* the other, while the distribution is used.                              *)
(***************************************************************************)
EXTENDS Snapshot, Rebuild

Next == WorldStep \/ SnapshotStep \/ RebuildStep

Spec == Init /\ [][Next]_vars

-----------------------------------------------------------------------------

\* The variables keep their types; this is the one type invariant.
TypeOK ==
    /\ live \in Content /\ aside \in Content /\ archive \in Content
    /\ store \in [Slot -> Entry] /\ reg \in 0..MaxGuid /\ next \in 1..(MaxGuid + 1)
    /\ reg < next /\ settings \in {"own", "fresh"}
    /\ up \subseteq Distro /\ lock \in {"free", "held"}
    /\ version \in Version
    /\ cmd \in {"none", "snapshot", "restore", "rebuild", "compact"}
    /\ from \in 0..MaxSlot /\ to \in 0..MaxSlot /\ option \subseteq Option
    /\ was \subseteq Distro /\ rollback \in {"clean", "short"}
    /\ man \in {"own", "fresh"} /\ undo \in Seq({"put back", "remove"})
    /\ before \in Content /\ taken \in [Slot -> Content]
    /\ kept \subseteq Version

\* "Nothing was thrown away" (snapshot.go:420): what a restore or a rebuild has
\* displaced, or is about to, is somewhere until the user removes it, whatever
\* fails, whenever wslkit dies and whatever the user does meanwhile, but use a
\* distribution while it is rebuilt.
NothingThrownAway ==
    /\ kept \subseteq Places
    /\ cmd \in {"restore", "rebuild"} => before \in Places \cup {Nothing, Part}

\* A snapshot that can be restored has all of the disk it was taken of, however
\* the command that made it, or one that removed it, ended.
SnapshotsAreWhole ==
    \A s \in Slot : Readable(s) /\ store[s].disk # Nothing =>
                        store[s].disk = taken[s]

Ends(c, hows) == cmd \in c /\ cmd' = "none" /\ outcome' \in hows

\* A snapshot or a restore that failed, and did not say that it could not put
\* things back, left the disk as it was, up to what the user wrote meanwhile,
\* nothing beside it, and no new snapshot to be restored.  (Half a copy may stay
\* where there was no disk.)
FailureRestores ==
    [][Ends({"snapshot", "restore"}, {"failed", "restored"}) =>
           /\ live' = before \/ (before = Nothing /\ live' = Part)
           /\ cmd = "restore" => aside' = Nothing
           /\ store'[to].manifest # "whole"]_vars

\* "The restore is itself undoable" (snapshot.go:419): one that says so has filed
\* the disk it replaced, whole, under the registration it can be restored to.
RestoreIsUndoable ==
    [][Ends({"restore"}, {"done"}) /\ before # Nothing =>
           \E s \in Slot : /\ Readable(s)' /\ store'[s].disk = before
                           /\ store'[s].guid = reg']_vars

\* "From here the archive is the only copy" (rebuild.go:234): while the
\* distribution is not registered, there is a whole one to import.
ArchiveIsWhole == reg = 0 => archive \in Version

\* A rebuild that is done has the distribution back as it was: the disk it began
\* with, imported from the archive, and the settings that the import forgets.
RebuildIsFaithful ==
    [][Ends({"rebuild"}, {"done"}) => live' = before /\ settings' = man]_vars
=============================================================================
