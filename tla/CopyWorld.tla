----------------------------- MODULE CopyWorld -----------------------------
(***************************************************************************)
(* The disk of one distribution as snapshot, restore, rebuild and compact  *)
(* of internal/disk see it: the file the registration names, the one a     *)
(* restore has moved aside, the archive of a rebuild and the store of      *)
(* snapshots.  The contents of a disk are the version of it that its user  *)
(* last wrote, so that an old copy differs from the current disk.          *)
(*                                                                         *)
(* Every call to Windows or to wsl.exe that is named in Failing may fail,  *)
(* and wslkit may die between any two.  The commands are in Snapshot and   *)
(* in Rebuild; CopyOps puts them together.                                 *)
(***************************************************************************)
EXTENDS Integers, Sequences

CONSTANTS
    MaxVersion,   \* bound: how often the user writes to the disk
    MaxGuid,      \* bound: registrations made
    MaxSlot,      \* bound: snapshots kept at a time
    FarStore,     \* the store is on another volume than the disk
    Failing,      \* the calls that may fail
    CanCrash,     \* whether wslkit may die half way through a command
    Commands      \* the commands the user gives

Version == 1..MaxVersion
Slot    == 1..MaxSlot   \* the folders of the store, named after a second
Nothing == 0
Part    == -1       \* a copy or an archive that is not complete
Content == {Nothing, Part} \cup Version

ASSUME CopyAssumption ==
    /\ MaxVersion \in Nat \ {0} /\ MaxGuid \in Nat \ {0} /\ MaxSlot \in Nat \ {0}
    /\ FarStore \in BOOLEAN /\ CanCrash \in BOOLEAN

Entry == [dir : {"none", "made"}, guid : 0..MaxGuid, disk : Content,
          manifest : {"none", "cut", "whole"}]
NoEntry == [dir |-> "none", guid |-> 0, disk |-> Nothing, manifest |-> "none"]

Distro == {"it", "other"}   \* the distribution, and any other one
Option == {"shutdown", "keep", "restart"}

VARIABLES
    live,      \* ext4.vhdx, which the registration names
    aside,     \* the same with .wslkit-before-restore behind it
    archive,   \* wslkit-rebuild-*.tar
    store,     \* the snapshots
    reg, next, \* the GUID of the registration, or 0; and the next one
    settings,  \* its default user and flags
    up,        \* what is running, which keeps the utility VM up
    lock,      \* whether the utility VM has live open
    version,   \* how often the user has written
    cmd, pc,   \* the command under way and its next step
    from, to,  \* the snapshot it restores, and the one it makes
    option,    \* --shutdown, --keep-archive or --restart
    was,       \* under --restart, whether the distribution was up when it began
    man,       \* the settings it read then
    undo,      \* its UndoStack, newest last
    rollback,  \* whether a step of its rollback failed
    outcome,   \* how the last command ended
    before,    \* history: the disk when it began, or what was written to it since
    taken,     \* history: what each snapshot was to hold
    kept       \* history: the versions that commands displaced, until the user
               \* removes one or takes it for his disk again

fileVars  == <<live, aside, archive, store>>
regVars   == <<reg, next, settings>>
vmVars    == <<up, lock>>
diskVars  == <<fileVars, regVars, vmVars>>
stepVars  == <<from, to, option, was, man, undo, rollback>>
asks      == <<from, to, option, was, man>>   \* what a step leaves alone
histVars  == <<before, taken, kept>>
vars == <<diskVars, version, cmd, pc, stepVars, outcome, histVars>>

Init ==
    /\ live = 1 /\ aside = Nothing /\ archive = Nothing
    /\ store = [s \in Slot |-> NoEntry]
    /\ reg = 1 /\ next = 2 /\ settings = "own"
    /\ up \in SUBSET {"other"} /\ lock = "free"
    /\ version = 1 /\ cmd = "none" /\ pc = "idle"
    /\ from = 0 /\ to = 0 /\ option = {} /\ was = {}
    /\ man = "own" /\ undo = <<>> /\ rollback = "clean" /\ outcome = "none"
    /\ before = live
    /\ taken = [s \in Slot |-> Nothing] /\ kept = {}

Fails(call) == call \in Failing

\* Where a version can be, for a user who looks for it.
Places == {live, aside, archive} \cup {store[s].disk : s \in Slot}

Readable(s) == store[s].manifest = "whole"

-----------------------------------------------------------------------------
(* The user and the utility VM, also while a command waits or asks. *)

\* A disk that is incomplete, or that a copy is being made of, does not start.
Running  == "it" \in up
CanStart == reg # 0 /\ live \in Version /\ pc \notin {"copying", "filing"}

\* (Using a distribution that is being rebuilt is left out.)
Use ==
    /\ cmd # "rebuild" /\ CanStart /\ ~Running
    /\ up' = up \cup {"it"} /\ lock' = "held"
    /\ UNCHANGED <<fileVars, regVars, version, cmd, pc, stepVars, outcome,
                   histVars>>

\* (Until a restore has moved it, what he writes to is what it will replace.)
Write ==
    /\ Running /\ cmd # "rebuild" /\ version < MaxVersion
    /\ version' = version + 1 /\ live' = version'
    /\ before' = IF before = live /\ undo = <<>> THEN live' ELSE before
    /\ UNCHANGED <<aside, archive, store, regVars, vmVars, cmd, pc, stepVars,
                   outcome, taken, kept>>

Exits ==
    /\ Running /\ up' = up \ {"it"}
    /\ UNCHANGED <<fileVars, regVars, lock, version, cmd, pc, stepVars,
                   outcome, histVars>>

\* The VM lets go of the disk once nothing runs any more.
Release ==
    /\ lock = "held" /\ up = {} /\ lock' = "free"
    /\ UNCHANGED <<fileVars, regVars, up, version, cmd, pc,
                   stepVars, outcome, histVars>>

\* What the messages tell the user to do with what was left behind: put the
\* old disk back where there is no good one, or take it away; import the
\* archive again, or delete it.
Tidy ==
    /\ cmd = "none" /\ lock = "free"
    /\ \/ /\ aside # Nothing
          /\ live' \in {live} \cup (IF live \in Version THEN {} ELSE {aside})
          /\ aside' = Nothing /\ kept' = kept \ {aside}
          /\ UNCHANGED <<archive, store, regVars>>
       \/ /\ archive \in Version /\ reg = 0 /\ next <= MaxGuid
          /\ live' = archive /\ reg' = next /\ next' = next + 1
          /\ settings' = "fresh"
          /\ UNCHANGED <<aside, archive, store, kept>>
       \/ /\ archive # Nothing /\ reg # 0 /\ live \in Version
          /\ archive' = Nothing /\ kept' = kept \ {archive}
          /\ UNCHANGED <<live, aside, store, regVars>>
    /\ UNCHANGED <<vmVars, version, cmd, pc, stepVars, outcome, before, taken>>

-----------------------------------------------------------------------------
(* A command, from the prompt to its result. *)

Begin(c, first, s, t, o) ==
    /\ cmd = "none" /\ c \in Commands /\ reg # 0
    /\ cmd' = c /\ pc' = first /\ from' = s /\ to' = t /\ option' = o
    /\ was' = {d \in up \cap {"it"} : "restart" \in o} /\ man' = settings /\ undo' = <<>> /\ rollback' = "clean"
    /\ outcome' = "none" /\ before' = live
    /\ UNCHANGED <<diskVars, version, taken, kept>>

\* What was live when it began and is not now has been displaced.
FinishWith(how, now) ==
    /\ cmd' = "none" /\ pc' = "idle" /\ outcome' = how /\ undo' = <<>>
    /\ from' = 0 /\ to' = 0 /\ option' = {} /\ was' = {}
    /\ man' = "own" /\ rollback' = "clean" /\ before' = Nothing
    /\ kept' = IF now = before THEN kept ELSE kept \cup (Version \cap {before})
    /\ UNCHANGED <<version, taken>>

Finish(how) == FinishWith(how, live)

Goto(p) == pc' = p /\ UNCHANGED <<cmd, outcome, version, histVars>>

GiveUp == Finish("failed") /\ UNCHANGED diskVars

Unwind ==
    /\ pc = "unwind" /\ undo # <<>>
    /\ LET u == undo[Len(undo)] IN
           \/ /\ u = "remove" /\ live # Nothing /\ lock = "free"
              /\ live' = Nothing /\ UNCHANGED <<aside, rollback>>
           \/ /\ u = "put back" /\ live = Nothing
              /\ live' = aside /\ aside' = Nothing /\ UNCHANGED rollback
           \/ /\ \/ Fails(IF u = "remove" THEN "remove" ELSE "rename")
                 \/ u = "remove" /\ (live = Nothing \/ lock = "held")
                 \/ u = "put back" /\ live # Nothing
              /\ rollback' = "short" /\ UNCHANGED <<live, aside>>
    /\ undo' = SubSeq(undo, 1, Len(undo) - 1)
    /\ UNCHANGED <<archive, store, regVars, vmVars, version, cmd, pc, asks,
                   outcome, histVars>>

Crash ==
    /\ CanCrash /\ cmd # "none"
    /\ Finish("crashed") /\ UNCHANGED diskVars

-----------------------------------------------------------------------------
(* stopForDisk and release: the distribution is stopped, or all of WSL is,  *)
(* and then its disk must come free.                                        *)

Stop(next_) ==
    /\ pc = "stop"
    /\ \/ /\ up' = IF "shutdown" \in option THEN {} ELSE up \ {"it"}
          /\ Goto(next_) /\ UNCHANGED <<fileVars, regVars, lock, stepVars>>
       \/ Fails("stop") /\ GiveUp

\* WaitForDisk: the disk comes free, or the wait runs out, at once where
\* another distribution keeps the VM up.
Wait(next_) ==
    /\ pc = "wait"
    /\ \/ lock = "free" /\ Goto(next_) /\ UNCHANGED <<diskVars, stepVars>>
       \/ lock = "held" /\ GiveUp

WorldStep ==
    \/ Use \/ Write \/ Exits \/ Release \/ Tidy \/ Unwind \/ Crash
=============================================================================
