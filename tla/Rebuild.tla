------------------------------ MODULE Rebuild ------------------------------
(***************************************************************************)
(* internal/disk/rebuild.go and compact.go: rebuild exports the            *)
(* distribution to an archive, unregisters it, which deletes its disk, and *)
(* imports it again; compact stops it, shrinks its disk in place and, with *)
(* --restart, starts it again.                                             *)
(***************************************************************************)
EXTENDS CopyWorld

\* PlanRebuild; the archive is named after this second.
RebuildBegin(o) ==
    /\ live # Nothing /\ archive = Nothing /\ next <= MaxGuid
    /\ o \subseteq {"keep", "restart"}
    /\ Begin("rebuild", IF Running THEN "terminate" ELSE "export", from, to, o)

RebuildStop ==
    /\ cmd = "rebuild" /\ pc = "terminate"
    /\ \/ /\ up' = up \ {"it"} /\ Goto("export")
          /\ UNCHANGED <<fileVars, regVars, lock, stepVars>>
       \/ Fails("stop") /\ GiveUp

\* A disk that does not boot cannot be exported.
Export ==
    /\ cmd = "rebuild" /\ pc = "export"
    /\ \/ /\ live \in Version /\ archive' = Part
          /\ Goto("exporting") /\ UNCHANGED stepVars
       \/ /\ Fails("export") \/ live \notin Version
          /\ Finish("failed") /\ UNCHANGED archive
    /\ UNCHANGED <<live, aside, store, regVars, vmVars>>

\* Mutant: the export is taken for done when wsl.exe was killed.
ExportedUnchecked ==
    /\ cmd = "rebuild" /\ pc = "exporting"
    /\ archive' \in {live, Part} /\ Goto("unregister")
    /\ UNCHANGED <<live, aside, store, regVars, vmVars, stepVars>>

Exported ==
    /\ cmd = "rebuild" /\ pc = "exporting"
    /\ \/ archive' = live /\ Goto("unregister") /\ UNCHANGED stepVars
       \/ /\ Fails("export") /\ Finish("failed")
          /\ archive' \in {Nothing} \cup (IF Fails("remove") THEN {Part} ELSE {})
    /\ UNCHANGED <<live, aside, store, regVars, vmVars>>

\* WSL deletes the disk with the registration, at once or after wsl.exe has
\* been killed.
Unregister ==
    /\ cmd = "rebuild" /\ pc = "unregister"
    /\ \/ /\ reg' = 0 /\ live' = Nothing /\ up' = up \ {"it"} /\ lock' = "free"
          /\ \/ Goto("import") /\ UNCHANGED stepVars
             \/ Fails("unregister late") /\ FinishWith("kept", Nothing)
       \/ /\ Fails("unregister") /\ Finish("kept")
          /\ UNCHANGED <<reg, live, vmVars>>
    /\ UNCHANGED <<aside, archive, store, next, settings>>

\* Mutant: the new registration has the GUID that the next one gets.
ImportEarly ==
    /\ cmd = "rebuild" /\ pc = "import"
    /\ reg' = next /\ settings' = "fresh" /\ live' = archive
    /\ Goto("settings") /\ UNCHANGED <<next, stepVars>>
    /\ UNCHANGED <<aside, archive, store, vmVars>>

Import ==
    /\ cmd = "rebuild" /\ pc = "import"
    /\ \/ /\ reg' = next /\ next' = next + 1 /\ settings' = "fresh"
          /\ live' = archive
          /\ \/ Goto("settings") /\ UNCHANGED stepVars
             \/ Fails("import late") /\ FinishWith("kept", archive)
       \/ /\ Fails("import") /\ FinishWith("kept", Nothing)
          /\ live' \in {Nothing, Part} /\ UNCHANGED <<reg, next, settings>>
    /\ UNCHANGED <<aside, archive, store, vmVars>>

\* Mutant: the settings are read from the new registration.
RestoreSettingsFresh ==
    /\ cmd = "rebuild" /\ pc = "settings"
    /\ \/ UNCHANGED settings /\ Goto("start") /\ UNCHANGED stepVars
       \/ Fails("registry") /\ Finish("kept") /\ UNCHANGED settings
    /\ UNCHANGED <<fileVars, reg, next, vmVars>>

RestoreSettings ==
    /\ cmd = "rebuild" /\ pc = "settings"
    /\ \/ settings' = man /\ Goto("start") /\ UNCHANGED stepVars
       \/ Fails("registry") /\ Finish("kept") /\ UNCHANGED settings
    /\ UNCHANGED <<fileVars, reg, next, vmVars>>

RebuildStart ==
    /\ cmd = "rebuild" /\ pc = "start"
    /\ \/ /\ live \in Version /\ up' = up \cup {"it"} /\ lock' = "held"
          /\ Goto("delete") /\ UNCHANGED stepVars
       \/ /\ Fails("start") \/ live \notin Version
          /\ lock' = "held" /\ Finish("kept") /\ UNCHANGED up
    /\ UNCHANGED <<fileVars, regVars>>

\* A distribution that was up is to be up again.
Promised == "restart" \in option /\ "it" \in was

\* The archive goes last, and the distribution is stopped unless --restart.
DeleteArchive ==
    /\ cmd = "rebuild" /\ pc = "delete"
    /\ \/ /\ archive' = IF "keep" \in option THEN archive ELSE Nothing
          /\ up' \in (IF Promised THEN {} ELSE {up \ {"it"}})
                    \cup (IF Promised \/ Fails("stop") THEN {up} ELSE {})
          /\ Finish("done")
       \/ /\ "keep" \notin option /\ Fails("remove") /\ Finish("kept")
          /\ UNCHANGED <<archive, up>>
    /\ UNCHANGED <<live, aside, store, regVars, lock>>

-----------------------------------------------------------------------------

CompactBegin(o, first) ==
    /\ live # Nothing /\ o \subseteq {"restart"}
    /\ Begin("compact", first, from, to, o)

\* fstrim starts the distribution, which is then one that was up.
Trim ==
    /\ cmd = "compact" /\ pc = "trim"
    /\ \/ /\ live \in Version /\ up' = up \cup {"it"} /\ lock' = "held"
          /\ was' = {d \in {"it"} : "restart" \in option} /\ Goto("release")
          /\ UNCHANGED <<from, to, option, man, undo, rollback>>
       \/ /\ Fails("start") \/ live \notin Version
          /\ Goto("failing") /\ UNCHANGED <<vmVars, stepVars>>
    /\ UNCHANGED <<fileVars, regVars>>

\* release, with --shutdown or without.
CompactStop ==
    /\ cmd = "compact" /\ pc = "release"
    /\ \/ up' \in {{}, up \ {"it"}} /\ Goto("locked")
       \/ Fails("stop") /\ Goto("failing") /\ UNCHANGED up
    /\ UNCHANGED <<fileVars, regVars, lock, stepVars>>

\* WaitForDisk, and the disk compacted in place.
CompactDisk ==
    /\ cmd = "compact" /\ pc = "locked"
    /\ \/ lock = "free" /\ Goto("restart")
       \/ (lock = "held" \/ Fails("compact")) /\ Goto("failing")
    /\ UNCHANGED <<diskVars, stepVars>>

\* The deferred restart, on the failure path too.
CompactRestart ==
    /\ cmd = "compact" /\ pc \in {"restart", "failing"}
    /\ \/ /\ Promised /\ live \in Version
          /\ up' = up \cup {"it"} /\ lock' = "held"
          /\ Finish(IF pc = "restart" THEN "done" ELSE "failed")
       \/ /\ Promised => Fails("start") \/ live \notin Version
          /\ Finish(IF pc = "restart" /\ ~Promised THEN "done" ELSE "failed")
          /\ UNCHANGED vmVars
    /\ UNCHANGED <<fileVars, regVars>>

RebuildStep ==
    \/ \E o \in SUBSET Option : RebuildBegin(o)
    \/ RebuildStop \/ Export \/ Exported \/ Unregister \/ Import
    \/ RestoreSettings \/ RebuildStart \/ DeleteArchive
    \/ \E o \in SUBSET Option, p \in {"trim", "release"} : CompactBegin(o, p)
    \/ Trim \/ CompactStop \/ CompactDisk \/ CompactRestart
=============================================================================
