------------------------------- MODULE Changes -------------------------------
(***************************************************************************)
(* The commands of wslkit that change something and that share nothing     *)
(* with each other, in one specification for checking.  part tells which   *)
(* of them are given.                                                      *)
(***************************************************************************)
EXTENDS MCDisk, Settings, Automount, Fix, Limit, ProxyFiles, ProxyServe

VARIABLE part

diskOpsVars == vars
changesVars == <<part, diskOpsVars, settingsVars, automountVars, fixVars, limitVars,
                 proxyVars, serveVars>>

Parts == {"disk", "settings", "automount", "fix", "limit", "proxy apply", "proxy serve"}

\* The parts that are not given are in one state of their own.
ChangesInit ==
    /\ part \in Parts
    /\ Init /\ SettingsInit /\ AutomountInit /\ FixInit /\ LimitInit /\ FilesInit /\ ServeInit
    /\ part # "disk"  => world = TrashWorld /\ from = home
    /\ part # "fix"   => excluded = {}
    /\ part # "limit" => layout = "inside"
    /\ part # "proxy apply" => content = Bare
    /\ part # "proxy serve" => config = "script"

ChangesNext ==
    /\ UNCHANGED part
    /\ \/ /\ part = "disk" /\ Next
          /\ UNCHANGED <<settingsVars, automountVars, fixVars, limitVars, proxyVars, serveVars>>
       \/ /\ part = "settings" /\ SettingsNext
          /\ UNCHANGED <<diskOpsVars, automountVars, fixVars, limitVars, proxyVars, serveVars>>
       \/ /\ part = "automount" /\ AutomountNext
          /\ UNCHANGED <<diskOpsVars, settingsVars, fixVars, limitVars, proxyVars, serveVars>>
       \/ /\ part = "fix" /\ FixNext
          /\ UNCHANGED <<diskOpsVars, settingsVars, automountVars, limitVars, proxyVars, serveVars>>
       \/ /\ part = "limit" /\ LimitNext
          /\ UNCHANGED <<diskOpsVars, settingsVars, automountVars, fixVars, proxyVars, serveVars>>
       \/ /\ part = "proxy apply" /\ FilesNext
          /\ UNCHANGED <<diskOpsVars, settingsVars, automountVars, fixVars, limitVars, serveVars>>
       \/ /\ part = "proxy serve" /\ ServeNext
          /\ UNCHANGED <<diskOpsVars, settingsVars, automountVars, fixVars, limitVars, proxyVars>>

ChangesSpec == ChangesInit /\ [][ChangesNext]_changesVars

\* Every variable of the parts keeps its type.
ChangesTypeOK ==
    /\ TypeOK /\ SettingsTypeOK /\ AutomountTypeOK /\ FixTypeOK /\ LimitTypeOK /\ FilesTypeOK /\ ServeTypeOK

\* What the user has set is kept: in the registrations, and what undo puts back
\* of them (PlanRename, ApplyFlags, journalRegistry), and in the settings file
\* (RenderConfig), which attaches no distribution's disk (ValidateAutomount).
SettingsAreKept == RegistryIsKept /\ NothingDropsOut /\ OneWriter
=============================================================================
