------------------------------ MODULE Automount ------------------------------
(***************************************************************************)
(* `wslkit disk config` and `disk automount` (internal/disk/config.go,     *)
(* config_windows.go, automount.go, cli/disk_config_windows.go, disk_      *)
(* automount_windows.go): one settings file, which every command reads     *)
(* whole and writes whole, and the disks in its table, which a logon task  *)
(* or a command attaches to the virtual machine.                           *)
(***************************************************************************)
EXTENDS Integers, FiniteSets, TLC

CONSTANTS
    Vhd,          \* disks
    Window,       \* terminals
    MaxRuns       \* bound: commands, runs of the task, and edits by hand

ASSUME AutomountAssumption == MaxRuns \in Nat

VARIABLES
    toml,         \* config.toml
    there,        \* the disks that are there
    owned,        \* those that are a distribution's
    attached,     \* those the virtual machine has, and
    opened,       \* those of them it has as a distribution's
    task,         \* whether the logon task is installed
    window,       \* the command of each terminal, and of the task
    runs,         \* how many were started
    told,         \* history: the table and the setting that the commands and
                  \* the user's edits come to
    crossed,      \* history: somebody wrote the file that another was at
    unvetted      \* history: disks that are a distribution's and that nothing
                  \* has looked at since they were

automountVars ==
    <<toml, there, owned, attached, opened, task, window, runs, told, crossed, unvetted>>
extraDiskVars == <<there, owned, attached, opened, unvetted>>

\* The file as ParseConfig sees it: the table, the settings, what a later
\* version or the user has added to it, and whether it can be parsed.
Text(t, s, extra) == [parses |-> TRUE, table |-> t, setting |-> s, extra |-> extra]
Default == Text({}, 0, FALSE)               \* or no file, which is the defaults
Garbled == [parses |-> FALSE]
Told(c) == [table |-> c.table, setting |-> c.setting]
Logon   == "logon"
Closed  == [state |-> "closed"]

\* The disks that are in the table, or that some command takes to be.
Table  == IF toml.parses THEN toml.table ELSE {}
Listed == Table \cup UNION {window[w].config.table :
              w \in {x \in Window \cup {Logon} : window[x] # Closed}}

AutomountInit ==
    /\ toml = Text({}, 0, TRUE)
    /\ there = Vhd /\ owned = {} /\ attached = {} /\ opened = {}
    /\ task = FALSE /\ window = [w \in Window \cup {Logon} |-> Closed]
    /\ runs = 0 /\ told = Told(toml) /\ crossed = FALSE /\ unvetted = {}

-----------------------------------------------------------------------------
(* Windows, WSL and the user. *)

\* A drive that comes and goes.
Unplugged(v) ==
    /\ v \notin attached
    /\ there' = IF v \in there THEN there \ {v} ELSE there \cup {v}
    /\ UNCHANGED <<owned, attached, opened, unvetted>>

\* import-in-place of a disk that may be in the table.
Registered(v) ==
    /\ v \in there \ (owned \cup attached)
    /\ owned' = owned \cup {v} /\ unvetted' = unvetted \cup ({v} \cap Listed)
    /\ UNCHANGED <<there, attached, opened>>

\* A disk is opened by one machine, once.
DistroStarts(v) ==
    /\ v \in (owned \cap there) \ attached
    /\ attached' = attached \cup {v} /\ opened' = opened \cup {v}
    /\ UNCHANGED <<there, owned, unvetted>>

VMShutsDown ==
    /\ attached # {} /\ attached' = {} /\ opened' = {}
    /\ UNCHANGED <<there, owned, unvetted>>

Surroundings ==
    /\ VMShutsDown \/ \E v \in Vhd : Unplugged(v) \/ Registered(v) \/ DistroStarts(v)
    /\ UNCHANGED <<toml, task, window, runs, told, crossed>>

-----------------------------------------------------------------------------
(* The settings file. *)

\* Mutant: RenderConfig has the settings, and not the table.
RenderSettings(c) == Text({}, c.setting, FALSE)

\* The file is made anew from what was parsed: what this version does not know
\* is gone, comments too.
RenderConfig(c) == Text(c.table, c.setting, FALSE)

\* An editor reads the file, too, and writes it when the user is done: with a
\* mistake, a comment, or an entry that no command has looked at.
EditedByHand(w) ==
    LET c     == window[w].config
        edits == {[c EXCEPT !.extra = TRUE]} \cup {[c EXCEPT !.table = @ \cup {v}] : v \in Vhd}
    IN
    /\ window[w].state = "edits"
    /\ \/ toml' = Garbled /\ UNCHANGED <<told, unvetted>>
       \/ /\ toml' \in edits /\ told' = Told(toml')
          /\ unvetted' = unvetted \cup ((toml'.table \ c.table) \cap owned)
    /\ crossed' = (crossed \/ \E x \in Window \ {w} : window[x] # Closed)
    /\ window' = [window EXCEPT ![w] = Closed]
    /\ UNCHANGED <<there, owned, attached, opened, task, runs>>

\* LoadConfig.  Commands that cannot read the file stop, and `config edit` opens
\* the defaults if there is no file, or else what is there.
LoadConfig(w, verb, v) ==
    /\ window[w] = Closed /\ runs < MaxRuns /\ runs' = runs + 1
    /\ toml.parses
    /\ window' = [window EXCEPT ![w] =
           [state |-> "loaded", verb |-> verb, disk |-> v, config |-> toml]]
    /\ UNCHANGED <<toml, extraDiskVars, task, told, crossed>>

OpenEditor(w) ==
    /\ window[w] = Closed /\ runs < MaxRuns /\ runs' = runs + 1
    /\ window' = [window EXCEPT ![w] =
           [state |-> "edits", config |-> IF toml.parses THEN toml ELSE Default]]
    /\ UNCHANGED <<toml, extraDiskVars, task, told, crossed>>

\* Mutant: any .vhdx is taken.
ValidateAnything(v, c) == v \notin c.table

\* A disk is added once, and never a distribution's.
ValidateAutomount(v, c) == v \notin c.table /\ v \notin owned

SetConfigValue(c)        == [c EXCEPT !.setting = 1 - @]
AppendAutomount(c, v)    == [c EXCEPT !.table = @ \cup {v}]
RemoveAutomount(c, v)    == [c EXCEPT !.table = @ \ {v}]

Does(verb, v, c) ==
    CASE verb = "set" -> SetConfigValue(c)
      [] verb = "add" -> AppendAutomount(c, v)
      [] verb = "rm"  -> RemoveAutomount(c, v)

\* What is refused: rm of a disk that is not in the table, too.
Allowed(x) ==
    /\ x.verb = "add" => ValidateAutomount(x.disk, x.config)
    /\ x.verb = "rm"  => x.disk \in x.config.table

\* The list of distributions is read after the settings.
Settles(w) ==
    LET x == window[w] IN
    /\ x.state = "loaded" /\ x.verb # "now" /\ Allowed(x)
    /\ window' = [window EXCEPT ![w] =
           [x EXCEPT !.state = "settled", !.config = Does(x.verb, x.disk, @)]]
    /\ UNCHANGED <<toml, extraDiskVars, task, runs, told, crossed>>

\* os.WriteFile empties the file, and then fills it.
Truncates(w) ==
    /\ window[w].state = "settled"
    /\ toml' = Default
    /\ window' = [window EXCEPT ![w].state = "cut"]
    /\ crossed' = (crossed \/ \E y \in Window \ {w} : window[y] # Closed)
    /\ UNCHANGED <<extraDiskVars, task, runs, told>>

SaveConfig(w) ==
    /\ window[w].state = "cut"
    /\ toml' = RenderConfig(window[w].config)
    /\ told' = Does(window[w].verb, window[w].disk, told)
    /\ crossed' = (crossed \/ \E y \in (Window \cup {Logon}) \ {w} : window[y] # Closed)
    /\ window' = [window EXCEPT ![w] = Closed]
    /\ UNCHANGED <<extraDiskVars, task, runs>>

-----------------------------------------------------------------------------
(* Attaching. *)

\* The task runs what `automount now` runs, elevated, a while after the logon.
LogsOn ==
    /\ task /\ window[Logon] = Closed /\ runs < MaxRuns /\ runs' = runs + 1
    /\ window' = [window EXCEPT ![Logon] =
           IF toml.parses THEN [state |-> "loaded", verb |-> "now", config |-> toml] ELSE Closed]
    /\ UNCHANGED <<toml, extraDiskVars, task, told, crossed>>

\* ApplyAutomount: whether each disk is there and not held is asked right before
\* it is attached; those that fail do not keep the others.
ApplyAutomount(w) ==
    LET x == window[w] IN
    /\ x.state = "loaded" /\ x.verb = "now"
    /\ IF x.config.table = {} THEN
           /\ window' = [window EXCEPT ![w] = Closed] /\ UNCHANGED extraDiskVars
       ELSE \E v \in x.config.table :
           /\ window' = [window EXCEPT ![w] = [x EXCEPT !.config.table = @ \ {v}]]
           /\ IF v \in there \ attached
              THEN attached' \in {attached, attached \cup {v}} ELSE UNCHANGED attached
           /\ UNCHANGED <<there, owned, opened, unvetted>>
    /\ UNCHANGED <<toml, task, runs, told, crossed>>

\* With --force, from an elevated terminal; Register replaces a task.
InstallTask   == ~task /\ task' = TRUE
UninstallTask == task /\ task' = FALSE

\* A command that refuses, or that cannot go on.
CommandEnds(w) ==
    /\ window[w] # Closed /\ window[w].state # "cut"
    /\ window' = [window EXCEPT ![w] = Closed]
    /\ UNCHANGED <<toml, extraDiskVars, task, runs, told, crossed>>

\* The terminal is closed between the two halves of a write.
CutShort(w) ==
    /\ window[w].state = "cut"
    /\ window' = [window EXCEPT ![w] = Closed]
    /\ crossed' = TRUE
    /\ UNCHANGED <<toml, extraDiskVars, task, runs, told>>

AutomountNext ==
    \/ Surroundings \/ LogsOn
    \/ (InstallTask \/ UninstallTask) /\ UNCHANGED <<toml, extraDiskVars, window, runs, told, crossed>>
    \/ \E w \in Window :
        \/ \E verb \in {"set", "now"} : LoadConfig(w, verb, CHOOSE v \in Vhd : TRUE)
        \/ \E verb \in {"add", "rm"}, v \in Vhd : LoadConfig(w, verb, v)
        \/ OpenEditor(w) \/ EditedByHand(w) \/ Settles(w) \/ Truncates(w) \/ SaveConfig(w)
    \/ \E w \in Window \cup {Logon} : ApplyAutomount(w) \/ CommandEnds(w) \/ CutShort(w)

-----------------------------------------------------------------------------
(* Properties. *)

AutomountTypeOK ==
    /\ there \subseteq Vhd /\ owned \subseteq Vhd /\ attached \subseteq there
    /\ opened \subseteq attached \cap owned /\ unvetted \subseteq owned
    /\ told.table \subseteq Vhd /\ told.setting \in 0..1
    /\ task \in BOOLEAN /\ crossed \in BOOLEAN /\ runs \in 0..MaxRuns

\* The file has the table and the setting that the commands and the user's
\* edits come to, whatever else is done to it; but where two were at the file
\* at the same time, or a write was cut short, after which it is read as one
\* without a table.
NothingDropsOut ==
    ~crossed /\ toml.parses /\ (\A w \in Window : window[w] # Closed => window[w].state # "cut")
        => Told(toml) = told

\* No distribution's disk is attached as an extra one, but where the disk became
\* a distribution's after it was put in the table, which nothing looks at again,
\* and where the user has put it there by hand.
OneWriter == attached \cap owned \subseteq opened \cup unvetted
=============================================================================
