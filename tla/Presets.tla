------------------------------- MODULE Presets -------------------------------
(***************************************************************************)
(* How the agent and the socket presets are wired into a distribution:     *)
(* `wslkit agent install` and `uninstall` (internal/agent/install), `sock  *)
(* enable` and `disable` (internal/sock).  A preset stands in four places: *)
(* the allow list of the host, the listeners of the guest agent, the       *)
(* script in /etc/profile.d, and the agent that runs.  A command changes   *)
(* them one after the other.  Any of its calls may fail, with nothing      *)
(* done, with a file cut short that it was writing in place, or with all   *)
(* done.  The daemon reads the allow list once, when it starts.            *)
(***************************************************************************)
EXTENDS Integers

CONSTANTS
    Distro,     \* the installed distributions
    Systemd,    \* those that run systemd
    Preset,     \* the presets (sock.All)
    Exporting,  \* those that set a variable (Env)
    Filtered,   \* those with a traffic filter
    Everywhere  \* bound: those enabled also where no systemd runs

ASSUME PresetsAssumption ==
    /\ Systemd \subseteq Distro /\ Exporting \subseteq Preset
    /\ Filtered \subseteq Preset

VARIABLES
    host,      \* host.json is absent, good, or cut short
    allow,     \* host.json: the targets the daemon may open
    filters,   \* host.json: those it filters
    opens,     \* the targets and filters the daemon has read, the last to start
    since,     \* history: what has been allowed since, and it has not read
    binary,    \* the distributions that have the agent
    config,    \* config[d]: agent.json can be read, and its listeners
    profile,   \* profile[d]: what the script exports for
    unit,      \* the distributions that start the agent by themselves
    serving,   \* serving[d]: the agent runs, and the listeners it read
    command,   \* the command that has done its first call, and what it does next
    spoiled,   \* history: where listeners changed and the script has not yet
    done       \* history: the enable or disable that succeeded just now

hostVars   == <<host, allow, filters>>
opensVars  == <<opens, since>>
distroVars == <<binary, config, profile, unit, serving>>
presetVars ==
    <<hostVars, opensVars, distroVars, command, spoiled, done>>

Listeners == [there : BOOLEAN, on : SUBSET Preset]
Allowance == [allow : SUBSET Preset, filters : SUBSET Filtered]
NoConfig  == [there |-> FALSE, on |-> {}]
Verb      == {"enable", "disable", "install", "uninstall"}
Step      ==
    {"listener", "profile", "restart", "config", "unit", "create", "remove"}
NoPreset  == "none"
Command   == [verb : Verb, distro : Distro, preset : Preset \cup {NoPreset},
              purge : BOOLEAN, next : Step]
Idle      == [verb |-> "none"]

PresetsInit ==
    /\ host = "absent" /\ allow = {} /\ filters = {}
    /\ opens = [allow |-> {}, filters |-> {}] /\ since = {} /\ binary = {}
    /\ config = [d \in Distro |-> NoConfig] /\ profile = [d \in Distro |-> {}]
    /\ unit = {} /\ serving = [d \in Distro |-> NoConfig]
    /\ command = Idle /\ spoiled = {} /\ done = Idle

-----------------------------------------------------------------------------
(* The commands.  Then(s) goes on with step s and Complete ends the command; *)
(* the call that did its work may report a failure all the same.             *)

At(s)    == command # Idle /\ command.next = s
Then(s)  == command' \in {[command EXCEPT !.next = s], Idle} /\ UNCHANGED done
Complete == command' = Idle /\ UNCHANGED done
Succeed  == command' = Idle /\ done' \in {command, Idle}

\* A command is given and does its first call.
Begins(verb, d, p, purge, s) ==
    /\ command = Idle /\ done' = Idle
    /\ command' \in {[verb |-> verb, distro |-> d, preset |-> p, purge |-> purge,
                      next |-> s], Idle}

\* A call fails with nothing done, or what it needs is missing.
Fail ==
    /\ command # Idle /\ command' = Idle
    /\ UNCHANGED <<hostVars, opensVars, distroVars, spoiled, done>>

Spoils(d) == spoiled' = spoiled \cup {d}

-----------------------------------------------------------------------------
(* sock.Enable and sock.Disable. *)

\* Mutant: the allow list is written anew.
EnableAlone(d, p) ==
    /\ Begins("enable", d, p, FALSE, "listener") /\ host # "cut"
    /\ host' = "good" /\ allow' = {p} /\ filters' = {p} \cap Filtered
    /\ since' = since \cup ({p} \ opens.allow)
    /\ UNCHANGED <<opens, distroVars, spoiled>>

\* What the preset bridges to is found, or no more is done.  A missing host.json
\* is an empty one; one that is no JSON stops every enable.
Enable(d, p) ==
    /\ Begins("enable", d, p, FALSE, "listener") /\ host # "cut"
    /\ host' = "good" /\ allow' = allow \cup {p}
    /\ filters' = filters \cup ({p} \cap Filtered)
    /\ since' = since \cup ({p} \ opens.allow)
    /\ UNCHANGED <<opens, distroVars, spoiled>>

\* The agent has to be installed, which agent.json tells.
AddListener ==
    /\ At("listener") /\ config[command.distro].there /\ Then("profile")
    /\ config' = [config EXCEPT ![command.distro].on = @ \cup {command.preset}]
    /\ Spoils(command.distro)
    /\ UNCHANGED <<hostVars, opensVars, binary, profile, unit, serving>>

Disable(d, p) ==
    /\ Begins("disable", d, p, FALSE, "profile") /\ p \in config[d].on
    /\ config' = [config EXCEPT ![d].on = @ \ {p}]
    /\ Spoils(d)
    /\ UNCHANGED <<hostVars, opensVars, binary, profile, unit, serving>>

Exports(d) == config[d].on \cap Exporting

\* profileBody, from the listeners; nothing to export removes the script.
WriteProfile ==
    /\ At("profile") /\ Then("restart")
    /\ spoiled' = spoiled \ {command.distro}
    /\ profile' = [profile EXCEPT ![command.distro] = Exports(command.distro)]
    /\ UNCHANGED <<hostVars, opensVars, binary, config, unit, serving>>

\* Mutant: the agent that runs is left as it is.
RestartNothing ==
    /\ At("restart") /\ command.distro \in Systemd \cap unit /\ Succeed
    /\ UNCHANGED <<hostVars, opensVars, distroVars, spoiled>>

\* What runs where the agent is started: none without the program, or with an
\* agent.json cut short; one without agent.json, which listens for nothing, is
\* as good as none.
AgentOf(d) == IF d \in binary THEN config[d] ELSE NoConfig
AgentStarts(d) == serving' = [serving EXCEPT ![d] = AgentOf(d)]

\* systemctl restart; there is no unit where the agent was uninstalled.
Restart ==
    /\ At("restart") /\ command.distro \in Systemd \cap unit /\ Succeed
    /\ AgentStarts(command.distro)
    /\ UNCHANGED <<hostVars, opensVars, binary, config, profile, unit, spoiled>>

-----------------------------------------------------------------------------
(* install.Install and install.Uninstall. *)

Install(d) ==
    /\ Begins("install", d, NoPreset, FALSE, "config")
    /\ binary' = binary \cup {d}
    /\ UNCHANGED <<hostVars, opensVars, config, profile, unit, serving, spoiled>>

\* What cannot be read, or is not JSON, is replaced by the default.
WriteConfig ==
    /\ At("config") /\ Then("unit")
    /\ \/ /\ config' = [config EXCEPT ![command.distro].there = TRUE]
          /\ UNCHANGED spoiled
       \/ /\ config' = [config EXCEPT ![command.distro] = [there |-> TRUE, on |-> {}]]
          /\ Spoils(command.distro)
    /\ UNCHANGED <<hostVars, opensVars, binary, profile, unit, serving>>

\* One that runs already is not restarted.
RegisterUnit ==
    /\ At("unit") /\ command.distro \in Systemd /\ Then("create")
    /\ unit' = unit \cup {command.distro}
    /\ IF serving[command.distro].there THEN UNCHANGED serving
       ELSE AgentStarts(command.distro)
    /\ UNCHANGED <<hostVars, opensVars, binary, config, profile, spoiled>>

\* Without systemd the agent is installed, and not started.
NoUnit ==
    /\ At("unit") /\ command.distro \notin Systemd /\ Complete
    /\ UNCHANGED <<hostVars, opensVars, distroVars, spoiled>>

\* There is a host.json then, at least an empty one.
CreateHost ==
    /\ At("create") /\ Complete
    /\ host' = IF host = "absent" THEN "good" ELSE host
    /\ UNCHANGED <<allow, filters, opensVars, distroVars, spoiled>>

\* What systemctl says is not looked at: the unit may stay, and the agent run on.
Uninstall(d, purge) ==
    /\ Begins("uninstall", d, NoPreset, purge, "remove")
    /\ unit' = unit \/ unit' = unit \ {d}
    /\ \/ UNCHANGED serving
       \/ d \in Systemd /\ serving' = [serving EXCEPT ![d] = NoConfig]
    /\ UNCHANGED <<hostVars, opensVars, binary, config, profile, spoiled>>

\* The script in profile.d stays, purged or not.
RemoveFiles ==
    /\ At("remove") /\ Complete
    /\ binary' = binary \ {command.distro}
    /\ IF command.purge
       THEN /\ config' = [config EXCEPT ![command.distro] = NoConfig]
            /\ Spoils(command.distro)
       ELSE UNCHANGED <<config, spoiled>>
    /\ UNCHANGED <<hostVars, opensVars, profile, unit, serving>>

-----------------------------------------------------------------------------
(* What a call leaves that failed on its way: files are truncated, then      *)
(* written.                                                                  *)

Aborts(s) == At(s) /\ command' = Idle /\ UNCHANGED <<opensVars, done>>

\* The first call of a command, which is over with it.
AtOnce == command = Idle /\ done' = Idle /\ UNCHANGED <<command, opensVars>>

HostIsCut ==
    /\ \/ host # "cut" /\ AtOnce
       \/ host = "absent" /\ Aborts("create")
    /\ host' = "cut" /\ allow' = {} /\ filters' = {}
    /\ UNCHANGED <<distroVars, spoiled>>

ConfigIsCut(d) ==
    /\ \/ config[d].on # {} /\ AtOnce
       \/ config[d].there /\ Aborts("listener") /\ command.distro = d
       \/ Aborts("config") /\ command.distro = d
    /\ config' = [config EXCEPT ![d] = NoConfig]
    /\ Spoils(d)
    /\ UNCHANGED <<hostVars, binary, profile, unit, serving>>

ProfileIsCut ==
    /\ Aborts("profile")
    /\ \E s \in SUBSET Exports(command.distro) :
           profile' = [profile EXCEPT ![command.distro] = s]
    /\ UNCHANGED <<hostVars, binary, config, unit, serving, spoiled>>

\* systemctl has stopped the agent and not started it.
RestartIsCut ==
    /\ Aborts("restart") /\ command.distro \in Systemd \cap unit
    /\ serving' = [serving EXCEPT ![command.distro] = NoConfig]
    /\ UNCHANGED <<hostVars, binary, config, profile, unit, spoiled>>

UnitIsCut ==
    /\ Aborts("unit") /\ command.distro \in Systemd
    /\ unit' = unit \ {command.distro}
    /\ UNCHANGED <<hostVars, binary, config, profile, serving, spoiled>>

RemovalIsCut ==
    /\ Aborts("remove")
    /\ binary' = binary \ {command.distro}
    /\ UNCHANGED <<hostVars, config, profile, unit, serving, spoiled>>

IsCut ==
    \/ HostIsCut \/ ProfileIsCut \/ RestartIsCut \/ UnitIsCut \/ RemovalIsCut
    \/ \E d \in Distro : ConfigIsCut(d)

-----------------------------------------------------------------------------
\* A distribution restarts, whatever runs in it.
DistroRestarts(d) ==
    /\ serving' = [serving EXCEPT ![d] = IF d \in unit THEN AgentOf(d) ELSE NoConfig]
    /\ UNCHANGED <<hostVars, opensVars, binary, config, profile, unit, command,
                   spoiled, done>>

\* agentServe reads host.json; a missing one is empty, one cut short stops it.
DaemonStarts ==
    /\ host # "cut" /\ since' = {} /\ done' = Idle
    /\ opens' = [allow |-> allow, filters |-> filters]
    /\ UNCHANGED <<hostVars, distroVars, command, spoiled>>

PresetsNext ==
    \/ Fail \/ IsCut \/ AddListener \/ WriteProfile \/ Restart \/ WriteConfig
    \/ RegisterUnit \/ NoUnit \/ CreateHost \/ RemoveFiles \/ DaemonStarts
    \/ \E d \in Distro :
           \/ DistroRestarts(d) \/ Install(d) \/ \E b \in BOOLEAN : Uninstall(d, b)
           \/ \E p \in Preset : (d \in Systemd \/ p \in Everywhere) /\ Enable(d, p)
           \/ \E p \in Preset : Disable(d, p)

-----------------------------------------------------------------------------
(* Properties. *)

PresetsTypeOK ==
    /\ host \in {"absent", "good", "cut"}
    /\ allow \subseteq Preset /\ filters \subseteq Filtered
    /\ opens \in Allowance /\ since \subseteq Preset
    /\ binary \subseteq Distro /\ unit \subseteq Distro
    /\ config \in [Distro -> Listeners] /\ serving \in [Distro -> Listeners]
    /\ profile \in [Distro -> SUBSET Exporting] /\ spoiled \subseteq Distro
    /\ command \in Command \cup {Idle} /\ done \in Command \cup {Idle}

\* What some guest listens for, by its file or as its agent has read it.
Listened(d) == config[d].on \cup serving[d].on

\* What a guest listens for is in host.json: the allow list is extended first,
\* and whatever command fails in between, of whatever distribution, takes
\* nothing off it, but that a save may cut the file short, after which no daemon
\* starts.  So every daemon opens, through its filter, what guests listen for,
\* except for what was enabled after it read the file: that it refuses until it
\* is started anew (sock.Enable, Disable, Install, agentServe).
ListenersAreAllowed ==
    \A d \in Distro :
        /\ host # "cut" =>
               Listened(d) \subseteq allow /\ Listened(d) \cap Filtered \subseteq filters
        /\ Listened(d) \subseteq opens.allow \cup since
        /\ Listened(d) \cap Filtered \subseteq opens.filters \cup since

\* The script exports exactly what the guest listens for, so that "disable
\* cannot leave a stale SSH_AUTH_SOCK behind" (docs/decisions/0010:20), until a
\* command fails between the two or writes one of them by half, an install
\* cannot read the listeners it is to keep, or an uninstall purges them; the
\* next enable or disable repairs it (writeProfile).
ProfileFollowsListeners ==
    \A d \in Distro : d \notin spoiled => profile[d] = Exports(d)

\* An enable that reports success has wired the preset, and a disable has
\* unwired it, up to the agent that runs, whatever failed before; systemctl
\* does not tell that there is no agent to run, where an uninstall left its unit
\* behind (sock.Enable, Disable, restartAgent).
SuccessIsWired ==
    LET d == done.distro
    IN  done # Idle =>
        /\ done.verb = "enable" =>
               /\ done.preset \in allow \cap config[d].on
               /\ d \in binary => done.preset \in serving[d].on
        /\ done.verb = "disable" => done.preset \notin Listened(d) \cup profile[d]

\* The four places a preset is written to agree: nobody listens for what is
\* refused, a guest exports what it listens for, and a success is all of it
\* (sock.Enable, Disable).
WiringAgrees == ListenersAreAllowed /\ ProfileFollowsListeners /\ SuccessIsWired
=============================================================================
