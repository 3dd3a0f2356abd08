------------------------------- MODULE Collect -------------------------------
(***************************************************************************)
(* internal/env/collect: `wslkit doctor` asks every collector at the same  *)
(* time, each under a deadline, and each writes its own fields of the      *)
(* snapshot.  A collector that misses its deadline is abandoned: the       *)
(* probes run without it, and it may write its fields while they do.  The  *)
(* collector of the distributions also reads files inside those that run.  *)
(* All collectors but one have answered when the model starts.             *)
(***************************************************************************)
EXTENDS Integers, Sequences, FiniteSets

CONSTANTS
    Guest,       \* the registered distributions
    MaxMoves     \* bound: distributions the user stops while doctor asks

\* Why a field has no value.  Nobody wrote a field that is Zero, and its error
\* kind says that nothing went wrong: OK() is true of it.
Zero      == "zero"
Absent    == "absent"
Elevation == "needs elevation"
Failed    == "failed"
Stopped   == "stopped"
Unread    == {Zero, Absent, Elevation, Failed, Stopped}
OK(v)        == v \notin Unread \ {Zero}
Collected(v) == v # Zero

\* A collector reads one thing after another.  A read that fails leaves one of
\* the kinds in the fields it writes, and may be the end of the collector.
Read(f, kinds)      == [read |-> f, writes |-> {f}, fails |-> kinds, ends |-> FALSE]
Must(f, kinds)      == [read |-> f, writes |-> {f}, fails |-> kinds, ends |-> TRUE]
Query(what, fields, kinds) ==
    [read |-> what, writes |-> fields, fails |-> kinds, ends |-> TRUE]

Refused == {Failed, Elevation}    \* a key or file that is there

\* A marker that cannot be opened marks nothing.
OperatingSystem == <<Must("build", Refused), Read("pending", {"no"})>>

\* A memory size that is no number is not written down.
WMISystem == <<Query("system", {"hypervisor", "memory"}, {Failed}),
               Read("hypervisor", {Failed}), Read("memory", {Zero})>>

\* A list that is still not complete when asked for again is taken as it is.
OptionalFeatures == <<Must("features", {Failed, "partial"})>>
ServiceManager   == <<Must("services", Refused)>>

Runtime == <<Read("version", Refused), Read("inbox", Refused),
             Read("com", Refused), Read("latest", {Failed})>>

ConfigFile == <<Read("wslconfig", Refused)>>

\* A Defender that cannot be asked is one that is not there.
DefenderStatus == <<Must("defender", {Absent}), Read("exclusions", Refused)>>

\* A channel that refuses is a quiet one, if another has something to say.
EventLogs  == <<Must("events", {Failed, Elevation, "quiet"})>>
Processes  == <<Must("vmmem", Refused)>>
PluginKeys == <<Must("plugins", Refused)>>
NetworkKey == <<Must("ipv6", Refused)>>
AdapterList == <<Must("adapters", Refused)>>

\* A class that cannot be queried in time has failed; else it is not there.
FirewallClasses == <<Must("firewall", {Failed, "none"})>>
PortPools   == <<Read("tcp", {Failed}), Read("udp", {Failed})>>

\* Nobody asks for updates unless .wslconfig can be read and says mirrored.
Updates     == <<Must("hotfixes", {Failed, Absent})>>
Policies    == <<Must("policy", Refused)>>
AgentStatus == <<Must("agent", Refused)>>
ContainerStore == <<Must("wslc", Refused)>>

Steps == [
    os |-> OperatingSystem, wmi_system |-> WMISystem, features |-> OptionalFeatures,
    services |-> ServiceManager, runtime |-> Runtime, distros |-> << >>,
    config |-> ConfigFile, defender |-> DefenderStatus, events |-> EventLogs,
    procs |-> Processes, plugins |-> PluginKeys, network_reg |-> NetworkKey,
    adapters |-> AdapterList, firewall |-> FirewallClasses, ports |-> PortPools,
    hotfixes |-> Updates, policy |-> Policies, agent |-> AgentStatus,
    wslc |-> ContainerStore]

Collector == DOMAIN Steps
Owned(c)  == IF c = "distros" THEN {"vm", "distros"}
             ELSE UNION {Steps[c][i].writes : i \in DOMAIN Steps[c]}
Field     == UNION {Owned(c) : c \in Collector}

\* What may go wrong in a collector.
Faults(c) ==
    IF c = "distros" THEN
         {[read |-> x, why |-> w] : x \in {"distros", "vhd", "conf"}, w \in Refused}
             \cup {[read |-> x, why |-> Failed] : x \in {"ext4", "free"}}
    ELSE UNION {{[read |-> Steps[c][i].read, why |-> w] : w \in Steps[c][i].fails}
                    : i \in DOMAIN Steps[c]}
NoFault == [read |-> "nothing", why |-> Zero]

\* What is read inside a distribution, while it runs, and outside of it.
Inside  == {"conf", "zone", "watch", "systemd"}
Outside == {"vhd", "ext4", "free", "owner", "row", "state"}
Detail  == Inside \cup Outside

VARIABLES
    fact,      \* what is true of the machine, for each field
    trait,     \* and of each distribution, for each detail
    running,   \* the distributions that run
    slow,      \* the collector that has not answered
    odd,       \* the field or detail that cannot be read, if any, and why
    stage,     \* asking, answered, panicked, abandoned, or late: answered since
    at,        \* what it does next
    env,       \* Env: the fields as the probes read them
    seen,      \* Env.Distros, the details of each
    from,      \* the distribution that was asked about the VM
    listed,    \* what wsl --list --running answered
    draft,     \* the details collected so far
    todo,      \* the reads inside that have not been made
    started,   \* history: the distributions the reads have started
    moves

machineVars   == <<fact, trait, slow, odd>>
draftVars   == <<listed, draft, todo>>
shotVars    == <<env, seen, from>>
collectVars == <<machineVars, running, stage, at, shotVars, draftVars, started, moves>>

Unlisted == [known |-> FALSE, up |-> {}]

\* A detail that is read inside says why when it was not read.
Refusal == IF ~listed.known THEN Failed ELSE Stopped
Asked(g)   == listed.known /\ g \in listed.up
Empty      == [g \in Guest |-> [x \in Detail |-> Zero]]

\* What everybody else found: the truth, as far as it may be read.
Answer(f) ==
    IF f = "vm" THEN IF fact["distros"] # "some" THEN Absent
                     ELSE IF running = {} THEN Stopped ELSE fact["vm"]
    ELSE fact[f]

\* What a read of a detail finds.
Look(g, x) == IF odd.read = x THEN odd.why ELSE trait[g][x]
Answers(g) == [x \in Detail |->
    IF x \in Inside /\ g \notin running THEN Stopped ELSE Look(g, x)]

CollectInit ==
    /\ stage = "asking" /\ at = 1 /\ moves = 0 /\ started = {}
    /\ env = [f \in Field |-> IF f \in Owned(slow) THEN Zero ELSE Answer(f)]
    /\ seen = IF slow # "distros" /\ fact["distros"] = "some"
              THEN [g \in Guest |-> Answers(g)] ELSE Empty
    /\ from = CHOOSE g \in Guest : running # {} => g \in running
    /\ listed = Unlisted /\ draft = Empty /\ todo = {}

-----------------------------------------------------------------------------
(* runAll: the deadline of each collector, and what it does with a panic.    *)

Working == stage \in {"asking", "abandoned"}
Ends    == stage' = IF stage = "asking" THEN "answered" ELSE "late"

\* The deadline passes.  Nobody waits for the collector, which goes on.
Abandon ==
    /\ stage = "asking" /\ stage' = "abandoned"
    /\ UNCHANGED <<machineVars, running, at, shotVars, draftVars, started, moves>>

\* A panic is recorded; the fields it did not come to are not written.
Panic ==
    /\ stage = "asking" /\ stage' = "panicked"
    /\ UNCHANGED <<machineVars, running, at, shotVars, draftVars, started, moves>>

-----------------------------------------------------------------------------
(* A collector that reads fields one after another.                          *)

\* What a read finds.  A read that the deadline cut off has failed.
Finds(step) ==
    (IF odd.read = step.read THEN {odd.why}
     ELSE IF step.read \in Field THEN {Answer(step.read)} ELSE {"rows"})
    \cup (IF stage = "abandoned" /\ Failed \in step.fails THEN {Failed} ELSE {})

ReadField ==
    LET step == Steps[slow][at] IN
    /\ Working /\ slow # "distros"
    /\ \E v \in Finds(step) :
        LET bad == v \in step.fails /\ v # Answer(step.read) IN
        /\ env' = [x \in Field |-> IF x \in step.writes /\ v # "rows" THEN v ELSE env[x]]
        /\ IF (step.ends /\ v \in step.fails) \/ at = Len(Steps[slow])
           THEN Ends /\ UNCHANGED at
           ELSE at' = at + 1 /\ UNCHANGED stage
    /\ UNCHANGED <<machineVars, running, seen, from, draftVars, started, moves>>

-----------------------------------------------------------------------------
(* collectDistros: the registry, the list of those that run, the wsl.conf    *)
(* files one by one, then four reads at the same time.                       *)

Registry ==
    /\ Working /\ slow = "distros" /\ at = 1
    /\ \E v \in {IF odd.read = "distros" THEN odd.why ELSE fact["distros"]} :
        IF v = "some" THEN at' = 2 /\ UNCHANGED <<env, stage>>
        ELSE /\ env' = [env EXCEPT !["distros"] = v,
                                   !["vm"] = IF v = Failed THEN @ ELSE Absent]
             /\ Ends /\ UNCHANGED at
    /\ UNCHANGED <<machineVars, running, seen, from, draftVars, started, moves>>

\* The answer may fail, or get lost on its way and look like an empty one.
\* What is outside is read for every distribution.
ListRunning ==
    /\ Working /\ slow = "distros" /\ at = 2 /\ at' = 3
    /\ listed' \in {[known |-> TRUE, up |-> {}], Unlisted}
            \cup (IF stage = "asking" THEN {[known |-> TRUE, up |-> running]} ELSE {})
    /\ draft' = [g \in Guest |-> [x \in Detail |->
                    IF x \in Outside THEN Look(g, x) ELSE Zero]]
    /\ todo' = {<<"conf", g>> : g \in Guest}
    /\ UNCHANGED <<machineVars, running, stage, shotVars, started, moves>>

\* A read inside starts a distribution that stopped since.
Enters(gs) ==
    /\ running' = running \cup gs
    /\ started' = started \cup (gs \ running)

\* readWslConfFor: a wedged file server costs the collector its deadline.
ReadConf(g) ==
    /\ Working /\ slow = "distros" /\ at = 3 /\ <<"conf", g>> \in todo
    /\ \E v \in IF Asked(g) THEN {Look(g, "conf"), Failed} ELSE {Refusal} :
        draft' = [draft EXCEPT ![g].conf = v]
    /\ Enters(IF Asked(g) THEN {g} ELSE {})
    /\ todo' = todo \ {<<"conf", g>>}
    /\ UNCHANGED <<machineVars, stage, at, shotVars, listed, moves>>

ConfsRead ==
    /\ Working /\ slow = "distros" /\ at = 3 /\ todo = {} /\ at' = 4
    /\ todo' = {<<"inside">>, <<"vm">>}
    /\ UNCHANGED <<machineVars, running, stage, shotVars, listed, draft, started, moves>>

\* scanZoneFilesFor, readWatchersFor, readSystemdFor: everything at once, in
\* what is left of the deadline.  A scan that cannot enter any of its
\* directories, or is cut off, has found what it has found: nothing.
ReadInside ==
    /\ Working /\ slow = "distros" /\ at = 4 /\ <<"inside">> \in todo
    /\ \E budget \in {stage = "asking", FALSE}, walked \in BOOLEAN :
        /\ draft' = [g \in Guest |-> [x \in Detail |->
                IF x \notin {"zone", "watch", "systemd"} THEN draft[g][x]
                ELSE IF ~Asked(g) THEN Refusal ELSE IF ~budget THEN Failed
                ELSE IF x = "zone" /\ ~walked THEN "clean" ELSE Look(g, x)]]
        /\ Enters(IF budget THEN {g \in Guest : Asked(g)} ELSE {})
    /\ todo' = todo \ {<<"inside">>}
    /\ UNCHANGED <<machineVars, stage, at, shotVars, listed, moves>>

\* readVM: the first that runs is asked for what they all have in common.
ReadVM ==
    /\ Working /\ slow = "distros" /\ at = 4 /\ <<"vm">> \in todo
    /\ \/ /\ \A g \in Guest : ~Asked(g)
          /\ env' = [env EXCEPT !["vm"] = Refusal]
          /\ Enters({}) /\ UNCHANGED from
       \/ /\ \E g \in Guest : Asked(g)
          /\ env' = [env EXCEPT !["vm"] = Failed]
          /\ Enters({}) /\ UNCHANGED from
       \/ \E g \in Guest :
            /\ stage = "asking" /\ Asked(g)
            /\ env' = [env EXCEPT !["vm"] = fact["vm"]]
            /\ Enters({g}) /\ from' = g
    /\ todo' = todo \ {<<"vm">>}
    /\ UNCHANGED <<machineVars, stage, at, seen, listed, draft, moves>>

Publish ==
    /\ Working /\ slow = "distros" /\ at = 4 /\ todo = {}
    /\ env' = [env EXCEPT !["distros"] = "some"] /\ seen' = draft /\ Ends
    /\ UNCHANGED <<machineVars, running, from, at, draftVars, started, moves>>

\* Meanwhile a distribution stops.
GuestStops(g) ==
    /\ Working /\ slow = "distros" /\ g \in running /\ moves < MaxMoves
    /\ running' = running \ {g} /\ moves' = moves + 1
    /\ UNCHANGED <<machineVars, stage, at, shotVars, draftVars, started>>

CollectNext ==
    \/ Abandon \/ Panic \/ ReadField
    \/ Registry \/ ListRunning \/ ConfsRead \/ ReadInside \/ ReadVM \/ Publish
    \/ \E g \in Guest : ReadConf(g) \/ GuestStops(g)
=============================================================================
