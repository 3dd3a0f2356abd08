----------------------------- MODULE MCCommands -----------------------------
(***************************************************************************)
(* The machines, distributions and command lines the doctor meets in the   *)
(* run of Commands: a regular machine with sound distributions, and what   *)
(* may be out of order.  And the machines top looks at.                    *)
(***************************************************************************)
EXTENDS Commands

AllAsks == {[by |-> "ids", of |-> {"DSK001"}],
   [by |-> "ids", of |-> {"NET005", "ZON001"}], [by |-> "milestone", of |-> {"M2"}]}

Regular == [
    build |-> "windows 11", pending |-> "no", hypervisor |-> "on", memory |-> "32 GB",
    features |-> "enabled", services |-> "running", version |-> "new",
    inbox |-> "stub", com |-> "registered", latest |-> "same", vm |-> "fine",
    distros |-> "some", wslconfig |-> "plain", defender |-> "on", exclusions |-> "covers",
    events |-> "quiet", vmmem |-> "small", plugins |-> Absent, ipv6 |-> "on",
    adapters |-> "up", firewall |-> "full", tcp |-> "wide", udp |-> "wide",
    hotfixes |-> Absent, policy |-> Absent, agent |-> "serves", wslc |-> Absent]

Sound == [conf |-> "fine", zone |-> "clean", watch |-> "none", systemd |-> "running",
          vhd |-> "fine", ext4 |-> "clean", free |-> "ample", owner |-> "own",
          row |-> "gap", state |-> "normal"]

\* The others differ from it in a field, or in several that no check looks at
\* together.
One(f, vals) == {[Regular EXCEPT ![f] = v] : v \in vals}
Mirror       == [Regular EXCEPT !.wslconfig = "mirrored", !.hotfixes = "fine"]
Facts == {Regular, Mirror,
          [Regular EXCEPT !.agent = Absent, !.wslc = "stopped", !.events = "crashes",
              !.plugins = "fine", !.vmmem = Absent, !.latest = "newer",
              !.adapters = "all down", !.defender = Absent],
          [Regular EXCEPT !.agent = "dead", !.wslc = "resolves", !.plugins = "skipped",
              !.defender = "passive", !.features = "no platform", !.hypervisor = "off",
              !.adapters = "vpn"],
          [Regular EXCEPT !.wslc = "broken", !.plugins = "does not load",
              !.defender = "realtime off", !.features = "partial", !.pending = "yes",
              !.services = "no WSLService", !.memory = "8 GB"],
          [Regular EXCEPT !.wslc = "untested", !.exclusions = "lacks",
              !.services = "no vmcompute", !.vmmem = "near the cap", !.wslconfig = "typo"]}
    \cup One("build", {"1909", "windows 10"})
    \cup One("version", {"old", "mid", "garbled"}) \cup One("com", {"missing"})
    \cup One("vm", {"no kvm", "no handler", "rivals"})
    \cup One("distros", {Absent, "none"})
    \cup One("wslconfig", {Absent, "invalid", "bad size", "bridged", "safe mode"})
    \cup One("policy", {"forbids", "nat", "not nested"})
    \cup {[Regular EXCEPT !.version = Absent, !.com = "missing", !.distros = Absent,
                          !.features = "no wsl", !.services = "no WSLService"],
          [Regular EXCEPT !.wslconfig = "no tunnel", !.adapters = "vpn"],
          [Regular EXCEPT !.build = "windows 10", !.adapters = "vpn"],
          [Regular EXCEPT !.vm = "no kvm", !.build = "windows 10"],
          [Regular EXCEPT !.vm = "no kvm", !.wslconfig = "safe mode"],
          [Regular EXCEPT !.vm = "no kvm", !.policy = "not nested"],
          [Mirror EXCEPT !.build = "windows 10"], [Mirror EXCEPT !.ipv6 = "off"],
          [Mirror EXCEPT !.build = "windows 10", !.policy = "nat"],
          [Mirror EXCEPT !.firewall = "none"], [Mirror EXCEPT !.tcp = "short"],
          [Mirror EXCEPT !.udp = "narrow"],
          [Mirror EXCEPT !.tcp = "short", !.policy = "nat"],
          [Mirror EXCEPT !.tcp = "short", !.version = "mid"],
          [Mirror EXCEPT !.adapters = "vpn", !.hotfixes = "KB5068861"]}

Odds == {
    [Sound EXCEPT !.conf = "typo", !.zone = "marked", !.watch = "polls",
        !.systemd = "degraded", !.vhd = "slack", !.free = "low", !.state = "half installed"],
    [Sound EXCEPT !.conf = Absent, !.vhd = "corrupt", !.ext4 = "errors"],
    [Sound EXCEPT !.vhd = Absent],
    [Sound EXCEPT !.vhd = "moved", !.ext4 = Absent],
    [Sound EXCEPT !.vhd = "compressed", !.conf = "systemd", !.systemd = "init"]}

\* With a fact of the machine out of order a distribution is too, in these.
Pairs == {<<f, [Sound EXCEPT !.owner = "foreign"]>> : f \in One("version", {"mid"})}
    \cup {<<f, [Sound EXCEPT !.conf = "no interop"]>> : f \in One("vm", {"no handler"})}

Case(f, t, on, c, o, who) ==
    [fact |-> f, trait |-> t, running |-> on, slow |-> c, odd |-> o, ask |-> who]

Everything == [by |-> "all", of |-> {}]
Both(t) == [g \in Guest |-> IF g = "a" THEN t ELSE Sound]

\* Any collector but the one of the distributions is slow, on any machine, or
\* meets with a fault.
Elsewhere == UNION {
    {Case(f, Both(Sound), {"a"}, c, NoFault, Everything) : f \in Facts}
    \cup {Case(f, Both(Sound), {"a"}, c, o, Everything) :
            f \in {Regular, Mirror}, o \in Faults(c)}
        : c \in Collector \ {"distros"}}

\* The one of the distributions is; where it meets with a fault, one runs.
Within ==
    {Case(Regular, Both(t), {"a", "b"}, "distros", NoFault, Everything) : t \in Odds \cup {Sound}}
    \cup {Case(p[1], Both(p[2]), {"a", "b"}, "distros", NoFault, Everything) : p \in Pairs}
    \cup {Case(Regular, Both(Sound), {"a"}, "distros", o, Everything) :
             o \in Faults("distros") \cup {NoFault}}

Partial == {Case(f, Both(Sound), {"a"}, "hotfixes", NoFault, who) : f \in Facts, who \in AllAsks}

\* A distribution or a session in two sweeps, and the VMs in one.
Seen(on, works, three, count, time) ==
    [rows |-> on, busy |-> works, third |-> three, sweeps |-> count, ticks |-> time]
AllScenes == {
    Seen({"x"}, {"x"}, FALSE, 2, 1), Seen({"container"}, {"container"}, FALSE, 2, 2),
    Seen({"x", "container"}, {}, TRUE, 1, 3), Seen({"x", "y"}, {}, TRUE, 1, 3)}

AllCases == Elsewhere \cup Within \cup Partial
=============================================================================
