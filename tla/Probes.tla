------------------------------- MODULE Probes -------------------------------
(***************************************************************************)
(* internal/probe: what each check of `wslkit doctor` says of a snapshot.  *)
(* A snapshot s has the fields s.env, the details s.seen of every          *)
(* distribution, and s.from, the one that was asked about the VM.  A value *)
(* stands for what the checks tell apart of it.                            *)
(***************************************************************************)
EXTENDS Collect

Statuses == {"FAIL", "WARN", "UNKNOWN", "SKIPPED", "OK"}

\* all.Probes: the checks in the order they run, and what each needs.
Order == <<"HST001", "HST002", "HST003", "HST004", "DEF001", "PLG001", "AGT001",
           "WSL002", "WSL001", "WSL003", "WSL004", "WSL005", "WSL006", "ZON001",
           "MNT001", "SYS001", "KVM001", "BIN001", "HST005", "DSK002", "DSK001",
           "DSK003", "DSK004", "DSK005", "DSK006", "NET004", "NET005", "NET002",
           "MEM001", "EVT001", "WSC001">>
Probe == {Order[i] : i \in DOMAIN Order}

Needs(p) ==
    CASE p \in {"WSL001", "WSL003", "WSL004", "WSL005", "HST005", "DSK002",
                "DSK005", "NET004", "NET002", "MEM001"} -> {"WSL002"}
      [] p \in {"WSL006", "ZON001", "MNT001", "SYS001", "KVM001", "BIN001"} -> {"WSL004"}
      [] p \in {"DSK001", "DSK003", "DSK004", "DSK006"} -> {"DSK002"}
      [] p = "NET005" -> {"NET004"}
      [] OTHER -> {}

\* The first of the cases that holds gives the status.
When(c, status, else) == IF c THEN status ELSE else
Unreadable(v) == ~OK(v) /\ v # Absent

-----------------------------------------------------------------------------
(* What several checks look up.                                              *)

\* DistroList: a list that was not read is an empty one.
Listing(s) == IF s.env["distros"] = "some" THEN Guest ELSE {}
Has(s, x, vals) == \E g \in Listing(s) : s.seen[g][x] \in vals
ReadOf(s, x)    == {g \in Listing(s) : OK(s.seen[g][x])}

\* Versions in order: one with none of the fixes, some of them, all of them.
Installed(s) == OK(s.env["version"])
Known(s)     == s.env["version"] \in {"old", "mid", "new"}
AllFixes(s)  == s.env["version"] = "new"

Below(s, builds) == s.env["build"] \in builds
Policy(s, v)     == s.env["policy"] = v
Config(s, v)     == s.env["wslconfig"] = v

\* wslconfig.NetworkingMode: a policy has the last word, then .wslconfig.
Mode(s) == IF Policy(s, "nat") THEN "nat"
           ELSE IF s.env["wslconfig"] \in {"mirrored", "bridged"} THEN s.env["wslconfig"]
           ELSE "nat"

-----------------------------------------------------------------------------
(* internal/probe/host                                                       *)

\* Mutant: what cannot be read is missing.
FeaturesUnread(s) == LET f == s.env["features"] IN
    When(f \in {Zero, "partial"}, "UNKNOWN",
    When(~OK(f) \/ f = "no platform", "FAIL",
    When(f = "no wsl" /\ ~Installed(s), "WARN", "OK")))

Features(s) == LET f == s.env["features"] IN
    When(~OK(f) \/ f \in {Zero, "partial"}, "UNKNOWN",
    When(f = "no platform", "FAIL",
    When(f = "no wsl" /\ ~Installed(s), "WARN", "OK")))

\* The one named WSLService is looked for when a runtime is installed.
Services(s) == LET v == s.env["services"] IN
    When(~OK(v), "UNKNOWN",
    When(v \in {Zero, "no vmcompute"} \/ (v = "no WSLService" /\ Installed(s)), "FAIL", "OK"))

Virtualization(s) == LET h == s.env["hypervisor"] IN
    When(~OK(h), "UNKNOWN", When(h = "on", "OK", "FAIL"))

Build(s) == LET b == s.env["build"] IN
    When(~OK(b) \/ b = Zero, "UNKNOWN",
    When(b = "1909", "FAIL", When(s.env["pending"] = "yes", "WARN", "OK")))

Defender(s) == LET d == s.env["defender"] e == s.env["exclusions"] IN
    When(d \in {Absent, Zero, "passive"}, "SKIPPED",
    When(d = "realtime off", "OK",
    When(Listing(s) = {}, "SKIPPED",
    When(~OK(e), "UNKNOWN",
    When(e \in {Zero, "lacks"} /\ ReadOf(s, "vhd") # {}, "WARN", "OK")))))

Plugins(s) == LET v == s.env["plugins"] IN
    When(Unreadable(v), "UNKNOWN",
    When(v = "does not load", "FAIL", When(v = "skipped", "WARN", "OK")))

Agent(s) == LET v == s.env["agent"] IN
    When(v \in {Zero, Absent}, "SKIPPED",
    When(~OK(v), "UNKNOWN", When(v = "dead", "WARN", "OK")))

COMClass(s) == LET v == s.env["com"] IN
    When(v = Zero \/ ~Installed(s), "SKIPPED",
    When(~OK(v), "UNKNOWN", When(v = "registered", "OK", "FAIL")))

-----------------------------------------------------------------------------
(* internal/probe/wsl                                                        *)

Presence(s) ==
    When(Policy(s, "forbids"), "FAIL",
    When(Installed(s), "OK",
    When(s.env["version"] = Elevation, "UNKNOWN", "FAIL")))

\* What a distribution needs of the runtime: nothing special, or a version
\* that some fail below, and that is untested a little further.
Compat(s) ==
    When(~Installed(s), "SKIPPED",
    When(~Known(s), "UNKNOWN",
    When(Listing(s) = {}, "SKIPPED",
    When(s.env["version"] = "old" /\ Has(s, "row", {"gap"}), "FAIL",
    When(s.env["version"] = "mid" /\ Has(s, "row", {"gap"}), "WARN", "OK")))))

UpdateAvailable(s) ==
    When(~Installed(s), "SKIPPED",
    When(~OK(s.env["latest"]) \/ ~Known(s) \/ s.env["latest"] = Zero, "UNKNOWN",
    When(~AllFixes(s) \/ s.env["latest"] = "newer", "WARN", "OK")))

Inventory(s) == LET v == s.env["distros"] IN
    When(Unreadable(v), "UNKNOWN",
    When(Listing(s) = {} \/ Has(s, "state", {"half installed"}), "WARN", "OK"))

ConfigLint(s) == LET v == s.env["wslconfig"] IN
    When(Unreadable(v), "UNKNOWN",
    When(v = "invalid", "FAIL", When(v \in {"typo", "bad size"}, "WARN", "OK")))

\* Mutant: nothing found is nothing wrong.
InsideOfNone(s, checked, bad) ==
    When(Unreadable(s.env["distros"]), "UNKNOWN",
    When(\E g \in checked : bad[g], "WARN", "OK"))

\* WSL006, ZON001, MNT001 and SYS001: the distributions that could be read say
\* something, the others are counted; none read and some not is no verdict.
InsideOf(s, checked, bad) ==
    When(Unreadable(s.env["distros"]), "UNKNOWN",
    When(Listing(s) = {}, "OK",
    When(checked = {}, "SKIPPED",
    When(\E g \in checked : bad[g], "WARN", "OK"))))

WslConf(s) ==
    LET c == {g \in Listing(s) : s.seen[g].conf = Absent \/ OK(s.seen[g].conf)} IN
    InsideOf(s, c, [g \in Guest |-> s.seen[g].conf = "typo"])

ZoneFiles(s) == LET c == ReadOf(s, "zone") IN
    InsideOf(s, c, [g \in Guest |-> s.seen[g].zone = "marked"])

Watchers(s) == LET c == ReadOf(s, "watch") IN
    InsideOf(s, c, [g \in Guest |-> s.seen[g].watch = "polls"])

\* systemdWanted: a wsl.conf that was not read asks for nothing.
Systemd(s) ==
    LET c == {g \in ReadOf(s, "systemd") : Collected(s.seen[g].systemd)} IN
    InsideOf(s, c,
        [g \in Guest |-> \/ s.seen[g].systemd = "degraded"
                         \/ s.seen[g].systemd = "init" /\ s.seen[g].conf = "systemd"])

\* nestedWanted: what could not be read does not turn it off.
Wanted(s) ==
    /\ ~Below(s, {"1909", "windows 10"}) /\ ~Config(s, "safe mode")
    /\ ~Policy(s, "not nested")

Nested(s) == LET v == s.env["vm"] IN
    When(~Wanted(s), "OK",
    When(v = Zero \/ ~OK(v), "SKIPPED", When(v = "no kvm", "WARN", "OK")))

Interop(s) == LET v == s.env["vm"] IN
    When(v = Zero \/ ~OK(v), "SKIPPED",
    When(s.from \in Listing(s) /\ s.seen[s.from].conf = "no interop", "OK",
    When(v = "no handler", "FAIL", When(v = "rivals", "WARN", "OK"))))

-----------------------------------------------------------------------------
(* internal/probe/disk                                                       *)

Integrity(s) ==
    When(Listing(s) = {}, "SKIPPED",
    When(Has(s, "vhd", {Absent, Failed, "corrupt"}), "FAIL",
    When(Has(s, "vhd", {"moved"}), "WARN", "OK")))

Reclaimable(s) ==
    When(ReadOf(s, "vhd") = {}, "SKIPPED", When(Has(s, "vhd", {"slack"}), "WARN", "OK"))

Attributes(s) ==
    When(ReadOf(s, "vhd") = {}, "SKIPPED", When(Has(s, "vhd", {"compressed"}), "FAIL", "OK"))

Filesystem(s) ==
    When(Has(s, "ext4", {"errors"}), "FAIL",
    When(ReadOf(s, "ext4") # {}, "OK",
    When(Has(s, "ext4", {Elevation, Failed}), "UNKNOWN", "SKIPPED")))

HostFree(s) ==
    When(ReadOf(s, "free") = {}, "SKIPPED", When(Has(s, "free", {"low"}), "WARN", "OK"))

\* The owner is read with the disk.
Ownership(s) ==
    When(ReadOf(s, "vhd") = {}, "SKIPPED",
    When((\E g \in ReadOf(s, "vhd") : s.seen[g].owner = "foreign") /\ ~AllFixes(s),
         "WARN", "OK"))

-----------------------------------------------------------------------------
(* internal/probe/net, perf, evt and wslc                                    *)

VPN(s) == s.env["adapters"] = "vpn"

Mirrored(s) ==
    LET fw == s.env["firewall"]
        mirrored == Mode(s) = "mirrored" IN
    When(mirrored /\ (Below(s, {"1909", "windows 10"}) \/ s.env["ipv6"] = "off"), "FAIL",
    When(\/ Policy(s, "nat") \/ Mode(s) = "bridged"
         \/ mirrored /\ fw \in {Zero, "none"}
         \/ mirrored /\ VPN(s) /\ s.env["hotfixes"] = "KB5068861", "WARN", "OK"))

\* The shorter of the two pools counts; later runtimes make do with less.
MirroredPorts(s) ==
    LET pools == {s.env["tcp"], s.env["udp"]} IN
    When(Mode(s) # "mirrored" \/ Zero \in pools, "SKIPPED",
    When(\E v \in pools : ~OK(v), "UNKNOWN",
    When(pools = {"wide"}, "OK",
    When(AllFixes(s) /\ "narrow" \notin pools, "WARN", "FAIL"))))

DNS(s) == LET a == s.env["adapters"] IN
    When(a = Zero, "SKIPPED",
    When(~OK(a), "UNKNOWN",
    When(\/ VPN(s) /\ Mode(s) = "nat"
            /\ (Config(s, "no tunnel") \/ Below(s, {"1909", "windows 10"}))
         \/ a = "all down", "WARN", "OK")))

\* The cap is half of the memory unless .wslconfig sets one.
Memory(s) == LET m == s.env["memory"] IN
    When(Config(s, "bad size"), "WARN",
    When(s.env["vmmem"] = "near the cap" /\ OK(m) /\ m # Zero, "WARN",
    When(m \in {Zero, "8 GB"} , "WARN", "OK")))

Crashes(s) == LET v == s.env["events"] IN
    When(~OK(v), "UNKNOWN", When(v = "crashes", "WARN", "OK"))

Containers(s) == LET v == s.env["wslc"] IN
    When(v \in {Zero, Absent, "stopped"}, "SKIPPED",
    When(~OK(v) \/ v = "untested", "UNKNOWN", When(v = "broken", "WARN", "OK")))

-----------------------------------------------------------------------------

\* safeRun
Verdict(p, s) ==
    CASE p = "HST001" -> Features(s)    [] p = "HST002" -> Services(s)
      [] p = "HST003" -> Virtualization(s) [] p = "HST004" -> Build(s)
      [] p = "DEF001" -> Defender(s)    [] p = "PLG001" -> Plugins(s)
      [] p = "AGT001" -> Agent(s)       [] p = "WSL002" -> Presence(s)
      [] p = "WSL001" -> Compat(s)      [] p = "WSL003" -> UpdateAvailable(s)
      [] p = "WSL004" -> Inventory(s)   [] p = "WSL005" -> ConfigLint(s)
      [] p = "WSL006" -> WslConf(s)     [] p = "ZON001" -> ZoneFiles(s)
      [] p = "MNT001" -> Watchers(s)    [] p = "SYS001" -> Systemd(s)
      [] p = "KVM001" -> Nested(s)      [] p = "BIN001" -> Interop(s)
      [] p = "HST005" -> COMClass(s)    [] p = "DSK002" -> Integrity(s)
      [] p = "DSK001" -> Reclaimable(s) [] p = "DSK003" -> Attributes(s)
      [] p = "DSK004" -> Filesystem(s)  [] p = "DSK005" -> HostFree(s)
      [] p = "DSK006" -> Ownership(s)   [] p = "NET004" -> Mirrored(s)
      [] p = "NET005" -> MirroredPorts(s) [] p = "NET002" -> DNS(s)
      [] p = "MEM001" -> Memory(s)      [] p = "EVT001" -> Crashes(s)
      [] p = "WSC001" -> Containers(s)

\* failedDependency: of the checks that have run.
Blocked(p, results) == \E d \in Needs(p) : d \in DOMAIN results /\ results[d] = "FAIL"

\* Mutant: what a needed check needs is forgotten.
ClosureOnce(ids) == ids \cup UNION {Needs(p) : p \in ids}

\* all.ByID: the checks asked for, and all they need, in the order of all.
Closure(ids) ==
    LET once(S) == S \cup UNION {Needs(p) : p \in S} IN once(once(once(ids)))
ByID(ids) == SelectSeq(Order, LAMBDA p : p \in Closure(ids))
=============================================================================
