------------------------------- MODULE Doctor -------------------------------
(***************************************************************************)
(* `wslkit doctor check` and `doctor explain`: the collectors, then the    *)
(* checks one after another on what they found, while an abandoned one may *)
(* still write.  `check --only` runs the checks of some milestones,        *)
(* `explain` the checks an error code is mapped to and all they need.      *)
(***************************************************************************)
EXTENDS Probes, TLC

LOCAL INSTANCE SequencesExt

\* Which machines and command lines there are: records of fact, trait, running,
\* slow and odd (see Collect), and of ask, which is [by, of]: "all", or of some
\* "ids" or "milestone".
CONSTANT Cases

VARIABLES
    ask,         \* the command line
    turn,        \* the check that is next
    results      \* the status of each check that has run

doctorVars == <<collectVars, ask, turn, results>>

Milestone(p) ==
    CASE p \in {"HST001", "HST002", "HST003", "HST005", "DEF001", "PLG001", "WSL001",
                "WSL002", "WSL003", "WSL004", "DSK001", "DSK002", "MEM001"} -> "M1"
      [] p \in {"HST004", "AGT001", "WSL005", "DSK003", "DSK005", "DSK006", "NET002",
                "NET004", "EVT001"} -> "M2"
      [] OTHER -> "M3"

\* The checks a command line runs.
Plan == CASE ask.by = "all"       -> Order
          [] ask.by = "ids"       -> ByID(ask.of)
          [] ask.by = "milestone" -> SelectSeq(Order, LAMBDA p : Milestone(p) \in ask.of)

Snapshot == [env |-> env, seen |-> seen, from |-> from]

Meets(case) ==
    /\ fact = case.fact /\ trait = case.trait /\ running = case.running
    /\ slow = case.slow /\ odd = case.odd /\ ask = case.ask

DoctorInit ==
    /\ \E case \in Cases : Meets(case)
    /\ CollectInit /\ turn = 1 /\ results = << >>

\* RunAll.  The checks begin when every collector has answered, or was given up.
Check ==
    /\ stage # "asking" /\ turn <= Len(Plan) /\ turn' = turn + 1
    /\ LET p == Plan[turn] IN
        results' = results @@
            (p :> IF Blocked(p, results) THEN "SKIPPED" ELSE Verdict(p, Snapshot))
    /\ UNCHANGED <<collectVars, ask>>

DoctorNext ==
    \/ Check
    \/ turn <= Len(Plan) /\ CollectNext /\ UNCHANGED <<ask, turn, results>>

-----------------------------------------------------------------------------
(* Properties. *)

DoctorTypeOK ==
    /\ DOMAIN env = Field /\ DOMAIN seen = Guest
    /\ running \subseteq Guest /\ started \subseteq Guest /\ slow \in Collector
    /\ stage \in {"asking", "answered", "panicked", "abandoned", "late"}
    /\ DOMAIN results \subseteq Probe
    /\ \A p \in DOMAIN results : results[p] \in Statuses
    /\ \A g \in Guest : \A x \in Detail : seen[g][x] = Zero => env["distros"] # "some"

Severity(status) == CASE status = "FAIL" -> 2 [] status = "WARN" -> 1 [] OTHER -> 0

\* The machine as it is, everything of it read.
Truth == [env |-> fact, seen |-> trait, from |-> from]

\* What the snapshot has not read of the machine, or reads otherwise.
Gaps == {f \in Field : env[f] # fact[f]}
            \cup {x \in Detail : \E g \in Guest : seen[g][x] # trait[g][x]}

\* What a check takes for granted when it could not be read, and so may blame
\* the machine for.
Presumed(p) ==
    CASE p = "WSL002" -> {"version"}                      \* it is not installed
      [] p = "DSK002" -> {"vhd"}                          \* the disk is damaged
      [] p = "BIN001" -> {"conf"}                         \* interop is wanted
      [] p = "KVM001" -> {"build", "policy", "wslconfig"} \* so is nesting
      [] p = "NET004" -> {"policy", "firewall"}           \* there is none
      [] p = "NET005" -> {"policy", "version"}            \* and WSL does not retry
      [] OTHER -> {}

\* And what it takes for a fault when nobody wrote it.
TakenAtZero(p) ==
    CASE p = "HST002" -> {"services", "version"}   \* no service is there
      [] p = "HST003" -> {"hypervisor"}            \* no hypervisor runs
      [] p = "DEF001" -> {"exclusions"}            \* nothing is excluded
      [] p = "WSL004" -> {"distros"}               \* nothing is registered
      [] p = "NET004" -> {"firewall"}              \* there is no firewall
      [] p = "MEM001" -> {"memory"}                \* there is no memory
      [] OTHER -> {}

\* A check that says more is wrong than is has guessed, and about these facts
\* only: all others it leaves alone when it could not read them.
BlameIsRead ==
    [][\A p \in DOMAIN results' \ DOMAIN results :
        Severity(results'[p]) > Severity(Verdict(p, Truth)) =>
            \/ Presumed(p) \cap Gaps # {}
            \/ \E f \in TakenAtZero(p) : env[f] = Zero]_doctorVars

\* The facts whose absence hides what a check would find.
Hides(p) ==
    CASE p = "HST001" -> {"version"} [] p = "HST002" -> {"version"}
      [] p = "HST004" -> {"pending"} [] p = "PLG001" -> {"plugins"}
      [] p = "WSL002" -> {"policy", "version"} [] p = "WSL005" -> {"wslconfig"}
      [] p = "WSL006" -> {"conf"} [] p = "ZON001" -> {"zone"}
      [] p = "MNT001" -> {"watch"} [] p = "SYS001" -> {"conf", "systemd"}
      [] p = "DSK002" -> {"vhd"} [] p = "EVT001" -> {"events"}
      [] p = "NET004" -> {"build", "ipv6", "wslconfig", "policy", "adapters",
                          "firewall", "hotfixes"}
      [] p = "NET002" -> {"build", "wslconfig"}
      [] p = "MEM001" -> {"memory", "vmmem", "wslconfig"}
      [] OTHER -> {}

\* What a check reads inside the distributions.
ReadInsideBy(p) ==
    CASE p = "WSL006" -> "conf" [] p = "ZON001" -> "zone"
      [] p = "MNT001" -> "watch" [] p = "SYS001" -> "systemd"

\* A check that says all is well although it is not has overlooked one of these,
\* and one about what is inside the distributions has read one of them at least,
\* when it was told of any.
ClearIsRead ==
    [][\A p \in DOMAIN results' \ DOMAIN results : results'[p] = "OK" =>
        /\ Severity(Verdict(p, Truth)) > 0 => Hides(p) \cap Gaps # {}
        /\ p \in {"WSL006", "ZON001", "MNT001", "SYS001"} /\ Listing(Snapshot) # {} =>
            \E g \in Guest : seen[g][ReadInsideBy(p)] \notin Unread \ {Absent}]_doctorVars

\* Both: a verdict that is not the truth was read from what was not there.
VerdictsAreRead == BlameIsRead /\ ClearIsRead

\* `explain` runs the checks it names as `check` does: each says the same.
\* AsInCheck is what the full run makes of the same snapshot.
AsInCheck ==
    FoldLeft(LAMBDA done, p : done @@
                 (p :> IF Blocked(p, done) THEN "SKIPPED" ELSE Verdict(p, Snapshot)),
             << >>, Order)

ExplainAgrees ==
    ask.by = "ids" /\ turn > Len(Plan) /\ stage \in {"answered", "panicked"} =>
        \A p \in DOMAIN results : results[p] = AsInCheck[p]
=============================================================================
