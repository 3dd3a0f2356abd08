--------------------------------- MODULE Top ---------------------------------
(***************************************************************************)
(* `wslkit top` (internal/top): sweeps that measure every running          *)
(* distribution and every running wslc session at once, the rates from one *)
(* sweep to the next, and which vmmem process of Windows is which VM,      *)
(* while distributions and VMs stop and start.  A tick of the clock is as  *)
(* long as matchTolerance.                                                 *)
(***************************************************************************)
EXTENDS Integers, FiniteSets

CONSTANTS
    Row,         \* the distributions of the utility VM, and "container"
    Scenes,      \* the machines that are looked at: which rows there are,
                 \* whose programs are busy, whether there is a third VM, and,
                 \* as bounds, how many sweeps and ticks there are
    MaxWork,     \* bound: units of processor time a row uses
    MaxRestarts  \* bound: times a distribution or a VM stops

ASSUME TopAssumption ==
    /\ "container" \in Row /\ Scenes # {}
    /\ \A s \in Scenes : s.busy \subseteq s.rows /\ s.rows \subseteq Row

Inner     == Row \ {"container"}
VM        == {"utility", "session", "other"}
Down      == -1
Tolerance == 1    \* matchTolerance
Interval  == 1
Width     == 8    \* what a counter holds in the model, for 2^64

VARIABLES
    scene,      \* the one of Scenes that is looked at
    clock,      \* of Windows
    boot,       \* when each VM booted, or Down
    lives,      \* the distributions that run
    spent,      \* a row's processor time since it started, as the kernel has it
    worked,     \* history: since ever
    child,      \* the part of a distribution's that is its child process's own
    method,     \* how distributions are measured: "cgroup" or "processes"
    childFirst, \* whether a walk over /proc comes to the child before its parent
    stops,      \* how often something stopped
    does,       \* what top does next
    sampling,   \* what the measurement of each row does next
    reading,    \* what it has read
    sampledAt,  \* when the distributions had answered
    last, this, \* the reports of the sweep before and of this one
    sweeps      \* how many sweeps were made

loadVars    == <<spent, worked, child>>
hostVars    == <<scene, clock, boot, lives, stops, method, childFirst>>
sweepVars   == <<does, sampledAt, last, this, sweeps>>
topVars     == <<loadVars, hostVars, sweepVars, sampling, reading>>

\* What is known of a row: what it had used when it was asked, whether a child's
\* exit ran into the walk; the row's clock, the time it was read, and when its VM
\* had booted; the counters and what the row had used by then; the VM's clock.
NoReading == [ok |-> FALSE, since |-> 0, raced |-> FALSE, at |-> 0, time |-> 0, vm |-> Down,
              cpu |-> 0, until |-> 0, vmAt |-> 0, vmTime |-> 0]

\* The rows, when the sweep ended, which vmmem is whose, and whether the VMs are
\* those that were measured.
Report(rows, ended, utility, session, sound) ==
    [rows |-> rows, ended |-> ended, utility |-> utility, session |-> session, sound |-> sound]
NoReport == Report([r \in Row |-> NoReading], 0, {}, {}, FALSE)

AtRest(s, how, first) ==
    /\ scene = s /\ clock = 0 /\ lives = Inner \cap s.rows
    /\ boot = [v \in VM |-> IF v = "utility" /\ lives # {} THEN 0 ELSE Down]
    /\ stops = 0 /\ method = how /\ childFirst = first
    /\ spent = [r \in Row |-> 0] /\ worked = spent /\ child = spent
    /\ does = "list" /\ sampledAt = 0 /\ sweeps = 0
    /\ last = NoReport /\ this = NoReport
    /\ sampling = [r \in Row |-> "idle"] /\ reading = NoReport.rows

\* How a distribution is measured matters where one is busy.
TopInit ==
    \E s \in Scenes, how \in {"cgroup", "processes"}, first \in BOOLEAN :
        /\ how = "cgroup" => ~first
        /\ how = "processes" => Inner \cap s.busy # {}
        /\ AtRest(s, how, first)

-----------------------------------------------------------------------------
(* The machine. *)

HostOf(r) == IF r = "container" THEN "session" ELSE "utility"
Runs(r)   == IF r = "container" THEN boot["session"] # Down ELSE r \in lives

Ticks ==
    /\ clock < scene.ticks
    /\ clock' = clock + 1
    /\ UNCHANGED <<scene, boot, lives, stops, method, childFirst>>
    /\ UNCHANGED <<loadVars, sampling, reading>>

\* A process of the row works, and it has a parent.
UsesCPU(r) ==
    /\ Runs(r) /\ worked[r] < MaxWork
    /\ spent' = [spent EXCEPT ![r] = @ + 1]
    /\ worked' = [worked EXCEPT ![r] = @ + 1]
    /\ child' = [child EXCEPT ![r] = IF method = "processes" THEN @ + 1 ELSE @]
    /\ UNCHANGED <<hostVars, sampling, reading>>

\* The process exits, its parent has its time from now on, and starts another.
ChildExits(r) ==
    /\ child[r] > 0
    /\ child' = [child EXCEPT ![r] = 0]
    /\ reading' = [reading EXCEPT ![r].raced = @ \/ sampling[r] = "rest"]
    /\ UNCHANGED <<hostVars, spent, worked, sampling>>

Measured(r) == sampling[r] \notin {"idle", "asked", "done"}

\* Rows that stop: nothing that was asked of them comes back.
RowsEnd(rows) ==
    /\ spent' = [r \in Row |-> IF r \in rows THEN 0 ELSE spent[r]]
    /\ child' = [r \in Row |-> IF r \in rows THEN 0 ELSE child[r]]
    /\ sampling' = [r \in Row |-> IF r \in rows /\ Measured(r) THEN "lost" ELSE sampling[r]]
    /\ stops < MaxRestarts /\ stops' = stops + 1
    /\ reading' = [r \in Row |-> IF sampling'[r] = "lost" THEN NoReading ELSE reading[r]]
    /\ UNCHANGED <<scene, clock, worked, method, childFirst>>

\* The last distribution takes the utility VM along.
StopsInner(r) ==
    /\ r \in lives
    /\ lives' = lives \ {r}
    /\ boot' = IF lives' = {} THEN [boot EXCEPT !["utility"] = Down] ELSE boot
    /\ RowsEnd({r})

StopsVM(v) ==
    /\ v # "utility" /\ boot[v] # Down
    /\ boot' = [boot EXCEPT ![v] = Down]
    /\ RowsEnd(IF v = "session" THEN {"container"} ELSE {})
    /\ UNCHANGED lives

Boots(v)  == boot' = [boot EXCEPT ![v] = IF @ = Down THEN clock ELSE @]
Starts(r) ==
    /\ Boots(HostOf(r))
    /\ lives' = (lives \cup {r}) \ {"container"}
    /\ UNCHANGED <<scene, clock, stops, method, childFirst>>

UserBoots ==
    /\ \/ \E r \in scene.rows : ~Runs(r) /\ Starts(r)
       \/ /\ scene.third /\ boot["other"] = Down /\ Boots("other")
          /\ UNCHANGED <<scene, clock, lives, stops, method, childFirst>>
    /\ UNCHANGED <<loadVars, sampling, reading>>

\* Until top has shown its last report.
Machine ==
    /\ does # "shown" \/ sweeps < scene.sweeps
    /\ \/ Ticks \/ UserBoots
       \/ \E r \in scene.busy : UsesCPU(r) \/ ChildExits(r)
       \/ \E r \in Inner : StopsInner(r)
       \/ \E v \in VM : StopsVM(v)
    /\ UNCHANGED sweepVars

-----------------------------------------------------------------------------
(* A sweep measures everything at once. *)

\* Running, which takes an error for nothing, and Sessions, which lists those
\* whose disk is attached.
Lists ==
    /\ does = "list"
    /\ does' = "measure"
    /\ \E names \in {lives, {}} :
           sampling' = [r \in Row |-> IF r \in names \/ (r = "container" /\ Runs(r))
                                  THEN "asked" ELSE "idle"]
    /\ reading' = NoReport.rows
    /\ UNCHANGED <<loadVars, hostVars, sampledAt, last, this, sweeps>>

\* wsl.exe and wslc start what they are asked to run in.
Asks(r) ==
    /\ sampling[r] = "asked"
    /\ sampling' = [sampling EXCEPT ![r] =
           IF r \in Inner /\ method = "processes" THEN "walk" ELSE "clock"]
    /\ reading' = [reading EXCEPT ![r] = [NoReading EXCEPT !.since = worked[r]]]
    /\ IF Runs(r) THEN UNCHANGED hostVars ELSE Starts(r)
    /\ UNCHANGED <<loadVars, sweepVars>>

Notes(r, old, new, read) ==
    /\ sampling[r] = old /\ sampling' = [sampling EXCEPT ![r] = new]
    /\ reading' = [reading EXCEPT ![r] = read]
    /\ UNCHANGED <<loadVars, hostVars, sweepVars>>

\* An uptime is never zero: at_csec and vm_at_csec.
Uptime(r) == clock - boot[HostOf(r)] + 1
Clock(r)  ==
    [reading[r] EXCEPT !.at = Uptime(r), !.time = clock, !.vm = boot[HostOf(r)]]
Count(r, n) == [reading[r] EXCEPT !.cpu = n, !.until = worked[r]]

\* A cgroup's clock and then its counters.
ReadsGroup(r) ==
    \/ Notes(r, "clock", "count", Clock(r))
    \/ Notes(r, "count", "vm", Count(r, spent[r]))

\* Without one the processes, one after another, each with the time of the
\* children it has reaped, and then the clock.
Walks(r) ==
    LET own    == child[r]
        parent == spent[r] - child[r]
    IN  \/ Notes(r, "walk", "rest",
                 [reading[r] EXCEPT !.cpu = IF childFirst THEN own ELSE parent])
        \/ Notes(r, "rest", "uptime",
                 Count(r, reading[r].cpu + IF childFirst THEN parent ELSE own))
        \/ Notes(r, "uptime", "vm", Clock(r))

\* The VM comes last.
ReadsVM(r) ==
    Notes(r, "vm", "done",
          [reading[r] EXCEPT !.ok = TRUE, !.vmAt = Uptime(r), !.vmTime = clock])

\* At the timeout, and when the distribution does not answer.
FailsToAnswer(r) ==
    /\ Measured(r)
    /\ sampling' = [sampling EXCEPT ![r] = "done"]
    /\ reading' = [reading EXCEPT ![r] = NoReading]
    /\ UNCHANGED <<loadVars, hostVars, sweepVars>>

\* The distributions have answered; the sessions may not have.
Gathers ==
    /\ does = "measure" /\ \A r \in Inner : sampling[r] \in {"idle", "done"}
    /\ does' = "host" /\ sampledAt' = clock
    /\ UNCHANGED <<loadVars, hostVars, sampling, reading, last, this, sweeps>>

\* Mutant: one of those that are near.
ClaimAny(vms, when) ==
    LET near == {v \in vms : when - boot[v] \in (-Tolerance)..Tolerance}
    IN  IF near = {} THEN {} ELSE {CHOOSE v \in near : TRUE}

\* The vmmem that was created when the VM booted, if it is the only one.
Claim(vms, when) ==
    LET near == {v \in vms : when - boot[v] \in (-Tolerance)..Tolerance}
    IN  IF Cardinality(near) = 1 THEN near ELSE {}

\* When a VM was sampled, less its uptime then.
Booted(r, when) == when - reading[r].vmAt + 1

\* Mutant: a session counts as sampled when the distributions were.
SessionBootedEarly(r) == Booted(r, sampledAt)

\* A session by its own time.
SessionBooted(r) == Booted(r, reading[r].vmTime)

\* The first distribution that answered, r if any, speaks for the utility VM.
\* sound tells whether the VMs are still those that were measured, and the
\* utility VM not long before all distributions had answered.
Host(r) ==
    LET vms     == {v \in VM : boot[v] # Down}
        mine    == IF r \in Inner THEN Claim(vms, Booted(r, sampledAt)) ELSE {}
        session == IF reading["container"].ok
                   THEN Claim(vms \ mine, SessionBooted("container")) ELSE {}
    IN  [utility |-> mine, session |-> session,
         sound |-> /\ \A q \in {r, "container"} :
                          reading[q].ok => reading[q].vm = boot[HostOf(q)]
                   /\ r \in Inner => sampledAt - reading[r].vmTime <= Tolerance]

\* WMI cannot be read.
NoFigure == [utility |-> {}, session |-> {}, sound |-> FALSE]

\* The VMs are listed once the sessions have answered, too.
Reports ==
    /\ does = "host" /\ sampling["container"] \in {"idle", "done"}
    /\ LET answered == {r \in Inner : reading[r].ok} IN
       \E r \in IF answered = {} THEN {"container"} ELSE answered :
       \E host \in {Host(r), NoFigure} :
           this' = Report(reading, clock, host.utility, host.session, host.sound)
    /\ does' = "shown" /\ sweeps' = sweeps + 1
    /\ reading' = NoReport.rows /\ sampling' = [r \in Row |-> "idle"]
    /\ UNCHANGED <<loadVars, hostVars, sampledAt, last>>

\* time.After(Interval) runs from the end of a sweep.
Waits ==
    /\ does = "shown" /\ sweeps < scene.sweeps
    /\ clock >= this.ended + Interval
    /\ does' = "list" /\ last' = this /\ this' = NoReport
    /\ UNCHANGED <<loadVars, hostVars, sampling, reading, sampledAt, sweeps>>

Measures(r) ==
    \/ Asks(r) \/ ReadsGroup(r) \/ Walks(r) \/ ReadsVM(r) \/ FailsToAnswer(r)

TopNext ==
    \/ Machine \/ Lists \/ Gathers \/ Reports \/ Waits
    \/ \E r \in Row : Measures(r)

-----------------------------------------------------------------------------
(* Rates, from what was read of a row in two sweeps. *)

\* Mutant: the counters are subtracted as they are.
PerSecondWraps(before, after, over) ==
    {[amount |-> (after - before) % Width, over |-> over]}

\* How fast a counter moved; nothing when it went backwards.
PerSecond(before, after, over) ==
    IF over <= 0 \/ after < before THEN {}
    ELSE {[amount |-> after - before, over |-> over]}

\* By the guest's clock, where that went on.
Elapsed(before, after) ==
    IF before > 0 /\ after > before THEN after - before ELSE Interval

Rates(b, a) ==
    IF b.ok /\ a.ok THEN PerSecond(b.cpu, a.cpu, Elapsed(b.at, a.at)) ELSE {}

-----------------------------------------------------------------------------
SampleSteps ==
    {"idle", "asked", "walk", "rest", "uptime", "clock", "count", "vm", "lost", "done"}

TopTypeOK ==
    /\ scene \in Scenes /\ sweeps \in 0..scene.sweeps
    /\ clock \in 0..scene.ticks /\ stops \in 0..MaxRestarts
    /\ boot \in [VM -> {Down} \cup 0..scene.ticks] /\ lives \subseteq Inner
    /\ \A load \in {spent, worked, child} : load \in [Row -> 0..MaxWork]
    /\ method \in {"cgroup", "processes"} /\ childFirst \in BOOLEAN
    /\ does \in {"list", "measure", "host", "shown"} /\ sampling \in [Row -> SampleSteps]
    /\ DOMAIN reading = Row /\ sampledAt \in 0..scene.ticks
    /\ \A report \in {last, this} : DOMAIN report.rows = Row

\* A rate that is shown is not more than what the row's programs have used
\* from the first sweep's question to the second one's answer, however often
\* the distribution, its session or the machine under it started over in
\* between; but for a walk over /proc that a child's exit ran into.  Where the
\* VM is still the same the rate is over the time that passed.
RatesAreReal ==
    does = "shown" => \A r \in Row :
        LET b == last.rows[r]
            a == this.rows[r]
        IN  \A rate \in Rates(b, a) :
                /\ rate.amount <= a.until - b.since \/ b.raced \/ a.raced
                /\ a.vm = b.vm => rate.over = a.time - b.time

\* The memory Windows charges to a VM is shown with that VM or with none.
VMsAreTold ==
    does = "shown" /\ this.sound =>
        this.utility \subseteq {"utility"} /\ this.session \subseteq {"session"}

\* What top shows belongs to the row it is shown in, whatever stops, restarts
\* and boots while it measures.
ReportIsTrue == RatesAreReal /\ VMsAreTold
=============================================================================
