------------------------------- MODULE Guard -------------------------------
(***************************************************************************)
(* internal/guard, and `wslkit guard run-once`: a scheduled task that      *)
(* probes WSL after a logon or when the machine woke up and, when WSL is   *)
(* wedged, climbs a ladder of rungs, probing again after each.  Every run  *)
(* ends by writing down which distributions are up; the next one takes     *)
(* that for what was running before the machine slept.  `guard install     *)
(* --elevated` registers two tasks on the same events, which share that    *)
(* record.                                                                 *)
(***************************************************************************)
EXTENDS Integers

CONSTANTS
    Distro,      \* the installed distributions
    Default,     \* the one `wsl --list` names first
    Broken,      \* those in which /bin/true fails
    Task,        \* the registered tasks, and the user's own run-once
    Elevated,    \* those run with --elevated
    Dry,         \* those the user may also run with --dry-run
    MaxRung,     \* --max-step, or 0 for the whole ladder
    MaxSleeps    \* bound: times the machine sleeps

Rung           == 1..4
Shutdown       == 1
ForceShutdown  == 2
KillService    == 3
RestartService == 4

ASSUME GuardAssumption ==
    /\ Default \in Distro /\ Broken \subseteq Distro
    /\ Elevated \subseteq Task /\ Dry \subseteq Task
    /\ MaxRung \in 0..4 /\ MaxSleeps \in Nat

VARIABLES
    service,   \* WSLService: up, hung, or down
    up,        \* the distributions that run
    dead,      \* the sockets into the VM are gone, nothing in it answers
    skewed,    \* the clock of the VM is out
    sleeps,    \* how often the machine slept
    record,    \* guard-state.json
    due,       \* the tasks whose trigger fired
    pc,        \* what each task does next
    evidence,  \* the record it read
    found,     \* the distributions it found up
    serviceIs, distroIs, skewSeen,   \* its last probe
    ladder,    \* the rungs it has left; Undecided at first
    tried,     \* history: the rungs of each task's last run
    wedged,    \* history: the service has hung
    recorded   \* history: a run has found something up

worldVars == <<service, up, dead, skewed>>
probeVars == <<serviceIs, distroIs, skewSeen>>
runVars   == <<pc, evidence, found, probeVars, ladder>>
histVars  == <<tried, wedged, recorded>>
vars == <<worldVars, sleeps, record, due, runVars, histVars>>

\* A record that is missing, cut short or stale is no record.
NoRecord  == [known |-> FALSE, running |-> {}]
Undecided == {0}

Init ==
    /\ service = "up" /\ up = {} /\ dead = FALSE /\ skewed = FALSE
    /\ sleeps = 0 /\ record = NoRecord /\ due = Task
    /\ pc = [t \in Task |-> "idle"] /\ evidence = [t \in Task |-> NoRecord]
    /\ found = [t \in Task |-> {}] /\ ladder = [t \in Task |-> {}]
    /\ serviceIs = [t \in Task |-> "answers"]
    /\ distroIs = [t \in Task |-> "answers"]
    /\ skewSeen = [t \in Task |-> FALSE]
    /\ tried = [t \in Task |-> {}]
    /\ wedged = FALSE /\ recorded = FALSE

-----------------------------------------------------------------------------
(* The machine. *)

\* It sleeps and wakes up.  What ran may not answer any more, the service may
\* hang, the clock may be out, a record may be more than MaxStateAge old.  A
\* trigger that meets a run that still has rungs left is ignored.
Sleep ==
    /\ sleeps < MaxSleeps /\ sleeps' = sleeps + 1
    /\ service' \in {service} \cup (IF service = "up" THEN {"hung"} ELSE {})
    /\ wedged' = (wedged \/ service' = "hung")
    /\ dead' \in {dead, up # {}} /\ skewed' \in {skewed, up # {}}
    /\ record' \in {record, NoRecord}
    /\ due' = due \cup {t \in Task : ladder[t] = {}}
    /\ UNCHANGED <<up, runVars, tried, recorded>>

Works == service = "up" /\ ~dead

UserStarts(d) ==
    /\ Works /\ up' = up \cup {d}
    /\ UNCHANGED <<service, dead, skewed, sleeps, record, due, runVars, histVars>>

UserStops(d) ==
    /\ Works /\ up' = up \ {d} /\ skewed' = (skewed /\ up' # {})
    /\ UNCHANGED <<service, dead, sleeps, record, due, runVars, histVars>>

\* A service that was killed is started by whoever asks for it next.
ServiceStarts ==
    /\ service = "down" /\ service' = "up"
    /\ UNCHANGED <<up, dead, skewed, sleeps, record, due, runVars, histVars>>

VMStops == up' = {} /\ dead' = FALSE /\ skewed' = FALSE
VMStays == UNCHANGED <<up, dead, skewed>>

-----------------------------------------------------------------------------
(* Check: `wsl --status`, the default distribution, a command in it, and the *)
(* clock.  Each is a call that others may come between.                      *)

At(t, p)   == pc[t] = p
Goto(t, p) == pc' = [pc EXCEPT ![t] = p]

LoadState(t) ==
    /\ At(t, "idle") /\ t \in due /\ due' = due \ {t}
    /\ evidence' = [evidence EXCEPT ![t] = record]
    /\ ladder' = [ladder EXCEPT ![t] = Undecided]
    /\ Goto(t, "status")
    /\ UNCHANGED <<worldVars, sleeps, record, found, probeVars, histVars>>

Status(t) ==
    /\ At(t, "status")
    /\ serviceIs' = [serviceIs EXCEPT ![t] =
           CASE service = "up" -> "answers" [] service = "hung" -> "hangs"
             [] service = "down" -> "refuses"]
    /\ distroIs' = [distroIs EXCEPT ![t] = "unknown"]
    /\ skewSeen' = [skewSeen EXCEPT ![t] = FALSE]
    /\ Goto(t, IF service = "up" THEN "list" ELSE "judge")
    /\ UNCHANGED <<worldVars, sleeps, record, due, evidence, found, ladder,
                   histVars>>

\* A list that cannot be had is taken for a machine without distributions.
DefaultDistro(t) ==
    /\ At(t, "list")
    /\ \/ service = "up" /\ Goto(t, "exec") /\ UNCHANGED distroIs
       \/ /\ service # "up" /\ Goto(t, "judge")
          /\ distroIs' = [distroIs EXCEPT ![t] = "answers"]
    /\ UNCHANGED <<worldVars, sleeps, record, due, evidence, found, serviceIs,
                   skewSeen, ladder, histVars>>

\* The command starts the distribution where it is not up, which may take
\* longer than DistroTimeout; the start goes on when wsl.exe is gone.  Then
\* GuestClock may read the clock, or not.
Exec(t) ==
    /\ At(t, "exec") /\ Goto(t, "judge")
    /\ \E says \in {"answers", "refuses", "hangs"} :
           /\ says = "answers" => Works /\ Default \notin Broken
           /\ says = "refuses" =>
                  service = "down" \/ (Works /\ Default \in Broken)
           /\ says = "hangs" =>
                  service = "hung" \/ (service = "up" /\ (dead \/ Default \notin up))
           /\ distroIs' = [distroIs EXCEPT ![t] = says]
           /\ \E read \in BOOLEAN : skewSeen' =
                  [skewSeen EXCEPT ![t] = read /\ says = "answers" /\ skewed]
    /\ up' = IF Works THEN up \cup {Default} ELSE up
    /\ UNCHANGED <<service, dead, skewed, sleeps, record, due, evidence, found,
                   serviceIs, ladder, histVars>>

-----------------------------------------------------------------------------
(* Decide and Run. *)

Healthy(t) == serviceIs[t] = "answers" /\ distroIs[t] = "answers"

\* Mutant: RungNone is on the ladder, too.
PermittedFromNone(t) == {r \in 0..4 : /\ MaxRung # 0 => r <= MaxRung
                                      /\ r >= KillService => t \in Elevated}

\* cap: the rungs of the full ladder that the options permit.
Permitted(t) == {r \in Rung : /\ MaxRung # 0 => r <= MaxRung
                              /\ r >= KillService => t \in Elevated}

\* Mutant: having no record is no reason not to act.
DecideUnrecorded(t) ==
    IF \/ serviceIs[t] = "hangs"
       \/ /\ serviceIs[t] = "answers" /\ distroIs[t] # "answers"
          /\ evidence[t].known => evidence[t].running # {}
    THEN Permitted(t) ELSE {}

\* Mutant: the last rung is one of an administrator's that are dropped.
DecideShort(t) ==
    IF \/ serviceIs[t] = "hangs"
       \/ /\ serviceIs[t] = "answers" /\ distroIs[t] # "answers"
          /\ evidence[t].known /\ evidence[t].running # {}
    THEN Permitted(t) \ {KillService} ELSE {}

Decide(t) ==
    IF \/ serviceIs[t] = "hangs"
       \/ /\ serviceIs[t] = "answers" /\ distroIs[t] # "answers"
          /\ evidence[t].known /\ evidence[t].running # {}
    THEN Permitted(t) ELSE {}

\* Mutant: the ladder goes on although WSL answers again.
JudgeOnce(t) ==
    /\ At(t, "judge")
    /\ IF ladder[t] = Undecided
       THEN /\ ladder' = [ladder EXCEPT ![t] = Decide(t)]
            /\ Goto(t, IF skewSeen[t] THEN "clock" ELSE "climb")
       ELSE Goto(t, "climb") /\ UNCHANGED ladder
    /\ UNCHANGED <<worldVars, sleeps, record, due, evidence, found, probeVars,
                   histVars>>

\* The probe is in: decide, or see what the last rung did.
Judge(t) ==
    /\ At(t, "judge")
    /\ IF ladder[t] = Undecided
       THEN /\ ladder' = [ladder EXCEPT ![t] = Decide(t)]
            /\ Goto(t, IF skewSeen[t] THEN "clock" ELSE "climb")
       ELSE /\ ladder' = [ladder EXCEPT ![t] = IF Healthy(t) THEN {} ELSE @]
            /\ Goto(t, "climb")
    /\ UNCHANGED <<worldVars, sleeps, record, due, evidence, found, probeVars,
                   histVars>>

\* Two ways to find hwclock are tried, and either may fail.
StepClock(t) ==
    /\ At(t, "clock") /\ Goto(t, "climb")
    /\ skewed' \in {skewed} \cup (IF Works THEN {FALSE} ELSE {})
    /\ UNCHANGED <<service, up, dead, sleeps, record, due, evidence, found,
                   probeVars, ladder, histVars>>

\* `wsl --shutdown` goes through the socket, and when it times out may have
\* worked or not; --force does not need it, but both ask the service.  `sc
\* start` of a service that is there, hung or not, changes nothing.
Effect(r) ==
    \/ /\ r = Shutdown /\ UNCHANGED service
       /\ (service = "up" /\ VMStops) \/ (~Works /\ VMStays)
    \/ /\ r = ForceShutdown /\ UNCHANGED service
       /\ IF service = "up" THEN VMStops ELSE VMStays
    \/ r = KillService /\ service' = "down" /\ VMStops
    \/ /\ r = RestartService /\ VMStays
       /\ service' = IF service = "down" THEN "up" ELSE service

Climb(t) ==
    /\ At(t, "climb") /\ ladder[t] # {}
    /\ \E r \in ladder[t] :
           /\ \A q \in ladder[t] : r <= q
           /\ Effect(r)
           /\ ladder' = [ladder EXCEPT ![t] = @ \ {r}]
           /\ tried' = [tried EXCEPT ![t] = @ \cup {r}]
    /\ Goto(t, "status")
    /\ UNCHANGED <<sleeps, record, due, evidence, found, probeVars,
                   wedged, recorded>>

\* Running: a list that cannot be had is an empty one.
Recall(t) ==
    /\ At(t, "climb") /\ ladder[t] = {}
    /\ found' = [found EXCEPT ![t] = IF service = "up" THEN up ELSE {}]
    /\ recorded' = (recorded \/ found'[t] # {})
    /\ Goto(t, "empty")
    /\ UNCHANGED <<worldVars, sleeps, record, due, evidence, probeVars, ladder,
                   tried, wedged>>

\* SaveState: the file is emptied, then written.
EmptyState(t) ==
    /\ At(t, "empty") /\ Goto(t, "write")
    /\ record' = NoRecord
    /\ UNCHANGED <<worldVars, sleeps, due, evidence, found, probeVars, ladder,
                   histVars>>

\* The run is over, and what it knew is gone.
End(t) ==
    /\ Goto(t, "idle")
    /\ evidence' = [evidence EXCEPT ![t] = NoRecord]
    /\ found' = [found EXCEPT ![t] = {}]
    /\ serviceIs' = [serviceIs EXCEPT ![t] = "answers"]
    /\ distroIs' = [distroIs EXCEPT ![t] = "answers"]
    /\ skewSeen' = [skewSeen EXCEPT ![t] = FALSE]
    /\ tried' = [tried EXCEPT ![t] = {}]

WriteState(t) ==
    /\ At(t, "write") /\ End(t)
    /\ record' = [known |-> TRUE, running |-> found[t]]
    /\ UNCHANGED <<worldVars, sleeps, due, ladder, wedged, recorded>>

\* A dry run says what it would try, changes nothing and records nothing.
DryEnd(t) ==
    /\ At(t, "judge") /\ t \in Dry /\ ladder[t] = Undecided
    /\ End(t) /\ ladder' = [ladder EXCEPT ![t] = {}]
    /\ UNCHANGED <<worldVars, sleeps, record, due, wedged, recorded>>

-----------------------------------------------------------------------------

Run(t) ==
    \/ LoadState(t) \/ Status(t) \/ DefaultDistro(t) \/ Exec(t) \/ Judge(t)
    \/ StepClock(t) \/ Climb(t) \/ Recall(t) \/ EmptyState(t)
    \/ WriteState(t) \/ DryEnd(t)

Next ==
    \/ Sleep \/ ServiceStarts
    \/ \E d \in Distro : UserStarts(d) \/ UserStops(d)
    \/ \E t \in Task : Run(t)

Safety == Init /\ [][Next]_vars

\* A task that was started goes on; every call it makes has a deadline.
Spec == Safety /\ \A t \in Task : WF_vars(Run(t))

-----------------------------------------------------------------------------
(* Properties. *)

\* Every variable keeps its type.
TypeOK ==
    /\ service \in {"up", "hung", "down"} /\ up \subseteq Distro
    /\ dead \in BOOLEAN /\ skewed \in BOOLEAN /\ sleeps \in 0..MaxSleeps
    /\ record \in [known : BOOLEAN, running : SUBSET Distro]
    /\ due \subseteq Task
    /\ pc \in [Task -> {"idle", "status", "list", "exec", "judge", "clock",
                        "climb", "empty", "write"}]
    /\ evidence \in [Task -> [known : BOOLEAN, running : SUBSET Distro]]
    /\ found \in [Task -> SUBSET Distro]
    /\ serviceIs \in [Task -> {"answers", "hangs", "refuses"}]
    /\ distroIs \in [Task -> {"answers", "hangs", "refuses", "unknown"}]
    /\ skewSeen \in [Task -> BOOLEAN]
    /\ ladder \in [Task -> {Undecided} \cup SUBSET Rung]
    /\ tried \in [Task -> SUBSET Rung]
    /\ wedged \in BOOLEAN /\ recorded \in BOOLEAN

\* Nothing is ever shut down on a guess: until the service has hung, or some run
\* has really found a distribution up, no task takes any rung, whatever it
\* finds in the file while another writes it ("with no record either way, it
\* still does nothing", guard_test.go:138; Decide, LoadState, SaveState).
NoRungOnAGuess == \A t \in Task : tried[t] # {} => wedged \/ recorded

\* "The cheap ones are tried first and the expensive ones only on evidence that
\* the cheap ones did not work" (guard.go:14): a task takes a rung only when it
\* has taken every permitted one below in the same run, and its probe after
\* the last of them found WSL silent or refusing (Decide, cap, Run).
CheapRungsFirst ==
    [][\A t \in Task : \A r \in tried'[t] \ tried[t] :
           /\ \A q \in Permitted(t) : q < r => q \in tried[t]
           /\ r \in Permitted(t) /\ ~Healthy(t)]_vars

\* A service that hangs is not left hanging: where the trigger of a task with
\* administrator rights fired, it gets to the rung that helps (Run, climb).
Recovers ==
    \A t \in Elevated \ Dry : service = "hung" /\ t \in due ~> service # "hung"
=============================================================================
