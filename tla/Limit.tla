-------------------------------- MODULE Limit --------------------------------
(***************************************************************************)
(* internal/limit: `wslkit limit set` and `limit clear` read what the      *)
(* cgroup of a distribution says, check a new ceiling against what it      *)
(* uses, and have a script inside write one file after the other.  The     *)
(* distribution goes on, restarts with another cgroup, and another         *)
(* terminal gives it other limits.                                         *)
(***************************************************************************)
EXTENDS Integers, Sequences

CONSTANTS
    User,          \* the terminals
    Top,           \* more memory than there is: no limit
    Limits,         \* the limits asked for: records of high, max, swap and cpu
    MaxStarts,     \* bound: starts of the distribution
    MaxLimits      \* bound: commands

ASSUME LimitAssumption ==
    /\ Top \in Nat \ {0, 1} /\ MaxStarts \in Nat /\ MaxLimits \in Nat
    /\ Limits \subseteq [high : 0..Top - 1, max : 0..Top - 1, swap : 0..Top - 1,
                         cpu : 0..Top - 1]
    /\ \A l \in Limits : \E n \in DOMAIN l : l[n] # 0

VARIABLES
    layout,        \* where a write is accepted: inside, from outside, nowhere,
                   \* or there is no cgroup at all
    node,          \* the cgroup: which start it belongs to, 0 when stopped
    starts,
    usage,         \* memory.current
    cgroup,        \* memory.high, memory.max, memory.swap.max and cpu.max
    call,          \* what each terminal does
    calls,
    wrote          \* history: who wrote the throttle

limitVars == <<layout, node, starts, usage, cgroup, call, calls, wrote>>

\* Zero leaves a limit alone.
NoLimits  == [high |-> 0, max |-> 0, swap |-> 0, cpu |-> 0]
Unlimited == [high |-> Top, max |-> Top, swap |-> Top, cpu |-> Top]

\* Plan and Clear.  The throttle comes before the ceiling, and goes after it.
Asked(n, l) == IF l[n] = 0 THEN << >> ELSE <<[to |-> n, value |-> l[n]]>>
Writes(l) == Asked("high", l) \o Asked("max", l) \o Asked("swap", l) \o Asked("cpu", l)
Clears    == <<[to |-> "max", value |-> Top], [to |-> "high", value |-> Top],
               [to |-> "swap", value |-> Top], [to |-> "cpu", value |-> Top]>>

\* state: free, read, or writes; left, when wsl.exe was killed at its timeout
\* while the script goes on.
Resting == [state |-> "free", limits |-> NoLimits, writes |-> << >>, next |-> 1,
            node |-> 0, current |-> 0]

Passed(l, script, current, n) ==
    [state |-> "read", limits |-> l, writes |-> script, next |-> 1, node |-> n,
     current |-> current]

LimitInit ==
    /\ layout \in {"inside", "outside", "nowhere", "none"}
    /\ node = 0 /\ starts = 0 /\ usage = 0 /\ cgroup = Unlimited
    /\ call = [t \in User |-> Resting] /\ calls = 0 /\ wrote = {}

-----------------------------------------------------------------------------
(* The distribution.                                                         *)

\* What wsl.exe does before it runs anything inside.
EnsureStarted ==
    IF node # 0 THEN UNCHANGED <<node, starts, usage, cgroup>>
    ELSE /\ starts < MaxStarts /\ starts' = starts + 1 /\ node' = starts + 1
         /\ usage' = 1 /\ cgroup' = Unlimited

Stop ==
    /\ node # 0 /\ node' = 0 /\ usage' = 0
    /\ UNCHANGED <<layout, starts, cgroup, call, calls, wrote>>

\* It uses more or less; the kernel keeps it below the ceiling.
Uses ==
    /\ node # 0
    /\ usage' \in {u \in {usage - 1, usage + 1} : u > 0 /\ u < Top /\ u <= cgroup.max}
    /\ UNCHANGED <<layout, node, starts, cgroup, call, calls, wrote>>

-----------------------------------------------------------------------------
(* limitSet and limitClear.                                                  *)

\* Mutant: the check is made against the throttle.
CheckThrottle(l, current) == l.high = 0 \/ current = 0 \/ l.high >= current

\* A ceiling below what is used, as far as that could be read, is refused.
CheckAgainstUsage(l, current) == l.max = 0 \/ current = 0 \/ l.max >= current

\* limit.Read, then the check and limitUnwritable, which end the command.
ReadCgroup(t, l) ==
    /\ call[t].state = "free" /\ calls < MaxLimits /\ calls' = calls + 1
    /\ EnsureStarted
    /\ \E current \in {usage', 0} :
        call' = [call EXCEPT ![t] =
            IF layout \in {"none", "nowhere"} THEN Resting
            ELSE IF l = Unlimited THEN Passed(l, Clears, current, node')
            ELSE IF CheckAgainstUsage(l, current) THEN Passed(l, Writes(l), current, node')
            ELSE Resting]
    /\ UNCHANGED <<layout, wrote>>

\* limit.Apply: the node is found again, in the shell that writes.
Apply(t) ==
    /\ call[t].state = "read" /\ EnsureStarted
    /\ call' = [call EXCEPT ![t].state = "writes", ![t].next = 1,
                    ![t].current = IF node' = call[t].node THEN @ ELSE 0,
                    ![t].node = node']
    /\ UNCHANGED <<layout, calls, wrote>>

\* One line of the script.  A throttle has the kernel reclaim, a ceiling has it
\* kill, until the figure fits; the first write that fails is the last.
WriteNext(t) ==
    LET c == call[t] w == c.writes[c.next] IN
    /\ c.state \in {"writes", "left"} /\ c.node = node
    /\ \/ /\ cgroup' = [cgroup EXCEPT ![w.to] = w.value]
          /\ usage' \in CASE w.to = "max"  -> {IF usage > w.value THEN w.value ELSE usage}
                          [] w.to = "high" -> {u \in 1..usage : u = usage \/ u = w.value}
                          [] OTHER         -> {usage}
          /\ wrote' = IF w.to = "high" THEN {t} ELSE wrote
          /\ call' = [call EXCEPT ![t] = IF c.next = Len(c.writes) THEN Resting
                                         ELSE [c EXCEPT !.next = @ + 1]]
       \/ call' = [call EXCEPT ![t] = Resting] /\ UNCHANGED <<cgroup, usage, wrote>>
    /\ UNCHANGED <<layout, node, starts, calls>>

\* The script has gone with the distribution.
ScriptGone(t) ==
    /\ call[t].state \in {"writes", "left"} /\ call[t].node # node
    /\ call' = [call EXCEPT ![t] = Resting]
    /\ UNCHANGED <<layout, node, starts, usage, cgroup, calls, wrote>>

\* The timeout of Apply.
GivesUp(t) ==
    /\ call[t].state = "writes" /\ call' = [call EXCEPT ![t].state = "left"]
    /\ UNCHANGED <<layout, node, starts, usage, cgroup, calls, wrote>>

LimitNext ==
    \/ Stop \/ Uses
    \/ \E t \in User :
        \/ \E l \in Limits \cup {Unlimited} : ReadCgroup(t, l)
        \/ Apply(t) \/ WriteNext(t) \/ ScriptGone(t) \/ GivesUp(t)

-----------------------------------------------------------------------------
(* Properties. *)

LimitTypeOK ==
    /\ node \in 0..starts /\ usage \in 0..Top - 1 /\ (usage = 0) = (node = 0)
    /\ \A n \in DOMAIN cgroup : cgroup[n] \in 1..Top
    /\ node # 0 => usage <= cgroup.max

\* A ceiling that is written kills only what came since the figure was read, or
\* when it could not be: "the check that stops a typo from killing somebody's
\* build" (limit_windows.go:182).  And where a throttle was asked for as well, it
\* is there before the ceiling is, so that the distribution "starts being
\* throttled before it starts being killed" (limit.go:72-74), unless another
\* terminal has lifted it since (Plan, CheckAgainstUsage, WriteScript).
CeilingsAreSafe ==
    [][\A t \in User :
        LET c == call[t] w == c.writes[c.next] IN
        WriteNext(t) /\ cgroup'.max # cgroup.max /\ w.to = "max" =>
            /\ usage > w.value => usage > c.current
            /\ c.limits.high # 0 /\ c.limits # Unlimited =>
                   cgroup.high = c.limits.high \/ wrote # {t}]_limitVars
=============================================================================
