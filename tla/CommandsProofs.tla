---------------------------- MODULE CommandsProofs ----------------------------
(***************************************************************************)
(* Theorems about Guard, for any distributions, tasks, options and number  *)
(* of sleeps; and about Top, for any rows and machines and any number of   *)
(* restarts, as a part of Commands.                                        *)
(***************************************************************************)
EXTENDS Commands, FiniteSetTheorems, TLAPS

\* A rung is on a ladder only where it is permitted, and no ladder that was
\* decided is Undecided.
LEMMA Rungs ==
    /\ \A t \in Task : Permitted(t) \subseteq Rung /\ Decide(t) \subseteq Permitted(t)
    /\ \A s \in SUBSET Rung : s # Undecided
BY DEF Permitted, Decide, Rung, Undecided

\* Where a task climbs or has climbed, its ladder was decided.
Decided ==
    \A t \in Task : pc[t] \in {"idle", "clock", "climb", "empty", "write"} =>
                       ladder[t] # Undecided

\* A record is no record, or it is of distributions.
LEMMA Records == NoRecord \in [known : BOOLEAN, running : SUBSET Distro]
BY DEF NoRecord

LEMMA InitType == Init => TypeOK
<1> SUFFICES ASSUME Init
             PROVE  TypeOK
    OBVIOUS
<1>1. wedged \in BOOLEAN /\ recorded \in BOOLEAN /\ dead \in BOOLEAN /\ skewed \in BOOLEAN
    BY DEF Init
<1>2. sleeps \in 0..MaxSleeps
    BY GuardAssumption DEF Init
<1>3. /\ evidence \in [Task -> [known : BOOLEAN, running : SUBSET Distro]]
      /\ skewSeen \in [Task -> BOOLEAN]
    BY Records DEF Init
<1> QED
    BY <1>1, <1>2, <1>3, Records DEF Init, TypeOK

LEMMA StepType == TypeOK /\ Decided /\ [Next]_vars => TypeOK'
<1> SUFFICES ASSUME TypeOK, Decided, [Next]_vars
             PROVE  TypeOK'
    OBVIOUS
<1> USE DEF worldVars, probeVars, runVars, histVars
<1>1. CASE UNCHANGED vars
    BY <1>1 DEF TypeOK, vars
<1>2. CASE Sleep
    <2>1. wedged' \in BOOLEAN /\ recorded' \in BOOLEAN
        BY <1>2 DEF TypeOK, Sleep
    <2>2. dead' \in BOOLEAN /\ skewed' \in BOOLEAN
        BY <1>2 DEF TypeOK, Sleep
    <2>3. sleeps' \in 0..MaxSleeps
        BY <1>2, GuardAssumption DEF TypeOK, Sleep
    <2>4. record' \in [known : BOOLEAN, running : SUBSET Distro]
        BY <1>2, Records DEF TypeOK, Sleep
    <2> QED
        BY <1>2, <2>1, <2>2, <2>3, <2>4 DEF TypeOK, Sleep
<1>3. CASE ServiceStarts
    BY <1>3 DEF TypeOK, ServiceStarts
<1>4. CASE \E d \in Distro : UserStarts(d) \/ UserStops(d)
    BY <1>4 DEF TypeOK, UserStarts, UserStops
<1>5. ASSUME NEW t \in Task, Run(t)
      PROVE  TypeOK'
    <2>1. CASE LoadState(t)
        BY <2>1 DEF TypeOK, LoadState, Goto
    <2>2. CASE Status(t)
        <3>1. serviceIs' \in [Task -> {"answers", "hangs", "refuses"}]
            BY <2>2 DEF TypeOK, Status
        <3> QED
            BY <2>2, <3>1 DEF TypeOK, Status, Goto
    <2>3. CASE DefaultDistro(t)
        BY <2>3 DEF TypeOK, DefaultDistro, Goto
    <2>4. CASE Exec(t)
        <3>1. /\ distroIs' \in [Task -> {"answers", "hangs", "refuses", "unknown"}]
              /\ skewSeen' \in [Task -> BOOLEAN]
            BY <2>4 DEF TypeOK, Exec
        <3> QED
            BY <2>4, <3>1, GuardAssumption DEF TypeOK, Exec, Goto
    <2>5. CASE Judge(t)
        <3>1. ladder' \in [Task -> {Undecided} \cup SUBSET Rung]
            BY <2>5, Rungs DEF TypeOK, Judge
        <3> QED
            BY <2>5, <3>1 DEF TypeOK, Judge, Goto
    <2>6. CASE StepClock(t)
        BY <2>6 DEF TypeOK, StepClock, Goto
    <2>7. CASE Climb(t)
        <3>1. PICK r \in ladder[t] :
                   /\ Effect(r) /\ ladder' = [ladder EXCEPT ![t] = @ \ {r}]
                   /\ tried' = [tried EXCEPT ![t] = @ \cup {r}]
            BY <2>7 DEF Climb
        <3>2. ladder[t] \in SUBSET Rung
            BY <2>7 DEF TypeOK, Decided, Climb, At
        <3>3. /\ ladder' \in [Task -> {Undecided} \cup SUBSET Rung]
              /\ tried' \in [Task -> SUBSET Rung]
            BY <3>1, <3>2 DEF TypeOK
        <3>4. /\ service' \in {"up", "hung", "down"} /\ up' \subseteq Distro
              /\ dead' \in BOOLEAN /\ skewed' \in BOOLEAN
            BY <3>1 DEF TypeOK, Effect, VMStops, VMStays
        <3> QED
            BY <2>7, <3>3, <3>4 DEF TypeOK, Climb, Goto
    <2>8. CASE Recall(t)
        <3>1. recorded' \in BOOLEAN
            BY <2>8 DEF TypeOK, Recall
        <3> QED
            BY <2>8, <3>1 DEF TypeOK, Recall, Goto
    <2>9. CASE EmptyState(t)
        BY <2>9, Records DEF TypeOK, EmptyState, Goto
    <2>10. CASE WriteState(t)
        BY <2>10, Records DEF TypeOK, WriteState, End, Goto
    <2>11. CASE DryEnd(t)
        BY <2>11, Records DEF TypeOK, DryEnd, End, Goto
    <2> QED
        BY <1>5, <2>1, <2>2, <2>3, <2>4, <2>5, <2>6, <2>7, <2>8, <2>9, <2>10, <2>11
           DEF Run
<1> QED
    BY <1>1, <1>2, <1>3, <1>4, <1>5 DEF Next

LEMMA StepDecided == TypeOK /\ Decided /\ [Next]_vars => Decided'
<1> SUFFICES ASSUME TypeOK, Decided, [Next]_vars
             PROVE  Decided'
    OBVIOUS
<1> USE DEF worldVars, probeVars, runVars, histVars
<1>1. CASE UNCHANGED vars
    BY <1>1 DEF Decided, vars
<1>2. CASE Sleep \/ ServiceStarts \/ \E d \in Distro : UserStarts(d) \/ UserStops(d)
    BY <1>2 DEF Decided, Sleep, ServiceStarts, UserStarts, UserStops
<1>3. ASSUME NEW t \in Task, Run(t)
      PROVE  Decided'
    <2> USE DEF TypeOK, Decided, Goto, At
    <2>1. CASE LoadState(t) \/ Status(t) \/ DefaultDistro(t) \/ Exec(t)
        BY <2>1 DEF LoadState, Status, DefaultDistro, Exec
    <2>2. CASE Judge(t)
        <3>1. Decide(t) # Undecided /\ {} # Undecided
            BY Rungs DEF Undecided
        <3> QED
            BY <2>2, <3>1 DEF Judge
    <2>3. CASE StepClock(t) \/ Climb(t) \/ Recall(t) \/ EmptyState(t) \/ WriteState(t)
        BY <2>3 DEF StepClock, Climb, Recall, EmptyState, WriteState, End
    <2>4. CASE DryEnd(t)
        BY <2>4 DEF DryEnd, End, Undecided
    <2> QED
        BY <1>3, <2>1, <2>2, <2>3, <2>4 DEF Run
<1> QED
    BY <1>1, <1>2, <1>3 DEF Next

LEMMA InitDecided == Init => Decided
BY DEF Init, Decided, Undecided

\* Every variable of the guard keeps its type, whatever the machine does between
\* two calls of a task (run-once, Check, climb, SaveState).
THEOREM Typing == Safety => []TypeOK
<1> QED
    BY InitType, InitDecided, StepType, StepDecided, PTL DEF Safety

-----------------------------------------------------------------------------
(* What makes a task act.                                                    *)

\* The service hung, or somebody was found running: that is what a ladder, a
\* rung, and everything they are decided by come from.
Reason == wedged \/ recorded

TaskGuess(t) ==
    /\ evidence[t].running # {} => recorded
    /\ found[t] # {} => recorded
    /\ serviceIs[t] = "hangs" => wedged
    /\ ladder[t] \notin {Undecided, {}} => Reason
    /\ tried[t] # {} => Reason

GuessInv ==
    /\ service = "hung" => wedged
    /\ record.running # {} => recorded
    /\ \A t \in Task : TaskGuess(t)

\* What has happened has happened, and another task's run is its own.
LEMMA OthersGuess ==
    ASSUME TypeOK, Decided, GuessInv, NEW u \in Task, NEW t \in Task, Run(t),
           u # t
    PROVE  TaskGuess(u)'
<1> USE DEF worldVars, probeVars, runVars, histVars
<1>1. (wedged => wedged') /\ (recorded => recorded')
    <2>1. CASE Recall(t)
        BY <2>1 DEF Recall
    <2>2. CASE ~Recall(t)
        <3>1. UNCHANGED <<wedged, recorded>>
            BY <2>2 DEF Run, LoadState, Status, DefaultDistro, Exec, Judge,
               StepClock, Climb, EmptyState, WriteState, DryEnd
        <3> QED
            BY <3>1
    <2> QED
        BY <2>1, <2>2
<1>2. /\ evidence'[u] = evidence[u] /\ found'[u] = found[u]
      /\ serviceIs'[u] = serviceIs[u] /\ ladder'[u] = ladder[u]
      /\ pc'[u] = pc[u] /\ tried'[u] = tried[u]
    <2>1. CASE LoadState(t) \/ Status(t) \/ DefaultDistro(t) \/ Exec(t)
        BY <2>1 DEF TypeOK, LoadState, Status, DefaultDistro, Exec, Goto
    <2>2. CASE Judge(t) \/ StepClock(t) \/ Climb(t)
        BY <2>2 DEF TypeOK, Judge, StepClock, Climb, Goto
    <2>3. CASE Recall(t) \/ EmptyState(t) \/ WriteState(t) \/ DryEnd(t)
        BY <2>3 DEF TypeOK, Recall, EmptyState, WriteState, DryEnd, End, Goto
    <2> QED
        BY <2>1, <2>2, <2>3 DEF Run
<1>3. TaskGuess(u)
    BY DEF GuessInv
<1> QED
    BY <1>1, <1>2, <1>3 DEF TaskGuess, Reason

\* The steps of a task itself.
LEMMA OwnGuess ==
    ASSUME TypeOK, Decided, GuessInv, NEW t \in Task, Run(t)
    PROVE  TaskGuess(t)' /\ (service' = "hung" => wedged') /\ (record'.running # {} => recorded')
<1> USE DEF worldVars, probeVars, runVars, histVars
<1>0. TaskGuess(t) /\ (service = "hung" => wedged) /\ (record.running # {} => recorded)
    BY DEF GuessInv
<1>1. CASE LoadState(t)
    <2>1. /\ evidence'[t] = record /\ ladder'[t] = Undecided /\ pc'[t] = "status"
        BY <1>1 DEF TypeOK, LoadState, Goto
    <2> QED
        BY <1>0, <1>1, <2>1 DEF LoadState, TaskGuess, Reason
<1>2. CASE Status(t)
    <2>1. /\ pc'[t] \in {"list", "judge"}
          /\ serviceIs'[t] = "hangs" => service = "hung"
        BY <1>2 DEF TypeOK, Status, Goto
    <2> QED
        BY <1>0, <1>2, <2>1 DEF Status, TaskGuess, Reason
<1>3. CASE DefaultDistro(t)
    <2>1. pc'[t] \in {"exec", "judge"}
        BY <1>3 DEF TypeOK, DefaultDistro, Goto
    <2> QED
        BY <1>0, <1>3, <2>1 DEF DefaultDistro, TaskGuess, Reason
<1>4. CASE Exec(t)
    <2>1. pc'[t] = "judge"
        BY <1>4 DEF TypeOK, Exec, Goto
    <2> QED
        BY <1>0, <1>4, <2>1 DEF Exec, TaskGuess, Reason
<1>5. CASE Judge(t)
    <2>1. /\ pc'[t] \in {"clock", "climb"}
          /\ \/ ladder'[t] = Decide(t)
             \/ ladder[t] # Undecided /\ ladder'[t] \in {{}, ladder[t]}
        BY <1>5 DEF TypeOK, Judge, Goto
    <2>2. Decide(t) # {} => Reason
        BY <1>0 DEF Decide, TaskGuess, Reason
    <2>3. Decide(t) # Undecided /\ {} # Undecided
        BY Rungs DEF Undecided
    <2> QED
        BY <1>0, <1>5, <2>1, <2>2, <2>3 DEF Judge, TaskGuess, Reason
<1>6. CASE StepClock(t)
    <2>1. pc[t] = "clock" /\ pc'[t] = "climb"
        BY <1>6 DEF TypeOK, StepClock, Goto, At
    <2> QED
        BY <1>0, <1>6, <2>1 DEF StepClock, TaskGuess, Reason
<1>7. CASE Climb(t)
    <2>1. PICK r \in ladder[t] :
               Effect(r) /\ ladder'[t] = ladder[t] \ {r} /\ tried'[t] = tried[t] \cup {r}
        BY <1>7 DEF TypeOK, Climb
    <2>2. pc[t] = "climb" /\ pc'[t] = "status"
        BY <1>7 DEF TypeOK, Climb, Goto, At
    <2>3. Reason
        BY <1>0, <2>1, <2>2 DEF TaskGuess, Decided
    <2>4. service' = "hung" => service = "hung"
        BY <2>1 DEF Effect
    <2> QED
        BY <1>0, <1>7, <2>2, <2>3, <2>4 DEF Climb, TaskGuess, Reason
<1>8. CASE Recall(t)
    <2>1. /\ pc[t] = "climb" /\ pc'[t] = "empty"
          /\ found'[t] # {} => recorded'
          /\ recorded => recorded'
        BY <1>8 DEF TypeOK, Recall, Goto, At
    <2> QED
        BY <1>0, <1>8, <2>1 DEF Recall, TaskGuess, Reason
<1>9. CASE EmptyState(t)
    <2>1. pc[t] = "empty" /\ pc'[t] = "write" /\ record'.running = {}
        BY <1>9 DEF TypeOK, EmptyState, Goto, At, NoRecord
    <2> QED
        BY <1>0, <1>9, <2>1 DEF EmptyState, TaskGuess, Reason
<1>10. CASE WriteState(t)
    <2>1. /\ pc[t] = "write" /\ pc'[t] = "idle" /\ record'.running = found[t]
          /\ evidence'[t].running = {} /\ found'[t] = {} /\ serviceIs'[t] = "answers"
          /\ tried'[t] = {}
        BY <1>10 DEF TypeOK, WriteState, End, Goto, At, NoRecord
    <2> QED
        BY <1>0, <1>10, <2>1 DEF WriteState, TaskGuess, Reason
<1>11. CASE DryEnd(t)
    <2>1. /\ pc'[t] = "idle" /\ ladder'[t] = {}
          /\ evidence'[t].running = {} /\ found'[t] = {} /\ serviceIs'[t] = "answers"
          /\ tried'[t] = {}
        BY <1>11 DEF TypeOK, DryEnd, End, Goto, NoRecord
    <2>2. {} # Undecided
        BY DEF Undecided
    <2> QED
        BY <1>0, <1>11, <2>1, <2>2 DEF DryEnd, TaskGuess, Reason
<1> QED
    BY <1>1, <1>2, <1>3, <1>4, <1>5, <1>6, <1>7, <1>8, <1>9, <1>10, <1>11 DEF Run

LEMMA StepGuess == TypeOK /\ Decided /\ GuessInv /\ [Next]_vars => GuessInv'
<1> SUFFICES ASSUME TypeOK, Decided, GuessInv, [Next]_vars
             PROVE  GuessInv'
    OBVIOUS
<1> USE DEF worldVars, probeVars, runVars, histVars
<1>1. CASE UNCHANGED vars
    BY <1>1 DEF GuessInv, TaskGuess, Reason, vars
<1>2. CASE Sleep
    <2>1. service' = "hung" => wedged'
        BY <1>2 DEF Sleep
    <2>2. wedged => wedged'
        BY <1>2 DEF Sleep
    <2>3. record'.running # {} => recorded'
        BY <1>2 DEF Sleep, GuessInv, NoRecord
    <2> QED
        BY <1>2, <2>1, <2>2, <2>3 DEF Sleep, GuessInv, TaskGuess, Reason
<1>3. CASE ServiceStarts
    BY <1>3 DEF ServiceStarts, GuessInv, TaskGuess, Reason
<1>4. CASE \E d \in Distro : UserStarts(d) \/ UserStops(d)
    BY <1>4 DEF UserStarts, UserStops, GuessInv, TaskGuess, Reason
<1>5. ASSUME NEW t \in Task, Run(t)
      PROVE  GuessInv'
    BY <1>5, OwnGuess, OthersGuess DEF GuessInv
<1> QED
    BY <1>1, <1>2, <1>3, <1>4, <1>5 DEF Next

\* No task takes a rung before the service has hung or some run has found a
\* distribution up, whatever the tasks write over each other's record (Decide,
\* LoadState, SaveState).
THEOREM NeverOnAGuess == Safety => []NoRungOnAGuess
<1>1. Init => GuessInv
    BY DEF Init, GuessInv, TaskGuess, Reason, NoRecord, Undecided
<1>2. GuessInv => NoRungOnAGuess
    BY DEF GuessInv, TaskGuess, Reason, NoRungOnAGuess
<1> QED
    BY <1>1, <1>2, InitType, InitDecided, StepType, StepDecided,
       StepGuess, PTL DEF Safety

-----------------------------------------------------------------------------
(* The order of the rungs.                                                   *)

\* What is still to be climbed is permitted, and what is permitted below it is
\* to be climbed, too, or has been.
TaskCheap(t) ==
    /\ ladder[t] # Undecided =>
           /\ ladder[t] \subseteq Permitted(t)
           /\ \A r \in ladder[t], q \in Permitted(t) :
                  q < r => q \in ladder[t] \/ q \in tried[t]
    /\ pc[t] \in {"clock", "climb"} /\ ladder[t] # {} => ~Healthy(t)
    /\ pc[t] \in {"idle", "empty", "write"} => ladder[t] = {}

CheapInv == \A t \in Task : TaskCheap(t)

LEMMA OthersCheap ==
    ASSUME TypeOK, CheapInv, NEW u \in Task, NEW t \in Task, Run(t), u # t
    PROVE  TaskCheap(u)' /\ tried'[u] = tried[u]
<1> USE DEF worldVars, probeVars, runVars, histVars
<1>1. /\ serviceIs'[u] = serviceIs[u] /\ distroIs'[u] = distroIs[u]
      /\ ladder'[u] = ladder[u] /\ pc'[u] = pc[u] /\ tried'[u] = tried[u]
    <2>1. CASE LoadState(t) \/ Status(t) \/ DefaultDistro(t) \/ Exec(t)
        BY <2>1 DEF TypeOK, LoadState, Status, DefaultDistro, Exec, Goto
    <2>2. CASE Judge(t) \/ StepClock(t) \/ Climb(t)
        BY <2>2 DEF TypeOK, Judge, StepClock, Climb, Goto
    <2>3. CASE Recall(t) \/ EmptyState(t) \/ WriteState(t) \/ DryEnd(t)
        BY <2>3 DEF TypeOK, Recall, EmptyState, WriteState, DryEnd, End, Goto
    <2> QED
        BY <2>1, <2>2, <2>3 DEF Run
<1> QED
    BY <1>1 DEF CheapInv, TaskCheap, Healthy, Permitted

LEMMA OwnCheap ==
    ASSUME TypeOK, Decided, CheapInv, NEW t \in Task, Run(t)
    PROVE  TaskCheap(t)'
<1> USE DEF worldVars, probeVars, runVars, histVars
<1>0. TaskCheap(t)
    BY DEF CheapInv
<1>p. Permitted(t)' = Permitted(t)
    BY DEF Permitted
<1>1. CASE LoadState(t)
    <2>1. ladder'[t] = Undecided /\ pc'[t] = "status"
        BY <1>1 DEF TypeOK, LoadState, Goto
    <2> QED
        BY <2>1 DEF TaskCheap
<1>2. CASE Status(t) \/ DefaultDistro(t) \/ Exec(t)
    <2>1. /\ pc'[t] \in {"list", "exec", "judge"}
          /\ ladder' = ladder /\ tried' = tried
        BY <1>2 DEF TypeOK, Status, DefaultDistro, Exec, Goto
    <2> QED
        BY <1>0, <1>p, <2>1 DEF TaskCheap
<1>3. CASE Judge(t)
    <2>1. /\ pc'[t] \in {"clock", "climb"} /\ tried' = tried
          /\ serviceIs' = serviceIs /\ distroIs' = distroIs
        BY <1>3 DEF TypeOK, Judge, Goto
    <2>2. Healthy(t)' = Healthy(t)
        BY <2>1 DEF Healthy
    <2>3. CASE ladder[t] = Undecided
        <3>1. ladder'[t] = Decide(t)
            BY <1>3, <2>3 DEF TypeOK, Judge
        <3>2. Decide(t) # {} => Decide(t) = Permitted(t) /\ ~Healthy(t)
            BY DEF Decide, Healthy
        <3> QED
            BY <1>p, <2>1, <2>2, <3>1, <3>2 DEF TaskCheap
    <2>4. CASE ladder[t] # Undecided
        <3>1. ladder'[t] = IF Healthy(t) THEN {} ELSE ladder[t]
            BY <1>3, <2>4 DEF TypeOK, Judge
        <3> QED
            BY <1>0, <1>p, <2>1, <2>2, <2>4, <3>1 DEF TaskCheap
    <2> QED
        BY <2>3, <2>4
<1>4. CASE StepClock(t)
    <2>1. /\ pc[t] = "clock" /\ pc'[t] = "climb" /\ tried' = tried /\ ladder' = ladder
          /\ serviceIs' = serviceIs /\ distroIs' = distroIs
        BY <1>4 DEF TypeOK, StepClock, Goto, At
    <2> QED
        BY <1>0, <1>p, <2>1 DEF TaskCheap, Healthy
<1>5. CASE Climb(t)
    <2>1. PICK r \in ladder[t] :
               /\ \A q \in ladder[t] : r <= q
               /\ ladder'[t] = ladder[t] \ {r} /\ tried'[t] = tried[t] \cup {r}
        BY <1>5 DEF TypeOK, Climb
    <2>2. pc[t] = "climb" /\ pc'[t] = "status"
        BY <1>5 DEF TypeOK, Climb, Goto, At
    <2>3. ladder[t] # Undecided
        BY <2>2 DEF Decided
    <2> QED
        BY <1>0, <1>p, <2>1, <2>2, <2>3 DEF TaskCheap
<1>6. CASE Recall(t) \/ EmptyState(t)
    <2>1. /\ pc'[t] \in {"empty", "write"} /\ ladder[t] = {} /\ ladder' = ladder
        BY <1>0, <1>6 DEF TypeOK, Recall, EmptyState, Goto, At, TaskCheap
    <2> QED
        BY <2>1 DEF TaskCheap
<1>7. CASE WriteState(t) \/ DryEnd(t)
    <2>1. pc'[t] = "idle" /\ ladder'[t] = {}
        BY <1>0, <1>7 DEF TypeOK, WriteState, DryEnd, End, Goto, At, TaskCheap
    <2> QED
        BY <2>1 DEF TaskCheap
<1> QED
    BY <1>1, <1>2, <1>3, <1>4, <1>5, <1>6, <1>7 DEF Run

LEMMA StepCheap == TypeOK /\ Decided /\ CheapInv /\ [Next]_vars => CheapInv'
<1> SUFFICES ASSUME TypeOK, Decided, CheapInv, [Next]_vars
             PROVE  CheapInv'
    OBVIOUS
<1>1. CASE UNCHANGED vars \/ Sleep \/ ServiceStarts
           \/ \E d \in Distro : UserStarts(d) \/ UserStops(d)
    <2>1. UNCHANGED <<ladder, tried, pc, serviceIs, distroIs>>
        BY <1>1 DEF vars, Sleep, ServiceStarts, UserStarts, UserStops, runVars,
           probeVars, histVars
    <2> QED
        BY <2>1 DEF CheapInv, TaskCheap, Healthy, Permitted
<1>2. ASSUME NEW t \in Task, Run(t)
      PROVE  CheapInv'
    BY <1>2, OwnCheap, OthersCheap DEF CheapInv
<1> QED
    BY <1>1, <1>2 DEF Next

\* The rung that is taken is the cheapest one left.
LEMMA CheapestTaken ==
    TypeOK /\ Decided /\ CheapInv /\ [Next]_vars =>
        \A t \in Task : \A r \in tried'[t] \ tried[t] :
            /\ \A q \in Permitted(t) : q < r => q \in tried[t]
            /\ r \in Permitted(t) /\ ~Healthy(t)
<1> SUFFICES ASSUME TypeOK, Decided, CheapInv, [Next]_vars,
                    NEW t \in Task, NEW r \in tried'[t] \ tried[t]
             PROVE  /\ \A q \in Permitted(t) : q < r => q \in tried[t]
                    /\ r \in Permitted(t) /\ ~Healthy(t)
    OBVIOUS
<1>1. Climb(t)
    <2>1. CASE UNCHANGED vars \/ Sleep \/ ServiceStarts
               \/ \E d \in Distro : UserStarts(d) \/ UserStops(d)
        BY <2>1 DEF vars, histVars, Sleep, ServiceStarts, UserStarts, UserStops
    <2>2. ASSUME NEW u \in Task, Run(u), u # t
          PROVE  FALSE
        BY <2>2, OthersCheap
    <2>3. ASSUME Run(t)
          PROVE  Climb(t)
        BY <2>3 DEF Run, TypeOK, LoadState, Status, DefaultDistro, Exec, Judge,
           StepClock, Recall, EmptyState, WriteState, DryEnd, End, histVars
    <2> QED
        BY <2>1, <2>2, <2>3 DEF Next
<1>2. /\ r \in ladder[t] /\ \A q \in ladder[t] : r <= q
    BY <1>1 DEF TypeOK, Climb
<1>3. pc[t] = "climb" /\ ladder[t] # Undecided
    BY <1>1 DEF Climb, At, Decided
<1>4. TaskCheap(t)
    BY DEF CheapInv
<1>5. ladder[t] \subseteq 1..4 /\ Permitted(t) \subseteq 1..4
    BY <1>3, <1>4 DEF TaskCheap, Permitted, Rung
<1> QED
    BY <1>2, <1>3, <1>4, <1>5 DEF TaskCheap

\* A task takes a rung only after every permitted one below it, and after a probe
\* that found WSL still silent or refusing (Decide, cap, climb, Run).
THEOREM CheapFirst == Safety => CheapRungsFirst
<1>1. Init => CheapInv
    BY DEF Init, CheapInv, TaskCheap
<1> QED
    BY <1>1, InitType, InitDecided, StepType, StepDecided, StepCheap, CheapestTaken,
       PTL DEF Safety, CheapRungsFirst
-----------------------------------------------------------------------------
(* What top shows, for any rows, machines, bounds of work and restarts.      *)

Reading ==
    [ok : BOOLEAN, since : Nat, raced : BOOLEAN, at : Int, time : Nat, vm : Int,
     cpu : Int, until : Nat, vmAt : Int, vmTime : Nat]

Underway == {"walk", "rest", "uptime", "clock", "count", "vm"}

\* A clock that was read is that of a VM that had booted by then.
ClockOK(x) == x.at = x.time - x.vm + 1 /\ 0 <= x.vm /\ x.vm <= x.time

\* What was read is not less than what was used up to the question, since the
\* row last started: what it had used before is w - s at the least.
CountOK(x, w, s) == ~x.raced => x.since + s <= x.cpu + w

\* No more was used between two readings than the row's programs did.
Apart(b, x) == b.ok /\ ~b.raced /\ ~x.raced => b.since + x.cpu <= b.cpu + x.until

\* The reading x of a row whose measurement is at step p; b is that of the sweep
\* before, w what the row ever used, s what since it started, c of that its child;
\* h is when its VM booted, runs whether it runs.
RowOK(x, p, b, w, s, c, h, runs, now, first, how) ==
    /\ x.ok => p = "done"
    /\ p \in Underway => runs /\ x.since <= w
    /\ p \in {"walk", "rest", "uptime"} => how = "processes"
    /\ p = "rest" /\ ~x.raced =>
           IF first THEN x.cpu <= c /\ x.since + c <= w + x.cpu ELSE x.cpu = s - c
    /\ x.ok \/ p \in {"uptime", "vm"} => CountOK(x, w, s) /\ Apart(b, x)
    /\ x.ok \/ p \in {"count", "vm"} =>
           ClockOK(x) /\ x.time <= now /\ (b.ok => b.time < x.time)
    /\ p \in {"count", "vm"} => x.vm = h
    /\ x.ok => x.vmTime <= now /\ x.vmAt = x.vmTime - x.vm + 1

Rowwise(r) ==
    RowOK(reading[r], sampling[r], last.rows[r], worked[r], spent[r], child[r],
          boot[HostOf(r)], Runs(r), clock, childFirst, method)

\* A row of a report stays true while the row goes on.
OldOK(x, w, s) == x.ok => ClockOK(x) /\ CountOK(x, w, s)

PairOK(b, a) == a.ok /\ b.ok => b.time < a.time /\ Apart(b, a)

TopTyped ==
    /\ scene \in Scenes /\ clock \in Nat /\ lives \subseteq Inner
    /\ boot \in [VM -> Int] /\ spent \in [Row -> Nat] /\ worked \in [Row -> Nat]
    /\ child \in [Row -> Nat] /\ childFirst \in BOOLEAN
    /\ sampling \in [Row -> SampleSteps] /\ reading \in [Row -> Reading]
    /\ last.rows \in [Row -> Reading] /\ this.rows \in [Row -> Reading]
    /\ this.ended \in Nat /\ sampledAt \in Nat

MachineOK ==
    /\ \A r \in Row : child[r] <= spent[r] /\ spent[r] <= worked[r]
    /\ \A v \in VM : boot[v] <= clock /\ (boot[v] = Down \/ 0 <= boot[v])
    /\ lives # {} => boot["utility"] # Down

\* The sweep: its parts are in order, and the sweep before ended before it began.
SweepOK ==
    /\ does = "host" =>
           /\ sampledAt <= clock
           /\ \A r \in Inner : /\ sampling[r] \in {"idle", "done"}
                               /\ reading[r].ok => reading[r].vmTime <= sampledAt
    /\ does = "shown" => \A r \in Row : sampling[r] = "idle" /\ ~reading[r].ok
    /\ does # "shown" => \A r \in Row : last.rows[r].ok => last.rows[r].time < clock
    /\ does # "shown" => this = NoReport

ReportsOK ==
    \A r \in Row :
        /\ OldOK(last.rows[r], worked[r], spent[r])
        /\ OldOK(this.rows[r], worked[r], spent[r])
        /\ this.rows[r].ok => this.rows[r].time <= this.ended
        /\ PairOK(last.rows[r], this.rows[r])

\* The inductive invariant of top.
TopInv ==
    /\ TopTyped /\ MachineOK /\ SweepOK /\ ReportsOK /\ VMsAreTold
    /\ \A r \in Row : Rowwise(r)

\* Facts about one row.

\* A reading of nothing is one.
LEMMA BlankReading == NoReading \in Reading /\ ~NoReading.ok
BY DEF NoReading, Reading, Down

\* A row that is not measured, and has no answer, owes nothing.
LEMMA RowRests ==
    ASSUME NEW x, NEW p, p \notin Underway, ~x.ok,
           NEW b, NEW w, NEW s, NEW c, NEW h, NEW runs, NEW now, NEW first, NEW how
    PROVE  RowOK(x, p, b, w, s, c, h, runs, now, first, how)
BY DEF RowOK, Underway

\* Time passes, and what happens to its VM does not concern a row that is not
\* measured.
LEMMA RowWaits ==
    ASSUME NEW x \in Reading, NEW p, NEW b, NEW w, NEW s, NEW c, NEW h, NEW runs,
           NEW now \in Nat, NEW first, NEW how,
           RowOK(x, p, b, w, s, c, h, runs, now, first, how),
           NEW later \in Nat, now <= later, NEW h2, NEW runs2,
           p \in Underway => h2 = h /\ (runs => runs2)
    PROVE  RowOK(x, p, b, w, s, c, h2, runs2, later, first, how)
<1>1. x.time \in Nat /\ x.vmTime \in Nat
    BY DEF Reading
<1>2. (x.time <= now => x.time <= later) /\ (x.vmTime <= now => x.vmTime <= later)
    BY <1>1
<1>3. p \in {"count", "vm"} => p \in Underway
    BY DEF Underway
<1> QED
    BY <1>2, <1>3 DEF RowOK

\* The row's programs use a unit.
LEMMA RowWorks ==
    ASSUME NEW x \in Reading, NEW p, NEW b \in Reading, NEW w \in Nat, NEW s \in Nat, NEW c \in Nat,
           NEW h, NEW runs, NEW now, NEW first, NEW how,
           RowOK(x, p, b, w, s, c, h, runs, now, first, how),
           NEW c2, c2 = IF how = "processes" THEN c + 1 ELSE c
    PROVE  RowOK(x, p, b, w + 1, s + 1, c2, h, runs, now, first, how)
<1>1. x.since \in Nat /\ x.cpu \in Int /\ x.raced \in BOOLEAN
    BY DEF Reading
<1>2. x.since <= w => x.since <= w + 1
    BY <1>1
<1>3. CountOK(x, w, s) => CountOK(x, w + 1, s + 1)
    BY <1>1 DEF CountOK
<1>4. p = "rest" /\ ~x.raced =>
           IF first THEN x.cpu <= c2 /\ x.since + c2 <= w + 1 + x.cpu ELSE x.cpu = s + 1 - c2
    <2> SUFFICES ASSUME p = "rest", ~x.raced
                 PROVE  IF first THEN x.cpu <= c2 /\ x.since + c2 <= w + 1 + x.cpu ELSE x.cpu = s + 1 - c2
        OBVIOUS
    <2>1. how = "processes"
        BY DEF RowOK
    <2>2. IF first THEN x.cpu <= c /\ x.since + c <= w + x.cpu ELSE x.cpu = s - c
        BY DEF RowOK
    <2> QED
        BY <1>1, <2>1, <2>2
<1> QED
    BY <1>2, <1>3, <1>4 DEF RowOK

\* The child exits, and a walk that has come past it or past its parent is marked.
LEMMA RowReaps ==
    ASSUME NEW x \in Reading, NEW p, NEW b, NEW w, NEW s, NEW c,
           NEW h, NEW runs, NEW now, NEW first, NEW how,
           RowOK(x, p, b, w, s, c, h, runs, now, first, how)
    PROVE  LET y == [x EXCEPT !.raced = x.raced \/ p = "rest"] IN
           y \in Reading /\ y.ok = x.ok /\ y.vmTime = x.vmTime
           /\ RowOK(y, p, b, w, s, 0, h, runs, now, first, how)
<1> DEFINE y == [x EXCEPT !.raced = x.raced \/ p = "rest"]
<1>1. y \in Reading
    BY DEF Reading
<1>2. /\ y.ok = x.ok /\ y.since = x.since /\ y.at = x.at /\ y.time = x.time /\ y.vm = x.vm
      /\ y.cpu = x.cpu /\ y.until = x.until /\ y.vmAt = x.vmAt /\ y.vmTime = x.vmTime
      /\ y.raced = (x.raced \/ p = "rest")
    BY DEF Reading
<1> HIDE DEF y
<1>3. (CountOK(x, w, s) => CountOK(y, w, s)) /\ (Apart(b, x) => Apart(b, y)) /\ (ClockOK(x) => ClockOK(y))
    BY <1>2 DEF CountOK, Apart, ClockOK
<1>4. RowOK(y, p, b, w, s, 0, h, runs, now, first, how)
    BY <1>2, <1>3 DEF RowOK
<1> QED
    BY <1>1, <1>2, <1>4 DEF y

\* The row starts over: what it used before is all it ever used.
LEMMA RowStops ==
    ASSUME NEW x \in Reading, NEW p, NEW b, NEW w \in Nat, NEW s \in Nat, NEW c,
           NEW h, NEW runs, NEW now, NEW first, NEW how, p \notin Underway,
           RowOK(x, p, b, w, s, c, h, runs, now, first, how),
           NEW h2, NEW runs2
    PROVE  RowOK(x, p, b, w, 0, 0, h2, runs2, now, first, how)
<1>1. x.since \in Nat /\ x.cpu \in Int
    BY DEF Reading
<1>2. CountOK(x, w, s) => CountOK(x, w, 0)
    BY <1>1 DEF CountOK
<1> QED
    BY <1>2 DEF RowOK, Underway

\* An older reading stays true while the row goes on.
LEMMA OldStays ==
    ASSUME NEW x \in Reading, NEW w \in Nat, NEW s \in Nat, NEW w2 \in Nat, NEW s2 \in Nat,
           s2 + w <= s + w2, OldOK(x, w, s)
    PROVE  OldOK(x, w2, s2)
<1>1. x.since \in Nat /\ x.cpu \in Int
    BY DEF Reading
<1>2. CountOK(x, w, s) => CountOK(x, w2, s2)
    BY <1>1 DEF CountOK
<1> QED
    BY <1>2 DEF OldOK

\* The row is asked.
LEMMA RowAsked ==
    ASSUME NEW w \in Nat, NEW p \in {"walk", "clock"}, NEW how, p = "walk" => how = "processes",
           NEW b, NEW s, NEW c, NEW h, NEW runs, runs, NEW now, NEW first
    PROVE  LET y == [NoReading EXCEPT !.since = w] IN
           y \in Reading /\ RowOK(y, p, b, w, s, c, h, runs, now, first, how)
<1> DEFINE y == [NoReading EXCEPT !.since = w]
<1>1. y \in Reading /\ y.since = w /\ ~y.ok
    BY BlankReading DEF NoReading, Reading
<1> HIDE DEF y
<1>2. w <= w
    OBVIOUS
<1> QED
    BY <1>1, <1>2 DEF RowOK, Underway, y

\* The clock of the row, before its counters or after them.
LEMMA RowTold ==
    ASSUME NEW x \in Reading, NEW p \in {"clock", "uptime"}, NEW b \in Reading, NEW w, NEW s, NEW c,
           NEW h \in Int, 0 <= h, NEW runs, NEW now \in Nat, h <= now, NEW first, NEW how,
           RowOK(x, p, b, w, s, c, h, runs, now, first, how), b.ok => b.time < now,
           NEW age \in Int, age = now - h + 1
    PROVE  LET y == [x EXCEPT !.at = age, !.time = now, !.vm = h] IN
           /\ y \in Reading
           /\ RowOK(y, IF p = "clock" THEN "count" ELSE "vm", b, w, s, c, h, runs, now, first, how)
<1> DEFINE y == [x EXCEPT !.at = age, !.time = now, !.vm = h]
           q == IF p = "clock" THEN "count" ELSE "vm"
<1>1. y \in Reading
    BY DEF Reading
<1>2. /\ y.ok = x.ok /\ y.since = x.since /\ y.raced = x.raced /\ y.cpu = x.cpu /\ y.until = x.until
      /\ y.at = age /\ y.time = now /\ y.vm = h
    BY DEF Reading
<1> HIDE DEF y
<1>3. ClockOK(y) /\ y.time <= now
    BY <1>2 DEF ClockOK
<1>4. (CountOK(x, w, s) => CountOK(y, w, s)) /\ (Apart(b, x) => Apart(b, y))
    BY <1>2 DEF CountOK, Apart
<1>5. ~y.ok /\ y.since <= w /\ runs
    BY <1>2 DEF RowOK, Underway
<1>6. RowOK(y, q, b, w, s, c, h, runs, now, first, how)
    BY <1>2, <1>3, <1>4, <1>5 DEF RowOK, Underway
<1> QED
    BY <1>1, <1>6 DEF y

\* The counters of the row, as they are now or as a walk has added them up.
LEMMA RowCounted ==
    ASSUME NEW x \in Reading, NEW p, NEW q, NEW b \in Reading,
           <<p, q>> \in {<<"count", "vm">>, <<"rest", "uptime">>},
           NEW w \in Nat, NEW s \in Nat, NEW c, NEW h, NEW runs, NEW now, NEW first, NEW how,
           RowOK(x, p, b, w, s, c, h, runs, now, first, how), OldOK(b, w, s),
           NEW n \in Int, ~x.raced => x.since + s <= n + w /\ n <= s
    PROVE  LET y == [x EXCEPT !.cpu = n, !.until = w] IN
           y \in Reading /\ RowOK(y, q, b, w, s, c, h, runs, now, first, how)
<1> DEFINE y == [x EXCEPT !.cpu = n, !.until = w]
<1>1. x.cpu \in Int /\ x.since \in Nat /\ b.since \in Nat /\ b.cpu \in Int /\ x.raced \in BOOLEAN
    BY DEF Reading
<1>3. y \in Reading
    BY DEF Reading
<1>4. /\ y.ok = x.ok /\ y.since = x.since /\ y.raced = x.raced /\ y.cpu = n /\ y.until = w
      /\ y.at = x.at /\ y.time = x.time /\ y.vm = x.vm /\ y.vmTime = x.vmTime /\ y.vmAt = x.vmAt
    BY DEF Reading
<1> HIDE DEF y
<1>5. x.since <= w /\ runs
    BY DEF RowOK, Underway
<1>7. CountOK(y, w, s)
    BY <1>4 DEF CountOK
<1>8. Apart(b, y)
    <2> SUFFICES ASSUME b.ok, ~b.raced, ~y.raced
                 PROVE  b.since + y.cpu <= b.cpu + y.until
        BY DEF Apart
    <2>1. b.since + s <= b.cpu + w
        BY DEF OldOK, CountOK
    <2>2. n <= s
        BY <1>4
    <2>3. b.since + n <= b.cpu + w
        BY <1>1, <2>1, <2>2
    <2> QED
        BY <1>4, <2>3
<1>9. ClockOK(x) => ClockOK(y)
    BY <1>4 DEF ClockOK
<1>10. ~x.ok
    BY DEF RowOK
<1>11. p = "rest" => how = "processes"
    BY DEF RowOK
<1>12. p = "count" => ClockOK(x) /\ x.time <= now /\ (b.ok => b.time < x.time) /\ x.vm = h
    BY DEF RowOK
<1>13. RowOK(y, q, b, w, s, c, h, runs, now, first, how)
    BY <1>4, <1>5, <1>7, <1>8, <1>9, <1>10, <1>11, <1>12 DEF RowOK, Underway
<1> QED
    BY <1>3, <1>13 DEF y

\* A walk comes to the first of two processes.
LEMMA RowWalks ==
    ASSUME NEW x \in Reading, NEW b, NEW w \in Nat, NEW s \in Nat, NEW c \in Nat, c <= s, s <= w,
           NEW h, NEW runs, NEW now, NEW first \in BOOLEAN, NEW how,
           RowOK(x, "walk", b, w, s, c, h, runs, now, first, how)
    PROVE  LET y == [x EXCEPT !.cpu = IF first THEN c ELSE s - c] IN
           y \in Reading /\ RowOK(y, "rest", b, w, s, c, h, runs, now, first, how)
<1> DEFINE n == IF first THEN c ELSE s - c
           y == [x EXCEPT !.cpu = n]
<1>1. n \in Int
    OBVIOUS
<1>2. y \in Reading
    <2> HIDE DEF n
    <2> QED
        BY <1>1 DEF Reading
<1>3. y.ok = x.ok /\ y.since = x.since /\ y.raced = x.raced /\ y.cpu = n
    BY DEF Reading
<1> HIDE DEF y
<1>4. x.since <= w /\ ~x.ok /\ how = "processes" /\ runs
    BY DEF RowOK, Underway
<1>5. IF first THEN y.cpu <= c /\ y.since + c <= w + y.cpu ELSE y.cpu = s - c
    <2>1. x.since \in Nat
        BY DEF Reading
    <2>2. first => y.cpu = c
        BY <1>3
    <2>3. ~first => y.cpu = s - c
        BY <1>3
    <2> QED
        BY <1>3, <1>4, <2>1, <2>2, <2>3
<1>6. RowOK(y, "rest", b, w, s, c, h, runs, now, first, how)
    BY <1>3, <1>4, <1>5 DEF RowOK, Underway
<1> QED
    BY <1>2, <1>6 DEF y

\* The clock of the VM, and with it the answer.
LEMMA RowAnswers ==
    ASSUME NEW x \in Reading, NEW b, NEW w, NEW s, NEW c,
           NEW h \in Int, NEW runs, NEW now \in Nat, NEW first, NEW how,
           RowOK(x, "vm", b, w, s, c, h, runs, now, first, how),
           NEW age \in Int, age = now - h + 1
    PROVE  LET y == [x EXCEPT !.ok = TRUE, !.vmAt = age, !.vmTime = now] IN
           y \in Reading /\ RowOK(y, "done", b, w, s, c, h, runs, now, first, how)
<1> DEFINE y == [x EXCEPT !.ok = TRUE, !.vmAt = age, !.vmTime = now]
<1>1. y \in Reading
    BY DEF Reading
<1>2. /\ y.ok = TRUE /\ y.since = x.since /\ y.raced = x.raced /\ y.cpu = x.cpu /\ y.until = x.until
      /\ y.at = x.at /\ y.time = x.time /\ y.vm = x.vm /\ y.vmTime = now /\ y.vmAt = age
    BY DEF Reading
<1> HIDE DEF y
<1>3. x.vm = h /\ ClockOK(x) /\ CountOK(x, w, s) /\ Apart(b, x) /\ x.time <= now /\ (b.ok => b.time < x.time)
    BY DEF RowOK
<1>4. ClockOK(y) /\ CountOK(y, w, s) /\ Apart(b, y)
    BY <1>2, <1>3 DEF ClockOK, CountOK, Apart
<1>5. now <= now
    OBVIOUS
<1>6. RowOK(y, "done", b, w, s, c, h, runs, now, first, how)
    BY <1>2, <1>3, <1>4, <1>5 DEF RowOK, Underway
<1> QED
    BY <1>1, <1>6 DEF y

-----------------------------------------------------------------------------
(* The machine and the measurements.                                         *)

\* What does not touch the reports keeps the invariant when it keeps what it
\* says of the machine and of each row.
LEMMA RowsMove ==
    ASSUME TopInv, TopTyped', MachineOK', UNCHANGED sweepVars, clock <= clock',
           \A r \in Row : spent'[r] + worked[r] <= spent[r] + worked'[r],
           \A r \in Row : sampling[r] \in {"idle", "done"} =>
               /\ sampling'[r] = sampling[r] /\ reading'[r].vmTime = reading[r].vmTime
               /\ reading'[r].ok => reading[r].ok,
           \A r \in Row : Rowwise(r)'
    PROVE  TopInv'
<1>1. TopTyped /\ SweepOK /\ ReportsOK /\ VMsAreTold
    BY DEF TopInv
<1>2. UNCHANGED <<does, sampledAt, last, this>>
    BY DEF sweepVars
<1>3. clock \in Nat /\ clock' \in Nat /\ sampledAt \in Nat
    BY <1>1 DEF TopTyped
<1>4. SweepOK'
    <2>1. does = "host" =>
           /\ sampledAt <= clock'
           /\ \A r \in Inner : /\ sampling'[r] \in {"idle", "done"}
                               /\ reading'[r].ok => reading'[r].vmTime <= sampledAt
        <3>1. Inner \subseteq Row
            BY DEF Inner
        <3>2. sampledAt <= clock => sampledAt <= clock'
            BY <1>3
        <3> QED
            BY <1>1, <3>1, <3>2 DEF SweepOK
    <2>2. does = "shown" => \A r \in Row : sampling'[r] = "idle" /\ ~reading'[r].ok
        BY <1>1 DEF SweepOK
    <2>3. ASSUME does # "shown", NEW r \in Row, last.rows[r].ok
          PROVE  last.rows[r].time < clock'
        <3>1. last.rows[r].time < clock /\ last.rows[r].time \in Nat
            BY <1>1, <2>3 DEF SweepOK, TopTyped, Reading
        <3> QED
            BY <1>3, <3>1
    <2> QED
        BY <1>1, <1>2, <2>1, <2>2, <2>3 DEF SweepOK
<1>5. ReportsOK'
    <2> SUFFICES ASSUME NEW r \in Row
                 PROVE  /\ OldOK(last.rows[r], worked[r], spent[r])'
                        /\ OldOK(this.rows[r], worked[r], spent[r])'
        BY <1>1, <1>2 DEF ReportsOK
    <2>1. /\ last.rows[r] \in Reading /\ this.rows[r] \in Reading
          /\ worked[r] \in Nat /\ spent[r] \in Nat
          /\ worked'[r] \in Nat /\ spent'[r] \in Nat
        BY <1>1 DEF TopTyped
    <2>2. OldOK(last.rows[r], worked[r], spent[r]) /\ OldOK(this.rows[r], worked[r], spent[r])
        BY <1>1 DEF ReportsOK
    <2>3. OldOK(last.rows[r], worked'[r], spent'[r])
        BY <2>1, <2>2, OldStays
    <2>4. OldOK(this.rows[r], worked'[r], spent'[r])
        BY <2>1, <2>2, OldStays
    <2> QED
        BY <1>2, <2>3, <2>4
<1>6. VMsAreTold'
    BY <1>1, <1>2 DEF VMsAreTold
<1> QED
    BY <1>4, <1>5, <1>6 DEF TopInv

\* A row as the invariant sees it.
LEMMA ARow ==
    ASSUME TopInv, NEW r \in Row
    PROVE  /\ reading[r] \in Reading /\ last.rows[r] \in Reading /\ sampling[r] \in SampleSteps
           /\ worked[r] \in Nat /\ spent[r] \in Nat /\ child[r] \in Nat
           /\ child[r] <= spent[r] /\ spent[r] <= worked[r]
           /\ HostOf(r) \in VM /\ boot[HostOf(r)] \in Int /\ clock \in Nat
           /\ boot[HostOf(r)] <= clock /\ (boot[HostOf(r)] = Down \/ 0 <= boot[HostOf(r)])
           /\ Runs(r) => 0 <= boot[HostOf(r)]
           /\ childFirst \in BOOLEAN /\ (sampling[r] \in Underway => Runs(r))
           /\ OldOK(last.rows[r], worked[r], spent[r])
           /\ RowOK(reading[r], sampling[r], last.rows[r], worked[r], spent[r], child[r],
                    boot[HostOf(r)], Runs(r), clock, childFirst, method)
<1>1. TopTyped /\ MachineOK /\ ReportsOK /\ Rowwise(r)
    BY DEF TopInv
<1>2. HostOf(r) \in VM
    BY DEF HostOf, VM
<1>3. Runs(r) => boot[HostOf(r)] # Down
    BY <1>1 DEF Runs, HostOf, MachineOK
<1>4. sampling[r] \in Underway => Runs(r)
    BY <1>1 DEF Rowwise, RowOK
<1>5. boot[HostOf(r)] <= clock /\ (boot[HostOf(r)] = Down \/ 0 <= boot[HostOf(r)])
    BY <1>1, <1>2 DEF MachineOK
<1> QED
    <2>1. /\ reading[r] \in Reading /\ last.rows[r] \in Reading /\ sampling[r] \in SampleSteps
          /\ worked[r] \in Nat /\ spent[r] \in Nat /\ child[r] \in Nat
          /\ boot[HostOf(r)] \in Int /\ clock \in Nat /\ childFirst \in BOOLEAN
        BY <1>1, <1>2 DEF TopTyped
    <2>2. Runs(r) => 0 <= boot[HostOf(r)]
        BY <1>3, <1>5
    <2>3. OldOK(last.rows[r], worked[r], spent[r]) /\ child[r] <= spent[r] /\ spent[r] <= worked[r]
        BY <1>1 DEF MachineOK, ReportsOK
    <2> QED
        BY <1>1, <1>2, <1>4, <1>5, <2>1, <2>2, <2>3 DEF Rowwise

\* One row is measured, and nothing else happens.
LEMMA RowMoves ==
    ASSUME TopInv, NEW r \in Row, NEW x \in Reading, NEW p \in SampleSteps,
           sampling[r] \notin {"idle", "done"}, UNCHANGED <<loadVars, hostVars, sweepVars>>,
           sampling' = [sampling EXCEPT ![r] = p], reading' = [reading EXCEPT ![r] = x],
           RowOK(x, p, last.rows[r], worked[r], spent[r], child[r],
                 boot[HostOf(r)], Runs(r), clock, childFirst, method)
    PROVE  TopInv'
<1>1. TopTyped /\ MachineOK
    BY DEF TopInv
<1>2. /\ UNCHANGED <<scene, clock, boot, lives, stops, method, childFirst, spent, worked, child>>
      /\ UNCHANGED <<does, sampledAt, last, this, sweeps>>
    BY DEF loadVars, hostVars, sweepVars
<1>3. sampling' \in [Row -> SampleSteps] /\ reading' \in [Row -> Reading]
    BY <1>1 DEF TopTyped
<1>4. TopTyped' /\ MachineOK'
    BY <1>1, <1>2, <1>3 DEF TopTyped, MachineOK
<1>5. /\ sampling'[r] = p /\ reading'[r] = x
      /\ \A q \in Row : q # r => sampling'[q] = sampling[q] /\ reading'[q] = reading[q]
    BY <1>1 DEF TopTyped
<1>6. ASSUME NEW q \in Row
      PROVE  Rowwise(q)'
    <2>1. Rowwise(q)
        BY DEF TopInv
    <2>2. Runs(q)' = Runs(q) /\ HostOf(q)' = HostOf(q)
        BY <1>2 DEF Runs, HostOf
    <2>3. CASE q = r
        BY <1>2, <1>5, <2>2, <2>3 DEF Rowwise
    <2>4. CASE q # r
        BY <1>2, <1>5, <2>1, <2>2, <2>4 DEF Rowwise
    <2> QED
        BY <2>3, <2>4
<1>7. clock <= clock' /\ \A q \in Row : spent'[q] + worked[q] <= spent[q] + worked'[q]
    <2>1. clock \in Nat /\ \A q \in Row : spent[q] \in Nat /\ worked[q] \in Nat
        BY <1>1 DEF TopTyped
    <2>2. \A n \in Nat : n <= n
        OBVIOUS
    <2>3. \A m, n \in Nat : m + n <= m + n
        OBVIOUS
    <2> QED
        BY <1>2, <2>1, <2>2, <2>3
<1>8. \A q \in Row : sampling[q] \in {"idle", "done"} => q # r
    OBVIOUS
<1> QED
    BY <1>4, <1>5, <1>6, <1>7, <1>8, RowsMove

\* Nothing is used, and no time passes.
LEMMA NothingUsed ==
    ASSUME TopTyped, UNCHANGED <<clock, spent, worked>>
    PROVE  clock <= clock' /\ \A q \in Row : spent'[q] + worked[q] <= spent[q] + worked'[q]
<1>1. clock \in Nat /\ \A q \in Row : spent[q] \in Nat /\ worked[q] \in Nat
    BY DEF TopTyped
<1>2. \A n \in Nat : n <= n
    OBVIOUS
<1>3. \A m, n \in Nat : m + n <= m + n
    OBVIOUS
<1> QED
    BY <1>1, <1>2, <1>3

\* VMs boot, or stop with the rows that stop; the other rows go on in theirs.
HostMoves(rows) ==
    /\ lives' \subseteq Inner /\ boot' \in [VM -> Int]
    /\ \A v \in VM : boot'[v] <= clock /\ (boot'[v] = Down \/ 0 <= boot'[v])
    /\ lives' # {} => boot'["utility"] # Down
    /\ \A q \in Row \ rows : Runs(q) => boot'[HostOf(q)] = boot[HostOf(q)] /\ Runs(q)'

\* A row starts, and its VM boots if it must.
LEMMA StartsBoots ==
    ASSUME TopTyped, MachineOK, NEW r \in Row, Starts(r)
    PROVE  HostMoves({}) /\ Runs(r)'
<1> DEFINE v == HostOf(r)
<1>1. /\ boot' = [boot EXCEPT ![v] = IF boot[v] = Down THEN clock ELSE boot[v]]
      /\ lives' = (lives \cup {r}) \ {"container"}
    BY DEF Starts, Boots
<1>2. v \in VM /\ (v = "utility" \/ v = "session") /\ "utility" \in VM /\ "session" \in VM
    BY DEF HostOf, VM
<1>3. /\ boot \in [VM -> Int] /\ lives \subseteq Inner
      /\ clock \in Nat /\ clock # Down /\ clock <= clock /\ 0 <= clock
    BY DEF TopTyped, Down
<1> HIDE DEF v
<1>4. boot' \in [VM -> Int] /\ \A u \in VM : u # v => boot'[u] = boot[u]
    BY <1>1, <1>2, <1>3
<1>5. boot'[v] = (IF boot[v] = Down THEN clock ELSE boot[v]) /\ boot'[v] # Down
    BY <1>1, <1>2, <1>3
<1>6. ASSUME NEW u \in VM
      PROVE  /\ boot'[u] <= clock /\ (boot'[u] = Down \/ 0 <= boot'[u])
             /\ boot[u] # Down => boot'[u] = boot[u]
    BY <1>3, <1>4, <1>5 DEF MachineOK
<1>7. lives' \subseteq Inner
    BY <1>1, <1>3 DEF Inner
<1>8. lives' # {} => boot'["utility"] # Down
    <2>1. CASE lives # {}
        BY <1>2, <1>6, <2>1 DEF MachineOK
    <2>2. CASE lives = {} /\ lives' # {}
        <3>1. r # "container"
            BY <1>1, <2>2
        <3> QED
            BY <1>5, <3>1 DEF HostOf, v
    <2> QED
        BY <2>1, <2>2
<1>9. Runs(r)'
    BY <1>1, <1>5 DEF Runs, HostOf, v
<1>10. ASSUME NEW q \in Row, Runs(q)
       PROVE  boot'[HostOf(q)] = boot[HostOf(q)] /\ Runs(q)'
    <2>1. HostOf(q) \in VM /\ boot[HostOf(q)] # Down
        BY <1>10 DEF Runs, HostOf, MachineOK, VM
    <2>2. boot'[HostOf(q)] = boot[HostOf(q)]
        BY <1>6, <2>1
    <2>3. q # "container" => q \in lives'
        BY <1>1, <1>10 DEF Runs
    <2> QED
        BY <2>1, <2>2, <2>3 DEF Runs, HostOf
<1> QED
    BY <1>4, <1>6, <1>7, <1>8, <1>9, <1>10 DEF HostMoves

\* The row's clock is read.
LEMMA ClockKeeps ==
    ASSUME TopInv, NEW r \in Row, NEW p \in {"clock", "uptime"},
           Notes(r, p, IF p = "clock" THEN "count" ELSE "vm", Clock(r))
    PROVE  TopInv'
<1> DEFINE q == IF p = "clock" THEN "count" ELSE "vm"
           h == boot[HostOf(r)]
           age == clock - h + 1
           x == [reading[r] EXCEPT !.at = age, !.time = clock, !.vm = h]
<1>1. /\ sampling[r] = p /\ sampling' = [sampling EXCEPT ![r] = q]
      /\ reading' = [reading EXCEPT ![r] = x] /\ UNCHANGED <<loadVars, hostVars, sweepVars>>
    BY DEF Notes, Clock, Uptime
<1>2. /\ RowOK(reading[r], p, last.rows[r], worked[r], spent[r], child[r],
                h, Runs(r), clock, childFirst, method)
      /\ reading[r] \in Reading /\ last.rows[r] \in Reading /\ h \in Int /\ clock \in Nat
      /\ h <= clock
    BY <1>1, ARow
<1>3. 0 <= h
    BY <1>1, ARow DEF Underway
<1>4. last.rows[r].ok => last.rows[r].time < clock
    <2>1. does # "shown"
        BY <1>1 DEF TopInv, SweepOK
    <2> QED
        BY <2>1 DEF TopInv, SweepOK
<1> HIDE DEF h
<1>5. age \in Int /\ age = clock - h + 1
    BY <1>2
<1> HIDE DEF age
<1>6. /\ x \in Reading
      /\ RowOK(x, q, last.rows[r], worked[r], spent[r], child[r],
                h, Runs(r), clock, childFirst, method)
    BY <1>2, <1>3, <1>4, <1>5, RowTold
<1>7. q \in SampleSteps
    BY DEF SampleSteps
<1> HIDE DEF x, q
<1> QED
    BY <1>1, <1>6, <1>7, RowMoves DEF h

\* Its counters are.
LEMMA CountKeeps ==
    ASSUME TopInv, NEW r \in Row, NEW p, NEW q, <<p, q>> \in {<<"count", "vm">>, <<"rest", "uptime">>},
           NEW n \in Int, ~reading[r].raced => reading[r].since + spent[r] <= n + worked[r] /\ n <= spent[r],
           Notes(r, p, q, Count(r, n))
    PROVE  TopInv'
<1> DEFINE z == reading[r]
           w == worked[r]
           s == spent[r]
           c == child[r]
           b == last.rows[r]
           h == boot[HostOf(r)]
           runs == Runs(r)
           x == [z EXCEPT !.cpu = n, !.until = w]
<1>1. /\ sampling[r] = p /\ sampling' = [sampling EXCEPT ![r] = q]
      /\ reading' = [reading EXCEPT ![r] = x] /\ UNCHANGED <<loadVars, hostVars, sweepVars>>
    BY DEF Notes, Count
<1>2. /\ RowOK(z, p, b, w, s, c, h, runs, clock, childFirst, method)
      /\ z \in Reading /\ b \in Reading /\ w \in Nat /\ s \in Nat /\ OldOK(b, w, s)
    BY <1>1, ARow
<1>3. q \in SampleSteps /\ p \notin {"idle", "done"}
    BY DEF SampleSteps
<1>4. ~z.raced => z.since + s <= n + w /\ n <= s
    OBVIOUS
<1> HIDE DEF z, w, s, c, b, h, runs
<1>5. x \in Reading /\ RowOK(x, q, b, w, s, c, h, runs, clock, childFirst, method)
    BY <1>2, <1>4, RowCounted
<1> HIDE DEF x
<1> QED
    BY <1>1, <1>3, <1>5, RowMoves DEF w, s, c, b, h, runs

LEMMA AsksKeeps ==
    ASSUME TopInv, NEW r \in Row, Asks(r)
    PROVE  TopInv'
<1> DEFINE p == IF r \in Inner /\ method = "processes" THEN "walk" ELSE "clock"
           x == [NoReading EXCEPT !.since = worked[r]]
<1>1. /\ sampling[r] = "asked" /\ sampling' = [sampling EXCEPT ![r] = p]
      /\ reading' = [reading EXCEPT ![r] = x] /\ UNCHANGED <<loadVars, sweepVars>>
      /\ IF Runs(r) THEN UNCHANGED hostVars ELSE Starts(r)
    BY DEF Asks
<1>2. p \in {"walk", "clock"} /\ (p = "walk" => method = "processes")
    OBVIOUS
<1> HIDE DEF p
<1>3. worked[r] \in Nat /\ p \in SampleSteps
    BY <1>2, ARow DEF SampleSteps
<1>4. x \in Reading
    BY <1>2, <1>3, RowAsked
<1>5. CASE Runs(r)
    <2>1. UNCHANGED hostVars
        BY <1>1, <1>5
    <2>2. RowOK(x, p, last.rows[r], worked[r], spent[r], child[r],
                boot[HostOf(r)], Runs(r), clock, childFirst, method)
        BY <1>2, <1>3, <1>5, RowAsked
    <2> HIDE DEF x
    <2> QED
        BY <1>1, <1>3, <1>4, <2>1, <2>2, RowMoves
<1>6. CASE ~Runs(r)
    <2> HIDE DEF x
    <2>1. Starts(r) /\ UNCHANGED <<scene, clock, stops, method, childFirst, spent, worked, child>>
        BY <1>1, <1>6 DEF Starts, loadVars
    <2>2. TopTyped /\ MachineOK
        BY DEF TopInv
    <2>3. sampling' \in [Row -> SampleSteps] /\ reading' \in [Row -> Reading]
        BY <1>1, <1>3, <1>4, <2>2 DEF TopTyped
    <2>4. UNCHANGED <<does, sampledAt, last, this, sweeps>>
        BY <1>1 DEF sweepVars
    <2>5. HostMoves({}) /\ Runs(r)'
        BY <2>1, <2>2, StartsBoots
    <2>6. TopTyped' /\ MachineOK'
        BY <2>1, <2>2, <2>3, <2>4, <2>5 DEF TopTyped, MachineOK, HostMoves
    <2>7. /\ sampling'[r] = p /\ reading'[r] = x
          /\ \A q \in Row : q # r => sampling'[q] = sampling[q] /\ reading'[q] = reading[q]
        BY <1>1, <2>2 DEF TopTyped
    <2>8. ASSUME NEW q \in Row
          PROVE  Rowwise(q)'
        <3>1. CASE q = r
            <4>1. Runs(r)'
                BY <2>5
            <4>2. RowOK(x, p, last.rows[r], worked[r], spent[r], child[r],
                        boot'[HostOf(r)], Runs(r)', clock, childFirst, method)
                BY <1>2, <1>3, <4>1, RowAsked DEF x
            <4> QED
                BY <2>1, <2>4, <2>7, <3>1, <4>2 DEF Rowwise
        <3>2. CASE q # r
            <4> DEFINE h2 == boot'[HostOf(q)]
                       runs2 == Runs(q)'
            <4>1. RowOK(reading[q], sampling[q], last.rows[q], worked[q], spent[q], child[q],
                        boot[HostOf(q)], Runs(q), clock, childFirst, method)
                  /\ clock \in Nat /\ reading[q] \in Reading
                BY ARow
            <4>2. sampling[q] \in Underway => h2 = boot[HostOf(q)] /\ (Runs(q) => runs2)
                BY <2>5, ARow DEF HostMoves
            <4>3. clock <= clock
                BY <4>1
            <4> HIDE DEF h2, runs2
            <4>4. RowOK(reading[q], sampling[q], last.rows[q], worked[q], spent[q], child[q],
                        h2, runs2, clock, childFirst, method)
                BY <4>1, <4>2, <4>3, RowWaits
            <4> QED
                BY <2>1, <2>4, <2>7, <3>2, <4>4 DEF Rowwise, h2, runs2
        <3> QED
            BY <3>1, <3>2
    <2>9. clock <= clock' /\ \A q \in Row : spent'[q] + worked[q] <= spent[q] + worked'[q]
        BY <2>1, <2>2, NothingUsed
    <2> QED
        BY <1>1, <2>6, <2>7, <2>8, <2>9, RowsMove
<1> QED
    BY <1>5, <1>6

LEMMA ReadsGroupKeeps ==
    ASSUME TopInv, NEW r \in Row, ReadsGroup(r)
    PROVE  TopInv'
<1>1. CASE Notes(r, "clock", "count", Clock(r))
    BY <1>1, ClockKeeps
<1>2. CASE Notes(r, "count", "vm", Count(r, spent[r]))
    <2>1. sampling[r] = "count"
        BY <1>2 DEF Notes
    <2>2. reading[r].since <= worked[r]
        BY <2>1, ARow DEF RowOK, Underway
    <2>3. spent[r] \in Nat /\ worked[r] \in Nat /\ reading[r].since \in Nat
        BY ARow DEF Reading
    <2>4. reading[r].since + spent[r] <= spent[r] + worked[r] /\ spent[r] <= spent[r]
        BY <2>2, <2>3
    <2> QED
        BY <1>2, <2>3, <2>4, CountKeeps
<1> QED
    BY <1>1, <1>2 DEF ReadsGroup

LEMMA WalksKeeps ==
    ASSUME TopInv, NEW r \in Row, Walks(r)
    PROVE  TopInv'
<1> DEFINE z == reading[r]
           w == worked[r]
           s == spent[r]
           c == child[r]
           b == last.rows[r]
           h == boot[HostOf(r)]
           runs == Runs(r)
           x == [z EXCEPT !.cpu = IF childFirst THEN c ELSE s - c]
           n == z.cpu + IF childFirst THEN s - c ELSE c
<1>1. CASE Notes(r, "walk", "rest", x)
    <2>1. /\ sampling[r] = "walk" /\ sampling' = [sampling EXCEPT ![r] = "rest"]
          /\ reading' = [reading EXCEPT ![r] = x] /\ UNCHANGED <<loadVars, hostVars, sweepVars>>
        BY <1>1 DEF Notes
    <2>2. /\ RowOK(z, "walk", b, w, s, c, h, runs, clock, childFirst, method)
          /\ z \in Reading /\ w \in Nat /\ s \in Nat /\ c \in Nat
          /\ c <= s /\ s <= w /\ childFirst \in BOOLEAN
        BY <2>1, ARow
    <2>3. "rest" \in SampleSteps
        BY DEF SampleSteps
    <2> HIDE DEF z, w, s, c, b, h, runs
    <2>4. x \in Reading /\ RowOK(x, "rest", b, w, s, c, h, runs, clock, childFirst, method)
        BY <2>2, RowWalks
    <2> HIDE DEF x
    <2> QED
        BY <2>1, <2>3, <2>4, RowMoves DEF w, s, c, b, h, runs
<1>2. CASE Notes(r, "rest", "uptime", Count(r, n))
    <2>1. sampling[r] = "rest"
        BY <1>2 DEF Notes
    <2>2. /\ z.since <= w
          /\ ~z.raced => IF childFirst THEN z.cpu <= c /\ z.since + c <= w + z.cpu ELSE z.cpu = s - c
        BY <2>1, ARow DEF RowOK, Underway
    <2>3. /\ w \in Nat /\ s \in Nat /\ c \in Nat /\ c <= s /\ z.since \in Nat /\ z.cpu \in Int
          /\ childFirst \in BOOLEAN
        BY ARow DEF Reading
    <2> HIDE DEF z, w, s, c
    <2>4. n \in Int /\ (~z.raced => z.since + s <= n + w /\ n <= s)
        <3>1. CASE childFirst
            BY <2>2, <2>3, <3>1
        <3>2. CASE ~childFirst
            BY <2>2, <2>3, <3>2
        <3> QED
            BY <3>1, <3>2
    <2> HIDE DEF n
    <2> QED
        BY <1>2, <2>4, CountKeeps DEF z, w, s
<1>3. CASE Notes(r, "uptime", "vm", Clock(r))
    BY <1>3, ClockKeeps
<1> QED
    BY <1>1, <1>2, <1>3 DEF Walks

LEMMA ReadsVMKeeps ==
    ASSUME TopInv, NEW r \in Row, ReadsVM(r)
    PROVE  TopInv'
<1> DEFINE h == boot[HostOf(r)]
           age == clock - h + 1
           x == [reading[r] EXCEPT !.ok = TRUE, !.vmAt = age, !.vmTime = clock]
<1>1. /\ sampling[r] = "vm" /\ sampling' = [sampling EXCEPT ![r] = "done"]
      /\ reading' = [reading EXCEPT ![r] = x] /\ UNCHANGED <<loadVars, hostVars, sweepVars>>
    BY DEF ReadsVM, Notes, Uptime
<1>2. /\ RowOK(reading[r], "vm", last.rows[r], worked[r], spent[r], child[r],
                h, Runs(r), clock, childFirst, method)
      /\ reading[r] \in Reading /\ h \in Int /\ clock \in Nat
    BY <1>1, ARow
<1> HIDE DEF h
<1>3. age \in Int /\ age = clock - h + 1
    BY <1>2
<1> HIDE DEF age
<1>4. /\ x \in Reading
      /\ RowOK(x, "done", last.rows[r], worked[r], spent[r], child[r],
                h, Runs(r), clock, childFirst, method)
    BY <1>2, <1>3, RowAnswers
<1>5. "done" \in SampleSteps
    BY DEF SampleSteps
<1> HIDE DEF x
<1> QED
    BY <1>1, <1>4, <1>5, RowMoves DEF h

LEMMA FailsKeeps ==
    ASSUME TopInv, NEW r \in Row, FailsToAnswer(r)
    PROVE  TopInv'
<1>1. /\ sampling[r] \notin {"idle", "done"} /\ sampling' = [sampling EXCEPT ![r] = "done"]
      /\ reading' = [reading EXCEPT ![r] = NoReading] /\ UNCHANGED <<loadVars, hostVars, sweepVars>>
    BY DEF FailsToAnswer, Measured
<1>2. "done" \in SampleSteps /\ "done" \notin Underway
    BY DEF SampleSteps, Underway
<1>3. RowOK(NoReading, "done", last.rows[r], worked[r], spent[r], child[r],
            boot[HostOf(r)], Runs(r), clock, childFirst, method)
    BY <1>2, BlankReading, RowRests
<1> QED
    BY <1>1, <1>2, <1>3, BlankReading, RowMoves

-----------------------------------------------------------------------------
(* The machine.                                                              *)

LEMMA TicksKeeps ==
    ASSUME TopInv, Ticks, UNCHANGED sweepVars
    PROVE  TopInv'
<1>1. TopTyped /\ MachineOK
    BY DEF TopInv
<1>2. /\ clock' = clock + 1 /\ UNCHANGED <<does, sampledAt, last, this, sweeps>>
      /\ UNCHANGED <<scene, boot, lives, method, childFirst, spent, worked, child, sampling, reading>>
    BY DEF Ticks, loadVars, sweepVars
<1>3. clock \in Nat /\ clock' \in Nat /\ clock <= clock'
    BY <1>1, <1>2 DEF TopTyped
<1>4. TopTyped'
    BY <1>1, <1>2, <1>3 DEF TopTyped
<1>5. MachineOK'
    <2>1. \A v \in VM : boot[v] \in Int /\ boot[v] <= clock
        BY <1>1 DEF TopTyped, MachineOK
    <2>2. \A v \in VM : boot[v] <= clock'
        BY <1>2, <1>3, <2>1
    <2> QED
        BY <1>1, <1>2, <2>2 DEF MachineOK
<1>6. \A q \in Row : spent'[q] + worked[q] <= spent[q] + worked'[q]
    <2>1. \A q \in Row : spent[q] \in Nat /\ worked[q] \in Nat
        BY <1>1 DEF TopTyped
    <2>2. \A m, n \in Nat : m + n <= m + n
        OBVIOUS
    <2> QED
        BY <1>2, <2>1, <2>2
<1>7. ASSUME NEW r \in Row
      PROVE  Rowwise(r)'
    <2> DEFINE h == boot[HostOf(r)]
               runs == Runs(r)
    <2>1. RowOK(reading[r], sampling[r], last.rows[r], worked[r], spent[r], child[r],
                h, runs, clock, childFirst, method) /\ reading[r] \in Reading
        BY ARow
    <2>2. Runs(r)' = Runs(r)
        BY <1>2 DEF Runs
    <2> HIDE DEF h, runs
    <2>3. RowOK(reading[r], sampling[r], last.rows[r], worked[r], spent[r], child[r],
                h, runs, clock', childFirst, method)
        BY <1>3, <2>1, RowWaits
    <2> QED
        BY <1>2, <2>2, <2>3 DEF Rowwise, h, runs
<1> QED
    BY <1>2, <1>3, <1>4, <1>5, <1>6, <1>7, RowsMove

\* Something boots or starts that no row needed which is measured.
LEMMA HostMovesKeeps ==
    ASSUME TopInv, HostMoves({}),
           UNCHANGED <<scene, clock, stops, method, childFirst, loadVars, sampling, reading, sweepVars>>
    PROVE  TopInv'
<1>1. TopTyped /\ MachineOK
    BY DEF TopInv
<1>2. /\ UNCHANGED <<scene, clock, method, childFirst, spent, worked, child, sampling, reading>>
      /\ UNCHANGED <<does, sampledAt, last, this, sweeps>>
    BY DEF loadVars, sweepVars
<1>3. TopTyped' /\ MachineOK'
    BY <1>1, <1>2 DEF TopTyped, MachineOK, HostMoves
<1>4. ASSUME NEW r \in Row
      PROVE  Rowwise(r)'
    <2> DEFINE h2 == boot'[HostOf(r)]
               runs2 == Runs(r)'
               h == boot[HostOf(r)]
               runs == Runs(r)
    <2>1. RowOK(reading[r], sampling[r], last.rows[r], worked[r], spent[r], child[r],
                h, runs, clock, childFirst, method)
          /\ clock \in Nat /\ reading[r] \in Reading
        BY ARow
    <2>2. sampling[r] \in Underway => h2 = h /\ (runs => runs2)
        BY ARow DEF HostMoves
    <2>3. clock <= clock
        BY <2>1
    <2> HIDE DEF h, runs, h2, runs2
    <2>4. RowOK(reading[r], sampling[r], last.rows[r], worked[r], spent[r], child[r],
                h2, runs2, clock, childFirst, method)
        BY <2>1, <2>2, <2>3, RowWaits
    <2> QED
        BY <1>2, <2>4 DEF Rowwise, h2, runs2
<1>5. clock <= clock' /\ \A q \in Row : spent'[q] + worked[q] <= spent[q] + worked'[q]
    BY <1>1, <1>2, NothingUsed
<1> QED
    BY <1>2, <1>3, <1>4, <1>5, RowsMove

LEMMA UserBootsKeeps ==
    ASSUME TopInv, UserBoots, UNCHANGED sweepVars
    PROVE  TopInv'
<1>1. TopTyped /\ MachineOK
    BY DEF TopInv
<1>2. UNCHANGED <<loadVars, sampling, reading>>
    BY DEF UserBoots
<1>3. ASSUME NEW r \in scene.rows, Starts(r)
      PROVE  TopInv'
    <2>1. r \in Row
        BY <1>1, TopAssumption DEF TopTyped
    <2>2. HostMoves({})
        BY <1>1, <1>3, <2>1, StartsBoots
    <2>3. UNCHANGED <<scene, clock, stops, method, childFirst>>
        BY <1>3 DEF Starts
    <2> QED
        BY <1>2, <2>2, <2>3, HostMovesKeeps
<1>4. ASSUME boot["other"] = Down, Boots("other"),
             UNCHANGED <<scene, clock, lives, stops, method, childFirst>>
      PROVE  TopInv'
    <2>1. boot' = [boot EXCEPT !["other"] = clock]
        BY <1>4 DEF Boots
    <2>2. /\ clock \in Nat /\ clock <= clock /\ 0 <= clock /\ boot \in [VM -> Int]
          /\ lives \subseteq Inner
        BY <1>1 DEF TopTyped
    <2>3. boot' \in [VM -> Int] /\ boot'["other"] = clock /\ \A v \in VM : v # "other" => boot'[v] = boot[v]
        BY <2>1, <2>2 DEF VM
    <2>4. \A v \in VM : boot'[v] <= clock /\ (boot'[v] = Down \/ 0 <= boot'[v])
        BY <1>1, <2>2, <2>3 DEF MachineOK
    <2>5. lives' # {} => boot'["utility"] # Down
        BY <1>1, <1>4, <2>3 DEF MachineOK, VM
    <2>6. ASSUME NEW q \in Row, Runs(q)
          PROVE  boot'[HostOf(q)] = boot[HostOf(q)] /\ Runs(q)'
        <3>1. HostOf(q) \in VM /\ HostOf(q) # "other"
            BY DEF HostOf, VM
        <3>2. boot'["session"] = boot["session"] /\ lives' = lives
            BY <1>4, <2>3 DEF VM
        <3> QED
            BY <2>3, <2>6, <3>1, <3>2 DEF Runs
    <2>7. HostMoves({})
        BY <1>4, <2>2, <2>3, <2>4, <2>5, <2>6 DEF HostMoves
    <2> QED
        BY <1>2, <1>4, <2>7, HostMovesKeeps
<1> QED
    BY <1>3, <1>4 DEF UserBoots

LEMMA UsesCPUKeeps ==
    ASSUME TopInv, NEW r \in Row, UsesCPU(r), UNCHANGED sweepVars
    PROVE  TopInv'
<1>1. TopTyped /\ MachineOK
    BY DEF TopInv
<1>2. /\ UNCHANGED <<scene, clock, boot, lives, stops, method, childFirst, sampling, reading>>
      /\ UNCHANGED <<does, sampledAt, last, this, sweeps>>
    BY DEF UsesCPU, hostVars, sweepVars
<1> DEFINE c2 == IF method = "processes" THEN child[r] + 1 ELSE child[r]
<1>3. /\ worked[r] \in Nat /\ spent[r] \in Nat /\ child[r] \in Nat
      /\ child[r] <= spent[r] /\ spent[r] <= worked[r]
    BY ARow
<1>4. c2 \in Nat /\ c2 <= spent[r] + 1
    BY <1>3
<1>5. /\ spent' = [spent EXCEPT ![r] = spent[r] + 1]
      /\ worked' = [worked EXCEPT ![r] = worked[r] + 1] /\ child' = [child EXCEPT ![r] = c2]
    BY DEF UsesCPU
<1>6. c2 = IF method = "processes" THEN child[r] + 1 ELSE child[r]
    OBVIOUS
<1> HIDE DEF c2
<1>7. /\ spent'[r] = spent[r] + 1 /\ worked'[r] = worked[r] + 1 /\ child'[r] = c2
      /\ \A q \in Row : q # r => spent'[q] = spent[q] /\ worked'[q] = worked[q] /\ child'[q] = child[q]
      /\ spent' \in [Row -> Nat] /\ worked' \in [Row -> Nat] /\ child' \in [Row -> Nat]
    BY <1>1, <1>3, <1>4, <1>5 DEF TopTyped
<1>8. TopTyped'
    BY <1>1, <1>2, <1>7 DEF TopTyped
<1>9. MachineOK'
    <2>1. child'[r] <= spent'[r] /\ spent'[r] <= worked'[r]
        BY <1>3, <1>4, <1>7
    <2>2. \A q \in Row : child'[q] <= spent'[q] /\ spent'[q] <= worked'[q]
        BY <1>1, <1>7, <2>1 DEF MachineOK
    <2> QED
        BY <1>1, <1>2, <2>2 DEF MachineOK
<1>10. ASSUME NEW q \in Row
       PROVE  spent'[q] + worked[q] <= spent[q] + worked'[q]
    <2>1. spent[q] \in Nat /\ worked[q] \in Nat
        BY <1>1 DEF TopTyped
    <2> QED
        BY <1>7, <2>1
<1>11. ASSUME NEW q \in Row
       PROVE  Rowwise(q)'
    <2> DEFINE h == boot[HostOf(q)]
               runs == Runs(q)
               b == last.rows[q]
    <2>1. RowOK(reading[q], sampling[q], b, worked[q], spent[q], child[q],
                h, runs, clock, childFirst, method) /\ reading[q] \in Reading /\ b \in Reading
        BY ARow
    <2>2. Runs(q)' = Runs(q)
        BY <1>2 DEF Runs
    <2> HIDE DEF h, runs, b
    <2>3. RowOK(reading[q], sampling[q], b, worked'[q], spent'[q], child'[q],
                h, runs, clock, childFirst, method)
        <3>1. CASE q = r
            <4>1. RowOK(reading[r], sampling[r], b, worked[r] + 1, spent[r] + 1, c2,
                        h, runs, clock, childFirst, method)
                BY <1>3, <1>6, <2>1, <3>1, RowWorks
            <4> QED
                BY <1>7, <3>1, <4>1
        <3>2. CASE q # r
            BY <1>7, <2>1, <3>2
        <3> QED
            BY <3>1, <3>2
    <2> QED
        BY <1>2, <2>2, <2>3 DEF Rowwise, h, runs, b
<1>12. clock <= clock'
    BY <1>1, <1>2 DEF TopTyped
<1> QED
    BY <1>2, <1>8, <1>9, <1>10, <1>11, <1>12, RowsMove

LEMMA ChildExitsKeeps ==
    ASSUME TopInv, NEW r \in Row, ChildExits(r), UNCHANGED sweepVars
    PROVE  TopInv'
<1>1. TopTyped /\ MachineOK
    BY DEF TopInv
<1>2. /\ UNCHANGED <<scene, clock, boot, lives, stops, method, childFirst, spent, worked, sampling>>
      /\ UNCHANGED <<does, sampledAt, last, this, sweeps>>
      /\ child' = [child EXCEPT ![r] = 0]
    BY DEF ChildExits, hostVars, sweepVars
<1> DEFINE p == sampling[r]
           h == boot[HostOf(r)]
           runs == Runs(r)
           z == reading[r]
           b == last.rows[r]
           y == [z EXCEPT !.raced = z.raced \/ p = "rest"]
<1>3. reading' = [reading EXCEPT ![r] = y]
    BY DEF ChildExits
<1>4. RowOK(z, p, b, worked[r], spent[r], child[r], h, runs, clock, childFirst, method) /\ z \in Reading
    BY ARow
<1> HIDE DEF p, h, runs, z, b
<1>5. y \in Reading /\ y.ok = z.ok /\ y.vmTime = z.vmTime
      /\ RowOK(y, p, b, worked[r], spent[r], 0, h, runs, clock, childFirst, method)
    BY <1>4, RowReaps
<1> HIDE DEF y
<1>6. /\ reading' \in [Row -> Reading] /\ reading'[r] = y /\ child' \in [Row -> Nat] /\ child'[r] = 0
      /\ \A q \in Row : q # r => reading'[q] = reading[q] /\ child'[q] = child[q]
    BY <1>1, <1>2, <1>3, <1>5 DEF TopTyped
<1>7. TopTyped'
    BY <1>1, <1>2, <1>6 DEF TopTyped
<1>8. MachineOK'
    <2>1. spent[r] \in Nat /\ 0 <= spent[r]
        BY <1>1 DEF TopTyped
    <2> QED
        BY <1>1, <1>2, <1>6, <2>1 DEF MachineOK
<1>9. ASSUME NEW q \in Row
      PROVE  Rowwise(q)'
    <2>1. Rowwise(q) /\ Runs(q)' = Runs(q)
        BY <1>2 DEF TopInv, Runs
    <2>2. CASE q = r
        BY <1>2, <1>5, <1>6, <2>1, <2>2 DEF Rowwise, p, h, runs, b
    <2>3. CASE q # r
        BY <1>2, <1>6, <2>1, <2>3 DEF Rowwise
    <2> QED
        BY <2>2, <2>3
<1>10. clock <= clock' /\ \A q \in Row : spent'[q] + worked[q] <= spent[q] + worked'[q]
    BY <1>1, <1>2, NothingUsed
<1>11. \A q \in Row : reading'[q].vmTime = reading[q].vmTime /\ (reading'[q].ok => reading[q].ok)
    BY <1>5, <1>6 DEF z
<1> QED
    BY <1>2, <1>7, <1>8, <1>9, <1>10, <1>11, RowsMove

\* Rows stop, and those that go on do so in the same VM.
LEMMA RowsEndKeeps ==
    ASSUME TopInv, NEW rows \in SUBSET Row, RowsEnd(rows), HostMoves(rows), UNCHANGED sweepVars
    PROVE  TopInv'
<1>1. TopTyped /\ MachineOK
    BY DEF TopInv
<1>2. /\ UNCHANGED <<scene, clock, worked, method, childFirst>>
      /\ UNCHANGED <<does, sampledAt, last, this, sweeps>>
    BY DEF RowsEnd, sweepVars
<1>3. \A q \in Row :
          /\ spent'[q] = IF q \in rows THEN 0 ELSE spent[q]
          /\ child'[q] = IF q \in rows THEN 0 ELSE child[q]
          /\ sampling'[q] = IF q \in rows /\ Measured(q) THEN "lost" ELSE sampling[q]
          /\ reading'[q] = IF sampling'[q] = "lost" THEN NoReading ELSE reading[q]
    BY DEF RowsEnd
<1>4. /\ spent' \in [Row -> Nat] /\ child' \in [Row -> Nat]
      /\ sampling' \in [Row -> SampleSteps] /\ reading' \in [Row -> Reading]
    BY <1>1, BlankReading DEF RowsEnd, TopTyped, SampleSteps
<1>5. TopTyped'
    BY <1>1, <1>2, <1>4 DEF TopTyped, HostMoves
<1>6. MachineOK'
    <2>1. ASSUME NEW q \in Row
          PROVE  child'[q] <= spent'[q] /\ spent'[q] <= worked'[q]
        <3>1. /\ spent[q] \in Nat /\ worked[q] \in Nat /\ child[q] \in Nat
              /\ child[q] <= spent[q] /\ spent[q] <= worked[q]
            BY ARow
        <3> QED
            BY <1>2, <1>3, <3>1
    <2> QED
        BY <1>2, <2>1 DEF MachineOK, HostMoves
<1>7. ASSUME NEW q \in Row
      PROVE  Rowwise(q)'
    <2> DEFINE h2 == boot'[HostOf(q)]
               runs2 == Runs(q)'
               h == boot[HostOf(q)]
               runs == Runs(q)
    <2>1. RowOK(reading[q], sampling[q], last.rows[q], worked[q], spent[q], child[q],
                h, runs, clock, childFirst, method)
          /\ clock \in Nat /\ reading[q] \in Reading /\ worked[q] \in Nat /\ spent[q] \in Nat
        BY ARow
    <2>2. q \notin rows /\ sampling[q] \in Underway => h2 = h /\ (runs => runs2)
        BY ARow DEF HostMoves
    <2>3. clock <= clock
        BY <2>1
    <2>4. sampling[q] \in SampleSteps
        BY ARow
    <2> HIDE DEF h, runs, h2, runs2
    <2>5. RowOK(reading'[q], sampling'[q], last.rows[q], worked[q], spent'[q], child'[q],
                h2, runs2, clock, childFirst, method)
        <3>1. CASE sampling'[q] = "lost"
            <4>1. reading'[q] = NoReading /\ sampling'[q] \notin Underway
                BY <1>3, <3>1 DEF Underway
            <4> QED
                BY <4>1, BlankReading, RowRests
        <3>2. CASE sampling'[q] # "lost" /\ q \in rows
            <4>1. /\ sampling'[q] = sampling[q] /\ reading'[q] = reading[q]
                  /\ spent'[q] = 0 /\ child'[q] = 0 /\ ~Measured(q)
                BY <1>3, <3>2
            <4>2. sampling[q] \notin Underway
                BY <4>1 DEF Measured, Underway
            <4>3. RowOK(reading[q], sampling[q], last.rows[q], worked[q], 0, 0,
                        h2, runs2, clock, childFirst, method)
                BY <2>1, <4>2, RowStops
            <4> QED
                BY <4>1, <4>3
        <3>3. CASE sampling'[q] # "lost" /\ q \notin rows
            <4>1. /\ sampling'[q] = sampling[q] /\ reading'[q] = reading[q]
                  /\ spent'[q] = spent[q] /\ child'[q] = child[q]
                BY <1>3, <3>3
            <4>2. RowOK(reading[q], sampling[q], last.rows[q], worked[q], spent[q], child[q],
                        h2, runs2, clock, childFirst, method)
                BY <2>1, <2>2, <2>3, <3>3, RowWaits
            <4> QED
                BY <4>1, <4>2
        <3> QED
            BY <3>1, <3>2, <3>3
    <2> QED
        BY <1>2, <2>5 DEF Rowwise, h2, runs2
<1>8. ASSUME NEW q \in Row
      PROVE  spent'[q] + worked[q] <= spent[q] + worked'[q]
    <2>1. spent[q] \in Nat /\ worked[q] \in Nat
        BY ARow
    <2> QED
        BY <1>2, <1>3, <2>1
<1>9. clock <= clock'
    BY <1>1, <1>2 DEF TopTyped
<1>10. \A q \in Row : sampling[q] \in {"idle", "done"} =>
           sampling'[q] = sampling[q] /\ reading'[q] = reading[q]
    BY <1>3 DEF Measured
<1> QED
    BY <1>5, <1>6, <1>7, <1>8, <1>9, <1>10, RowsMove

LEMMA StopsInnerKeeps ==
    ASSUME TopInv, NEW r \in Inner, StopsInner(r), UNCHANGED sweepVars
    PROVE  TopInv'
<1>1. TopTyped /\ MachineOK /\ r \in Row /\ r # "container"
    BY DEF TopInv, Inner
<1>2. /\ lives' = lives \ {r} /\ RowsEnd({r}) /\ clock' = clock
      /\ boot' = IF lives' = {} THEN [boot EXCEPT !["utility"] = Down] ELSE boot
    BY DEF StopsInner, RowsEnd
<1>3. lives \subseteq Inner /\ boot \in [VM -> Int] /\ clock \in Nat /\ Down \in Int /\ Down <= clock
    BY <1>1 DEF TopTyped, Down
<1>4. /\ boot' \in [VM -> Int] /\ \A v \in VM : v # "utility" => boot'[v] = boot[v]
      /\ lives' # {} => boot' = boot /\ \A v \in VM : boot'[v] = Down \/ boot'[v] = boot[v]
    BY <1>2, <1>3
<1>5. \A v \in VM : boot'[v] = Down \/ boot'[v] = boot[v]
    BY <1>2, <1>3
<1>6. \A v \in VM : boot'[v] <= clock /\ (boot'[v] = Down \/ 0 <= boot'[v])
    BY <1>1, <1>3, <1>5 DEF MachineOK
<1>7. lives' # {} => boot'["utility"] # Down
    BY <1>1, <1>2, <1>4 DEF MachineOK
<1>8. ASSUME NEW q \in Row \ {r}, Runs(q)
      PROVE  boot'[HostOf(q)] = boot[HostOf(q)] /\ Runs(q)'
    <2>1. CASE q = "container"
        BY <1>4, <1>8, <2>1 DEF Runs, HostOf, VM
    <2>2. CASE q # "container"
        <3>1. q \in lives'
            BY <1>2, <1>8, <2>2 DEF Runs
        <3> QED
            BY <1>4, <2>2, <3>1 DEF Runs
    <2> QED
        BY <2>1, <2>2
<1>9. HostMoves({r})
    BY <1>2, <1>3, <1>4, <1>6, <1>7, <1>8 DEF HostMoves
<1> QED
    BY <1>1, <1>2, <1>9, RowsEndKeeps

LEMMA StopsVMKeeps ==
    ASSUME TopInv, NEW v \in VM, StopsVM(v), UNCHANGED sweepVars
    PROVE  TopInv'
<1> DEFINE rows == IF v = "session" THEN {"container"} ELSE {}
<1>1. TopTyped /\ MachineOK
    BY DEF TopInv
<1>2. /\ v # "utility" /\ boot' = [boot EXCEPT ![v] = Down] /\ lives' = lives
      /\ RowsEnd(rows) /\ rows \in SUBSET Row
    BY TopAssumption DEF StopsVM
<1>3. "container" \in rows \/ v # "session"
    OBVIOUS
<1> HIDE DEF rows
<1>4. lives \subseteq Inner /\ boot \in [VM -> Int] /\ clock \in Nat /\ Down \in Int /\ Down <= clock
    BY <1>1 DEF TopTyped, Down
<1>5. /\ boot' \in [VM -> Int] /\ boot'[v] = Down
      /\ \A u \in VM : u # v => boot'[u] = boot[u]
    BY <1>2, <1>4
<1>6. \A u \in VM : boot'[u] <= clock /\ (boot'[u] = Down \/ 0 <= boot'[u])
    BY <1>1, <1>4, <1>5 DEF MachineOK
<1>7. lives' # {} => boot'["utility"] # Down
    BY <1>1, <1>2, <1>5 DEF MachineOK, VM
<1>8. ASSUME NEW q \in Row \ rows, Runs(q)
      PROVE  boot'[HostOf(q)] = boot[HostOf(q)] /\ Runs(q)'
    <2>1. HostOf(q) \in VM /\ HostOf(q) # v
        BY <1>2, <1>3, <1>8 DEF HostOf, VM
    <2>2. boot'[HostOf(q)] = boot[HostOf(q)]
        BY <1>5, <2>1
    <2> QED
        BY <1>2, <1>8, <2>2 DEF Runs, HostOf
<1>9. HostMoves(rows)
    BY <1>2, <1>4, <1>5, <1>6, <1>7, <1>8 DEF HostMoves
<1> QED
    BY <1>2, <1>9, RowsEndKeeps

LEMMA MachineKeeps ==
    ASSUME TopInv, Machine
    PROVE  TopInv'
<1>1. UNCHANGED sweepVars /\ scene.busy \subseteq Row
    <2>1. scene \in Scenes
        BY DEF TopInv, TopTyped
    <2> QED
        BY <2>1, TopAssumption DEF Machine
<1>2. CASE Ticks
    BY <1>1, <1>2, TicksKeeps
<1>3. CASE UserBoots
    BY <1>1, <1>3, UserBootsKeeps
<1>4. ASSUME NEW r \in scene.busy, UsesCPU(r) \/ ChildExits(r)
      PROVE  TopInv'
    BY <1>1, <1>4, UsesCPUKeeps, ChildExitsKeeps
<1>5. ASSUME NEW r \in Inner, StopsInner(r)
      PROVE  TopInv'
    BY <1>1, <1>5, StopsInnerKeeps
<1>6. ASSUME NEW v \in VM, StopsVM(v)
      PROVE  TopInv'
    BY <1>1, <1>6, StopsVMKeeps
<1> QED
    BY <1>2, <1>3, <1>4, <1>5, <1>6 DEF Machine

-----------------------------------------------------------------------------
(* The sweep.                                                                *)

\* What only the sweep's own steps change is none of the machine's business.
LEMMA MachineStands ==
    ASSUME MachineOK, UNCHANGED <<loadVars, hostVars>>
    PROVE  MachineOK'
BY DEF MachineOK, loadVars, hostVars

LEMMA NothingIsKnown ==
    /\ NoReport.rows \in [Row -> Reading] /\ NoReport.ended = 0
    /\ \A r \in Row : NoReport.rows[r] = NoReading
BY BlankReading DEF NoReport, Report

LEMMA ListsKeeps ==
    ASSUME TopInv, Lists
    PROVE  TopInv'
<1>1. TopTyped /\ MachineOK /\ SweepOK /\ ReportsOK
    BY DEF TopInv
<1>2. /\ does = "list" /\ does' = "measure" /\ reading' = NoReport.rows
      /\ sampling' \in [Row -> {"idle", "asked"}]
      /\ UNCHANGED <<loadVars, hostVars, sampledAt, last, this, sweeps>>
    BY DEF Lists
<1>3. UNCHANGED <<scene, clock, boot, lives, stops, method, childFirst, spent, worked, child>>
    BY <1>2 DEF loadVars, hostVars
<1>4. sampling' \in [Row -> SampleSteps] /\ \A r \in Row : sampling'[r] \notin Underway
    BY <1>2 DEF SampleSteps, Underway
<1>5. TopTyped'
    BY <1>1, <1>2, <1>3, <1>4, NothingIsKnown DEF TopTyped
<1>6. MachineOK'
    BY <1>1, <1>2, MachineStands
<1>7. SweepOK'
    BY <1>1, <1>2, <1>3 DEF SweepOK
<1>8. ReportsOK'
    BY <1>1, <1>2, <1>3 DEF ReportsOK
<1>9. VMsAreTold'
    BY <1>2 DEF VMsAreTold
<1>10. ASSUME NEW r \in Row
       PROVE  Rowwise(r)'
    <2>1. reading'[r] = NoReading /\ sampling'[r] \notin Underway
        BY <1>2, <1>4, NothingIsKnown
    <2> QED
        BY <2>1, BlankReading, RowRests DEF Rowwise
<1> QED
    BY <1>5, <1>6, <1>7, <1>8, <1>9, <1>10 DEF TopInv

LEMMA GathersKeeps ==
    ASSUME TopInv, Gathers
    PROVE  TopInv'
<1>1. TopTyped /\ MachineOK /\ SweepOK /\ ReportsOK
    BY DEF TopInv
<1>2. /\ does = "measure" /\ does' = "host" /\ sampledAt' = clock
      /\ \A r \in Inner : sampling[r] \in {"idle", "done"}
      /\ UNCHANGED <<loadVars, hostVars, sampling, reading, last, this, sweeps>>
    BY DEF Gathers
<1>3. UNCHANGED <<scene, clock, boot, lives, stops, method, childFirst, spent, worked, child>>
    BY <1>2 DEF loadVars, hostVars
<1>4. TopTyped'
    BY <1>1, <1>2, <1>3 DEF TopTyped
<1>5. MachineOK'
    BY <1>1, <1>2, MachineStands
<1>6. SweepOK'
    <2>1. clock <= clock
        BY <1>1 DEF TopTyped
    <2>2. ASSUME NEW r \in Inner, reading[r].ok
          PROVE  reading[r].vmTime <= clock
        <3>1. r \in Row
            BY DEF Inner
        <3> QED
            BY <2>2, <3>1, ARow DEF RowOK
    <2> QED
        BY <1>1, <1>2, <1>3, <2>1, <2>2 DEF SweepOK
<1>7. ReportsOK'
    BY <1>1, <1>2, <1>3 DEF ReportsOK
<1>8. VMsAreTold'
    BY <1>2 DEF VMsAreTold
<1>9. ASSUME NEW r \in Row
      PROVE  Rowwise(r)'
    <2>1. Rowwise(r) /\ Runs(r)' = Runs(r)
        BY <1>3 DEF TopInv, Runs
    <2> QED
        BY <1>2, <1>3, <2>1 DEF Rowwise
<1> QED
    BY <1>4, <1>5, <1>6, <1>7, <1>8, <1>9 DEF TopInv

\* There are three VMs, and one of them alone, if any, is claimed.
LEMMA ClaimIsRight ==
    ASSUME NEW vms \in SUBSET VM, NEW v \in vms, NEW when,
           when - boot[v] \in (-Tolerance)..Tolerance
    PROVE  Claim(vms, when) \subseteq {v}
<1> DEFINE near == {u \in vms : when - boot[u] \in (-Tolerance)..Tolerance}
<1>1. IsFiniteSet(VM)
    <2>1. IsFiniteSet({"utility"})
        BY FS_Singleton
    <2>2. IsFiniteSet({"utility"} \cup {"session"})
        BY <2>1, FS_AddElement
    <2>3. IsFiniteSet(({"utility"} \cup {"session"}) \cup {"other"})
        BY <2>2, FS_AddElement
    <2>4. VM = ({"utility"} \cup {"session"}) \cup {"other"}
        BY DEF VM
    <2> QED
        BY <2>3, <2>4
<1>2. near \in SUBSET VM
    OBVIOUS
<1>3. IsFiniteSet(near)
    <2> HIDE DEF near
    <2> QED
        BY <1>1, <1>2, FS_Subset
<1>4. v \in near
    OBVIOUS
<1>5. Claim(vms, when) = IF Cardinality(near) = 1 THEN near ELSE {}
    BY DEF Claim
<1> HIDE DEF near
<1>6. Cardinality(near) = 1 => \E u : near = {u}
    BY <1>3, FS_Singleton
<1> QED
    BY <1>4, <1>5, <1>6

\* When the VMs are those that were measured, no other is taken for one of them.
LEMMA HostIsRight ==
    ASSUME TopInv, does = "host", NEW r \in Row, r \in Inner => reading[r].ok, Host(r).sound
    PROVE  Host(r).utility \subseteq {"utility"} /\ Host(r).session \subseteq {"session"}
<1> DEFINE vms     == {v \in VM : boot[v] # Down}
           mine    == IF r \in Inner THEN Claim(vms, Booted(r, sampledAt)) ELSE {}
           session == IF reading["container"].ok
                      THEN Claim(vms \ mine, SessionBooted("container")) ELSE {}
<1>1. /\ Host(r).utility = mine /\ Host(r).session = session
      /\ \A q \in {r, "container"} : reading[q].ok => reading[q].vm = boot[HostOf(q)]
      /\ r \in Inner => sampledAt - reading[r].vmTime <= Tolerance
    BY DEF Host
<1>2. TopTyped /\ SweepOK /\ "container" \in Row
    BY TopAssumption DEF TopInv
<1>3. ASSUME NEW q \in Row, reading[q].ok, reading[q].vm = boot[HostOf(q)]
      PROVE  /\ reading[q].vmAt = reading[q].vmTime - boot[HostOf(q)] + 1
             /\ reading[q].vmTime \in Nat /\ boot[HostOf(q)] \in Int
             /\ HostOf(q) \in vms
    <2>1. /\ reading[q].vmAt = reading[q].vmTime - reading[q].vm + 1
          /\ 0 <= reading[q].vm /\ reading[q] \in Reading
          /\ HostOf(q) \in VM /\ boot[HostOf(q)] \in Int
        BY <1>3, ARow DEF RowOK, ClockOK
    <2>2. reading[q].vmTime \in Nat
        BY <2>1 DEF Reading
    <2>3. boot[HostOf(q)] # Down
        BY <1>3, <2>1 DEF Down
    <2> QED
        BY <1>3, <2>1, <2>2, <2>3
<1>4. mine \subseteq {"utility"}
    <2>1. CASE r \in Inner
        <3>1. HostOf(r) = "utility"
            BY <2>1 DEF HostOf, Inner
        <3>2. /\ reading[r].vmAt = reading[r].vmTime - boot["utility"] + 1
              /\ reading[r].vmTime \in Nat /\ boot["utility"] \in Int /\ "utility" \in vms
            BY <1>1, <1>3, <2>1, <3>1
        <3>3. /\ reading[r].vmTime <= sampledAt /\ sampledAt \in Nat
              /\ sampledAt - reading[r].vmTime <= 1
            BY <1>1, <1>2, <2>1 DEF SweepOK, TopTyped, Tolerance
        <3>4. Booted(r, sampledAt) - boot["utility"] \in (-Tolerance)..Tolerance
            BY <3>2, <3>3 DEF Booted, Tolerance
        <3>5. vms \in SUBSET VM
            OBVIOUS
        <3> HIDE DEF vms
        <3>6. Claim(vms, Booted(r, sampledAt)) \subseteq {"utility"}
            BY <3>2, <3>4, <3>5, ClaimIsRight
        <3> QED
            BY <2>1, <3>6
    <2>2. CASE r \notin Inner
        BY <2>2
    <2> QED
        BY <2>1, <2>2
<1>5. session \subseteq {"session"}
    <2>1. CASE reading["container"].ok
        <3>1. HostOf("container") = "session"
            BY DEF HostOf
        <3>2. /\ reading["container"].vmAt = reading["container"].vmTime - boot["session"] + 1
              /\ reading["container"].vmTime \in Nat /\ boot["session"] \in Int /\ "session" \in vms
            BY <1>1, <1>2, <1>3, <2>1, <3>1
        <3>3. SessionBooted("container") - boot["session"] \in (-Tolerance)..Tolerance
            BY <3>2 DEF SessionBooted, Booted, Tolerance
        <3>4. vms \ mine \in SUBSET VM /\ "session" \in vms \ mine
            BY <1>4, <3>2
        <3> HIDE DEF vms, mine
        <3>5. Claim(vms \ mine, SessionBooted("container")) \subseteq {"session"}
            BY <3>3, <3>4, ClaimIsRight
        <3> QED
            BY <2>1, <3>5
    <2>2. CASE ~reading["container"].ok
        BY <2>2
    <2> QED
        BY <2>1, <2>2
<1> QED
    BY <1>1, <1>4, <1>5

LEMMA ReportsKeeps ==
    ASSUME TopInv, Reports
    PROVE  TopInv'
<1>1. TopTyped /\ MachineOK /\ SweepOK /\ ReportsOK
    BY DEF TopInv
<1>2. PICK r \in Row :
          /\ r \in Inner => reading[r].ok
          /\ \E host \in {Host(r), NoFigure} :
                 this' = Report(reading, clock, host.utility, host.session, host.sound)
    <2>1. \A q : q \in (IF {p \in Inner : reading[p].ok} = {} THEN {"container"}
                        ELSE {p \in Inner : reading[p].ok})
                 => q \in Row /\ (q \in Inner => reading[q].ok)
        BY TopAssumption DEF Inner
    <2> QED
        BY <2>1 DEF Reports
<1>3. PICK host \in {Host(r), NoFigure} :
           this' = Report(reading, clock, host.utility, host.session, host.sound)
    BY <1>2
<1>4. /\ does = "host" /\ does' = "shown" /\ reading' = NoReport.rows
      /\ sampling' = [q \in Row |-> "idle"]
      /\ UNCHANGED <<loadVars, hostVars, sampledAt, last>>
    BY DEF Reports
<1>5. UNCHANGED <<scene, clock, boot, lives, stops, method, childFirst, spent, worked, child>>
    BY <1>4 DEF loadVars, hostVars
<1>6. /\ this'.rows = reading /\ this'.ended = clock /\ this'.utility = host.utility
      /\ this'.session = host.session /\ this'.sound = host.sound
    BY <1>3 DEF Report
<1>7. TopTyped'
    <2>1. sampling' \in [Row -> SampleSteps]
        BY <1>4 DEF SampleSteps
    <2> QED
        BY <1>1, <1>4, <1>5, <1>6, <2>1, NothingIsKnown DEF TopTyped
<1>8. MachineOK'
    BY <1>1, <1>4, MachineStands
<1>9. SweepOK'
    BY <1>4, NothingIsKnown, BlankReading DEF SweepOK
<1>10. ReportsOK'
    <2>1. ASSUME NEW q \in Row
          PROVE  /\ OldOK(last.rows[q], worked[q], spent[q])
                 /\ OldOK(reading[q], worked[q], spent[q])
                 /\ reading[q].ok => reading[q].time <= clock
                 /\ PairOK(last.rows[q], reading[q])
        BY ARow DEF RowOK, OldOK, PairOK
    <2> QED
        BY <1>4, <1>5, <1>6, <2>1 DEF ReportsOK
<1>11. VMsAreTold'
    <2>1. CASE host = NoFigure
        BY <1>6, <2>1 DEF VMsAreTold, NoFigure
    <2>2. CASE host = Host(r)
        BY <1>2, <1>4, <1>6, <2>2, HostIsRight DEF VMsAreTold
    <2> QED
        BY <2>1, <2>2
<1>12. ASSUME NEW q \in Row
       PROVE  Rowwise(q)'
    <2>1. reading'[q] = NoReading /\ sampling'[q] \notin Underway
        BY <1>4, NothingIsKnown DEF Underway
    <2> QED
        BY <2>1, BlankReading, RowRests DEF Rowwise
<1> QED
    BY <1>7, <1>8, <1>9, <1>10, <1>11, <1>12 DEF TopInv

LEMMA WaitsKeeps ==
    ASSUME TopInv, Waits
    PROVE  TopInv'
<1>1. TopTyped /\ MachineOK /\ SweepOK /\ ReportsOK
    BY DEF TopInv
<1>2. /\ does = "shown" /\ clock >= this.ended + 1
      /\ does' = "list" /\ last' = this /\ this' = NoReport
      /\ UNCHANGED <<loadVars, hostVars, sampling, reading, sampledAt, sweeps>>
    BY DEF Waits, Interval
<1>3. UNCHANGED <<scene, clock, boot, lives, stops, method, childFirst, spent, worked, child>>
    BY <1>2 DEF loadVars, hostVars
<1>4. TopTyped'
    BY <1>1, <1>2, <1>3, NothingIsKnown DEF TopTyped
<1>5. MachineOK'
    BY <1>1, <1>2, MachineStands
<1>6. SweepOK'
    <2>1. ASSUME NEW r \in Row, this.rows[r].ok
          PROVE  this.rows[r].time < clock
        <3>1. /\ this.rows[r].time <= this.ended /\ this.rows[r].time \in Nat
              /\ this.ended \in Nat /\ clock \in Nat
            BY <1>1, <2>1 DEF ReportsOK, TopTyped, Reading
        <3> QED
            BY <1>2, <3>1
    <2> QED
        BY <1>2, <1>3, <2>1 DEF SweepOK
<1>7. ReportsOK'
    <2>1. \A r \in Row : ~NoReport.rows[r].ok
        BY BlankReading, NothingIsKnown
    <2>2. ASSUME NEW r \in Row
          PROVE  /\ OldOK(this.rows[r], worked[r], spent[r])
                 /\ OldOK(NoReport.rows[r], worked[r], spent[r])
                 /\ NoReport.rows[r].ok => NoReport.rows[r].time <= NoReport.ended
                 /\ PairOK(this.rows[r], NoReport.rows[r])
        BY <1>1, <2>1 DEF ReportsOK, OldOK, PairOK
    <2> QED
        BY <1>2, <1>3, <2>2 DEF ReportsOK
<1>8. VMsAreTold'
    BY <1>2 DEF VMsAreTold
<1>9. ASSUME NEW r \in Row
      PROVE  Rowwise(r)'
    <2>1. reading'[r] = reading[r] /\ sampling'[r] = "idle" /\ ~reading[r].ok
        BY <1>1, <1>2 DEF SweepOK
    <2>2. sampling'[r] \notin Underway /\ ~reading'[r].ok
        BY <2>1 DEF Underway
    <2> QED
        BY <2>2, RowRests DEF Rowwise
<1> QED
    BY <1>4, <1>5, <1>6, <1>7, <1>8, <1>9 DEF TopInv

\* Before top has looked at anything.
LEMMA RestIsRight ==
    ASSUME NEW s \in Scenes, NEW how, NEW first \in BOOLEAN, AtRest(s, how, first)
    PROVE  TopInv
<1>1. /\ scene = s /\ clock = 0 /\ lives = Inner \cap s.rows /\ childFirst = first
      /\ boot = [v \in VM |-> IF v = "utility" /\ lives # {} THEN 0 ELSE Down]
      /\ spent = [r \in Row |-> 0] /\ worked = spent /\ child = spent
      /\ does = "list" /\ sampledAt = 0 /\ last = NoReport /\ this = NoReport
      /\ sampling = [r \in Row |-> "idle"] /\ reading = NoReport.rows
    BY DEF AtRest
<1>2. TopTyped
    BY <1>1, NothingIsKnown DEF TopTyped, Inner, Down, SampleSteps
<1>3. MachineOK
    BY <1>1 DEF MachineOK, Down, VM
<1>4. \A r \in Row : ~NoReport.rows[r].ok
    BY BlankReading, NothingIsKnown
<1>5. SweepOK
    BY <1>1, <1>4 DEF SweepOK
<1>6. ReportsOK
    BY <1>1, <1>4 DEF ReportsOK, OldOK, PairOK
<1>7. VMsAreTold
    BY <1>1 DEF VMsAreTold
<1>8. ASSUME NEW r \in Row
      PROVE  Rowwise(r)
    <2>1. sampling[r] \notin Underway /\ ~reading[r].ok
        BY <1>1, <1>4 DEF Underway
    <2> QED
        BY <2>1, RowRests DEF Rowwise
<1> QED
    BY <1>2, <1>3, <1>5, <1>6, <1>7, <1>8 DEF TopInv

LEMMA TopStarts == CommandsInit => TopInv
<1> SUFFICES ASSUME CommandsInit
             PROVE  TopInv
    OBVIOUS
<1>1. CASE part = "top"
    <2>1. TopInit
        BY <1>1 DEF CommandsInit
    <2>2. PICK s \in Scenes, how \in {"cgroup", "processes"}, first \in BOOLEAN : AtRest(s, how, first)
        BY <2>1 DEF TopInit
    <2> QED
        BY <2>2, RestIsRight
<1>2. CASE part # "top"
    <2> DEFINE s == CHOOSE s \in Scenes : TRUE
    <2>1. AtRest(s, "cgroup", FALSE)
        BY <1>2 DEF CommandsInit
    <2>2. s \in Scenes
        BY TopAssumption
    <2> HIDE DEF s
    <2> QED
        BY <2>1, <2>2, RestIsRight
<1> QED
    BY <1>1, <1>2

LEMMA TopGoesOn == TopInv /\ [CommandsNext]_commandsVars => TopInv'
<1> SUFFICES ASSUME TopInv, [CommandsNext]_commandsVars
             PROVE  TopInv'
    OBVIOUS
<1>1. CASE UNCHANGED topVars
    <2>1. /\ UNCHANGED <<scene, boot, lives, stops, method, childFirst, sampling, reading>>
          /\ UNCHANGED <<clock, spent, worked, child, does, sampledAt, last, this, sweeps>>
        BY <1>1 DEF topVars, loadVars, hostVars, sweepVars
    <2>2. TopTyped' /\ MachineOK' /\ SweepOK' /\ ReportsOK' /\ VMsAreTold'
        BY <2>1 DEF TopInv, TopTyped, MachineOK, SweepOK, ReportsOK, VMsAreTold
    <2>3. ASSUME NEW r \in Row
          PROVE  Rowwise(r)'
        <3>1. Rowwise(r) /\ Runs(r)' = Runs(r)
            BY <2>1 DEF TopInv, Runs
        <3> QED
            BY <2>1, <3>1 DEF Rowwise
    <2> QED
        BY <2>2, <2>3 DEF TopInv
<1>2. CASE TopNext
    <2>1. ASSUME NEW r \in Row, Measures(r)
          PROVE  TopInv'
        BY <2>1, AsksKeeps, ReadsGroupKeeps, WalksKeeps, ReadsVMKeeps, FailsKeeps DEF Measures
    <2> QED
        BY <1>2, <2>1, MachineKeeps, ListsKeeps, GathersKeeps, ReportsKeeps, WaitsKeeps DEF TopNext
<1> QED
    BY <1>1, <1>2 DEF CommandsNext, commandsVars

LEMMA ReportsFollow == TopInv => ReportIsTrue
<1> SUFFICES ASSUME TopInv
             PROVE  ReportIsTrue
    OBVIOUS
<1>1. RatesAreReal
    <2> SUFFICES ASSUME NEW r \in Row, NEW rate \in Rates(last.rows[r], this.rows[r])
                 PROVE  /\ \/ rate.amount <= this.rows[r].until - last.rows[r].since
                           \/ last.rows[r].raced \/ this.rows[r].raced
                        /\ this.rows[r].vm = last.rows[r].vm =>
                               rate.over = this.rows[r].time - last.rows[r].time
        BY DEF RatesAreReal
    <2> DEFINE b == last.rows[r]
               a == this.rows[r]
               over == Elapsed(b.at, a.at)
    <2>1. b \in Reading /\ a \in Reading /\ OldOK(a, worked[r], spent[r])
          /\ OldOK(b, worked[r], spent[r]) /\ PairOK(b, a)
        BY DEF TopInv, TopTyped, ReportsOK
    <2> HIDE DEF b, a
    <2>2. b.ok /\ a.ok
        BY DEF Rates, b, a
    <2>3. rate \in PerSecond(b.cpu, a.cpu, over)
        BY <2>2 DEF Rates, b, a
    <2>4. rate = [amount |-> a.cpu - b.cpu, over |-> over]
        BY <2>3 DEF PerSecond
    <2>5. /\ b.since \in Nat /\ b.cpu \in Int /\ b.at \in Int /\ b.time \in Nat /\ b.vm \in Int
          /\ a.cpu \in Int /\ a.until \in Nat /\ a.at \in Int /\ a.time \in Nat /\ a.vm \in Int
        BY <2>1 DEF Reading
    <2>6. ~b.raced /\ ~a.raced => a.cpu - b.cpu <= a.until - b.since
        BY <2>1, <2>2, <2>5 DEF PairOK, Apart
    <2>7. ASSUME a.vm = b.vm
          PROVE  over = a.time - b.time
        <3>1. /\ b.at = b.time - b.vm + 1 /\ b.vm <= b.time
              /\ a.at = a.time - b.vm + 1 /\ b.time < a.time
            BY <2>1, <2>2, <2>7 DEF OldOK, ClockOK, PairOK
        <3>2. b.at > 0 /\ a.at > b.at /\ a.at - b.at = a.time - b.time
            BY <2>5, <3>1
        <3> QED
            BY <3>2 DEF Elapsed
    <2>8. /\ rate.amount <= a.until - b.since \/ b.raced \/ a.raced
          /\ a.vm = b.vm => rate.over = a.time - b.time
        <3> HIDE DEF over
        <3> QED
            BY <2>4, <2>6, <2>7
    <2> QED
        BY <2>8 DEF a, b
<1>2. VMsAreTold
    BY DEF TopInv
<1> QED
    BY <1>1, <1>2 DEF ReportIsTrue

\* What top shows is true, for any distributions, scenes and numbers of restarts:
\* no rate is more than the row used between the two sweeps, in whatever order
\* rows and VMs stop and start while they are measured, and the memory of no VM
\* is shown with another.
THEOREM ReportsAreTrue == CommandsSpec => []ReportIsTrue
<1>1. CommandsInit => TopInv
    BY TopStarts
<1>2. TopInv /\ [CommandsNext]_commandsVars => TopInv'
    BY TopGoesOn
<1>3. TopInv => ReportIsTrue
    BY ReportsFollow
<1> QED
    BY <1>1, <1>2, <1>3, PTL DEF CommandsSpec
==============================================================================
