----------------------------- MODULE AgentProofs -----------------------------
(***************************************************************************)
(* Theorems about the daemon (Daemon) and the wiring of presets (Presets)  *)
(* as parts of Agent, for any number of VMs, connections and programs, and *)
(* for any distributions and presets.                                      *)
(***************************************************************************)
EXTENDS Agent, WellFoundedInduction, TLAPS

-----------------------------------------------------------------------------
(* The daemon.                                                             *)

\* Any set of numbers has a least one: Connect chooses the least connection
\* that is not in use.
LEMMA LeastNat ==
    ASSUME NEW S \in SUBSET Nat, S # {}
    PROVE  \E n \in S : \A m \in S : n <= m
<1> DEFINE R == {ss \in Nat \X Nat : ss[1] < ss[2]}
<1>1. IsWellFoundedOn(R, Nat)
    BY NatLessThanWellFounded DEF OpToRel
<1>2. \A x, y \in Nat : y < x => <<y, x>> \in R
    OBVIOUS
<1> HIDE DEF R
<1>3. PICK x \in S : \A y \in S : ~(<<y, x>> \in R)
    BY <1>1, WFMin
<1>4. \A m \in S : m \in Nat /\ x \in Nat /\ ~(m < x)
    BY <1>2, <1>3
<1>5. \A m \in S : x <= m
    BY <1>4
<1> QED
    BY <1>3, <1>5

\* While the daemon serves, it has not given its VM up; otherwise it counts
\* nothing (watchVMID).
Watching == misses < MissLimit /\ (daemon \notin {"serve", "failed"} => misses = 0)

\* A stream that is dialed, relayed or refused has a handler that waits for it
\* (inflight).
StreamsAreHeld ==
    \A j \in Stream : stream[j] \in {"dialing", "piping", "ending", "refusing"} =>
        on[j] \in Conn /\ handler[on[j]] \in {"accept", "wait"}

\* Who writes the status is at a place of its own where it does.
WritersRun ==
    /\ reports \subseteq Writer
    /\ \A k \in Conn : <<"conn", k>> \in reports => handler[k] \in {"accept", "leaving"}
    /\ \A j \in Stream : <<"stream", j>> \in reports =>
           stream[j] \in {"piping", "ending", "refusing"}

\* Outside Serve there is no handler.
HandlersAreServed ==
    daemon \in {"find", "bind", "stopping", "exiting", "stopped"} =>
        \A k \in Conn : handler[k] = "none"

\* When the file has been removed, Serve itself writes no more; it has been, but
\* where that failed or the command that killed the daemon is still to do it.
RemovedLast ==
    daemon \in {"exiting", "stopped"} =>
        /\ <<"serve", 0>> \notin reports
        /\ file = "absent" \/ spared \/ stopper = "remove"

\* The inductive invariant of the daemon.
DaemonInv ==
    /\ DaemonTypeOK /\ Watching
    /\ StreamsAreHeld /\ WritersRun /\ HandlersAreServed /\ RemovedLast

\* The invariant is what the daemon's property needs.
LEMMA InvImpliesNoStatus == DaemonInv => StoppedLeavesNoStatus
<1> SUFFICES ASSUME DaemonInv
             PROVE  StoppedLeavesNoStatus
    OBVIOUS
<1>1. ASSUME daemon \in {"find", "bind", "stopping", "exiting", "stopped"}, NEW g \in reports
      PROVE  g = <<"serve", 0>>
    <2>1. \A k \in Conn : handler[k] = "none"
        BY <1>1 DEF DaemonInv, HandlersAreServed
    <2>2. \A k \in Conn : g # <<"conn", k>>
        BY <1>1, <2>1 DEF DaemonInv, WritersRun
    <2>3. \A j \in Stream : g # <<"stream", j>>
        BY <1>1, <2>1 DEF DaemonInv, WritersRun, StreamsAreHeld
    <2> QED
        BY <1>1, <2>2, <2>3 DEF DaemonInv, WritersRun, Writer
<1>2. daemon \in {"exiting", "stopped"} => reports = {}
    BY <1>1 DEF DaemonInv, RemovedLast
<1>3. daemon = "stopped" => file = "absent" \/ spared \/ stopper = "remove"
    BY DEF DaemonInv, RemovedLast
<1> QED
    BY <1>1, <1>2, <1>3 DEF StoppedLeavesNoStatus

\* The daemon starts in the invariant.
LEMMA DaemonInitInv == DaemonInit => DaemonInv
<1> SUFFICES ASSUME DaemonInit
             PROVE  DaemonInv
    OBVIOUS
<1>1. DaemonTypeOK
    <2>1. started \in 0..MaxVM /\ misses \in 0..MissLimit
        BY DaemonAssumption DEF DaemonInit
    <2>2. /\ told \in BOOLEAN /\ helpers \in BOOLEAN /\ ctrlC \in BOOLEAN
          /\ vm \in VM \cup {None} /\ bound \in VM \cup {None} /\ cur \in Conn \cup {None}
        BY DaemonAssumption DEF DaemonInit
    <2>3. /\ handler \in [Conn -> {"none", "handshake", "accept", "wait", "leaving"}]
          /\ stream \in [Stream -> {"none", "waiting", "opening", "dialing", "piping",
                                   "ending", "refusing", "over"}]
          /\ on \in [Stream -> Conn \cup {None}] /\ relaying \in [Stream -> SUBSET Dirs]
        BY DEF DaemonInit
    <2> QED
        BY <2>1, <2>2, <2>3 DEF DaemonInit, DaemonTypeOK
<1>2. \A j \in Stream : stream[j] = "none"
    BY DEF DaemonInit
<1>3. Watching
    BY DaemonAssumption DEF DaemonInit, Watching
<1>4. WritersRun
    BY DEF DaemonInit, WritersRun
<1>5. StreamsAreHeld /\ HandlersAreServed /\ RemovedLast
    BY <1>2 DEF DaemonInit, StreamsAreHeld, HandlersAreServed, RemovedLast
<1> QED
    BY <1>1, <1>3, <1>4, <1>5 DEF DaemonInv

\* The least connection that is not in use is a connection without a handler.
LEMMA FreshIsFree ==
    ASSUME Unused # {}
    PROVE  LET k == CHOOSE k \in Unused : \A i \in Unused : k <= i
           IN  k \in Conn /\ k \in Unused
<1>1. Unused \in SUBSET Nat /\ Unused \subseteq Conn
    BY DaemonAssumption DEF Unused, Conn
<1>2. \E k \in Unused : \A i \in Unused : k <= i
    BY <1>1, LeastNat
<1> QED
    BY <1>1, <1>2

\* A step of the daemon's part, action by action.
LEMMA DaemonCases ==
    ASSUME DaemonNext
    PROVE  \/ VMStarts \/ VMStops \/ HelpersChange \/ CtrlC \/ AgentStop \/ AgentStart
           \/ AcceptFails \/ StopKills \/ StopFails \/ StopRemoves
           \/ GuestRestarts \/ Connect \/ GuestSessionEnds
           \/ Find \/ Bind \/ Watch \/ Drained \/ Failed \/ Stop \/ Exit
           \/ \E k \in Conn : \/ Handshake(k) \/ HandlerStops(k)
                              \/ HandlerLeaves(k) \/ HandlerReturns(k)
           \/ \E j \in Stream :
                  \/ ClientComes(j) \/ ClientLeaves(j) \/ TargetAnswers(j) \/ TargetQuits(j)
                  \/ PickSession(j) \/ Refuse(j) \/ AcceptRequest(j) \/ RefuseOpen(j)
                  \/ DropOpen(j) \/ OpenStream(j) \/ UpEnds(j)
                  \/ DownEnds(j) \/ PipeEnds(j) \/ OpenReturns(j)
           \/ \E g \in Writer : WriteStatus(g)
BY DEF DaemonNext, World, Guest, Daemon, Serving, Relaying

\* What a removal of the file, which may fail, leaves.
LEMMA RemovalGives ==
    ASSUME DaemonTypeOK, Removes
    PROVE  /\ spared' \in BOOLEAN
           /\ file' \in {"absent", "alive", "dead"}
           /\ daemon \in {"stopping", "exiting", "stopped"} => file' = "absent" \/ spared'
<1>1. CASE file' = "absent" /\ spared' = FALSE
    BY <1>1
<1>2. CASE UNCHANGED file /\ spared' = (daemon \in {"stopping", "exiting", "stopped"})
    <2>1. spared' \in BOOLEAN
        BY <1>2
    <2>2. daemon \in {"stopping", "exiting", "stopped"} => spared'
        BY <1>2
    <2> QED
        BY <1>2, <2>1, <2>2 DEF DaemonTypeOK
<1> QED
    BY <1>1, <1>2 DEF Removes

\* Each step of the daemon's part keeps the types.
LEMMA DaemonStepType == DaemonInv /\ DaemonNext => DaemonTypeOK'
<1> SUFFICES ASSUME DaemonInv, DaemonNext
             PROVE  DaemonTypeOK'
    OBVIOUS
<1> DaemonTypeOK
    BY DEF DaemonInv
<1>0. 0 \in 0..MissLimit
    BY DaemonAssumption
<1> USE DEF DaemonTypeOK, machineVars, serveVars, guestVars, streamVars, statusVars
<1>1. CASE VMStarts
    BY <1>1, DaemonAssumption DEF VMStarts, VM
<1>2. CASE VMStops
    BY <1>2 DEF VMStops
<1>3. CASE HelpersChange
    BY <1>3 DEF HelpersChange
<1>4. CASE CtrlC
    BY <1>4, <1>0 DEF CtrlC
<1>5. CASE AgentStop
    BY <1>5 DEF AgentStop
<1>6. CASE AgentStart
    BY <1>6 DEF AgentStart
<1>7. CASE GuestRestarts
    BY <1>7 DEF GuestRestarts
<1>8. CASE GuestSessionEnds
    BY <1>8 DEF GuestSessionEnds
<1>9. CASE Find
    BY <1>9 DEF Find, Passive
<1>10. CASE Bind
    BY <1>10, DaemonAssumption DEF Bind
<1>11. CASE Drained
    BY <1>11 DEF Drained
<1>12. CASE Stop
    BY <1>12, RemovalGives DEF Stop
<1>13. CASE Exit
    BY <1>13, <1>0 DEF Exit, ProcessEnds, Opened
<1>14. CASE Watch
    <2>1. misses' \in 0..MissLimit
        BY <1>14, DaemonAssumption DEF Watch
    <2> QED
        BY <1>14, <2>1 DEF Watch
<1>15. CASE Connect
    BY <1>15, FreshIsFree DEF Connect
<1>16. ASSUME NEW k \in Conn, Handshake(k)
      PROVE  DaemonTypeOK'
    BY <1>16 DEF Handshake
<1>17. ASSUME NEW k \in Conn, HandlerStops(k)
      PROVE  DaemonTypeOK'
    BY <1>17 DEF HandlerStops
<1>18. ASSUME NEW k \in Conn, HandlerLeaves(k)
      PROVE  DaemonTypeOK'
    BY <1>18 DEF HandlerLeaves
<1>19. ASSUME NEW k \in Conn, HandlerReturns(k)
      PROVE  DaemonTypeOK'
    BY <1>19 DEF HandlerReturns
<1>20. ASSUME NEW j \in Stream, ClientComes(j)
      PROVE  DaemonTypeOK'
    BY <1>20 DEF ClientComes, To
<1>21. ASSUME NEW j \in Stream, ClientLeaves(j)
      PROVE  DaemonTypeOK'
    BY <1>21 DEF ClientLeaves
<1>22. ASSUME NEW j \in Stream, TargetAnswers(j)
      PROVE  DaemonTypeOK'
    BY <1>22 DEF TargetAnswers, Stops
<1>23. ASSUME NEW j \in Stream, TargetQuits(j)
      PROVE  DaemonTypeOK'
    BY <1>23 DEF TargetQuits, Quits
<1>24. ASSUME NEW j \in Stream, PickSession(j)
      PROVE  DaemonTypeOK'
    BY <1>24 DEF PickSession, To, Session
<1>25. ASSUME NEW j \in Stream, Refuse(j)
      PROVE  DaemonTypeOK'
    BY <1>25 DEF Refuse, Over, To
<1>26. ASSUME NEW j \in Stream, OpenStream(j)
      PROVE  DaemonTypeOK'
    BY <1>26 DEF OpenStream, To, Dirs
<1>27. ASSUME NEW j \in Stream, UpEnds(j)
      PROVE  DaemonTypeOK'
    BY <1>27 DEF UpEnds, Stops, Quits
<1>28. ASSUME NEW j \in Stream, DownEnds(j)
      PROVE  DaemonTypeOK'
    BY <1>28 DEF DownEnds, Stops
<1>29. ASSUME NEW j \in Stream, PipeEnds(j)
      PROVE  DaemonTypeOK'
    BY <1>29 DEF PipeEnds, To, Quits
<1>30. ASSUME NEW j \in Stream, OpenReturns(j)
      PROVE  DaemonTypeOK'
    BY <1>30 DEF OpenReturns, Over, To
<1>31. ASSUME NEW g \in Writer, WriteStatus(g)
      PROVE  DaemonTypeOK'
    BY <1>31 DEF WriteStatus
<1>32. CASE AcceptFails
    BY <1>32 DEF AcceptFails
<1>33. CASE Failed
    BY <1>33, <1>0 DEF Failed
<1>34. CASE StopKills
    BY <1>34, <1>0 DEF StopKills, ProcessEnds, Opened
<1>35. CASE StopFails
    BY <1>35 DEF StopFails
<1>36. CASE StopRemoves
    BY <1>36, RemovalGives DEF StopRemoves
<1>37. ASSUME NEW j \in Stream, AcceptRequest(j)
      PROVE  DaemonTypeOK'
    BY <1>37 DEF AcceptRequest, To
<1>38. ASSUME NEW j \in Stream, RefuseOpen(j)
      PROVE  DaemonTypeOK'
    BY <1>38 DEF RefuseOpen, To
<1>39. ASSUME NEW j \in Stream, DropOpen(j)
      PROVE  DaemonTypeOK'
    BY <1>39 DEF DropOpen, Over, To
<1> QED
    BY <1>1, <1>2, <1>3, <1>4, <1>5, <1>6, <1>7, <1>8, <1>9, <1>10, <1>11, <1>12,
        <1>13, <1>14, <1>15, <1>16, <1>17, <1>18, <1>19, <1>20, <1>21, <1>22, <1>23,
        <1>24, <1>25, <1>26, <1>27, <1>28, <1>29, <1>30, <1>31, <1>32, <1>33, <1>34,
        <1>35, <1>36, <1>37, <1>38, <1>39, DaemonCases

\* What the writers are told apart by.
LEMMA Writers ==
    /\ <<"serve", 0>> \in Writer
    /\ \A k \in Conn : <<"conn", k>> \in Writer
    /\ \A j \in Stream : <<"stream", j>> \in Writer
    /\ \A k, j \in Int : <<"conn", k>> # <<"stream", j>>
    /\ \A k \in Int : <<"conn", k>> # <<"serve", 0>> /\ <<"stream", k>> # <<"serve", 0>>
    /\ Conn \subseteq Int /\ Stream \subseteq Int
BY DaemonAssumption DEF Writer, Conn, Stream

\* A handler is at one of its places.
LEMMA NoHandling ==
    ASSUME DaemonTypeOK, Handling = {}
    PROVE  \A k \in Conn : handler[k] = "none"
BY DEF DaemonTypeOK, Handling

\* Each step of the daemon's part keeps the rest of the invariant.
LEMMA DaemonStepInv ==
    DaemonInv /\ DaemonNext =>
        Watching' /\ StreamsAreHeld' /\ WritersRun' /\ HandlersAreServed' /\ RemovedLast'
<1> DEFINE Goal == Watching' /\ StreamsAreHeld' /\ WritersRun' /\ HandlersAreServed'
                   /\ RemovedLast'
<1> SUFFICES ASSUME DaemonInv, DaemonNext
             PROVE  Goal
    OBVIOUS
<1> USE DEF machineVars, serveVars, guestVars, streamVars, statusVars
<1>type. DaemonTypeOK
    BY DEF DaemonInv
<1> DEFINE Same == UNCHANGED <<daemon, misses, handler, stream, on, reports, file,
                              stopper, spared>>
<1>0. ASSUME Same
      PROVE  Goal
    BY <1>0
    DEF DaemonInv, Watching, StreamsAreHeld, WritersRun, HandlersAreServed, RemovedLast
<1> HIDE DEF Goal
<1>1. CASE VMStarts
    BY <1>0, <1>1 DEF VMStarts
<1>2. CASE VMStops
    BY <1>0, <1>2 DEF VMStops
<1>3. CASE HelpersChange
    BY <1>0, <1>3 DEF HelpersChange
<1>4. CASE GuestRestarts
    BY <1>0, <1>4 DEF GuestRestarts
<1>5. CASE GuestSessionEnds
    BY <1>0, <1>5 DEF GuestSessionEnds
<1>6. ASSUME NEW j \in Stream, ClientLeaves(j)
      PROVE  Goal
    BY <1>0, <1>6 DEF ClientLeaves
<1>7. ASSUME NEW j \in Stream, TargetAnswers(j)
      PROVE  Goal
    BY <1>0, <1>7 DEF TargetAnswers
<1>8. ASSUME NEW j \in Stream, TargetQuits(j)
      PROVE  Goal
    BY <1>0, <1>8 DEF TargetQuits
<1>9. ASSUME NEW j \in Stream, UpEnds(j)
      PROVE  Goal
    BY <1>0, <1>9 DEF UpEnds
<1>10. ASSUME NEW j \in Stream, DownEnds(j)
      PROVE  Goal
    BY <1>0, <1>10 DEF DownEnds
<1>11. CASE CtrlC
    BY <1>type, <1>11, DaemonAssumption
    DEF CtrlC, DaemonTypeOK, DaemonInv, Watching, StreamsAreHeld, WritersRun,
        HandlersAreServed, RemovedLast, Goal
<1>12. CASE AgentStop
    BY <1>type, <1>12
    DEF AgentStop, DaemonInv, Watching, StreamsAreHeld,
        WritersRun, HandlersAreServed, RemovedLast, Goal
<1>13. CASE AgentStart
    BY <1>type, <1>13
    DEF AgentStart, DaemonInv, Watching, StreamsAreHeld, WritersRun, HandlersAreServed,
        RemovedLast, Goal
<1>14. CASE Find
    BY <1>type, <1>14
    DEF Find, Passive, DaemonInv, Watching, StreamsAreHeld, WritersRun,
        HandlersAreServed, RemovedLast, Goal
<1>15. CASE Bind
    BY <1>type, <1>15, Writers, DaemonAssumption
    DEF Bind, Reports, Busy, DaemonInv, Watching, StreamsAreHeld, WritersRun,
        HandlersAreServed, RemovedLast, Goal
<1>16. CASE Drained
    BY <1>type, <1>16, NoHandling
    DEF Drained, DaemonInv, Watching, StreamsAreHeld, WritersRun, HandlersAreServed,
        RemovedLast, Goal
<1>17. CASE Stop
    BY <1>type, <1>17, RemovalGives
    DEF Stop, Busy, DaemonInv, Watching, StreamsAreHeld, WritersRun, HandlersAreServed,
        RemovedLast, Goal
<1>ends. ASSUME ProcessEnds
       PROVE  Watching' /\ StreamsAreHeld' /\ WritersRun' /\ HandlersAreServed'
    <2>1. \A j \in Stream : stream'[j] \notin {"dialing", "piping", "ending", "refusing"}
        BY <1>type, <1>ends DEF ProcessEnds, Opened, DaemonTypeOK
    <2> QED
        BY <1>ends, <2>1, DaemonAssumption
        DEF ProcessEnds, Watching, StreamsAreHeld, WritersRun, HandlersAreServed
<1>18. CASE Exit
    <2>1. RemovedLast'
        BY <1>18 DEF Exit, ProcessEnds, DaemonInv, RemovedLast
    <2> QED
        BY <1>18, <1>ends, <2>1 DEF Exit, Goal
<1>19. CASE Watch
    <2>1. Watching'
        BY <1>type, <1>19, DaemonAssumption DEF Watch, Watching, DaemonTypeOK
    <2>2. daemon' \in {"serve", "failed", "drain"}
        BY <1>19 DEF Watch
    <2> QED
        BY <1>19, <2>1, <2>2 DEF Watch, DaemonInv, StreamsAreHeld, WritersRun,
                             HandlersAreServed, RemovedLast, Goal
<1>20. CASE Connect
    BY <1>type, <1>20, FreshIsFree
    DEF Connect, Unused, DaemonTypeOK, DaemonInv, Watching, StreamsAreHeld, WritersRun,
        HandlersAreServed, RemovedLast, Goal
<1>21. ASSUME NEW k \in Conn, HandlerStops(k)
      PROVE  Goal
    BY <1>type, <1>21
    DEF HandlerStops, Busy, DaemonTypeOK, DaemonInv, Watching, StreamsAreHeld,
        WritersRun, HandlersAreServed, RemovedLast, Goal
<1>22. ASSUME NEW k \in Conn, HandlerLeaves(k)
      PROVE  Goal
    BY <1>type, <1>22, Writers
    DEF HandlerLeaves, Reports, OfSession, Opened, DaemonTypeOK, DaemonInv, Watching,
        StreamsAreHeld, WritersRun, HandlersAreServed, RemovedLast, Goal
<1>23. ASSUME NEW k \in Conn, HandlerReturns(k)
      PROVE  Goal
    BY <1>type, <1>23
    DEF HandlerReturns, Busy, DaemonTypeOK, DaemonInv, Watching, StreamsAreHeld,
        WritersRun, HandlersAreServed, RemovedLast, Goal
<1>24. ASSUME NEW k \in Conn, Handshake(k)
      PROVE  Goal
    <2>1. Watching' /\ RemovedLast'
        BY <1>24, Writers DEF Handshake, Reports, DaemonInv, Watching, RemovedLast
    <2>2. HandlersAreServed'
        BY <1>type, <1>24 DEF Handshake, DaemonTypeOK, DaemonInv, HandlersAreServed
    <2>3. StreamsAreHeld'
        BY <1>type, <1>24 DEF Handshake, DaemonTypeOK, DaemonInv, StreamsAreHeld
    <2>4. WritersRun'
        <3>1. CASE k \in wire
            BY <1>type, <1>24, <3>1, Writers
            DEF Handshake, Reports, DaemonTypeOK, DaemonInv, WritersRun
        <3>2. CASE k \notin wire
            BY <1>type, <1>24, <3>2 DEF Handshake, DaemonTypeOK, DaemonInv, WritersRun
        <3> QED
            BY <3>1, <3>2
    <2> QED
        BY <2>1, <2>2, <2>3, <2>4 DEF Goal
<1>25. ASSUME NEW j \in Stream, ClientComes(j)
      PROVE  Goal
    BY <1>type, <1>25
    DEF ClientComes, To, DaemonTypeOK, DaemonInv, Watching, StreamsAreHeld, WritersRun,
        HandlersAreServed, RemovedLast, Goal
<1>26. ASSUME NEW j \in Stream, PickSession(j)
      PROVE  Goal
    BY <1>type, <1>26
    DEF PickSession, To, DaemonTypeOK, DaemonInv, Watching, StreamsAreHeld, WritersRun,
        HandlersAreServed, RemovedLast, Goal
<1>27. ASSUME NEW j \in Stream, Refuse(j)
      PROVE  Goal
    BY <1>type, <1>27
    DEF Refuse, Over, To, DaemonTypeOK, DaemonInv, Watching, StreamsAreHeld, WritersRun,
        HandlersAreServed, RemovedLast, Goal
<1>28. ASSUME NEW j \in Stream, OpenStream(j)
      PROVE  Goal
    BY <1>type, <1>28, Writers
    DEF OpenStream, To, Reports, DaemonTypeOK, DaemonInv, Watching, StreamsAreHeld,
        WritersRun, HandlersAreServed, RemovedLast, Goal
<1>29. ASSUME NEW j \in Stream, PipeEnds(j)
      PROVE  Goal
    BY <1>type, <1>29, Writers
    DEF PipeEnds, To, Reports, DaemonTypeOK, DaemonInv, Watching, StreamsAreHeld,
        WritersRun, HandlersAreServed, RemovedLast, Goal
<1>30. ASSUME NEW j \in Stream, OpenReturns(j)
      PROVE  Goal
    BY <1>type, <1>30
    DEF OpenReturns, Over, To, Busy, DaemonTypeOK, DaemonInv, Watching, StreamsAreHeld,
        WritersRun, HandlersAreServed, RemovedLast, Goal
<1>31. ASSUME NEW g \in Writer, WriteStatus(g)
      PROVE  Goal
    <2>1. daemon \notin {"exiting", "stopped"}
        BY <1>31, InvImpliesNoStatus DEF WriteStatus, Busy, StoppedLeavesNoStatus
    <2>2. RemovedLast'
        BY <1>31, <2>1 DEF WriteStatus, RemovedLast
    <2> QED
        BY <1>31, <2>2 DEF WriteStatus, DaemonInv, Watching, StreamsAreHeld, WritersRun,
                            HandlersAreServed, Goal
<1>32. CASE AcceptFails
    BY <1>type, <1>32
    DEF AcceptFails, DaemonInv, Watching, StreamsAreHeld, WritersRun,
        HandlersAreServed, RemovedLast, Goal
<1>33. CASE Failed
    <2>1. \A k \in Conn : handler[k] = "none"
        BY <1>type, <1>33, NoHandling DEF Failed
    <2>2. Watching' /\ HandlersAreServed' /\ RemovedLast'
        BY <1>33, <2>1, DaemonAssumption
        DEF Failed, DaemonInv, Watching, HandlersAreServed, RemovedLast
    <2>3. StreamsAreHeld' /\ WritersRun'
        BY <1>33, Writers
        DEF Failed, Reports, DaemonInv, StreamsAreHeld, WritersRun
    <2> QED
        BY <2>2, <2>3 DEF Goal
<1>34. CASE StopKills
    <2>1. RemovedLast'
        BY <1>34 DEF StopKills, ProcessEnds, RemovedLast
    <2> QED
        BY <1>34, <1>ends, <2>1 DEF StopKills, Goal
<1>35. CASE StopFails
    BY <1>type, <1>35
    DEF StopFails, DaemonInv, Watching, StreamsAreHeld, WritersRun, HandlersAreServed,
        RemovedLast, Goal
<1>36. CASE StopRemoves
    <2>1. RemovedLast'
        BY <1>type, <1>36, RemovalGives DEF StopRemoves, DaemonInv, RemovedLast
    <2> QED
        BY <1>36, <2>1
        DEF StopRemoves, DaemonInv, Watching, StreamsAreHeld, WritersRun,
            HandlersAreServed, Goal
<1>37. ASSUME NEW j \in Stream, AcceptRequest(j)
      PROVE  Goal
    <2>1. on[j] \in Conn
        BY <1>type, <1>37 DEF AcceptRequest, DaemonTypeOK
    <2> QED
        BY <1>type, <1>37, <2>1
        DEF AcceptRequest, To, DaemonTypeOK, DaemonInv, Watching, StreamsAreHeld,
            WritersRun, HandlersAreServed, RemovedLast, Goal
<1>38. ASSUME NEW j \in Stream, RefuseOpen(j)
      PROVE  Goal
    BY <1>type, <1>38, Writers
    DEF RefuseOpen, To, Reports, DaemonTypeOK, DaemonInv, Watching, StreamsAreHeld,
        WritersRun, HandlersAreServed, RemovedLast, Goal
<1>39. ASSUME NEW j \in Stream, DropOpen(j)
      PROVE  Goal
    BY <1>type, <1>39
    DEF DropOpen, Over, To, DaemonTypeOK, DaemonInv, Watching, StreamsAreHeld,
        WritersRun, HandlersAreServed, RemovedLast, Goal
<1> QED
    BY <1>1, <1>2, <1>3, <1>4, <1>5, <1>6, <1>7, <1>8, <1>9, <1>10, <1>11, <1>12,
        <1>13, <1>14, <1>15, <1>16, <1>17, <1>18, <1>19, <1>20, <1>21, <1>22, <1>23,
        <1>24, <1>25, <1>26, <1>27, <1>28, <1>29, <1>30, <1>31, <1>32, <1>33, <1>34,
        <1>35, <1>36, <1>37, <1>38, <1>39, DaemonCases

\* A step of Agent keeps the invariant of the daemon, whichever part moves.
LEMMA AgentStepDaemon == DaemonInv /\ [AgentNext]_agentVars => DaemonInv'
<1> SUFFICES ASSUME DaemonInv, [AgentNext]_agentVars
             PROVE  DaemonInv'
    OBVIOUS
<1>1. CASE DaemonNext
    BY <1>1, DaemonStepType, DaemonStepInv DEF DaemonInv
<1>2. CASE UNCHANGED daemonVars
    <2> USE DEF daemonVars, machineVars, serveVars, guestVars, streamVars, statusVars
    <2>1. DaemonTypeOK'
        BY <1>2 DEF DaemonInv, DaemonTypeOK
    <2>2. Watching' /\ StreamsAreHeld' /\ WritersRun' /\ HandlersAreServed' /\ RemovedLast'
        BY <1>2 DEF DaemonInv, Watching, StreamsAreHeld, WritersRun, HandlersAreServed,
                    RemovedLast
    <2> QED
        BY <2>1, <2>2 DEF DaemonInv
<1> QED
    BY <1>1, <1>2 DEF AgentNext, agentVars

\* "nothing writes the status file after Serve exits" (host.go:99): however its
\* handlers, its relays, its refusals and their reports interleave with the end
\* of serving, a daemon that stopped has left no status.json but where it could
\* not be removed, or the command that killed it is about to remove it (Serve,
\* agentServe, agentStop).
THEOREM NoStatusIsLeft == AgentSpec => []StoppedLeavesNoStatus
<1>1. AgentInit => DaemonInv
    BY DaemonInitInv DEF AgentInit
<1> QED
    BY <1>1, AgentStepDaemon, InvImpliesNoStatus, PTL DEF AgentSpec

-----------------------------------------------------------------------------
(* The wiring of presets.                                                  *)

\* The steps of each command after its first.
StepOf ==
    [enable    |-> {"listener", "profile", "restart"},
     disable   |-> {"profile", "restart"},
     install   |-> {"config", "unit", "create"},
     uninstall |-> {"remove"}]

\* A command is at a step of its own, and the presets are what they are for.
CommandsHaveSteps ==
    /\ command # Idle =>
           /\ command.next \in StepOf[command.verb]
           /\ command.verb \in {"enable", "disable"} => command.preset \in Preset
    /\ done # Idle => command = Idle /\ done.distro \in unit

\* The host is told before the guest is, and of the filter with the target.
HostIsFirst ==
    /\ allow \cap Filtered \subseteq filters
    /\ opens.allow \cap Filtered \subseteq opens.filters
    /\ command # Idle /\ command.verb = "enable" =>
           /\ command.preset \in allow
           /\ command.preset \in opens.allow \cup since

\* What a command has done of its work.
ListenerIsSet ==
    command # Idle /\ command.next \in {"profile", "restart"} =>
        /\ command.verb = "enable" => command.preset \in config[command.distro].on
        /\ command.verb = "disable" => command.preset \notin config[command.distro].on

\* The script follows the listeners but where it is spoiled: there it is before
\* it is written, and no more when the agent is restarted.
ProfileIsWritten ==
    /\ ProfileFollowsListeners
    /\ At("profile") => command.distro \in spoiled
    /\ At("restart") => command.distro \notin spoiled

\* The inductive invariant of the wiring.
PresetsInv ==
    /\ PresetsTypeOK /\ CommandsHaveSteps /\ HostIsFirst /\ ListenerIsSet
    /\ ProfileIsWritten /\ ListenersAreAllowed /\ SuccessIsWired

\* No configuration listens for nothing.
LEMMA EmptyListeners == NoConfig \in Listeners /\ NoConfig.on = {}
BY DEF NoConfig, Listeners

\* The wiring starts in the invariant.
LEMMA PresetsInitInv == PresetsInit => PresetsInv
<1> SUFFICES ASSUME PresetsInit
             PROVE  PresetsInv
    OBVIOUS
<1>1. PresetsTypeOK
    BY EmptyListeners, PresetsAssumption DEF PresetsInit, PresetsTypeOK, Allowance
<1>2. \A d \in Distro : config[d].on = {} /\ serving[d].on = {} /\ profile[d] = {}
    BY EmptyListeners DEF PresetsInit
<1>3. ProfileIsWritten /\ ListenersAreAllowed
    BY <1>2
    DEF PresetsInit, ProfileIsWritten, ProfileFollowsListeners, Exports, At,
        ListenersAreAllowed, Listened
<1>4. CommandsHaveSteps /\ HostIsFirst /\ ListenerIsSet /\ SuccessIsWired
    BY DEF PresetsInit, CommandsHaveSteps, HostIsFirst, ListenerIsSet, SuccessIsWired
<1> QED
    BY <1>1, <1>3, <1>4 DEF PresetsInv

\* A step of the wiring, action by action.
LEMMA PresetsCases ==
    ASSUME PresetsNext
    PROVE  \/ Fail \/ AddListener \/ WriteProfile \/ Restart \/ WriteConfig
           \/ RegisterUnit \/ NoUnit \/ CreateHost \/ RemoveFiles \/ DaemonStarts
           \/ HostIsCut \/ ProfileIsCut \/ RestartIsCut \/ UnitIsCut \/ RemovalIsCut
           \/ \E d \in Distro :
                  \/ DistroRestarts(d) \/ Install(d) \/ ConfigIsCut(d)
                  \/ \E b \in BOOLEAN : Uninstall(d, b)
                  \/ \E p \in Preset : Enable(d, p) \/ Disable(d, p)
BY DEF PresetsNext, IsCut

\* A command that runs is a command, of the verb its step belongs to.
LEMMA CommandFacts ==
    ASSUME PresetsInv, NEW s, At(s)
    PROVE  /\ command \in Command /\ command # Idle /\ command.next = s /\ done = Idle
           /\ command.verb \in Verb /\ command.distro \in Distro
           /\ s = "listener" => command.verb = "enable"
           /\ s \in {"profile", "restart"} => command.verb \in {"enable", "disable"}
           /\ s \in {"config", "unit", "create"} => command.verb = "install"
           /\ s = "remove" => command.verb = "uninstall"
           /\ command.verb \in {"enable", "disable"} => command.preset \in Preset
<1>1. command \in Command /\ command # Idle /\ command.next = s
    BY DEF PresetsInv, PresetsTypeOK, At
<1>2. command.verb \in Verb /\ command.distro \in Distro
    BY <1>1 DEF Command
<1>3. command.next \in StepOf[command.verb]
    BY <1>1 DEF PresetsInv, CommandsHaveSteps
<1>4. /\ s = "listener" => command.verb = "enable"
      /\ s \in {"profile", "restart"} => command.verb \in {"enable", "disable"}
      /\ s \in {"config", "unit", "create"} => command.verb = "install"
      /\ s = "remove" => command.verb = "uninstall"
    BY <1>1, <1>2, <1>3 DEF StepOf, Verb
<1> QED
    BY <1>1, <1>2, <1>4 DEF PresetsInv, CommandsHaveSteps

\* A command that goes on is the same command, at its next step.
LEMMA ThenFacts ==
    ASSUME PresetsInv, NEW t, At(t), NEW s \in Step, s \in StepOf[command.verb], Then(s)
    PROVE  /\ command' \in Command \cup {Idle} /\ done' = Idle
           /\ command' # Idle =>
                  /\ command'.next = s /\ command'.verb = command.verb
                  /\ command'.distro = command.distro /\ command'.preset = command.preset
           /\ CommandsHaveSteps'
<1>1. command \in Command /\ done = Idle
    BY CommandFacts
<1>2. done' = Idle
    BY <1>1 DEF Then
<1>3. CASE command' = Idle
    BY <1>2, <1>3 DEF CommandsHaveSteps
<1>4. CASE command' = [command EXCEPT !.next = s]
    <2>1. /\ command' \in Command /\ command'.next = s /\ command'.verb = command.verb
          /\ command'.distro = command.distro /\ command'.preset = command.preset
        BY <1>1, <1>4 DEF Command
    <2> QED
        BY <1>2, <2>1, CommandFacts DEF CommandsHaveSteps
<1> QED
    BY <1>3, <1>4 DEF Then

\* What a command is that is given.
LEMMA BeginFacts ==
    ASSUME NEW verb \in Verb, NEW d \in Distro, NEW p \in Preset \cup {NoPreset},
           NEW b \in BOOLEAN, NEW s \in Step, s \in StepOf[verb],
           verb \in {"enable", "disable"} => p \in Preset,
           Begins(verb, d, p, b, s)
    PROVE  /\ command' \in Command \cup {Idle} /\ done' = Idle
           /\ command' # Idle =>
                  /\ command'.next = s /\ command'.verb = verb
                  /\ command'.distro = d /\ command'.preset = p
           /\ CommandsHaveSteps'
<1>1. done' = Idle
    BY DEF Begins
<1>2. CASE command' = Idle
    BY <1>1, <1>2 DEF CommandsHaveSteps
<1>3. CASE command' = [verb |-> verb, distro |-> d, preset |-> p, purge |-> b, next |-> s]
    <2>1. /\ command' \in Command /\ command'.next = s /\ command'.verb = verb
          /\ command'.distro = d /\ command'.preset = p
        BY <1>3 DEF Command
    <2> QED
        BY <1>1, <2>1 DEF CommandsHaveSteps
<1> QED
    BY <1>2, <1>3 DEF Begins

\* Nothing is asked of a command that is over and did not succeed.
LEMMA OverFacts ==
    ASSUME command' = Idle, done' = Idle
    PROVE  /\ CommandsHaveSteps' /\ ListenerIsSet' /\ ~At("restart")' /\ ~At("profile")'
           /\ SuccessIsWired'
           /\ command' \in Command \cup {Idle}
BY DEF CommandsHaveSteps, ListenerIsSet, At, SuccessIsWired

\* No success is claimed while a command runs.
LEMMA NothingDone == ASSUME done' = Idle PROVE SuccessIsWired'
BY DEF SuccessIsWired

\* What is listened for does not grow: it stays allowed.
LEMMA StaysAllowed ==
    ASSUME PresetsInv, UNCHANGED <<hostVars, opensVars>>,
           \A d \in Distro : Listened(d)' \subseteq Listened(d)
    PROVE  ListenersAreAllowed'
BY DEF hostVars, opensVars, PresetsInv, ListenersAreAllowed

\* The host is as it was, and so is what it was told.
LEMMA StaysTold ==
    ASSUME PresetsInv, UNCHANGED <<hostVars, opensVars>>,
           command' # Idle => /\ command # Idle /\ command'.verb = command.verb
                              /\ command'.preset = command.preset
    PROVE  HostIsFirst'
BY DEF hostVars, opensVars, PresetsInv, HostIsFirst

\* Where the command is over, nothing of what was told matters any more.
LEMMA OverIsTold ==
    ASSUME PresetsInv, command' = Idle, UNCHANGED opensVars,
           allow' \cap Filtered \subseteq filters'
    PROVE  HostIsFirst'
BY DEF opensVars, PresetsInv, HostIsFirst

\* A command that has been given is not yet at its last step.
LEMMA FreshIsEarly ==
    ASSUME command' # Idle => command'.next \notin {"restart"}
    PROVE  ~At("restart")'
BY DEF At

\* A call that changes the listeners of d, and leaves the script behind.
LEMMA SpoiledFollows ==
    ASSUME PresetsInv, NEW d \in Distro, Spoils(d), profile' = profile,
           \A e \in Distro \ {d} : config'[e] = config[e]
    PROVE  ProfileFollowsListeners'
BY DEF PresetsInv, ProfileIsWritten, ProfileFollowsListeners, Exports, Spoils

\* A call that leaves the listeners and the script alone.
LEMMA SameFollows ==
    ASSUME PresetsInv, spoiled' = spoiled, profile' = profile,
           \A e \in Distro : config'[e].on = config[e].on
    PROVE  ProfileFollowsListeners'
BY DEF PresetsInv, ProfileIsWritten, ProfileFollowsListeners, Exports

-----------------------------------------------------------------------------
(* The steps of sock.Enable and sock.Disable.                              *)

\* An enable keeps the invariant: it extends the allow list first.
LEMMA EnableInv ==
    ASSUME PresetsInv, NEW d \in Distro, NEW p \in Preset, Enable(d, p)
    PROVE  PresetsInv'
<1> USE DEF hostVars, opensVars, distroVars
<1>type. PresetsTypeOK
    BY DEF PresetsInv
<1>1. /\ command' \in Command \cup {Idle} /\ done' = Idle /\ CommandsHaveSteps'
      /\ command' # Idle =>
             command'.next = "listener" /\ command'.verb = "enable" /\ command'.preset = p
    BY BeginFacts DEF Enable, Verb, Step, StepOf
<1>2. PresetsTypeOK'
    BY <1>type, <1>1 DEF Enable, PresetsTypeOK
<1>3. HostIsFirst'
    BY <1>1 DEF Enable, PresetsInv, HostIsFirst
<1>4. ListenerIsSet' /\ ~At("restart")' /\ ~At("profile")'
    BY <1>1 DEF ListenerIsSet, At
<1>5. ProfileFollowsListeners'
    BY SameFollows DEF Enable
<1>6. ListenersAreAllowed'
    BY DEF Enable, PresetsInv, ListenersAreAllowed, Listened
<1> QED
    BY <1>1, <1>2, <1>3, <1>4, <1>5, <1>6, NothingDone DEF PresetsInv, ProfileIsWritten

\* A listener is added that the host was told of.
LEMMA AddListenerInv == ASSUME PresetsInv, AddListener PROVE PresetsInv'
<1> USE DEF hostVars, opensVars, distroVars
<1>type. PresetsTypeOK
    BY DEF PresetsInv
<1>1. /\ At("listener") /\ command.distro \in Distro /\ command.preset \in Preset
      /\ command.verb = "enable" /\ command # Idle
    BY CommandFacts DEF AddListener
<1>2. /\ command' \in Command \cup {Idle} /\ done' = Idle /\ CommandsHaveSteps'
      /\ command' # Idle =>
             /\ command'.next = "profile" /\ command'.verb = "enable"
             /\ command'.distro = command.distro /\ command'.preset = command.preset
    BY <1>1, ThenFacts DEF AddListener, Step, StepOf
<1>3. PresetsTypeOK'
    BY <1>type, <1>1, <1>2 DEF AddListener, Spoils, PresetsTypeOK, Listeners
<1>4. /\ config'[command.distro].on = config[command.distro].on \cup {command.preset}
      /\ \A e \in Distro \ {command.distro} : config'[e] = config[e]
    BY <1>type, <1>1 DEF AddListener, PresetsTypeOK, Listeners
<1>5. HostIsFirst'
    BY <1>1, <1>2, StaysTold DEF AddListener
<1>6. ListenerIsSet' /\ ~At("restart")' /\ (At("profile")' => command'.distro \in spoiled')
    BY <1>1, <1>2, <1>4 DEF AddListener, Spoils, ListenerIsSet, At
<1>7. ProfileFollowsListeners'
    BY <1>1, <1>4, SpoiledFollows DEF AddListener
<1>8. ListenersAreAllowed'
    <2>1. /\ command.preset \in allow /\ command.preset \in opens.allow \cup since
          /\ allow \cap Filtered \subseteq filters
          /\ opens.allow \cap Filtered \subseteq opens.filters
        BY <1>1 DEF PresetsInv, HostIsFirst
    <2>2. \A e \in Distro : Listened(e)' \subseteq Listened(e) \cup {command.preset}
        BY <1>4 DEF Listened, AddListener
    <2> QED
        BY <2>1, <2>2 DEF AddListener, PresetsInv, ListenersAreAllowed
<1> QED
    BY <1>2, <1>3, <1>5, <1>6, <1>7, <1>8, NothingDone DEF PresetsInv, ProfileIsWritten

\* A disable takes a listener away, and leaves the script behind.
LEMMA DisableInv ==
    ASSUME PresetsInv, NEW d \in Distro, NEW p \in Preset, Disable(d, p)
    PROVE  PresetsInv'
<1> USE DEF hostVars, opensVars, distroVars
<1>type. PresetsTypeOK
    BY DEF PresetsInv
<1>1. /\ command' \in Command \cup {Idle} /\ done' = Idle /\ CommandsHaveSteps'
      /\ command' # Idle =>
             /\ command'.next = "profile" /\ command'.verb = "disable"
             /\ command'.distro = d /\ command'.preset = p
    BY BeginFacts DEF Disable, Verb, Step, StepOf
<1>2. PresetsTypeOK'
    BY <1>type, <1>1 DEF Disable, Spoils, PresetsTypeOK, Listeners
<1>3. /\ config'[d].on = config[d].on \ {p}
      /\ \A e \in Distro \ {d} : config'[e] = config[e]
    BY <1>type DEF Disable, PresetsTypeOK, Listeners
<1>4. HostIsFirst'
    BY <1>1 DEF Disable, PresetsInv, HostIsFirst
<1>5. ListenerIsSet' /\ ~At("restart")' /\ (At("profile")' => command'.distro \in spoiled')
    BY <1>1, <1>3 DEF Disable, Spoils, ListenerIsSet, At
<1>6. ProfileFollowsListeners'
    BY <1>3, SpoiledFollows DEF Disable
<1>7. ListenersAreAllowed'
    <2>1. \A e \in Distro : Listened(e)' \subseteq Listened(e)
        BY <1>3 DEF Listened, Disable
    <2> QED
        BY <2>1, StaysAllowed DEF Disable
<1> QED
    BY <1>1, <1>2, <1>4, <1>5, <1>6, <1>7, NothingDone DEF PresetsInv, ProfileIsWritten

\* The script written exports what is listened for.
LEMMA WriteProfileInv == ASSUME PresetsInv, WriteProfile PROVE PresetsInv'
<1> USE DEF hostVars, opensVars, distroVars
<1>type. PresetsTypeOK
    BY DEF PresetsInv
<1>1. /\ At("profile") /\ command.distro \in Distro /\ command # Idle
      /\ command.verb \in {"enable", "disable"} /\ command.next = "profile"
    BY CommandFacts DEF WriteProfile
<1>2. /\ command' \in Command \cup {Idle} /\ done' = Idle /\ CommandsHaveSteps'
      /\ command' # Idle =>
             /\ command'.next = "restart" /\ command'.verb = command.verb
             /\ command'.distro = command.distro /\ command'.preset = command.preset
    BY <1>1, ThenFacts DEF WriteProfile, Step, StepOf
<1>3. PresetsTypeOK'
    BY <1>type, <1>1, <1>2 DEF WriteProfile, Exports, PresetsTypeOK, Listeners
<1>4. HostIsFirst'
    BY <1>1, <1>2, StaysTold DEF WriteProfile
<1>5. ListenerIsSet'
    BY <1>1, <1>2 DEF WriteProfile, PresetsInv, ListenerIsSet
<1>6. ProfileIsWritten'
    <2>1. ProfileFollowsListeners'
        BY <1>type, <1>1
        DEF WriteProfile, PresetsTypeOK, PresetsInv, ProfileIsWritten,
            ProfileFollowsListeners, Exports
    <2>2. ~At("profile")' /\ (At("restart")' => command'.distro \notin spoiled')
        BY <1>2 DEF WriteProfile, At
    <2> QED
        BY <2>1, <2>2 DEF ProfileIsWritten
<1>7. ListenersAreAllowed'
    BY StaysAllowed DEF WriteProfile, Listened
<1> QED
    BY <1>2, <1>3, <1>4, <1>5, <1>6, <1>7, NothingDone DEF PresetsInv

\* The restart makes the agent read its listeners, and ends the command.
LEMMA RestartInv == ASSUME PresetsInv, Restart PROVE PresetsInv'
<1> USE DEF hostVars, opensVars, distroVars
<1> DEFINE c == command.distro
<1>type. PresetsTypeOK
    BY DEF PresetsInv
<1>1. /\ At("restart") /\ c \in Distro /\ command # Idle /\ command.next = "restart"
      /\ command \in Command /\ command.verb \in {"enable", "disable"}
    BY CommandFacts DEF Restart
<1>2. command' = Idle /\ done' \in {command, Idle} /\ c \in unit
    BY DEF Restart, Succeed
<1>3. /\ serving' \in [Distro -> Listeners]
      /\ serving'[c].on = {} \/ serving'[c] = config[c]
      /\ c \in binary => serving'[c] = config[c]
      /\ \A e \in Distro \ {c} : serving'[e] = serving[e]
    BY <1>type, <1>1, EmptyListeners
    DEF Restart, AgentStarts, AgentOf, PresetsTypeOK
<1>4. PresetsTypeOK'
    BY <1>type, <1>1, <1>2, <1>3 DEF Restart, PresetsTypeOK
<1>5. CommandsHaveSteps' /\ ListenerIsSet' /\ ~At("restart")' /\ ~At("profile")'
    BY <1>2 DEF CommandsHaveSteps, ListenerIsSet, At, Restart
<1>6. HostIsFirst'
    BY <1>2, StaysTold DEF Restart
<1>7. ProfileFollowsListeners'
    BY SameFollows DEF Restart
<1>8. ListenersAreAllowed'
    <2>1. \A e \in Distro : Listened(e)' \subseteq Listened(e)
        BY <1>3 DEF Restart, Listened
    <2> QED
        BY <2>1, StaysAllowed DEF Restart
<1>9. SuccessIsWired'
    <2>1. CASE done' = Idle
        BY <2>1, NothingDone
    <2>2. CASE done' = command
        <3>1. /\ command.verb = "enable" =>
                     command.preset \in config[c].on /\ command.preset \in allow
              /\ command.verb = "disable" => command.preset \notin config[c].on
            BY <1>1 DEF PresetsInv, ListenerIsSet, HostIsFirst
        <3>2. profile[c] = config[c].on \cap Exporting
            BY <1>1
            DEF PresetsInv, ProfileIsWritten, ProfileFollowsListeners, Exports
        <3>3. PICK d \in Distro : d = c
            BY <1>1
        <3>4. d \in binary => serving'[d] = config[d]
            BY <1>3, <3>3
        <3>5. command.verb = "disable" => command.preset \notin Listened(d)' \cup profile'[d]
            BY <1>3, <3>1, <3>2, <3>3 DEF Restart, Listened
        <3>6. done'.distro = d /\ done' = command /\ config' = config
              /\ binary' = binary /\ allow' = allow
            BY <2>2, <3>3 DEF Restart
        <3> QED
            BY <3>1, <3>3, <3>4, <3>5, <3>6 DEF SuccessIsWired
    <2> QED
        BY <1>2, <2>1, <2>2
<1> QED
    BY <1>4, <1>5, <1>6, <1>7, <1>8, <1>9 DEF PresetsInv, ProfileIsWritten

-----------------------------------------------------------------------------
(* The steps of install.Install and install.Uninstall.                     *)

\* The program is put in place.
LEMMA InstallInv == ASSUME PresetsInv, NEW d \in Distro, Install(d) PROVE PresetsInv'
<1> USE DEF hostVars, opensVars, distroVars
<1>type. PresetsTypeOK
    BY DEF PresetsInv
<1>1. /\ command' \in Command \cup {Idle} /\ done' = Idle /\ CommandsHaveSteps'
      /\ command' # Idle => command'.next = "config" /\ command'.verb = "install"
    BY BeginFacts DEF Install, Verb, Step, StepOf
<1>2. PresetsTypeOK'
    BY <1>type, <1>1 DEF Install, PresetsTypeOK
<1>3. HostIsFirst'
    BY <1>1 DEF Install, PresetsInv, HostIsFirst
<1>4. ListenerIsSet' /\ ~At("restart")' /\ ~At("profile")'
    BY <1>1 DEF ListenerIsSet, At
<1>5. ProfileFollowsListeners'
    BY SameFollows DEF Install
<1>6. ListenersAreAllowed'
    BY StaysAllowed DEF Install, Listened
<1> QED
    BY <1>1, <1>2, <1>3, <1>4, <1>5, <1>6, NothingDone DEF PresetsInv, ProfileIsWritten

\* The configuration keeps its listeners or loses all of them.
LEMMA WriteConfigInv == ASSUME PresetsInv, WriteConfig PROVE PresetsInv'
<1> USE DEF hostVars, opensVars, distroVars
<1> DEFINE c == command.distro
<1>type. PresetsTypeOK
    BY DEF PresetsInv
<1>1. At("config") /\ c \in Distro /\ command # Idle /\ command.verb = "install"
    BY CommandFacts DEF WriteConfig
<1>2. /\ command' \in Command \cup {Idle} /\ done' = Idle /\ CommandsHaveSteps'
      /\ command' # Idle =>
             command'.next = "unit" /\ command'.verb = "install"
    BY <1>1, ThenFacts DEF WriteConfig, Step, StepOf
<1>3. /\ config' \in [Distro -> Listeners]
      /\ \A e \in Distro \ {c} : config'[e] = config[e]
      /\ config'[c].on = config[c].on \/ (config'[c].on = {} /\ Spoils(c))
      /\ spoiled' = spoiled \/ Spoils(c)
    <2>1. CASE config' = [config EXCEPT ![c].there = TRUE] /\ UNCHANGED spoiled
        BY <1>type, <1>1, <2>1 DEF PresetsTypeOK, Listeners
    <2>2. CASE config' = [config EXCEPT ![c] = [there |-> TRUE, on |-> {}]] /\ Spoils(c)
        BY <1>type, <1>1, <2>2 DEF PresetsTypeOK, Listeners
    <2> QED
        BY <2>1, <2>2 DEF WriteConfig
<1>4. PresetsTypeOK'
    BY <1>type, <1>1, <1>2, <1>3 DEF WriteConfig, Spoils, PresetsTypeOK
<1>5. HostIsFirst'
    BY <1>1, <1>2 DEF WriteConfig, PresetsInv, HostIsFirst
<1>6. ListenerIsSet' /\ ~At("restart")' /\ ~At("profile")'
    BY <1>2 DEF ListenerIsSet, At
<1>7. ProfileFollowsListeners'
    <2>1. CASE Spoils(c)
        BY <1>1, <1>3, <2>1, SpoiledFollows DEF WriteConfig
    <2>2. CASE spoiled' = spoiled /\ ~Spoils(c)
        <3>1. \A e \in Distro : config'[e].on = config[e].on
            BY <1>3, <2>2
        <3> QED
            BY <2>2, <3>1, SameFollows DEF WriteConfig
    <2> QED
        BY <1>3, <2>1, <2>2
<1>8. ListenersAreAllowed'
    <2>1. \A e \in Distro : Listened(e)' \subseteq Listened(e)
        BY <1>3 DEF WriteConfig, Listened
    <2> QED
        BY <2>1, StaysAllowed DEF WriteConfig
<1> QED
    BY <1>2, <1>4, <1>5, <1>6, <1>7, <1>8, NothingDone DEF PresetsInv, ProfileIsWritten

\* The unit starts the agent where none runs.
LEMMA RegisterUnitInv == ASSUME PresetsInv, RegisterUnit PROVE PresetsInv'
<1> USE DEF hostVars, opensVars, distroVars
<1> DEFINE c == command.distro
<1>type. PresetsTypeOK
    BY DEF PresetsInv
<1>1. At("unit") /\ c \in Distro /\ command # Idle /\ command.verb = "install"
    BY CommandFacts DEF RegisterUnit
<1>2. /\ command' \in Command \cup {Idle} /\ done' = Idle /\ CommandsHaveSteps'
      /\ command' # Idle =>
             command'.next = "create" /\ command'.verb = "install"
    BY <1>1, ThenFacts DEF RegisterUnit, Step, StepOf
<1>3. /\ serving' \in [Distro -> Listeners]
      /\ \A e \in Distro \ {c} : serving'[e] = serving[e]
      /\ serving'[c].on = {} \/ serving'[c] = config[c] \/ serving'[c] = serving[c]
    BY <1>type, <1>1, EmptyListeners
    DEF RegisterUnit, AgentStarts, AgentOf, PresetsTypeOK
<1>4. PresetsTypeOK'
    BY <1>type, <1>1, <1>2, <1>3 DEF RegisterUnit, PresetsTypeOK
<1>5. HostIsFirst'
    BY <1>1, <1>2 DEF RegisterUnit, PresetsInv, HostIsFirst
<1>6. ListenerIsSet' /\ ~At("restart")' /\ ~At("profile")'
    BY <1>2 DEF ListenerIsSet, At
<1>7. ProfileFollowsListeners'
    BY SameFollows DEF RegisterUnit
<1>8. ListenersAreAllowed'
    <2>1. \A e \in Distro : Listened(e)' \subseteq Listened(e)
        BY <1>3 DEF RegisterUnit, Listened
    <2> QED
        BY <2>1, StaysAllowed DEF RegisterUnit
<1> QED
    BY <1>2, <1>4, <1>5, <1>6, <1>7, <1>8, NothingDone DEF PresetsInv, ProfileIsWritten

\* Without systemd nothing is started.
LEMMA NoUnitInv == ASSUME PresetsInv, NoUnit PROVE PresetsInv'
<1> USE DEF hostVars, opensVars, distroVars
<1>1. command' = Idle /\ done' = Idle
    BY CommandFacts DEF NoUnit, Complete
<1>2. PresetsTypeOK' /\ ProfileFollowsListeners'
    BY <1>1, SameFollows DEF NoUnit, PresetsInv, PresetsTypeOK
<1>3. ListenersAreAllowed' /\ HostIsFirst'
    BY <1>1, StaysAllowed, StaysTold DEF NoUnit, Listened
<1> QED
    BY <1>1, <1>2, <1>3, OverFacts DEF PresetsInv, ProfileIsWritten

\* A new host.json is empty, as one that is missing was.
LEMMA CreateHostInv == ASSUME PresetsInv, CreateHost PROVE PresetsInv'
<1> USE DEF hostVars, opensVars, distroVars
<1>1. command' = Idle /\ done' = Idle
    BY CommandFacts DEF CreateHost, Complete
<1>2. PresetsTypeOK' /\ ProfileFollowsListeners'
    BY <1>1, SameFollows DEF CreateHost, PresetsInv, PresetsTypeOK
<1>3. ListenersAreAllowed'
    BY DEF CreateHost, PresetsInv, ListenersAreAllowed, Listened
<1>4. HostIsFirst'
    BY <1>1 DEF CreateHost, PresetsInv, HostIsFirst
<1> QED
    BY <1>1, <1>2, <1>3, <1>4, OverFacts DEF PresetsInv, ProfileIsWritten

\* An uninstall stops the agent, or does not.
LEMMA UninstallInv ==
    ASSUME PresetsInv, NEW d \in Distro, NEW b \in BOOLEAN, Uninstall(d, b)
    PROVE  PresetsInv'
<1> USE DEF hostVars, opensVars, distroVars
<1>type. PresetsTypeOK
    BY DEF PresetsInv
<1>1. /\ command' \in Command \cup {Idle} /\ done' = Idle /\ CommandsHaveSteps'
      /\ command' # Idle => command'.next = "remove" /\ command'.verb = "uninstall"
    BY BeginFacts DEF Uninstall, Verb, Step, StepOf
<1>2. /\ serving' \in [Distro -> Listeners]
      /\ \A e \in Distro : serving'[e] = serving[e] \/ serving'[e].on = {}
    BY <1>type, EmptyListeners DEF Uninstall, PresetsTypeOK
<1>3. PresetsTypeOK'
    BY <1>type, <1>1, <1>2 DEF Uninstall, PresetsTypeOK
<1>4. HostIsFirst'
    BY <1>1 DEF Uninstall, PresetsInv, HostIsFirst
<1>5. ListenerIsSet' /\ ~At("restart")' /\ ~At("profile")'
    BY <1>1 DEF ListenerIsSet, At
<1>6. ProfileFollowsListeners'
    BY SameFollows DEF Uninstall
<1>7. ListenersAreAllowed'
    <2>1. \A e \in Distro : Listened(e)' \subseteq Listened(e)
        BY <1>2 DEF Uninstall, Listened
    <2> QED
        BY <2>1, StaysAllowed DEF Uninstall
<1> QED
    BY <1>1, <1>3, <1>4, <1>5, <1>6, <1>7, NothingDone DEF PresetsInv, ProfileIsWritten

\* The listeners of c are gone, and the script is left behind.
LEMMA ConfigGone ==
    ASSUME PresetsInv, NEW c \in Distro, config' = [config EXCEPT ![c] = NoConfig],
           Spoils(c), UNCHANGED <<hostVars, opensVars, profile, serving>>
    PROVE  /\ config' \in [Distro -> Listeners] /\ spoiled' \subseteq Distro
           /\ ProfileFollowsListeners' /\ ListenersAreAllowed'
<1>1. /\ config' \in [Distro -> Listeners] /\ spoiled' \subseteq Distro
      /\ config'[c].on = {} /\ \A e \in Distro \ {c} : config'[e] = config[e]
    BY EmptyListeners DEF PresetsInv, PresetsTypeOK, Spoils
<1>2. \A e \in Distro : Listened(e)' \subseteq Listened(e)
    BY <1>1 DEF Listened
<1> QED
    BY <1>1, <1>2, SpoiledFollows, StaysAllowed

\* The files are removed, the listeners only when purged.
LEMMA RemoveFilesInv == ASSUME PresetsInv, RemoveFiles PROVE PresetsInv'
<1> USE DEF hostVars, opensVars, distroVars
<1>1. command' = Idle /\ done' = Idle /\ command.distro \in Distro
    BY CommandFacts DEF RemoveFiles, Complete
<1>2. /\ config' \in [Distro -> Listeners] /\ spoiled' \subseteq Distro
      /\ ProfileFollowsListeners' /\ ListenersAreAllowed'
    <2>1. CASE command.purge
        BY <1>1, <2>1, ConfigGone DEF RemoveFiles
    <2>2. CASE ~command.purge
        <3>1. UNCHANGED <<config, spoiled, profile, serving, hostVars, opensVars>>
            BY <2>2 DEF RemoveFiles
        <3> QED
            BY <3>1, SameFollows, StaysAllowed DEF PresetsInv, PresetsTypeOK, Listened
    <2> QED
        BY <2>1, <2>2
<1>3. PresetsTypeOK' /\ HostIsFirst'
    BY <1>1, <1>2, StaysTold DEF RemoveFiles, PresetsInv, PresetsTypeOK
<1> QED
    BY <1>1, <1>2, <1>3, OverFacts DEF PresetsInv, ProfileIsWritten

-----------------------------------------------------------------------------
(* Calls that fail, and what happens by itself.                            *)

\* A call that fails with nothing done ends its command.
LEMMA FailInv == ASSUME PresetsInv, Fail PROVE PresetsInv'
<1> USE DEF hostVars, opensVars, distroVars
<1>1. command' = Idle /\ done' = Idle
    BY DEF Fail, PresetsInv, CommandsHaveSteps
<1>2. PresetsTypeOK' /\ ProfileFollowsListeners'
    BY <1>1, SameFollows DEF Fail, PresetsInv, PresetsTypeOK
<1>3. ListenersAreAllowed' /\ HostIsFirst'
    BY <1>1, StaysAllowed, StaysTold DEF Fail, Listened
<1> QED
    BY <1>1, <1>2, <1>3, OverFacts DEF PresetsInv, ProfileIsWritten

\* A call that fails is the last of its command.
LEMMA AbortFacts ==
    ASSUME PresetsInv, AtOnce \/ \E s \in Step : Aborts(s)
    PROVE  command' = Idle /\ done' = Idle /\ UNCHANGED opensVars
<1>1. CASE AtOnce
    BY <1>1 DEF AtOnce, opensVars
<1>2. ASSUME NEW s \in Step, Aborts(s)
      PROVE  command' = Idle /\ done' = Idle /\ UNCHANGED opensVars
    BY <1>2 DEF Aborts, At, PresetsInv, CommandsHaveSteps
<1> QED
    BY <1>1, <1>2

\* A host.json cut short allows nothing, and no daemon starts.
LEMMA HostIsCutInv == ASSUME PresetsInv, HostIsCut PROVE PresetsInv'
<1> USE DEF hostVars, distroVars
<1>1. command' = Idle /\ done' = Idle /\ UNCHANGED opensVars
    BY AbortFacts DEF HostIsCut, Step
<1>2. PresetsTypeOK' /\ ProfileFollowsListeners'
    BY <1>1, SameFollows DEF HostIsCut, opensVars, PresetsInv, PresetsTypeOK
<1>3. ListenersAreAllowed'
    BY <1>1 DEF HostIsCut, opensVars, PresetsInv, ListenersAreAllowed, Listened
<1>4. HostIsFirst'
    BY <1>1, OverIsTold DEF HostIsCut
<1> QED
    BY <1>1, <1>2, <1>3, <1>4, OverFacts DEF PresetsInv, ProfileIsWritten

\* An agent.json cut short listens for nothing.
LEMMA ConfigIsCutInv ==
    ASSUME PresetsInv, NEW d \in Distro, ConfigIsCut(d)
    PROVE  PresetsInv'
<1> USE DEF hostVars
<1>1. command' = Idle /\ done' = Idle /\ UNCHANGED opensVars
    BY AbortFacts DEF ConfigIsCut, Step
<1>2. /\ config' \in [Distro -> Listeners] /\ spoiled' \subseteq Distro
      /\ ProfileFollowsListeners' /\ ListenersAreAllowed'
    BY <1>1, ConfigGone DEF ConfigIsCut
<1>3. PresetsTypeOK'
    BY <1>1, <1>2 DEF ConfigIsCut, opensVars, PresetsInv, PresetsTypeOK
<1>4. HostIsFirst'
    BY <1>1, StaysTold DEF ConfigIsCut
<1> QED
    BY <1>1, <1>2, <1>3, <1>4, OverFacts DEF PresetsInv, ProfileIsWritten

\* The script is cut short: the listeners it is for have changed before.
LEMMA ProfileIsCutInv == ASSUME PresetsInv, ProfileIsCut PROVE PresetsInv'
<1> USE DEF hostVars
<1>1. command' = Idle /\ done' = Idle /\ UNCHANGED opensVars
    BY AbortFacts DEF ProfileIsCut, Step
<1>2. /\ At("profile") /\ command.distro \in Distro
    BY CommandFacts DEF ProfileIsCut, Aborts
<1>3. command.distro \in spoiled
    BY <1>2 DEF PresetsInv, ProfileIsWritten
<1>4. PICK s \in SUBSET Exports(command.distro) :
          profile' = [profile EXCEPT ![command.distro] = s]
    BY DEF ProfileIsCut
<1>5. PresetsTypeOK'
    BY <1>1, <1>2, <1>4
    DEF ProfileIsCut, opensVars, PresetsInv, PresetsTypeOK, Exports
<1>6. ProfileFollowsListeners'
    BY <1>2, <1>3, <1>4
    DEF ProfileIsCut, PresetsInv, PresetsTypeOK, ProfileIsWritten,
        ProfileFollowsListeners, Exports
<1>7. ListenersAreAllowed' /\ HostIsFirst'
    BY <1>1, StaysAllowed, StaysTold DEF ProfileIsCut, Listened
<1> QED
    BY <1>1, <1>5, <1>6, <1>7, OverFacts DEF PresetsInv, ProfileIsWritten

\* The agent is stopped, and not started again.
LEMMA RestartIsCutInv == ASSUME PresetsInv, RestartIsCut PROVE PresetsInv'
<1> USE DEF hostVars
<1>1. command' = Idle /\ done' = Idle /\ UNCHANGED opensVars
    BY AbortFacts DEF RestartIsCut, Step
<1>2. command.distro \in Distro
    BY CommandFacts DEF RestartIsCut, Aborts
<1>3. /\ serving' \in [Distro -> Listeners]
      /\ \A e \in Distro : serving'[e] = serving[e] \/ serving'[e].on = {}
    BY <1>2, EmptyListeners DEF RestartIsCut, PresetsInv, PresetsTypeOK
<1>4. PresetsTypeOK' /\ ProfileFollowsListeners'
    BY <1>1, <1>3, SameFollows DEF RestartIsCut, opensVars, PresetsInv, PresetsTypeOK
<1>5. \A e \in Distro : Listened(e)' \subseteq Listened(e)
    BY <1>3 DEF RestartIsCut, Listened
<1>6. ListenersAreAllowed' /\ HostIsFirst'
    BY <1>1, <1>5, StaysAllowed, StaysTold DEF RestartIsCut
<1> QED
    BY <1>1, <1>4, <1>6, OverFacts DEF PresetsInv, ProfileIsWritten

\* A unit or a removal cut short disturbs nothing that the invariant is about.
LEMMA OtherIsCutInv == ASSUME PresetsInv, UnitIsCut \/ RemovalIsCut PROVE PresetsInv'
<1> USE DEF hostVars
<1>1. command' = Idle /\ done' = Idle /\ UNCHANGED opensVars
    BY AbortFacts DEF UnitIsCut, RemovalIsCut, Step
<1>2. UNCHANGED <<hostVars, config, profile, serving, spoiled>>
    BY DEF UnitIsCut, RemovalIsCut
<1>3. unit' \subseteq unit /\ binary' \subseteq binary
    BY DEF UnitIsCut, RemovalIsCut
<1>4. PresetsTypeOK' /\ ProfileFollowsListeners'
    BY <1>1, <1>2, <1>3, SameFollows DEF opensVars, PresetsInv, PresetsTypeOK
<1>5. ListenersAreAllowed' /\ HostIsFirst'
    BY <1>1, <1>2, StaysAllowed, StaysTold DEF Listened
<1> QED
    BY <1>1, <1>4, <1>5, OverFacts DEF PresetsInv, ProfileIsWritten

\* The agent starts with its distribution, from its configuration.
LEMMA DistroRestartsInv ==
    ASSUME PresetsInv, NEW d \in Distro, DistroRestarts(d)
    PROVE  PresetsInv'
<1> USE DEF hostVars, opensVars, distroVars
<1>type. PresetsTypeOK
    BY DEF PresetsInv
<1>1. /\ serving' \in [Distro -> Listeners]
      /\ \A e \in Distro \ {d} : serving'[e] = serving[e]
      /\ serving'[d].on = {} \/ serving'[d] = config[d]
      /\ d \in unit /\ d \in binary => serving'[d] = config[d]
    BY <1>type, EmptyListeners DEF DistroRestarts, AgentOf, PresetsTypeOK
<1>2. PresetsTypeOK' /\ ProfileFollowsListeners'
    BY <1>1, SameFollows DEF DistroRestarts, PresetsInv, PresetsTypeOK
<1>3. CommandsHaveSteps' /\ HostIsFirst' /\ ListenerIsSet'
    BY DEF DistroRestarts, PresetsInv, CommandsHaveSteps, HostIsFirst, ListenerIsSet
<1>4. /\ At("profile")' => command'.distro \in spoiled'
      /\ At("restart")' => command'.distro \notin spoiled'
    BY DEF DistroRestarts, PresetsInv, ProfileIsWritten, At
<1>5. ListenersAreAllowed'
    <2>1. \A e \in Distro : Listened(e)' \subseteq Listened(e)
        BY <1>1 DEF DistroRestarts, Listened
    <2> QED
        BY <2>1, StaysAllowed DEF DistroRestarts
<1>6. SuccessIsWired'
    <2> SUFFICES ASSUME done # Idle
                 PROVE  SuccessIsWired'
        BY NothingDone DEF DistroRestarts
    <2>1. done \in Command /\ done.distro \in Distro /\ done.distro \in unit
        BY <1>type DEF PresetsTypeOK, Command, PresetsInv, CommandsHaveSteps
    <2>2. SuccessIsWired
        BY DEF PresetsInv
    <2>3. CASE done.distro # d
        BY <1>1, <2>1, <2>2, <2>3 DEF SuccessIsWired, DistroRestarts, Listened
    <2>4. CASE done.distro = d
        BY <1>1, <2>1, <2>2, <2>4 DEF SuccessIsWired, DistroRestarts, Listened
    <2> QED
        BY <2>3, <2>4
<1> QED
    BY <1>2, <1>3, <1>4, <1>5, <1>6 DEF PresetsInv, ProfileIsWritten

\* The daemon reads what is allowed by then, all that guests listen for.
LEMMA DaemonStartsInv == ASSUME PresetsInv, DaemonStarts PROVE PresetsInv'
<1> USE DEF hostVars, distroVars
<1>1. opens'.allow = allow /\ opens'.filters = filters /\ since' = {} /\ done' = Idle
    BY DEF DaemonStarts
<1>2. PresetsTypeOK' /\ ProfileFollowsListeners'
    BY <1>1, SameFollows DEF DaemonStarts, PresetsInv, PresetsTypeOK, Allowance
<1>3. CommandsHaveSteps' /\ ListenerIsSet'
    BY <1>1 DEF DaemonStarts, PresetsInv, CommandsHaveSteps, ListenerIsSet
<1>4. HostIsFirst'
    BY <1>1 DEF DaemonStarts, PresetsInv, HostIsFirst
<1>5. /\ At("profile")' => command'.distro \in spoiled'
      /\ At("restart")' => command'.distro \notin spoiled'
    BY DEF DaemonStarts, PresetsInv, ProfileIsWritten, At
<1>6. ListenersAreAllowed'
    BY <1>1 DEF DaemonStarts, PresetsInv, ListenersAreAllowed, Listened
<1> QED
    BY <1>1, <1>2, <1>3, <1>4, <1>5, <1>6, NothingDone DEF PresetsInv, ProfileIsWritten

\* Each step of the wiring keeps its invariant.
LEMMA PresetsStepInv == PresetsInv /\ PresetsNext => PresetsInv'
BY PresetsCases, EnableInv, AddListenerInv, DisableInv, WriteProfileInv, RestartInv,
   InstallInv, WriteConfigInv, RegisterUnitInv, NoUnitInv, CreateHostInv, UninstallInv,
   RemoveFilesInv, FailInv, HostIsCutInv, ConfigIsCutInv, ProfileIsCutInv,
   RestartIsCutInv, OtherIsCutInv, DistroRestartsInv, DaemonStartsInv

\* A step of Agent keeps the invariant of the wiring, whichever part moves.
LEMMA AgentStepPresets == PresetsInv /\ [AgentNext]_agentVars => PresetsInv'
<1> SUFFICES ASSUME PresetsInv, [AgentNext]_agentVars
             PROVE  PresetsInv'
    OBVIOUS
<1>1. CASE PresetsNext
    BY <1>1, PresetsStepInv
<1>2. CASE UNCHANGED presetVars
    <2> USE DEF presetVars, hostVars, opensVars, distroVars
    <2>1. PresetsTypeOK' /\ CommandsHaveSteps' /\ HostIsFirst' /\ ListenerIsSet'
        BY <1>2
        DEF PresetsInv, PresetsTypeOK, CommandsHaveSteps, HostIsFirst, ListenerIsSet
    <2>2. ProfileIsWritten'
        BY <1>2, SameFollows DEF PresetsInv, ProfileIsWritten, At
    <2>3. ListenersAreAllowed' /\ SuccessIsWired'
        BY <1>2 DEF PresetsInv, ListenersAreAllowed, SuccessIsWired, Listened
    <2> QED
        BY <2>1, <2>2, <2>3 DEF PresetsInv
<1> QED
    BY <1>1, <1>2 DEF AgentNext, agentVars

\* The invariant is what the property of the wiring needs.
LEMMA InvImpliesWiring == PresetsInv => WiringAgrees
BY DEF PresetsInv, WiringAgrees, ProfileIsWritten

\* Whatever a guest listens for stands in host.json, or that file was cut short
\* and no daemon starts any more; a daemon opens it unless it was enabled since
\* that daemon read the file; the script exports what the guest listens for
\* wherever no command failed between the two; and an enable or a disable that
\* reports success has wired or unwired all four places, whichever calls failed
\* before, with nothing done, half done or all done (sock.Enable, Disable,
\* writeProfile, install.Install, Uninstall, agentServe).
THEOREM WiringIsKept == AgentSpec => []WiringAgrees
<1>1. AgentInit => PresetsInv
    BY PresetsInitInv DEF AgentInit
<1> QED
    BY <1>1, AgentStepPresets, InvImpliesWiring, PTL DEF AgentSpec
=============================================================================
