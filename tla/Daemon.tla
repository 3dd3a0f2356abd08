------------------------------- MODULE Daemon -------------------------------
(***************************************************************************)
(* The Windows daemon (`wslkit agent serve`: cli/agent_windows.go and      *)
(* internal/agent/host), the agent in the guest (internal/agent/guest),    *)
(* and the virtual machine between them.  The daemon finds the id of the   *)
(* running VM, listens there, and serves until it sees another VM or none; *)
(* the guest connects, and connects again whenever its session ends.  A    *)
(* program in the guest opens the guest's socket; the daemon checks the    *)
(* target, dials it and relays, or refuses.  A session is what module Mux gives: it    *)
(* ends on both sides when the connection does.  A relay is what module    *)
(* Relay gives, without the bytes: its two directions, of which each ends  *)
(* by itself.                                                              *)
(***************************************************************************)
EXTENDS Integers, FiniteSets

CONSTANTS
    MaxVM,       \* bound: virtual machines started
    MaxConns,    \* bound: connections of the guest to the daemon
    MaxStreams,  \* bound: programs that open the guest's socket
    MissLimit,   \* watchVMID gives up after so many misses
    Tellable     \* what may be fixed of the targets: whether they can be told of an end

VM     == 1..MaxVM
Conn   == 1..MaxConns
Stream == 1..MaxStreams
None   == 0

ASSUME DaemonAssumption ==
    MaxVM \in Nat /\ MaxConns \in Nat /\ MaxStreams \in Nat /\ MissLimit \in Nat \ {0}
    /\ Tellable \subseteq BOOLEAN

VARIABLES
    told,      \* whether the targets' connections have a CloseWrite, fixed
    vm,        \* the running VM, or None
    helpers,   \* a process that names the VM on its command line runs
    started,   \* how many VMs have been started
    daemon,    \* find, bind, serve, failed, drain, stopping, exiting or stopped
    bound,     \* the VM the daemon found, or listens on, or None
    misses,    \* watchVMID: how often in a row no VM was found
    ctrlC,     \* the daemon was told to stop
    guest,     \* the agent: off, connect, handshake, serve
    cur,       \* the connection it makes or serves, or None
    wire,      \* the connections that are up
    handler,   \* handler[k]: the daemon's handle of connection k
    stream,    \* stream[j]: waiting, opening, dialing, piping, ending, refusing or over
    on,        \* on[j]: the session it is opened on, until it is over
    relaying,  \* relaying[j]: the directions of its relay still copying
    left,      \* the streams whose program has closed
    quit,      \* the streams whose target has closed, until they are over
    asked,     \* the streams whose target owes an answer, unless it has closed
    reports,   \* the goroutines about to write status.json
    file,      \* status.json is absent, or names a process that is alive or dead
    stopper,   \* what `wslkit agent stop` is about to do: none, kill or remove
    spared     \* history: nobody could remove status.json when the daemon stopped

machineVars == <<vm, helpers, started>>
serveVars   == <<daemon, bound, misses, ctrlC>>
guestVars   == <<guest, cur>>
streamVars  == <<stream, on, relaying, left, quit, asked>>
statusVars  == <<reports, file, stopper, spared>>
daemonVars  ==
    <<told, machineVars, serveVars, guestVars, wire, handler, streamVars, statusVars>>

Dirs   == {"up", "down"}
Writer == {<<"serve", 0>>} \cup ({"conn"} \X Conn) \cup ({"stream"} \X Stream)

DaemonInit ==
    /\ told \in Tellable
    /\ vm = None /\ helpers = FALSE /\ started = 0
    /\ daemon = "find" /\ bound = None /\ misses = 0 /\ ctrlC = FALSE
    /\ guest = "off" /\ cur = None /\ wire = {}
    /\ handler = [k \in Conn |-> "none"]
    /\ stream = [j \in Stream |-> "none"] /\ on = [j \in Stream |-> None]
    /\ relaying = [j \in Stream |-> {}] /\ left = {} /\ quit = {} /\ asked = {}
    /\ reports = {} /\ file = "absent" /\ stopper = "none" /\ spared = FALSE

-----------------------------------------------------------------------------
(* The status file.  A goroutine that changes something writes the file      *)
(* before it goes on; of what the file says, the process is kept.  While a   *)
(* reader has it open, the file can be neither replaced nor removed, and the *)
(* code goes on as if it had been.                                           *)

Busy(g) == g \in reports
Reports(g) == reports' = reports \cup {g}

Removes ==
    \/ file' = "absent" /\ spared' = FALSE
    \/ /\ file # "absent" /\ UNCHANGED file
       /\ spared' = (daemon \in {"stopping", "exiting", "stopped"})

WriteStatus(g) ==
    /\ Busy(g) /\ reports' = reports \ {g}
    /\ file' = "alive" \/ (file # "absent" /\ UNCHANGED file)
    /\ UNCHANGED <<told, machineVars, serveVars, guestVars, wire, handler, streamVars,
                   stopper, spared>>

-----------------------------------------------------------------------------
(* The machine.  `wsl --shutdown`, or an idle VM, ends all that is in it; the *)
(* helpers of a VM come and go with what the user runs.                      *)

VMStarts ==
    /\ vm = None /\ started < MaxVM
    /\ started' = started + 1 /\ vm' = started + 1
    /\ helpers' = TRUE /\ guest' = "connect"
    /\ UNCHANGED <<told, serveVars, cur, wire, handler, streamVars, statusVars>>

VMStops ==
    /\ vm # None /\ vm' = None /\ helpers' = FALSE
    /\ guest' = "off" /\ cur' = None /\ wire' = {}
    /\ left' = left \cup {j \in Stream : stream[j] # "none"}
    /\ UNCHANGED <<told, started, serveVars, handler, stream, on, relaying, quit, asked,
                   statusVars>>

HelpersChange ==
    /\ vm # None /\ helpers' = ~helpers
    /\ UNCHANGED <<told, vm, started, serveVars, guestVars, wire, handler, streamVars,
                   statusVars>>

\* vmid.Passive: the VM some helper names.
Passive == IF helpers THEN vm ELSE None

-----------------------------------------------------------------------------
(* agentServe, watchVMID and Daemon.Serve. *)

Find ==
    /\ daemon = "find" /\ Passive # None /\ ~Busy(<<"serve", 0>>)
    /\ daemon' = "bind" /\ bound' = Passive
    /\ UNCHANGED <<told, machineVars, misses, ctrlC, guestVars, wire, handler,
                   streamVars, statusVars>>

\* The VM that was found may be gone by now.
Bind ==
    /\ daemon = "bind" /\ ~Busy(<<"serve", 0>>)
    /\ \/ /\ bound = vm /\ daemon' = "serve" /\ UNCHANGED bound
          /\ Reports(<<"serve", 0>>)
       \/ /\ bound # vm /\ daemon' = "find" /\ bound' = None
          /\ UNCHANGED reports
    /\ UNCHANGED <<told, machineVars, misses, ctrlC, guestVars, wire, handler, streamVars,
                   file, stopper, spared>>

\* Mutant: a VM that nobody sees any more is not given up.
WatchForever ==
    /\ daemon = "serve"
    /\ misses' = IF Passive = None THEN misses + 1 ELSE 0
    /\ daemon' = IF Passive \notin {None, bound} THEN "drain" ELSE daemon
    /\ bound' = IF daemon' = "drain" THEN None ELSE bound
    /\ UNCHANGED <<told, machineVars, ctrlC, guestVars, wire, handler,
                   streamVars, statusVars>>

\* Every 15 s: another VM, or none MissLimit times in a row, ends the serving
\* and closes the listener; what has been counted goes with watchVMID.
Watch ==
    /\ daemon \in {"serve", "failed"}
    /\ \/ Passive = bound /\ misses' = 0 /\ UNCHANGED <<daemon, bound>>
       \/ /\ Passive = None /\ misses + 1 < MissLimit
          /\ misses' = misses + 1 /\ UNCHANGED <<daemon, bound>>
       \/ /\ Passive # bound /\ (Passive = None => misses + 1 >= MissLimit)
          /\ misses' = 0 /\ daemon' = "drain" /\ bound' = None
    /\ UNCHANGED <<told, machineVars, ctrlC, guestVars, wire, handler,
                   streamVars, statusVars>>

\* The partition the daemon listens in is gone, and Accept may say so.
AcceptFails ==
    /\ daemon = "serve" /\ bound # vm /\ ~Busy(<<"serve", 0>>)
    /\ daemon' = "failed"
    /\ UNCHANGED <<told, machineVars, bound, misses, ctrlC, guestVars, wire, handler,
                   streamVars, statusVars>>

CtrlC ==
    /\ ~ctrlC /\ daemon \notin {"exiting", "stopped"} /\ ctrlC' = TRUE
    /\ daemon' = IF daemon \in {"serve", "failed", "drain"} THEN "drain" ELSE "stopping"
    /\ misses' = 0 /\ bound' = None
    /\ UNCHANGED <<told, machineVars, guestVars, wire, handler, streamVars, statusVars>>

Handling == {k \in Conn : handler[k] \in {"handshake", "accept", "wait", "leaving"}}

\* Mutant: Serve does not wait for its handlers.
DrainedHasty ==
    /\ daemon = "drain" /\ ~Busy(<<"serve", 0>>)
    /\ daemon' = IF ctrlC THEN "stopping" ELSE "find"
    /\ UNCHANGED <<told, machineVars, bound, misses, ctrlC, guestVars, wire, handler,
                   streamVars, statusVars>>

\* Serve returns when every handler has (inflight.Wait).
Drained ==
    /\ daemon = "drain" /\ Handling = {} /\ ~Busy(<<"serve", 0>>)
    /\ daemon' = IF ctrlC THEN "stopping" ELSE "find"
    /\ UNCHANGED <<told, machineVars, bound, misses, ctrlC, guestVars, wire, handler,
                   streamVars, statusVars>>

\* After an Accept that failed, Serve waits as well, and records the error.
Failed ==
    /\ daemon = "failed" /\ Handling = {}
    /\ daemon' = "find" /\ bound' = None /\ misses' = 0
    /\ Reports(<<"serve", 0>>)
    /\ UNCHANGED <<told, machineVars, ctrlC, guestVars, wire, handler, streamVars,
                   file, stopper, spared>>

\* agentServe returns: status.json is removed first, the process ends next.
Stop ==
    /\ daemon = "stopping" /\ ~Busy(<<"serve", 0>>)
    /\ daemon' = "exiting" /\ Removes
    /\ UNCHANGED <<told, machineVars, bound, misses, ctrlC, guestVars, wire, handler,
                   streamVars, reports, stopper>>

\* The streams the daemon has a goroutine for (open).
Opened == {j \in Stream : stream[j] \in {"dialing", "piping", "ending", "refusing"}}

\* With the process ends whatever it had open; status.json names it still.
ProcessEnds ==
    /\ daemon' = "stopped" /\ bound' = None /\ misses' = 0 /\ ctrlC' = FALSE
    /\ handler' = [k \in Conn |-> "none"] /\ wire' = {}
    /\ reports' = {} /\ file' = IF file = "alive" THEN "dead" ELSE file
    /\ stream' = [j \in Stream |-> IF j \in Opened THEN "over" ELSE stream[j]]
    /\ on' = [j \in Stream |-> IF j \in Opened THEN None ELSE on[j]]
    /\ left' = left \cup Opened
    /\ relaying' = [j \in Stream |-> {}] /\ quit' = {} /\ asked' = {}
    /\ UNCHANGED <<told, machineVars, guestVars, spared>>

\* The kill that finds the process ended fails.
Exit ==
    /\ daemon = "exiting" /\ ProcessEnds
    /\ stopper' = IF stopper = "kill" THEN "none" ELSE stopper

\* `wslkit agent stop` reads the file: it kills the process that the file names,
\* and removes the file where there is no such process.
AgentStop ==
    /\ stopper = "none"
    /\ stopper' = IF file = "alive" THEN "kill" ELSE "remove"
    /\ UNCHANGED <<told, machineVars, serveVars, guestVars, wire, handler, streamVars,
                   reports, file, spared>>

StopKills == stopper = "kill" /\ ProcessEnds /\ stopper' = "remove"

\* The process may not be the user's to kill: the file is left to it.
StopFails ==
    /\ stopper = "kill" /\ stopper' = "none"
    /\ UNCHANGED <<told, machineVars, serveVars, guestVars, wire, handler, streamVars,
                   reports, file, spared>>

\* The file is removed last, whoever has written it by then.
StopRemoves ==
    /\ stopper = "remove" /\ stopper' = "none" /\ Removes
    /\ UNCHANGED <<told, machineVars, serveVars, guestVars, wire, handler, streamVars,
                   reports>>

\* `wslkit agent start`, of a daemon that is not running.
AgentStart ==
    /\ daemon = "stopped" /\ daemon' = "find" /\ spared' = FALSE
    /\ UNCHANGED <<told, machineVars, bound, misses, ctrlC, guestVars, wire, handler,
                   streamVars, reports, file, stopper>>

-----------------------------------------------------------------------------
(* The guest's Run: one session after the other. *)

Unused == {k \in Conn : /\ handler[k] = "none" /\ k \notin wire
                        /\ \A j \in Stream : on[j] # k}

\* The host answers where the daemon listens; elsewhere connect times out and
\* is tried again later.
Connect ==
    /\ guest = "connect" /\ daemon = "serve" /\ bound = vm
    /\ Unused # {}
    /\ LET k == CHOOSE k \in Unused : \A i \in Unused : k <= i IN
       /\ guest' = "handshake" /\ cur' = k /\ wire' = wire \cup {k}
       /\ handler' = [handler EXCEPT ![k] = "handshake"]
    /\ UNCHANGED <<told, machineVars, serveVars, streamVars, statusVars>>

\* Serve accepts what has connected when it has reported; both sides know each
\* other; where the connection broke, both close.
Handshake(k) ==
    /\ handler[k] = "handshake" /\ ~Busy(<<"serve", 0>>)
    /\ IF k \in wire
       THEN /\ guest' = "serve"
            /\ handler' = [handler EXCEPT ![k] = "accept"]
            /\ Reports(<<"conn", k>>)
       ELSE /\ handler' = [handler EXCEPT ![k] = "none"]
            /\ UNCHANGED <<guest, reports>>
    /\ UNCHANGED <<told, machineVars, serveVars, cur, wire, streamVars,
                   file, stopper, spared>>

\* The session that current() gives the listeners.
Session == IF guest = "serve" THEN cur ELSE None

\* The handshake failed, or serveSession returns as the session has ended.
GuestSessionEnds ==
    /\ guest \in {"handshake", "serve"} /\ cur \notin wire
    /\ guest' = "connect" /\ cur' = None
    /\ UNCHANGED <<told, machineVars, serveVars, wire, handler, streamVars, statusVars>>

\* The guest agent is restarted (sock enable does it): its session breaks.
GuestRestarts ==
    /\ guest = "serve"
    /\ guest' = "connect" /\ cur' = None /\ wire' = wire \ {cur}
    /\ left' = left \cup {j \in Stream : stream[j] # "none"}
    /\ UNCHANGED <<told, machineVars, serveVars, handler, stream, on, relaying, quit, asked,
                   statusVars>>

-----------------------------------------------------------------------------
(* handle: one for each session. *)

\* Accept fails: the session is over, or the serving is.
HandlerStops(k) ==
    /\ handler[k] = "accept" /\ ~Busy(<<"conn", k>>)
    /\ k \notin wire \/ daemon \in {"drain", "stopping"}
    /\ handler' = [handler EXCEPT ![k] = "wait"]
    /\ UNCHANGED <<told, machineVars, serveVars, guestVars, wire, streamVars, statusVars>>

OfSession(k) == {j \in Opened : on[j] = k}

\* Mutant: the session does not wait for the streams it opened.
HandlerLeavesHasty(k) ==
    /\ handler[k] = "wait"
    /\ handler' = [handler EXCEPT ![k] = "leaving"]
    /\ Reports(<<"conn", k>>)
    /\ UNCHANGED <<told, machineVars, serveVars, guestVars, wire, streamVars,
                   file, stopper, spared>>

\* Its streams have ended: the session leaves the status.  Nothing closes it.
HandlerLeaves(k) ==
    /\ handler[k] = "wait" /\ OfSession(k) = {}
    /\ handler' = [handler EXCEPT ![k] = "leaving"]
    /\ Reports(<<"conn", k>>)
    /\ UNCHANGED <<told, machineVars, serveVars, guestVars, wire, streamVars,
                   file, stopper, spared>>

HandlerReturns(k) ==
    /\ handler[k] = "leaving" /\ ~Busy(<<"conn", k>>)
    /\ handler' = [handler EXCEPT ![k] = "none"]
    /\ UNCHANGED <<told, machineVars, serveVars, guestVars, wire, streamVars, statusVars>>

-----------------------------------------------------------------------------
(* A program in the guest: serveListener, and the daemon's open and Pipe.    *)

To(j, s) == stream' = [stream EXCEPT ![j] = s]
Over(j) ==
    /\ To(j, "over") /\ on' = [on EXCEPT ![j] = None]
    /\ left' = left \cup {j} /\ quit' = quit \ {j}

ClientComes(j) ==
    /\ stream[j] = "none" /\ guest # "off" /\ \A i \in Stream : i < j => stream[i] # "none"
    /\ To(j, "waiting")
    /\ UNCHANGED <<told, machineVars, serveVars, guestVars, wire, handler, on, relaying,
                   left, quit, asked, statusVars>>

\* The session the listener sees is the one it uses, whatever becomes of it.
PickSession(j) ==
    /\ stream[j] = "waiting" /\ j \notin left /\ Session # None
    /\ To(j, "opening") /\ on' = [on EXCEPT ![j] = Session]
    /\ UNCHANGED <<told, machineVars, serveVars, guestVars, wire, handler, relaying, left,
                   quit, asked, statusVars>>

\* No session within the grace; or Open fails, or took 15 s before it was taken up.
Refuse(j) ==
    /\ \/ stream[j] = "waiting" /\ (Session = None \/ j \in left)
       \/ stream[j] = "opening"
    /\ Over(j)
    /\ UNCHANGED <<told, machineVars, serveVars, guestVars, wire, handler, relaying,
                   asked, statusVars>>

\* handle has reported, and takes the request up; open dials for up to 10 s.
AcceptRequest(j) ==
    /\ stream[j] = "opening" /\ on[j] \in wire
    /\ handler[on[j]] = "accept" /\ ~Busy(<<"conn", on[j]>>)
    /\ To(j, "dialing")
    /\ UNCHANGED <<told, machineVars, serveVars, guestVars, wire, handler, on, relaying,
                   left, quit, asked, statusVars>>

\* The target is not allowed, or not reached: the refusal is counted and reported.
RefuseOpen(j) ==
    /\ stream[j] = "dialing"
    /\ To(j, "refusing") /\ left' = left \cup {j}
    /\ Reports(<<"stream", j>>)
    /\ UNCHANGED <<told, machineVars, serveVars, guestVars, wire, handler, on, relaying,
                   quit, asked, file, stopper, spared>>

\* There is no such filter, or the session has ended: nothing is reported.
DropOpen(j) ==
    /\ stream[j] = "dialing"
    /\ Over(j)
    /\ UNCHANGED <<told, machineVars, serveVars, guestVars, wire, handler, relaying,
                   asked, statusVars>>

\* The daemon reaches the target, and accepts.
OpenStream(j) ==
    /\ stream[j] = "dialing" /\ on[j] \in wire
    /\ To(j, "piping")
    /\ relaying' = [relaying EXCEPT ![j] = Dirs]
    /\ asked' = asked \cup {j}
    /\ Reports(<<"stream", j>>)
    /\ UNCHANGED <<told, machineVars, serveVars, guestVars, wire, handler, on, left, quit,
                   file, stopper, spared>>

ClientLeaves(j) ==
    /\ stream[j] = "piping" /\ j \notin left
    /\ left' = left \cup {j}
    /\ UNCHANGED <<told, machineVars, serveVars, guestVars, wire, handler, stream, on,
                   relaying, quit, asked, statusVars>>

Reaches(j) == j \notin left /\ on[j] \in wire

\* The target has closed, and answers nothing any more.
Quits(j) == quit' = quit \cup {j} /\ asked' = asked \ {j}

Stops(j, d) == relaying' = [relaying EXCEPT ![j] = @ \ {d}]

\* Mutant: what the end is not passed on is what keeps the target waiting.
UpEndsSilently(j) ==
    /\ "up" \in relaying[j] /\ (~Reaches(j) \/ j \in quit) /\ ~Busy(<<"stream", j>>)
    /\ Stops(j, "up")
    /\ UNCHANGED <<told, machineVars, serveVars, guestVars, wire, handler, stream, on,
                   left, quit, asked, statusVars>>

\* The program closed, the session failed, or a write to the target did.  The
\* target reads the end where its connection can say so, and closes.
UpEnds(j) ==
    /\ "up" \in relaying[j] /\ (~Reaches(j) \/ j \in quit) /\ ~Busy(<<"stream", j>>)
    /\ Stops(j, "up")
    /\ IF told THEN Quits(j) ELSE UNCHANGED <<quit, asked>>
    /\ UNCHANGED <<told, machineVars, serveVars, guestVars, wire, handler, stream, on,
                   left, statusVars>>

\* The target answers; the answer may find nobody there.
TargetAnswers(j) ==
    /\ stream[j] = "piping" /\ j \in asked
    /\ asked' = asked \ {j}
    /\ IF "down" \in relaying[j] /\ ~Reaches(j) THEN Stops(j, "down") ELSE UNCHANGED relaying
    /\ UNCHANGED <<told, machineVars, serveVars, guestVars, wire, handler, stream, on,
                   left, quit, statusVars>>

TargetQuits(j) ==
    /\ stream[j] = "piping" /\ j \notin quit
    /\ Quits(j)
    /\ UNCHANGED <<told, machineVars, serveVars, guestVars, wire, handler, stream, on,
                   relaying, left, statusVars>>

\* The target closed: the program reads the end, and closes.
DownEnds(j) ==
    /\ "down" \in relaying[j] /\ j \in quit /\ ~Busy(<<"stream", j>>)
    /\ Stops(j, "down") /\ left' = left \cup {j}
    /\ UNCHANGED <<told, machineVars, serveVars, guestVars, wire, handler, stream, on,
                   quit, asked, statusVars>>

\* Both directions have ended: Pipe closes the two ends and returns.
PipeEnds(j) ==
    /\ stream[j] = "piping" /\ relaying[j] = {} /\ ~Busy(<<"stream", j>>)
    /\ To(j, "ending") /\ left' = left \cup {j} /\ Quits(j)
    /\ Reports(<<"stream", j>>)
    /\ UNCHANGED <<told, machineVars, serveVars, guestVars, wire, handler, on, relaying,
                   file, stopper, spared>>

OpenReturns(j) ==
    /\ stream[j] \in {"refusing", "ending"} /\ ~Busy(<<"stream", j>>)
    /\ Over(j)
    /\ UNCHANGED <<told, machineVars, serveVars, guestVars, wire, handler, relaying,
                   asked, statusVars>>

-----------------------------------------------------------------------------

Serving(k) == Handshake(k) \/ HandlerStops(k) \/ HandlerLeaves(k) \/ HandlerReturns(k)

Relaying(j) ==
    \/ AcceptRequest(j) \/ RefuseOpen(j) \/ DropOpen(j) \/ OpenStream(j)
    \/ UpEnds(j) \/ DownEnds(j) \/ PipeEnds(j) \/ OpenReturns(j)

Daemon ==
    \/ Find \/ Bind \/ Watch \/ Drained \/ Failed \/ Stop \/ Exit
    \/ \E k \in Conn : Serving(k)
    \/ \E j \in Stream : Relaying(j)
    \/ \E g \in Writer : WriteStatus(g)

Guest ==
    \/ Connect \/ GuestSessionEnds
    \/ \E j \in Stream : PickSession(j) \/ Refuse(j)

World ==
    \/ VMStarts \/ VMStops \/ HelpersChange
    \/ AcceptFails \/ CtrlC \/ AgentStart \/ GuestRestarts
    \/ AgentStop \/ StopKills \/ StopFails \/ StopRemoves
    \/ \E j \in Stream :
           ClientComes(j) \/ ClientLeaves(j) \/ TargetAnswers(j) \/ TargetQuits(j)

DaemonNext == World \/ Guest \/ Daemon

\* Goroutines run and their calls end; VMs, programs and users do as they like,
\* except that a target answers what it was asked.
DaemonFairness ==
    /\ WF_daemonVars(Find \/ Bind \/ Drained \/ Failed \/ Stop \/ Exit
                         \/ WriteStatus(<<"serve", 0>>))
    /\ WF_daemonVars(Watch)
    /\ \A k \in Conn : WF_daemonVars(Serving(k) \/ WriteStatus(<<"conn", k>>))
    /\ \A j \in Stream :
           /\ WF_daemonVars(Relaying(j) \/ WriteStatus(<<"stream", j>>))
           /\ WF_daemonVars(TargetAnswers(j))

-----------------------------------------------------------------------------
(* Properties. *)

DaemonTypeOK ==
    /\ told \in BOOLEAN
    /\ vm \in VM \cup {None} /\ helpers \in BOOLEAN /\ started \in 0..MaxVM
    /\ daemon \in {"find", "bind", "serve", "failed", "drain", "stopping", "exiting",
                   "stopped"}
    /\ bound \in VM \cup {None} /\ misses \in 0..MissLimit /\ ctrlC \in BOOLEAN
    /\ guest \in {"off", "connect", "handshake", "serve"} /\ cur \in Conn \cup {None}
    /\ wire \subseteq Conn
    /\ handler \in [Conn -> {"none", "handshake", "accept", "wait", "leaving"}]
    /\ stream \in [Stream -> {"none", "waiting", "opening", "dialing", "piping", "ending",
                             "refusing", "over"}]
    /\ on \in [Stream -> Conn \cup {None}] /\ relaying \in [Stream -> SUBSET Dirs]
    /\ left \subseteq Stream /\ quit \subseteq Stream /\ asked \subseteq Stream
    /\ file \in {"absent", "alive", "dead"} /\ stopper \in {"none", "kill", "remove"}
    /\ spared \in BOOLEAN

\* "nothing writes the status file after Serve exits" (host.go:99): what Serve
\* started, the handlers, relays and refusals, has written by then.  So no
\* status.json is written between its removal and the end of the process, and
\* one is left by a daemon that stopped only where the removal failed, or is
\* still to be done by the command that killed it (Serve, agentServe, agentStop).
StoppedLeavesNoStatus ==
    /\ daemon = "stopped" => file = "absent" \/ spared \/ stopper = "remove"
    /\ daemon \in {"find", "bind", "stopping"} => reports \subseteq {<<"serve", 0>>}
    /\ daemon \in {"exiting", "stopped"} => reports = {}

\* The daemon sees a VM, and nobody asks it to stop.
Wanted == vm # None /\ helpers /\ ~ctrlC /\ daemon # "stopped"
Serves == daemon = "serve" /\ bound = vm

\* "find the VM, bind, serve until the VM goes away, repeat"
\* (agent_windows.go:155): a VM that stays is served.
Rebinds == <>[]Wanted => <>[]Serves

\* It is so where every target can be told that its program has left, and the
\* programs do leave (agentServe, watchVMID, Serve, handle, Pipe).
RebindsOnceClosed ==
    told => (<>[](Wanted /\ \A j \in Stream : stream[j] = "piping" => j \in left)
                => <>[]Serves)
=============================================================================
