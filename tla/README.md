# A formal model of wslkit

wslkit is a command for Windows that inspects, repairs and extends WSL, with a small agent
that runs inside a distribution and carries sockets between Linux and Windows. This directory
holds TLA+ models of the parts of it in which order, failure and concurrency matter, TLC
configurations that check them on small instances, and theorems that the TLA+ proof system
checks for every instance.

Paths below are relative to `src/`; `mux.go:345` is a line of the one file of that name.

## The system and its parts

| Part | State | Operations | What is hard about it | What makes it correct | Modules |
|---|---|---|---|---|---|
| agent session, `agent/mux` | a connection; per side the pending opens, the accept queue, the table of streams; per stream a buffer, its error, its half-close | `Open`, `Accept`, `OpenRequest.Accept/Reject`, `Read`, `Write`, `CloseWrite`, `Close`, `Ping`, the read loop, `Session.Close` | one read loop per side serves all streams; every call is a goroutine; shutdown runs beside all of them | bytes in order and complete; no lost wake-up; no stream nobody accepted; nobody waits for ever; a session that ends takes its streams with it | `Mux`, `MuxProofs`; `Bytes`, `Streams`, `StreamProofs` |
| relay and filter, `agent/relay`, `filter`, `target` | two copying goroutines, half-close, a message cut into chunks | `Pipe`, `copyDir`, `SSHAgent.Forward` | one direction ends, the other waits; the filter answers itself | the server is given what it may see and nothing else; every client gets its answers; who leaves is not served for ever | `Relay` |
| host daemon and guest, `agent/host`, `agent/guest`, `cli/agent_windows.go` | the VM, its listener, connections, streams, the status file; the guest's session and listeners | `agentServe`, `watchVMID`, `Serve`, `handle`, `open`; `Run`, `serveListener` | VMs come and go; one relay holds up everything; statuses are written by anybody | the next VM is served; a daemon that stopped leaves no status | `Daemon`, `AgentProofs` |
| set-up, `agent/install`, `sock` | allow list, listeners, profile script, the agent that runs | `agent install`, `uninstall`, `sock enable`, `disable`, `Discover` | each call may fail, four places must agree | nobody listens for what is refused; a success is wired | `Presets`, `AgentProofs`; `Agent` composes the three |
| trash, move, relink, `disk/trash.go`, `move.go`, `relink.go` | files, trash folders, the registration, an undo stack | `trash`, `undelete`, `purge`, `move`, `relink` | every call can fail, the program can die between two, the utility VM holds a disk some time after the distribution stopped | no disk is lost, a rollback restores, what was unregistered can be brought back | `DiskWorld`, `Trash`, `Move`, `DiskOps`, `DiskProofs`, `RollbackProofs` |
| copies of a disk, `disk/snapshot.go`, `rebuild.go`, `compact.go`, `trim.go` | versions of a disk, a store of snapshots, an archive | `snapshot`, `snapshot rm`, `restore`, `rebuild`, `compact` | half a copy, an old copy | nothing is thrown away, snapshots are whole, a restore can be undone | `CopyWorld`, `Snapshot`, `Rebuild`, `CopyOps`, `CopyProofs` |
| registrations, `disk/rename.go`, `flags.go` | values of a registry key, the undo journal | `disk rename`, `flags`, `default-user`, `doctor undo` | looked up before and written after; entries of one second | undo gives back what was overwritten, names stay apart | `Settings`, `ChangesProofs` |
| settings file, `disk/config.go`, `automount.go` | `config.toml`, a logon task | `disk config`, `disk automount` | each command reads and writes all of it | nothing drops out of it, no disk gets two writers | `Automount`, `ChangesProofs` |
| fix, `fix`, `fix/exec`, `fix/actions` | a journal, files, marks, exclusions | `doctor fix --apply`, `doctor undo` | a step of several fails; planned from what was collected before | what was applied can be undone | `Fix`, `ChangesProofs` |
| limit, `limit` | two cgroup files | `limit set`, `clear` | use is read before and the ceiling written after | a ceiling kills nothing it was not told of | `Limit`, `ChangesProofs` |
| proxy, `proxy` | five files of a distribution; a cache of resolutions, tunnels | `proxy apply`, `revert`, `serve` | the user edits the same file; the network changes under a request | revert is exact, a tunnel carries everything, no stale route | `ProxyFiles`, `ProxyServe`, `ChangesProofs`; `Changes` composes these with the disk commands |
| guard, `guard` | the record of what was running, the rungs left | `guard run-once` | two tasks share the record and the machine; a probe times out although the rung worked | nothing is shut down on a guess, the cheap rungs come first, a hung service is got going | `Guard`, `CommandsProofs` |
| doctor, `env/collect`, `probe` | a snapshot that collectors write while a deadline runs | `doctor check`, `check --only`, `explain` | a collector that is abandoned, late, or panics | a check blames the machine only for what was read | `Collect`, `Probes`, `Doctor` |
| top, `top` | two sweeps, counters | `top`, `top --watch` | distributions and VMs stop and start while they are measured | a rate is of the row it is shown in | `Top`, `CommandsProofs`; `Commands` composes guard, doctor and top |
| wire format, preflight, parsers, rendering, command line, Windows bindings, tools | none that is shared or kept | | reading, drawing, parsing, wrapping system calls | | see "Not modelled" |

How they interact: the guest and the host daemon each own one end of a session and relay
between its streams and local sockets. `Mux` is the session, `Relay` one connection on it, and
`Daemon` uses of both what they show: a session ends on both sides, a relay's two directions
end each by itself. The disk commands share one world, the files and the registry. `doctor fix`,
`disk rename` and its like share the undo journal. Everything goes through `wsl.exe`, which may be
killed at a timeout although what it asked for still happens.

Modules that share nothing are composed into one specification for a run (`Agent`, `Changes`,
`Commands`): a variable `part` says which one moves, so the run explores each of them by itself and
not their product. The type invariant of such a run is the conjunction of those of its parts.

## The agent session: `Mux`

Both sides run the same code, so every variable is a function of the side, or of the stream
id, which is odd where the guest opened the stream and even where the host did. The ids are
not reused within the bound, and name the `Open` call and the request as well.

Each action is one step of one goroutine between two points at which another can be seen. A
frame write (`proto.WriteFrame` under `wmu`) is one step that needs room on the connection and
fails when the connection is down. The points that matter are kept apart: a frame taken off
the connection and acted on later (`ReadFrame`, `Handle...`), a request put into the queue
and the signal given after the unlock (`HandleOpen`, `EnqueueSignal`), the accept loop finding
the queue empty and going to sleep (`AcceptSleep`, `AcceptWake`), a stream looked up and then
delivered to (`HandleData`, `Deliver`), a reply put into the channel and taken out
(`HandleReply`, `OpenReply`), a stream registered and OPEN_OK written (`RequestAccept`,
`RequestAcceptSend`), and the three phases of `shutdown`: the connection closed, streams and
reply channels swept under `smu`, `done` closed. `OpenCancel` is the context of an `Open`
ending, `AcceptCancel` that of `Accept`. A DATA payload is its number on its stream; 0 is the
nil that `peerEOF` delivers. `sent`, `fin` and `got` are history: what was written, how much had
been written when the first close frame went, and what was read.

A send on a reply channel that `shutdown` has closed is a panic, which ends the process of that
side (`panicked`): the connection is then down for the other.

Bounds: `MaxId` streams, `MaxData` DATA frames a direction, `MaxExtras` pings and foreign
frames, and `StreamBuffer`, `MaxPendingOpens` and `WireCap`, which are constants of the code
or of the transport (64, 1024, and what a socket buffers). The runs set these three to 1: a
smaller buffer is full more often, and being full or empty is all the code asks about.
`Openers`, `Acceptors`, `Streamers`, `Closers`, `Pingers`, `Foreign` and `CanCut` say which
side's application does what, so that a run need not pay for what its question does not involve.

| Run | Question | Bounds |
|---|---|---|
| `mux_stream` | is what the two ends of a stream see the byte stream of `Bytes`, under half-close, close and cancellation from both ends? | one stream, two frames each way, buffer 1, connection 1 |
| `mux_open` | is a request ever left asleep in the queue, is a stream ever held that nobody accepted, what can make the two read loops block each other, does an accepted stream outlive its session? | `MCMux` narrows what is done in one of two ways (`focus`). `Crowded`: two opens of the guest, queue 1, connection 1, heartbeats of the host. `Closing`: one open, `Session.Close` and the end of the accept context on both sides, a refused OPEN, an unknown type |
| `mux_live` | does every `Open` return, does a close arrive, do both sessions end? | one open each way, one side never accepts, one DATA frame, the connection may break |
| `mux_opener_race` | "like a TCP connection" (`mux.go:374`) | violated: see below |

One stream is enough for the order of bytes, since streams share nothing but the read loop,
which the second id of `mux_open` and `mux_live` contends for. Two opens of one side are what
it takes to fill a queue of one with a request waiting behind it.

Fairness (`Fairness` in `Mux`): the loops, shutdown, the calls under way and the answers to
requests go on when they can, which the Go scheduler gives; the applications keep reading,
which the relay's copying loops do. Nothing obliges anyone to open, write, close, cancel or
ping. `mux_live` is about peers that accept: `OpenReturns` is claimed only of an id whose
acceptor runs an accept loop.

`Bytes` is what the directions of streams promise, without a goroutine, a buffer or a frame: bytes
are written, the writer closes, each read is of the next byte, and the reader is told of the end
when it has read all. `Streams` maps a session to it (`StreamsAreBytes`, checked by `mux_stream`, and proved):
`written` is what was sent, `read` what was got, and a direction is `Whole`, read from the first
byte, at the accepting end alone. A refinement rather than invariants, because it says of every
step of `Mux` that it is a write, a close, a read of the next byte, or none of them.

### What the runs found

* **An opener can lose the first data** (`mux_opener_race`). The read loop drops DATA of an id
  that is not in the table (`mux.go:345`); `Open` puts it there only after it received OPEN_OK
  on a channel (`mux.go:188`). The accepting end reads from the first byte, and what either end
  reads never has a gap in the middle (`StreamsAreBytes`).
* Seen while modelling, without a run of its own: an `Open` whose OPEN_OK is already in the
  channel registers its stream after `shutdown` swept the table, and nothing fails that stream,
  although "all streams fail" (`mux.go:134`). On the accept side this cannot happen
  (`AcceptedStreamsFail`, proved).
* Seen while modelling, without a run of its own: an `Open` that is given up while its request
  is queued leaves the accepter, who takes it later, a stream whose other end was never made and
  says nothing (`mux.go:190`): it ends with the session.
* Seen while modelling, without a run of its own: `Session.Close` beside a reply in the read
  loop's hand panics, because `shutdown` closes the channels and leaves them in `pending`
  (`mux.go:145`). `PanicNeedsClose` says, and the proof shows, that nothing else can; nothing
  in the repository but the tests calls `Session.Close`.
* Seen while proving, without a run of its own: the two loops can block each other, although
  "the read loop must never block" (`mux.go:39`). The read loop writes OPEN_ERR itself when the
  accept queue is full (`mux.go:335`) and PONG when a heartbeat comes (`host.go:195` sends them).
  Where one loop does the one and the other the other over a connection that is full in both
  directions, neither reads. That takes more opens in the queue than any user of wslkit makes
  (1024), and a connection that was full before; `LoopsBlockOnRefusal` says that nothing else
  does it. `OpenReturns` is checked where nobody pings.

## Around the session: `Relay`, `Daemon`, `Presets`

`Relay` is one connection between a client in the guest and a Windows program. What the client
writes is a sequence of units: a request, an extension request, the first part of a request, and
bytes that cannot start a message; a `Read` takes any number of them, so that a message may be cut
anywhere. `filter`, `halfCloses`, `lockStep` and `quits` are fixed in the initial state: whether
the ssh-agent filter is on, whether the target has a `CloseWrite`, whether the client waits for
each answer, and whether it leaves before it has them all. The two `copyDir` run by themselves, and
`PipeCloses` comes when both are done.

`Daemon` has `agentServe` (find the VM, bind, serve, until the VM is gone), `watchVMID` with its misses,
`Serve` with its handlers, which it waits for, `open` with the check of the target, and who writes
`status.json`: what is opened, what is refused, an `Accept` that fails; the guest's `Run` and
`serveListener`; and VMs, programs and targets, which do as they like. `reports` are writes of the
status that were decided and have not been done. A reader has the file open at times, so that a write
or a removal does not happen, and nobody is told (`agent_windows.go:177`); `spared` says that the
removal of a daemon that stops was such a one. `agent stop` reads the file, kills the process it names
and then removes it (`stopper`), and each of the three may fail, or come after the daemon's own end.

`Presets` has the calls of install, uninstall, enable and disable one by one, on the four places a preset
stands in. Every one may fail, with nothing done, with the file it was writing cut short
(`config.go:188` is `os.WriteFile`; the scripts redirect), or with all done and an error all the same;
`IsCut` has the second kind. What systemctl says is not looked at by an uninstall
(`install_windows.go:135`), which may leave the unit, and the agent running. The daemon reads
`host.json` when it starts and not again (`agent_windows.go:164`): `opens` is what the last one to start
has read, and `since` is history, what was allowed after that.

| Run | Question | Bounds |
|---|---|---|
| `agent` | is what reaches the server exact, is every answer that of its request, does one who left keep anybody waiting, does a stopped daemon leave a status, do the four places of a preset agree? | three units; two VMs, two connections, one stream, one `agent stop` at a time; two distributions, one of them with systemd, two presets, of which one has a variable and a filter and the other a socket file and is the one that is enabled also where no systemd runs (`Everywhere`) |
| `agent_rebind` | "find the VM, bind, serve until the VM goes away, repeat" (`agent_windows.go:155`) | violated: see below |

Three units are a request that is cut in two, and one behind it. Two VMs are one that goes and the
next. `MissLimit` is 2 and not 4 (`agent_windows.go:242`): what counts is that there is a miss that is
not the last. `Tellable` says which targets have a `CloseWrite`: those of `agent` do, those of
`agent_rebind` may not. An enable where no systemd runs stops before the restart, whichever preset it is
of, so that `Everywhere` need not have both.

Fairness (`RelayFairness`, `DaemonFairness`): the goroutines go on when they can, and a server, or a
target, answers what it was asked and closes when it is told that its peer has; nothing obliges a VM,
a program or the user. `NothingWaitsForEver` is claimed of targets that can be told.

* **A named pipe keeps the daemon from the next VM** (`agent_rebind`). A pipe has no `CloseWrite`
  (`target.go:12`), `Pipe` waits for both directions before it closes either (`relay.go:34`), `handle`
  for its streams and `Serve` for its handlers (`host.go:137`).
* Seen while modelling, and left out of `WiringAgrees` by `since`: a preset that is enabled while the daemon
  runs is listened for in the guest and refused by the host until the daemon is started again, which
  nothing in `sock enable` does or says. `docs/sock.md:13` and its "Turning on" have no such step.
* Seen while modelling: a `host.json` that was cut short stops every later enable and every start of the
  daemon until the user mends it, and an `agent.json` that was cut short keeps the agent from starting
  until an install replaces it. `WiringAgrees` speaks of the first as `host = "cut"`.
* Seen while modelling: a daemon stopped while somebody reads `status.json` leaves it behind, and it names a
  process that has ended (the exception `spared` in `StoppedLeavesNoStatus`); so does an `agent stop`
  between its kill and its removal.
* Seen while modelling: where the reply to an extension request cannot be written, the direction to
  the server ends with the error and the server is not told (the exception in `LeftIsClosed`); an
  agent whose client does not wait for its answers would get the filter's answer out of turn
  (`lockStep` in `AnswersMatch`).

## The disk commands: `DiskWorld`, `Trash`, `Move`, `DiskOps`

`DiskWorld` holds what every command changes: one distribution name, the directories and
trash folders (places), the files in them, the registration, whether the distribution runs
and which disks the utility VM holds; and what every command has: `Begin`, an undo stack that
`Unwind` runs newest first (`relink.go:28`), and `Crash`. A disk is the GUID it was installed
under, `Stale` if it is half-written or has been overtaken by a copy that was started from.
The place of a trash folder is the GUID it is named after (`trash.go:124`), which is what makes
a folder be reused.

`Trash` has one action per call of `Trash` and `moveIntoTrash` that changes anything: stop, wait,
make the folder, rename or copy and remove each file, list the siblings, write the manifest,
unregister, and the clean-up after a rollback. A rename needs a name that is not taken, and
succeeds on a file's own name; a copy is half-written until it is complete. `Undelete` is the
import, which makes a new GUID, and the settings; `Purge` removes what it can of a folder.
`Move` has `Move` and `Relink`, which share `repoint`, the smoke test and the rollback. `DiskOps`
gives the commands one after the other, with the distribution used in between, and states the
properties. `MCDisk` has the worlds of the runs: which commands are given, which directories there are,
which of them are on another volume, and which calls fail. A world is chosen at the start.

Not in these modules: rendering of plans, sizes and free space, the check that a directory
is writable, the exact names of copies. Two commands at once are not modelled: nothing in the
code excludes them, and nothing in the documents promises anything about them.

| Run | Question | Bounds |
|---|---|---|
| `changes`, `TrashWorld` | trash, undelete and purge with wsl.exe failing or killed too early, with copies, removals and the registry failing, and death between any two calls: is the disk somewhere, can it be brought back, does a failure put things back? | two directories, two registrations, one volume |
| `changes`, `FilesWorld` | the same where no command dies and the other calls fail: making a folder, renaming, listing, writing the manifest; do the settings return? | the same |
| `changes`, `MoveWorld` | the same of move and relink, with the disk still held after a failed start | three directories, one of them on another volume, one registration |
| `changes`, `RoundsWorld` | twice to the trash and back, with a move in between, across volumes, with failing copies and removals: can it be brought back, and do the settings return? | two directories, three registrations |
| `changes`, `SlowWorld` | a second trash while WSL still unregisters for the first, across volumes, with the disk open for a copy when WSL comes to delete it: can what is unregistered be brought back? | two directories, one registration |
| `trash_across` | "the disk is moved, not removed" (`trash.go:105`) | violated: see below |
| `trash_late` | "putting the disk back leaves the machine exactly as it was found" (`trash.go:202`) | violated: see below |
| `trash_relinked` | "by the time this runs there is nothing left for it to delete" (`host_windows.go:135`) | violated: see below |

Two registrations are a trash, an undelete and a trash again, so that a folder of an older GUID
lies about; three let a disk pass through two folders. One directory more than the source and
the target gives a copy a third place to be confused with. Deadlock is not checked: the user may
stop giving commands, and the number of registrations is bounded.

### What the runs found

* **Across volumes a failed trash loses the disk** (`trash_across`). After the copy the rollback
  "remove the copy" is pushed (`trash.go:286`) and the original removed (`trash.go:287`). If a
  sibling, the manifest or the unregister fails then, the rollback removes the only disk left.
  `DiskSurvivesOnVolume` therefore speaks of worlds in which a trash has no disk to copy
  (`TrashCopies`).
* **An unregister that outlives its minute takes the disk along** (`trash_late`). `wsl.exe` is killed after
  a minute (`host_windows.go:138`), which does not stop the service. The trash takes that for a failure and
  renames the disk back under `BasePath` at once (`trash.go:205`); when WSL comes to it, it deletes the disk
  with the registration, as `host_windows.go:133` says it does. In the model `UnregistersLate` is a step of
  WSL's own, which comes at any time after: before the rollback, between two of its steps, after it, or during
  the next command. What it deletes is in `ruined`, what it left without a registration in `orphaned`, and
  `DiskSurvivesOnVolume`, `Recoverable` and `FailureRestores` speak of the other disks.
* **A trash cut short, relink, trash again** (`trash_relinked`). After the crash the disk is in
  the folder of its GUID; `relink`, which the comment recommends, registers it there; the next
  trash renames the disk onto itself and unregisters, which deletes it.
* Seen while modelling, and left out of the properties by a condition that says so: a purge
  deletes the disk of an undeleted distribution, since the entry is still listed (the history
  variable `purged`); a late unregister that was faster than the rollback leaves the disk back in its
  place, unregistered and without a manifest (`orphaned`); a rollback of a second trash leaves the new
  manifest where the old one was ("the manifests of trash folders apart" in `FailureRestores`); half a
  copy of a move that cannot be removed stays at the target (`copy_windows.go:185` does not look, and
  `AsBefore` allows it).
* Seen while modelling: `relink` takes any file that exists (`relink.go:58`), an old copy of the disk among
  them. The smoke test may be reported as failed although the start goes on (`compact.go:341`): the
  rollback of the move then meets a disk that is held.

## Copies of a disk: `CopyWorld`, `Snapshot`, `Rebuild`, `CopyOps`

snapshot, restore, rebuild and compact put copies beside a disk rather than move it, and what can
go wrong is that an old copy, or half of one, is taken for the disk. So in `CopyWorld` the contents
of a disk are the version that its user last wrote, `Part` where a copy or an archive is not
complete; the user may start the distribution and write between any two steps of a snapshot or a
restore, except while its disk is open for a copy; and the utility VM lets go of a disk some time
after the last distribution stopped. `Tidy` is the user who does what the messages tell him about
what was left behind.

`Snapshot` has the calls of `TakeSnapshot`, `RemoveSnapshot`, `Restore` with its rollback, and
`fileAsSnapshot` by rename and by copy. `Rebuild` has those of `Rebuild` and of `Compact`. Of the
registration only the GUID, which a rebuild renews and a snapshot names, and the settings are kept.
`taken` and `kept` are history: what a snapshot was to hold, and which versions commands displaced.

| Run | Question | Bounds |
|---|---|---|
| `disk_copies` | with every call failing, death anywhere, and the user writing meanwhile: is a displaced disk always somewhere, is every snapshot that can be restored whole, does a failure put things back, can a restore be undone, is there an archive while nothing is registered? | two versions, two registrations, a store of two |

Two versions are an old disk and a current one; two slots are the snapshot that is restored and
the one the old disk is filed in; two registrations are before and after a rebuild. The store is
on the volume of the disk, but asking whether it is may fail (`"volume"`), which is the path of
two volumes. Deadlock is not checked: the user may stop, and the bounds are reached.

* Seen while modelling, without a run of its own: "it is then still beside the live disk"
  (`snapshot.go:357`, and the message of line 424) is not so where `fileAsSnapshot` has renamed
  the disk into the store and then cannot write the manifest: it is in the store, in a folder that
  the list shows with an error, and which cannot be restored. `NothingThrownAway` counts it as
  being there.
* Seen while modelling: half a copy that could not be removed stays in the place of the disk where
  there was none before, and the error does not mention it (the exception in `FailureRestores`).
* Seen while modelling, and left out: what is written to a distribution between its export and its
  unregister is lost, as nothing keeps it from being started again; a rebuild that dies between
  the import and `restoreSettings` has the old settings in memory only; a compaction that failed
  does not say that the restart failed too (`compact.go:179`).

## Small changes: `Settings`, `Automount`, `Fix`, `Limit`, `ProxyFiles`, `ProxyServe`

These commands take a second each and are given from several terminals, by scripts, and beside a user
who edits the same things by hand. What each of them reads, it reads before a prompt, and writes
after it. So each model has two actors, every call that reads or writes is an action, everybody
may leave at any point, and the history variables say what was read, asked and written.

* `Settings`: rename, flags and default-user read the registration, plan, journal the old value and
  write; a rename proves itself by a start under the new name and else puts the old one back; `undo`
  writes back what an entry has. The id of an entry is its kind and the second. Distributions are
  installed and unregistered meanwhile.
* `Automount`: the settings file is read whole and written whole, by `os.WriteFile`, which empties it
  first; the table in it is attached by a command and by the logon task, disk by disk; an editor
  is open beside that; drives and distributions come and go.
* `Fix`: a plan has steps and a rollback, of files, marks, exclusions and programs (`Plans`); it is
  saved before its first step; `Apply` stops at the first step that fails, and a copy that fails may
  leave half a file.
* `Limit`: what the cgroup says is read in one shell, checked, and written file by file in another;
  the distribution restarts, which makes a new cgroup, and its programs use more and less.
* `ProxyFiles`: five files are read, a block is merged into the one that is the user's, and a
  script writes each by way of a temporary file of one name. A line is one of ours, or the number of
  one of the user's.
* `ProxyServe`: a request asks Windows, or the cache, which way to go, dials the proxies in order,
  negotiates a tunnel, byte by byte, or forwards; the machine moves to another network. `config` says whether a
  script, which Windows runs anew, or fixed settings were there when `proxy serve` was started: it reads them
  once (`resolver_windows.go:29`, `proxy_serve_windows.go:113`). Either end of a tunnel closes its side, or
  its connection breaks.

`Changes` composes them with the disk commands.

| Run `changes`, part | Question | Bounds |
|---|---|---|
| settings | are names apart, does a command keep the bits it was not asked about, does undo give back what was written over? | two registrations, two names, a switch and an unknown bit; four commands, installs included; two seconds |
| automount | is everything that was set in the file until it is removed, is a distribution's disk attached as an extra one? | a disk, two terminals and the task, four commands |
| fix | can whatever was changed, also by a fix that failed, be given back? | two terminals, two commands, an edit by the user, two seconds |
| limit | does a ceiling kill what was there when it was checked, is the throttle there first? | memory up to 4, three sets of limits, two starts, two commands |
| proxy apply | are the user's lines kept, is a revert exact, is an apply complete? | two terminals, two commands, two lines of the user |
| proxy serve | is a tunnel in whose course no connection breaks complete in both directions, is every proxy tried, is the route a script gave on another network gone after the TTL? | a script or fixed settings, a tunnel and a plain request, two proxies, two networks, two ticks, one byte each way beside the headers |

Two of everything that shares: two seconds are commands of the same and of different ones, two
starts are a cgroup and its successor. One disk is enough for the table, as the entries of two disks
meet in nothing but the file. The two terminals are interchangeable (`AnyTerminal`): no action and no
property names one of them, and the run checks invariants and action properties only, for which TLC's
symmetry reduction is sound. Deadlock is not checked: the user may stop. The action properties need
no fairness.

What the code does against its documents, or loses, and the properties except by a condition that says so:

* settings: two commands of one kind in one second have one id, and the second entry replaces the first
  although its id was told (`twice`). The flags are computed from the list read first, so that a change
  between that and the write is lost (`stale`). An undo puts back the whole value, and with it what
  was changed since; it may give two distributions one name, and `reg.exe add` makes anew the key of a
  distribution that was unregistered (`soiled`). A value that is absent, or is none, is read as 0 or as empty
  (`registry_windows.go:125`) and is what it is read as in the model; an undo of it deletes the value
  (`flags_windows.go:84`), which reads the same.
* automount: a file that is read while it is written, or whose write was cut short, is read as one
  without a table, without an error, and the next command writes that back (`crossed`). A disk is
  looked at when it is added, and attached at every logon after that, when it may have become a
  distribution's (`unvetted`). A setting of a later version and the user's comments are dropped by every
  write.
* fix: a copy is not atomic, so half a backup may be what `undo` puts over the intact file; a plan writes
  the whole `.wslconfig` from what was collected before the prompt, over what the user wrote since; "Rollback
  removes exactly what was added" (`defender.go:26`) does not hold when the list could not be read or
  has changed; two plans of one second have one id and one backup.
* limit: what the programs use may rise between the check and the write, or could not be read at all.
* proxy: a merge adds a final newline that a revert does not remove, and a revert leaves the empty
  `/etc/environment` it made; below a truncated block everything goes; two scripts share their temporary
  file. "moving from the office to a coffee shop takes effect inside a minute"
  (`resolver_windows.go:46`) is so of what a script answers, and of that `TunnelsAreFaithful` says it; a proxy
  that is named, or none, is for ever the one there was at the start, since nobody calls `Refresh`, although
  "what changes is the answer the proxy gets from Windows" (`docs/proxy.md:154`) and "the answer will start being
  interesting the moment it joins a network that has one" (`proxy_serve_windows.go:127`). A connection that breaks is passed on as a clean end, with bytes missing (`serve.go:441`
  does not look at the error of `io.Copy`). A plain request is sent by the first proxy only; the deadline of
  a tunnel is one of each read and none is set by `proxy serve`. The end of `proxy serve` itself is not
  modelled.

## The guard: `Guard`

A run of `guard run-once` is a sequence of calls of `wsl.exe`, `taskkill` and `sc`, each of which is an
action, since the other task, the user and the machine may come between any two: load the record,
`--status`, `--list`, `/bin/true` with the clock, decide (`Judge`), step the clock, one rung
(`Climb`), the probe again, and at the end the list of what runs and the two halves of writing
it down. `Sleep` is the machine going to sleep and waking up: the service may hang, the sockets
into the VM may be gone, the clock may be out, the record may have become stale, and the triggers
of the tasks fire, except that of a task that is still climbing (`IgnoreNew`).

The machine is modelled from what the code expects of it: a dead VM answers nothing until it is
stopped; a distribution that is not up is started by the probe and may take longer than the
probe waits; `--shutdown` over a dead socket may or may not work; `--force` works while the
service answers; `taskkill` works; `sc start` of a service that is there changes nothing.

| Run | Question | Bounds |
|---|---|---|
| `commands`, guard | with both tasks of `guard install --elevated` and a user who may run one of them dry: is anything shut down without evidence, are rungs skipped or taken while WSL answers, is a hung service got going? | one distribution, one sleep, the whole ladder |

One sleep is enough for a record to be written before it, read after it and be wrong. Fairness is
weak fairness of each task: a run that was started goes on, because each of its calls has a
deadline. Deadlock is not checked: when every task is idle and the machine does not sleep any
more, nothing need happen.

* Seen while modelling, without a run of its own: a distribution that was stopped can be shut down
  after a sleep, although "a distribution that was not running before the machine slept is not
  recovered" (`guard_windows.go:41`). The record says what was up at the end of the last run,
  whose probe has itself started the default distribution; and `WasRunning` is that any
  distribution was up (`run.go:78`), not the one that is probed.
* Seen while modelling: a list of running distributions that timed out is recorded as an empty
  one (`runner_windows.go:85`), after which the next run recovers nothing but the service. A
  distribution that refuses, rather than hangs, is climbed for as well (`guard.go:192`), although
  "only the second one is worth restarting anything for" (`runner_windows.go:23`). The two tasks
  of `--elevated` climb side by side: one may shut down what the other has just got going.

## Observers: `Collect`, `Probes`, `Doctor`, `Top`

`Collect` is the collectors of `doctor`, each of which writes its own fields. They share nothing but the
deadline, so one of them, the slow one, is asked read by read while all the others have
answered; it is given up at its deadline and may go on to write while the checks run. The collector of
the distributions enters each of them. What was never written is `Zero`, and what could not be read
`Absent` or what the code makes of it. `Probes` says of each of the 31 checks what it makes of a
snapshot; a field has the values the checks tell apart. `Doctor` runs a command line: all of
them, some milestones, or those an error code is mapped to and what they need.

`Top` is one sweep after the other: which distributions run, a question to each (the clock, the counters
of the cgroup or a walk over `/proc`, and the VM's), the processes of Windows; then the rates between two
sweeps and which `vmmem` is whose. A distribution or a VM may stop and start between any two reads.

| Run | Question | Bounds |
|---|---|---|
| `commands`, doctor | does a check say more is wrong than is, or that all is well although it is not, other than from facts that were not read and that are listed for it? does `explain` say what `check` says? | two distributions, one of which stops; some forty machines that are out of order in one respect, or in two that a check looks at together; every collector slow, on any of these machines; every fault of it, those of the distributions' collector with one of the two running |
| `commands`, top | is a rate that is shown what the row's programs used, is a `vmmem` that is shown that of the VM? | two sweeps of a busy distribution in one tick, or of a busy container in two; one sweep of three VMs, with a container or two distributions, in three ticks; two units of work, one restart |

`Presumed`, `TakenAtZero` and `Hides` list, check by check, which facts it takes for granted when they are
missing: they are what the code does, and the properties say that there are no others. Where the code
contradicts its documents they are also findings: "Probes should SKIP, not judge" (`env.go:62`), but the
fields of an abandoned collector are `Zero`, and HST002, HST003, DEF001, WSL004, MEM001 and NET004 judge
them; "must never map them to OK or FAIL" (`env.go:15`), but WSL002 and DSK002 (`disk.go:60`) do. `check --only` leaves out
checks that others need; a skipped check does not skip what needs it at second hand; a distribution that
stopped after the list was made is started by the read. For top: the figures of the VM are those of the
last sweep when no distribution answered (`collect.go:68`), and shown as a rate of 0; when the VM booted is
counted back from the end of the sweep (`host.go:104`), which a distribution that hangs delays, and its
`vmmem` is then not claimed. A rate over a walk on `/proc` counts a child that exits twice or not at
all (`raced`). Liveness: none of these waits for more than a deadline, which is not modelled as time.

## What is proved

The theorems below hold for every value of the constants that satisfies the assumption of the
component (`MuxAssumption`, `CopyAssumption`, `DiskAssumption`, `GuardAssumption`, `TopAssumption`,
`DaemonAssumption`, `PresetsAssumption`, `SettingsAssumption`, `AutomountAssumption`, `FixAssumption`,
`LimitAssumption`, `ServeAssumption`): bounds are numbers, sets of sides or tasks are sets of sides or
tasks, and what else it takes for the constants to mean something, such as that the directories of a
world are directories. TLC evaluates each of them in a run. Every inductive invariant was checked by
TLC before it was proved. A proof is laid out as `Init => Inv`, one step per action with one per
conjunct the action can disturb, and a last temporal step.

`MuxProofs`, about `Safety`:

* `Typing`: `TypeOK`. It has one lemma per group of actions; the only part that needs thought
  is that a `Write` never passes its bound, for which the type of `writer` carries
  `sent < MaxData` while a frame is under way.
* `NoPanicWithoutClose`: `PanicNeedsClose`. It is not inductive. `CallsInv` adds why: the ids given
  out and the calls pending belong to their opener; a reply channel is closed only on a side whose
  shutdown has begun; and on a side without `Session.Close` shutdown begins only when the read
  loop has ended, after which it has no frame in hand.
* `AcceptedNeverOutlive`: `AcceptedStreamsFail`. `RegisteredInv` adds that the stream of a request
  that is being accepted, or has been, is in the table, or has failed, or is being closed, so
  that the sweep sees it; and that a `Close` that is done has failed its stream.
* `RequestsWake`: `NoLostWakeup`, for every `MaxPendingOpens`. It is inductive as it stands: a
  non-empty queue of an accept loop that sleeps has a signal pending, or a sender that is about
  to give one.
* `OnlyRefusalsBlock`: `LoopsBlockOnRefusal`, for every size of the connection and the queue.
  `BeatsInv` follows the heartbeats: a PING is on its way to a side, or in its hand, only where its
  peer pings, and so a PONG that a loop is about to write answers one.
* `OpensAreAccepted`: `OpenMeansAccepted`. `OpensInv` follows an id through every place it can be:
  `FramesInv` (an OPEN on the connection or in hand is of a call that has sent it and has made no
  request; an OPEN_OK is of an accepted one), `OnceInv` (there is one OPEN of an id),
  `QueueInv` (the queue holds each request once, and only those that wait), `AnswersInv` (a
  call is answered yes only where the request was accepted). Without `OnceInv` a request could
  be queued again after it was accepted. A step that touches none of this is `Quiet`, which
  leaves six actions to look at.

`StreamProofs`, about `Safety`:

* `SessionsAreBytes`: `StreamsAreBytes`, that a session implements `Bytes`, for any number of streams and
  any size of the buffers and the connection. A direction of a stream is looked at as a pipeline
  (`View`): the frames on the connection and the one in the read loop's hand (`way`), what came, read
  or queued (`line`), and the writer. `Sound` says of a pipeline what it takes: `WayOK` (what is on its way is
  numbered up to the last that was written, and no DATA follows the half-close), `LineOK` (what came has
  no gap), `NextOK` (what comes next follows what came, as long as the reader is in the table of an
  open session, or the read loop has its frame in hand), `WriterOK` (a half-close is sent once), and
  `WholeOK` for the accepting end (what came starts at the first byte, and with the close it is all). The first
  part of the module is about pipelines and knows nothing of sessions: nothing moves, the next frame is taken
  up, it is dropped, it comes, a frame is added. In the second part every step is `Quiet` or
  one of fifteen that each do one of these to one pipeline and leave the others alone. Beside `SoundInv` it takes
  `ReaderInv` (an end has nothing of a stream it never registered, and after its CLOSE nothing is delivered),
  `BufferInv` (a nil is the last that is queued) and `WriterInv` (only who holds a stream writes to
  it), and the invariants of `MuxProofs`. The last part shows, step by step, which step of `Bytes` it is,
  or that it is none.

`CopyProofs`, about `Spec` of `CopyOps`, for any number of versions, registrations and snapshots,
wherever the store is, whatever set of calls fails, and whether or not wslkit can die:

* `Typing`: `TypeOK`. `TargetsOK` adds that a command that writes to the store has a slot, and that
  a rebuild has a GUID left for its import. The undo stack is typed apart from the rest.
* `OnlyCopy`: `ArchiveIsWhole`. `ArchiveInv` adds that a rebuild exports a disk that is whole, has a
  whole archive before it unregisters, and only imports while nothing is registered.
* `WholeSnapshots`: `SnapshotsAreWhole`. `SlotsInv` says what is in the slot a command fills at each
  of its steps; it needs `RunningHolds`, that what runs has its disk open, since that is all that
  keeps the user from writing to a disk while it is copied.
* `NothingLost`: `NothingThrownAway`. `BeforeInv` says where the disk that a command began with is
  at each of its steps, and, for a restore, what is left on its undo stack. `KeptInv` says that what
  was displaced earlier is neither in what the command under way is about to replace nor in the slot
  it fills; `Vacant` is why a slot that is taken for new held nothing. A step then disturbs only
  the places of its own command (`CommandUndisturbed`), and what it displaces when it ends is
  somewhere (`CommandDisplaces`).
* `RebuildBringsItBack`, `RestoreCanBeUndone`, `FailureIsHarmless`: the action properties
  `RebuildIsFaithful`, `RestoreIsUndoable` and `FailureRestores`, about the step with which a command
  ends. `EndsInv` is what the earlier steps have brought about by then: `Unfinished` (the slot a
  command fills cannot be restored yet), `UndoneInv` (what a restore still has to undo is what it
  did) and `KeepsInv` (what is filed goes under the registration; the settings that an import
  forgets are those that were read).

`DiskProofs` and `RollbackProofs`, about `Spec` of `DiskOps`, for any directories, any number of
registrations and any worlds, that is, any commands, volumes and failing calls, with and without
death between two steps:

* `Typing`: `TypeOK`.
* `NoDiskIsLost`: `DiskSurvivesOnVolume`. `TrashMoves`, `MoveKeeps` and `RelinkKeeps` say what
  each command has on its undo stack and where the disk is meanwhile: a trash that does not copy
  has only renames to undo, and the disk is gone from where WSL would delete it before it is
  unregistered, unless a rollback puts it back before WSL is done, which is the exception
  `ruined`; what a move removes, at the target or, after the smoke test, at the source, is one
  of two. Each step then leaves every disk in some place (`Stays`).
* `SettingsComeBack`: `SettingsReturn`. `SettingsInv` adds that a manifest is only ever written of
  a registration that had its settings.
* `TrashIsRecoverable`: `Recoverable`, across volumes too. `RecoverInv` says which place of a
  trash or a move has the disk at each step, and that nobody else's folder is touched.
* `FailureIsUndone`: the action property `FailureRestores`. `BackInv` says, file by file, that
  what has changed since the command began is on the undo stack and that all else is as the
  command found it, but for what a late unregister took, before the rollback or after it, and half a copy that
  could not be removed.
* `RegistrationIsOfItsDisk`: `RegistrationHolds`, from the same invariant.

All but `Typing` and `SettingsComeBack` assume that no world has both trash and relink. That is no
convenience: `trash_relinked` shows that the conclusion is false without it.

`CommandsProofs`, about `Spec` of `Guard`, for any number of tasks, distributions and sleeps:

* `Typing`: `TypeOK`.
* `NeverOnAGuess`: `NoRungOnAGuess`. `GuessInv` follows the evidence through every place where it is
  kept (the record, what a task has read of it, what its probe has found, its ladder), since two
  tasks write the one record over each other.
* `CheapFirst`: the action property `CheapRungsFirst`. `CheapInv` adds that of the rungs of a ladder
  that are permitted, those below one that is left are left too, or were tried.

and about `CommandsSpec`, for any distributions, scenes, clocks and restarts:

* `ReportsAreTrue`: `ReportIsTrue`. `TopInv` is a statement about each row by itself (`RowOK`), at every
  step of its measurement: what was read of its counters is not less than what it had used at the
  question, since it last started (`CountOK`), and not more than what it used after the sweep before
  (`Apart`), so that a restart between any two reads makes the counters go backwards or the rate
  smaller; a clock that was read is that of a VM that had booted by then (`ClockOK`); and while a row is
  under way its VM is the one it was asked in. `SweepOK` adds that a sweep starts after the last one
  ended, without which the guest's clock might stand still between two readings. Half of the
  lemmas are about a row and what may happen to it, the other half say to which rows a step does what.
  That no VM gets another's memory (`HostIsRight`) rests on there being one `vmmem` that was
  created when the VM booted, to within the tolerance, or none being claimed (`ClaimIsRight`).

`ChangesProofs`, about `ChangesSpec`, for any registrations, terminals, seconds, limits, clients and routes:

* `SettingsStay`: `SettingsAreKept`. `SettingsInv`, for the registrations, says of a command under way what
  it has read and what of that is still so unless it is stale: the name it looked up is free
  (`NameIsFree`), the value it will replace is the one it read (`OldIsThere`), and the journal has
  it from there on (`EntryIsThere`). `AutomountInv`, for the settings file: the file is what the commands
  come to, or the history says that two were at it (`FileIsWhole`), what a command has read is what
  the file had (`Knows`), and what is in the table is no distribution's disk or became one there
  (`ListedIsUnvetted`).
* `SafeCeilings`: the action property `CeilingsAreSafe`. `LimitInv` adds that a script that is being
  written is that of limits that passed the check (`CallOK`), and that behind its first line the
  throttle is set, unless somebody else has set another (`ThrottleSet`). That the throttle
  comes first in every script is a lemma about `Writes` (`WritesLines`).
* `TunnelsCarryAll`: the action property `TunnelsAreFaithful`. `ServeInv` has what is in the cache
  (`CacheOK`), which proxies a request has tried (`TriesOK`), what of the answer has been taken for its
  header (`AnswerOK`), and how far each end of a tunnel has been read and told (`TunnelOK`). An end that
  is told that the other has closed has been given all that it sent, unless a connection broke (`ToldAll`,
  `Unbroken`); an answer no older than the TTL is promised where a script gives it.
* `FixesAreUndone`: `FixesCanBeUndone`. `FixInv` says that a plan is in the journal before its first step
  (`JournalOK`), that an id which was given out once is that of one command (`OneEach`), that what a
  command has in hand is what it saw (`JobOK`), and of each change that the backup it needs was
  complete when it was made and that nobody has written it since (`ChangeOK`): a command that changes
  something is past its own copy (`Past`), and no other has that id.

`AgentProofs`, about `AgentSpec`, for any number of VMs, connections, streams, distributions and presets:

* `NoStatusIsLeft`: `StoppedLeavesNoStatus`. `DaemonInv` follows who may still write a status: a stream
  that is relayed has a handler that waits for it (`StreamsAreHeld`), who writes is at a place of its own
  where it does (`WritersRun`), outside `Serve` there is no handler (`HandlersAreServed`), and once the
  daemon is at its end `Serve` itself writes no more (`RemovedLast`). A file is left only where the
  removal failed, or is still to be done by the `agent stop` that killed the daemon. That `Connect` finds a least free
  connection is a fact about the natural numbers, from their well-foundedness (`LeastNat`).
* `WiringIsKept`: `WiringAgrees`. `PresetsInv` says of the command under way which step it is at
  (`CommandsHaveSteps`) and what the steps behind it have brought about: the host is told before the guest
  (`HostIsFirst`), the listener is set or gone before the script is written (`ListenerIsSet`), and the
  script follows the listeners unless it is spoiled or about to be written (`ProfileIsWritten`). What the
  daemon opens covers what guests listen for but for what was enabled since it read `host.json`.

What the proofs changed: stating them for every world showed three properties to say more than is so, in
worlds TLC was not given. A trash copies also where it cannot be told which volume a
folder is on, which is `TrashCopies` and not "no other volume"; settings do not return where WSL finishes an
import late (`SettingsReturn`); a registration is of its disk unless the user registered an
old copy of it (`RegistrationHolds`). The property that the two read loops never block each
other was false with heartbeats and became `LoopsBlockOnRefusal`. And the history in `Automount` of what
is listed was of what the commands come to and not of what the file has, with which `OneWriter` was false
after four commands.

Model-checked only:

* `AgentTypeOK`, `ChangesTypeOK` and `CommandsTypeOK`. The parts of them that the theorems above rest on
  (`DaemonTypeOK`, `PresetsTypeOK` and their like) are in their invariants; the rest would add the ranges of `Relay`, `ProxyFiles` and `Doctor`, whose variables hold
  sequences and functions that grow.
* `ForwardIsFaithful`, `RevertIsExact` and `ExplainAgrees`. What `Relay` forwards is a fold over all that came,
  what `ProxyFiles` merges and takes out is `SelectSeq` of a file, and what `explain` is compared with is a
  fold over the checks. The prover knows of such a definition only what it is for one input; what it is for
  every input is an induction with an operator as a parameter, which it cannot instantiate.
* `VerdictsAreRead`, which is a table of 31 checks against 28 facts of a machine, each of which the run goes through.
* Liveness (`OpenReturns`, `CloseArrives`, `SessionsEnd`, `Recovers`, `NothingWaitsForEver`) and what needs
  `ENABLED`: beyond the prover. `Rebinds` and the other properties of the runs that expect a violation are
  false.

No module here declares a `RECURSIVE` operator.

## Not modelled

* The layout of frames, their size limits and the HELLO exchange (`agent/proto`): `Mux` has frames as
  records, with a malformed OPEN and an unknown type among them.
* Parsing and rendering: targets and configuration files of the agent, sizes, `.wslconfig` text, plans, tables,
  JSON, reports and redaction. Where two values are told apart by a decision, the models have both.
* `vhdx`, `ext4`, `preflight`: functions of a byte sequence, with their own tests, and no order in them.
* Disk inventory (`ls`, `usage`, `orphans`, `owner`, `package`) only reads. `auto` chooses what to compact and then
  compacts; the choice is not modelled. A compaction of a disk without a registration is not either.
* How `proxy` discovers the settings of Windows, and authentication.
* Registering, listing and removing the tasks of `guard`.
* Two daemons started at once, before either has written a status, and more than one `agent stop` at a time; an
  `Accept` that fails on a listener whose VM runs; a user who mends a `host.json` by hand.
* The Windows bindings, the build tools, the spikes, the packaging and the site.
* Use of a distribution during a trash, a move or a rebuild, two disk commands at once, and a purge of a
  folder from which a distribution runs: nothing in the code excludes these, and nothing in the documents
  promises anything about them.

## Plan

1. Frames as operators, `decode` shown to be the inverse of `encode` on small inputs.
2. `RevertIsExact` and `ForwardIsFaithful` for files and streams of any length: with the folds written as
   recursive functions over the natural numbers, which well-foundedness lets one reason about, as
   `AgentProofs` does for the least free connection.
3. What `auto` chooses to compact, and disks without a registration.
