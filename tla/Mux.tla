-------------------------------- MODULE Mux --------------------------------
(***************************************************************************)
(* internal/agent/mux: byte streams multiplexed over one ordered           *)
(* connection.  The two sides of a session, "guest" and "host", run the    *)
(* same code.  On each side there are                                      *)
(*   - the read loop, which takes one frame at a time off the connection   *)
(*     and acts on it;                                                     *)
(*   - one goroutine per Open call;                                        *)
(*   - the accept loop and one goroutine per request it hands out;         *)
(*   - the goroutines that Read, Write, CloseWrite and Close a stream;     *)
(*   - whoever runs shutdown: the read loop on an error, or Close.         *)
(*                                                                         *)
(* A write of a frame is one step, taken under wmu, that waits for room in *)
(* the connection and fails when the connection is down.  Stream ids are   *)
(* never reused within the bound, so an id also names the one Open call    *)
(* and the one request it stands for.                                      *)
(***************************************************************************)
EXTENDS Integers, Sequences

CONSTANTS
    MaxId,            \* bound: ids 1..MaxId are opened, odd by the guest
    MaxData,          \* bound: DATA frames written per stream and direction
    MaxExtras,        \* bound: PING and foreign frames sent by a side
    StreamBuffer,     \* frames buffered per stream (streamBuffer)
    MaxPendingOpens,  \* length of the accept queue (maxPendingOpens)
    WireCap,          \* frames the connection holds in one direction
    Openers,          \* sides whose application calls Open
    Acceptors,        \* sides whose application calls Accept
    Streamers,        \* sides whose application writes and closes streams
    Closers,          \* sides whose application stops: Session.Close, Accept's ctx
    Pingers,          \* sides whose application calls Ping
    Foreign,          \* frame types only a foreign peer would send
    CanCut            \* whether the connection may break by itself

Side == {"guest", "host"}
Id   == 1..MaxId

ASSUME MuxAssumption ==
    /\ MaxId \in Nat /\ MaxData \in Nat /\ MaxExtras \in Nat
    /\ StreamBuffer \in Nat \ {0}
    /\ MaxPendingOpens \in Nat \ {0}
    /\ WireCap \in Nat \ {0}
    /\ Openers \subseteq Side /\ Acceptors \subseteq Side
    /\ Streamers \subseteq Side
    /\ Closers \subseteq Side /\ Pingers \subseteq Side
    /\ Foreign \subseteq {"BADOPEN", "UNKNOWN"}
    /\ CanCut \in BOOLEAN

Peer(s) == IF s = "guest" THEN "host" ELSE "guest"

\* Stream ids are chosen by the opener: the guest uses odd ids, the host even.
Opener(i)   == IF i % 2 = 1 THEN "guest" ELSE "host"
Acceptor(i) == Peer(Opener(i))

\* CLOSE with FlagCloseWrite is the type CLOSEW.  BADOPEN is an OPEN that
\* DecodeOpen refuses, UNKNOWN a type the read loop does not know.
StreamType  == {"OPEN", "OPEN_OK", "DATA", "CLOSE", "CLOSEW"}
ControlType == {"OPEN_ERR", "PING", "PONG", "BADOPEN", "UNKNOWN", "NONE"}

\* The payload of a DATA frame is its number on its stream; 0 is no payload,
\* which is also what peerEOF delivers.  Frames of no stream have the id 0.
Frame == [type : StreamType, id : Id, n : 0..MaxData]
         \cup [type : ControlType, id : {0} \cup Id, n : {0}]

Msg(t, i) == [type |-> t, id |-> i, n |-> 0]
NoFrame   == Msg("NONE", 0)

VARIABLES
    wire,      \* wire[s]: the frames on their way to s
    cut,       \* the connection broke
    shut,      \* shut[s]: how far shutdown went; the conn is open while "open"
    panicked,  \* sides whose process died of a Go panic
    nextID, pending, reply, opener,       \* Open
    queue, signal, acc, request,          \* Accept
    loop, hand,                           \* the read loop and its frame
    streams,                              \* streams[s]: the ids registered
    inbuf, eof, closed, wclosed,          \* Stream: in, eof, closed, wclosed
    writer, closer,                       \* Write or CloseWrite, and Close, under way
    sent, fin, got,                       \* history: written, written at close, read
    extras                                \* PING and foreign frames sent

connVars   == <<wire, cut, shut, panicked>>
openVars   == <<nextID, pending, reply, opener>>
acceptVars == <<queue, signal, acc, request>>
loopVars   == <<loop, hand>>
endVars    == <<inbuf, eof, closed, wclosed, writer, closer, sent, fin, got>>
vars == <<connVars, openVars, acceptVars, loopVars, streams, endVars, extras>>

PerEnd(v) == [s \in Side |-> [i \in Id |-> v]]

Init ==
    /\ wire = [s \in Side |-> <<>>] /\ cut = FALSE
    /\ shut = [s \in Side |-> "open"] /\ panicked = {}
    /\ nextID = [s \in Side |-> IF s = "guest" THEN 1 ELSE 2]
    /\ pending = [s \in Side |-> {}]
    /\ reply = [i \in Id |-> "none"] /\ opener = [i \in Id |-> "none"]
    /\ queue = [s \in Side |-> <<>>] /\ signal = [s \in Side |-> FALSE]
    /\ acc = [s \in Side |-> "dequeue"] /\ request = [i \in Id |-> "none"]
    /\ loop = [s \in Side |-> "read"] /\ hand = [s \in Side |-> NoFrame]
    /\ streams = [s \in Side |-> {}]
    /\ inbuf = PerEnd(<<>>) /\ eof = PerEnd(FALSE)
    /\ closed = PerEnd("no") /\ wclosed = PerEnd(FALSE)
    /\ writer = PerEnd("idle") /\ closer = PerEnd("no")
    /\ sent = PerEnd(0) /\ fin = PerEnd(-1) /\ got = PerEnd(<<>>)
    /\ extras = [s \in Side |-> 0]

-----------------------------------------------------------------------------
(* The connection. *)

Down(s) ==
    cut \/ shut[s] # "open" \/ shut[Peer(s)] # "open" \/ Peer(s) \in panicked

Send(s, f) ==
    /\ shut[s] = "open" /\ ~cut
    /\ Len(wire[Peer(s)]) < WireCap
    /\ wire' = [wire EXCEPT ![Peer(s)] = Append(@, f)]

SendFails(s) == Down(s) /\ UNCHANGED wire

Attempt(s, f) == Send(s, f) \/ SendFails(s)

\* fin remembers how much had been written when the first close frame went.
SendFinal(s, i, type) ==
    \/ /\ Send(s, Msg(type, i))
       /\ fin' = [fin EXCEPT ![s][i] = IF @ = -1 THEN sent[s][i] ELSE @]
    \/ SendFails(s) /\ UNCHANGED fin

\* The virtual machine stops, or the transport resets.
Cut ==
    /\ CanCut /\ ~cut
    /\ cut' = TRUE
    /\ UNCHANGED <<wire, shut, panicked, openVars, acceptVars, loopVars,
                   streams, endVars, extras>>

-----------------------------------------------------------------------------
(* shutdown: the connection is closed first, then under smu every registered *)
(* stream fails and every reply channel is closed, then done is closed.      *)

BeginShutdown(s) ==
    shut' = [shut EXCEPT ![s] = IF @ = "open" THEN "closing" ELSE @]

SessionClose(s) ==
    /\ s \in Closers /\ shut[s] = "open"
    /\ BeginShutdown(s)
    /\ UNCHANGED <<wire, cut, panicked, openVars, acceptVars, loopVars,
                   streams, endVars, extras>>

\* fail: the first error sticks.
Fail(s, ids, err) ==
    closed' = [closed EXCEPT ![s] =
        [i \in Id |-> IF i \in ids /\ @[i] = "no" THEN err ELSE @[i]]]

ShutdownSweep(s) ==
    /\ shut[s] = "closing"
    /\ Fail(s, streams[s], "session")
    /\ reply' = [i \in Id |-> IF i \in pending[s] THEN "closed" ELSE reply[i]]
    /\ shut' = [shut EXCEPT ![s] = "swept"]
    /\ UNCHANGED <<wire, cut, panicked, nextID, pending, opener, acceptVars,
                   loopVars, streams, inbuf, eof, wclosed, writer, closer,
                   sent, fin, got, extras>>

ShutdownDone(s) ==
    /\ shut[s] = "swept"
    /\ shut' = [shut EXCEPT ![s] = "done"]
    /\ UNCHANGED <<wire, cut, panicked, openVars, acceptVars, loopVars,
                   streams, endVars, extras>>

-----------------------------------------------------------------------------
(* Open. *)

NewStream(s, i) == streams' = [streams EXCEPT ![s] = @ \cup {i}]
RemoveStream(s, i) == streams' = [streams EXCEPT ![s] = @ \ {i}]
DropPending(s, i) == pending' = [pending EXCEPT ![s] = @ \ {i}]

OpenBegin(s) ==
    /\ s \in Openers /\ nextID[s] \in Id
    /\ shut[s] # "done"
    /\ nextID' = [nextID EXCEPT ![s] = @ + 2]
    /\ pending' = [pending EXCEPT ![s] = @ \cup {nextID[s]}]
    /\ opener' = [opener EXCEPT ![nextID[s]] = "sending"]
    /\ UNCHANGED <<connVars, reply, acceptVars, loopVars, streams, endVars,
                   extras>>

OpenSend(i) ==
    LET s == Opener(i) IN
    /\ opener[i] = "sending"
    /\ \/ /\ Send(s, Msg("OPEN", i))
          /\ opener' = [opener EXCEPT ![i] = "waiting"]
          /\ UNCHANGED pending
       \/ /\ SendFails(s)
          /\ opener' = [opener EXCEPT ![i] = "failed"]
          /\ DropPending(s, i)
    /\ UNCHANGED <<cut, shut, panicked, nextID, reply, acceptVars, loopVars,
                   streams, endVars, extras>>

\* Mutant: any reply registers the stream, OPEN_ERR too.
OpenReplyUnread(i) ==
    /\ opener[i] = "waiting" /\ reply[i] \in {"ok", "err"}
    /\ opener' = [opener EXCEPT ![i] = "open"]
    /\ NewStream(Opener(i), i)
    /\ UNCHANGED <<connVars, nextID, pending, reply, acceptVars, loopVars,
                   endVars, extras>>

\* The reply is received and, when it is OPEN_OK, the stream is registered.
OpenReply(i) ==
    /\ opener[i] = "waiting" /\ reply[i] # "none"
    /\ IF reply[i] = "ok"
       THEN /\ opener' = [opener EXCEPT ![i] = "open"]
            /\ NewStream(Opener(i), i)
       ELSE /\ opener' = [opener EXCEPT ![i] = "failed"]
            /\ UNCHANGED streams
    /\ UNCHANGED <<connVars, nextID, pending, reply, acceptVars, loopVars,
                   endVars, extras>>

OpenDone(i) ==
    /\ opener[i] = "waiting" /\ shut[Opener(i)] = "done"
    /\ opener' = [opener EXCEPT ![i] = "failed"]
    /\ UNCHANGED <<connVars, nextID, pending, reply, acceptVars, loopVars,
                   streams, endVars, extras>>

\* Mutant: the abandoned call closes its channel and stays pending.
OpenCancelCloses(i) ==
    /\ opener[i] = "waiting"
    /\ opener' = [opener EXCEPT ![i] = "cancelling"]
    /\ reply' = [reply EXCEPT ![i] = "closed"]
    /\ UNCHANGED <<connVars, nextID, pending, acceptVars, loopVars, streams,
                   endVars, extras>>

\* ctx ends before the reply: forget the call, then tell the peer.
OpenCancel(i) ==
    /\ opener[i] = "waiting"
    /\ opener' = [opener EXCEPT ![i] = "cancelling"]
    /\ DropPending(Opener(i), i)
    /\ UNCHANGED <<connVars, nextID, reply, acceptVars, loopVars, streams,
                   endVars, extras>>

OpenCancelSend(i) ==
    /\ opener[i] = "cancelling"
    /\ SendFinal(Opener(i), i, "CLOSE")
    /\ opener' = [opener EXCEPT ![i] = "cancelled"]
    /\ UNCHANGED <<cut, shut, panicked, nextID, pending, reply, acceptVars,
                   loopVars, streams, inbuf, eof, closed, wclosed, writer,
                   closer, sent, got, extras>>

-----------------------------------------------------------------------------
(* Accept, and the answer to a request.  The accept loop takes requests off  *)
(* the queue and hands each to a goroutine that accepts or rejects it.       *)

Dequeue(s) ==
    /\ queue[s] # <<>>
    /\ request' = [request EXCEPT ![Head(queue[s])] = "taken"]
    /\ queue' = [queue EXCEPT ![s] = Tail(@)]

AcceptDequeue(s) ==
    /\ s \in Acceptors /\ acc[s] = "dequeue"
    /\ Dequeue(s)
    /\ signal' = [signal EXCEPT ![s] = @ \/ Len(queue[s]) > 1]
    /\ UNCHANGED <<connVars, openVars, acc, loopVars, streams, endVars, extras>>

AcceptSleep(s) ==
    /\ s \in Acceptors /\ acc[s] = "dequeue"
    /\ queue[s] = <<>>
    /\ acc' = [acc EXCEPT ![s] = "select"]
    /\ UNCHANGED <<connVars, openVars, queue, signal, request, loopVars,
                   streams, endVars, extras>>

AcceptWake(s) ==
    /\ acc[s] = "select" /\ signal[s]
    /\ signal' = [signal EXCEPT ![s] = FALSE]
    /\ acc' = [acc EXCEPT ![s] = "dequeue"]
    /\ UNCHANGED <<connVars, openVars, queue, request, loopVars, streams,
                   endVars, extras>>

\* The session ended: what was queued is still handed out, one per call.
AcceptDone(s) ==
    /\ acc[s] = "select" /\ shut[s] = "done"
    /\ \/ /\ Dequeue(s)
          /\ signal' = [signal EXCEPT ![s] = @ \/ Len(queue[s]) > 1]
          /\ acc' = [acc EXCEPT ![s] = "dequeue"]
       \/ /\ queue[s] = <<>>
          /\ acc' = [acc EXCEPT ![s] = "ended"]
          /\ UNCHANGED <<queue, signal, request>>
    /\ UNCHANGED <<connVars, openVars, loopVars, streams, endVars, extras>>

\* The context of Accept ends.
AcceptCancel(s) ==
    /\ s \in Closers /\ acc[s] = "select"
    /\ acc' = [acc EXCEPT ![s] = "ended"]
    /\ UNCHANGED <<connVars, openVars, queue, signal, request, loopVars,
                   streams, endVars, extras>>

\* OpenRequest.Accept registers the stream before it writes OPEN_OK.
RequestAccept(i) ==
    /\ request[i] = "taken"
    /\ request' = [request EXCEPT ![i] = "accepting"]
    /\ NewStream(Acceptor(i), i)
    /\ UNCHANGED <<connVars, openVars, queue, signal, acc, loopVars, endVars,
                   extras>>

RequestAcceptSend(i) ==
    LET s == Acceptor(i) IN
    /\ request[i] = "accepting"
    /\ \/ /\ Send(s, Msg("OPEN_OK", i))
          /\ request' = [request EXCEPT ![i] = "accepted"]
          /\ UNCHANGED streams
       \/ /\ SendFails(s)
          /\ request' = [request EXCEPT ![i] = "failed"]
          /\ RemoveStream(s, i)
    /\ UNCHANGED <<cut, shut, panicked, openVars, queue, signal, acc, loopVars,
                   endVars, extras>>

RequestReject(i) ==
    /\ request[i] = "taken"
    /\ Attempt(Acceptor(i), Msg("OPEN_ERR", i))
    /\ request' = [request EXCEPT ![i] = "rejected"]
    /\ UNCHANGED <<cut, shut, panicked, openVars, queue, signal, acc, loopVars,
                   streams, endVars, extras>>

-----------------------------------------------------------------------------
(* The read loop: one frame is taken in hand, then acted on.                 *)

Loop(s, at, f) ==
    /\ loop' = [loop EXCEPT ![s] = at]
    /\ hand' = [hand EXCEPT ![s] = f]

LoopNext(s) == Loop(s, "read", NoFrame)

Holds(s, types) == loop[s] = "handle" /\ hand[s].type \in types

ReadFrame(s) ==
    /\ loop[s] = "read" /\ shut[s] = "open" /\ wire[s] # <<>>
    /\ Loop(s, "handle", Head(wire[s]))
    /\ wire' = [wire EXCEPT ![s] = Tail(@)]
    /\ UNCHANGED <<cut, shut, panicked, openVars, acceptVars, streams, endVars,
                   extras>>

\* Mutant: the read loop leaves without shutting the session down.
LoopLeaves(s) ==
    /\ \/ loop[s] = "read" /\ Down(s)
       \/ Holds(s, {"UNKNOWN"})
    /\ Loop(s, "ended", NoFrame)
    /\ UNCHANGED <<connVars, openVars, acceptVars, streams, endVars, extras>>

\* ReadFrame fails, or the frame is of an unknown type.
LoopEnds(s) ==
    /\ \/ loop[s] = "read" /\ Down(s)
       \/ Holds(s, {"UNKNOWN"})
    /\ Loop(s, "ended", NoFrame)
    /\ BeginShutdown(s)
    /\ UNCHANGED <<wire, cut, panicked, openVars, acceptVars, streams, endVars,
                   extras>>

Enqueue(s, i) ==
    /\ Len(queue[s]) < MaxPendingOpens
    /\ queue' = [queue EXCEPT ![s] = Append(@, i)]
    /\ request' = [request EXCEPT ![i] = "queued"]

HandleOpen(s) ==
    /\ Holds(s, {"OPEN"})
    /\ \/ /\ Enqueue(s, hand[s].id)
          /\ Loop(s, "signal", NoFrame)
       \/ /\ Len(queue[s]) >= MaxPendingOpens
          /\ Loop(s, "send", Msg("OPEN_ERR", hand[s].id))
          /\ UNCHANGED <<queue, request>>
    /\ UNCHANGED <<connVars, openVars, signal, acc, streams, endVars, extras>>

HandleBadOpen(s) ==
    /\ Holds(s, {"BADOPEN"})
    /\ Loop(s, "send", Msg("OPEN_ERR", hand[s].id))
    /\ UNCHANGED <<connVars, openVars, acceptVars, streams, endVars, extras>>

\* Mutant: the request is queued and nobody is told.
EnqueueSilent(s) ==
    /\ loop[s] = "signal"
    /\ LoopNext(s)
    /\ UNCHANGED <<connVars, openVars, acceptVars, streams, endVars, extras>>

EnqueueSignal(s) ==
    /\ loop[s] = "signal"
    /\ signal' = [signal EXCEPT ![s] = TRUE]
    /\ LoopNext(s)
    /\ UNCHANGED <<connVars, openVars, queue, acc, request, streams, endVars,
                   extras>>

\* A reply goes to the Open that waits for it, if one still does.  Sending on
\* a channel that shutdown has closed is a panic.
HandleReply(s) ==
    /\ Holds(s, {"OPEN_OK", "OPEN_ERR"})
    /\ LET i == hand[s].id
           r == IF hand[s].type = "OPEN_OK" THEN "ok" ELSE "err"
       IN  /\ DropPending(s, i)
           /\ \/ i \notin pending[s] /\ UNCHANGED <<reply, panicked>>
              \/ /\ i \in pending[s] /\ reply[i] # "closed"
                 /\ reply' = [reply EXCEPT ![i] = r]
                 /\ UNCHANGED panicked
              \/ /\ i \in pending[s] /\ reply[i] = "closed"
                 /\ panicked' = panicked \cup {s}
                 /\ UNCHANGED reply
    /\ LoopNext(s)
    /\ UNCHANGED <<wire, cut, shut, nextID, opener, acceptVars, streams,
                   endVars, extras>>

\* DATA and half-close: the stream is looked up now and delivered to after.
HandleData(s) ==
    /\ Holds(s, {"DATA", "CLOSEW"})
    /\ IF hand[s].id \in streams[s]
       THEN Loop(s, "deliver", hand[s])
       ELSE LoopNext(s)
    /\ UNCHANGED <<connVars, openVars, acceptVars, streams, endVars, extras>>

\* Mutant: deliver never waits, a full buffer drops the frame.
DeliverOrDrop(s) ==
    LET i == hand[s].id IN
    /\ loop[s] = "deliver"
    /\ inbuf' = [inbuf EXCEPT ![s][i] =
           IF Len(@) < StreamBuffer THEN Append(@, hand[s].n) ELSE @]
    /\ LoopNext(s)
    /\ UNCHANGED <<connVars, openVars, acceptVars, streams, eof, closed,
                   wclosed, writer, closer, sent, fin, got, extras>>

\* deliver selects between room in the buffer and the stream being closed.
Deliver(s) ==
    LET i == hand[s].id IN
    /\ loop[s] = "deliver"
    /\ \/ /\ Len(inbuf[s][i]) < StreamBuffer
          /\ inbuf' = [inbuf EXCEPT ![s][i] = Append(@, hand[s].n)]
       \/ /\ closed[s][i] # "no"
          /\ UNCHANGED inbuf
    /\ LoopNext(s)
    /\ UNCHANGED <<connVars, openVars, acceptVars, streams, eof, closed,
                   wclosed, writer, closer, sent, fin, got, extras>>

\* Mutant: CLOSE forgets the stream without failing it.
HandleCloseForgets(s) ==
    /\ Holds(s, {"CLOSE"})
    /\ RemoveStream(s, hand[s].id)
    /\ LoopNext(s)
    /\ UNCHANGED <<connVars, openVars, acceptVars, endVars, extras>>

HandleClose(s) ==
    /\ Holds(s, {"CLOSE"})
    /\ IF hand[s].id \in streams[s]
       THEN /\ Fail(s, {hand[s].id}, "eof")
            /\ RemoveStream(s, hand[s].id)
       ELSE UNCHANGED <<closed, streams>>
    /\ LoopNext(s)
    /\ UNCHANGED <<connVars, openVars, acceptVars, inbuf, eof, wclosed, writer,
                   closer, sent, fin, got, extras>>

HandlePing(s) ==
    /\ Holds(s, {"PING"})
    /\ Loop(s, "send", Msg("PONG", 0))
    /\ UNCHANGED <<connVars, openVars, acceptVars, streams, endVars, extras>>

\* Mutant: a PONG is answered, too.
HandlePongPings(s) ==
    /\ Holds(s, {"PONG"})
    /\ Loop(s, "send", Msg("PING", 0))
    /\ UNCHANGED <<connVars, openVars, acceptVars, streams, endVars, extras>>

HandlePong(s) ==
    /\ Holds(s, {"PONG"})
    /\ LoopNext(s)
    /\ UNCHANGED <<connVars, openVars, acceptVars, streams, endVars, extras>>

\* The read loop itself writes PONG and OPEN_ERR; an error is ignored.
LoopSend(s) ==
    /\ loop[s] = "send"
    /\ Attempt(s, hand[s])
    /\ LoopNext(s)
    /\ UNCHANGED <<cut, shut, panicked, openVars, acceptVars, streams, endVars,
                   extras>>

-----------------------------------------------------------------------------
(* The application's use of a stream it holds.                               *)

HasStream(s, i) ==
    \/ s = Opener(i) /\ opener[i] = "open"
    \/ s = Acceptor(i) /\ request[i] = "accepted"

\* Mutant: Read reports that the stream failed before it drains the buffer.
ReadUndrained(s, i) ==
    /\ HasStream(s, i) /\ ~eof[s][i] /\ inbuf[s][i] # <<>>
    /\ IF closed[s][i] # "no"
       THEN inbuf' = [inbuf EXCEPT ![s][i] = <<>>] /\ UNCHANGED <<eof, got>>
       ELSE /\ inbuf' = [inbuf EXCEPT ![s][i] = Tail(@)]
            /\ IF Head(inbuf[s][i]) = 0
               THEN eof' = [eof EXCEPT ![s][i] = TRUE] /\ UNCHANGED got
               ELSE /\ got' = [got EXCEPT ![s][i] = Append(@, Head(inbuf[s][i]))]
                    /\ UNCHANGED eof
    /\ UNCHANGED <<connVars, openVars, acceptVars, loopVars, streams, closed,
                   wclosed, writer, closer, sent, fin, extras>>

\* Read takes what is queued even after the stream failed, then reports why.
Read(s, i) ==
    /\ HasStream(s, i) /\ ~eof[s][i] /\ inbuf[s][i] # <<>>
    /\ inbuf' = [inbuf EXCEPT ![s][i] = Tail(@)]
    /\ IF Head(inbuf[s][i]) = 0
       THEN eof' = [eof EXCEPT ![s][i] = TRUE] /\ UNCHANGED got
       ELSE /\ got' = [got EXCEPT ![s][i] = Append(@, Head(inbuf[s][i]))]
            /\ UNCHANGED eof
    /\ UNCHANGED <<connVars, openVars, acceptVars, loopVars, streams, closed,
                   wclosed, writer, closer, sent, fin, extras>>

\* Write and CloseWrite hold the stream's wmu from their checks to the end; a
\* Write of more than MaxPayload goes on to its next DATA frame unchecked.
WriteBegin(s, i) ==
    /\ HasStream(s, i) /\ writer[s][i] = "idle"
    /\ ~wclosed[s][i] /\ closed[s][i] = "no"
    /\ sent[s][i] < MaxData
    /\ writer' = [writer EXCEPT ![s][i] = "data"]
    /\ UNCHANGED <<connVars, openVars, acceptVars, loopVars, streams, inbuf,
                   eof, closed, wclosed, closer, sent, fin, got, extras>>

\* Mutant: Write goes on after its last frame.
WriteOneMore(s, i) ==
    /\ writer[s][i] = "data"
    /\ \/ /\ Send(s, [type |-> "DATA", id |-> i, n |-> sent[s][i] + 1])
          /\ sent' = [sent EXCEPT ![s][i] = @ + 1]
          /\ writer' = [writer EXCEPT ![s][i] =
                 IF sent[s][i] + 1 <= MaxData THEN "data" ELSE "idle"]
       \/ /\ SendFails(s)
          /\ writer' = [writer EXCEPT ![s][i] = "idle"]
          /\ UNCHANGED sent
    /\ UNCHANGED <<cut, shut, panicked, openVars, acceptVars, loopVars, streams,
                   inbuf, eof, closed, wclosed, closer, fin, got, extras>>

WriteSend(s, i) ==
    /\ writer[s][i] = "data"
    /\ \/ /\ Send(s, [type |-> "DATA", id |-> i, n |-> sent[s][i] + 1])
          /\ sent' = [sent EXCEPT ![s][i] = @ + 1]
          /\ \/ writer' = [writer EXCEPT ![s][i] = "idle"]
             \/ sent[s][i] + 1 < MaxData /\ UNCHANGED writer
       \/ /\ SendFails(s)
          /\ writer' = [writer EXCEPT ![s][i] = "idle"]
          /\ UNCHANGED sent
    /\ UNCHANGED <<cut, shut, panicked, openVars, acceptVars, loopVars, streams,
                   inbuf, eof, closed, wclosed, closer, fin, got, extras>>

CloseWriteBegin(s, i) ==
    /\ HasStream(s, i) /\ writer[s][i] = "idle" /\ ~wclosed[s][i]
    /\ wclosed' = [wclosed EXCEPT ![s][i] = TRUE]
    /\ writer' = [writer EXCEPT ![s][i] = "closew"]
    /\ UNCHANGED <<connVars, openVars, acceptVars, loopVars, streams, inbuf,
                   eof, closed, closer, sent, fin, got, extras>>

CloseWriteSend(s, i) ==
    /\ writer[s][i] = "closew"
    /\ SendFinal(s, i, "CLOSEW")
    /\ writer' = [writer EXCEPT ![s][i] = "idle"]
    /\ UNCHANGED <<cut, shut, panicked, openVars, acceptVars, loopVars, streams,
                   inbuf, eof, closed, wclosed, closer, sent, got, extras>>

\* Close does not wait for wmu: a Write under way may send after the CLOSE.
CloseBegin(s, i) ==
    /\ HasStream(s, i) /\ closer[s][i] = "no"
    /\ RemoveStream(s, i)
    /\ closer' = [closer EXCEPT ![s][i] = "sending"]
    /\ UNCHANGED <<connVars, openVars, acceptVars, loopVars, inbuf, eof, closed,
                   wclosed, writer, sent, fin, got, extras>>

CloseSend(s, i) ==
    /\ closer[s][i] = "sending"
    /\ SendFinal(s, i, "CLOSE")
    /\ Fail(s, {i}, "local")
    /\ closer' = [closer EXCEPT ![s][i] = "done"]
    /\ UNCHANGED <<cut, shut, panicked, openVars, acceptVars, loopVars, streams,
                   inbuf, eof, wclosed, writer, sent, got, extras>>

\* Ping, and the frames of a peer that speaks another revision.
SendExtra(s) ==
    /\ extras[s] < MaxExtras
    /\ \E t \in Foreign \cup (IF s \in Pingers THEN {"PING"} ELSE {}) :
           Send(s, Msg(t, 0))
    /\ extras' = [extras EXCEPT ![s] = @ + 1]
    /\ UNCHANGED <<cut, shut, panicked, openVars, acceptVars, loopVars, streams,
                   endVars>>

-----------------------------------------------------------------------------
Shutdown(s) == ShutdownSweep(s) \/ ShutdownDone(s)

AcceptLoop(s) ==
    AcceptDequeue(s) \/ AcceptSleep(s) \/ AcceptWake(s) \/ AcceptDone(s)

ReadLoop(s) ==
    \/ ReadFrame(s) \/ LoopEnds(s) \/ LoopSend(s) \/ Deliver(s)
    \/ HandleOpen(s) \/ HandleBadOpen(s) \/ EnqueueSignal(s) \/ HandleReply(s)
    \/ HandleData(s) \/ HandleClose(s) \/ HandlePing(s) \/ HandlePong(s)

Open(i) ==
    OpenSend(i) \/ OpenReply(i) \/ OpenDone(i) \/ OpenCancelSend(i)

\* Mutant: OPEN_OK goes out before the stream is registered.
AnswerFirst(i) ==
    /\ \/ /\ request[i] = "taken"
          /\ Send(Acceptor(i), Msg("OPEN_OK", i))
          /\ request' = [request EXCEPT ![i] = "accepting"]
          /\ UNCHANGED streams
       \/ /\ request[i] = "accepting"
          /\ NewStream(Acceptor(i), i)
          /\ request' = [request EXCEPT ![i] = "accepted"]
          /\ UNCHANGED wire
    /\ UNCHANGED <<cut, shut, panicked, openVars, queue, signal, acc, loopVars,
                   endVars, extras>>

Answer(i) == RequestAccept(i) \/ RequestAcceptSend(i) \/ RequestReject(i)

\* Frame writes under way on a stream.
Finish(s, i) == WriteSend(s, i) \/ CloseWriteSend(s, i) \/ CloseSend(s, i)

Start(s, i) ==
    /\ s \in Streamers
    /\ WriteBegin(s, i) \/ CloseWriteBegin(s, i) \/ CloseBegin(s, i)

\* What goroutines do by themselves.
Serve(s) ==
    \/ AcceptLoop(s)
    \/ \E i \in Id :
        \/ Opener(i) = s /\ Open(i)
        \/ Acceptor(i) = s /\ Answer(i)
        \/ Read(s, i)

FinishAny(s) == \E i \in Id : Finish(s, i)

\* What the process of side s does; after a panic it does nothing more.
Step(s) ==
    \/ Shutdown(s) \/ ReadLoop(s) \/ Serve(s) \/ FinishAny(s)
    \/ SessionClose(s) \/ AcceptCancel(s) \/ OpenBegin(s) \/ SendExtra(s)
    \/ \E i \in Id : (Opener(i) = s /\ OpenCancel(i)) \/ Start(s, i)

Next == Cut \/ \E s \in Side \ panicked : Step(s)

\* Goroutines that can run do: the loops, shutdown, the calls under way, the
\* answers to requests, and applications keep reading.  Nothing obliges anyone
\* to open, write, close, cancel or ping.  The calls of one kind share a
\* conjunct: within the bounds none of them can take the turn for ever, except
\* writes that fail and are tried again, which have their own.
Fairness ==
    \A s \in Side :
        /\ WF_vars(s \notin panicked /\ Shutdown(s))
        /\ WF_vars(s \notin panicked /\ ReadLoop(s))
        /\ WF_vars(s \notin panicked /\ Serve(s))
        /\ WF_vars(s \notin panicked /\ FinishAny(s))

Safety == Init /\ [][Next]_vars
Spec == Safety /\ Fairness

-----------------------------------------------------------------------------
(* Properties. *)

\* Every variable keeps its type.
ConnOK ==
    /\ wire \in [Side -> Seq(Frame)] /\ cut \in BOOLEAN
    /\ shut \in [Side -> {"open", "closing", "swept", "done"}]
    /\ panicked \in SUBSET Side
OpenOK ==
    /\ nextID \in [Side -> Nat]
    /\ pending \in [Side -> SUBSET Id]
    /\ reply \in [Id -> {"none", "ok", "err", "closed"}]
    /\ opener \in [Id -> {"none", "sending", "waiting", "open", "failed",
                          "cancelling", "cancelled"}]
AcceptOK ==
    /\ queue \in [Side -> Seq(Id)] /\ signal \in [Side -> BOOLEAN]
    /\ acc \in [Side -> {"dequeue", "select", "ended"}]
    /\ request \in [Id -> {"none", "queued", "taken", "accepting", "accepted",
                           "rejected", "failed"}]
LoopOK ==
    /\ loop \in [Side -> {"read", "handle", "signal", "deliver", "send",
                          "ended"}]
    /\ hand \in [Side -> Frame]
EndOK ==
    /\ inbuf \in [Side -> [Id -> Seq(0..MaxData)]]
    /\ eof \in [Side -> [Id -> BOOLEAN]]
    /\ closed \in [Side -> [Id -> {"no", "eof", "local", "session"}]]
    /\ wclosed \in [Side -> [Id -> BOOLEAN]]
    /\ writer \in [Side -> [Id -> {"idle", "data", "closew"}]]
    /\ closer \in [Side -> [Id -> {"no", "sending", "done"}]]
    /\ sent \in [Side -> [Id -> 0..MaxData]]
    /\ fin \in [Side -> [Id -> (-1)..MaxData]]
    /\ got \in [Side -> [Id -> Seq(0..MaxData)]]
    /\ \A s \in Side, i \in Id : writer[s][i] = "data" => sent[s][i] < MaxData
TypeOK ==
    /\ ConnOK /\ OpenOK /\ AcceptOK /\ LoopOK /\ EndOK
    /\ streams \in [Side -> SUBSET Id]
    /\ extras \in [Side -> 0..MaxExtras]

\* A reply reaches a channel that shutdown has closed only where the
\* application called Session.Close: the read loop's own shutdown cannot race
\* itself (readLoop, shutdown).
PanicNeedsClose == panicked \subseteq Closers

\* Once a session has ended, every stream its accept side handed out has
\* failed, whatever the order of Accept, CLOSE frames and shutdown: no reader
\* is left waiting on it (Accept, shutdown).
AcceptedStreamsFail ==
    \A i \in Id :
        LET s == Acceptor(i) IN
        shut[s] \in {"swept", "done"} /\ request[i] = "accepted"
            => closed[s][i] # "no" \/ closer[s][i] = "sending"

\* An accept loop never sleeps on a request: while it waits with a request in
\* the queue, a wake-up is pending or the read loop is about to give one
\* (enqueue, dequeue, Accept).
NoLostWakeup ==
    \A s \in Side :
        acc[s] = "select" /\ queue[s] # <<>> => signal[s] \/ loop[s] = "signal"

\* An open is only ever answered by the request it made: an Open that returns
\* a stream has a peer that accepted exactly that id, and nobody holds a
\* stream nobody asked for (Open, OpenRequest.Accept, the id parity).
OpenMeansAccepted ==
    \A i \in Id :
        /\ opener[i] = "open" => request[i] = "accepted"
        /\ request[i] # "none" => opener[i] \notin {"none", "sending"}

\* "The read loop must never block on application progress, or two peers opening
\* streams at the same time deadlock each other" (mux.go:39-41): heartbeats of one
\* side never do it.  Where both loops are blocked writing frames of their own,
\* each while the connection towards the other is full, one of them is refusing
\* an open, which nothing prevents.
LoopBlocked(s) ==
    loop[s] = "send" /\ ~Down(s) /\ Len(wire[Peer(s)]) >= WireCap
LoopsBlockOnRefusal ==
    (\A s \in Side : LoopBlocked(s)) =>
        Pingers = Side \/ \E s \in Side : hand[s].type = "OPEN_ERR"

\* Every Open of a peer that accepts returns, with a stream or an error, though
\* nobody cancels it, whatever the other streams do, and even where the
\* opener's own application never accepts anything (Open, enqueue, readLoop).
OpenReturns ==
    \A i \in Id : Acceptor(i) \in Acceptors =>
        opener[i] \in {"sending", "waiting", "cancelling"} ~>
            \/ opener[i] \in {"open", "failed", "cancelled"}
            \/ Opener(i) \in panicked

\* A close frame the opening end wrote reaches the accepting end: its reader
\* comes to the end of the stream (CloseWrite, Close, readLoop, Read).
CloseArrives ==
    \A i \in Id : Acceptor(i) \in Acceptors =>
        opener[i] = "open" /\ fin[Opener(i)][i] # -1 ~>
            \/ eof[Acceptor(i)][i] \/ closed[Acceptor(i)][i] # "no"
            \/ Down(Opener(i)) \/ panicked # {}

\* When the connection goes, both sessions end and say so (readLoop, shutdown).
SessionsEnd ==
    (\E s \in Side : Down(s)) ~> \A s \in Side : shut[s] = "done" \/ s \in panicked

\* "Stream is one multiplexed byte stream ... like a TCP connection"
\* (mux.go:374): the opening end, too, reads from the first byte.
OpenerReadsFromStart ==
    \A i \in Id : LET s == Opener(i) IN
        \A k \in DOMAIN got[s][i] : got[s][i][k] = k
=============================================================================
