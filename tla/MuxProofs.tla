----------------------------- MODULE MuxProofs -----------------------------
(***************************************************************************)
(* Theorems about Mux, for every number of streams and every size of the   *)
(* buffers, the queue and the connection.                                  *)
(***************************************************************************)
EXTENDS Mux, SequenceTheorems, TLAPS

\* Peer maps sides to sides.
LEMMA PeerIsSide == \A s \in Side : Peer(s) \in Side
BY DEF Peer, Side

\* The opener and the acceptor of a stream are its two sides.
LEMMA EndsOfStream == \A i \in Id : Opener(i) \in Side /\ Acceptor(i) \in Side
BY DEF Opener, Acceptor, Peer, Side

\* Frames without a payload.
LEMMA MsgIsFrame ==
    /\ \A t \in StreamType, i \in Id : Msg(t, i) \in Frame
    /\ \A t \in ControlType, i \in {0} \cup Id : Msg(t, i) \in Frame
    /\ NoFrame \in Frame
BY MuxAssumption DEF Msg, Frame, NoFrame, ControlType

\* What is known of a frame.
LEMMA FrameFields ==
    ASSUME NEW f \in Frame
    PROVE  /\ f.id \in {0} \cup Id /\ f.n \in 0..MaxData
           /\ f.type \in StreamType \cup ControlType
           /\ f.type \in StreamType => f.id \in Id
BY MuxAssumption DEF Frame, StreamType, ControlType

\* Every side starts empty.
LEMMA InitTypeOK == Init => TypeOK
<1> SUFFICES ASSUME Init PROVE TypeOK
    OBVIOUS
<1> USE MuxAssumption DEF Init
<1>1. NoFrame \in Frame
    BY MsgIsFrame
<1>2. ConnOK
    <2>1. wire \in [Side -> Seq(Frame)]
        OBVIOUS
    <2> QED
        BY <2>1 DEF ConnOK
<1>3. OpenOK
    BY DEF OpenOK
<1>4. AcceptOK
    <2>1. queue \in [Side -> Seq(Id)]
        OBVIOUS
    <2> QED
        BY <2>1 DEF AcceptOK
<1>5. LoopOK
    BY <1>1 DEF LoopOK
<1>6. EndOK
    <2>1. /\ inbuf \in [Side -> [Id -> Seq(0..MaxData)]]
          /\ got \in [Side -> [Id -> Seq(0..MaxData)]]
        BY DEF PerEnd
    <2> QED
        BY <2>1 DEF EndOK, PerEnd
<1> QED
    BY <1>2, <1>3, <1>4, <1>5, <1>6 DEF TypeOK

\* Appending to one of a family of sequences.
LEMMA AppendAt ==
    ASSUME NEW D, NEW S, NEW w \in [D -> Seq(S)], NEW d \in D, NEW e \in S
    PROVE  [w EXCEPT ![d] = Append(@, e)] \in [D -> Seq(S)]
<1>1. Append(w[d], e) \in Seq(S)
    BY AppendProperties
<1> QED
    BY <1>1

\* Taking the head of one of a family of sequences.
LEMMA TailAt ==
    ASSUME NEW D, NEW S, NEW w \in [D -> Seq(S)], NEW d \in D, w[d] # <<>>
    PROVE  /\ [w EXCEPT ![d] = Tail(@)] \in [D -> Seq(S)]
           /\ Head(w[d]) \in S
<1>1. Tail(w[d]) \in Seq(S) /\ Head(w[d]) \in S
    BY HeadTailProperties
<1> QED
    BY <1>1

\* The pieces of a frame write.
LEMMA SendType ==
    ASSUME TypeOK, NEW s \in Side, NEW f \in Frame, Send(s, f) \/ SendFails(s)
    PROVE  wire' \in [Side -> Seq(Frame)]
<1>1. Peer(s) \in Side /\ wire \in [Side -> Seq(Frame)]
    BY PeerIsSide DEF TypeOK, ConnOK
<1>2. CASE Send(s, f)
    BY <1>1, <1>2, AppendAt DEF Send
<1>3. CASE SendFails(s)
    BY <1>1, <1>3 DEF SendFails
<1> QED
    BY <1>2, <1>3

\* Errors recorded on streams keep their type.
LEMMA FailType ==
    ASSUME TypeOK, NEW s \in Side, NEW ids, NEW err \in {"eof", "local", "session"},
           Fail(s, ids, err)
    PROVE  closed' \in [Side -> [Id -> {"no", "eof", "local", "session"}]]
BY DEF TypeOK, EndOK, Fail

\* The read loop moves on.
LEMMA LoopType ==
    ASSUME TypeOK, NEW s \in Side,
           NEW at \in {"read", "handle", "signal", "deliver", "send", "ended"},
           NEW f \in Frame, Loop(s, at, f)
    PROVE  LoopOK'
BY DEF TypeOK, LoopOK, Loop

\* What a step leaves alone keeps its type.
LEMMA KeepType ==
    ASSUME TypeOK
    PROVE  /\ UNCHANGED connVars => ConnOK'
           /\ UNCHANGED openVars => OpenOK'
           /\ UNCHANGED acceptVars => AcceptOK'
           /\ UNCHANGED loopVars => LoopOK'
           /\ UNCHANGED endVars => EndOK'
           /\ UNCHANGED streams => streams' \in [Side -> SUBSET Id]
           /\ UNCHANGED extras => extras' \in [Side -> 0..MaxExtras]
BY DEF TypeOK, ConnOK, OpenOK, AcceptOK, LoopOK, EndOK, Holds,
       connVars, openVars, acceptVars, loopVars, endVars

\* The steps of the read loop.
LEMMA ReadLoopType ==
    ASSUME TypeOK, NEW s \in Side, ReadLoop(s)
    PROVE  TypeOK'
<1> USE KeepType, MsgIsFrame
<1>h. hand[s] \in Frame /\ hand[s].id \in {0} \cup Id
    BY FrameFields DEF TypeOK, LoopOK
<1>1. CASE ReadFrame(s)
    <2>1. wire' \in [Side -> Seq(Frame)] /\ Head(wire[s]) \in Frame
        BY <1>1, TailAt DEF ReadFrame, TypeOK, ConnOK
    <2>2. ConnOK'
        BY <1>1, <2>1 DEF ReadFrame, TypeOK, ConnOK
    <2>3. LoopOK'
        BY <1>1, <2>1, LoopType DEF ReadFrame
    <2> QED
        BY <1>1, <2>2, <2>3 DEF ReadFrame, TypeOK
<1>2. CASE LoopEnds(s)
    <2>1. ConnOK'
        BY <1>2 DEF LoopEnds, BeginShutdown, TypeOK, ConnOK
    <2>2. LoopOK'
        BY <1>2, LoopType DEF LoopEnds
    <2> QED
        BY <1>2, <2>1, <2>2 DEF LoopEnds, TypeOK
<1>3. CASE LoopSend(s)
    <2>1. ConnOK'
        BY <1>3, <1>h, SendType DEF LoopSend, Attempt, TypeOK, ConnOK
    <2>2. LoopOK'
        BY <1>3, LoopType DEF LoopSend, LoopNext
    <2> QED
        BY <1>3, <2>1, <2>2 DEF LoopSend, TypeOK
<1>4. CASE Deliver(s)
    <2>1. inbuf' \in [Side -> [Id -> Seq(0..MaxData)]]
        <3>1. hand[s].n \in 0..MaxData
            BY <1>h, FrameFields
        <3> DEFINE i == hand[s].id
                   q == [inbuf[s] EXCEPT ![i] = Append(@, hand[s].n)]
        <3>2. inbuf \in [Side -> [Id -> Seq(0..MaxData)]]
            BY DEF TypeOK, EndOK
        <3>3. inbuf[s] \in [Id -> Seq(0..MaxData)]
            BY <3>2
        <3>5. \A k \in Id : q[k] \in Seq(0..MaxData)
            BY <3>1, <3>3, AppendProperties
        <3>6. q \in [Id -> Seq(0..MaxData)]
            BY <3>3, <3>5
        <3>4. inbuf' = inbuf \/ inbuf' = [inbuf EXCEPT ![s] = q]
            BY <1>4, <3>2 DEF Deliver
        <3> HIDE DEF q
        <3> QED
            BY <3>2, <3>4, <3>6
    <2>2. EndOK'
        BY <1>4, <2>1 DEF Deliver, TypeOK, EndOK
    <2>3. LoopOK'
        BY <1>4, LoopType DEF Deliver, LoopNext
    <2> QED
        BY <1>4, <2>2, <2>3 DEF Deliver, TypeOK
<1>5. CASE HandleOpen(s)
    <2>1. hand[s].id \in Id
        BY <1>5, <1>h, FrameFields DEF HandleOpen, Holds, StreamType
    <2>2. queue' \in [Side -> Seq(Id)]
        <3>1. queue \in [Side -> Seq(Id)]
            BY DEF TypeOK, AcceptOK
        <3>2. \/ queue' = queue
              \/ queue' = [queue EXCEPT ![s] = Append(@, hand[s].id)]
            BY <1>5 DEF HandleOpen, Enqueue
        <3>3. Append(queue[s], hand[s].id) \in Seq(Id)
            BY <2>1, <3>1, AppendProperties
        <3> QED
            BY <3>1, <3>2, <3>3
    <2>3. AcceptOK'
        <3>1. UNCHANGED request \/ request' = [request EXCEPT ![hand[s].id] = "queued"]
            BY <1>5 DEF HandleOpen, Enqueue
        <3>2. UNCHANGED <<signal, acc>>
            BY <1>5 DEF HandleOpen
        <3> QED
            BY <2>1, <2>2, <3>1, <3>2 DEF TypeOK, AcceptOK
    <2>4. LoopOK'
        BY <1>5, <2>1, LoopType DEF HandleOpen, ControlType
    <2> QED
        BY <1>5, <2>3, <2>4 DEF HandleOpen, TypeOK
<1>6. CASE HandleBadOpen(s)
    BY <1>6, <1>h, LoopType DEF HandleBadOpen, TypeOK, ControlType
<1>7. CASE EnqueueSignal(s)
    <2>1. AcceptOK'
        BY <1>7 DEF EnqueueSignal, TypeOK, AcceptOK
    <2>2. LoopOK'
        BY <1>7, LoopType DEF EnqueueSignal, LoopNext
    <2> QED
        BY <1>7, <2>1, <2>2 DEF EnqueueSignal, TypeOK
<1>8. CASE HandleReply(s)
    <2>1. OpenOK'
        BY <1>8 DEF HandleReply, DropPending, TypeOK, OpenOK
    <2>2. ConnOK'
        BY <1>8 DEF HandleReply, TypeOK, ConnOK
    <2>3. LoopOK'
        BY <1>8, LoopType DEF HandleReply, LoopNext
    <2> QED
        BY <1>8, <2>1, <2>2, <2>3 DEF HandleReply, TypeOK
<1>9. CASE HandleData(s)
    BY <1>9, <1>h, LoopType DEF HandleData, LoopNext, TypeOK
<1>10. CASE HandleClose(s)
    <2>1. closed' \in [Side -> [Id -> {"no", "eof", "local", "session"}]]
        BY <1>10, FailType DEF HandleClose, TypeOK, EndOK
    <2>2. EndOK'
        BY <1>10, <2>1 DEF HandleClose, TypeOK, EndOK
    <2>4. streams' \in [Side -> SUBSET Id]
        BY <1>10 DEF HandleClose, RemoveStream, TypeOK
    <2>3. LoopOK'
        BY <1>10, LoopType DEF HandleClose, LoopNext
    <2> QED
        BY <1>10, <2>2, <2>3, <2>4 DEF HandleClose, TypeOK
<1>11. CASE HandlePing(s)
    BY <1>11, LoopType DEF HandlePing, TypeOK, ControlType
<1>12. CASE HandlePong(s)
    BY <1>12, LoopType DEF HandlePong, LoopNext, TypeOK
<1> QED
    BY <1>1, <1>2, <1>3, <1>4, <1>5, <1>6, <1>7, <1>8, <1>9, <1>10, <1>11,
       <1>12 DEF ReadLoop

\* The steps of shutdown and of the accept loop.
LEMMA ServeType ==
    ASSUME TypeOK, NEW s \in Side,
           Shutdown(s) \/ AcceptLoop(s) \/ SessionClose(s) \/ AcceptCancel(s)
    PROVE  TypeOK'
<1> USE KeepType
<1>d. ASSUME Dequeue(s)
      PROVE  /\ queue' \in [Side -> Seq(Id)]
             /\ request' \in [Id -> {"none", "queued", "taken", "accepting",
                                     "accepted", "rejected", "failed"}]
    <2>1. queue' \in [Side -> Seq(Id)]
        BY <1>d, TailAt DEF Dequeue, TypeOK, AcceptOK
    <2> QED
        BY <1>d, <2>1 DEF Dequeue, TypeOK, AcceptOK
<1>1. CASE ShutdownSweep(s)
    <2>1. EndOK'
        BY <1>1, FailType DEF ShutdownSweep, TypeOK, EndOK
    <2>2. ConnOK' /\ OpenOK'
        BY <1>1 DEF ShutdownSweep, TypeOK, ConnOK, OpenOK
    <2> QED
        BY <1>1, <2>1, <2>2 DEF ShutdownSweep, TypeOK
<1>2. CASE ShutdownDone(s)
    <2>1. ConnOK'
        BY <1>2 DEF ShutdownDone, TypeOK, ConnOK
    <2> QED
        BY <1>2, <2>1 DEF ShutdownDone, TypeOK
<1>3. CASE SessionClose(s)
    <2>1. ConnOK'
        BY <1>3 DEF SessionClose, BeginShutdown, TypeOK, ConnOK
    <2> QED
        BY <1>3, <2>1 DEF SessionClose, TypeOK
<1>4. CASE AcceptDequeue(s)
    <2>1. AcceptOK'
        BY <1>4, <1>d DEF AcceptDequeue, TypeOK, AcceptOK
    <2> QED
        BY <1>4, <2>1 DEF AcceptDequeue, TypeOK
<1>5. CASE AcceptSleep(s)
    <2>1. AcceptOK'
        BY <1>5 DEF AcceptSleep, TypeOK, AcceptOK
    <2> QED
        BY <1>5, <2>1 DEF AcceptSleep, TypeOK
<1>6. CASE AcceptWake(s)
    <2>1. AcceptOK'
        BY <1>6 DEF AcceptWake, TypeOK, AcceptOK
    <2> QED
        BY <1>6, <2>1 DEF AcceptWake, TypeOK
<1>7. CASE AcceptDone(s)
    <2>1. AcceptOK'
        BY <1>7, <1>d DEF AcceptDone, TypeOK, AcceptOK
    <2> QED
        BY <1>7, <2>1 DEF AcceptDone, TypeOK
<1>8. CASE AcceptCancel(s)
    <2>1. AcceptOK'
        BY <1>8 DEF AcceptCancel, TypeOK, AcceptOK
    <2> QED
        BY <1>8, <2>1 DEF AcceptCancel, TypeOK
<1> QED
    BY <1>1, <1>2, <1>3, <1>4, <1>5, <1>6, <1>7, <1>8
    DEF Shutdown, AcceptLoop

\* A close frame, and the history of it.
LEMMA SendFinalType ==
    ASSUME TypeOK, NEW s \in Side, NEW i \in Id, NEW t \in {"CLOSE", "CLOSEW"},
           SendFinal(s, i, t)
    PROVE  /\ wire' \in [Side -> Seq(Frame)]
           /\ fin' \in [Side -> [Id -> (-1)..MaxData]]
<1>1. Msg(t, i) \in Frame
    BY MsgIsFrame DEF StreamType
<1>2. wire' \in [Side -> Seq(Frame)]
    BY <1>1, SendType DEF SendFinal
<1>3. fin' \in [Side -> [Id -> (-1)..MaxData]]
    <2>1. /\ sent[s][i] \in (-1)..MaxData
          /\ fin \in [Side -> [Id -> (-1)..MaxData]]
        BY MuxAssumption DEF TypeOK, EndOK
    <2>2. \/ fin' = fin
          \/ fin' = [fin EXCEPT ![s][i] = sent[s][i]]
        BY <2>1 DEF SendFinal
    <2> QED
        BY <2>1, <2>2
<1> QED
    BY <1>2, <1>3

\* The steps of an Open call.
LEMMA OpenType ==
    ASSUME TypeOK, NEW i \in Id, Open(i) \/ OpenCancel(i)
    PROVE  TypeOK'
<1> USE KeepType
<1>o. Opener(i) \in Side
    BY EndsOfStream
<1>1. CASE OpenSend(i)
    <2>1. Msg("OPEN", i) \in Frame
        BY MsgIsFrame DEF StreamType
    <2>2. ConnOK'
        BY <1>1, <1>o, <2>1, SendType DEF OpenSend, TypeOK, ConnOK
    <2>3. OpenOK'
        BY <1>1, <1>o DEF OpenSend, DropPending, TypeOK, OpenOK
    <2> QED
        BY <1>1, <2>2, <2>3 DEF OpenSend, TypeOK
<1>2. CASE OpenReply(i)
    <2>1. OpenOK' /\ streams' \in [Side -> SUBSET Id]
        BY <1>2, <1>o DEF OpenReply, NewStream, TypeOK, OpenOK
    <2> QED
        BY <1>2, <2>1 DEF OpenReply, TypeOK
<1>3. CASE OpenDone(i)
    <2>1. OpenOK'
        BY <1>3 DEF OpenDone, TypeOK, OpenOK
    <2> QED
        BY <1>3, <2>1 DEF OpenDone, TypeOK
<1>4. CASE OpenCancel(i)
    <2>1. OpenOK'
        BY <1>4, <1>o DEF OpenCancel, DropPending, TypeOK, OpenOK
    <2> QED
        BY <1>4, <2>1 DEF OpenCancel, TypeOK
<1>5. CASE OpenCancelSend(i)
    <2>1. ConnOK' /\ EndOK'
        BY <1>5, <1>o, SendFinalType DEF OpenCancelSend, TypeOK, ConnOK, EndOK
    <2>2. OpenOK'
        BY <1>5 DEF OpenCancelSend, TypeOK, OpenOK
    <2> QED
        BY <1>5, <2>1, <2>2 DEF OpenCancelSend, TypeOK
<1> QED
    BY <1>1, <1>2, <1>3, <1>4, <1>5 DEF Open

\* The start of an Open call, and the frames of no stream.
LEMMA OpenBeginType ==
    ASSUME TypeOK, NEW s \in Side, OpenBegin(s) \/ SendExtra(s)
    PROVE  TypeOK'
<1> USE KeepType
<1>1. CASE OpenBegin(s)
    <2>1. OpenOK'
        BY <1>1 DEF OpenBegin, TypeOK, OpenOK
    <2> QED
        BY <1>1, <2>1 DEF OpenBegin, TypeOK
<1>2. CASE SendExtra(s)
    <2>1. PICK t \in ControlType : Send(s, Msg(t, 0))
        BY <1>2, MuxAssumption DEF SendExtra, ControlType
    <2>2. ConnOK'
        BY <1>2, <2>1, SendType, MsgIsFrame DEF SendExtra, TypeOK, ConnOK
    <2>3. extras' \in [Side -> 0..MaxExtras]
        BY <1>2, MuxAssumption DEF SendExtra, TypeOK
    <2> QED
        BY <1>2, <2>2, <2>3 DEF SendExtra, TypeOK
<1> QED
    BY <1>1, <1>2

\* The steps that answer a request.
LEMMA AnswerType ==
    ASSUME TypeOK, NEW i \in Id, Answer(i)
    PROVE  TypeOK'
<1> USE KeepType
<1>a. Acceptor(i) \in Side
    BY EndsOfStream
<1>1. CASE RequestAccept(i)
    <2>1. AcceptOK' /\ streams' \in [Side -> SUBSET Id]
        BY <1>1, <1>a DEF RequestAccept, NewStream, TypeOK, AcceptOK
    <2> QED
        BY <1>1, <2>1 DEF RequestAccept, TypeOK
<1>2. CASE RequestAcceptSend(i)
    <2>1. Msg("OPEN_OK", i) \in Frame
        BY MsgIsFrame DEF StreamType
    <2>2. ConnOK'
        BY <1>2, <1>a, <2>1, SendType DEF RequestAcceptSend, TypeOK, ConnOK
    <2>3. AcceptOK'
        <3>1. \/ request' = [request EXCEPT ![i] = "accepted"]
              \/ request' = [request EXCEPT ![i] = "failed"]
            BY <1>2 DEF RequestAcceptSend
        <3>2. UNCHANGED <<queue, signal, acc>>
            BY <1>2 DEF RequestAcceptSend
        <3> QED
            BY <3>1, <3>2 DEF TypeOK, AcceptOK
    <2>4. streams' \in [Side -> SUBSET Id]
        <3>1. UNCHANGED streams \/ RemoveStream(Acceptor(i), i)
            BY <1>2 DEF RequestAcceptSend
        <3> QED
            BY <1>a, <3>1 DEF RemoveStream, TypeOK
    <2> QED
        BY <1>2, <2>2, <2>3, <2>4 DEF RequestAcceptSend, TypeOK
<1>3. CASE RequestReject(i)
    <2>1. Msg("OPEN_ERR", i) \in Frame
        BY MsgIsFrame DEF ControlType
    <2>2. ConnOK'
        BY <1>3, <1>a, <2>1, SendType DEF RequestReject, Attempt, TypeOK, ConnOK
    <2>3. AcceptOK'
        BY <1>3 DEF RequestReject, TypeOK, AcceptOK
    <2> QED
        BY <1>3, <2>2, <2>3 DEF RequestReject, TypeOK
<1> QED
    BY <1>1, <1>2, <1>3 DEF Answer

\* The steps of the application on a stream.
LEMMA StreamUseType ==
    ASSUME TypeOK, NEW s \in Side, NEW i \in Id,
           Start(s, i) \/ Finish(s, i) \/ Read(s, i)
    PROVE  TypeOK'
<1>1. CASE WriteBegin(s, i)
    <2>1. EndOK'
        BY <1>1 DEF WriteBegin, TypeOK, EndOK
    <2> QED
        BY <1>1, <2>1, KeepType DEF WriteBegin, TypeOK
<1>2. CASE CloseWriteBegin(s, i)
    <2>1. EndOK'
        BY <1>2 DEF CloseWriteBegin, TypeOK, EndOK
    <2> QED
        BY <1>2, <2>1, KeepType DEF CloseWriteBegin, TypeOK
<1>3. CASE CloseBegin(s, i)
    <2>1. EndOK' /\ streams' \in [Side -> SUBSET Id]
        BY <1>3 DEF CloseBegin, RemoveStream, TypeOK, EndOK
    <2> QED
        BY <1>3, <2>1, KeepType DEF CloseBegin, TypeOK
<1>4. CASE WriteSend(s, i)
    <2> DEFINE f == [type |-> "DATA", id |-> i, n |-> sent[s][i] + 1]
    <2>1. ASSUME Send(s, f), sent' = [sent EXCEPT ![s][i] = @ + 1],
                 \/ writer' = [writer EXCEPT ![s][i] = "idle"]
                 \/ sent[s][i] + 1 < MaxData /\ UNCHANGED writer
          PROVE  TypeOK'
        <3>1. f \in Frame /\ sent[s][i] + 1 \in 0..MaxData
            BY <1>4, MuxAssumption DEF WriteSend, TypeOK, EndOK, Frame, StreamType
        <3>2. ConnOK'
            BY <1>4, <2>1, <3>1, SendType DEF WriteSend, TypeOK, ConnOK
        <3>3. /\ sent' \in [Side -> [Id -> 0..MaxData]]
              /\ writer' \in [Side -> [Id -> {"idle", "data", "closew"}]]
            <4> DEFINE q == [sent[s] EXCEPT ![i] = @ + 1]
            <4> DEFINE w == [writer[s] EXCEPT ![i] = "idle"]
            <4>1. /\ q \in [Id -> 0..MaxData]
                  /\ w \in [Id -> {"idle", "data", "closew"}]
                BY <3>1 DEF TypeOK, EndOK
            <4>2. /\ sent' = [sent EXCEPT ![s] = q]
                  /\ writer' = writer \/ writer' = [writer EXCEPT ![s] = w]
                BY <2>1
            <4>3. /\ sent \in [Side -> [Id -> 0..MaxData]]
                  /\ writer \in [Side -> [Id -> {"idle", "data", "closew"}]]
                BY DEF TypeOK, EndOK
            <4> HIDE DEF q, w
            <4>4. sent' \in [Side -> [Id -> 0..MaxData]]
                BY <4>1, <4>2, <4>3
            <4>5. writer' \in [Side -> [Id -> {"idle", "data", "closew"}]]
                BY <4>1, <4>2, <4>3
            <4> QED
                BY <4>4, <4>5
        <3>4. ASSUME NEW x \in Side, NEW j \in Id, writer'[x][j] = "data"
              PROVE  sent'[x][j] < MaxData
            <4>1. writer[x][j] = "data" /\ sent[x][j] < MaxData
                <5> DEFINE w == [writer[s] EXCEPT ![i] = "idle"]
                <5>1. writer' = writer \/ writer' = [writer EXCEPT ![s] = w]
                    BY <2>1
                <5>2. w[j] = "data" => writer[s][j] = "data"
                    BY DEF TypeOK, EndOK
                <5> HIDE DEF w
                <5>3. writer[x][j] = "data"
                    BY <3>4, <5>1, <5>2 DEF TypeOK, EndOK
                <5> QED
                    BY <5>3 DEF TypeOK, EndOK
            <4>2. CASE x = s /\ j = i
                BY <2>1, <3>4, <4>2 DEF TypeOK, EndOK
            <4>3. CASE x # s \/ j # i
                BY <2>1, <4>1, <4>3 DEF TypeOK, EndOK
            <4> QED
                BY <4>2, <4>3
        <3>5. EndOK'
            BY <1>4, <3>3, <3>4 DEF WriteSend, TypeOK, EndOK
        <3> QED
            BY <1>4, <3>2, <3>5, KeepType DEF WriteSend, TypeOK
    <2>2. ASSUME SendFails(s), writer' = [writer EXCEPT ![s][i] = "idle"],
                 UNCHANGED sent
          PROVE  TypeOK'
        <3>1. EndOK'
            BY <1>4, <2>2 DEF WriteSend, TypeOK, EndOK
        <3>2. ConnOK'
            BY <1>4, <2>2 DEF WriteSend, SendFails, TypeOK, ConnOK
        <3> QED
            BY <1>4, <3>1, <3>2, KeepType DEF WriteSend, TypeOK
    <2> QED
        BY <1>4, <2>1, <2>2 DEF WriteSend
<1>5. CASE CloseWriteSend(s, i)
    <2>1. ConnOK' /\ EndOK'
        BY <1>5, SendFinalType DEF CloseWriteSend, TypeOK, ConnOK, EndOK
    <2> QED
        BY <1>5, <2>1, KeepType DEF CloseWriteSend, TypeOK
<1>6. CASE CloseSend(s, i)
    <2>1. ConnOK' /\ EndOK'
        BY <1>6, SendFinalType, FailType DEF CloseSend, TypeOK, ConnOK, EndOK
    <2> QED
        BY <1>6, <2>1, KeepType DEF CloseSend, TypeOK
<1>7. CASE Read(s, i)
    <2>1. /\ Tail(inbuf[s][i]) \in Seq(0..MaxData)
          /\ Head(inbuf[s][i]) \in 0..MaxData
        <3>1. inbuf[s][i] \in Seq(0..MaxData) /\ inbuf[s][i] # <<>>
            BY <1>7 DEF Read, TypeOK, EndOK
        <3> QED
            BY <3>1, HeadTailProperties
    <2>2. Append(got[s][i], Head(inbuf[s][i])) \in Seq(0..MaxData)
        BY <2>1, AppendProperties DEF TypeOK, EndOK
    <2>3. /\ inbuf' \in [Side -> [Id -> Seq(0..MaxData)]]
          /\ got' \in [Side -> [Id -> Seq(0..MaxData)]]
          /\ eof' \in [Side -> [Id -> BOOLEAN]]
        <3>1. inbuf' \in [Side -> [Id -> Seq(0..MaxData)]]
            BY <1>7, <2>1 DEF Read, TypeOK, EndOK
        <3>2. got' \in [Side -> [Id -> Seq(0..MaxData)]]
            <4> DEFINE q == [got[s] EXCEPT ![i] = Append(@, Head(inbuf[s][i]))]
            <4>1. q \in [Id -> Seq(0..MaxData)]
                BY <2>2 DEF TypeOK, EndOK
            <4>2. got' = got \/ got' = [got EXCEPT ![s] = q]
                BY <1>7 DEF Read
            <4> HIDE DEF q
            <4> QED
                BY <4>1, <4>2 DEF TypeOK, EndOK
        <3>3. eof' \in [Side -> [Id -> BOOLEAN]]
            <4> DEFINE q == [eof[s] EXCEPT ![i] = TRUE]
            <4>1. q \in [Id -> BOOLEAN]
                BY DEF TypeOK, EndOK
            <4>2. eof' = eof \/ eof' = [eof EXCEPT ![s] = q]
                BY <1>7 DEF Read
            <4> HIDE DEF q
            <4> QED
                BY <4>1, <4>2 DEF TypeOK, EndOK
        <3> QED
            BY <3>1, <3>2, <3>3
    <2>4. EndOK'
        BY <1>7, <2>3 DEF Read, TypeOK, EndOK
    <2> QED
        BY <1>7, <2>4, KeepType DEF Read, TypeOK
<1> QED
    BY <1>1, <1>2, <1>3, <1>4, <1>5, <1>6, <1>7 DEF Start, Finish

\* Every step keeps the types.
LEMMA NextTypeOK == TypeOK /\ [Next]_vars => TypeOK'
<1> SUFFICES ASSUME TypeOK, [Next]_vars PROVE TypeOK'
    OBVIOUS
<1> USE KeepType
<1>1. CASE Cut
    <2>1. ConnOK'
        BY <1>1 DEF Cut, TypeOK, ConnOK
    <2> QED
        BY <1>1, <2>1 DEF Cut, TypeOK
<1>2. ASSUME NEW s \in Side, Step(s)
      PROVE  TypeOK'
    BY <1>2, ReadLoopType, ServeType, OpenType, OpenBeginType, AnswerType,
       StreamUseType DEF Step, Serve, FinishAny
<1>3. CASE UNCHANGED vars
    BY <1>3 DEF vars, TypeOK
<1> QED
    BY <1>1, <1>2, <1>3 DEF Next

\* The variables of a session keep their types: frames on the connection are
\* well formed, buffers and queues hold what they are for.
THEOREM Typing == Safety => []TypeOK
<1>1. Init => TypeOK
    BY InitTypeOK
<1>2. TypeOK /\ [Next]_vars => TypeOK'
    BY NextTypeOK
<1> QED
    BY <1>1, <1>2, PTL DEF Safety

-----------------------------------------------------------------------------
(* Shutdown. *)

\* Whose a pending call is, and why only Session.Close can make the read loop
\* meet a reply channel that shutdown has closed.
CallsInv ==
    /\ \A s \in Side : Opener(nextID[s]) = s
    /\ \A s \in Side : \A i \in pending[s] : Opener(i) = s
    /\ \A i \in Id : reply[i] = "closed" => shut[Opener(i)] # "open"
    /\ \A s \in Side \ Closers : shut[s] # "open" => loop[s] = "ended"

\* An accepted stream is registered, has failed or is being closed; once
\* shutdown has swept the registered ones, one of the last two.
RegisteredInv ==
    \A i \in Id : LET s == Acceptor(i) IN
        /\ request[i] \in {"accepting", "accepted"} =>
               i \in streams[s] \/ closed[s][i] # "no" \/ closer[s][i] # "no"
        /\ closer[s][i] = "done" => closed[s][i] # "no"

ShutdownInv == CallsInv /\ PanicNeedsClose
AcceptInv == RegisteredInv /\ AcceptedStreamsFail

callVars == <<nextID, pending, reply, shut, loop, panicked>>

\* Steps that touch neither calls nor shutdown.
LEMMA CallsKept == ShutdownInv /\ UNCHANGED callVars => ShutdownInv'
BY DEF ShutdownInv, CallsInv, PanicNeedsClose, callVars

\* Ids of one side stay that side's: they grow by two.
LEMMA SameOpener == \A n \in Nat : Opener(n + 2) = Opener(n)
BY SMT DEF Opener

\* Shutdown and Session.Close.
LEMMA ShutdownCalls ==
    ASSUME TypeOK, ShutdownInv, NEW s \in Side \ panicked,
           Shutdown(s) \/ SessionClose(s)
    PROVE  ShutdownInv'
<1> USE DEF ShutdownInv, CallsInv, PanicNeedsClose, TypeOK, ConnOK, OpenOK
<1>1. CASE ShutdownSweep(s)
    BY <1>1 DEF ShutdownSweep, loopVars
<1>2. CASE ShutdownDone(s)
    BY <1>2 DEF ShutdownDone, openVars, loopVars
<1>3. CASE SessionClose(s)
    BY <1>3 DEF SessionClose, BeginShutdown, openVars, loopVars
<1> QED
    BY <1>1, <1>2, <1>3 DEF Shutdown

\* The read loop: a reply reaches only a call of this side, and its channel is
\* closed only if shutdown ran, which without Session.Close ends the loop.
LEMMA ReadLoopCalls ==
    ASSUME TypeOK, ShutdownInv, NEW s \in Side \ panicked, ReadLoop(s)
    PROVE  ShutdownInv'
<1> USE DEF ShutdownInv, CallsInv, PanicNeedsClose, TypeOK, ConnOK, OpenOK,
            LoopOK, LoopNext, Loop, Holds, connVars, openVars
<1>1. CASE ReadFrame(s)
    BY <1>1 DEF ReadFrame
<1>2. CASE LoopEnds(s)
    BY <1>2 DEF LoopEnds, BeginShutdown
<1>3. CASE LoopSend(s)
    BY <1>3 DEF LoopSend
<1>4. CASE Deliver(s)
    BY <1>4 DEF Deliver
<1>5. CASE HandleOpen(s)
    BY <1>5 DEF HandleOpen
<1>6. CASE HandleBadOpen(s)
    BY <1>6 DEF HandleBadOpen
<1>7. CASE EnqueueSignal(s)
    BY <1>7 DEF EnqueueSignal
<1>8. CASE HandleReply(s)
    <2>1. reply[hand[s].id] = "closed" /\ hand[s].id \in pending[s]
              => s \in Closers
        BY <1>8 DEF HandleReply
    <2>2. panicked' \subseteq Closers
        BY <1>8, <2>1 DEF HandleReply
    <2>3. \A i \in Id : reply'[i] = "closed" => reply[i] = "closed"
        BY <1>8 DEF HandleReply
    <2>4. \A x \in Side : pending'[x] \subseteq pending[x]
        BY <1>8 DEF HandleReply, DropPending
    <2> QED
        BY <1>8, <2>2, <2>3, <2>4 DEF HandleReply
<1>9. CASE HandleData(s)
    BY <1>9 DEF HandleData
<1>10. CASE HandleClose(s)
    BY <1>10 DEF HandleClose
<1>11. CASE HandlePing(s)
    BY <1>11 DEF HandlePing
<1>12. CASE HandlePong(s)
    BY <1>12 DEF HandlePong
<1> QED
    BY <1>1, <1>2, <1>3, <1>4, <1>5, <1>6, <1>7, <1>8, <1>9, <1>10, <1>11,
       <1>12 DEF ReadLoop

\* Opens: a new call takes an id of its side, the others only leave pending.
LEMMA OpenCalls ==
    ASSUME TypeOK, ShutdownInv, NEW s \in Side \ panicked,
           \/ OpenBegin(s)
           \/ \E i \in Id : Opener(i) = s /\ (Open(i) \/ OpenCancel(i))
    PROVE  ShutdownInv'
<1> USE DEF ShutdownInv, CallsInv, PanicNeedsClose, TypeOK, ConnOK, OpenOK,
            connVars, loopVars
<1>1. CASE OpenBegin(s)
    BY <1>1, SameOpener DEF OpenBegin
<1>2. ASSUME NEW i \in Id, Opener(i) = s, Open(i) \/ OpenCancel(i)
      PROVE  ShutdownInv'
    <2>1. pending' = pending \/ DropPending(s, i)
        <3>1. OpenSend(i) => UNCHANGED pending \/ DropPending(Opener(i), i)
            BY DEF OpenSend
        <3>2. OpenReply(i) \/ OpenDone(i) \/ OpenCancelSend(i) => UNCHANGED pending
            BY DEF OpenReply, OpenDone, OpenCancelSend
        <3>3. OpenCancel(i) => DropPending(Opener(i), i)
            BY DEF OpenCancel
        <3> QED
            BY <1>2, <3>1, <3>2, <3>3 DEF Open
    <2>2. UNCHANGED <<nextID, reply, shut, loop, panicked>>
        BY <1>2 DEF Open, OpenSend, OpenReply, OpenDone, OpenCancelSend,
                    OpenCancel
    <2>3. \A x \in Side : pending'[x] \subseteq pending[x]
        <3>1. \A x \in Side :
                  pending'[x] = pending[x] \/ (x = s /\ pending'[x] = pending[x] \ {i})
            BY <2>1 DEF DropPending
        <3> QED
            BY <3>1
    <2> QED
        BY <2>2, <2>3
<1> QED
    BY <1>1, <1>2

\* Every step keeps the invariant.
LEMMA NextShutdownInv == TypeOK /\ ShutdownInv /\ [Next]_vars => ShutdownInv'
<1> SUFFICES ASSUME TypeOK, ShutdownInv, [Next]_vars PROVE ShutdownInv'
    OBVIOUS
<1> USE CallsKept
<1>1. CASE Cut
    BY <1>1 DEF Cut, callVars, openVars, loopVars
<1>2. ASSUME NEW s \in Side \ panicked, Step(s)
      PROVE  ShutdownInv'
    <2> USE DEF callVars, connVars, openVars, loopVars
    <2>1. CASE Shutdown(s) \/ SessionClose(s)
        BY <2>1, ShutdownCalls
    <2>2. CASE ReadLoop(s)
        BY <2>2, ReadLoopCalls
    <2>3. CASE OpenBegin(s)
        BY <2>3, OpenCalls
    <2>4. CASE AcceptLoop(s) \/ AcceptCancel(s) \/ SendExtra(s)
        BY <2>4 DEF AcceptLoop, AcceptDequeue, AcceptSleep, AcceptWake,
                    AcceptDone, AcceptCancel, SendExtra
    <2>5. ASSUME NEW i \in Id, Opener(i) = s, Open(i) \/ OpenCancel(i)
          PROVE  ShutdownInv'
        BY <2>5, OpenCalls
    <2>6. ASSUME NEW i \in Id, Answer(i)
          PROVE  ShutdownInv'
        BY <2>6 DEF Answer, RequestAccept, RequestAcceptSend, RequestReject
    <2>7. ASSUME NEW i \in Id, Read(s, i) \/ Finish(s, i) \/ Start(s, i)
          PROVE  ShutdownInv'
        BY <2>7 DEF Read, Finish, WriteSend, CloseWriteSend, CloseSend, Start,
                    WriteBegin, CloseWriteBegin, CloseBegin
    <2> QED
        BY <1>2, <2>1, <2>2, <2>3, <2>4, <2>5, <2>6, <2>7
           DEF Step, Serve, FinishAny
<1>3. CASE UNCHANGED vars
    BY <1>3 DEF vars, callVars, connVars, openVars, loopVars
<1> QED
    BY <1>1, <1>2, <1>3 DEF Next

\* A side that never calls Session.Close never panics: only a call that is
\* still pending has a reply channel to send on, and shutdown closes those
\* only after the one goroutine that sends on them has left its loop.
THEOREM NoPanicWithoutClose == Safety => []PanicNeedsClose
<1>1. Init => ShutdownInv
    BY MuxAssumption
       DEF Init, ShutdownInv, CallsInv, PanicNeedsClose, Opener, Side
<1>2. ShutdownInv => PanicNeedsClose
    BY DEF ShutdownInv
<1> QED
    BY <1>1, <1>2, Typing, NextShutdownInv, PTL DEF Safety

-----------------------------------------------------------------------------
(* Accept. *)

acceptedVars == <<request, streams, closed, closer, shut>>

\* Steps that touch neither requests, streams nor shutdown.
LEMMA AcceptedKept == AcceptInv /\ UNCHANGED acceptedVars => AcceptInv'
BY DEF AcceptInv, RegisteredInv, AcceptedStreamsFail, acceptedVars

\* Streams may be added, and fail, at any time.
LEMMA StreamsGrow ==
    ASSUME TypeOK, AcceptInv, UNCHANGED <<request, closer, shut>>,
           \A s \in Side : streams[s] \subseteq streams'[s],
           \A s \in Side, i \in Id : closed[s][i] # "no" => closed'[s][i] # "no"
    PROVE  AcceptInv'
BY EndsOfStream DEF AcceptInv, RegisteredInv, AcceptedStreamsFail

\* fail marks the streams it is given and forgets no error.
LEMMA FailMarks ==
    ASSUME TypeOK, NEW s \in Side, NEW ids, NEW err, err # "no",
           Fail(s, ids, err)
    PROVE  /\ \A x \in Side, i \in Id : closed[x][i] # "no" => closed'[x][i] # "no"
           /\ \A i \in Id : i \in ids => closed'[s][i] # "no"
BY DEF Fail, TypeOK, EndOK

\* Shutdown fails every registered stream before it counts as swept.
LEMMA ShutdownAccepted ==
    ASSUME TypeOK, AcceptInv, NEW s \in Side, Shutdown(s) \/ SessionClose(s)
    PROVE  AcceptInv'
<1> USE EndsOfStream DEF AcceptInv, RegisteredInv, AcceptedStreamsFail, TypeOK,
            ConnOK
<1>1. CASE ShutdownSweep(s)
    <2>1. /\ \A x \in Side, i \in Id : closed[x][i] # "no" => closed'[x][i] # "no"
          /\ \A i \in Id : i \in streams[s] => closed'[s][i] # "no"
        BY <1>1, FailMarks DEF ShutdownSweep
    <2>2. \A i \in Id : closer[Acceptor(i)][i] \in {"no", "sending", "done"}
        BY DEF EndOK
    <2>3. /\ UNCHANGED <<request, streams, closer>>
          /\ \A x \in Side : x # s => shut'[x] = shut[x]
        BY <1>1 DEF ShutdownSweep, acceptVars
    <2>4. RegisteredInv'
        BY <2>1, <2>3
    <2>5. AcceptedStreamsFail'
        BY <2>1, <2>2, <2>3
    <2> QED
        BY <2>4, <2>5
<1>2. CASE ShutdownDone(s)
    BY <1>2 DEF ShutdownDone, acceptVars, endVars
<1>3. CASE SessionClose(s)
    BY <1>3 DEF SessionClose, BeginShutdown, acceptVars, endVars
<1> QED
    BY <1>1, <1>2, <1>3 DEF Shutdown

\* The read loop fails a stream before it forgets it, and a queued request is
\* not accepted yet.
LEMMA ReadLoopAccepted ==
    ASSUME TypeOK, AcceptInv, NEW s \in Side, ReadLoop(s)
    PROVE  AcceptInv'
<1> USE AcceptedKept DEF acceptedVars, connVars, acceptVars, endVars
<1>1. CASE ReadFrame(s)
    BY <1>1 DEF ReadFrame
<1>2. CASE LoopEnds(s)
    BY <1>2 DEF LoopEnds, BeginShutdown, AcceptInv, RegisteredInv,
                AcceptedStreamsFail, TypeOK, ConnOK
<1>3. CASE LoopSend(s)
    BY <1>3 DEF LoopSend
<1>4. CASE Deliver(s)
    BY <1>4 DEF Deliver
<1>5. CASE HandleOpen(s)
    <2>1. UNCHANGED <<streams, closed, closer, shut>>
        BY <1>5 DEF HandleOpen
    <2>2. \A i \in Id : request'[i] = request[i] \/ request'[i] = "queued"
        BY <1>5 DEF HandleOpen, Enqueue, TypeOK, AcceptOK
    <2> QED
        BY <2>1, <2>2 DEF AcceptInv, RegisteredInv, AcceptedStreamsFail
<1>6. CASE HandleBadOpen(s)
    BY <1>6 DEF HandleBadOpen
<1>7. CASE EnqueueSignal(s)
    BY <1>7 DEF EnqueueSignal
<1>8. CASE HandleReply(s)
    BY <1>8 DEF HandleReply
<1>9. CASE HandleData(s)
    BY <1>9 DEF HandleData
<1>10. CASE HandleClose(s)
    <2>1. CASE UNCHANGED <<closed, streams>>
        BY <1>10, <2>1 DEF HandleClose
    <2>2. CASE Fail(s, {hand[s].id}, "eof") /\ RemoveStream(s, hand[s].id)
        <3>1. /\ \A x \in Side, i \in Id : closed[x][i] # "no" => closed'[x][i] # "no"
              /\ hand[s].id \in Id => closed'[s][hand[s].id] # "no"
            BY <2>2, FailMarks
        <3>2. \A x \in Side, i \in Id :
                  i \in streams[x] => i \in streams'[x] \/ closed'[x][i] # "no"
            BY <2>2, <3>1 DEF RemoveStream, TypeOK
        <3>3. UNCHANGED <<request, closer, shut>>
            BY <1>10 DEF HandleClose
        <3> QED
            BY <3>1, <3>2, <3>3, EndsOfStream
               DEF AcceptInv, RegisteredInv, AcceptedStreamsFail
    <2> QED
        BY <1>10, <2>1, <2>2 DEF HandleClose
<1>11. CASE HandlePing(s)
    BY <1>11 DEF HandlePing
<1>12. CASE HandlePong(s)
    BY <1>12 DEF HandlePong
<1> QED
    BY <1>1, <1>2, <1>3, <1>4, <1>5, <1>6, <1>7, <1>8, <1>9, <1>10, <1>11,
       <1>12 DEF ReadLoop

\* A stream is registered before OPEN_OK is written, and the write fails once
\* shutdown began.
LEMMA AnswerAccepted ==
    ASSUME TypeOK, AcceptInv, NEW i \in Id, Answer(i)
    PROVE  AcceptInv'
<1> DEFINE s == Acceptor(i)
<1>0. s \in Side
    BY EndsOfStream
<1> HIDE DEF s
<1>t. DOMAIN request = Id /\ streams \in [Side -> SUBSET Id]
    BY DEF TypeOK, AcceptOK
<1> USE <1>0, <1>t, EndsOfStream DEF AcceptInv, RegisteredInv, AcceptedStreamsFail
<1>1. CASE RequestAccept(i)
    <2>1. \A x \in Side : streams[x] \subseteq streams'[x]
        BY <1>1 DEF RequestAccept, NewStream
    <2>2. i \in streams'[s]
        BY <1>1 DEF RequestAccept, NewStream, s
    <2>3. UNCHANGED <<closed, closer, shut>>
        BY <1>1 DEF RequestAccept, connVars, endVars
    <2>4. /\ request[i] = "taken" /\ request'[i] = "accepting"
          /\ \A j \in Id : j # i => request'[j] = request[j]
        BY <1>1 DEF RequestAccept
    <2> QED
        BY <2>1, <2>2, <2>3, <2>4 DEF s
<1>2. CASE RequestAcceptSend(i)
    <2>1. UNCHANGED <<closed, closer, shut>>
        BY <1>2 DEF RequestAcceptSend, endVars
    <2>2. \A j \in Id : j # i => request'[j] = request[j]
        BY <1>2 DEF RequestAcceptSend
    <2>3. \A j \in Id, x \in Side : j # i /\ j \in streams[x] => j \in streams'[x]
        <3>1. UNCHANGED streams \/ RemoveStream(s, i)
            BY <1>2 DEF RequestAcceptSend, s
        <3> QED
            BY <3>1 DEF RemoveStream
    <2>4. \/ request'[i] = "failed"
          \/ /\ request[i] = "accepting" /\ shut[s] = "open"
             /\ UNCHANGED streams
        BY <1>2 DEF RequestAcceptSend, Send, s
    <2> QED
        BY <2>1, <2>2, <2>3, <2>4 DEF s
<1>3. CASE RequestReject(i)
    BY <1>3 DEF RequestReject, endVars
<1> QED
    BY <1>1, <1>2, <1>3 DEF Answer

\* Close fails the stream it took off the table once its frame is written.
LEMMA StreamUseAccepted ==
    ASSUME TypeOK, AcceptInv, NEW s \in Side, NEW i \in Id,
           Read(s, i) \/ Finish(s, i) \/ Start(s, i)
    PROVE  AcceptInv'
<1> USE AcceptedKept DEF acceptedVars, connVars, acceptVars
<1>1. CASE CloseBegin(s, i)
    BY <1>1, EndsOfStream DEF CloseBegin, RemoveStream, AcceptInv,
       RegisteredInv, AcceptedStreamsFail, TypeOK, EndOK
<1>2. CASE CloseSend(s, i)
    <2>1. /\ \A x \in Side, j \in Id : closed[x][j] # "no" => closed'[x][j] # "no"
          /\ closed'[s][i] # "no"
        BY <1>2, FailMarks DEF CloseSend
    <2>2. /\ closer[s][i] = "sending" /\ closer'[s][i] = "done"
          /\ \A x \in Side, j \in Id : x # s \/ j # i => closer'[x][j] = closer[x][j]
        BY <1>2 DEF CloseSend, TypeOK, EndOK
    <2>3. UNCHANGED <<request, streams, shut>>
        BY <1>2 DEF CloseSend
    <2> QED
        BY <2>1, <2>2, <2>3, EndsOfStream
           DEF AcceptInv, RegisteredInv, AcceptedStreamsFail
<1>3. CASE Read(s, i)
    BY <1>3 DEF Read
<1>4. CASE WriteBegin(s, i) \/ CloseWriteBegin(s, i)
    BY <1>4 DEF WriteBegin, CloseWriteBegin
<1>5. CASE WriteSend(s, i) \/ CloseWriteSend(s, i)
    BY <1>5 DEF WriteSend, CloseWriteSend
<1> QED
    BY <1>1, <1>2, <1>3, <1>4, <1>5 DEF Finish, Start

\* Every step keeps the invariant.
LEMMA NextAcceptInv == TypeOK /\ AcceptInv /\ [Next]_vars => AcceptInv'
<1> SUFFICES ASSUME TypeOK, AcceptInv, [Next]_vars PROVE AcceptInv'
    OBVIOUS
<1> USE AcceptedKept DEF acceptedVars, connVars, acceptVars, endVars
<1>1. CASE Cut
    BY <1>1 DEF Cut
<1>2. ASSUME NEW s \in Side, Step(s)
      PROVE  AcceptInv'
    <2>1. CASE Shutdown(s) \/ SessionClose(s)
        BY <2>1, ShutdownAccepted
    <2>2. CASE ReadLoop(s)
        BY <2>2, ReadLoopAccepted
    <2>3. CASE AcceptSleep(s) \/ AcceptWake(s) \/ AcceptCancel(s)
               \/ OpenBegin(s) \/ SendExtra(s)
        BY <2>3 DEF AcceptSleep, AcceptWake, AcceptCancel, OpenBegin, SendExtra
    <2>4. CASE AcceptDequeue(s) \/ AcceptDone(s)
        <3>1. UNCHANGED <<streams, closed, closer, shut>>
            BY <2>4 DEF AcceptDequeue, AcceptDone
        <3>2. \A i \in Id : request'[i] = request[i] \/ request'[i] = "taken"
            BY <2>4 DEF AcceptDequeue, AcceptDone, Dequeue, TypeOK, AcceptOK
        <3> QED
            BY <3>1, <3>2 DEF AcceptInv, RegisteredInv, AcceptedStreamsFail
    <2>5. ASSUME NEW i \in Id, Open(i) \/ OpenCancel(i)
          PROVE  AcceptInv'
        <3>1. CASE OpenReply(i)
            <4>1. UNCHANGED streams \/ NewStream(Opener(i), i)
                BY <3>1 DEF OpenReply
            <4>2. \A x \in Side : streams[x] \subseteq streams'[x]
                BY <4>1 DEF NewStream, TypeOK
            <4> QED
                BY <3>1, <4>2, StreamsGrow DEF OpenReply
        <3> QED
            BY <2>5, <3>1 DEF Open, OpenSend, OpenDone, OpenCancelSend,
                              OpenCancel
    <2>6. ASSUME NEW i \in Id, Answer(i)
          PROVE  AcceptInv'
        BY <2>6, AnswerAccepted
    <2>7. ASSUME NEW i \in Id, Read(s, i) \/ Finish(s, i) \/ Start(s, i)
          PROVE  AcceptInv'
        BY <2>7, StreamUseAccepted
    <2> QED
        BY <1>2, <2>1, <2>2, <2>3, <2>4, <2>5, <2>6, <2>7
           DEF Step, Serve, AcceptLoop, FinishAny
<1>3. CASE UNCHANGED vars
    BY <1>3 DEF vars
<1> QED
    BY <1>1, <1>2, <1>3 DEF Next

\* No stream an accept side handed out outlives the session: it is registered
\* before the peer hears of it, so shutdown finds it, unless it failed or was
\* closed before.
THEOREM AcceptedNeverOutlive == Safety => []AcceptedStreamsFail
<1>1. Init => AcceptInv
    BY EndsOfStream
       DEF Init, AcceptInv, RegisteredInv, AcceptedStreamsFail, PerEnd
<1>2. AcceptInv => AcceptedStreamsFail
    BY DEF AcceptInv
<1> QED
    BY <1>1, <1>2, Typing, NextAcceptInv, PTL DEF Safety

-----------------------------------------------------------------------------
(* The wake-up of the accept loop. *)

wakeVars == <<acc, queue, signal, loop>>

\* The read loop does not leave the point between append and signal before it
\* has signalled, and nobody else takes a signal than who wakes up by it.
LEMMA NextNoLostWakeup ==
    TypeOK /\ NoLostWakeup /\ [Next]_vars => NoLostWakeup'
<1> SUFFICES ASSUME TypeOK, NoLostWakeup, [Next]_vars PROVE NoLostWakeup'
    OBVIOUS
<1>1. CASE UNCHANGED wakeVars
    BY <1>1 DEF NoLostWakeup, wakeVars
<1>2. ASSUME NEW s \in Side, ReadLoop(s)
      PROVE  NoLostWakeup'
    <2>1. CASE HandleOpen(s)
        <3>1. CASE loop'[s] = "signal"
            <4>1. /\ \A x \in Side : x # s => queue'[x] = queue[x]
                                        /\ loop'[x] = loop[x]
                  /\ UNCHANGED <<acc, signal>>
                BY <2>1 DEF HandleOpen, Enqueue, Loop, TypeOK, LoopOK, AcceptOK
            <4> QED
                BY <3>1, <4>1 DEF NoLostWakeup
        <3>2. CASE loop'[s] # "signal"
            <4>1. loop[s] # "signal" /\ UNCHANGED <<acc, queue, signal>>
                BY <2>1, <3>2 DEF HandleOpen, Holds, Loop, TypeOK, LoopOK
            <4>2. \A x \in Side : x # s => loop'[x] = loop[x]
                BY <2>1 DEF HandleOpen, Loop, TypeOK, LoopOK
            <4> QED
                BY <4>1, <4>2 DEF NoLostWakeup
        <3> QED
            BY <3>1, <3>2
    <2>2. CASE EnqueueSignal(s)
        BY <2>2 DEF EnqueueSignal, NoLostWakeup, TypeOK, AcceptOK, LoopOK,
                    LoopNext, Loop
    <2>3. CASE ~HandleOpen(s) /\ ~EnqueueSignal(s)
        <3>1. loop[s] # "signal" /\ UNCHANGED <<acc, queue, signal>>
            BY <1>2, <2>3 DEF ReadLoop, ReadFrame, LoopEnds, LoopSend, Deliver,
               HandleBadOpen, HandleReply, HandleData, HandleClose, HandlePing,
               HandlePong, Holds, acceptVars
        <3>2. \E at, f : Loop(s, at, f)
            BY <1>2, <2>3 DEF ReadLoop, ReadFrame, LoopEnds, LoopSend, Deliver,
               HandleBadOpen, HandleReply, HandleData, HandleClose, HandlePing,
               HandlePong, LoopNext
        <3> QED
            BY <3>1, <3>2 DEF Loop, NoLostWakeup, TypeOK, LoopOK
    <2> QED
        BY <2>1, <2>2, <2>3
<1>3. ASSUME NEW s \in Side, AcceptLoop(s) \/ AcceptCancel(s)
      PROVE  NoLostWakeup'
    <2> USE DEF NoLostWakeup, TypeOK, AcceptOK, loopVars
    <2>1. CASE AcceptDequeue(s)
        <3>1. /\ acc[s] = "dequeue" /\ UNCHANGED <<acc, loop>>
              /\ \A x \in Side : x # s => queue'[x] = queue[x] /\ signal'[x] = signal[x]
            BY <2>1 DEF AcceptDequeue, Dequeue
        <3> QED
            BY <3>1
    <2>2. CASE AcceptSleep(s)
        BY <2>2 DEF AcceptSleep
    <2>3. CASE AcceptWake(s)
        BY <2>3 DEF AcceptWake
    <2>4. CASE AcceptDone(s)
        <3>1. /\ acc'[s] # "select" /\ UNCHANGED loop
              /\ \A x \in Side : x # s => /\ queue'[x] = queue[x]
                                         /\ signal'[x] = signal[x]
                                         /\ acc'[x] = acc[x]
            BY <2>4 DEF AcceptDone, Dequeue
        <3> QED
            BY <3>1
    <2>5. CASE AcceptCancel(s)
        BY <2>5 DEF AcceptCancel
    <2> QED
        BY <1>3, <2>1, <2>2, <2>3, <2>4, <2>5 DEF AcceptLoop
<1>4. ASSUME NEW s \in Side, ~ReadLoop(s), ~AcceptLoop(s), ~AcceptCancel(s), Step(s)
      PROVE  UNCHANGED wakeVars
    <2> USE DEF wakeVars, acceptVars, loopVars
    <2>1. CASE Shutdown(s) \/ SessionClose(s) \/ OpenBegin(s) \/ SendExtra(s)
        BY <2>1 DEF Shutdown, ShutdownSweep, ShutdownDone, SessionClose,
                    OpenBegin, SendExtra
    <2>2. ASSUME NEW i \in Id, Open(i) \/ OpenCancel(i)
          PROVE  UNCHANGED wakeVars
        BY <2>2 DEF Open, OpenSend, OpenReply, OpenDone, OpenCancelSend,
                    OpenCancel
    <2>3. ASSUME NEW i \in Id, Answer(i)
          PROVE  UNCHANGED wakeVars
        BY <2>3 DEF Answer, RequestAccept, RequestAcceptSend, RequestReject
    <2>4. ASSUME NEW i \in Id, Read(s, i) \/ Finish(s, i) \/ Start(s, i)
          PROVE  UNCHANGED wakeVars
        BY <2>4 DEF Read, Finish, WriteSend, CloseWriteSend, CloseSend, Start,
                    WriteBegin, CloseWriteBegin, CloseBegin
    <2> QED
        BY <1>4, <2>1, <2>2, <2>3, <2>4 DEF Step, Serve, FinishAny
<1>5. CASE Cut \/ UNCHANGED vars
    BY <1>1, <1>5 DEF Cut, vars, wakeVars, acceptVars, loopVars
<1> QED
    BY <1>1, <1>2, <1>3, <1>4, <1>5 DEF Next

\* No request waits in the queue of a sleeping accept loop without a wake-up on
\* its way.
THEOREM RequestsWake == Safety => []NoLostWakeup
<1>1. Init => NoLostWakeup
    BY DEF Init, NoLostWakeup
<1> QED
    BY <1>1, Typing, NextNoLostWakeup, PTL DEF Safety
-----------------------------------------------------------------------------
(* What the read loops write. *)

\* The places of a sequence that something was appended to.
LEMMA AppendPlaces ==
    ASSUME NEW S, NEW w \in Seq(S), NEW e \in S
    PROVE  /\ Append(w, e) \in Seq(S)
           /\ Len(w) + 1 \in DOMAIN Append(w, e) /\ Len(w) + 1 \notin DOMAIN w
           /\ Append(w, e)[Len(w) + 1] = e
           /\ \A k \in DOMAIN w : k \in DOMAIN Append(w, e) /\ Append(w, e)[k] = w[k]
           /\ \A k \in DOMAIN Append(w, e) : k \in DOMAIN w \/ k = Len(w) + 1
<1>1. /\ Append(w, e) \in Seq(S) /\ Len(Append(w, e)) = Len(w) + 1
      /\ \A k \in 1..Len(w) : Append(w, e)[k] = w[k]
      /\ Append(w, e)[Len(w) + 1] = e
    BY AppendProperties
<1>2. DOMAIN w = 1..Len(w) /\ Len(w) \in Nat
      /\ DOMAIN Append(w, e) = 1..Len(Append(w, e))
    BY <1>1
<1> QED
    BY <1>1, <1>2

\* The places of a sequence that has lost its head.
LEMMA TailPlaces ==
    ASSUME NEW S, NEW w \in Seq(S), w # <<>>
    PROVE  /\ Tail(w) \in Seq(S) /\ 1 \in DOMAIN w /\ Head(w) = w[1]
           /\ \A k \in DOMAIN Tail(w) : /\ k \in Nat /\ k # 0 /\ k + 1 \in DOMAIN w
                                        /\ Tail(w)[k] = w[k + 1]
<1>1. /\ Head(w) \in S /\ Tail(w) \in Seq(S) /\ Len(Tail(w)) = Len(w) - 1
      /\ \A k \in 1..Len(Tail(w)) : Tail(w)[k] = w[k + 1]
    BY HeadTailProperties
<1>2. /\ DOMAIN w = 1..Len(w) /\ Len(w) \in Nat /\ Len(w) # 0
      /\ DOMAIN Tail(w) = 1..Len(Tail(w))
    BY <1>1, EmptySeq
<1>3. Head(w) = w[1]
    BY <1>2
<1> QED
    BY <1>1, <1>2, <1>3

\* What is on its way after a frame write.
LEMMA Written ==
    ASSUME TypeOK, NEW s \in Side, NEW f \in Frame, Send(s, f) \/ SendFails(s)
    PROVE  \A x \in Side : \A k \in DOMAIN wire'[x] :
               \/ k \in DOMAIN wire[x] /\ wire'[x][k] = wire[x][k]
               \/ x = Peer(s) /\ k \notin DOMAIN wire[x] /\ k = Len(wire[x]) + 1
                  /\ wire'[x][k] = f
<1>1. wire \in [Side -> Seq(Frame)] /\ Peer(s) \in Side
    BY PeerIsSide DEF TypeOK, ConnOK
<1>2. CASE SendFails(s)
    BY <1>2 DEF SendFails
<1>3. CASE Send(s, f)
    <2>1. \A x \in Side : wire'[x] = IF x = Peer(s) THEN Append(wire[x], f) ELSE wire[x]
        BY <1>1, <1>3 DEF Send
    <2> SUFFICES ASSUME NEW x \in Side, NEW k \in DOMAIN wire'[x]
                 PROVE  \/ k \in DOMAIN wire[x] /\ wire'[x][k] = wire[x][k]
                        \/ x = Peer(s) /\ k \notin DOMAIN wire[x] /\ k = Len(wire[x]) + 1
                           /\ wire'[x][k] = f
        OBVIOUS
    <2>2. CASE x # Peer(s)
        BY <2>1, <2>2
    <2>3. CASE x = Peer(s)
        <3>1. wire[x] \in Seq(Frame) /\ wire'[x] = Append(wire[x], f)
            BY <1>1, <2>1, <2>3
        <3> QED
            BY <2>3, <3>1, AppendPlaces
    <2> QED
        BY <2>2, <2>3
<1> QED
    BY <1>2, <1>3

\* The frames there are.
LEMMA FramesThereAre ==
    TypeOK => \A s \in Side :
        /\ hand[s] \in Frame
        /\ \A k \in DOMAIN wire[s] : wire[s][k] \in Frame
        /\ \A k \in DOMAIN queue[s] : queue[s][k] \in Id
<1>1. TypeOK => /\ wire \in [Side -> Seq(Frame)] /\ hand \in [Side -> Frame]
                /\ queue \in [Side -> Seq(Id)]
    BY DEF TypeOK, ConnOK, LoopOK, AcceptOK
<1> QED
    BY <1>1, ElementOfSeq

\* Only a side whose peer pings meets a PING, and what a read loop writes is the
\* refusal of an open or the answer to a PING.
BeatsInv ==
    \A s \in Side :
        /\ hand[s].type = "PING" => Peer(s) \in Pingers
        /\ \A k \in DOMAIN wire[s] : wire[s][k].type = "PING" => Peer(s) \in Pingers
        /\ loop[s] = "send" => \/ hand[s].type = "OPEN_ERR"
                               \/ hand[s].type = "PONG" /\ Peer(s) \in Pingers

\* What a step does to a loop that is not about to write.
Calm ==
    \A x \in Side :
        \/ hand'[x] = hand[x] /\ loop'[x] = loop[x]
        \/ hand'[x].type # "PING" /\ loop'[x] # "send"

\* A frame write keeps it, unless a side that does not ping writes a PING.
LEMMA WriteBeats ==
    ASSUME TypeOK, BeatsInv, Calm, NEW s \in Side, NEW f \in Frame,
           Send(s, f) \/ SendFails(s), f.type = "PING" => s \in Pingers
    PROVE  BeatsInv'
<1>1. Peer(Peer(s)) = s
    BY DEF Peer, Side
<1>2. \A x \in Side : \A k \in DOMAIN wire'[x] :
          wire'[x][k].type = "PING" => Peer(x) \in Pingers
    BY <1>1, Written DEF BeatsInv
<1> QED
    BY <1>2 DEF BeatsInv, Calm

\* So does a step that leaves the connection and what the loops write alone.
LEMMA StillBeats == BeatsInv /\ UNCHANGED wire /\ Calm => BeatsInv'
BY DEF BeatsInv, Calm

\* The steps of the read loop.
LEMMA ReadLoopBeats ==
    ASSUME TypeOK, BeatsInv, NEW s \in Side, ReadLoop(s)
    PROVE  BeatsInv'
<1> USE DEF LoopNext, Loop, Holds, connVars, NoFrame, Msg, Calm
<1>h. hand \in [Side -> Frame]
      /\ loop \in [Side -> {"read", "handle", "signal", "deliver", "send", "ended"}]
    BY DEF TypeOK, LoopOK
<1>1. CASE ReadFrame(s)
    <2>1. /\ \A x \in Side \ {s} : wire'[x] = wire[x] /\ hand'[x] = hand[x]
                                  /\ loop'[x] = loop[x]
          /\ wire'[s] = Tail(wire[s]) /\ hand'[s] = Head(wire[s]) /\ loop'[s] = "handle"
          /\ wire[s] \in Seq(Frame) /\ wire[s] # <<>>
        BY <1>1, <1>h DEF ReadFrame, TypeOK, ConnOK
    <2>2. /\ 1 \in DOMAIN wire[s] /\ hand'[s] = wire[s][1]
          /\ \A k \in DOMAIN wire'[s] : k + 1 \in DOMAIN wire[s]
                                      /\ wire'[s][k] = wire[s][k + 1]
        BY <2>1, TailPlaces
    <2> QED
        <3>1. ASSUME NEW x \in Side, x # s
              PROVE  /\ hand'[x].type = "PING" => Peer(x) \in Pingers
                     /\ \A k \in DOMAIN wire'[x] :
                            wire'[x][k].type = "PING" => Peer(x) \in Pingers
                     /\ loop'[x] = "send" => \/ hand'[x].type = "OPEN_ERR"
                                            \/ /\ hand'[x].type = "PONG"
                                               /\ Peer(x) \in Pingers
            BY <2>1, <3>1 DEF BeatsInv
        <3>2. /\ hand'[s].type = "PING" => Peer(s) \in Pingers
              /\ \A k \in DOMAIN wire'[s] :
                     wire'[s][k].type = "PING" => Peer(s) \in Pingers
            BY <2>2 DEF BeatsInv
        <3> QED
            BY <2>1, <3>1, <3>2 DEF BeatsInv
<1>2. CASE LoopEnds(s)
    BY <1>2, <1>h, StillBeats DEF LoopEnds
<1>3. CASE LoopSend(s)
    <2>1. hand[s] \in Frame /\ hand[s].type # "PING"
        BY <1>3, <1>h DEF LoopSend, BeatsInv
    <2> QED
        BY <1>3, <1>h, <2>1, WriteBeats DEF LoopSend, Attempt
<1>4. CASE Deliver(s)
    BY <1>4, <1>h, StillBeats DEF Deliver
<1>5. CASE HandleOpen(s)
    <2>1. UNCHANGED wire
        BY <1>5 DEF HandleOpen
    <2>2. \A x \in Side :
              \/ hand'[x] = hand[x] /\ loop'[x] = loop[x]
              \/ hand'[x].type # "PING" /\ loop'[x] # "send"
              \/ hand'[x].type = "OPEN_ERR"
        BY <1>5, <1>h DEF HandleOpen
    <2> QED
        BY <2>1, <2>2 DEF BeatsInv
<1>6. CASE HandleBadOpen(s)
    <2>1. UNCHANGED wire
        BY <1>6 DEF HandleBadOpen
    <2>2. \A x \in Side :
              \/ hand'[x] = hand[x] /\ loop'[x] = loop[x]
              \/ hand'[x].type = "OPEN_ERR"
        BY <1>6, <1>h DEF HandleBadOpen
    <2> QED
        BY <2>1, <2>2 DEF BeatsInv
<1>7. CASE EnqueueSignal(s)
    BY <1>7, <1>h, StillBeats DEF EnqueueSignal
<1>8. CASE HandleReply(s)
    BY <1>8, <1>h, StillBeats DEF HandleReply
<1>9. CASE HandleData(s)
    BY <1>9, <1>h DEF HandleData, BeatsInv
<1>10. CASE HandleClose(s)
    BY <1>10, <1>h, StillBeats DEF HandleClose
<1>11. CASE HandlePing(s)
    BY <1>11, <1>h DEF HandlePing, BeatsInv
<1>12. CASE HandlePong(s)
    BY <1>12, <1>h, StillBeats DEF HandlePong
<1> QED
    BY <1>1, <1>2, <1>3, <1>4, <1>5, <1>6, <1>7, <1>8, <1>9, <1>10, <1>11,
       <1>12 DEF ReadLoop

\* Frames that the others write.
LEMMA WritersBeats ==
    ASSUME TypeOK, BeatsInv, NEW s \in Side, NEW i \in Id,
           \/ Opener(i) = s /\ (OpenSend(i) \/ OpenCancelSend(i))
           \/ Acceptor(i) = s /\ (RequestAcceptSend(i) \/ RequestReject(i))
           \/ Finish(s, i)
    PROVE  BeatsInv'
<1>1. PICK f \in Frame : f.type # "PING" /\ (Send(s, f) \/ SendFails(s))
    <2>1. \A t \in {"OPEN", "OPEN_OK", "CLOSE", "CLOSEW"} :
              Msg(t, i) \in Frame /\ Msg(t, i).type # "PING"
        BY MsgIsFrame DEF StreamType, Msg
    <2>2. Msg("OPEN_ERR", i) \in Frame /\ Msg("OPEN_ERR", i).type # "PING"
        BY MsgIsFrame DEF ControlType, Msg
    <2>3. CASE Opener(i) = s /\ (OpenSend(i) \/ OpenCancelSend(i))
        BY <2>1, <2>3 DEF OpenSend, OpenCancelSend, SendFinal
    <2>4. CASE Acceptor(i) = s /\ (RequestAcceptSend(i) \/ RequestReject(i))
        BY <2>1, <2>2, <2>4 DEF RequestAcceptSend, RequestReject, Attempt
    <2>5. CASE WriteSend(s, i)
        <3>1. sent[s][i] + 1 \in 0..MaxData
            BY <2>5, MuxAssumption DEF WriteSend, TypeOK, EndOK
        <3>2. [type |-> "DATA", id |-> i, n |-> sent[s][i] + 1] \in Frame
            BY <3>1 DEF Frame, StreamType
        <3> QED
            BY <2>5, <3>2 DEF WriteSend
    <2>6. CASE CloseWriteSend(s, i) \/ CloseSend(s, i)
        BY <2>1, <2>6 DEF CloseWriteSend, CloseSend, SendFinal
    <2> QED
        BY <2>3, <2>4, <2>5, <2>6 DEF Finish
<1>2. UNCHANGED loopVars
    BY DEF OpenSend, OpenCancelSend, RequestAcceptSend, RequestReject, Finish, WriteSend,
           CloseWriteSend, CloseSend
<1> QED
    BY <1>1, <1>2, WriteBeats DEF loopVars, Calm

\* Every step keeps the invariant.
LEMMA NextBeatsInv == TypeOK /\ BeatsInv /\ [Next]_vars => BeatsInv'
<1> SUFFICES ASSUME TypeOK, BeatsInv, [Next]_vars PROVE BeatsInv'
    OBVIOUS
<1> USE StillBeats
<1>1. CASE Cut
    BY <1>1 DEF Cut, loopVars, Calm
<1>2. ASSUME NEW s \in Side, Step(s)
      PROVE  BeatsInv'
    <2> USE DEF connVars, loopVars, Calm
    <2>1. CASE Shutdown(s) \/ SessionClose(s) \/ OpenBegin(s)
        BY <2>1 DEF Shutdown, ShutdownSweep, ShutdownDone, SessionClose, OpenBegin
    <2>2. CASE ReadLoop(s)
        BY <2>2, ReadLoopBeats
    <2>3. CASE AcceptLoop(s) \/ AcceptCancel(s)
        BY <2>3 DEF AcceptLoop, AcceptDequeue, AcceptSleep, AcceptWake, AcceptDone,
                    AcceptCancel
    <2>4. CASE SendExtra(s)
        <3>1. PICK t \in Foreign \cup (IF s \in Pingers THEN {"PING"} ELSE {}) :
                  Send(s, Msg(t, 0))
            BY <2>4 DEF SendExtra
        <3>2. t \in ControlType
            BY MuxAssumption DEF ControlType
        <3>3. Msg(t, 0) \in Frame /\ (Msg(t, 0).type = "PING" => s \in Pingers)
            BY <3>1, <3>2, MsgIsFrame, MuxAssumption DEF Msg
        <3> QED
            BY <2>4, <3>1, <3>3, WriteBeats DEF SendExtra
    <2>5. ASSUME NEW i \in Id, Opener(i) = s, Open(i) \/ OpenCancel(i)
          PROVE  BeatsInv'
        <3>1. CASE OpenSend(i) \/ OpenCancelSend(i)
            BY <2>5, <3>1, WritersBeats
        <3>2. CASE OpenReply(i) \/ OpenDone(i) \/ OpenCancel(i)
            BY <3>2 DEF OpenReply, OpenDone, OpenCancel
        <3> QED
            BY <2>5, <3>1, <3>2 DEF Open
    <2>6. ASSUME NEW i \in Id, Acceptor(i) = s, Answer(i)
          PROVE  BeatsInv'
        <3>1. CASE RequestAcceptSend(i) \/ RequestReject(i)
            BY <2>6, <3>1, WritersBeats
        <3>2. CASE RequestAccept(i)
            BY <3>2 DEF RequestAccept
        <3> QED
            BY <2>6, <3>1, <3>2 DEF Answer
    <2>7. ASSUME NEW i \in Id, Finish(s, i)
          PROVE  BeatsInv'
        BY <2>7, WritersBeats
    <2>8. ASSUME NEW i \in Id, Read(s, i) \/ Start(s, i)
          PROVE  BeatsInv'
        BY <2>8 DEF Read, Start, WriteBegin, CloseWriteBegin, CloseBegin
    <2> QED
        BY <1>2, <2>1, <2>2, <2>3, <2>4, <2>5, <2>6, <2>7, <2>8
           DEF Step, Serve, FinishAny
<1>3. CASE UNCHANGED vars
    BY <1>3 DEF vars, connVars, loopVars, Calm
<1> QED
    BY <1>1, <1>2, <1>3 DEF Next

\* Read loops that block each other are refusing an open, unless both sides send
\* heartbeats: a PONG answers a PING of the peer, and nothing else makes a read
\* loop write.
THEOREM OnlyRefusalsBlock == Safety => []LoopsBlockOnRefusal
<1>1. Init => BeatsInv
    BY DEF Init, BeatsInv, NoFrame, Msg
<1>2. BeatsInv => LoopsBlockOnRefusal
    BY MuxAssumption DEF BeatsInv, LoopsBlockOnRefusal, LoopBlocked, Side, Peer
<1> QED
    BY <1>1, <1>2, Typing, NextBeatsInv, PTL DEF Safety
-----------------------------------------------------------------------------
(* Opens and their answers. *)

\* An OPEN on its way to s, or in the hand of its read loop, is of an id that the
\* other side chose and of a call that has sent it, and has made no request yet; an
\* OPEN_OK is that of an accepted request.
Fits(s, f) ==
    /\ f.type = "OPEN" => /\ s = Acceptor(f.id) /\ request[f.id] = "none"
                          /\ opener[f.id] \notin {"none", "sending"}
    /\ f.type = "OPEN_OK" => request[f.id] = "accepted"

FramesInv ==
    \A s \in Side :
        Fits(s, hand[s]) /\ \A k \in DOMAIN wire[s] : Fits(s, wire[s][k])

\* A call sends one OPEN.
OnceInv ==
    \A s \in Side :
        /\ \A k, l \in DOMAIN wire[s] :
               /\ wire[s][k].type = "OPEN" /\ wire[s][l].type = "OPEN"
               /\ wire[s][k].id = wire[s][l].id
               => k = l
        /\ hand[s].type = "OPEN" =>
               \A k \in DOMAIN wire[s] :
                   wire[s][k].type = "OPEN" => wire[s][k].id # hand[s].id

\* The queue holds each request once, until it is taken.
QueueInv ==
    \A s \in Side :
        /\ \A k \in DOMAIN queue[s] :
               request[queue[s][k]] = "queued" /\ Acceptor(queue[s][k]) = s
        /\ \A k, l \in DOMAIN queue[s] : queue[s][k] = queue[s][l] => k = l

\* An id that was not given out has no call, one whose OPEN was not sent has no
\* request, and a call is answered yes where the request was accepted.
AnswersInv ==
    \A i \in Id :
        /\ opener[i] # "none" => i < nextID[Opener(i)]
        /\ request[i] # "none" => opener[i] \notin {"none", "sending"}
        /\ reply[i] = "ok" \/ opener[i] = "open" => request[i] = "accepted"

OpensInv == FramesInv /\ OnceInv /\ QueueInv /\ AnswersInv

\* A step that neither sends nor takes up an OPEN or an OPEN_OK, ...
QuietWire ==
    \A x \in Side :
        /\ hand'[x] = hand[x] \/ hand'[x].type \notin {"OPEN", "OPEN_OK"}
        /\ \A k \in DOMAIN wire'[x] :
               \/ k \in DOMAIN wire[x] /\ wire'[x][k] = wire[x][k]
               \/ wire'[x][k].type \notin {"OPEN", "OPEN_OK"}

\* ... and that begins no call, and answers yes only where the request was accepted.
QuietCalls ==
    /\ UNCHANGED <<nextID, queue>>
    /\ \A i \in Id :
           /\ \/ opener'[i] = opener[i]
              \/ opener[i] # "none" /\ opener'[i] \notin {"none", "sending", "open"}
              \/ request[i] = "accepted" /\ opener[i] = "waiting" /\ opener'[i] = "open"
           /\ \/ request'[i] = request[i]
              \/ request[i] \notin {"none", "queued", "accepted"} /\ request'[i] # "none"
           /\ reply'[i] = reply[i] \/ reply'[i] # "ok" \/ request[i] = "accepted"

\* Such a step keeps the invariant.
LEMMA QuietOpens == TypeOK /\ OpensInv /\ QuietWire /\ QuietCalls => OpensInv'
<1> SUFFICES ASSUME TypeOK, OpensInv, QuietWire, QuietCalls PROVE OpensInv'
    OBVIOUS
<1>1. \A s \in Side : hand[s] \in Frame /\ \A k \in DOMAIN wire[s] : wire[s][k] \in Frame
    <2>1. wire \in [Side -> Seq(Frame)] /\ hand \in [Side -> Frame]
        BY DEF TypeOK, ConnOK, LoopOK
    <2> QED
        BY <2>1, ElementOfSeq
<1>2. ASSUME NEW s \in Side, NEW f \in Frame, Fits(s, f)
      PROVE  Fits(s, f)'
    <2>1. f.type \in {"OPEN", "OPEN_OK"} => f.id \in Id
        BY FrameFields DEF StreamType
    <2> QED
        BY <1>2, <2>1 DEF Fits, QuietCalls
<1>3. FramesInv'
    BY <1>1, <1>2 DEF OpensInv, FramesInv, QuietWire, Fits
<1>4. OnceInv'
    BY DEF OpensInv, OnceInv, QuietWire
<1>5. QueueInv'
    <2>1. \A s \in Side : \A k \in DOMAIN queue[s] : queue[s][k] \in Id
        <3>1. queue \in [Side -> Seq(Id)]
            BY DEF TypeOK, AcceptOK
        <3> QED
            BY <3>1, ElementOfSeq
    <2> QED
        BY <2>1 DEF OpensInv, QueueInv, QuietCalls
<1>6. AnswersInv'
    BY EndsOfStream DEF OpensInv, AnswersInv, QuietCalls
<1> QED
    BY <1>3, <1>4, <1>5, <1>6 DEF OpensInv

\* Frames of other types are quiet, whether the write succeeds or fails.
LEMMA QuietWrite ==
    ASSUME TypeOK, NEW s \in Side, NEW f \in Frame, f.type \notin {"OPEN", "OPEN_OK"},
           \/ Send(s, f) \/ SendFails(s)
           \/ UNCHANGED wire,
           \A x \in Side : hand'[x] = hand[x] \/ hand'[x].type \notin {"OPEN", "OPEN_OK"}
    PROVE  QuietWire
<1>1. CASE Send(s, f) \/ SendFails(s)
    BY <1>1, Written DEF QuietWire
<1>2. CASE UNCHANGED wire
    BY <1>2 DEF QuietWire
<1> QED
    BY <1>1, <1>2

\* The frame that a read loop takes up is the first, and its only copy.
LEMMA ReadFrameOpens ==
    ASSUME TypeOK, OpensInv, NEW s \in Side, ReadFrame(s)
    PROVE  OpensInv'
<1>1. /\ UNCHANGED <<nextID, opener, reply, request, queue>>
      /\ \A x \in Side \ {s} : wire'[x] = wire[x] /\ hand'[x] = hand[x]
      /\ wire'[s] = Tail(wire[s]) /\ hand'[s] = Head(wire[s])
      /\ wire[s] \in Seq(Frame) /\ wire[s] # <<>>
    BY DEF ReadFrame, Loop, openVars, acceptVars, TypeOK, ConnOK, LoopOK
<1>2. /\ 1 \in DOMAIN wire[s] /\ hand'[s] = wire[s][1]
      /\ \A k \in DOMAIN wire'[s] : /\ k \in Nat /\ k # 0 /\ k + 1 \in DOMAIN wire[s]
                                  /\ wire'[s][k] = wire[s][k + 1]
    BY <1>1, TailPlaces
<1>4. FramesInv'
    <2>1. \A x \in Side \ {s} :
              Fits(x, hand[x])' /\ \A k \in DOMAIN wire'[x] : Fits(x, wire[x][k])'
        BY <1>1 DEF OpensInv, FramesInv, Fits
    <2>2. Fits(s, hand[s])'
        BY <1>1, <1>2 DEF OpensInv, FramesInv, Fits
    <2>3. \A k \in DOMAIN wire'[s] : Fits(s, wire[s][k])'
        BY <1>1, <1>2 DEF OpensInv, FramesInv, Fits
    <2> QED
        BY <2>1, <2>2, <2>3 DEF FramesInv
<1>5. OnceInv'
    <2> SUFFICES ASSUME NEW x \in Side
                 PROVE  /\ \A k, l \in DOMAIN wire'[x] :
                               /\ wire'[x][k].type = "OPEN" /\ wire'[x][l].type = "OPEN"
                               /\ wire'[x][k].id = wire'[x][l].id
                               => k = l
                        /\ hand'[x].type = "OPEN" =>
                               \A k \in DOMAIN wire'[x] :
                                   wire'[x][k].type = "OPEN"
                                       => wire'[x][k].id # hand'[x].id
        BY DEF OnceInv
    <2>1. CASE x # s
        BY <1>1, <2>1 DEF OpensInv, OnceInv
    <2>2. CASE x = s
        <3>1. ASSUME NEW k \in DOMAIN wire'[s], NEW l \in DOMAIN wire'[s],
                     wire'[s][k].type = "OPEN", wire'[s][l].type = "OPEN",
                     wire'[s][k].id = wire'[s][l].id
              PROVE  k = l
            <4>1. k + 1 = l + 1
                BY <1>2, <3>1 DEF OpensInv, OnceInv
            <4> QED
                BY <1>2, <4>1
        <3>2. ASSUME hand'[s].type = "OPEN", NEW k \in DOMAIN wire'[s],
                     wire'[s][k].type = "OPEN", wire'[s][k].id = hand'[s].id
              PROVE  FALSE
            <4>1. k + 1 = 1
                BY <1>2, <3>2 DEF OpensInv, OnceInv
            <4> QED
                BY <1>2, <4>1
        <3> QED
            BY <2>2, <3>1, <3>2
    <2> QED
        BY <2>1, <2>2
<1>6. QueueInv' /\ AnswersInv'
    BY <1>1 DEF OpensInv, QueueInv, AnswersInv
<1> QED
    BY <1>4, <1>5, <1>6 DEF OpensInv

\* The request of the OPEN in hand is new: it joins the queue.
LEMMA EnqueueOpens ==
    ASSUME TypeOK, OpensInv, NEW s \in Side, Holds(s, {"OPEN"}),
           Enqueue(s, hand[s].id), Loop(s, "signal", NoFrame),
           UNCHANGED <<wire, nextID, opener, reply>>
    PROVE  OpensInv'
<1> DEFINE i == hand[s].id
<1>1. /\ i \in Id /\ s = Acceptor(i) /\ request[i] = "none"
      /\ opener[i] \notin {"none", "sending"}
    <2>1. hand[s] \in Frame /\ hand[s].type = "OPEN" /\ Fits(s, hand[s])
        BY FramesThereAre DEF Holds, OpensInv, FramesInv
    <2> QED
        BY <2>1, FrameFields DEF Fits, StreamType
<1>2. /\ queue[s] \in Seq(Id)
      /\ \A x \in Side : queue'[x] = IF x = s THEN Append(queue[s], i) ELSE queue[x]
      /\ \A j \in Id : request'[j] = IF j = i THEN "queued" ELSE request[j]
      /\ \A x \in Side : hand'[x] = IF x = s THEN NoFrame ELSE hand[x]
    BY <1>1 DEF Enqueue, Loop, TypeOK, AcceptOK, LoopOK
<1>3. FramesInv'
    <2>1. ASSUME NEW x \in Side, NEW f \in Frame, Fits(x, f), f.type = "OPEN" => f.id # i
          PROVE  Fits(x, f)'
        <3>1. f.type \in {"OPEN", "OPEN_OK"} => f.id \in Id
            BY FrameFields DEF StreamType
        <3> QED
            BY <1>1, <1>2, <2>1, <3>1 DEF Fits
    <2>2. ASSUME NEW x \in Side, NEW k \in DOMAIN wire[x]
          PROVE  /\ wire[x][k] \in Frame /\ Fits(x, wire[x][k])
                 /\ wire[x][k].type = "OPEN" => wire[x][k].id # i
        <3>1. wire[x][k] \in Frame /\ Fits(x, wire[x][k])
            BY FramesThereAre DEF OpensInv, FramesInv
        <3>2. wire[x][k].type = "OPEN" /\ wire[x][k].id = i => x = s
            BY <1>1, <3>1 DEF Fits
        <3> QED
            BY <3>1, <3>2 DEF OpensInv, OnceInv, Holds
    <2>3. ASSUME NEW x \in Side \ {s}
          PROVE  /\ hand[x] \in Frame /\ Fits(x, hand[x])
                 /\ hand[x].type = "OPEN" => hand[x].id # i
        BY <1>1, FramesThereAre DEF OpensInv, FramesInv, Fits
    <2>4. ASSUME NEW x \in Side
          PROVE  Fits(x, hand[x])'
        <3>1. CASE x = s
            BY <1>2, <3>1 DEF Fits, NoFrame, Msg
        <3>2. CASE x # s
            BY <1>2, <2>1, <2>3, <3>2 DEF Fits
        <3> QED
            BY <3>1, <3>2
    <2>5. ASSUME NEW x \in Side, NEW k \in DOMAIN wire'[x]
          PROVE  Fits(x, wire[x][k])'
        BY <2>1, <2>2 DEF Fits
    <2> QED
        BY <2>4, <2>5 DEF FramesInv
<1>4. OnceInv'
    BY <1>2 DEF OpensInv, OnceInv, NoFrame, Msg
<1>5. QueueInv'
    <2>1. \A x \in Side : \A k \in DOMAIN queue[x] : queue[x][k] # i
        BY <1>1 DEF OpensInv, QueueInv
    <2>2. \A k \in DOMAIN queue'[s] :
              \/ k \in DOMAIN queue[s] /\ queue'[s][k] = queue[s][k]
              \/ k = Len(queue[s]) + 1 /\ queue'[s][k] = i
        <3>1. /\ Append(queue[s], i)[Len(queue[s]) + 1] = i
              /\ \A k \in DOMAIN queue[s] : Append(queue[s], i)[k] = queue[s][k]
              /\ \A k \in DOMAIN Append(queue[s], i) :
                     k \in DOMAIN queue[s] \/ k = Len(queue[s]) + 1
            BY <1>1, <1>2, AppendPlaces
        <3> QED
            BY <1>2, <3>1
    <2>3. ASSUME NEW x \in Side, NEW k \in DOMAIN queue'[x]
          PROVE  request'[queue'[x][k]] = "queued" /\ Acceptor(queue'[x][k]) = x
        BY <1>1, <1>2, <2>2, FramesThereAre DEF OpensInv, QueueInv
    <2>4. ASSUME NEW x \in Side, NEW k \in DOMAIN queue'[x], NEW l \in DOMAIN queue'[x],
                 queue'[x][k] = queue'[x][l]
          PROVE  k = l
        <3>1. CASE x = s
            BY <2>1, <2>2, <2>4, <3>1 DEF OpensInv, QueueInv
        <3>2. CASE x # s
            BY <1>2, <2>4, <3>2 DEF OpensInv, QueueInv
        <3> QED
            BY <3>1, <3>2
    <2> QED
        BY <2>3, <2>4 DEF QueueInv
<1>6. AnswersInv'
    BY <1>1, <1>2 DEF OpensInv, AnswersInv
<1> QED
    BY <1>3, <1>4, <1>5, <1>6 DEF OpensInv

\* The steps of the read loop.
LEMMA ReadLoopOpens ==
    ASSUME TypeOK, BeatsInv, OpensInv, NEW s \in Side, ReadLoop(s)
    PROVE  OpensInv'
<1> USE QuietOpens DEF QuietCalls, LoopNext, Loop, Holds, connVars, openVars, acceptVars,
        NoFrame, Msg
<1>h. hand \in [Side -> Frame]
    BY DEF TypeOK, LoopOK
<1>1. CASE ReadFrame(s)
    BY <1>1, ReadFrameOpens
<1>2. CASE LoopEnds(s)
    <2>1. QuietWire
        BY <1>2, <1>h DEF LoopEnds, QuietWire
    <2> QED
        BY <1>2, <2>1 DEF LoopEnds
<1>3. CASE LoopSend(s)
    <2>1. hand[s] \in Frame /\ hand[s].type \notin {"OPEN", "OPEN_OK"}
        BY <1>3, <1>h DEF LoopSend, BeatsInv
    <2>2. \A x \in Side : hand'[x] = hand[x] \/ hand'[x].type \notin {"OPEN", "OPEN_OK"}
        BY <1>3, <1>h DEF LoopSend
    <2>3. QuietWire
        BY <1>3, <2>1, <2>2, QuietWrite DEF LoopSend, Attempt
    <2> QED
        BY <1>3, <2>3 DEF LoopSend
<1>4. CASE Deliver(s)
    <2>1. QuietWire
        BY <1>4, <1>h DEF Deliver, QuietWire
    <2> QED
        BY <1>4, <2>1 DEF Deliver
<1>5. CASE HandleOpen(s)
    <2>1. CASE Enqueue(s, hand[s].id) /\ Loop(s, "signal", NoFrame)
        BY <1>5, <2>1, EnqueueOpens DEF HandleOpen
    <2>2. CASE /\ Len(queue[s]) >= MaxPendingOpens
               /\ Loop(s, "send", Msg("OPEN_ERR", hand[s].id))
               /\ UNCHANGED <<queue, request>>
        <3>1. QuietWire
            BY <1>5, <1>h, <2>2 DEF HandleOpen, QuietWire
        <3> QED
            BY <1>5, <2>2, <3>1 DEF HandleOpen
    <2> QED
        BY <1>5, <2>1, <2>2 DEF HandleOpen
<1>6. CASE HandleBadOpen(s)
    <2>1. QuietWire
        BY <1>6, <1>h DEF HandleBadOpen, QuietWire
    <2> QED
        BY <1>6, <2>1 DEF HandleBadOpen
<1>7. CASE EnqueueSignal(s)
    <2>1. QuietWire
        BY <1>7, <1>h DEF EnqueueSignal, QuietWire
    <2> QED
        BY <1>7, <2>1 DEF EnqueueSignal
<1>8. CASE HandleReply(s)
    <2>1. QuietWire
        BY <1>8, <1>h DEF HandleReply, QuietWire
    <2>2. hand[s].type = "OPEN_OK" => request[hand[s].id] = "accepted"
        BY DEF OpensInv, FramesInv, Fits
    <2>3. \A i \in Id : reply'[i] = reply[i] \/ reply'[i] # "ok" \/ request[i] = "accepted"
        BY <1>8, <2>2 DEF HandleReply, TypeOK, OpenOK
    <2> QED
        BY <1>8, <2>1, <2>3 DEF HandleReply
<1>9. CASE HandleData(s)
    <2>1. QuietWire
        BY <1>9, <1>h DEF HandleData, QuietWire
    <2> QED
        BY <1>9, <2>1 DEF HandleData
<1>10. CASE HandleClose(s)
    <2>1. QuietWire
        BY <1>10, <1>h DEF HandleClose, QuietWire
    <2> QED
        BY <1>10, <2>1 DEF HandleClose
<1>11. CASE HandlePing(s)
    <2>1. QuietWire
        BY <1>11, <1>h DEF HandlePing, QuietWire
    <2> QED
        BY <1>11, <2>1 DEF HandlePing
<1>12. CASE HandlePong(s)
    <2>1. QuietWire
        BY <1>12, <1>h DEF HandlePong, QuietWire
    <2> QED
        BY <1>12, <2>1 DEF HandlePong
<1> QED
    BY <1>1, <1>2, <1>3, <1>4, <1>5, <1>6, <1>7, <1>8, <1>9, <1>10, <1>11,
       <1>12 DEF ReadLoop

\* A new call takes an id that no call has had.
LEMMA OpenBeginOpens ==
    ASSUME TypeOK, CallsInv, OpensInv, NEW s \in Side, OpenBegin(s)
    PROVE  OpensInv'
<1> DEFINE i == nextID[s]
<1>1. /\ i \in Id /\ Opener(i) = s /\ opener[i] = "none" /\ request[i] = "none"
      /\ nextID \in [Side -> Nat] /\ DOMAIN opener = Id
    <2>1. i \in Id /\ Opener(i) = s /\ i \in Nat
        BY MuxAssumption DEF OpenBegin, CallsInv, Id
    <2>2. opener[i] = "none"
        BY <2>1 DEF OpensInv, AnswersInv
    <2> QED
        BY <2>1, <2>2 DEF OpensInv, AnswersInv, TypeOK, OpenOK
<1>2. /\ \A j \in Id : opener'[j] = IF j = i THEN "sending" ELSE opener[j]
      /\ \A x \in Side : nextID'[x] = IF x = s THEN nextID[s] + 2 ELSE nextID[x]
      /\ UNCHANGED <<wire, hand, queue, request, reply>>
    BY <1>1 DEF OpenBegin, connVars, loopVars, acceptVars
<1>3. FramesInv'
    <2>1. ASSUME NEW x \in Side, NEW f \in Frame, Fits(x, f)
          PROVE  Fits(x, f)'
        <3>1. f.type \in {"OPEN", "OPEN_OK"} => f.id \in Id
            BY FrameFields DEF StreamType
        <3> QED
            BY <1>1, <1>2, <2>1, <3>1 DEF Fits
    <2> QED
        BY <1>2, <2>1, FramesThereAre DEF OpensInv, FramesInv, Fits
<1>4. OnceInv' /\ QueueInv'
    BY <1>2 DEF OpensInv, OnceInv, QueueInv
<1>5. AnswersInv'
    <2> SUFFICES ASSUME NEW j \in Id
                 PROVE  /\ opener'[j] # "none" => j < nextID'[Opener(j)]
                        /\ request'[j] # "none" => opener'[j] \notin {"none", "sending"}
                        /\ reply'[j] = "ok" \/ opener'[j] = "open"
                               => request'[j] = "accepted"
        BY DEF AnswersInv
    <2>1. opener'[j] # "none" => j < nextID'[Opener(j)]
        BY <1>1, <1>2, EndsOfStream DEF OpensInv, AnswersInv, Id
    <2> QED
        BY <1>1, <1>2, <2>1 DEF OpensInv, AnswersInv
<1> QED
    BY <1>3, <1>4, <1>5 DEF OpensInv

\* The OPEN of a call is the only one of its id: no other was sent.
LEMMA OpenSendOpens ==
    ASSUME TypeOK, OpensInv, NEW i \in Id, OpenSend(i)
    PROVE  OpensInv'
<1> DEFINE s == Opener(i)  f == Msg("OPEN", i)
<1>1. s \in Side /\ f \in Frame /\ f.type = "OPEN" /\ f.id = i /\ Peer(s) = Acceptor(i)
    BY EndsOfStream, MsgIsFrame DEF StreamType, Msg, Acceptor
<1>2. CASE Send(s, f) /\ opener' = [opener EXCEPT ![i] = "waiting"] /\ UNCHANGED pending
    <2>1. /\ \A j \in Id : opener'[j] = IF j = i THEN "waiting" ELSE opener[j]
          /\ opener[i] = "sending" /\ request[i] = "none"
          /\ UNCHANGED <<hand, queue, request, reply, nextID>>
        BY <1>2 DEF OpenSend, loopVars, acceptVars, TypeOK, OpenOK, OpensInv, AnswersInv
    <2>2. ASSUME NEW x \in Side, NEW k \in DOMAIN wire'[x]
          PROVE  \/ k \in DOMAIN wire[x] /\ wire'[x][k] = wire[x][k]
                 \/ x = Peer(s) /\ k \notin DOMAIN wire[x] /\ k = Len(wire[x]) + 1
                    /\ wire'[x][k] = f
        BY <1>1, <1>2, Written
    <2>3. ASSUME NEW x \in Side, NEW g \in Frame, Fits(x, g)
          PROVE  Fits(x, g)'
        <3>1. g.type \in {"OPEN", "OPEN_OK"} => g.id \in Id
            BY FrameFields DEF StreamType
        <3> QED
            BY <2>1, <2>3, <3>1 DEF Fits
    <2>4. FramesInv'
        <3>1. \A x \in Side : Fits(x, hand[x])'
            BY <2>1, <2>3, FramesThereAre DEF OpensInv, FramesInv, Fits
        <3>2. ASSUME NEW x \in Side, NEW k \in DOMAIN wire'[x]
              PROVE  Fits(x, wire[x][k])'
            <4>1. CASE k \in DOMAIN wire[x] /\ wire'[x][k] = wire[x][k]
                BY <2>3, <4>1, FramesThereAre DEF OpensInv, FramesInv, Fits
            <4>2. CASE x = Peer(s) /\ wire'[x][k] = f
                BY <1>1, <2>1, <4>2 DEF Fits
            <4> QED
                BY <2>2, <4>1, <4>2
        <3> QED
            BY <3>1, <3>2 DEF FramesInv
    <2>5. OnceInv'
        <3>1. \A x \in Side : /\ hand[x].type = "OPEN" => hand[x].id # i
                             /\ \A k \in DOMAIN wire[x] :
                                    wire[x][k].type = "OPEN" => wire[x][k].id # i
            BY <2>1 DEF OpensInv, FramesInv, Fits
        <3>2. ASSUME NEW x \in Side, NEW k \in DOMAIN wire'[x], NEW l \in DOMAIN wire'[x],
                     wire'[x][k].type = "OPEN", wire'[x][l].type = "OPEN",
                     wire'[x][k].id = wire'[x][l].id
              PROVE  k = l
            <4>1. CASE wire'[x][k].id = i
                <5>1. k \notin DOMAIN wire[x]
                    BY <2>2, <3>1, <3>2, <4>1
                <5>2. l \notin DOMAIN wire[x]
                    <6>1. wire'[x][l].id = i
                        BY <3>2, <4>1
                    <6> QED
                        BY <2>2, <3>1, <3>2, <6>1
                <5> QED
                    BY <2>2, <5>1, <5>2
            <4>2. CASE wire'[x][k].id # i
                BY <1>1, <2>2, <3>2, <4>2 DEF OpensInv, OnceInv
            <4> QED
                BY <4>1, <4>2
        <3>3. ASSUME NEW x \in Side, hand'[x].type = "OPEN", NEW k \in DOMAIN wire'[x],
                     wire'[x][k].type = "OPEN"
              PROVE  wire'[x][k].id # hand'[x].id
            BY <1>1, <2>1, <2>2, <3>1, <3>3 DEF OpensInv, OnceInv
        <3> QED
            BY <3>2, <3>3 DEF OnceInv
    <2>6. QueueInv' /\ AnswersInv'
        BY <2>1 DEF OpensInv, QueueInv, AnswersInv
    <2> QED
        BY <2>4, <2>5, <2>6 DEF OpensInv
<1>3. CASE SendFails(s) /\ opener' = [opener EXCEPT ![i] = "failed"]
    <2>1. QuietWire
        BY <1>3 DEF OpenSend, SendFails, loopVars, QuietWire
    <2>2. QuietCalls
        BY <1>3 DEF OpenSend, QuietCalls, acceptVars, TypeOK, OpenOK
    <2> QED
        BY <2>1, <2>2, QuietOpens
<1> QED
    BY <1>2, <1>3 DEF OpenSend

\* The request at the head of the queue is taken: it is there once.
LEMMA DequeueOpens ==
    ASSUME TypeOK, OpensInv, NEW s \in Side, Dequeue(s),
           UNCHANGED <<wire, hand, nextID, opener, reply>>
    PROVE  OpensInv'
<1> DEFINE i == Head(queue[s])
<1>1. /\ queue[s] \in Seq(Id) /\ queue[s] # <<>>
      /\ \A x \in Side : queue'[x] = IF x = s THEN Tail(queue[s]) ELSE queue[x]
    BY DEF Dequeue, TypeOK, AcceptOK
<1>2. /\ 1 \in DOMAIN queue[s] /\ i = queue[s][1]
      /\ \A k \in DOMAIN queue'[s] : /\ k \in Nat /\ k # 0 /\ k + 1 \in DOMAIN queue[s]
                                   /\ queue'[s][k] = queue[s][k + 1]
    <2>1. queue'[s] = Tail(queue[s])
        BY <1>1
    <2>2. /\ 1 \in DOMAIN queue[s] /\ Head(queue[s]) = queue[s][1]
          /\ \A k \in DOMAIN Tail(queue[s]) :
                 /\ k \in Nat /\ k # 0 /\ k + 1 \in DOMAIN queue[s]
                 /\ Tail(queue[s])[k] = queue[s][k + 1]
        BY <1>1, TailPlaces
    <2> QED
        BY <2>1, <2>2
<1>3. i \in Id /\ request[i] = "queued" /\ Acceptor(i) = s
    BY <1>2, FramesThereAre DEF OpensInv, QueueInv
<1>4. \A j \in Id : request'[j] = IF j = i THEN "taken" ELSE request[j]
    BY <1>3 DEF Dequeue, TypeOK, AcceptOK
<1>5. FramesInv'
    <2>1. ASSUME NEW x \in Side, NEW f \in Frame, Fits(x, f)
          PROVE  Fits(x, f)'
        <3>1. f.type \in {"OPEN", "OPEN_OK"} => f.id \in Id
            BY FrameFields DEF StreamType
        <3> QED
            BY <1>3, <1>4, <2>1, <3>1 DEF Fits
    <2> QED
        BY <2>1, FramesThereAre DEF OpensInv, FramesInv, Fits
<1>6. OnceInv'
    BY DEF OpensInv, OnceInv
<1>7. QueueInv'
    <2>1. ASSUME NEW k \in DOMAIN queue'[s]
          PROVE  queue'[s][k] # i
        <3>1. k + 1 # 1
            BY <1>2
        <3> QED
            BY <1>2, <3>1 DEF OpensInv, QueueInv
    <2>2. ASSUME NEW x \in Side, NEW k \in DOMAIN queue'[x]
          PROVE  request'[queue'[x][k]] = "queued" /\ Acceptor(queue'[x][k]) = x
        <3>1. CASE x = s
            BY <1>2, <1>4, <2>1, <3>1, FramesThereAre DEF OpensInv, QueueInv
        <3>2. CASE x # s
            BY <1>1, <1>3, <1>4, <3>2, FramesThereAre DEF OpensInv, QueueInv
        <3> QED
            BY <3>1, <3>2
    <2>3. ASSUME NEW x \in Side, NEW k \in DOMAIN queue'[x], NEW l \in DOMAIN queue'[x],
                 queue'[x][k] = queue'[x][l]
          PROVE  k = l
        <3>1. CASE x = s
            <4>1. k + 1 = l + 1
                BY <1>2, <2>3, <3>1 DEF OpensInv, QueueInv
            <4> QED
                BY <1>2, <3>1, <4>1
        <3>2. CASE x # s
            BY <1>1, <2>3, <3>2 DEF OpensInv, QueueInv
        <3> QED
            BY <3>1, <3>2
    <2> QED
        BY <2>2, <2>3 DEF QueueInv
<1>8. AnswersInv'
    BY <1>3, <1>4 DEF OpensInv, AnswersInv
<1> QED
    BY <1>5, <1>6, <1>7, <1>8 DEF OpensInv

\* OPEN_OK is written of a request that is accepted by then.
LEMMA RequestAcceptSendOpens ==
    ASSUME TypeOK, OpensInv, NEW i \in Id, RequestAcceptSend(i)
    PROVE  OpensInv'
<1> DEFINE s == Acceptor(i)  f == Msg("OPEN_OK", i)
<1>1. s \in Side /\ f \in Frame /\ f.type = "OPEN_OK" /\ f.id = i
    BY EndsOfStream, MsgIsFrame DEF StreamType, Msg
<1>2. /\ UNCHANGED <<hand, queue, opener, reply, nextID>>
      /\ request[i] = "accepting" /\ DOMAIN request = Id
    BY DEF RequestAcceptSend, loopVars, openVars, TypeOK, AcceptOK
<1>3. CASE Send(s, f) /\ request' = [request EXCEPT ![i] = "accepted"]
    <2>1. \A j \in Id : request'[j] = IF j = i THEN "accepted" ELSE request[j]
        BY <1>2, <1>3
    <2>2. ASSUME NEW x \in Side, NEW k \in DOMAIN wire'[x]
          PROVE  \/ k \in DOMAIN wire[x] /\ wire'[x][k] = wire[x][k]
                 \/ wire'[x][k] = f
        BY <1>1, <1>3, Written
    <2>3. ASSUME NEW x \in Side, NEW g \in Frame, Fits(x, g)
          PROVE  Fits(x, g)'
        <3>1. g.type \in {"OPEN", "OPEN_OK"} => g.id \in Id
            BY FrameFields DEF StreamType
        <3> QED
            BY <1>2, <2>1, <2>3, <3>1 DEF Fits
    <2>4. FramesInv'
        <3>1. \A x \in Side : Fits(x, hand[x])'
            BY <1>2, <2>3, FramesThereAre DEF OpensInv, FramesInv, Fits
        <3>2. ASSUME NEW x \in Side, NEW k \in DOMAIN wire'[x]
              PROVE  Fits(x, wire[x][k])'
            <4>1. CASE k \in DOMAIN wire[x] /\ wire'[x][k] = wire[x][k]
                BY <2>3, <4>1, FramesThereAre DEF OpensInv, FramesInv, Fits
            <4>2. CASE wire'[x][k] = f
                BY <1>1, <2>1, <4>2 DEF Fits
            <4> QED
                BY <2>2, <4>1, <4>2
        <3> QED
            BY <3>1, <3>2 DEF FramesInv
    <2>5. OnceInv'
        BY <1>1, <1>2, <2>2 DEF OpensInv, OnceInv
    <2>6. QueueInv'
        BY <1>2, <2>1, FramesThereAre DEF OpensInv, QueueInv
    <2>7. AnswersInv'
        BY <1>2, <2>1 DEF OpensInv, AnswersInv
    <2> QED
        BY <2>4, <2>5, <2>6, <2>7 DEF OpensInv
<1>4. CASE SendFails(s) /\ request' = [request EXCEPT ![i] = "failed"]
    <2>1. QuietWire
        BY <1>2, <1>4 DEF SendFails, QuietWire
    <2>2. QuietCalls
        BY <1>2, <1>4 DEF QuietCalls
    <2> QED
        BY <2>1, <2>2, QuietOpens
<1> QED
    BY <1>3, <1>4 DEF RequestAcceptSend

\* Every step keeps the invariant.
LEMMA NextOpensInv == TypeOK /\ CallsInv /\ BeatsInv /\ OpensInv /\ [Next]_vars => OpensInv'
<1> SUFFICES ASSUME TypeOK, CallsInv, BeatsInv, OpensInv, [Next]_vars PROVE OpensInv'
    OBVIOUS
<1> USE QuietOpens
<1>1. CASE Cut
    BY <1>1 DEF Cut, loopVars, openVars, acceptVars, QuietWire, QuietCalls
<1>2. ASSUME NEW s \in Side, Step(s)
      PROVE  OpensInv'
    <2> USE DEF connVars, loopVars, openVars, acceptVars
    <2>1. CASE Shutdown(s) \/ SessionClose(s)
        <3>1. QuietWire
            BY <2>1 DEF Shutdown, ShutdownSweep, ShutdownDone, SessionClose, QuietWire
        <3>2. QuietCalls
            BY <2>1 DEF Shutdown, ShutdownSweep, ShutdownDone, SessionClose, QuietCalls
        <3> QED
            BY <3>1, <3>2
    <2>2. CASE ReadLoop(s)
        BY <2>2, ReadLoopOpens
    <2>3. CASE OpenBegin(s)
        BY <2>3, OpenBeginOpens
    <2>4. CASE AcceptLoop(s) \/ AcceptCancel(s)
        <3>1. CASE Dequeue(s)
            BY <2>4, <3>1, DequeueOpens
               DEF AcceptLoop, AcceptDequeue, AcceptSleep, AcceptWake, AcceptDone, AcceptCancel
        <3>2. CASE ~Dequeue(s)
            <4>1. UNCHANGED <<wire, hand, nextID, opener, reply, queue, request>>
                BY <2>4, <3>2 DEF AcceptLoop, AcceptDequeue, AcceptSleep, AcceptWake,
                                  AcceptDone, AcceptCancel
            <4> QED
                BY <4>1 DEF QuietWire, QuietCalls
        <3> QED
            BY <3>1, <3>2
    <2>5. CASE SendExtra(s)
        <3>1. PICK t \in Foreign \cup (IF s \in Pingers THEN {"PING"} ELSE {}) :
                  Send(s, Msg(t, 0))
            BY <2>5 DEF SendExtra
        <3>2. Msg(t, 0) \in Frame /\ Msg(t, 0).type \notin {"OPEN", "OPEN_OK"}
            BY <3>1, MsgIsFrame, MuxAssumption DEF Msg, ControlType
        <3>3. UNCHANGED hand
            BY <2>5 DEF SendExtra
        <3>4. QuietWire
            BY <3>1, <3>2, <3>3, QuietWrite
        <3> QED
            BY <2>5, <3>4 DEF SendExtra, QuietCalls
    <2>6. ASSUME NEW i \in Id, Opener(i) = s, Open(i) \/ OpenCancel(i)
          PROVE  OpensInv'
        <3>1. CASE OpenSend(i)
            BY <3>1, OpenSendOpens
        <3>2. CASE OpenReply(i) \/ OpenDone(i) \/ OpenCancel(i)
            <4>1. QuietWire
                BY <3>2 DEF OpenReply, OpenDone, OpenCancel, QuietWire
            <4>2. QuietCalls
                BY <3>2 DEF OpenReply, OpenDone, OpenCancel, QuietCalls, TypeOK, OpenOK,
                            OpensInv, AnswersInv
            <4> QED
                BY <4>1, <4>2
        <3>3. CASE OpenCancelSend(i)
            <4>1. Msg("CLOSE", i) \in Frame /\ Msg("CLOSE", i).type = "CLOSE"
                BY MsgIsFrame DEF StreamType, Msg
            <4>2. UNCHANGED hand /\ (Send(s, Msg("CLOSE", i)) \/ SendFails(s))
                BY <2>6, <3>3 DEF OpenCancelSend, SendFinal
            <4>3. QuietWire
                BY <4>1, <4>2, QuietWrite
            <4>4. QuietCalls
                BY <3>3 DEF OpenCancelSend, QuietCalls, TypeOK, OpenOK
            <4> QED
                BY <4>3, <4>4
        <3> QED
            BY <2>6, <3>1, <3>2, <3>3 DEF Open
    <2>7. ASSUME NEW i \in Id, Acceptor(i) = s, Answer(i)
          PROVE  OpensInv'
        <3>1. CASE RequestAcceptSend(i)
            BY <3>1, RequestAcceptSendOpens
        <3>2. CASE RequestAccept(i)
            <4>1. QuietWire
                BY <3>2 DEF RequestAccept, QuietWire
            <4>2. QuietCalls
                BY <3>2 DEF RequestAccept, QuietCalls, TypeOK, AcceptOK
            <4> QED
                BY <4>1, <4>2
        <3>3. CASE RequestReject(i)
            <4>1. Msg("OPEN_ERR", i) \in Frame /\ Msg("OPEN_ERR", i).type = "OPEN_ERR"
                BY MsgIsFrame DEF ControlType, Msg
            <4>2. UNCHANGED hand /\ (Send(s, Msg("OPEN_ERR", i)) \/ SendFails(s))
                BY <2>7, <3>3 DEF RequestReject, Attempt
            <4>3. QuietWire
                BY <4>1, <4>2, QuietWrite
            <4>4. QuietCalls
                BY <3>3 DEF RequestReject, QuietCalls, TypeOK, AcceptOK
            <4> QED
                BY <4>3, <4>4
        <3> QED
            BY <2>7, <3>1, <3>2, <3>3 DEF Answer
    <2>8. ASSUME NEW i \in Id, Finish(s, i)
          PROVE  OpensInv'
        <3>1. UNCHANGED <<hand, nextID, opener, reply, queue, request>>
            BY <2>8 DEF Finish, WriteSend, CloseWriteSend, CloseSend
        <3>2. PICK f \in Frame :
                  f.type \notin {"OPEN", "OPEN_OK"} /\ (Send(s, f) \/ SendFails(s))
            <4>1. \A t \in {"CLOSE", "CLOSEW"} : Msg(t, i) \in Frame /\ Msg(t, i).type = t
                BY MsgIsFrame DEF StreamType, Msg
            <4>2. CASE WriteSend(s, i)
                <5>1. sent[s][i] + 1 \in 0..MaxData
                    BY <4>2, MuxAssumption DEF WriteSend, TypeOK, EndOK
                <5>2. [type |-> "DATA", id |-> i, n |-> sent[s][i] + 1] \in Frame
                    BY <5>1 DEF Frame, StreamType
                <5> QED
                    BY <4>2, <5>2 DEF WriteSend
            <4>3. CASE CloseWriteSend(s, i) \/ CloseSend(s, i)
                BY <4>1, <4>3 DEF CloseWriteSend, CloseSend, SendFinal
            <4> QED
                BY <2>8, <4>2, <4>3 DEF Finish
        <3>3. QuietWire
            BY <3>1, <3>2, QuietWrite
        <3> QED
            BY <3>1, <3>3 DEF QuietCalls
    <2>9. ASSUME NEW i \in Id, Read(s, i) \/ Start(s, i)
          PROVE  OpensInv'
        <3>1. UNCHANGED <<wire, hand, nextID, opener, reply, queue, request>>
            BY <2>9 DEF Read, Start, WriteBegin, CloseWriteBegin, CloseBegin
        <3> QED
            BY <3>1 DEF QuietWire, QuietCalls
    <2> QED
        BY <1>2, <2>1, <2>2, <2>3, <2>4, <2>5, <2>6, <2>7, <2>8, <2>9
           DEF Step, Serve, FinishAny
<1>3. CASE UNCHANGED vars
    BY <1>3 DEF vars, connVars, loopVars, openVars, acceptVars, QuietWire, QuietCalls
<1> QED
    BY <1>1, <1>2, <1>3 DEF Next

\* An Open that returns a stream was accepted by the peer, as the request it made:
\* an id has one OPEN, one request in the queue and one OPEN_OK, which is written
\* when the request is accepted.
THEOREM OpensAreAccepted == Safety => []OpenMeansAccepted
<1>1. Init => CallsInv /\ ShutdownInv /\ BeatsInv /\ OpensInv
    <2>1. Init => ShutdownInv
        BY MuxAssumption
           DEF Init, ShutdownInv, CallsInv, PanicNeedsClose, Opener, Side
    <2>2. Init => BeatsInv
        BY DEF Init, BeatsInv, NoFrame, Msg
    <2>3. Init => OpensInv
        BY DEF Init, OpensInv, FramesInv, Fits, OnceInv, QueueInv, AnswersInv, NoFrame, Msg
    <2> QED
        BY <2>1, <2>2, <2>3 DEF ShutdownInv
<1>2. ShutdownInv => CallsInv
    BY DEF ShutdownInv
<1>3. OpensInv => OpenMeansAccepted
    BY DEF OpensInv, AnswersInv, OpenMeansAccepted
<1> QED
    BY <1>1, <1>2, <1>3, Typing, NextShutdownInv, NextBeatsInv, NextOpensInv, PTL
       DEF Safety

=============================================================================
