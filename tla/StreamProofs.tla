---------------------------- MODULE StreamProofs ----------------------------
(***************************************************************************)
(* Sessions implement byte streams (Streams, Bytes), for every number of   *)
(* streams and every size of the buffers, the queue and the connection.    *)
(*                                                                         *)
(* A direction of a stream is named by the end s that reads and the id i;  *)
(* the other end writes.  It is a pipeline: the frames on the connection,  *)
(* the one in the hand of the read loop, the buffer, what was read.  The   *)
(* lemmas of the first part are about that pipeline alone; the others map  *)
(* the steps of a session to it.                                           *)
(***************************************************************************)
EXTENDS Streams, MuxProofs

-----------------------------------------------------------------------------
(* Pipelines. *)

\* way: the frames from the reader on, in order, NoFrame where there is none;
\* came, line: how many bytes came to the reader, and which; ended: the half-close
\* came, too; failed: a CLOSE did; ready: what the reader meets next reaches its
\* buffer, or ends it; total, close, halved, writing: the writer's sent, fin, wclosed
\* and writer; has: it holds the stream.
Pipeline ==
    [way : [Nat -> Frame], came : Nat, line : [Nat -> Nat],
     ended : BOOLEAN, failed : BOOLEAN, ready : BOOLEAN,
     total : Nat, close : Int, halved : BOOLEAN,
     writing : {"idle", "data", "closew"}, has : BOOLEAN]

IsData(f) == f.type = "DATA"

\* On the way are the DATA frames from some number to the last that was written, in
\* order, and none of them after the half-close.
WayOK(v) ==
    /\ v.close <= v.total
    /\ \A k \in Nat : IsData(v.way[k]) =>
           /\ v.way[k].n \in 1..v.total
           /\ v.way[k].n < v.total =>
                  \E l \in Nat : IsData(v.way[l]) /\ v.way[l].n = v.way[k].n + 1
    /\ \A k, l \in Nat : k < l /\ IsData(v.way[k]) /\ IsData(v.way[l])
           => v.way[k].n < v.way[l].n
    /\ \A k \in Nat : v.way[k].type = "CLOSEW" =>
           /\ v.way[k].n = 0 /\ v.close # -1 /\ v.halved /\ v.writing = "idle"
           /\ \A l \in Nat : k < l => v.way[l].type \notin {"DATA", "CLOSEW"}
    /\ \A k \in Nat : v.way[k].type = "CLOSE" =>
           /\ v.close # -1
           /\ \A l \in Nat : k < l /\ IsData(v.way[l]) => v.way[l].n > v.close

\* What came is gapless, and the half-close is the last of it.
LineOK(v) ==
    /\ \A k \in 1..v.came :
           /\ v.line[k] \in 1..v.total
           /\ k < v.came => v.line[k + 1] = v.line[k] + 1
    /\ v.ended => /\ v.halved /\ v.writing = "idle"
                  /\ \A k \in Nat : v.way[k].type \notin {"DATA", "CLOSEW"}

\* A half-close is written once, after the last DATA frame.
WriterOK(v) ==
    /\ v.writing = "data" => ~v.halved
    /\ v.writing = "closew" =>
           v.halved /\ ~v.ended /\ \A k \in Nat : v.way[k].type # "CLOSEW"

\* What is still to come to a reader follows what came.
Latest(v) == IF v.came = 0 THEN 0 ELSE v.line[v.came]
NextOK(v, whole) ==
    v.ready /\ ~v.ended /\ (v.came > 0 \/ whole) =>
        /\ \A k \in Nat : IsData(v.way[k]) => v.way[k].n > Latest(v)
        /\ Latest(v) < v.total =>
               \E k \in Nat : IsData(v.way[k]) /\ v.way[k].n = Latest(v) + 1

\* The accepting end gets the stream from its first frame to the close.
WholeOK(v) ==
    /\ \A k \in 1..v.came : v.line[k] = k
    /\ v.close # -1 => v.came <= v.close
    /\ v.ended \/ v.failed => v.close = v.came
    /\ v.ready /\ v.close # -1 =>
           \A k \in Nat : IsData(v.way[k]) /\ v.way[k].n > v.close =>
               \E l \in Nat : l < k /\ v.way[l].type = "CLOSE"
    /\ v.ready /\ v.close # -1 /\ ~v.halved /\ v.has =>
           \E l \in Nat : v.way[l].type = "CLOSE"

Sound(v, whole) ==
    /\ WayOK(v) /\ LineOK(v) /\ WriterOK(v) /\ NextOK(v, whole)
    /\ whole => WholeOK(v)

\* What most steps leave alone.
SameCame(v, u)  == u.came = v.came /\ u.line = v.line /\ u.ended = v.ended
SameWrite(v, u) == u.total = v.total /\ u.close = v.close
SameUse(v, u)   == u.halved = v.halved /\ u.writing = v.writing /\ u.has = v.has

\* A stream is held and got ready for its reader before anything of it comes.
Onward(v, u, whole) ==
    /\ v.halved => u.halved /\ (v.writing = "idle" => u.writing = "idle")
    /\ u.writing = "data" => ~u.halved
    /\ u.writing = "closew" => u.halved /\ (v.writing = "closew" \/ ~v.halved)
    /\ u.has => v.has \/ v.close = -1
    /\ u.ready => v.ready \/ (v.came = 0 /\ (whole => v.total = 0 /\ ~u.has))

\* Nothing moves.
LEMMA StillSound ==
    ASSUME NEW v \in Pipeline, NEW u \in Pipeline, NEW whole \in BOOLEAN, Sound(v, whole),
           u.way = v.way, SameCame(v, u), SameWrite(v, u), Onward(v, u, whole),
           u.failed => v.failed
    PROVE  Sound(u, whole)
<1> USE DEF SameCame, SameWrite, Onward, Pipeline
<1>1. WayOK(u)
    BY DEF Sound, WayOK
<1>2. LineOK(u)
    BY DEF Sound, LineOK
<1>3. WriterOK(u)
    BY DEF Sound, WayOK, LineOK, WriterOK
<1>4. NextOK(u, whole)
    <2>1. CASE v.ready
        BY <2>1 DEF Sound, NextOK, Latest
    <2>2. CASE u.ready /\ ~v.ready
        BY <2>2 DEF Sound, WayOK, NextOK, Latest
    <2> QED
        BY <2>1, <2>2 DEF NextOK
<1>5. ASSUME whole PROVE WholeOK(u)
    <2>1. CASE v.ready
        BY <1>5, <2>1 DEF Sound, WholeOK
    <2>2. CASE ~v.ready
        BY <1>5, <2>2 DEF Sound, WayOK, WholeOK
    <2> QED
        BY <2>1, <2>2
<1> QED
    BY <1>1, <1>2, <1>3, <1>4, <1>5 DEF Sound

\* The read loop takes up the next frame.
LEMMA ShiftSound ==
    ASSUME NEW v \in Pipeline, NEW u \in Pipeline, NEW whole \in BOOLEAN, Sound(v, whole),
           v.way[0] = NoFrame, u.way = [k \in Nat |-> v.way[k + 1]],
           SameCame(v, u), SameWrite(v, u), SameUse(v, u),
           u.failed = v.failed, u.ready => v.ready
    PROVE  Sound(u, whole)
<1> USE DEF SameCame, SameWrite, SameUse, Pipeline
<1>1. \A k \in Nat : u.way[k] = v.way[k + 1] /\ k + 1 \in Nat
    OBVIOUS
<1>2. \A l \in Nat : v.way[l].type \in StreamType =>
          \E j \in Nat : l = j + 1 /\ u.way[j] = v.way[l]
    <2> SUFFICES ASSUME NEW l \in Nat, v.way[l].type \in StreamType
                 PROVE  \E j \in Nat : l = j + 1 /\ u.way[j] = v.way[l]
        OBVIOUS
    <2>1. l # 0
        BY DEF NoFrame, Msg, StreamType
    <2>2. l - 1 \in Nat /\ l = (l - 1) + 1
        BY <2>1
    <2> QED
        BY <1>1, <2>2
<1>3. \A k, l \in Nat : k < l => k + 1 < l + 1
    OBVIOUS
<1>4. ASSUME NEW x \in Int, \E l \in Nat : IsData(v.way[l]) /\ v.way[l].n = x
      PROVE  \E l \in Nat : IsData(u.way[l]) /\ u.way[l].n = x
    <2>1. PICK l \in Nat : IsData(v.way[l]) /\ v.way[l].n = x
        BY <1>4
    <2>2. PICK j \in Nat : u.way[j] = v.way[l]
        BY <1>2, <2>1 DEF IsData, StreamType
    <2> QED
        BY <2>1, <2>2
<1>5. WayOK(u)
    <2>1. ASSUME NEW k \in Nat, IsData(u.way[k])
          PROVE  /\ u.way[k].n \in 1..u.total
                 /\ u.way[k].n < u.total =>
                        \E l \in Nat : IsData(u.way[l]) /\ u.way[l].n = u.way[k].n + 1
        <3>1. /\ v.way[k + 1].n \in 1..v.total
              /\ v.way[k + 1].n < v.total =>
                     \E l \in Nat : IsData(v.way[l]) /\ v.way[l].n = v.way[k + 1].n + 1
            BY <1>1, <2>1 DEF Sound, WayOK
        <3>2. u.way[k].n = v.way[k + 1].n /\ u.way[k].n + 1 \in Int
            BY <1>1, <3>1
        <3> QED
            BY <1>4, <3>1, <3>2
    <2>2. ASSUME NEW k \in Nat, NEW l \in Nat, k < l, IsData(u.way[k]), IsData(u.way[l])
          PROVE  u.way[k].n < u.way[l].n
        <3>1. k + 1 \in Nat /\ l + 1 \in Nat /\ k + 1 < l + 1
            BY <2>2
        <3>2. u.way[k] = v.way[k + 1] /\ u.way[l] = v.way[l + 1]
            BY <1>1
        <3> QED
            BY <2>2, <3>1, <3>2 DEF Sound, WayOK
    <2>3. \A k \in Nat : u.way[k].type = "CLOSEW" =>
              /\ u.way[k].n = 0 /\ u.close # -1 /\ u.halved /\ u.writing = "idle"
              /\ \A l \in Nat : k < l => u.way[l].type \notin {"DATA", "CLOSEW"}
        BY <1>1, <1>3 DEF Sound, WayOK
    <2>4. \A k \in Nat : u.way[k].type = "CLOSE" =>
              /\ u.close # -1
              /\ \A l \in Nat : k < l /\ IsData(u.way[l]) => u.way[l].n > u.close
        BY <1>1, <1>3 DEF Sound, WayOK
    <2> QED
        BY <2>1, <2>2, <2>3, <2>4 DEF Sound, WayOK
<1>6. LineOK(u)
    BY <1>1 DEF Sound, LineOK
<1>7. WriterOK(u)
    BY <1>1 DEF Sound, WriterOK
<1>8. NextOK(u, whole)
    <2> SUFFICES ASSUME u.ready, ~u.ended, u.came > 0 \/ whole
                 PROVE  /\ \A k \in Nat : IsData(u.way[k]) => u.way[k].n > Latest(u)
                        /\ Latest(u) < u.total =>
                               \E k \in Nat : IsData(u.way[k]) /\ u.way[k].n = Latest(u) + 1
        BY DEF NextOK
    <2>1. Latest(u) = Latest(v) /\ Latest(u) + 1 \in Int
        BY DEF Latest
    <2>2. /\ \A k \in Nat : IsData(v.way[k]) => v.way[k].n > Latest(v)
          /\ Latest(v) < v.total =>
                 \E k \in Nat : IsData(v.way[k]) /\ v.way[k].n = Latest(v) + 1
        BY DEF Sound, NextOK
    <2>3. \A k \in Nat : IsData(u.way[k]) => u.way[k].n > Latest(u)
        BY <1>1, <2>1, <2>2
    <2>4. ASSUME Latest(u) < u.total
          PROVE  \E k \in Nat : IsData(u.way[k]) /\ u.way[k].n = Latest(u) + 1
        <3>1. \E k \in Nat : IsData(v.way[k]) /\ v.way[k].n = Latest(u) + 1
            BY <2>1, <2>2, <2>4
        <3> HIDE DEF Pipeline
        <3> QED
            BY <1>4, <2>1, <3>1
    <2> QED
        BY <2>3, <2>4
<1>9. ASSUME whole PROVE WholeOK(u)
    <2>1. ASSUME u.ready, u.close # -1, NEW k \in Nat, IsData(u.way[k]), u.way[k].n > u.close
          PROVE  \E l \in Nat : l < k /\ u.way[l].type = "CLOSE"
        <3>1. PICK l \in Nat : l < k + 1 /\ v.way[l].type = "CLOSE"
            BY <1>1, <1>9, <2>1 DEF Sound, WholeOK
        <3>2. PICK j \in Nat : l = j + 1 /\ u.way[j] = v.way[l]
            BY <1>2, <3>1 DEF StreamType
        <3> QED
            BY <3>1, <3>2
    <2>2. ASSUME u.ready, u.close # -1, ~u.halved, u.has
          PROVE  \E l \in Nat : u.way[l].type = "CLOSE"
        <3>1. PICK l \in Nat : v.way[l].type = "CLOSE"
            BY <1>9, <2>2 DEF Sound, WholeOK
        <3>2. PICK j \in Nat : u.way[j] = v.way[l]
            BY <1>2, <3>1 DEF StreamType
        <3> QED
            BY <3>1, <3>2
    <2> QED
        BY <1>9, <2>1, <2>2 DEF Sound, WholeOK
<1> QED
    BY <1>5, <1>6, <1>7, <1>8, <1>9 DEF Sound

\* A number is not one more than a greater one.
LEMMA NotBefore == \A x, y \in Int : ~(x < y /\ x = y + 1)
OBVIOUS

\* The frame in hand goes.
LEMMA DropWay ==
    ASSUME NEW v \in Pipeline, NEW u \in Pipeline, WayOK(v),
           u.way = [v.way EXCEPT ![0] = NoFrame], SameWrite(v, u),
           u.halved = v.halved, u.writing = v.writing
    PROVE  /\ WayOK(u)
           /\ \A k \in Nat : u.way[k].type \in StreamType => k # 0 /\ u.way[k] = v.way[k]
           /\ \A k \in Nat : k # 0 => u.way[k] = v.way[k]
<1> USE DEF SameWrite, Pipeline
<1>0. NoFrame.type \notin StreamType
    BY DEF NoFrame, Msg, StreamType
<1>1. /\ u.way[0] = NoFrame
      /\ \A k \in Nat : k # 0 => u.way[k] = v.way[k]
    OBVIOUS
<1>2. \A k \in Nat : u.way[k].type \in StreamType => k # 0 /\ u.way[k] = v.way[k]
    BY <1>0, <1>1
<1>3. ASSUME NEW k \in Nat, IsData(u.way[k])
      PROVE  /\ u.way[k].n \in 1..u.total
             /\ u.way[k].n < u.total =>
                    \E l \in Nat : IsData(u.way[l]) /\ u.way[l].n = u.way[k].n + 1
    <2>1. k # 0 /\ u.way[k] = v.way[k] /\ 0 < k
        BY <1>2, <1>3 DEF IsData, StreamType
    <2>2. /\ v.way[k].n \in 1..v.total
          /\ v.way[k].n < v.total =>
                 \E l \in Nat : IsData(v.way[l]) /\ v.way[l].n = v.way[k].n + 1
        BY <1>3, <2>1 DEF WayOK
    <2>3. IsData(v.way[0]) => v.way[0].n < v.way[k].n
        BY <1>3, <2>1 DEF WayOK
    <2>4. ASSUME NEW l \in Nat, IsData(v.way[l]), v.way[l].n = v.way[k].n + 1
          PROVE  l # 0
        <3>1. v.way[0] \in Frame /\ v.way[k] \in Frame
            OBVIOUS
        <3>2. v.way[0].n \in Int /\ v.way[k].n \in Int
            BY <3>1, FrameFields
        <3> SUFFICES ASSUME l = 0
                     PROVE  FALSE
            OBVIOUS
        <3>3. IsData(v.way[0]) /\ v.way[0].n = v.way[k].n + 1
            BY <2>4, Zenon
        <3>4. v.way[0].n < v.way[k].n
            BY <2>3, <3>3, Zenon
        <3> QED
            BY <3>2, <3>3, <3>4, NotBefore, Zenon
    <2> QED
        BY <1>1, <2>1, <2>2, <2>4
<1>4. \A k, l \in Nat : k < l /\ IsData(u.way[k]) /\ IsData(u.way[l])
          => u.way[k].n < u.way[l].n
    BY <1>2 DEF WayOK, IsData, StreamType
<1>5. \A k \in Nat : u.way[k].type = "CLOSEW" =>
          /\ u.way[k].n = 0 /\ u.close # -1 /\ u.halved /\ u.writing = "idle"
          /\ \A l \in Nat : k < l => u.way[l].type \notin {"DATA", "CLOSEW"}
    BY <1>2 DEF WayOK, StreamType
<1>6. \A k \in Nat : u.way[k].type = "CLOSE" =>
          /\ u.close # -1
          /\ \A l \in Nat : k < l /\ IsData(u.way[l]) => u.way[l].n > u.close
    BY <1>2 DEF WayOK, IsData, StreamType
<1> QED
    BY <1>1, <1>2, <1>3, <1>4, <1>5, <1>6 DEF WayOK

\* The frame in hand is dropped, or it is the CLOSE: nothing more will come.
LEMMA DropSound ==
    ASSUME NEW v \in Pipeline, NEW u \in Pipeline, NEW whole \in BOOLEAN, Sound(v, whole),
           u.way = [v.way EXCEPT ![0] = NoFrame], ~u.ready,
           SameCame(v, u), SameWrite(v, u), SameUse(v, u),
           u.failed => v.failed \/ (v.ready /\ v.way[0].type = "CLOSE")
    PROVE  Sound(u, whole)
<1> USE DEF SameCame, SameWrite, SameUse, Pipeline
<1>1. /\ WayOK(u)
      /\ \A k \in Nat : u.way[k].type \in StreamType => k # 0 /\ u.way[k] = v.way[k]
    BY DropWay DEF Sound
<1>2. LineOK(u)
    BY <1>1 DEF Sound, LineOK, StreamType
<1>3. WriterOK(u)
    BY <1>1 DEF Sound, WriterOK, StreamType
<1>4. NextOK(u, whole)
    BY DEF NextOK
<1>5. ASSUME whole PROVE WholeOK(u)
    <2>1. ASSUME u.failed, ~v.failed, ~v.ended
          PROVE  u.close = u.came
        <3>1. v.ready /\ v.way[0].type = "CLOSE"
            BY <2>1
        <3>2. /\ v.close # -1 /\ v.close <= v.total /\ v.came <= v.close
              /\ \A l \in Nat : 0 < l /\ IsData(v.way[l]) => v.way[l].n > v.close
            BY <1>5, <3>1 DEF Sound, WayOK, WholeOK
        <3>3. Latest(v) = v.came
            BY <1>5 DEF Sound, WholeOK, Latest
        <3>4. ASSUME v.came < v.close
              PROVE  FALSE
            <4>1. PICK k \in Nat : IsData(v.way[k]) /\ v.way[k].n = v.came + 1
                BY <1>5, <2>1, <3>1, <3>2, <3>3, <3>4 DEF Sound, NextOK
            <4>2. k # 0
                BY <3>1, <4>1 DEF IsData
            <4> QED
                BY <3>2, <3>4, <4>1, <4>2
        <3> QED
            BY <3>2, <3>4
    <2> QED
        BY <1>5, <2>1 DEF Sound, WholeOK
<1> QED
    BY <1>1, <1>2, <1>3, <1>4, <1>5 DEF Sound

\* The frame in hand is delivered to the buffer.
LEMMA DataCame ==
    ASSUME NEW v \in Pipeline, NEW u \in Pipeline, NEW whole \in BOOLEAN, Sound(v, whole),
           IsData(v.way[0]), v.ready, ~v.failed,
           u.way = [v.way EXCEPT ![0] = NoFrame],
           u.came = v.came + 1, u.line = [v.line EXCEPT ![v.came + 1] = v.way[0].n],
           u.ended = v.ended, SameWrite(v, u), SameUse(v, u), u.failed = v.failed
    PROVE  Sound(u, whole)
<1> USE DEF SameWrite, SameUse, Pipeline
<1>1. /\ WayOK(u)
      /\ \A k \in Nat : u.way[k].type \in StreamType => k # 0 /\ u.way[k] = v.way[k]
      /\ \A k \in Nat : k # 0 => u.way[k] = v.way[k]
    BY DropWay DEF Sound
<1>2. ~v.ended
    BY DEF Sound, LineOK, IsData
<1>3. /\ v.way[0].n \in 1..v.total
      /\ v.way[0].n < v.total =>
             \E l \in Nat : IsData(v.way[l]) /\ v.way[l].n = v.way[0].n + 1
      /\ \A l \in Nat : l # 0 /\ IsData(v.way[l]) => v.way[0].n < v.way[l].n
    BY DEF Sound, WayOK
<1>4. /\ \A k \in 1..v.came : u.line[k] = v.line[k]
      /\ u.line[u.came] = v.way[0].n
    OBVIOUS
<1>5. Latest(v) \in Nat
    BY DEF Latest
<1>6. ASSUME v.came > 0 \/ whole
      PROVE  v.way[0].n = Latest(v) + 1
    <2>1. v.way[0].n > Latest(v)
        BY <1>2, <1>6 DEF Sound, NextOK
    <2>2. PICK k \in Nat : IsData(v.way[k]) /\ v.way[k].n = Latest(v) + 1
        BY <1>2, <1>3, <1>5, <1>6, <2>1 DEF Sound, NextOK
    <2> QED
        BY <1>3, <1>5, <2>1, <2>2
<1>7. LineOK(u)
    <2>1. ASSUME NEW k \in 1..u.came
          PROVE  /\ u.line[k] \in 1..u.total
                 /\ k < u.came => u.line[k + 1] = u.line[k] + 1
        <3>1. CASE k = u.came
            BY <1>3, <1>4, <3>1
        <3>2. CASE k = v.came
            <4>1. k > 0 /\ k \in 1..v.came /\ k + 1 = u.came /\ Latest(v) = v.line[k]
                BY <3>2 DEF Latest
            <4>2. v.line[k] \in 1..v.total /\ v.way[0].n = v.line[k] + 1
                BY <1>6, <3>2, <4>1 DEF Sound, LineOK
            <4> QED
                BY <1>4, <4>1, <4>2
        <3>3. CASE k < v.came
            <4>1. k \in 1..v.came /\ k + 1 \in 1..v.came
                BY <3>3
            <4>2. u.line[k] = v.line[k] /\ u.line[k + 1] = v.line[k + 1]
                BY <1>4, <4>1
            <4>3. v.line[k] \in 1..v.total /\ v.line[k + 1] = v.line[k] + 1
                BY <3>3, <4>1 DEF Sound, LineOK
            <4> QED
                BY <4>2, <4>3
        <3>4. k = u.came \/ k = v.came \/ k < v.came
            <4>1. \A n \in Nat : \A l \in 1..(n + 1) : l = n + 1 \/ l = n \/ l < n
                OBVIOUS
            <4>2. v.came \in Nat /\ k \in 1..(v.came + 1)
                OBVIOUS
            <4> QED
                BY <4>1, <4>2
        <3> QED
            BY <3>1, <3>2, <3>3, <3>4
    <2> QED
        BY <1>2, <2>1 DEF LineOK
<1>8. WriterOK(u)
    BY <1>1 DEF Sound, WriterOK, StreamType
<1>9. NextOK(u, whole)
    <2>1. Latest(u) = v.way[0].n
        BY <1>4 DEF Latest
    <2>2. \A k \in Nat : IsData(u.way[k]) => u.way[k].n > Latest(u)
        BY <1>1, <1>3, <2>1 DEF IsData, StreamType
    <2>3. ASSUME Latest(u) < u.total
          PROVE  \E k \in Nat : IsData(u.way[k]) /\ u.way[k].n = Latest(u) + 1
        <3>1. PICK l \in Nat : IsData(v.way[l]) /\ v.way[l].n = v.way[0].n + 1
            BY <1>3, <2>1, <2>3
        <3>2. l # 0
            BY <1>3, <3>1
        <3> QED
            BY <1>1, <2>1, <3>1, <3>2
    <2> QED
        BY <2>2, <2>3 DEF NextOK
<1>10. ASSUME whole PROVE WholeOK(u)
    <2>1. /\ \A k \in 1..v.came : v.line[k] = k
          /\ v.close # -1 => v.came <= v.close
          /\ v.close # -1 =>
                 \A k \in Nat : IsData(v.way[k]) /\ v.way[k].n > v.close =>
                     \E l \in Nat : l < k /\ v.way[l].type = "CLOSE"
          /\ v.close # -1 /\ ~v.halved /\ v.has => \E l \in Nat : v.way[l].type = "CLOSE"
        BY <1>10 DEF Sound, WholeOK
    <2>2. Latest(v) = v.came
        BY <2>1 DEF Latest
    <2>3. v.way[0].n = v.came + 1
        BY <1>6, <1>10, <2>2
    <2>4. \A k \in 1..u.came : u.line[k] = k
        BY <1>4, <2>1, <2>3
    <2>5. u.close # -1 => u.came <= u.close
        BY <2>1, <2>3
    <2>6. \A l \in Nat : v.way[l].type = "CLOSE" => u.way[l].type = "CLOSE"
        BY <1>1 DEF IsData
    <2>7. ASSUME u.close # -1, NEW k \in Nat, IsData(u.way[k]), u.way[k].n > u.close
          PROVE  \E l \in Nat : l < k /\ u.way[l].type = "CLOSE"
        BY <1>1, <2>1, <2>6, <2>7 DEF IsData, StreamType
    <2>8. u.close # -1 /\ ~u.halved /\ u.has => \E l \in Nat : u.way[l].type = "CLOSE"
        BY <2>1, <2>6
    <2> QED
        BY <1>2, <2>4, <2>5, <2>7, <2>8 DEF WholeOK
<1> QED
    BY <1>1, <1>7, <1>8, <1>9, <1>10 DEF Sound

\* So is a half-close.
LEMMA EndCame ==
    ASSUME NEW v \in Pipeline, NEW u \in Pipeline, NEW whole \in BOOLEAN, Sound(v, whole),
           v.way[0].type = "CLOSEW", v.ready, ~v.failed,
           u.way = [v.way EXCEPT ![0] = NoFrame],
           u.came = v.came, u.line = v.line, u.ended,
           SameWrite(v, u), SameUse(v, u), u.failed = v.failed
    PROVE  Sound(u, whole)
<1> USE DEF SameWrite, SameUse, Pipeline
<1>1. /\ WayOK(u)
      /\ \A k \in Nat : u.way[k].type \in StreamType => k # 0 /\ u.way[k] = v.way[k]
      /\ \A k \in Nat : k # 0 => u.way[k] = v.way[k]
    BY DropWay DEF Sound
<1>2. /\ ~v.ended /\ v.halved /\ v.writing = "idle" /\ v.close # -1 /\ v.close <= v.total
      /\ \A l \in Nat : l # 0 => v.way[l].type \notin {"DATA", "CLOSEW"}
    BY DEF Sound, WayOK, LineOK
<1>3. LineOK(u)
    BY <1>1, <1>2 DEF Sound, LineOK, StreamType
<1>4. WriterOK(u)
    BY <1>2 DEF WriterOK
<1>5. NextOK(u, whole)
    BY DEF NextOK
<1>6. ASSUME whole PROVE WholeOK(u)
    <2>1. /\ \A k \in 1..v.came : v.line[k] = k
          /\ v.came <= v.close
        BY <1>2, <1>6 DEF Sound, WholeOK
    <2>2. Latest(v) = v.came
        BY <2>1 DEF Latest
    <2>3. ASSUME v.came < v.close
          PROVE  FALSE
        <3>1. PICK k \in Nat : IsData(v.way[k])
            BY <1>2, <1>6, <2>2, <2>3 DEF Sound, NextOK
        <3> QED
            BY <1>2, <3>1 DEF IsData
    <2>4. \A k \in Nat : ~IsData(u.way[k])
        BY <1>1, <1>2 DEF IsData, StreamType
    <2> QED
        BY <1>2, <2>1, <2>3, <2>4 DEF WholeOK
<1> QED
    BY <1>1, <1>3, <1>4, <1>5, <1>6 DEF Sound

\* A frame is put behind all that are on the way.
Adds(v, u, m, f) ==
    /\ u.way = [v.way EXCEPT ![m] = f]
    /\ \A k \in Nat : k >= m => v.way[k] = NoFrame

\* It is a DATA frame.
LEMMA DataSound ==
    ASSUME NEW v \in Pipeline, NEW u \in Pipeline, NEW whole \in BOOLEAN, Sound(v, whole),
           NEW m \in Nat, NEW f \in Frame, Adds(v, u, m, f),
           f.type = "DATA", f.n = v.total + 1,
           v.writing = "data", v.has, u.total = v.total + 1, u.close = v.close,
           SameCame(v, u), u.halved = v.halved, u.writing \in {"idle", "data"},
           u.has = v.has, u.failed = v.failed, u.ready => v.ready
    PROVE  Sound(u, whole)
<1> USE DEF SameCame, Pipeline
<1>0. NoFrame.type \notin StreamType
    BY DEF NoFrame, Msg, StreamType
<1>1. /\ ~v.halved /\ ~v.ended /\ v.close <= v.total
      /\ \A k \in Nat : v.way[k].type # "CLOSEW"
    BY DEF Sound, WayOK, LineOK, WriterOK
<1>2. /\ u.way[m] = f
      /\ \A k \in Nat : k # m => u.way[k] = v.way[k]
      /\ \A k \in Nat : k >= m => v.way[k].type \notin StreamType
    BY <1>0 DEF Adds
<1>3. \A k \in Nat : IsData(v.way[k]) \/ v.way[k].type = "CLOSE" => k < m /\ u.way[k] = v.way[k]
    BY <1>2 DEF IsData, StreamType
<1>4. \A k \in Nat : u.way[k].type \in StreamType => k = m \/ (k < m /\ u.way[k] = v.way[k])
    BY <1>2
<1>5. \A k \in Nat : IsData(v.way[k]) => v.way[k].n \in 1..v.total
    BY DEF Sound, WayOK
<1>6. WayOK(u)
    <2>1. ASSUME NEW k \in Nat, IsData(u.way[k])
          PROVE  /\ u.way[k].n \in 1..u.total
                 /\ u.way[k].n < u.total =>
                        \E l \in Nat : IsData(u.way[l]) /\ u.way[l].n = u.way[k].n + 1
        <3>1. CASE k = m
            BY <1>2, <3>1
        <3>2. CASE k # m
            <4>1. u.way[k] = v.way[k] /\ IsData(v.way[k]) /\ v.way[k].n \in 1..v.total
                BY <1>2, <1>5, <2>1, <3>2
            <4>2. CASE v.way[k].n = v.total
                BY <1>2, <4>1, <4>2 DEF IsData
            <4>3. CASE v.way[k].n < v.total
                <5>1. PICK l \in Nat : IsData(v.way[l]) /\ v.way[l].n = v.way[k].n + 1
                    BY <4>1, <4>3 DEF Sound, WayOK
                <5> QED
                    BY <1>3, <4>1, <5>1
            <4> QED
                BY <4>1, <4>2, <4>3
        <3> QED
            BY <3>1, <3>2
    <2>2. ASSUME NEW k \in Nat, NEW l \in Nat, k < l, IsData(u.way[k]), IsData(u.way[l])
          PROVE  u.way[k].n < u.way[l].n
        <3>1. k < m /\ u.way[k] = v.way[k]
            BY <1>4, <2>2 DEF IsData, StreamType
        <3>2. CASE l = m
            BY <1>2, <1>5, <2>2, <3>1, <3>2
        <3>3. CASE l # m
            BY <1>2, <2>2, <3>1, <3>3 DEF Sound, WayOK
        <3> QED
            BY <3>2, <3>3
    <2>3. \A k \in Nat : u.way[k].type # "CLOSEW"
        BY <1>1, <1>2
    <2>4. ASSUME NEW k \in Nat, u.way[k].type = "CLOSE"
          PROVE  /\ u.close # -1
                 /\ \A l \in Nat : k < l /\ IsData(u.way[l]) => u.way[l].n > u.close
        <3>1. u.way[k] = v.way[k]
            BY <1>2, <2>4
        <3> QED
            BY <1>1, <1>2, <2>4, <3>1 DEF Sound, WayOK
    <2> QED
        BY <1>1, <2>1, <2>2, <2>3, <2>4 DEF WayOK
<1>7. LineOK(u)
    BY <1>1 DEF Sound, LineOK
<1>8. WriterOK(u)
    BY <1>1 DEF WriterOK
<1>9. NextOK(u, whole)
    <2> SUFFICES ASSUME u.ready, u.came > 0 \/ whole
                 PROVE  /\ \A k \in Nat : IsData(u.way[k]) => u.way[k].n > Latest(u)
                        /\ Latest(u) < u.total =>
                               \E k \in Nat : IsData(u.way[k]) /\ u.way[k].n = Latest(u) + 1
        BY DEF NextOK
    <2>1. Latest(u) = Latest(v) /\ Latest(u) \in 0..v.total
        BY DEF Latest, Sound, LineOK
    <2>2. /\ \A k \in Nat : IsData(v.way[k]) => v.way[k].n > Latest(v)
          /\ Latest(v) < v.total =>
                 \E k \in Nat : IsData(v.way[k]) /\ v.way[k].n = Latest(v) + 1
        BY <1>1 DEF Sound, NextOK
    <2>3. \A k \in Nat : IsData(u.way[k]) => u.way[k].n > Latest(u)
        BY <1>2, <2>1, <2>2
    <2>4. \E k \in Nat : IsData(u.way[k]) /\ u.way[k].n = Latest(u) + 1
        <3>1. CASE Latest(v) = v.total
            BY <1>2, <2>1, <3>1 DEF IsData
        <3>2. CASE Latest(v) < v.total
            BY <1>3, <2>1, <2>2, <3>2
        <3> QED
            BY <2>1, <3>1, <3>2
    <2> QED
        BY <2>3, <2>4
<1>10. ASSUME whole PROVE WholeOK(u)
    <2>1. ASSUME u.ready, u.close # -1
          PROVE  \E l \in Nat : l < m /\ u.way[l].type = "CLOSE"
        <3>1. PICK l \in Nat : v.way[l].type = "CLOSE"
            BY <1>1, <1>10, <2>1 DEF Sound, WholeOK
        <3> QED
            BY <1>3, <3>1
    <2>2. ASSUME u.ready, u.close # -1, NEW k \in Nat, IsData(u.way[k]), u.way[k].n > u.close
          PROVE  \E l \in Nat : l < k /\ u.way[l].type = "CLOSE"
        <3>1. CASE k = m
            BY <2>1, <2>2, <3>1
        <3>2. CASE k # m
            <4>1. PICK l \in Nat : l < k /\ v.way[l].type = "CLOSE"
                BY <1>2, <1>10, <2>2, <3>2 DEF Sound, WholeOK
            <4> QED
                BY <1>3, <4>1
        <3> QED
            BY <3>1, <3>2
    <2> QED
        BY <1>10, <2>1, <2>2 DEF Sound, WholeOK
<1> QED
    BY <1>6, <1>7, <1>8, <1>9, <1>10 DEF Sound

\* It is a CLOSE, or the half-close.
LEMMA CloseSound ==
    ASSUME NEW v \in Pipeline, NEW u \in Pipeline, NEW whole \in BOOLEAN, Sound(v, whole),
           NEW m \in Nat, NEW f \in Frame, Adds(v, u, m, f),
           \/ f.type = "CLOSE" /\ u.writing = v.writing
           \/ f.type = "CLOSEW" /\ f.n = 0 /\ v.writing = "closew" /\ u.writing = "idle",
           u.total = v.total, u.close = IF v.close = -1 THEN v.total ELSE v.close,
           SameCame(v, u), u.halved = v.halved, u.has = v.has,
           u.failed = v.failed, u.ready => v.ready
    PROVE  Sound(u, whole)
<1> USE DEF SameCame, Pipeline
<1>0. NoFrame.type \notin StreamType
    BY DEF NoFrame, Msg, StreamType
<1>1. /\ v.close <= v.total /\ u.close <= u.total /\ u.close # -1
      /\ v.close # -1 => u.close = v.close
    BY DEF Sound, WayOK
<1>2. /\ u.way[m] = f
      /\ \A k \in Nat : k # m => u.way[k] = v.way[k]
      /\ \A k \in Nat : k >= m => v.way[k].type \notin StreamType
    BY <1>0 DEF Adds
<1>3. \A k \in Nat : IsData(v.way[k]) \/ v.way[k].type = "CLOSE" => k < m /\ u.way[k] = v.way[k]
    BY <1>2 DEF IsData, StreamType
<1>4. \A k \in Nat : IsData(u.way[k]) => k < m /\ u.way[k] = v.way[k]
    BY <1>2 DEF IsData, StreamType
<1>5. \A k \in Nat : k > m => u.way[k].type \notin StreamType
    BY <1>2
<1>6. WayOK(u)
    <2>1. ASSUME NEW k \in Nat, IsData(u.way[k])
          PROVE  /\ u.way[k].n \in 1..u.total
                 /\ u.way[k].n < u.total =>
                        \E l \in Nat : IsData(u.way[l]) /\ u.way[l].n = u.way[k].n + 1
        <3>1. u.way[k] = v.way[k] /\ IsData(v.way[k])
            BY <1>4, <2>1
        <3> QED
            BY <1>3, <3>1 DEF Sound, WayOK
    <2>2. \A k, l \in Nat : k < l /\ IsData(u.way[k]) /\ IsData(u.way[l])
              => u.way[k].n < u.way[l].n
        BY <1>4 DEF Sound, WayOK
    <2>3. ASSUME NEW k \in Nat, u.way[k].type = "CLOSEW"
          PROVE  /\ u.way[k].n = 0 /\ u.halved /\ u.writing = "idle"
                 /\ \A l \in Nat : k < l => u.way[l].type \notin {"DATA", "CLOSEW"}
        <3>1. CASE k = m
            BY <1>2, <1>5, <2>3, <3>1 DEF Sound, WriterOK, StreamType
        <3>2. CASE k # m
            <4>1. /\ v.way[k].n = 0 /\ v.halved /\ v.writing = "idle"
                  /\ \A l \in Nat : k < l => v.way[l].type \notin {"DATA", "CLOSEW"}
                BY <1>2, <2>3, <3>2 DEF Sound, WayOK
            <4>2. f.type = "CLOSE" /\ u.writing = "idle"
                BY <4>1
            <4> QED
                BY <1>2, <3>2, <4>1, <4>2
        <3> QED
            BY <3>1, <3>2
    <2>4. ASSUME NEW k \in Nat, u.way[k].type = "CLOSE"
          PROVE  \A l \in Nat : k < l /\ IsData(u.way[l]) => u.way[l].n > u.close
        <3>1. CASE k = m
            BY <1>4, <3>1
        <3>2. CASE k # m
            <4>1. /\ v.close # -1
                  /\ \A l \in Nat : k < l /\ IsData(v.way[l]) => v.way[l].n > v.close
                BY <1>2, <2>4, <3>2 DEF Sound, WayOK
            <4> QED
                BY <1>1, <1>4, <4>1
        <3> QED
            BY <3>1, <3>2
    <2> QED
        BY <1>1, <2>1, <2>2, <2>3, <2>4 DEF WayOK
<1>7. LineOK(u)
    <2>1. ASSUME u.ended
          PROVE  /\ u.halved /\ u.writing = "idle"
                 /\ \A k \in Nat : u.way[k].type \notin {"DATA", "CLOSEW"}
        <3>1. /\ v.halved /\ v.writing = "idle"
              /\ \A k \in Nat : v.way[k].type \notin {"DATA", "CLOSEW"}
            BY <2>1 DEF Sound, LineOK
        <3> QED
            BY <1>2, <3>1
    <2> QED
        BY <2>1 DEF Sound, LineOK
<1>8. WriterOK(u)
    BY <1>2 DEF Sound, WriterOK
<1>9. NextOK(u, whole)
    <2> SUFFICES ASSUME u.ready, ~u.ended, u.came > 0 \/ whole
                 PROVE  /\ \A k \in Nat : IsData(u.way[k]) => u.way[k].n > Latest(u)
                        /\ Latest(u) < u.total =>
                               \E k \in Nat : IsData(u.way[k]) /\ u.way[k].n = Latest(u) + 1
        BY DEF NextOK
    <2>1. Latest(u) = Latest(v)
        BY DEF Latest
    <2>2. /\ \A k \in Nat : IsData(v.way[k]) => v.way[k].n > Latest(v)
          /\ Latest(v) < v.total =>
                 \E k \in Nat : IsData(v.way[k]) /\ v.way[k].n = Latest(v) + 1
        BY DEF Sound, NextOK
    <2> QED
        BY <1>3, <1>4, <2>1, <2>2
<1>10. ASSUME whole PROVE WholeOK(u)
    <2>1. /\ \A k \in 1..v.came : v.line[k] = k
          /\ v.close # -1 => v.came <= v.close
          /\ v.ended \/ v.failed => v.close = v.came
        BY <1>10 DEF Sound, WholeOK
    <2>2. v.came <= v.total
        BY <2>1 DEF Sound, LineOK
    <2>3. ASSUME u.ready, NEW k \in Nat, IsData(u.way[k]), u.way[k].n > u.close
          PROVE  \E l \in Nat : l < k /\ u.way[l].type = "CLOSE"
        <3>1. u.way[k] = v.way[k] /\ IsData(v.way[k]) /\ v.way[k].n \in 1..v.total
            BY <1>4, <2>3 DEF Sound, WayOK
        <3>2. v.close # -1
            BY <2>3, <3>1
        <3>3. PICK l \in Nat : l < k /\ v.way[l].type = "CLOSE"
            BY <1>1, <1>10, <2>3, <3>1, <3>2 DEF Sound, WholeOK
        <3> QED
            BY <1>3, <3>3
    <2>4. ASSUME u.ready, ~u.halved, u.has
          PROVE  \E l \in Nat : u.way[l].type = "CLOSE"
        <3>1. f.type = "CLOSE"
            BY <2>4 DEF Sound, WriterOK
        <3> QED
            BY <1>2, <3>1
    <2> QED
        BY <1>1, <2>1, <2>2, <2>3, <2>4 DEF WholeOK
<1> QED
    BY <1>6, <1>7, <1>8, <1>9, <1>10 DEF Sound
-----------------------------------------------------------------------------
(* The directions of a session as pipelines. *)

\* What of a stream is on the way, in the hand h and on the connection w.
Flowing(f, i) == f.id = i /\ f.type \in {"DATA", "CLOSEW", "CLOSE"}
Spot(h, w, k) == IF k = 0 THEN h ELSE w[k]
WayOf(h, w, i) ==
    [k \in Nat |-> IF k <= Len(w) /\ Flowing(Spot(h, w, k), i) THEN Spot(h, w, k) ELSE NoFrame]

\* How many bytes wait in the buffer b, and the line of those read and those waiting.
Waits(b) == IF b # <<>> /\ b[Len(b)] = 0 THEN Len(b) - 1 ELSE Len(b)
Line(g, b) ==
    [k \in Nat |-> IF k \in 1..Len(g) THEN g[k]
                   ELSE IF k - Len(g) \in 1..Waits(b) THEN b[k - Len(g)] ELSE 0]

\* What a reader of the stream is to get: it is in the table of a session that goes on,
\* or the read loop has it in hand.
Ready(s, i) ==
    \/ i \in streams[s] /\ (shut[s] = "open" \/ Flowing(hand[s], i))
    \/ loop[s] = "deliver" /\ hand[s].id = i

View(s, i) ==
    [way     |-> WayOf(hand[s], wire[s], i),
     came    |-> Len(got[s][i]) + Waits(inbuf[s][i]),
     line    |-> Line(got[s][i], inbuf[s][i]),
     ended   |-> eof[s][i] \/ Waits(inbuf[s][i]) # Len(inbuf[s][i]),
     failed  |-> closed[s][i] = "eof",
     ready   |-> Ready(s, i),
     total   |-> sent[Peer(s)][i],
     close   |-> fin[Peer(s)][i],
     halved  |-> wclosed[Peer(s)][i],
     writing |-> writer[Peer(s)][i],
     has     |-> HasStream(Peer(s), i)]

IsWhole(s, i) == s = Acceptor(i)
SoundInv == \A s \in Side, i \in Id : Sound(View(s, i), IsWhole(s, i))

\* A stream is of use to an end once it was registered there.
Registered(s, i) ==
    \/ s = Opener(i) /\ opener[i] = "open"
    \/ s = Acceptor(i) /\ request[i] \in {"accepting", "accepted", "failed"}

Delivers(s, i) == loop[s] = "deliver" /\ hand[s].id = i

\* What an end has of a stream, and what its read loop has in hand.
ReaderInv ==
    /\ \A s \in Side :
           /\ loop[s] = "deliver" => hand[s].type \in {"DATA", "CLOSEW"}
           /\ loop[s] \in {"read", "signal", "ended"} => hand[s] = NoFrame
    /\ \A s \in Side, i \in Id :
           /\ \/ i \in streams[s] \/ closed[s][i] # "no" \/ closer[s][i] # "no"
              \/ got[s][i] # <<>> \/ inbuf[s][i] # <<>> \/ eof[s][i] \/ Delivers(s, i)
              => Registered(s, i)
           /\ closed[s][i] = "session" => shut[s] # "open"
           /\ closed[s][i] \in {"eof", "local"} \/ closer[s][i] # "no" => i \notin streams[s]
           /\ closed[s][i] = "eof" => ~Delivers(s, i)

\* A nil, which stands for the end, is the last that is queued.
BufferInv ==
    \A s \in Side, i \in Id :
        /\ eof[s][i] => inbuf[s][i] = <<>>
        /\ \A k \in DOMAIN inbuf[s][i] : inbuf[s][i][k] = 0 => k = Len(inbuf[s][i])

\* Only who holds a stream writes to it, apart from the CLOSE of a call that was cancelled.
WriterInv ==
    \A s \in Side, i \in Id :
        /\ \/ sent[s][i] > 0 \/ writer[s][i] # "idle" \/ wclosed[s][i] \/ closer[s][i] # "no"
           => HasStream(s, i)
        /\ fin[s][i] # -1 => \/ HasStream(s, i)
                             \/ s = Opener(i) /\ opener[i] = "cancelled"

\* The pieces have their types.
LEMMA WayType ==
    ASSUME NEW h \in Frame, NEW w \in Seq(Frame), NEW i
    PROVE  /\ WayOf(h, w, i) \in [Nat -> Frame]
           /\ \A k \in Nat : WayOf(h, w, i)[k] =
                 IF k <= Len(w) /\ Flowing(Spot(h, w, k), i) THEN Spot(h, w, k) ELSE NoFrame
           /\ \A k \in Nat : k <= Len(w) => Spot(h, w, k) \in Frame
<1>1. ASSUME NEW k \in Nat, k <= Len(w)
      PROVE  Spot(h, w, k) \in Frame
    <2>1. CASE k = 0
        BY <2>1 DEF Spot
    <2>2. CASE k # 0
        <3>1. k \in 1..Len(w)
            BY <1>1, <2>2
        <3> QED
            BY <2>2, <3>1, ElementOfSeq DEF Spot
    <2> QED
        BY <2>1, <2>2
<1> QED
    BY <1>1, MsgIsFrame DEF WayOf

\* A line numbers the bytes read, then those that wait.
LEMMA LineType ==
    ASSUME NEW g \in Seq(0..MaxData), NEW b \in Seq(0..MaxData)
    PROVE  /\ Waits(b) \in 0..Len(b) /\ Waits(b) \in Nat /\ Len(g) + Waits(b) \in Nat
           /\ Line(g, b) \in [Nat -> Nat]
           /\ \A k \in Nat : Line(g, b)[k] =
                 IF k \in 1..Len(g) THEN g[k]
                 ELSE IF k - Len(g) \in 1..Waits(b) THEN b[k - Len(g)] ELSE 0
<1>1. Len(g) \in Nat /\ Len(b) \in Nat /\ (b # <<>> => Len(b) # 0)
    BY EmptySeq
<1>2. Waits(b) \in 0..Len(b) /\ Waits(b) \in Nat
    BY <1>1 DEF Waits
<1>3. \A k \in 1..Len(g) : g[k] \in Nat
    BY ElementOfSeq, MuxAssumption
<1>4. \A k \in 1..Len(b) : b[k] \in Nat
    BY ElementOfSeq, MuxAssumption
<1>5. \A k \in Nat : (IF k \in 1..Len(g) THEN g[k]
                      ELSE IF k - Len(g) \in 1..Waits(b) THEN b[k - Len(g)] ELSE 0) \in Nat
    BY <1>1, <1>2, <1>3, <1>4
<1> QED
    BY <1>1, <1>2, <1>5 DEF Line

\* Every direction is a pipeline.
LEMMA ViewType ==
    ASSUME NEW s \in Side, NEW i \in Id
    PROVE  /\ TypeOK => View(s, i) \in Pipeline
           /\ TypeOK' => View(s, i)' \in Pipeline
<1>1. Peer(s) \in Side
    BY PeerIsSide
<1>2. TypeOK => View(s, i) \in Pipeline
    <2> SUFFICES ASSUME TypeOK PROVE View(s, i) \in Pipeline
        OBVIOUS
    <2>1. /\ hand[s] \in Frame /\ wire[s] \in Seq(Frame)
          /\ got[s][i] \in Seq(0..MaxData) /\ inbuf[s][i] \in Seq(0..MaxData)
          /\ sent[Peer(s)][i] \in 0..MaxData /\ fin[Peer(s)][i] \in (-1)..MaxData
          /\ wclosed[Peer(s)][i] \in BOOLEAN /\ writer[Peer(s)][i] \in {"idle", "data", "closew"}
          /\ eof[s][i] \in BOOLEAN
        BY <1>1 DEF TypeOK, ConnOK, LoopOK, EndOK
    <2>2. WayOf(hand[s], wire[s], i) \in [Nat -> Frame]
        BY <2>1, WayType
    <2>3. /\ Len(got[s][i]) + Waits(inbuf[s][i]) \in Nat
          /\ Line(got[s][i], inbuf[s][i]) \in [Nat -> Nat]
        BY <2>1, LineType
    <2>4. sent[Peer(s)][i] \in Nat /\ fin[Peer(s)][i] \in Int
        BY <2>1, MuxAssumption
    <2>5. Ready(s, i) \in BOOLEAN /\ HasStream(Peer(s), i) \in BOOLEAN
        BY DEF Ready, HasStream
    <2>6. /\ (eof[s][i] \/ Waits(inbuf[s][i]) # Len(inbuf[s][i])) \in BOOLEAN
          /\ (closed[s][i] = "eof") \in BOOLEAN
        OBVIOUS
    <2> QED
        BY <2>1, <2>2, <2>3, <2>4, <2>5, <2>6 DEF View, Pipeline
<1>3. TypeOK' => View(s, i)' \in Pipeline
    <2> SUFFICES ASSUME TypeOK' PROVE View(s, i)' \in Pipeline
        OBVIOUS
    <2>1. /\ hand'[s] \in Frame /\ wire'[s] \in Seq(Frame)
          /\ got'[s][i] \in Seq(0..MaxData) /\ inbuf'[s][i] \in Seq(0..MaxData)
          /\ sent'[Peer(s)][i] \in 0..MaxData /\ fin'[Peer(s)][i] \in (-1)..MaxData
          /\ wclosed'[Peer(s)][i] \in BOOLEAN /\ writer'[Peer(s)][i] \in {"idle", "data", "closew"}
          /\ eof'[s][i] \in BOOLEAN
        BY <1>1 DEF TypeOK, ConnOK, LoopOK, EndOK
    <2>2. WayOf(hand'[s], wire'[s], i) \in [Nat -> Frame]
        BY <2>1, WayType
    <2>3. /\ Len(got'[s][i]) + Waits(inbuf'[s][i]) \in Nat
          /\ Line(got'[s][i], inbuf'[s][i]) \in [Nat -> Nat]
        BY <2>1, LineType
    <2>4. sent'[Peer(s)][i] \in Nat /\ fin'[Peer(s)][i] \in Int
        BY <2>1, MuxAssumption
    <2>5. Ready(s, i)' \in BOOLEAN /\ HasStream(Peer(s), i)' \in BOOLEAN
        BY DEF Ready, HasStream
    <2>6. /\ (eof'[s][i] \/ Waits(inbuf'[s][i]) # Len(inbuf'[s][i])) \in BOOLEAN
          /\ (closed'[s][i] = "eof") \in BOOLEAN
        OBVIOUS
    <2> QED
        BY <2>1, <2>2, <2>3, <2>4, <2>5, <2>6 DEF View, Pipeline
<1> QED
    BY <1>2, <1>3

\* Nothing of the stream is taken up, handled or sent.
LEMMA WaySame ==
    ASSUME NEW h \in Frame, NEW w \in Seq(Frame), NEW i, NEW h2 \in Frame, NEW w2,
           h2 = h \/ (~Flowing(h, i) /\ ~Flowing(h2, i)),
           w2 = w \/ \E f \in Frame : ~Flowing(f, i) /\ w2 = Append(w, f)
    PROVE  WayOf(h2, w2, i) = WayOf(h, w, i)
<1>1. w2 \in Seq(Frame)
    BY AppendProperties
<1>2. Len(w) \in Nat
    OBVIOUS
<1>3. ASSUME NEW k \in Nat
      PROVE  WayOf(h2, w2, i)[k] = WayOf(h, w, i)[k]
    <2>1. CASE k = 0
        BY <1>1, <1>2, <2>1, WayType DEF Spot
    <2>2. CASE k # 0 /\ w2 = w
        BY <1>1, <1>2, <2>2, WayType DEF Spot
    <2>3. CASE k # 0 /\ \E f \in Frame : ~Flowing(f, i) /\ w2 = Append(w, f)
        <3>1. PICK f \in Frame : ~Flowing(f, i) /\ w2 = Append(w, f)
            BY <2>3
        <3>2. /\ Len(w2) = Len(w) + 1 /\ w2[Len(w) + 1] = f
              /\ \A l \in 1..Len(w) : w2[l] = w[l]
            BY <3>1, AppendProperties
        <3>3. /\ k <= Len(w) => Spot(h2, w2, k) = Spot(h, w, k)
              /\ k = Len(w) + 1 => ~Flowing(Spot(h2, w2, k), i)
            BY <1>2, <2>3, <3>1, <3>2 DEF Spot
        <3> QED
            BY <1>1, <1>2, <3>2, <3>3, WayType
    <2> QED
        BY <2>1, <2>2, <2>3
<1> QED
    BY <1>1, <1>3, WayType

\* The next frame is taken up by a read loop that has none.
LEMMA WayShifts ==
    ASSUME NEW w \in Seq(Frame), NEW i, w # <<>>
    PROVE  /\ WayOf(NoFrame, w, i)[0] = NoFrame
           /\ WayOf(Head(w), Tail(w), i) = [k \in Nat |-> WayOf(NoFrame, w, i)[k + 1]]
<1>1. /\ Head(w) \in Frame /\ Tail(w) \in Seq(Frame) /\ Len(Tail(w)) = Len(w) - 1
      /\ Head(w) = w[1] /\ Len(w) \in Nat /\ Len(w) # 0
      /\ \A k \in 1..Len(Tail(w)) : Tail(w)[k] = w[k + 1]
    BY HeadTailProperties, EmptySeq
<1>2. NoFrame \in Frame /\ ~Flowing(NoFrame, i)
    BY MsgIsFrame DEF Flowing, NoFrame, Msg
<1>3. ASSUME NEW k \in Nat
      PROVE  WayOf(Head(w), Tail(w), i)[k] = WayOf(NoFrame, w, i)[k + 1]
    <2>1. k <= Len(Tail(w)) => Spot(Head(w), Tail(w), k) = Spot(NoFrame, w, k + 1)
        BY <1>1 DEF Spot
    <2>2. k + 1 \in Nat /\ (k <= Len(Tail(w)) <=> k + 1 <= Len(w))
        BY <1>1
    <2> QED
        BY <1>1, <1>2, <2>1, <2>2, WayType
<1>4. WayOf(NoFrame, w, i)[0] = NoFrame
    BY <1>2, WayType DEF Spot
<1> QED
    BY <1>1, <1>3, <1>4, WayType

\* The frame in hand is done with.
LEMMA WayDrops ==
    ASSUME NEW h \in Frame, NEW w \in Seq(Frame), NEW i
    PROVE  WayOf(NoFrame, w, i) = [WayOf(h, w, i) EXCEPT ![0] = NoFrame]
<1>1. NoFrame \in Frame /\ ~Flowing(NoFrame, i) /\ Len(w) \in Nat
    BY MsgIsFrame DEF Flowing, NoFrame, Msg
<1>2. \A k \in Nat : k # 0 => Spot(NoFrame, w, k) = Spot(h, w, k)
    BY DEF Spot
<1>3. Spot(NoFrame, w, 0) = NoFrame
    BY DEF Spot
<1>4. \A k \in Nat : WayOf(NoFrame, w, i)[k] =
                        IF k = 0 THEN NoFrame ELSE WayOf(h, w, i)[k]
    BY <1>1, <1>2, <1>3, WayType
<1>5. WayOf(NoFrame, w, i) \in [Nat -> Frame] /\ WayOf(h, w, i) \in [Nat -> Frame]
    BY <1>1, WayType
<1> QED
    BY <1>4, <1>5

\* A frame of the stream is sent.
LEMMA WayAdds ==
    ASSUME NEW h \in Frame, NEW w \in Seq(Frame), NEW i, NEW f \in Frame, Flowing(f, i)
    PROVE  /\ WayOf(h, Append(w, f), i) = [WayOf(h, w, i) EXCEPT ![Len(w) + 1] = f]
           /\ \A k \in Nat : k >= Len(w) + 1 => WayOf(h, w, i)[k] = NoFrame
           /\ Len(w) + 1 \in Nat
<1>1. /\ Append(w, f) \in Seq(Frame) /\ Len(Append(w, f)) = Len(w) + 1
      /\ \A k \in 1..Len(w) : Append(w, f)[k] = w[k]
      /\ Append(w, f)[Len(w) + 1] = f /\ Len(w) \in Nat
    BY AppendProperties
<1>2. \A k \in Nat : WayOf(h, Append(w, f), i)[k] =
                        IF k = Len(w) + 1 THEN f ELSE WayOf(h, w, i)[k]
    <2> SUFFICES ASSUME NEW k \in Nat
                 PROVE  WayOf(h, Append(w, f), i)[k] =
                            IF k = Len(w) + 1 THEN f ELSE WayOf(h, w, i)[k]
        OBVIOUS
    <2>1. /\ k <= Len(w) => Spot(h, Append(w, f), k) = Spot(h, w, k)
          /\ k = Len(w) + 1 => Spot(h, Append(w, f), k) = f
        BY <1>1 DEF Spot
    <2> QED
        BY <1>1, <2>1, WayType
<1>3. /\ WayOf(h, Append(w, f), i) \in [Nat -> Frame]
      /\ WayOf(h, w, i) \in [Nat -> Frame]
    BY <1>1, WayType
<1>4. \A k \in Nat : k >= Len(w) + 1 => WayOf(h, w, i)[k] = NoFrame
    BY <1>1, WayType
<1> QED
    BY <1>1, <1>2, <1>3, <1>4

\* What is read was the first that waited.
LEMMA LineReads ==
    ASSUME NEW g \in Seq(0..MaxData), NEW b \in Seq(0..MaxData), b # <<>>,
           \A k \in DOMAIN b : b[k] = 0 => k = Len(b)
    PROVE  /\ Head(b) \in 0..MaxData /\ Tail(b) \in Seq(0..MaxData)
           /\ Head(b) # 0 =>
                /\ Line(Append(g, Head(b)), Tail(b)) = Line(g, b)
                /\ Len(Append(g, Head(b))) + Waits(Tail(b)) = Len(g) + Waits(b)
                /\ Waits(Tail(b)) # Len(Tail(b)) <=> Waits(b) # Len(b)
                /\ Waits(b) > 0 /\ Line(g, b)[Len(g) + 1] = Head(b)
           /\ Head(b) = 0 =>
                /\ Tail(b) = <<>> /\ Waits(b) = 0 /\ Waits(<<>>) = 0 /\ Len(b) = 1
                /\ Line(g, <<>>) = Line(g, b)
<1>1. /\ Head(b) \in 0..MaxData /\ Tail(b) \in Seq(0..MaxData) /\ Len(Tail(b)) = Len(b) - 1
      /\ Head(b) = b[1] /\ Len(b) \in Nat /\ Len(b) # 0 /\ DOMAIN b = 1..Len(b)
      /\ \A k \in 1..Len(Tail(b)) : Tail(b)[k] = b[k + 1]
      /\ Len(g) \in Nat /\ Len(Tail(b)) \in Nat
      /\ Tail(b) = <<>> <=> Len(Tail(b)) = 0
    <2>1. /\ Head(b) \in 0..MaxData /\ Tail(b) \in Seq(0..MaxData)
          /\ Len(Tail(b)) = Len(b) - 1
          /\ \A k \in 1..Len(Tail(b)) : Tail(b)[k] = b[k + 1]
        BY HeadTailProperties
    <2>2. Len(b) \in Nat /\ Len(b) # 0 /\ DOMAIN b = 1..Len(b) /\ Len(g) \in Nat
        BY EmptySeq
    <2>3. Head(b) = b[1]
        BY <2>2
    <2>4. Tail(b) = <<>> <=> Len(Tail(b)) = 0
        BY <2>1, EmptySeq
    <2>5. Len(Tail(b)) \in Nat
        BY <2>1, <2>2
    <2> QED
        BY <2>1, <2>2, <2>3, <2>4, <2>5
<1>2. ASSUME Head(b) = 0
      PROVE  /\ Tail(b) = <<>> /\ Waits(b) = 0 /\ Waits(<<>>) = 0 /\ Len(b) = 1
             /\ Line(g, <<>>) = Line(g, b)
    <2>1. Len(b) = 1 /\ b[1] = 0 /\ Tail(b) = <<>>
        BY <1>1, <1>2
    <2>2. Waits(b) = 0 /\ Waits(<<>>) = 0
        BY <2>1, EmptySeq DEF Waits
    <2>3. Line(g, <<>>) = Line(g, b)
        BY <1>1, <2>2 DEF Line
    <2> QED
        BY <2>1, <2>2, <2>3
<1>3. ASSUME Head(b) # 0
      PROVE  /\ Line(Append(g, Head(b)), Tail(b)) = Line(g, b)
             /\ Len(Append(g, Head(b))) + Waits(Tail(b)) = Len(g) + Waits(b)
             /\ Waits(Tail(b)) # Len(Tail(b)) <=> Waits(b) # Len(b)
             /\ Waits(b) > 0 /\ Line(g, b)[Len(g) + 1] = Head(b)
    <2>1. Waits(Tail(b)) = Waits(b) - 1 /\ Waits(b) > 0
        <3>1. CASE Len(b) = 1
            BY <1>1, <1>3, <3>1 DEF Waits
        <3>2. CASE Len(b) # 1
            <4>1. Tail(b) # <<>> /\ Tail(b)[Len(Tail(b))] = b[Len(b)]
                BY <1>1, <3>2
            <4> QED
                BY <1>1, <3>2, <4>1 DEF Waits
        <3> QED
            BY <3>1, <3>2
    <2>2. /\ Append(g, Head(b)) \in Seq(0..MaxData)
          /\ Len(Append(g, Head(b))) = Len(g) + 1
          /\ \A k \in 1..Len(g) : Append(g, Head(b))[k] = g[k]
          /\ Append(g, Head(b))[Len(g) + 1] = Head(b)
        BY <1>1, AppendProperties
    <2>3. /\ Waits(b) \in 0..Len(b) /\ Waits(Tail(b)) \in 0..Len(Tail(b))
          /\ Waits(b) \in Nat /\ Waits(Tail(b)) \in Nat
        BY <1>1, LineType
    <2>4. ASSUME NEW k \in Nat
          PROVE  Line(Append(g, Head(b)), Tail(b))[k] = Line(g, b)[k]
        <3>1. CASE k \in 1..Len(g)
            BY <1>1, <2>2, <3>1 DEF Line
        <3>2. CASE k = Len(g) + 1
            <4>1. k \in 1..Len(Append(g, Head(b))) /\ k \notin 1..Len(g)
                BY <1>1, <2>2, <3>2
            <4>2. k - Len(g) = 1 /\ 1 \in 1..Waits(b)
                BY <1>1, <2>1, <2>3, <3>2
            <4> QED
                BY <1>1, <2>2, <3>2, <4>1, <4>2 DEF Line
        <3>3. CASE k \notin 1..Len(g) + 1
            <4>1. k - (Len(g) + 1) \in 1..Waits(Tail(b)) <=> k - Len(g) \in 1..Waits(b)
                BY <1>1, <2>1, <2>3, <3>3
            <4>2. k - Len(g) \in 1..Waits(b) => Tail(b)[k - (Len(g) + 1)] = b[k - Len(g)]
                <5> SUFFICES ASSUME k - Len(g) \in 1..Waits(b)
                             PROVE  Tail(b)[k - (Len(g) + 1)] = b[k - Len(g)]
                    OBVIOUS
                <5>1. k - (Len(g) + 1) \in 1..Len(Tail(b))
                    BY <1>1, <2>1, <2>3, <4>1
                <5>2. (k - (Len(g) + 1)) + 1 = k - Len(g)
                    BY <1>1
                <5> QED
                    BY <1>1, <5>1, <5>2
            <4>3. k \notin 1..Len(g) /\ k \notin 1..Len(Append(g, Head(b)))
                BY <1>1, <2>2, <3>3
            <4> QED
                BY <2>2, <4>1, <4>2, <4>3 DEF Line
        <3> QED
            BY <1>1, <3>1, <3>2, <3>3
    <2>5. Line(Append(g, Head(b)), Tail(b)) = Line(g, b)
        <3>1. /\ Line(Append(g, Head(b)), Tail(b)) \in [Nat -> Nat]
              /\ Line(g, b) \in [Nat -> Nat]
            BY <1>1, <2>2, LineType
        <3> QED
            BY <2>4, <3>1
    <2>6. Line(g, b)[Len(g) + 1] = Head(b)
        <3>1. Len(g) + 1 \in Nat /\ Len(g) + 1 \notin 1..Len(g) /\ (Len(g) + 1) - Len(g) = 1
            BY <1>1
        <3>2. 1 \in 1..Waits(b)
            BY <2>1, <2>3
        <3> QED
            BY <1>1, <3>1, <3>2 DEF Line
    <2>7. Len(Append(g, Head(b))) + Waits(Tail(b)) = Len(g) + Waits(b)
        BY <1>1, <2>1, <2>2, <2>3
    <2>8. Waits(Tail(b)) # Len(Tail(b)) <=> Waits(b) # Len(b)
        BY <1>1, <2>1, <2>3
    <2> QED
        BY <2>1, <2>5, <2>6, <2>7, <2>8
<1> QED
    BY <1>1, <1>2, <1>3

\* What is queued is the last of the line.
LEMMA LineAdds ==
    ASSUME NEW g \in Seq(0..MaxData), NEW b \in Seq(0..MaxData), NEW n \in 0..MaxData,
           Waits(b) = Len(b)
    PROVE  /\ Append(b, n) \in Seq(0..MaxData) /\ Len(Append(b, n)) = Len(b) + 1
           /\ n # 0 => /\ Waits(Append(b, n)) = Len(b) + 1
                       /\ Line(g, Append(b, n)) =
                              [Line(g, b) EXCEPT ![Len(g) + Len(b) + 1] = n]
           /\ n = 0 => /\ Waits(Append(b, n)) = Len(b)
                       /\ Line(g, Append(b, n)) = Line(g, b)
<1>1. /\ Append(b, n) \in Seq(0..MaxData) /\ Len(Append(b, n)) = Len(b) + 1
      /\ \A k \in 1..Len(b) : Append(b, n)[k] = b[k]
      /\ Append(b, n)[Len(b) + 1] = n
      /\ Len(b) \in Nat /\ Len(g) \in Nat /\ Append(b, n) # <<>>
    BY AppendProperties
<1>2. Waits(Append(b, n)) = IF n = 0 THEN Len(b) ELSE Len(b) + 1
    BY <1>1 DEF Waits
<1>3. ASSUME NEW k \in Nat
      PROVE  Line(g, Append(b, n))[k] =
                 IF n # 0 /\ k = Len(g) + Len(b) + 1 THEN n ELSE Line(g, b)[k]
    <2>1. CASE k \in 1..Len(g)
        BY <1>1, <2>1 DEF Line
    <2>2. CASE k \notin 1..Len(g)
        <3>1. k - Len(g) \in 1..Len(b) => Append(b, n)[k - Len(g)] = b[k - Len(g)]
            BY <1>1
        <3>2. /\ Line(g, Append(b, n))[k] = IF k - Len(g) \in 1..Waits(Append(b, n))
                                            THEN Append(b, n)[k - Len(g)] ELSE 0
              /\ Line(g, b)[k] = IF k - Len(g) \in 1..Len(b) THEN b[k - Len(g)] ELSE 0
            BY <1>1, <2>2 DEF Line
        <3>3. /\ k = Len(g) + Len(b) + 1 <=> k - Len(g) = Len(b) + 1
              /\ k - Len(g) \in 1..(Len(b) + 1) <=>
                     k - Len(g) \in 1..Len(b) \/ k - Len(g) = Len(b) + 1
              /\ Len(b) + 1 \notin 1..Len(b)
            BY <1>1
        <3> QED
            BY <1>1, <1>2, <3>1, <3>2, <3>3
    <2> QED
        BY <2>1, <2>2
<1>4. Line(g, Append(b, n)) \in [Nat -> Nat] /\ Line(g, b) \in [Nat -> Nat]
    BY <1>1, LineType
<1>5. Len(g) + Len(b) + 1 \in Nat
    BY <1>1
<1>6. n # 0 => Line(g, Append(b, n)) = [Line(g, b) EXCEPT ![Len(g) + Len(b) + 1] = n]
    BY <1>3, <1>4, <1>5
<1>7. n = 0 => Line(g, Append(b, n)) = Line(g, b)
    BY <1>3, <1>4
<1> QED
    BY <1>1, <1>2, <1>6, <1>7
-----------------------------------------------------------------------------
(* The steps of a session. *)

\* There are two sides, and each stream has an end on both.
LEMMA Sides ==
    /\ \A s \in Side : Peer(s) \in Side /\ Peer(s) # s /\ Peer(Peer(s)) = s
    /\ \A s, x \in Side : x = s \/ x = Peer(s)
    /\ \A i \in Id : /\ Opener(i) \in Side /\ Acceptor(i) \in Side
                     /\ Opener(i) # Acceptor(i)
                     /\ Peer(Opener(i)) = Acceptor(i) /\ Peer(Acceptor(i)) = Opener(i)
BY DEF Opener, Acceptor, Peer, Side

\* The steps that move something of the streams of a side, or of one stream, ...
SideMoves(s) ==
    ShutdownSweep(s) \/ ReadFrame(s) \/ HandleData(s) \/ HandleClose(s) \/ Deliver(s)
EndMoves(s, i) ==
    \/ s = Opener(i) /\ (OpenReply(i) \/ OpenCancelSend(i))
    \/ s = Acceptor(i) /\ (RequestAccept(i) \/ RequestAcceptSend(i))
    \/ Read(s, i) \/ WriteBegin(s, i) \/ CloseWriteBegin(s, i) \/ CloseBegin(s, i)
    \/ Finish(s, i)
Moves == \E s \in Side : SideMoves(s) \/ \E i \in Id : EndMoves(s, i)

\* ... and what the others do.
Keeps(x, y, these) == x = y \/ {x, y} \cap these = {}
QuietLoop(x) ==
    \/ hand'[x] = hand[x] /\ loop'[x] = loop[x]
    \/ /\ hand[x].type \notin {"DATA", "CLOSEW", "CLOSE"}
       /\ hand'[x].type \notin {"DATA", "CLOSEW", "CLOSE"}
       /\ loop[x] # "deliver" /\ loop'[x] # "deliver"
       /\ loop'[x] \in {"read", "signal", "ended"} => hand'[x] = NoFrame
QuietFrames(w, w2) ==
    w2 = w \/ \E f \in Frame : f.type \notin {"DATA", "CLOSEW", "CLOSE"} /\ w2 = Append(w, f)
Quiet ==
    /\ UNCHANGED <<streams, endVars>>
    /\ \A x \in Side :
           /\ shut'[x] = "open" => shut[x] = "open"
           /\ QuietLoop(x) /\ QuietFrames(wire[x], wire'[x])
    /\ \A i \in Id :
           /\ Keeps(opener[i], opener'[i], {"open", "cancelled"})
           /\ Keeps(request[i], request'[i], {"accepting", "accepted", "failed"})

\* A frame write of none of these.
LEMMA QuietSends ==
    ASSUME TypeOK, NEW s \in Side, NEW f \in Frame, f.type \notin {"DATA", "CLOSEW", "CLOSE"},
           Send(s, f) \/ SendFails(s)
    PROVE  \A x \in Side : QuietFrames(wire[x], wire'[x])
<1>1. wire \in [Side -> Seq(Frame)] /\ Peer(s) \in Side
    BY PeerIsSide DEF TypeOK, ConnOK
<1> QED
    BY <1>1 DEF Send, SendFails, QuietFrames

\* Every step is one or the other.
LEMMA Kinds ==
    ASSUME TypeOK, CallsInv, BeatsInv, OpensInv, ReaderInv, [Next]_vars
    PROVE  Quiet \/ Moves
<1> SUFFICES ASSUME ~Moves
             PROVE  Quiet
    OBVIOUS
<1>h. /\ hand \in [Side -> Frame] /\ loop \in [Side -> {"read", "handle", "signal",
                                                        "deliver", "send", "ended"}]
      /\ wire \in [Side -> Seq(Frame)] /\ shut \in [Side -> {"open", "closing", "swept", "done"}]
      /\ DOMAIN opener = Id /\ DOMAIN request = Id
    BY DEF TypeOK, ConnOK, LoopOK, OpenOK, AcceptOK
<1>n. NoFrame.type = "NONE"
    BY DEF NoFrame, Msg
<1> DEFINE Still == /\ UNCHANGED <<streams, endVars>>
                    /\ \A x \in Side : shut'[x] = "open" => shut[x] = "open"
           Calls == \A i \in Id :
                        /\ Keeps(opener[i], opener'[i], {"open", "cancelled"})
                        /\ Keeps(request[i], request'[i], {"accepting", "accepted", "failed"})
           Loops == \A x \in Side : QuietLoop(x)
           Wires == \A x \in Side : QuietFrames(wire[x], wire'[x])
<1>q. Still /\ Calls /\ Loops /\ Wires => Quiet
    BY DEF Quiet
<1>k. /\ UNCHANGED <<opener, request>> => Calls
      /\ UNCHANGED loopVars => Loops
      /\ UNCHANGED wire => Wires
      /\ UNCHANGED <<streams, endVars, shut>> => Still
    BY DEF Keeps, QuietLoop, QuietFrames, loopVars
<1>s. ASSUME NEW s \in Side, NEW f \in Frame, f.type \notin {"DATA", "CLOSEW", "CLOSE"},
             Send(s, f) \/ SendFails(s)
      PROVE  Wires
    BY <1>s, QuietSends
<1>m. ASSUME NEW s \in Side PROVE ~SideMoves(s) /\ \A i \in Id : ~EndMoves(s, i)
    BY DEF Moves
<1>1. CASE Cut \/ UNCHANGED vars
    <2>1. UNCHANGED <<wire, shut, opener, request, loopVars, streams, endVars>>
        BY <1>1 DEF Cut, vars, connVars, openVars, acceptVars
    <2> HIDE DEF Still, Calls, Loops, Wires
    <2> QED
        BY <1>q, <1>k, <2>1
<1>2. ASSUME NEW s \in Side, Step(s)
      PROVE  Quiet
    <2> USE DEF connVars, openVars, acceptVars
    <2>1. CASE Shutdown(s) \/ SessionClose(s)
        <3>1. ShutdownDone(s) \/ SessionClose(s)
            BY <1>m, <2>1 DEF Shutdown, SideMoves
        <3>2. Still
            BY <1>h, <3>1 DEF ShutdownDone, SessionClose, BeginShutdown
        <3>3. UNCHANGED <<wire, opener, request, loopVars>>
            BY <3>1 DEF ShutdownDone, SessionClose
        <3> HIDE DEF Still, Calls, Loops, Wires
        <3> QED
            BY <1>q, <1>k, <3>2, <3>3
    <2>2. CASE ReadLoop(s)
        <3> USE DEF Holds, LoopNext, Loop
        <3>1. CASE LoopEnds(s)
            <4>1. Still
                BY <1>h, <3>1 DEF LoopEnds, BeginShutdown
            <4>2. Loops
                BY <1>h, <1>n, <3>1 DEF LoopEnds, QuietLoop, ReaderInv
            <4>3. UNCHANGED <<wire, opener, request>>
                BY <3>1 DEF LoopEnds
            <4> HIDE DEF Still, Calls, Loops, Wires
            <4> QED
                BY <1>q, <1>k, <4>1, <4>2, <4>3
        <3>2. CASE LoopSend(s)
            <4>1. hand[s].type \in {"OPEN_ERR", "PONG"} /\ hand[s] \in Frame
                BY <1>h, <3>2 DEF LoopSend, BeatsInv
            <4>2. Loops
                BY <1>h, <1>n, <3>2, <4>1 DEF LoopSend, QuietLoop
            <4>3. Wires
                BY <1>s, <3>2, <4>1 DEF LoopSend, Attempt
            <4>4. UNCHANGED <<streams, endVars, shut, opener, request>>
                BY <3>2 DEF LoopSend
            <4> HIDE DEF Still, Calls, Loops, Wires
            <4> QED
                BY <1>q, <1>k, <4>2, <4>3, <4>4
        <3>3. CASE HandleOpen(s)
            <4>1. hand[s].id \in Id /\ request[hand[s].id] = "none"
                BY <1>h, <3>3, FrameFields DEF HandleOpen, OpensInv, FramesInv, Fits, StreamType
            <4>2. Loops
                BY <1>h, <1>n, <3>3 DEF HandleOpen, QuietLoop, Msg
            <4>3. Calls
                BY <1>h, <3>3, <4>1 DEF HandleOpen, Enqueue, Keeps
            <4>4. UNCHANGED <<streams, endVars, shut, wire>>
                BY <3>3 DEF HandleOpen
            <4> HIDE DEF Still, Calls, Loops, Wires
            <4> QED
                BY <1>q, <1>k, <4>2, <4>3, <4>4
        <3>4. CASE HandleBadOpen(s) \/ EnqueueSignal(s) \/ HandlePing(s) \/ HandlePong(s)
            <4>1. Loops
                BY <1>h, <1>n, <3>4 DEF HandleBadOpen, EnqueueSignal, HandlePing, HandlePong,
                                        QuietLoop, Msg, ReaderInv
            <4>2. UNCHANGED <<streams, endVars, shut, wire, opener, request>>
                BY <3>4 DEF HandleBadOpen, EnqueueSignal, HandlePing, HandlePong
            <4> HIDE DEF Still, Calls, Loops, Wires
            <4> QED
                BY <1>q, <1>k, <4>1, <4>2
        <3>5. CASE HandleReply(s)
            <4>1. Loops
                BY <1>h, <1>n, <3>5 DEF HandleReply, QuietLoop
            <4>2. UNCHANGED <<streams, endVars, shut, wire, opener, request>>
                BY <3>5 DEF HandleReply
            <4> HIDE DEF Still, Calls, Loops, Wires
            <4> QED
                BY <1>q, <1>k, <4>1, <4>2
        <3> QED
            BY <1>m, <2>2, <3>1, <3>2, <3>3, <3>4, <3>5 DEF ReadLoop, SideMoves
    <2>3. CASE OpenBegin(s)
        <3>1. opener[nextID[s]] = "none"
            BY <2>3, MuxAssumption DEF OpenBegin, CallsInv, OpensInv, AnswersInv, Id
        <3>2. Calls
            BY <1>h, <2>3, <3>1 DEF OpenBegin, Keeps
        <3>3. UNCHANGED <<streams, endVars, shut, wire, loopVars>>
            BY <2>3 DEF OpenBegin
        <3> HIDE DEF Still, Calls, Loops, Wires
        <3> QED
            BY <1>q, <1>k, <3>2, <3>3
    <2>4. CASE AcceptLoop(s) \/ AcceptCancel(s)
        <3>1. UNCHANGED <<streams, endVars, shut, wire, loopVars, opener>>
            BY <2>4 DEF AcceptLoop, AcceptDequeue, AcceptSleep, AcceptWake, AcceptDone,
                        AcceptCancel
        <3>2. CASE UNCHANGED request
            <4> HIDE DEF Still, Calls, Loops, Wires
            <4> QED
                BY <1>q, <1>k, <3>1, <3>2
        <3>3. CASE Dequeue(s)
            <4>1. request[Head(queue[s])] = "queued"
                <5>1. queue[s] \in Seq(Id) /\ queue[s] # <<>>
                    BY <3>3 DEF Dequeue, TypeOK, AcceptOK
                <5>2. 1 \in DOMAIN queue[s] /\ Head(queue[s]) = queue[s][1]
                    BY <5>1, EmptySeq
                <5> QED
                    BY <5>2 DEF OpensInv, QueueInv
            <4>2. Calls
                BY <1>h, <3>1, <3>3, <4>1 DEF Dequeue, Keeps
            <4> HIDE DEF Still, Calls, Loops, Wires
            <4> QED
                BY <1>q, <1>k, <3>1, <4>2
        <3> QED
            BY <2>4, <3>2, <3>3 DEF AcceptLoop, AcceptDequeue, AcceptSleep, AcceptWake,
                                    AcceptDone, AcceptCancel
    <2>5. CASE SendExtra(s)
        <3>1. PICK t \in Foreign \cup (IF s \in Pingers THEN {"PING"} ELSE {}) :
                  Send(s, Msg(t, 0))
            BY <2>5 DEF SendExtra
        <3>2. Msg(t, 0) \in Frame /\ Msg(t, 0).type \notin {"DATA", "CLOSEW", "CLOSE"}
            BY <3>1, MsgIsFrame, MuxAssumption DEF Msg, ControlType
        <3>3. Wires
            BY <1>s, <3>1, <3>2
        <3>4. UNCHANGED <<streams, endVars, shut, opener, request, loopVars>>
            BY <2>5 DEF SendExtra
        <3> HIDE DEF Still, Calls, Loops, Wires
        <3> QED
            BY <1>q, <1>k, <3>3, <3>4
    <2>6. ASSUME NEW i \in Id, Opener(i) = s, Open(i) \/ OpenCancel(i)
          PROVE  Quiet
        <3>1. OpenSend(i) \/ OpenDone(i) \/ OpenCancel(i)
            BY <1>m, <2>6 DEF Open, EndMoves
        <3>2. Calls
            BY <1>h, <3>1 DEF OpenSend, OpenDone, OpenCancel, Keeps
        <3>3. Wires
            <4>1. Msg("OPEN", i) \in Frame /\ Msg("OPEN", i).type = "OPEN"
                BY MsgIsFrame DEF StreamType, Msg
            <4>2. CASE OpenSend(i)
                BY <1>s, <2>6, <4>1, <4>2 DEF OpenSend
            <4>3. CASE OpenDone(i) \/ OpenCancel(i)
                BY <1>k, <4>3 DEF OpenDone, OpenCancel
            <4> QED
                BY <3>1, <4>2, <4>3
        <3>4. UNCHANGED <<streams, endVars, shut, loopVars>>
            BY <3>1 DEF OpenSend, OpenDone, OpenCancel
        <3> HIDE DEF Still, Calls, Loops, Wires
        <3> QED
            BY <1>q, <1>k, <3>2, <3>3, <3>4
    <2>7. ASSUME NEW i \in Id, Acceptor(i) = s, Answer(i)
          PROVE  Quiet
        <3>1. RequestReject(i)
            BY <1>m, <2>7 DEF Answer, EndMoves
        <3>2. Calls
            BY <1>h, <3>1 DEF RequestReject, Keeps
        <3>3. Wires
            <4>1. Msg("OPEN_ERR", i) \in Frame /\ Msg("OPEN_ERR", i).type = "OPEN_ERR"
                BY MsgIsFrame DEF ControlType, Msg
            <4> QED
                BY <1>s, <2>7, <3>1, <4>1 DEF RequestReject, Attempt
        <3>4. UNCHANGED <<streams, endVars, shut, loopVars>>
            BY <3>1 DEF RequestReject
        <3> HIDE DEF Still, Calls, Loops, Wires
        <3> QED
            BY <1>q, <1>k, <3>2, <3>3, <3>4
    <2> QED
        BY <1>m, <1>2, <2>1, <2>2, <2>3, <2>4, <2>5, <2>6, <2>7
           DEF Step, Serve, FinishAny, Start, EndMoves
<1> QED
    BY <1>1, <1>2 DEF Next

\* What a session has of its streams, as far as it is for good.
LEMMA QuietCallsHold ==
    ASSUME Quiet, NEW s \in Side, NEW i \in Id
    PROVE  /\ HasStream(s, i)' <=> HasStream(s, i)
           /\ Registered(s, i)' <=> Registered(s, i)
           /\ opener'[i] = "cancelled" <=> opener[i] = "cancelled"
BY DEF Quiet, Keeps, HasStream, Registered

\* A session that is shut stays so,
LEMMA MovesShut ==
    ASSUME TypeOK, Moves, NEW s \in Side
    PROVE  shut'[s] = "open" => shut[s] = "open"
<1>1. shut \in [Side -> {"open", "closing", "swept", "done"}]
    BY DEF TypeOK, ConnOK
<1>2. ASSUME NEW x \in Side, SideMoves(x)
      PROVE  shut'[s] = "open" => shut[s] = "open"
    BY <1>1, <1>2 DEF SideMoves, ShutdownSweep, ReadFrame, HandleData, HandleClose, Deliver,
                      connVars
<1>3. ASSUME NEW x \in Side, NEW j \in Id, EndMoves(x, j)
      PROVE  UNCHANGED shut
    BY <1>3 DEF EndMoves, OpenReply, OpenCancelSend, RequestAccept, RequestAcceptSend, Read,
                WriteBegin, CloseWriteBegin, CloseBegin, Finish, WriteSend, CloseWriteSend,
                CloseSend, connVars
<1> QED
    BY <1>2, <1>3 DEF Moves

\* ... and an end that holds a stream, or had it in its table, keeps the title to it.
LEMMA MovesHold ==
    ASSUME TypeOK, Moves, NEW s \in Side, NEW i \in Id
    PROVE  /\ HasStream(s, i) => HasStream(s, i)'
           /\ Registered(s, i) => Registered(s, i)'
           /\ opener[i] = "cancelled" => opener'[i] = "cancelled"
<1>1. DOMAIN opener = Id /\ DOMAIN request = Id
    BY DEF TypeOK, OpenOK, AcceptOK
<1> DEFINE Holds1 == /\ opener[i] = "open" => opener'[i] = "open"
                     /\ opener[i] = "cancelled" => opener'[i] = "cancelled"
                     /\ request[i] = "accepted" => request'[i] = "accepted"
                     /\ request[i] \in {"accepting", "accepted", "failed"} =>
                            request'[i] \in {"accepting", "accepted", "failed"}
<1>2. ASSUME NEW x \in Side, SideMoves(x)
      PROVE  Holds1
    BY <1>1, <1>2 DEF SideMoves, ShutdownSweep, ReadFrame, HandleData, HandleClose, Deliver,
                      openVars, acceptVars, connVars
<1>3. ASSUME NEW x \in Side, NEW j \in Id, EndMoves(x, j)
      PROVE  Holds1
    <2> USE <1>1 DEF openVars, acceptVars, connVars
    <2>1. CASE OpenReply(j) \/ OpenCancelSend(j)
        BY <2>1 DEF OpenReply, OpenCancelSend
    <2>2. CASE RequestAccept(j) \/ RequestAcceptSend(j)
        BY <2>2 DEF RequestAccept, RequestAcceptSend
    <2>3. CASE Read(x, j) \/ WriteBegin(x, j) \/ CloseWriteBegin(x, j) \/ CloseBegin(x, j)
        BY <2>3 DEF Read, WriteBegin, CloseWriteBegin, CloseBegin
    <2>4. CASE Finish(x, j)
        BY <2>4 DEF Finish, WriteSend, CloseWriteSend, CloseSend
    <2> QED
        BY <1>3, <2>1, <2>2, <2>3, <2>4 DEF EndMoves
<1> QED
    BY <1>2, <1>3 DEF Moves, HasStream, Registered

-----------------------------------------------------------------------------
(* Readers and writers. *)

\* Steps that leave what a reader has alone.
readerVars == <<loop, hand, streams, closed, closer, got, inbuf, eof>>

\* Such a step keeps what a reader has within bounds.
LEMMA ReaderKept ==
    ASSUME ReaderInv, UNCHANGED readerVars,
           \A s \in Side, i \in Id : Registered(s, i) => Registered(s, i)',
           \A s \in Side : shut'[s] = "open" => shut[s] = "open"
    PROVE  ReaderInv'
BY DEF ReaderInv, readerVars, Delivers

\* A frame is delivered to a stream of the table.
LEMMA HandleDataReader ==
    ASSUME TypeOK, ReaderInv, NEW s \in Side, HandleData(s),
           \A x \in Side, j \in Id : Registered(x, j) => Registered(x, j)'
    PROVE  ReaderInv'
<1>1. /\ UNCHANGED <<streams, closed, closer, got, inbuf, eof, shut>>
      /\ \A x \in Side : x # s => hand'[x] = hand[x] /\ loop'[x] = loop[x]
      /\ \/ loop'[s] = "read" /\ hand'[s] = NoFrame
         \/ /\ loop'[s] = "deliver" /\ hand'[s] = hand[s]
            /\ hand[s].type \in {"DATA", "CLOSEW"} /\ hand[s].id \in streams[s]
    BY DEF HandleData, LoopNext, Loop, Holds, TypeOK, LoopOK, endVars, connVars
<1>2. \A x \in Side : /\ loop'[x] = "deliver" => hand'[x].type \in {"DATA", "CLOSEW"}
                      /\ loop'[x] \in {"read", "signal", "ended"} => hand'[x] = NoFrame
    BY <1>1 DEF ReaderInv
<1>3. \A x \in Side, j \in Id : Delivers(x, j)' => Delivers(x, j) \/ j \in streams[x]
    BY <1>1 DEF Delivers
<1>4. ASSUME NEW x \in Side, NEW j \in Id, Delivers(x, j)'
      PROVE  Registered(x, j)' /\ closed[x][j] # "eof"
    BY <1>3, <1>4 DEF ReaderInv
<1>5. ASSUME NEW x \in Side, NEW j \in Id,
             \/ j \in streams'[x] \/ closed'[x][j] # "no" \/ closer'[x][j] # "no"
             \/ got'[x][j] # <<>> \/ inbuf'[x][j] # <<>> \/ eof'[x][j]
      PROVE  Registered(x, j)'
    BY <1>1, <1>5 DEF ReaderInv
<1> QED
    BY <1>1, <1>2, <1>4, <1>5 DEF ReaderInv

\* Nothing comes to an end that never registered the stream, nor after its CLOSE.
LEMMA NextReaderInv ==
    TypeOK /\ CallsInv /\ BeatsInv /\ OpensInv /\ ReaderInv /\ [Next]_vars => ReaderInv'
<1> SUFFICES ASSUME TypeOK, CallsInv, BeatsInv, OpensInv, ReaderInv, [Next]_vars
             PROVE  ReaderInv'
    OBVIOUS
<1>h. /\ hand \in [Side -> Frame] /\ loop \in [Side -> {"read", "handle", "signal",
                                                        "deliver", "send", "ended"}]
      /\ shut \in [Side -> {"open", "closing", "swept", "done"}]
      /\ streams \in [Side -> SUBSET Id]
      /\ DOMAIN opener = Id /\ DOMAIN request = Id
      /\ closed \in [Side -> [Id -> {"no", "eof", "local", "session"}]]
      /\ closer \in [Side -> [Id -> {"no", "sending", "done"}]]
      /\ got \in [Side -> [Id -> Seq(0..MaxData)]]
      /\ inbuf \in [Side -> [Id -> Seq(0..MaxData)]]
      /\ eof \in [Side -> [Id -> BOOLEAN]]
    BY DEF TypeOK, ConnOK, LoopOK, OpenOK, AcceptOK, EndOK
<1>1. CASE Quiet
    <2>1. \A x \in Side, j \in Id : Registered(x, j)' <=> Registered(x, j)
        BY <1>1, QuietCallsHold
    <2> QED
        BY <1>1, <2>1 DEF Quiet, QuietLoop, ReaderInv, Delivers, endVars
<1>2. CASE Moves
    <2>r. /\ \A x \in Side, j \in Id : Registered(x, j) => Registered(x, j)'
          /\ \A x \in Side : shut'[x] = "open" => shut[x] = "open"
        BY <1>2, MovesHold, MovesShut
    <2>1. ASSUME NEW s \in Side, SideMoves(s)
          PROVE  ReaderInv'
        <3> USE <1>h, <2>r DEF LoopNext, Loop, Holds, RemoveStream, Fail, ReaderInv, Delivers,
                openVars, acceptVars, connVars, loopVars, endVars
        <3>1. CASE ShutdownSweep(s)
            BY <3>1 DEF ShutdownSweep
        <3>2. CASE ReadFrame(s)
            BY <3>2 DEF ReadFrame
        <3>3. CASE HandleData(s)
            BY <3>3, HandleDataReader
        <3>4. CASE HandleClose(s)
            BY <3>4 DEF HandleClose
        <3>5. CASE Deliver(s)
            BY <3>5 DEF Deliver
        <3> QED
            BY <2>1, <3>1, <3>2, <3>3, <3>4, <3>5 DEF SideMoves
    <2>2. ASSUME NEW s \in Side, NEW i \in Id, EndMoves(s, i)
          PROVE  ReaderInv'
        <3> USE DEF openVars, acceptVars, connVars, loopVars, endVars
        <3>1. CASE \/ OpenCancelSend(i) \/ WriteBegin(s, i) \/ CloseWriteBegin(s, i)
                   \/ WriteSend(s, i) \/ CloseWriteSend(s, i)
            <4>1. UNCHANGED readerVars
                BY <3>1 DEF OpenCancelSend, WriteBegin, CloseWriteBegin, WriteSend,
                            CloseWriteSend, readerVars
            <4> QED
                BY <2>r, <4>1, ReaderKept
        <3> USE <1>h, <2>r DEF RemoveStream, NewStream, Fail, ReaderInv, Delivers
        <3>2. CASE s = Opener(i) /\ OpenReply(i)
            <4>1. ~Registered(s, i) /\ (i \in streams'[s] => Registered(s, i)')
                BY <3>2, Sides DEF OpenReply, Registered
            <4>2. /\ UNCHANGED <<loop, hand, closed, closer, got, inbuf, eof, shut>>
                  /\ \A x \in Side, j \in Id :
                         j \in streams'[x] => j \in streams[x] \/ (x = s /\ j = i)
                BY <3>2 DEF OpenReply
            <4> QED
                BY <4>1, <4>2
        <3>3. CASE s = Acceptor(i) /\ RequestAccept(i)
            <4>1. ~Registered(s, i) /\ Registered(s, i)'
                BY <3>3, Sides DEF RequestAccept, Registered
            <4> QED
                BY <3>3, <4>1 DEF RequestAccept
        <3>4. CASE s = Acceptor(i) /\ RequestAcceptSend(i)
            <4> HIDE DEF ReaderInv
            <4>1. /\ UNCHANGED <<loop, hand, closed, closer, got, inbuf, eof, shut>>
                  /\ streams' = streams \/ streams' = [streams EXCEPT ![s] = @ \ {i}]
                BY <3>4 DEF RequestAcceptSend
            <4>2. \A x \in Side, j \in Id : j \in streams'[x] => j \in streams[x]
                <5>1. streams \in [Side -> SUBSET Id]
                    BY <1>h
                <5> QED
                    BY <4>1, <5>1
            <4> QED
                BY <4>1, <4>2 DEF ReaderInv
        <3>5. CASE Read(s, i)
            BY <3>5 DEF Read
        <3>6. CASE CloseBegin(s, i)
            <4>1. Registered(s, i)
                BY <3>6 DEF CloseBegin, HasStream, Registered
            <4> QED
                BY <3>6, <4>1 DEF CloseBegin
        <3>7. CASE CloseSend(s, i)
            BY <3>7 DEF CloseSend
        <3> QED
            BY <2>2, <3>1, <3>2, <3>3, <3>4, <3>5, <3>6, <3>7 DEF EndMoves, Finish
    <2> QED
        BY <1>2, <2>1, <2>2 DEF Moves
<1> QED
    BY <1>1, <1>2, Kinds

\* Writers.
writerVars == <<sent, fin, wclosed, writer, closer>>

\* Nothing is written by an end that does not hold the stream.
LEMMA NextWriterInv ==
    TypeOK /\ CallsInv /\ BeatsInv /\ OpensInv /\ ReaderInv /\ WriterInv /\ [Next]_vars
        => WriterInv'
<1> SUFFICES ASSUME TypeOK, CallsInv, BeatsInv, OpensInv, ReaderInv, WriterInv, [Next]_vars
             PROVE  WriterInv'
    OBVIOUS
<1>h. /\ sent \in [Side -> [Id -> 0..MaxData]] /\ fin \in [Side -> [Id -> (-1)..MaxData]]
      /\ wclosed \in [Side -> [Id -> BOOLEAN]] /\ writer \in [Side -> [Id -> {"idle", "data", "closew"}]]
      /\ closer \in [Side -> [Id -> {"no", "sending", "done"}]]
      /\ DOMAIN opener = Id
    BY DEF TypeOK, OpenOK, EndOK
<1>k. ASSUME UNCHANGED writerVars,
             \A x \in Side, j \in Id : /\ HasStream(x, j) => HasStream(x, j)'
                                       /\ opener[j] = "cancelled" => opener'[j] = "cancelled"
      PROVE  WriterInv'
    BY <1>k DEF WriterInv, writerVars
<1>1. CASE Quiet
    <2>1. UNCHANGED writerVars
        BY <1>1 DEF Quiet, endVars, writerVars
    <2> QED
        BY <1>1, <1>k, <2>1, QuietCallsHold
<1>2. CASE Moves
    <2>r. \A x \in Side, j \in Id : /\ HasStream(x, j) => HasStream(x, j)'
                                    /\ opener[j] = "cancelled" => opener'[j] = "cancelled"
        BY <1>2, MovesHold
    <2>1. ASSUME NEW s \in Side, SideMoves(s)
          PROVE  WriterInv'
        <3>1. UNCHANGED writerVars
            BY <2>1 DEF SideMoves, ShutdownSweep, ReadFrame, HandleData, HandleClose, Deliver,
                        endVars, writerVars
        <3> QED
            BY <1>k, <2>r, <3>1
    <2>2. ASSUME NEW s \in Side, NEW i \in Id, EndMoves(s, i)
          PROVE  WriterInv'
        <3>1. CASE OpenReply(i) \/ RequestAccept(i) \/ RequestAcceptSend(i) \/ Read(s, i)
            <4>1. UNCHANGED writerVars
                BY <3>1 DEF OpenReply, RequestAccept, RequestAcceptSend, Read, endVars, writerVars
            <4> QED
                BY <1>k, <2>r, <4>1
        <3> USE <1>h, <2>r DEF WriterInv
        <3>2. CASE s = Opener(i) /\ OpenCancelSend(i)
            <4>1. opener'[i] = "cancelled"
                BY <3>2 DEF OpenCancelSend
            <4>2. /\ UNCHANGED <<sent, wclosed, writer, closer>>
                  /\ \A x \in Side, j \in Id : fin'[x][j] = fin[x][j] \/ (x = s /\ j = i)
                BY <3>2 DEF OpenCancelSend, SendFinal
            <4> QED
                BY <3>2, <4>1, <4>2
        <3>3. CASE WriteBegin(s, i) \/ CloseWriteBegin(s, i) \/ CloseBegin(s, i)
            <4>1. HasStream(s, i)'
                BY <3>3 DEF WriteBegin, CloseWriteBegin, CloseBegin
            <4> QED
                BY <3>3, <4>1 DEF WriteBegin, CloseWriteBegin, CloseBegin, endVars
        <3>4. CASE Finish(s, i)
            <4>1. HasStream(s, i)'
                BY <3>4 DEF Finish, WriteSend, CloseWriteSend, CloseSend
            <4>2. CASE WriteSend(s, i)
                <5>1. /\ UNCHANGED <<fin, wclosed, closer>>
                      /\ \A x \in Side, j \in Id :
                             sent'[x][j] = sent[x][j] \/ (x = s /\ j = i)
                    BY <4>2 DEF WriteSend
                <5>2. writer' = writer \/ writer' = [writer EXCEPT ![s][i] = "idle"]
                    BY <4>2 DEF WriteSend
                <5>3. \A x \in Side, j \in Id :
                          writer'[x][j] = writer[x][j] \/ (x = s /\ j = i)
                    BY <5>2
                <5>4. ASSUME NEW x \in Side, NEW j \in Id
                      PROVE  /\ \/ sent'[x][j] > 0 \/ writer'[x][j] # "idle" \/ wclosed'[x][j]
                                \/ closer'[x][j] # "no"
                                => HasStream(x, j)'
                             /\ fin'[x][j] # -1 =>
                                    \/ HasStream(x, j)'
                                    \/ x = Opener(j) /\ opener'[j] = "cancelled"
                    <6>1. CASE x = s /\ j = i
                        BY <4>1, <6>1
                    <6>2. CASE ~(x = s /\ j = i)
                        BY <5>1, <5>3, <6>2
                    <6> QED
                        BY <6>1, <6>2
                <5> QED
                    BY <5>4
            <4>3. CASE CloseWriteSend(s, i)
                BY <4>1, <4>3 DEF CloseWriteSend, SendFinal
            <4>4. CASE CloseSend(s, i)
                BY <4>1, <4>4 DEF CloseSend, SendFinal
            <4> QED
                BY <3>4, <4>2, <4>3, <4>4 DEF Finish
        <3> QED
            BY <2>2, <3>1, <3>2, <3>3, <3>4 DEF EndMoves
    <2> QED
        BY <1>2, <2>1, <2>2 DEF Moves
<1> QED
    BY <1>1, <1>2, Kinds

-----------------------------------------------------------------------------
(* The pipelines of a session. *)

\* The parts of a pipeline, now
LEMMA Views ==
    ASSUME NEW s \in Side, NEW i \in Id
    PROVE  /\ View(s, i).way = WayOf(hand[s], wire[s], i)
           /\ View(s, i).came = Len(got[s][i]) + Waits(inbuf[s][i])
           /\ View(s, i).line = Line(got[s][i], inbuf[s][i])
           /\ View(s, i).ended <=> eof[s][i] \/ Waits(inbuf[s][i]) # Len(inbuf[s][i])
           /\ View(s, i).failed <=> closed[s][i] = "eof"
           /\ View(s, i).ready <=> Ready(s, i)
           /\ View(s, i).total = sent[Peer(s)][i]
           /\ View(s, i).close = fin[Peer(s)][i]
           /\ View(s, i).halved = wclosed[Peer(s)][i]
           /\ View(s, i).writing = writer[Peer(s)][i]
           /\ View(s, i).has <=> HasStream(Peer(s), i)
BY DEF View

\* ... and in the next state.
LEMMA NextViews ==
    ASSUME NEW s \in Side, NEW i \in Id
    PROVE  /\ View(s, i)'.way = WayOf(hand'[s], wire'[s], i)
           /\ View(s, i)'.came = Len(got'[s][i]) + Waits(inbuf'[s][i])
           /\ View(s, i)'.line = Line(got'[s][i], inbuf'[s][i])
           /\ View(s, i)'.ended <=> eof'[s][i] \/ Waits(inbuf'[s][i]) # Len(inbuf'[s][i])
           /\ View(s, i)'.failed <=> closed'[s][i] = "eof"
           /\ View(s, i)'.ready <=> Ready(s, i)'
           /\ View(s, i)'.total = sent'[Peer(s)][i]
           /\ View(s, i)'.close = fin'[Peer(s)][i]
           /\ View(s, i)'.halved = wclosed'[Peer(s)][i]
           /\ View(s, i)'.writing = writer'[Peer(s)][i]
           /\ View(s, i)'.has <=> HasStream(Peer(s), i)'
BY DEF View

\* In the next state a direction is sound if its pipeline is.
LEMMA NextSound ==
    ASSUME \A s \in Side, i \in Id : Sound(View(s, i)', IsWhole(s, i))
    PROVE  SoundInv'
BY DEF SoundInv, IsWhole

\* A step that does nothing to a direction.
SameReader(s, i) ==
    /\ inbuf'[s][i] = inbuf[s][i] /\ eof'[s][i] = eof[s][i] /\ got'[s][i] = got[s][i]
    /\ closed'[s][i] = "eof" => closed[s][i] = "eof"
SameWriter(s, i) ==
    /\ sent'[s][i] = sent[s][i] /\ fin'[s][i] = fin[s][i]
    /\ wclosed'[s][i] = wclosed[s][i] /\ writer'[s][i] = writer[s][i]
    /\ HasStream(s, i)' => HasStream(s, i) \/ fin[s][i] = -1
SameWay(s, i) == WayOf(hand'[s], wire'[s], i) = WayOf(hand[s], wire[s], i)
Still(s, i) ==
    /\ SameReader(s, i) /\ SameWriter(Peer(s), i) /\ SameWay(s, i)
    /\ Ready(s, i)' => Ready(s, i)

\* Such a step leaves the direction sound.
LEMMA StillView ==
    ASSUME TypeOK, TypeOK', SoundInv, NEW s \in Side, NEW i \in Id, Still(s, i)
    PROVE  Sound(View(s, i)', IsWhole(s, i))
<1> DEFINE v == View(s, i)
           u == View(s, i)'
           whole == IsWhole(s, i)
<1>1. v \in Pipeline /\ u \in Pipeline /\ whole \in BOOLEAN /\ Sound(v, whole)
    BY ViewType DEF SoundInv, IsWhole
<1>2. /\ u.way = v.way /\ SameCame(v, u) /\ SameWrite(v, u) /\ (u.failed => v.failed)
      /\ u.halved = v.halved /\ u.writing = v.writing
      /\ u.has => v.has \/ v.close = -1
      /\ u.ready => v.ready
    <2>1. /\ u.way = v.way /\ u.came = v.came /\ u.line = v.line
        BY Views, NextViews DEF Still, SameReader, SameWay
    <2>2. (u.ended <=> v.ended) /\ (u.failed => v.failed) /\ (u.ready => v.ready)
        BY Views, NextViews DEF Still, SameReader
    <2>3. /\ u.total = v.total /\ u.close = v.close /\ u.halved = v.halved
          /\ u.writing = v.writing /\ (u.has => v.has \/ v.close = -1)
        BY Views, NextViews DEF Still, SameWriter
    <2>4. u.ended \in BOOLEAN /\ v.ended \in BOOLEAN
        BY <1>1 DEF Pipeline
    <2> QED
        BY <2>1, <2>2, <2>3, <2>4 DEF SameCame, SameWrite
<1>3. Onward(v, u, whole)
    <2>1. /\ v.writing = "data" => ~v.halved
          /\ v.writing = "closew" => v.halved
          /\ v.writing \in {"idle", "data", "closew"}
        BY <1>1 DEF Sound, WriterOK, Pipeline
    <2> HIDE DEF v, u, whole
    <2> QED
        BY <1>2, <2>1 DEF Onward
<1> HIDE DEF v, u, whole
<1>4. Sound(u, whole)
    BY <1>1, <1>2, <1>3, StillSound
<1> QED
    BY <1>4 DEF u, whole

\* Frames of other streams or of no stream change nothing of what is on its way.
LEMMA SameWayOf ==
    ASSUME TypeOK, TypeOK', NEW s \in Side, NEW i \in Id,
           hand'[s] = hand[s] \/ (~Flowing(hand[s], i) /\ ~Flowing(hand'[s], i)),
           \/ wire'[s] = wire[s]
           \/ \E f \in Frame : ~Flowing(f, i) /\ wire'[s] = Append(wire[s], f)
    PROVE  SameWay(s, i)
<1>1. hand[s] \in Frame /\ hand'[s] \in Frame /\ wire[s] \in Seq(Frame)
    BY DEF TypeOK, LoopOK, ConnOK
<1> QED
    BY <1>1, WaySame DEF SameWay

\* A step that moves nothing.
LEMMA QuietSound ==
    ASSUME TypeOK, TypeOK', SoundInv, Quiet
    PROVE  SoundInv'
<1> SUFFICES ASSUME NEW s \in Side, NEW i \in Id
             PROVE  Sound(View(s, i)', IsWhole(s, i))
    BY NextSound
<1>1. SameWay(s, i)
    BY SameWayOf DEF Quiet, QuietLoop, QuietFrames, Flowing
<1>2. SameReader(s, i)
    BY DEF Quiet, endVars, SameReader
<1>3. SameWriter(Peer(s), i)
    BY QuietCallsHold, PeerIsSide DEF Quiet, endVars, SameWriter
<1>4. Ready(s, i)' => Ready(s, i)
    BY DEF Quiet, QuietLoop, Ready, Flowing
<1> QED
    BY <1>1, <1>2, <1>3, <1>4, StillView DEF Still

\* A step of the read loop that lets go of the frame in hand, if it has one.
LEMMA LetsGo ==
    ASSUME TypeOK, TypeOK', SoundInv, NEW s \in Side, hand'[s] = NoFrame, wire' = wire,
           \A x \in Side : x # s => hand'[x] = hand[x],
           \A x \in Side, j \in Id :
               /\ ~(x = s /\ Flowing(hand[s], j)) =>
                      SameReader(x, j) /\ (Ready(x, j)' => Ready(x, j))
               /\ SameWriter(x, j)
    PROVE  /\ \A x \in Side, j \in Id :
                  ~(x = s /\ Flowing(hand[s], j)) => Sound(View(x, j)', IsWhole(x, j))
           /\ \A j \in Id : View(s, j)'.way = [View(s, j).way EXCEPT ![0] = NoFrame]
<1>1. NoFrame \in Frame /\ \A j \in Id : ~Flowing(NoFrame, j)
    BY MsgIsFrame DEF Flowing, NoFrame, Msg
<1>2. ASSUME NEW x \in Side, NEW j \in Id, ~(x = s /\ Flowing(hand[s], j))
      PROVE  Sound(View(x, j)', IsWhole(x, j))
    <2>1. SameWay(x, j)
        BY <1>1, <1>2, SameWayOf
    <2> QED
        BY <1>2, <2>1, StillView, PeerIsSide DEF Still
<1>3. ASSUME NEW j \in Id
      PROVE  View(s, j)'.way = [View(s, j).way EXCEPT ![0] = NoFrame]
    <2>1. hand[s] \in Frame /\ wire[s] \in Seq(Frame)
        BY DEF TypeOK, LoopOK, ConnOK
    <2>2. WayOf(NoFrame, wire[s], j) = [WayOf(hand[s], wire[s], j) EXCEPT ![0] = NoFrame]
        BY <2>1, WayDrops
    <2> QED
        BY <2>2, Views, NextViews
<1> QED
    BY <1>2, <1>3

\* The frame in hand is the first of its way.
LEMMA InHand ==
    ASSUME TypeOK, NEW s \in Side, NEW j \in Id, Flowing(hand[s], j)
    PROVE  View(s, j).way[0] = hand[s]
<1>1. hand[s] \in Frame /\ wire[s] \in Seq(Frame) /\ Len(wire[s]) \in Nat
    BY DEF TypeOK, LoopOK, ConnOK
<1>2. WayOf(hand[s], wire[s], j)[0] = hand[s]
    BY <1>1, WayType DEF Spot
<1> QED
    BY <1>2, Views

\* The read loop takes the next frame off the connection.
LEMMA ReadFrameSound ==
    ASSUME TypeOK, TypeOK', ReaderInv, SoundInv, NEW s \in Side, ReadFrame(s)
    PROVE  SoundInv'
<1>h. /\ hand \in [Side -> Frame] /\ wire \in [Side -> Seq(Frame)]
      /\ DOMAIN loop = Side
    BY DEF TypeOK, LoopOK, ConnOK
<1>1. /\ hand[s] = NoFrame /\ wire[s] # <<>> /\ shut[s] = "open"
      /\ hand'[s] = Head(wire[s]) /\ wire'[s] = Tail(wire[s]) /\ loop'[s] = "handle"
      /\ \A x \in Side : x # s => /\ hand'[x] = hand[x] /\ wire'[x] = wire[x]
                                  /\ loop'[x] = loop[x]
      /\ UNCHANGED <<shut, streams, opener, request, endVars>>
    BY <1>h DEF ReadFrame, Loop, ReaderInv, openVars, acceptVars
<1> SUFFICES ASSUME NEW x \in Side, NEW i \in Id
             PROVE  Sound(View(x, i)', IsWhole(x, i))
    BY NextSound
<1>2. SameReader(x, i) /\ SameWriter(Peer(x), i)
    BY <1>1 DEF SameReader, SameWriter, HasStream, endVars
<1>3. Ready(x, i)' => Ready(x, i)
    BY <1>1 DEF Ready
<1>4. CASE x # s
    <2>1. SameWay(x, i)
        BY <1>1, <1>4, SameWayOf
    <2> QED
        BY <1>2, <1>3, <2>1, StillView DEF Still
<1>5. CASE x = s
    <2> DEFINE v == View(s, i)
               u == View(s, i)'
               whole == IsWhole(s, i)
    <2>1. v \in Pipeline /\ u \in Pipeline /\ whole \in BOOLEAN /\ Sound(v, whole)
        BY ViewType DEF SoundInv, IsWhole
    <2>2. v.way[0] = NoFrame /\ u.way = [k \in Nat |-> v.way[k + 1]]
        <3>1. /\ WayOf(NoFrame, wire[s], i)[0] = NoFrame
              /\ WayOf(Head(wire[s]), Tail(wire[s]), i)
                     = [k \in Nat |-> WayOf(NoFrame, wire[s], i)[k + 1]]
            <4>1. wire[s] \in Seq(Frame) /\ wire[s] # <<>>
                BY <1>h, <1>1
            <4> QED
                BY <4>1, WayShifts, Zenon
        <3>2. v.way = WayOf(NoFrame, wire[s], i)
            BY <1>1, <1>5, Views
        <3>3. u.way = WayOf(Head(wire[s]), Tail(wire[s]), i)
            BY <1>1, <1>5, NextViews
        <3> HIDE DEF v, u
        <3> QED
            BY <3>1, <3>2, <3>3
    <2>3. SameCame(v, u) /\ SameWrite(v, u) /\ SameUse(v, u) /\ u.failed = v.failed
        <3>1. UNCHANGED <<got[s][i], inbuf[s][i], eof[s][i], closed[s][i], sent[Peer(s)][i],
                          fin[Peer(s)][i], wclosed[Peer(s)][i], writer[Peer(s)][i]>>
            BY <1>1 DEF endVars
        <3>2. HasStream(Peer(s), i)' <=> HasStream(Peer(s), i)
            BY <1>1 DEF HasStream
        <3>3. /\ u.ended \in BOOLEAN /\ v.ended \in BOOLEAN /\ u.has \in BOOLEAN
              /\ v.has \in BOOLEAN /\ u.failed \in BOOLEAN /\ v.failed \in BOOLEAN
            BY <2>1 DEF Pipeline
        <3> QED
            BY <3>1, <3>2, <3>3, Views, NextViews DEF SameCame, SameWrite, SameUse
    <2>4. u.ready => v.ready
        BY <1>3, <1>5, Views, NextViews
    <2> HIDE DEF v, u, whole
    <2>5. Sound(u, whole)
        BY <2>1, <2>2, <2>3, <2>4, ShiftSound
    <2> QED
        BY <1>5, <2>5 DEF u, whole
<1> QED
    BY <1>4, <1>5

\* A frame of no stream of the table, or the CLOSE of one, is done with.
LEMMA DropView ==
    ASSUME TypeOK, TypeOK', SoundInv, NEW s \in Side, NEW i \in Id,
           View(s, i)'.way = [View(s, i).way EXCEPT ![0] = NoFrame],
           inbuf'[s][i] = inbuf[s][i], eof'[s][i] = eof[s][i], got'[s][i] = got[s][i],
           SameWriter(Peer(s), i), HasStream(Peer(s), i)' <=> HasStream(Peer(s), i),
           ~Ready(s, i)',
           closed'[s][i] = "eof" =>
               \/ closed[s][i] = "eof"
               \/ Ready(s, i) /\ Flowing(hand[s], i) /\ hand[s].type = "CLOSE"
    PROVE  Sound(View(s, i)', IsWhole(s, i))
<1> DEFINE v == View(s, i)
           u == View(s, i)'
           whole == IsWhole(s, i)
<1>1. v \in Pipeline /\ u \in Pipeline /\ whole \in BOOLEAN /\ Sound(v, whole)
    BY ViewType DEF SoundInv, IsWhole
<1>2. /\ SameCame(v, u) /\ SameWrite(v, u) /\ SameUse(v, u) /\ ~u.ready
    <2>1. /\ u.ended \in BOOLEAN /\ v.ended \in BOOLEAN /\ u.has \in BOOLEAN
          /\ v.has \in BOOLEAN
        BY <1>1 DEF Pipeline
    <2>2. u.came = v.came /\ u.line = v.line /\ (u.ended <=> v.ended)
        BY Views, NextViews
    <2>3. /\ u.total = v.total /\ u.close = v.close /\ u.halved = v.halved
          /\ u.writing = v.writing /\ (u.has <=> v.has)
        BY Views, NextViews DEF SameWriter
    <2>4. ~u.ready
        BY NextViews
    <2> QED
        BY <2>1, <2>2, <2>3, <2>4 DEF SameCame, SameWrite, SameUse
<1>3. u.failed => v.failed \/ (v.ready /\ v.way[0].type = "CLOSE")
    BY InHand, Views, NextViews
<1> HIDE DEF v, u, whole
<1>4. Sound(u, whole)
    BY <1>1, <1>2, <1>3, DropSound DEF u, v
<1> QED
    BY <1>4 DEF u, whole

\* It looks the stream of a DATA or half-close up, and drops it where there is none.
LEMMA HandleDataSound ==
    ASSUME TypeOK, TypeOK', SoundInv, NEW s \in Side, HandleData(s)
    PROVE  SoundInv'
<1>h. hand \in [Side -> Frame] /\ DOMAIN loop = Side
    BY DEF TypeOK, LoopOK
<1>1. UNCHANGED <<wire, shut, streams, opener, request, endVars>>
    BY DEF HandleData, connVars, openVars, acceptVars
<1>2. \A x \in Side, j \in Id :
          /\ SameReader(x, j) /\ SameWriter(x, j)
          /\ HasStream(x, j)' <=> HasStream(x, j)
    BY <1>1 DEF SameReader, SameWriter, HasStream, endVars
<1>3. CASE hand[s].id \in streams[s]
    <2>1. /\ hand[s].type \in {"DATA", "CLOSEW"} /\ hand' = hand /\ loop'[s] = "deliver"
          /\ \A x \in Side : x # s => loop'[x] = loop[x]
        BY <1>h, <1>3 DEF HandleData, Holds, Loop
    <2> SUFFICES ASSUME NEW x \in Side, NEW j \in Id
                 PROVE  Sound(View(x, j)', IsWhole(x, j))
        BY NextSound
    <2>2. SameWay(x, j)
        BY <1>1, <2>1, SameWayOf
    <2>3. Ready(x, j)' => Ready(x, j)
        BY <1>1, <1>3, <2>1 DEF Ready, Flowing
    <2> QED
        BY <1>2, <2>2, <2>3, StillView, PeerIsSide DEF Still
<1>4. CASE hand[s].id \notin streams[s]
    <2>1. /\ hand'[s] = NoFrame /\ loop'[s] = "read"
          /\ \A x \in Side : x # s => hand'[x] = hand[x] /\ loop'[x] = loop[x]
        BY <1>h, <1>4 DEF HandleData, LoopNext, Loop
    <2>2. \A j \in Id : ~Flowing(NoFrame, j)
        BY DEF Flowing, NoFrame, Msg
    <2>3. \A x \in Side, j \in Id : Ready(x, j)' => Ready(x, j)
        BY <1>1, <2>1, <2>2 DEF Ready
    <2>4. /\ \A x \in Side, j \in Id :
                 ~(x = s /\ Flowing(hand[s], j)) => Sound(View(x, j)', IsWhole(x, j))
          /\ \A j \in Id : View(s, j)'.way = [View(s, j).way EXCEPT ![0] = NoFrame]
        BY <1>1, <1>2, <2>1, <2>3, LetsGo
    <2>5. ASSUME NEW j \in Id, Flowing(hand[s], j)
          PROVE  Sound(View(s, j)', IsWhole(s, j))
        <3>1. ~Ready(s, j)'
            BY <1>1, <1>4, <2>1, <2>5 DEF Ready, Flowing
        <3>2. /\ inbuf'[s][j] = inbuf[s][j] /\ eof'[s][j] = eof[s][j]
              /\ got'[s][j] = got[s][j] /\ closed'[s][j] = closed[s][j]
            BY <1>1 DEF endVars
        <3> QED
            BY <1>2, <2>4, <3>1, <3>2, DropView, PeerIsSide
    <2> QED
        BY <2>4, <2>5, NextSound
<1> QED
    BY <1>3, <1>4

\* It fails the stream of a CLOSE.
LEMMA HandleCloseSound ==
    ASSUME TypeOK, TypeOK', SoundInv, NEW s \in Side, HandleClose(s)
    PROVE  SoundInv'
<1>h. /\ hand \in [Side -> Frame] /\ DOMAIN loop = Side /\ streams \in [Side -> SUBSET Id]
      /\ closed \in [Side -> [Id -> {"no", "eof", "local", "session"}]]
    BY DEF TypeOK, LoopOK, EndOK
<1>1. /\ UNCHANGED <<wire, shut, opener, request, inbuf, eof, got, sent, fin, wclosed, writer>>
      /\ hand[s].type = "CLOSE" /\ hand'[s] = NoFrame /\ loop'[s] = "read"
      /\ \A x \in Side : x # s => hand'[x] = hand[x] /\ loop'[x] = loop[x]
    BY <1>h DEF HandleClose, Holds, LoopNext, Loop, connVars, openVars, acceptVars
<1>2. \A x \in Side, j \in Id :
          /\ j \in streams'[x] <=> j \in streams[x] /\ ~(x = s /\ j = hand[s].id)
          /\ closed'[x][j] = "eof" =>
                 \/ closed[x][j] = "eof"
                 \/ x = s /\ j = hand[s].id /\ j \in streams[s]
    <2>1. CASE hand[s].id \in streams[s]
        BY <1>h, <2>1 DEF HandleClose, Fail, RemoveStream
    <2>2. CASE hand[s].id \notin streams[s]
        BY <1>h, <2>2 DEF HandleClose
    <2> QED
        BY <2>1, <2>2
<1>3. \A j \in Id : (j = hand[s].id <=> Flowing(hand[s], j)) /\ ~Flowing(NoFrame, j)
    BY <1>1 DEF Flowing, NoFrame, Msg
<1>4. \A x \in Side, j \in Id :
          /\ inbuf'[x][j] = inbuf[x][j] /\ eof'[x][j] = eof[x][j] /\ got'[x][j] = got[x][j]
          /\ SameWriter(x, j) /\ (HasStream(x, j)' <=> HasStream(x, j))
    BY <1>1 DEF SameWriter, HasStream
<1>5. \A x \in Side, j \in Id : ~(x = s /\ Flowing(hand[s], j)) =>
          SameReader(x, j) /\ (Ready(x, j)' => Ready(x, j))
    BY <1>1, <1>2, <1>3, <1>4 DEF SameReader, Ready
<1>6. /\ \A x \in Side, j \in Id :
             ~(x = s /\ Flowing(hand[s], j)) => Sound(View(x, j)', IsWhole(x, j))
      /\ \A j \in Id : View(s, j)'.way = [View(s, j).way EXCEPT ![0] = NoFrame]
    BY <1>1, <1>4, <1>5, LetsGo
<1>7. ASSUME NEW j \in Id, Flowing(hand[s], j)
      PROVE  Sound(View(s, j)', IsWhole(s, j))
    <2>1. ~Ready(s, j)'
        BY <1>1, <1>2, <1>3, <1>7 DEF Ready
    <2>2. closed'[s][j] = "eof" =>
              \/ closed[s][j] = "eof"
              \/ Ready(s, j) /\ Flowing(hand[s], j) /\ hand[s].type = "CLOSE"
        BY <1>1, <1>2, <1>7 DEF Ready
    <2> QED
        BY <1>4, <1>6, <2>1, <2>2, DropView, PeerIsSide
<1> QED
    BY <1>6, <1>7, NextSound

\* What is delivered is put behind all that wait, and no end waits among them.
LEMMA DeliverRoom ==
    ASSUME TypeOK, ReaderInv, BufferInv, SoundInv, NEW s \in Side, loop[s] = "deliver"
    PROVE  LET i == hand[s].id IN
           /\ i \in Id /\ hand[s] \in Frame /\ Flowing(hand[s], i)
           /\ hand[s].type \in {"DATA", "CLOSEW"}
           /\ hand[s].type = "CLOSEW" => hand[s].n = 0
           /\ hand[s].type = "DATA" => hand[s].n # 0
           /\ hand[s].n \in 0..MaxData
           /\ ~eof[s][i] /\ Waits(inbuf[s][i]) = Len(inbuf[s][i])
           /\ Ready(s, i) /\ closed[s][i] # "eof"
           /\ closed[s][i] # "no" => i \notin streams[s] \/ shut[s] # "open"
           /\ \A k \in DOMAIN inbuf[s][i] : inbuf[s][i][k] # 0
<1> DEFINE i == hand[s].id
<1>1. hand[s] \in Frame /\ hand[s].type \in {"DATA", "CLOSEW"} /\ i \in Id
      /\ hand[s].n \in 0..MaxData
    <2>1. hand[s] \in Frame /\ hand[s].type \in {"DATA", "CLOSEW"}
        BY DEF TypeOK, LoopOK, ReaderInv
    <2> QED
        BY <2>1, FrameFields DEF StreamType
<1>2. Flowing(hand[s], i) /\ Delivers(s, i) /\ Ready(s, i)
    BY <1>1 DEF Flowing, Delivers, Ready
<1>3. Sound(View(s, i), IsWhole(s, i)) /\ View(s, i).way[0] = hand[s] /\ 0 \in Nat
    BY <1>1, <1>2, InHand DEF SoundInv
<1>4. ~View(s, i).ended
    BY <1>1, <1>3 DEF Sound, LineOK
<1>5. /\ hand[s].type = "CLOSEW" => hand[s].n = 0
      /\ hand[s].type = "DATA" => hand[s].n # 0
    <2>1. hand[s].type = "CLOSEW" => hand[s].n = 0
        BY <1>3 DEF Sound, WayOK
    <2>2. hand[s].type = "DATA" => hand[s].n \in 1..View(s, i).total
        BY <1>3 DEF Sound, WayOK, IsData
    <2> QED
        BY <2>1, <2>2
<1>6. ~eof[s][i] /\ Waits(inbuf[s][i]) = Len(inbuf[s][i])
    BY <1>1, <1>4, Views
<1>7. \A k \in DOMAIN inbuf[s][i] : inbuf[s][i][k] # 0
    <2> SUFFICES ASSUME NEW k \in DOMAIN inbuf[s][i], inbuf[s][i][k] = 0
                 PROVE  FALSE
        OBVIOUS
    <2>1. inbuf[s][i] \in Seq(0..MaxData) /\ k = Len(inbuf[s][i])
        BY <1>1 DEF TypeOK, EndOK, BufferInv
    <2>2. inbuf[s][i] # <<>> /\ Len(inbuf[s][i]) \in Nat
        BY <2>1
    <2> QED
        BY <1>6, <2>1, <2>2 DEF Waits
<1>8. /\ closed[s][i] # "eof"
      /\ closed[s][i] # "no" => i \notin streams[s] \/ shut[s] # "open"
    BY <1>1, <1>2 DEF ReaderInv, TypeOK, EndOK
<1> QED
    BY <1>1, <1>2, <1>5, <1>6, <1>7, <1>8

\* It queues the frame, or drops it where the stream has failed.
LEMMA DeliverSound ==
    ASSUME TypeOK, TypeOK', ReaderInv, BufferInv, SoundInv, NEW s \in Side, Deliver(s)
    PROVE  SoundInv'
<1>i. PICK i \in Id : i = hand[s].id
    BY DeliverRoom DEF Deliver
<1> DEFINE b == inbuf[s][i]
           g == got[s][i]
<1>h. /\ hand \in [Side -> Frame] /\ DOMAIN loop = Side
      /\ inbuf \in [Side -> [Id -> Seq(0..MaxData)]] /\ got \in [Side -> [Id -> Seq(0..MaxData)]]
    BY DEF TypeOK, LoopOK, EndOK
<1>r. /\ i \in Id /\ hand[s] \in Frame /\ Flowing(hand[s], i)
      /\ hand[s].type \in {"DATA", "CLOSEW"}
      /\ hand[s].type = "CLOSEW" => hand[s].n = 0
      /\ hand[s].type = "DATA" => hand[s].n # 0
      /\ hand[s].n \in 0..MaxData
      /\ ~eof[s][i] /\ Waits(b) = Len(b)
      /\ Ready(s, i) /\ closed[s][i] # "eof"
      /\ closed[s][i] # "no" => i \notin streams[s] \/ shut[s] # "open"
    BY <1>i, DeliverRoom DEF Deliver
<1>1. /\ UNCHANGED <<wire, shut, opener, request, streams, closed, eof, got, sent, fin, wclosed,
                     writer>>
      /\ hand'[s] = NoFrame /\ loop'[s] = "read"
      /\ \A x \in Side : x # s => hand'[x] = hand[x] /\ loop'[x] = loop[x]
    BY <1>h DEF Deliver, LoopNext, Loop, connVars, openVars, acceptVars
<1>2. \A j \in Id : (j = i <=> Flowing(hand[s], j)) /\ ~Flowing(NoFrame, j)
    BY <1>i, <1>r DEF Flowing, NoFrame, Msg
<1>3. /\ \A x \in Side, j \in Id : ~(x = s /\ j = i) => inbuf'[x][j] = inbuf[x][j]
      /\ \/ inbuf'[s][i] = Append(b, hand[s].n)
         \/ inbuf'[s][i] = b /\ closed[s][i] # "no"
    BY <1>h, <1>i, <1>r DEF Deliver
<1>4. \A x \in Side, j \in Id : SameWriter(x, j) /\ (HasStream(x, j)' <=> HasStream(x, j))
    BY <1>1 DEF SameWriter, HasStream
<1>5. \A x \in Side, j \in Id : ~(x = s /\ Flowing(hand[s], j)) =>
          SameReader(x, j) /\ (Ready(x, j)' => Ready(x, j))
    BY <1>1, <1>2, <1>3 DEF SameReader, Ready
<1>6. /\ \A x \in Side, j \in Id :
             ~(x = s /\ Flowing(hand[s], j)) => Sound(View(x, j)', IsWhole(x, j))
      /\ \A j \in Id : View(s, j)'.way = [View(s, j).way EXCEPT ![0] = NoFrame]
    BY <1>1, <1>4, <1>5, LetsGo
<1>7. Sound(View(s, i)', IsWhole(s, i))
    <2>1. CASE inbuf'[s][i] = b /\ closed[s][i] # "no"
        <3>1. ~Ready(s, i)'
            BY <1>r, <1>1, <1>2, <2>1 DEF Ready
        <3>2. eof'[s][i] = eof[s][i] /\ got'[s][i] = got[s][i] /\ closed'[s][i] = closed[s][i]
            BY <1>1
        <3> QED
            BY <1>r, <1>4, <1>6, <2>1, <3>1, <3>2, DropView, PeerIsSide
    <2>2. CASE inbuf'[s][i] = Append(b, hand[s].n)
        <3> DEFINE v == View(s, i)
                   u == View(s, i)'
                   whole == IsWhole(s, i)
        <3>1. /\ v \in Pipeline /\ u \in Pipeline /\ whole \in BOOLEAN /\ Sound(v, whole)
              /\ v.way[0] = hand[s] /\ v.ready /\ ~v.failed /\ ~v.ended
              /\ u.way = [v.way EXCEPT ![0] = NoFrame]
            <4>1. v \in Pipeline /\ u \in Pipeline /\ whole \in BOOLEAN /\ Sound(v, whole)
                BY <1>r, ViewType DEF SoundInv, IsWhole
            <4>2. v.way[0] = hand[s] /\ u.way = [v.way EXCEPT ![0] = NoFrame]
                BY <1>r, <1>6, InHand
            <4>3. v.ready /\ ~v.failed /\ ~v.ended
                BY <1>r, Views
            <4> QED
                BY <4>1, <4>2, <4>3
        <3>2. SameWrite(v, u) /\ SameUse(v, u) /\ u.failed = v.failed
            <4>1. /\ u.has \in BOOLEAN /\ v.has \in BOOLEAN
                  /\ u.failed \in BOOLEAN /\ v.failed \in BOOLEAN
                BY <3>1 DEF Pipeline
            <4>2. /\ u.total = v.total /\ u.close = v.close /\ u.halved = v.halved
                  /\ u.writing = v.writing
                BY <1>r, <1>1, Views, NextViews
            <4>3. (u.failed <=> v.failed) /\ (u.has <=> v.has)
                BY <1>r, <1>1, <1>4, PeerIsSide, Views, NextViews
            <4> QED
                BY <4>1, <4>2, <4>3 DEF SameWrite, SameUse
        <3>3. /\ b \in Seq(0..MaxData) /\ g \in Seq(0..MaxData) /\ Len(b) \in Nat /\ Len(g) \in Nat
            BY <1>h, <1>r
        <3>4. /\ Append(b, hand[s].n) \in Seq(0..MaxData)
              /\ Len(Append(b, hand[s].n)) = Len(b) + 1
              /\ hand[s].n # 0 => /\ Waits(Append(b, hand[s].n)) = Len(b) + 1
                                  /\ Line(g, Append(b, hand[s].n)) =
                                         [Line(g, b) EXCEPT ![Len(g) + Len(b) + 1] = hand[s].n]
              /\ hand[s].n = 0 => /\ Waits(Append(b, hand[s].n)) = Len(b)
                                  /\ Line(g, Append(b, hand[s].n)) = Line(g, b)
            <4>1. hand[s].n \in 0..MaxData /\ Waits(b) = Len(b)
                BY <1>r
            <4> HIDE DEF b, g
            <4> QED
                BY <3>3, <4>1, LineAdds, Zenon
        <3>5. v.came = Len(g) + Waits(b) /\ v.line = Line(g, b)
            BY Views
        <3>9. /\ u.came = Len(got'[s][i]) + Waits(inbuf'[s][i])
              /\ u.line = Line(got'[s][i], inbuf'[s][i])
              /\ u.ended <=> eof'[s][i] \/ Waits(inbuf'[s][i]) # Len(inbuf'[s][i])
            BY NextViews
        <3>10. got'[s][i] = g /\ inbuf'[s][i] = Append(b, hand[s].n) /\ ~eof'[s][i]
            BY <1>r, <1>1, <2>2
        <3> HIDE DEF v, u, whole, b, g
        <3>6. /\ u.came = Len(g) + Waits(Append(b, hand[s].n))
              /\ u.line = Line(g, Append(b, hand[s].n))
              /\ u.ended <=> Waits(Append(b, hand[s].n)) # Len(b) + 1
            BY <3>4, <3>9, <3>10
        <3>11. v.came = Len(g) + Len(b)
            BY <1>r, <3>5
        <3>7. CASE hand[s].type = "DATA"
            <4>1. u.came = v.came + 1 /\ u.line = [v.line EXCEPT ![v.came + 1] = v.way[0].n]
                BY <1>r, <3>1, <3>3, <3>4, <3>5, <3>6, <3>7, <3>11
            <4>2. u.ended = v.ended
                BY <1>r, <3>1, <3>4, <3>6, <3>7 DEF Pipeline
            <4>3. IsData(v.way[0])
                BY <3>1, <3>7 DEF IsData
            <4>4. Sound(u, whole)
                BY <3>1, <3>2, <4>1, <4>2, <4>3, DataCame
            <4> QED
                BY <4>4 DEF u, whole
        <3>8. CASE hand[s].type = "CLOSEW"
            <4>1. u.came = v.came /\ u.line = v.line /\ u.ended
                <5>1. /\ Waits(Append(b, hand[s].n)) = Len(b)
                      /\ Line(g, Append(b, hand[s].n)) = Line(g, b)
                    BY <1>r, <3>4, <3>8
                <5>2. Len(b) # Len(b) + 1
                    BY <3>3
                <5> QED
                    BY <3>5, <3>6, <3>11, <5>1, <5>2
            <4>2. Sound(u, whole)
                BY <3>1, <3>2, <3>8, <4>1, EndCame
            <4> QED
                BY <4>2 DEF u, whole
        <3> QED
            BY <1>r, <3>7, <3>8
    <2> QED
        BY <1>3, <2>1, <2>2
<1> QED
    BY <1>2, <1>6, <1>7, NextSound

\* The application reads what is queued.
LEMMA ReadSound ==
    ASSUME TypeOK, TypeOK', BufferInv, SoundInv, NEW s \in Side, NEW i \in Id, Read(s, i)
    PROVE  SoundInv'
<1> DEFINE b == inbuf[s][i]
           g == got[s][i]
<1>h. /\ inbuf \in [Side -> [Id -> Seq(0..MaxData)]] /\ got \in [Side -> [Id -> Seq(0..MaxData)]]
      /\ eof \in [Side -> [Id -> BOOLEAN]]
    BY DEF TypeOK, EndOK
<1>1. UNCHANGED <<wire, shut, opener, request, loop, hand, streams, closed, sent, fin, wclosed,
                  writer>>
    BY DEF Read, connVars, openVars, acceptVars, loopVars
<1>2. /\ \A x \in Side, j \in Id : ~(x = s /\ j = i) =>
             inbuf'[x][j] = inbuf[x][j] /\ eof'[x][j] = eof[x][j] /\ got'[x][j] = got[x][j]
      /\ b # <<>> /\ ~eof[s][i] /\ inbuf'[s][i] = Tail(b)
      /\ \/ Head(b) = 0 /\ eof'[s][i] /\ got'[s][i] = g
         \/ Head(b) # 0 /\ ~eof'[s][i] /\ got'[s][i] = Append(g, Head(b))
    BY <1>h DEF Read
<1>3. \A x \in Side, j \in Id :
          /\ SameWriter(x, j) /\ (Ready(x, j)' => Ready(x, j))
          /\ closed'[x][j] = closed[x][j]
    BY <1>1 DEF SameWriter, HasStream, Ready
<1>4. \A x \in Side, j \in Id : SameWay(x, j)
    BY <1>1, SameWayOf
<1> SUFFICES ASSUME NEW x \in Side, NEW j \in Id
             PROVE  Sound(View(x, j)', IsWhole(x, j))
    BY NextSound
<1>5. CASE ~(x = s /\ j = i)
    <2>1. SameReader(x, j)
        BY <1>2, <1>3, <1>5 DEF SameReader
    <2> QED
        BY <1>3, <1>4, <2>1, StillView, PeerIsSide DEF Still
<1>6. CASE x = s /\ j = i
    <2> DEFINE v == View(s, i)
               u == View(s, i)'
               whole == IsWhole(s, i)
    <2>1. v \in Pipeline /\ u \in Pipeline /\ whole \in BOOLEAN /\ Sound(v, whole)
        BY ViewType DEF SoundInv, IsWhole
    <2>2. b \in Seq(0..MaxData) /\ g \in Seq(0..MaxData) /\ Len(b) \in Nat /\ Len(g) \in Nat
          /\ \A k \in DOMAIN b : b[k] = 0 => k = Len(b)
        BY <1>h DEF BufferInv
    <2>3. u.came = v.came /\ u.line = v.line /\ (u.ended <=> v.ended)
        <3>1. /\ v.came = Len(g) + Waits(b) /\ v.line = Line(g, b)
              /\ v.ended <=> Waits(b) # Len(b)
            BY <1>2, Views
        <3>4. /\ u.came = Len(got'[s][i]) + Waits(inbuf'[s][i])
              /\ u.line = Line(got'[s][i], inbuf'[s][i])
              /\ u.ended <=> eof'[s][i] \/ Waits(inbuf'[s][i]) # Len(inbuf'[s][i])
            BY NextViews
        <3>2. CASE Head(b) = 0
            <4>1. /\ Tail(b) = <<>> /\ Waits(b) = 0 /\ Waits(<<>>) = 0 /\ Len(b) = 1
                  /\ Line(g, <<>>) = Line(g, b)
                BY <1>2, <2>2, <3>2, LineReads
            <4>2. u.came = Len(g) + Waits(<<>>) /\ u.line = Line(g, <<>>) /\ u.ended
                BY <1>2, <3>2, <3>4, <4>1
            <4> HIDE DEF b, g, u, v
            <4> QED
                BY <3>1, <4>1, <4>2
        <3>3. CASE Head(b) # 0
            <4>1. /\ Line(Append(g, Head(b)), Tail(b)) = Line(g, b)
                  /\ Len(Append(g, Head(b))) + Waits(Tail(b)) = Len(g) + Waits(b)
                  /\ Waits(Tail(b)) # Len(Tail(b)) <=> Waits(b) # Len(b)
                BY <1>2, <2>2, <3>3, LineReads
            <4>3. got'[s][i] = Append(g, Head(b)) /\ inbuf'[s][i] = Tail(b) /\ ~eof'[s][i]
                BY <1>2, <3>3
            <4> HIDE DEF b, g, u, v
            <4>2. /\ u.came = Len(Append(g, Head(b))) + Waits(Tail(b))
                  /\ u.line = Line(Append(g, Head(b)), Tail(b))
                  /\ u.ended <=> Waits(Tail(b)) # Len(Tail(b))
                BY <3>4, <4>3
            <4> QED
                BY <3>1, <4>1, <4>2
        <3> QED
            BY <3>2, <3>3
    <2>4. /\ u.total = v.total /\ u.close = v.close /\ u.halved = v.halved
          /\ u.writing = v.writing /\ (u.has <=> v.has) /\ (u.failed <=> v.failed)
        BY <1>1, Views, NextViews DEF HasStream
    <2>5. u.way = v.way /\ (u.ready => v.ready)
        BY <1>3, <1>4, Views, NextViews DEF SameWay
    <2>6. /\ v.writing = "data" => ~v.halved
          /\ v.writing = "closew" => v.halved
          /\ v.writing \in {"idle", "data", "closew"}
          /\ v.ended \in BOOLEAN /\ u.ended \in BOOLEAN
        BY <2>1 DEF Sound, WriterOK, Pipeline
    <2> HIDE DEF v, u, whole
    <2>7. SameCame(v, u) /\ SameWrite(v, u) /\ Onward(v, u, whole)
        BY <2>3, <2>4, <2>5, <2>6 DEF SameCame, SameWrite, Onward
    <2>8. Sound(u, whole)
        BY <2>1, <2>4, <2>5, <2>7, StillSound
    <2> QED
        BY <1>6, <2>8 DEF u, whole
<1> QED
    BY <1>5, <1>6

\* A half-close is the last thing queued, and a reader that met it has nothing left.
LEMMA NextBufferInv ==
    TypeOK /\ CallsInv /\ BeatsInv /\ OpensInv /\ ReaderInv /\ BufferInv /\ SoundInv
        /\ [Next]_vars => BufferInv'
<1> SUFFICES ASSUME TypeOK, CallsInv, BeatsInv, OpensInv, ReaderInv, BufferInv, SoundInv,
                    [Next]_vars
             PROVE  BufferInv'
    OBVIOUS
<1>h. inbuf \in [Side -> [Id -> Seq(0..MaxData)]] /\ eof \in [Side -> [Id -> BOOLEAN]]
    BY DEF TypeOK, EndOK
<1>k. UNCHANGED <<inbuf, eof>> => BufferInv'
    BY DEF BufferInv
<1>1. CASE Quiet
    BY <1>1, <1>k DEF Quiet, endVars
<1>2. ASSUME NEW s \in Side, Deliver(s)
      PROVE  BufferInv'
    <2>1. PICK i \in Id : i = hand[s].id
        BY <1>2, DeliverRoom DEF Deliver
    <2>2. /\ ~eof[s][i] /\ hand[s].n \in 0..MaxData
          /\ \A k \in DOMAIN inbuf[s][i] : inbuf[s][i][k] # 0
        BY <1>2, <2>1, DeliverRoom DEF Deliver
    <2>3. /\ \A x \in Side, j \in Id : ~(x = s /\ j = i) => inbuf'[x][j] = inbuf[x][j]
          /\ UNCHANGED eof
          /\ inbuf'[s][i] = inbuf[s][i] \/ inbuf'[s][i] = Append(inbuf[s][i], hand[s].n)
        BY <1>2, <1>h, <2>1 DEF Deliver
    <2>4. \A k \in DOMAIN inbuf'[s][i] : inbuf'[s][i][k] = 0 => k = Len(inbuf'[s][i])
        <3>1. CASE inbuf'[s][i] = inbuf[s][i]
            BY <2>2, <3>1
        <3>2. CASE inbuf'[s][i] = Append(inbuf[s][i], hand[s].n)
            <4>1. inbuf[s][i] \in Seq(0..MaxData)
                BY <1>h
            <4>2. /\ Len(inbuf'[s][i]) = Len(inbuf[s][i]) + 1 /\ Len(inbuf[s][i]) \in Nat
                  /\ \A k \in 1..Len(inbuf[s][i]) : inbuf'[s][i][k] = inbuf[s][i][k]
                  /\ DOMAIN inbuf'[s][i] = 1..(Len(inbuf[s][i]) + 1)
                  /\ DOMAIN inbuf[s][i] = 1..Len(inbuf[s][i])
                BY <2>2, <3>2, <4>1, AppendProperties
            <4> QED
                BY <2>2, <4>2
        <3> QED
            BY <2>3, <3>1, <3>2
    <2> QED
        BY <2>2, <2>3, <2>4 DEF BufferInv
<1>3. ASSUME NEW s \in Side, NEW i \in Id, Read(s, i)
      PROVE  BufferInv'
    <2> DEFINE b == inbuf[s][i]
    <2>1. /\ \A x \in Side, j \in Id : ~(x = s /\ j = i) =>
                 inbuf'[x][j] = inbuf[x][j] /\ eof'[x][j] = eof[x][j]
          /\ b # <<>> /\ inbuf'[s][i] = Tail(b) /\ b \in Seq(0..MaxData)
          /\ eof'[s][i] => Head(b) = 0
        BY <1>3, <1>h DEF Read
    <2>2. \A k \in DOMAIN b : b[k] = 0 => k = Len(b)
        BY DEF BufferInv
    <2>3. eof'[s][i] => Tail(b) = <<>>
        <3>1. <<>> \in Seq(0..MaxData)
            OBVIOUS
        <3> QED
            BY <2>1, <2>2, <3>1, LineReads
    <2>4. \A k \in DOMAIN Tail(b) : Tail(b)[k] = 0 => k = Len(Tail(b))
        <3>1. /\ Len(Tail(b)) = Len(b) - 1 /\ Tail(b) \in Seq(0..MaxData)
              /\ \A k \in 1..Len(Tail(b)) : Tail(b)[k] = b[k + 1]
            BY <2>1, HeadTailProperties
        <3>2. Len(b) \in Nat /\ DOMAIN b = 1..Len(b) /\ DOMAIN Tail(b) = 1..Len(Tail(b))
            BY <2>1, <3>1
        <3> HIDE DEF b
        <3>3. ASSUME NEW k \in 1..Len(Tail(b)), Tail(b)[k] = 0
              PROVE  k = Len(Tail(b))
            <4>1. k + 1 \in DOMAIN b /\ b[k + 1] = 0 /\ k \in Nat
                BY <3>1, <3>2, <3>3
            <4>2. k + 1 = Len(b)
                BY <2>2, <4>1
            <4>3. Len(Tail(b)) = Len(b) - 1 /\ Len(b) \in Nat /\ k \in Nat
                BY <3>1, <3>2, <4>1
            <4> QED
                BY <4>2, <4>3
        <3> QED
            BY <3>2, <3>3
    <2> HIDE DEF b
    <2>5. ASSUME NEW x \in Side, NEW j \in Id
          PROVE  /\ eof'[x][j] => inbuf'[x][j] = <<>>
                 /\ \A k \in DOMAIN inbuf'[x][j] : inbuf'[x][j][k] = 0 => k = Len(inbuf'[x][j])
        <3>1. CASE x = s /\ j = i
            BY <2>1, <2>3, <2>4, <3>1
        <3>2. CASE ~(x = s /\ j = i)
            BY <2>1, <3>2 DEF BufferInv
        <3> QED
            BY <3>1, <3>2
    <2> QED
        BY <2>5 DEF BufferInv
<1>4. ASSUME Moves, ~\E s \in Side : Deliver(s) \/ \E i \in Id : Read(s, i)
      PROVE  UNCHANGED <<inbuf, eof>>
    <2>1. ASSUME NEW s \in Side, SideMoves(s)
          PROVE  UNCHANGED <<inbuf, eof>>
        BY <1>4, <2>1 DEF SideMoves, ShutdownSweep, ReadFrame, HandleData, HandleClose, endVars
    <2>2. ASSUME NEW s \in Side, NEW i \in Id, EndMoves(s, i)
          PROVE  UNCHANGED <<inbuf, eof>>
        <3> USE DEF endVars
        <3>1. CASE OpenReply(i) \/ OpenCancelSend(i) \/ RequestAccept(i) \/ RequestAcceptSend(i)
            BY <3>1 DEF OpenReply, OpenCancelSend, RequestAccept, RequestAcceptSend
        <3>2. CASE WriteBegin(s, i) \/ CloseWriteBegin(s, i) \/ CloseBegin(s, i) \/ Finish(s, i)
            BY <3>2 DEF WriteBegin, CloseWriteBegin, CloseBegin, Finish, WriteSend,
                        CloseWriteSend, CloseSend
        <3> QED
            BY <1>4, <2>2, <3>1, <3>2 DEF EndMoves
    <2> QED
        BY <1>4, <2>1, <2>2 DEF Moves
<1> QED
    BY <1>1, <1>2, <1>3, <1>4, <1>k, Kinds

\* The steps of one end of a stream that neither write nor move a frame of it.
LEMMA AnswerSound ==
    ASSUME TypeOK, TypeOK', OpensInv, ReaderInv, WriterInv, SoundInv,
           NEW s \in Side, NEW i \in Id,
           \/ s = Opener(i) /\ OpenReply(i)
           \/ s = Acceptor(i) /\ (RequestAccept(i) \/ RequestAcceptSend(i))
    PROVE  SoundInv'
<1>h. /\ streams \in [Side -> SUBSET Id] /\ wire \in [Side -> Seq(Frame)]
      /\ DOMAIN opener = Id /\ DOMAIN request = Id
    BY DEF TypeOK, ConnOK, OpenOK, AcceptOK
<1>1. UNCHANGED <<shut, loopVars, endVars>>
    BY DEF OpenReply, RequestAccept, RequestAcceptSend, connVars, openVars, acceptVars
<1>2. \A x \in Side, j \in Id : SameWay(x, j)
    <2>1. \A x \in Side, j \in Id :
              \/ wire'[x] = wire[x]
              \/ \E f \in Frame : ~Flowing(f, j) /\ wire'[x] = Append(wire[x], f)
        <3>1. CASE UNCHANGED wire
            BY <3>1
        <3>2. CASE Send(s, Msg("OPEN_OK", i))
            <4>1. Msg("OPEN_OK", i) \in Frame /\ \A j \in Id : ~Flowing(Msg("OPEN_OK", i), j)
                BY MsgIsFrame DEF StreamType, Msg, Flowing
            <4> QED
                BY <1>h, <3>2, <4>1, PeerIsSide DEF Send
        <3> QED
            BY <3>1, <3>2 DEF OpenReply, RequestAccept, RequestAcceptSend, SendFails, connVars
    <2> QED
        BY <1>1, <2>1, SameWayOf DEF loopVars
<1>3. \A x \in Side, j \in Id : SameReader(x, j)
    BY <1>1 DEF endVars, SameReader
<1>4. \A x \in Side, j \in Id : HasStream(x, j)' => HasStream(x, j) \/ (x = s /\ j = i)
    BY <1>h, Sides DEF OpenReply, RequestAccept, RequestAcceptSend, HasStream, openVars,
                       acceptVars
<1>5. fin[s][i] = -1
    BY Sides DEF OpenReply, RequestAccept, RequestAcceptSend, WriterInv, HasStream
<1>6. \A x \in Side, j \in Id : SameWriter(x, j)
    BY <1>1, <1>4, <1>5 DEF SameWriter, endVars
<1>7. \A x \in Side, j \in Id : Ready(x, j)' => Ready(x, j) \/ (x = s /\ j = i)
    BY <1>h, <1>1 DEF OpenReply, RequestAccept, RequestAcceptSend, NewStream, RemoveStream,
                      Ready, loopVars
<1> SUFFICES ASSUME NEW x \in Side, NEW j \in Id
             PROVE  Sound(View(x, j)', IsWhole(x, j))
    BY NextSound
<1>8. CASE Ready(x, j)' => Ready(x, j)
    BY <1>2, <1>3, <1>6, <1>8, StillView, PeerIsSide DEF Still
<1>9. CASE Ready(x, j)' /\ ~Ready(x, j)
    <2>1. x = s /\ j = i
        BY <1>7, <1>9
    <2>2. /\ \/ s = Opener(i) /\ opener[i] = "waiting"
             \/ s = Acceptor(i) /\ request[i] = "taken"
          /\ opener'[i] = opener[i] \/ s = Opener(i)
        <3>1. CASE RequestAcceptSend(i)
            <4>1. \A k \in Id : k \in streams'[s] => k \in streams[s]
                BY <1>h, <3>1, Sides DEF RequestAcceptSend, RemoveStream
            <4> QED
                BY <1>1, <1>9, <2>1, <4>1 DEF Ready, loopVars
        <3> QED
            BY <3>1 DEF OpenReply, RequestAccept, openVars
    <2>3. got[s][i] = <<>> /\ inbuf[s][i] = <<>> /\ ~Registered(s, i)
        BY <2>2, Sides DEF ReaderInv, Registered
    <2>4. IsWhole(s, i) => ~HasStream(Peer(s), i)' /\ sent[Peer(s)][i] = 0
        <3> SUFFICES ASSUME s = Acceptor(i)
                     PROVE  ~HasStream(Peer(s), i)' /\ sent[Peer(s)][i] = 0
            BY DEF IsWhole
        <3>1. request[i] = "taken" /\ opener'[i] = opener[i] /\ Peer(s) = Opener(i)
            BY <2>2, Sides
        <3>2. opener[i] # "open"
            BY <3>1 DEF OpensInv, AnswersInv
        <3>3. ~HasStream(Peer(s), i) /\ ~HasStream(Peer(s), i)'
            BY <3>1, <3>2, Sides DEF HasStream
        <3>4. sent[Peer(s)][i] \in Nat
            BY Sides, MuxAssumption DEF TypeOK, EndOK
        <3> QED
            BY <3>3, <3>4, PeerIsSide DEF WriterInv
    <2> DEFINE v == View(s, i)
               u == View(s, i)'
               whole == IsWhole(s, i)
    <2>5. v \in Pipeline /\ u \in Pipeline /\ whole \in BOOLEAN /\ Sound(v, whole)
        BY ViewType DEF SoundInv, IsWhole
    <2>6. v.came = 0
        <3>1. Waits(<<>>) = 0 /\ Len(<<>>) = 0
            BY DEF Waits
        <3> QED
            BY <2>3, <3>1, Views
    <2>7. /\ u.way = v.way /\ u.came = v.came /\ u.line = v.line /\ (u.ended <=> v.ended)
          /\ u.failed <=> v.failed
        BY <1>1, <1>2, Views, NextViews DEF endVars, SameWay
    <2>8. /\ u.total = v.total /\ u.close = v.close /\ u.halved = v.halved
          /\ u.writing = v.writing
        BY <1>1, Views, NextViews DEF endVars
    <2>9. u.has => v.has \/ v.close = -1
        <3>1. HasStream(Peer(s), i)' => HasStream(Peer(s), i) \/ fin[Peer(s)][i] = -1
            BY <1>6, PeerIsSide DEF SameWriter
        <3> QED
            BY <3>1, Views, NextViews
    <2>10. whole => v.total = 0 /\ ~u.has
        BY <2>4, Views, NextViews
    <2>11. /\ v.writing = "data" => ~v.halved
           /\ v.writing = "closew" => v.halved
           /\ v.writing \in {"idle", "data", "closew"}
           /\ v.ended \in BOOLEAN /\ u.ended \in BOOLEAN
        BY <2>5 DEF Sound, WriterOK, Pipeline
    <2> HIDE DEF v, u, whole
    <2>12. SameCame(v, u) /\ SameWrite(v, u) /\ Onward(v, u, whole)
        BY <2>6, <2>7, <2>8, <2>9, <2>10, <2>11 DEF SameCame, SameWrite, Onward
    <2>13. Sound(u, whole)
        BY <2>5, <2>7, <2>12, StillSound
    <2> QED
        BY <2>1, <2>13 DEF u, whole
<1> QED
    BY <1>8, <1>9

\* Shutdown fails every stream, with an error that is no end of file.
LEMMA SweepSound ==
    ASSUME TypeOK, TypeOK', SoundInv, NEW s \in Side, ShutdownSweep(s)
    PROVE  SoundInv'
<1>h. /\ shut \in [Side -> {"open", "closing", "swept", "done"}]
      /\ closed \in [Side -> [Id -> {"no", "eof", "local", "session"}]]
    BY DEF TypeOK, ConnOK, EndOK
<1>1. UNCHANGED <<wire, opener, request, loop, hand, streams, inbuf, eof, got, sent, fin,
                  wclosed, writer>>
    BY DEF ShutdownSweep, acceptVars, loopVars
<1>2. ASSUME NEW x \in Side, NEW j \in Id
      PROVE  /\ SameReader(x, j) /\ SameWriter(x, j) /\ SameWay(x, j)
             /\ Ready(x, j)' => Ready(x, j)
    <2>1. SameReader(x, j)
        BY <1>h, <1>1 DEF SameReader, ShutdownSweep, Fail
    <2>2. SameWriter(x, j)
        BY <1>1 DEF SameWriter, HasStream
    <2>3. SameWay(x, j)
        BY <1>1, SameWayOf
    <2>4. Ready(x, j)' => Ready(x, j)
        BY <1>h, <1>1 DEF ShutdownSweep, Ready
    <2> QED
        BY <2>1, <2>2, <2>3, <2>4
<1> QED
    BY <1>2, StillView, NextSound, PeerIsSide DEF Still

\* A step of the writing end of one direction.
EndStep(s, i) ==
    /\ UNCHANGED <<loopVars, inbuf, eof, got>>
    /\ wire' = wire \/ \E f \in Frame : f.id = i /\ Send(s, f)
    /\ closed'[s][i] = "eof" => closed[s][i] = "eof"
    /\ \A x \in Side, j \in Id :
           /\ Ready(x, j)' => Ready(x, j)
           /\ HasStream(x, j)' <=> HasStream(x, j)
           /\ ~(x = s /\ j = i) => SameWriter(x, j) /\ closed'[x][j] = closed[x][j]

\* It leaves the others alone, ...
LEMMA EndStepOthers ==
    ASSUME TypeOK, TypeOK', SoundInv, NEW s \in Side, NEW i \in Id, EndStep(s, i),
           NEW x \in Side, NEW j \in Id, ~(x = Peer(s) /\ j = i)
    PROVE  Sound(View(x, j)', IsWhole(x, j))
<1>h. wire \in [Side -> Seq(Frame)]
    BY DEF TypeOK, ConnOK
<1>1. SameReader(x, j)
    BY DEF EndStep, SameReader
<1>2. SameWriter(Peer(x), j)
    BY Sides DEF EndStep
<1>3. SameWay(x, j)
    <2>1. \/ wire'[x] = wire[x]
          \/ \E f \in Frame : ~Flowing(f, j) /\ wire'[x] = Append(wire[x], f)
        <3>1. CASE wire' = wire
            BY <3>1
        <3>2. ASSUME NEW f \in Frame, f.id = i, Send(s, f)
              PROVE  \/ wire'[x] = wire[x]
                     \/ ~Flowing(f, j) /\ wire'[x] = Append(wire[x], f)
            <4>1. wire'[x] = IF x = Peer(s) THEN Append(wire[x], f) ELSE wire[x]
                BY <1>h, <3>2, Sides DEF Send
            <4>2. x = Peer(s) => ~Flowing(f, j)
                BY <3>2 DEF Flowing
            <4> QED
                BY <4>1, <4>2
        <3> QED
            BY <3>1, <3>2 DEF EndStep
    <2> QED
        BY <2>1, SameWayOf DEF EndStep, loopVars
<1> QED
    BY <1>1, <1>2, <1>3, StillView DEF Still, EndStep

\* ... and what the reader has.
LEMMA EndStepView ==
    ASSUME TypeOK, TypeOK', SoundInv, NEW s \in Side, NEW i \in Id, EndStep(s, i)
    PROVE  LET v == View(Peer(s), i)
               u == View(Peer(s), i)'
               whole == IsWhole(Peer(s), i)
           IN  /\ v \in Pipeline /\ u \in Pipeline /\ whole \in BOOLEAN /\ Sound(v, whole)
               /\ SameCame(v, u) /\ u.failed = v.failed /\ (u.ready => v.ready)
               /\ u.has = v.has
               /\ wire' = wire => u.way = v.way
               /\ \A f \in Frame : Flowing(f, i) /\ Send(s, f) => \E m \in Nat : Adds(v, u, m, f)
<1>p. PICK p \in Side : p = Peer(s) /\ Peer(p) = s /\ p # s
    BY Sides
<1> DEFINE v == View(p, i)
           u == View(p, i)'
           whole == IsWhole(p, i)
<1>1. v \in Pipeline /\ u \in Pipeline /\ whole \in BOOLEAN /\ Sound(v, whole)
    BY ViewType DEF SoundInv, IsWhole
<1>2. /\ u.ended \in BOOLEAN /\ v.ended \in BOOLEAN /\ u.has \in BOOLEAN /\ v.has \in BOOLEAN
      /\ u.failed \in BOOLEAN /\ v.failed \in BOOLEAN
    BY <1>1 DEF Pipeline
<1>3. u.came = v.came /\ u.line = v.line /\ (u.ended <=> v.ended)
    BY Views, NextViews DEF EndStep
<1>4. (u.ready => v.ready) /\ (u.has <=> v.has)
    BY <1>p, Views, NextViews DEF EndStep
<1>5. u.failed <=> v.failed
    <2>1. closed'[p][i] = closed[p][i]
        BY <1>p DEF EndStep
    <2> QED
        BY <2>1, Views, NextViews
<1>6. wire \in [Side -> Seq(Frame)] /\ hand[p] \in Frame /\ hand' = hand
    BY DEF TypeOK, ConnOK, LoopOK, EndStep, loopVars
<1>7. wire' = wire => u.way = v.way
    BY <1>6, Views, NextViews
<1>8. ASSUME NEW f \in Frame, Flowing(f, i), Send(s, f)
      PROVE  Adds(v, u, Len(wire[p]) + 1, f) /\ Len(wire[p]) + 1 \in Nat
    <2>1. wire'[p] = Append(wire[p], f) /\ wire[p] \in Seq(Frame)
        BY <1>p, <1>6, <1>8 DEF Send
    <2>2. /\ WayOf(hand[p], Append(wire[p], f), i)
                 = [WayOf(hand[p], wire[p], i) EXCEPT ![Len(wire[p]) + 1] = f]
          /\ \A k \in Nat : k >= Len(wire[p]) + 1 => WayOf(hand[p], wire[p], i)[k] = NoFrame
          /\ Len(wire[p]) + 1 \in Nat
        <3>1. PICK h \in Frame, w \in Seq(Frame) : h = hand[p] /\ w = wire[p]
            BY <1>6, <2>1
        <3>2. /\ WayOf(h, Append(w, f), i) = [WayOf(h, w, i) EXCEPT ![Len(w) + 1] = f]
              /\ \A k \in Nat : k >= Len(w) + 1 => WayOf(h, w, i)[k] = NoFrame
              /\ Len(w) + 1 \in Nat
            BY <1>8, WayAdds
        <3> QED
            BY <3>1, <3>2
    <2>3. v.way = WayOf(hand[p], wire[p], i)
        BY Views
    <2>4. u.way = WayOf(hand[p], Append(wire[p], f), i)
        <3>1. u.way = WayOf(hand'[p], wire'[p], i)
            BY NextViews
        <3>2. hand'[p] = hand[p]
            BY <1>6
        <3> HIDE DEF u
        <3> QED
            BY <2>1, <3>1, <3>2
    <2> HIDE DEF v, u
    <2> QED
        BY <2>2, <2>3, <2>4 DEF Adds
<1>9. SameCame(v, u)
    BY <1>2, <1>3 DEF SameCame
<1> QED
    BY <1>p, <1>1, <1>2, <1>4, <1>5, <1>7, <1>8, <1>9

\* The direction of the write is sound: nothing moves, ...
LEMMA EndStepStill ==
    ASSUME TypeOK, TypeOK', SoundInv, NEW s \in Side, NEW i \in Id, EndStep(s, i),
           UNCHANGED <<wire, sent, fin>>,
           wclosed[s][i] => wclosed'[s][i] /\ (writer[s][i] = "idle" => writer'[s][i] = "idle"),
           writer'[s][i] = "data" => ~wclosed'[s][i],
           writer'[s][i] = "closew" =>
               wclosed'[s][i] /\ (writer[s][i] = "closew" \/ ~wclosed[s][i])
    PROVE  SoundInv'
<1>p. PICK p \in Side : p = Peer(s) /\ Peer(p) = s
    BY Sides
<1> DEFINE v == View(p, i)
           u == View(p, i)'
           whole == IsWhole(p, i)
<1>1. /\ v \in Pipeline /\ u \in Pipeline /\ whole \in BOOLEAN /\ Sound(v, whole)
      /\ SameCame(v, u) /\ u.failed = v.failed /\ (u.ready => v.ready)
      /\ u.has = v.has /\ u.way = v.way
    BY <1>p, EndStepView
<1>2. SameWrite(v, u)
    BY <1>p, Views, NextViews DEF SameWrite
<1>3. /\ v.halved = wclosed[s][i] /\ u.halved = wclosed'[s][i]
      /\ v.writing = writer[s][i] /\ u.writing = writer'[s][i]
    BY <1>p, Views, NextViews
<1>4. Sound(u, whole)
    <2> HIDE DEF v, u, whole
    <2>1. Onward(v, u, whole)
        BY <1>1, <1>3 DEF Onward
    <2> QED
        BY <1>1, <1>2, <2>1, StillSound
<1> QED
    BY <1>p, <1>4, EndStepOthers, NextSound

\* ... as when a Write, a CloseWrite or a Close begins;
LEMMA BeginSound ==
    ASSUME TypeOK, TypeOK', SoundInv, NEW s \in Side, NEW i \in Id,
           WriteBegin(s, i) \/ CloseWriteBegin(s, i) \/ CloseBegin(s, i)
    PROVE  SoundInv'
<1>h. /\ wclosed \in [Side -> [Id -> BOOLEAN]] /\ writer \in [Side -> [Id -> {"idle", "data", "closew"}]]
      /\ streams \in [Side -> SUBSET Id]
    BY DEF TypeOK, EndOK
<1>1. UNCHANGED <<wire, shut, opener, request, loopVars, inbuf, eof, got, closed, sent, fin>>
    BY DEF WriteBegin, CloseWriteBegin, CloseBegin, connVars, openVars, acceptVars
<1>2. \A x \in Side, j \in Id : ~(x = s /\ j = i) =>
          wclosed'[x][j] = wclosed[x][j] /\ writer'[x][j] = writer[x][j]
    BY <1>h DEF WriteBegin, CloseWriteBegin, CloseBegin
<1>3. \A x \in Side, j \in Id : j \in streams'[x] => j \in streams[x]
    BY <1>h DEF WriteBegin, CloseWriteBegin, CloseBegin, RemoveStream
<1>4. EndStep(s, i)
    BY <1>1, <1>2, <1>3 DEF EndStep, SameWriter, HasStream, Ready, loopVars
<1>5. Sound(View(Peer(s), i), IsWhole(Peer(s), i)) /\ View(Peer(s), i) \in Pipeline
    BY Sides, ViewType DEF SoundInv
<1>6. /\ writer[s][i] = "data" => ~wclosed[s][i]
      /\ writer[s][i] = "closew" => wclosed[s][i]
    BY <1>5, Sides, Views DEF Sound, WriterOK
<1>7. \/ wclosed'[s][i] = wclosed[s][i] /\ writer'[s][i] = writer[s][i]
      \/ ~wclosed[s][i] /\ ~wclosed'[s][i] /\ writer'[s][i] = "data"
      \/ ~wclosed[s][i] /\ wclosed'[s][i] /\ writer'[s][i] = "closew"
    BY <1>h DEF WriteBegin, CloseWriteBegin, CloseBegin
<1> QED
    BY <1>1, <1>4, <1>6, <1>7, EndStepStill

\* ... or a DATA frame follows the ones before,
LEMMA WriteSendSound ==
    ASSUME TypeOK, TypeOK', WriterInv, SoundInv, NEW s \in Side, NEW i \in Id, WriteSend(s, i)
    PROVE  SoundInv'
<1>h. /\ sent \in [Side -> [Id -> 0..MaxData]] /\ sent' \in [Side -> [Id -> 0..MaxData]]
      /\ writer \in [Side -> [Id -> {"idle", "data", "closew"}]]
    BY DEF TypeOK, EndOK
<1> DEFINE f == [type |-> "DATA", id |-> i, n |-> sent[s][i] + 1]
<1>1. /\ UNCHANGED <<shut, opener, request, loopVars, streams, inbuf, eof, got, closed, wclosed,
                     fin>>
      /\ writer[s][i] = "data"
    BY DEF WriteSend, openVars, acceptVars
<1>2. \A x \in Side, j \in Id : ~(x = s /\ j = i) =>
          sent'[x][j] = sent[x][j] /\ writer'[x][j] = writer[x][j]
    <2>1. sent' = sent \/ sent' = [sent EXCEPT ![s][i] = @ + 1]
        BY DEF WriteSend
    <2>2. writer' = writer \/ writer' = [writer EXCEPT ![s][i] = "idle"]
        BY DEF WriteSend
    <2> QED
        BY <1>h, <2>1, <2>2
<1>3. \/ wire' = wire /\ sent' = sent /\ writer'[s][i] = "idle"
      \/ /\ Send(s, f) /\ sent'[s][i] = sent[s][i] + 1 /\ writer'[s][i] \in {"idle", "data"}
    BY <1>h DEF WriteSend, SendFails
<1>4. Send(s, f) => f \in Frame
    <2>1. sent[s][i] + 1 \in 0..MaxData
        BY <1>h, MuxAssumption DEF WriteSend, TypeOK, EndOK
    <2> QED
        BY <2>1 DEF Frame, StreamType
<1>5. EndStep(s, i)
    BY <1>1, <1>2, <1>3, <1>4 DEF EndStep, SameWriter, HasStream, Ready, loopVars
<1>6. CASE wire' = wire /\ sent' = sent /\ writer'[s][i] = "idle"
    BY <1>1, <1>5, <1>6, EndStepStill
<1>7. CASE /\ Send(s, f) /\ sent'[s][i] = sent[s][i] + 1 /\ writer'[s][i] \in {"idle", "data"}
    <2>p. PICK p \in Side : p = Peer(s) /\ Peer(p) = s
        BY Sides
    <2> DEFINE v == View(p, i)
               u == View(p, i)'
               whole == IsWhole(p, i)
    <2>1. /\ v \in Pipeline /\ u \in Pipeline /\ whole \in BOOLEAN /\ Sound(v, whole)
          /\ SameCame(v, u) /\ u.failed = v.failed /\ (u.ready => v.ready)
          /\ u.has = v.has
        BY <1>5, <2>p, EndStepView
    <2>2. Flowing(f, i)
        BY DEF Flowing
    <2>3. f \in Frame /\ \E m \in Nat : Adds(v, u, m, f)
        <3> HIDE DEF f
        <3> QED
            BY <1>4, <1>5, <1>7, <2>p, <2>2, EndStepView
    <2>4. /\ v.total = sent[s][i] /\ u.total = sent'[s][i] /\ u.close = v.close
          /\ v.writing = writer[s][i] /\ u.writing = writer'[s][i] /\ u.halved = v.halved
        BY <1>1, <2>p, Views, NextViews
    <2>5. v.has
        <3>1. HasStream(s, i)
            BY <1>1 DEF WriterInv
        <3> QED
            BY <2>p, <3>1, Views
    <2>6. f.type = "DATA" /\ f.n = v.total + 1
        BY <2>4
    <2> HIDE DEF v, u, whole, f
    <2>7. Sound(u, whole)
        BY <1>1, <1>7, <2>1, <2>3, <2>4, <2>5, <2>6, DataSound
    <2> QED
        BY <1>5, <2>p, <2>7, EndStepOthers, NextSound DEF u, whole
<1> QED
    BY <1>3, <1>6, <1>7

\* ... or the half-close or the CLOSE does.
LEMMA FinalSendSound ==
    ASSUME TypeOK, TypeOK', WriterInv, SoundInv, NEW s \in Side, NEW i \in Id,
           \/ CloseWriteSend(s, i) \/ CloseSend(s, i)
           \/ s = Opener(i) /\ OpenCancelSend(i)
    PROVE  SoundInv'
<1>h. /\ fin \in [Side -> [Id -> (-1)..MaxData]]
      /\ writer \in [Side -> [Id -> {"idle", "data", "closew"}]]
      /\ closed \in [Side -> [Id -> {"no", "eof", "local", "session"}]]
      /\ DOMAIN opener = Id
    BY DEF TypeOK, EndOK, OpenOK
<1>t. PICK t \in {"CLOSE", "CLOSEW"} :
          /\ SendFinal(s, i, t)
          /\ t = "CLOSE" => writer'[s][i] = writer[s][i]
          /\ t = "CLOSEW" => writer[s][i] = "closew" /\ writer'[s][i] = "idle"
    BY <1>h DEF CloseWriteSend, CloseSend, OpenCancelSend
<1> DEFINE f == Msg(t, i)
<1>f. f \in Frame /\ f.type = t /\ f.n = 0 /\ Flowing(f, i)
    BY MsgIsFrame DEF Msg, StreamType, Flowing
<1>1. UNCHANGED <<shut, request, loopVars, streams, inbuf, eof, got, sent, wclosed>>
    BY DEF CloseWriteSend, CloseSend, OpenCancelSend, openVars, acceptVars
<1>2. /\ \A x \in Side, j \in Id : ~(x = s /\ j = i) =>
             /\ fin'[x][j] = fin[x][j] /\ writer'[x][j] = writer[x][j]
             /\ closed'[x][j] = closed[x][j]
      /\ closed'[s][i] = "eof" => closed[s][i] = "eof"
    <2>1. fin' = fin \/ fin' = [fin EXCEPT ![s][i] = IF @ = -1 THEN sent[s][i] ELSE @]
        BY <1>t DEF SendFinal
    <2>2. writer' = writer \/ writer' = [writer EXCEPT ![s][i] = "idle"]
        BY DEF CloseWriteSend, CloseSend, OpenCancelSend
    <2>3. closed' = closed \/ Fail(s, {i}, "local")
        BY DEF CloseWriteSend, CloseSend, OpenCancelSend
    <2>4. /\ \A x \in Side, j \in Id : ~(x = s /\ j = i) => closed'[x][j] = closed[x][j]
          /\ closed'[s][i] = "eof" => closed[s][i] = "eof"
        BY <1>h, <2>3 DEF Fail
    <2>5. \A x \in Side, j \in Id : ~(x = s /\ j = i) => fin'[x][j] = fin[x][j]
        BY <1>h, <2>1
    <2>6. \A x \in Side, j \in Id : ~(x = s /\ j = i) => writer'[x][j] = writer[x][j]
        BY <1>h, <2>2
    <2> QED
        BY <2>4, <2>5, <2>6
<1>3. \/ wire' = wire /\ fin' = fin
      \/ Send(s, f) /\ fin'[s][i] = IF fin[s][i] = -1 THEN sent[s][i] ELSE fin[s][i]
    BY <1>h, <1>t DEF SendFinal, SendFails
<1>4. \A x \in Side, j \in Id : HasStream(x, j)' <=> HasStream(x, j)
    BY <1>h, <1>1 DEF CloseWriteSend, CloseSend, OpenCancelSend, HasStream, openVars
<1>5. EndStep(s, i)
    <2>1. wire' = wire \/ \E g \in Frame : g.id = i /\ Send(s, g)
        BY <1>3, <1>f DEF Flowing
    <2>2. \A x \in Side, j \in Id : Ready(x, j)' => Ready(x, j)
        BY <1>1 DEF Ready, loopVars
    <2>3. \A x \in Side, j \in Id : ~(x = s /\ j = i) => SameWriter(x, j)
        BY <1>1, <1>2, <1>4 DEF SameWriter
    <2> QED
        BY <1>1, <1>2, <1>4, <2>1, <2>2, <2>3 DEF EndStep
<1>6. CASE wire' = wire /\ fin' = fin
    <2>1. Sound(View(Peer(s), i), IsWhole(Peer(s), i))
        BY Sides DEF SoundInv
    <2>2. /\ writer[s][i] = "data" => ~wclosed[s][i]
          /\ writer[s][i] = "closew" => wclosed[s][i]
        BY <2>1, Sides, Views DEF Sound, WriterOK
    <2> QED
        BY <1>t, <1>1, <1>5, <1>6, <2>2, EndStepStill
<1>7. CASE Send(s, f) /\ fin'[s][i] = IF fin[s][i] = -1 THEN sent[s][i] ELSE fin[s][i]
    <2>p. PICK p \in Side : p = Peer(s) /\ Peer(p) = s
        BY Sides
    <2> DEFINE v == View(p, i)
               u == View(p, i)'
               whole == IsWhole(p, i)
    <2>1. /\ v \in Pipeline /\ u \in Pipeline /\ whole \in BOOLEAN /\ Sound(v, whole)
          /\ SameCame(v, u) /\ u.failed = v.failed /\ (u.ready => v.ready)
          /\ u.has = v.has
        BY <1>5, <2>p, EndStepView
    <2>2. \E m \in Nat : Adds(v, u, m, f)
        <3> HIDE DEF f
        <3> QED
            BY <1>f, <1>5, <1>7, <2>p, EndStepView
    <2>3. /\ u.total = v.total /\ u.close = IF v.close = -1 THEN v.total ELSE v.close
          /\ v.writing = writer[s][i] /\ u.writing = writer'[s][i] /\ u.halved = v.halved
        BY <1>1, <1>7, <2>p, Views, NextViews
    <2> HIDE DEF v, u, whole, f
    <2>4. \/ f.type = "CLOSE" /\ u.writing = v.writing
          \/ f.type = "CLOSEW" /\ f.n = 0 /\ v.writing = "closew" /\ u.writing = "idle"
        BY <1>t, <1>f, <2>3
    <2>5. Sound(u, whole)
        BY <1>f, <2>1, <2>2, <2>3, <2>4, CloseSound
    <2> QED
        BY <1>5, <2>p, <2>5, EndStepOthers, NextSound DEF u, whole
<1> QED
    BY <1>3, <1>6, <1>7

\* Every step.
LEMMA NextSoundInv ==
    TypeOK /\ TypeOK' /\ CallsInv /\ BeatsInv /\ OpensInv /\ ReaderInv /\ BufferInv /\ WriterInv
        /\ SoundInv /\ [Next]_vars => SoundInv'
<1> SUFFICES ASSUME TypeOK, TypeOK', CallsInv, BeatsInv, OpensInv, ReaderInv, BufferInv,
                    WriterInv, SoundInv, [Next]_vars
             PROVE  SoundInv'
    OBVIOUS
<1>1. ASSUME NEW s \in Side, SideMoves(s)
      PROVE  SoundInv'
    BY <1>1, SweepSound, ReadFrameSound, HandleDataSound, HandleCloseSound, DeliverSound
       DEF SideMoves
<1>2. ASSUME NEW s \in Side, NEW i \in Id, EndMoves(s, i)
      PROVE  SoundInv'
    BY <1>2, AnswerSound, ReadSound, BeginSound, WriteSendSound, FinalSendSound
       DEF EndMoves, Finish
<1> QED
    BY <1>1, <1>2, QuietSound, Kinds DEF Moves

-----------------------------------------------------------------------------
(* Sessions implement byte streams. *)

\* Directions.
LEMMA Directions ==
    /\ \A d \in Side \X Id : d[1] \in Side /\ d[2] \in Id /\ d = <<d[1], d[2]>>
    /\ \A s \in Side, i \in Id : <<s, i>> \in Side \X Id
    /\ \A s \in Side, i \in Id : \A d \in Side \X Id : d = <<s, i>> <=> d[1] = s /\ d[2] = i
OBVIOUS

\* A function that differs at one place.
LEMMA ChangedAt ==
    ASSUME NEW D, NEW f, NEW g, NEW p \in D, NEW e,
           f = [d \in D |-> f[d]], g = [d \in D |-> g[d]],
           \A d \in D : g[d] = IF d = p THEN e ELSE f[d]
    PROVE  g = [f EXCEPT ![p] = e]
OBVIOUS

\* What the steps of Bytes are in a session.
SameWritten == \A x \in Side, j \in Id : sent'[x][j] = sent[x][j]
SameLast    == \A x \in Side, j \in Id : fin'[x][j] = fin[x][j]
SameRead    == \A x \in Side, j \in Id : got'[x][j] = got[x][j]
SameOver    == \A x \in Side, j \in Id : Told(x, j)' <=> Told(x, j)
NowOver(s, i) ==
    /\ \A x \in Side, j \in Id : Told(x, j)' <=> Told(x, j) \/ (x = s /\ j = i)
    /\ s = Acceptor(i) => Len(got'[s][i]) = fin[Peer(s)][i]

\* A step that does none of it is none of Bytes,
LEMMA Stutters ==
    ASSUME SameWritten, SameLast, SameRead, SameOver
    PROVE  UNCHANGED Abstract!bytes
<1>1. [d \in Side \X Id |-> sent'[Peer(d[1])][d[2]]] = [d \in Side \X Id |-> sent[Peer(d[1])][d[2]]]
    BY PeerIsSide, Directions DEF SameWritten
<1>2. [d \in Side \X Id |-> fin'[Peer(d[1])][d[2]]] = [d \in Side \X Id |-> fin[Peer(d[1])][d[2]]]
    BY PeerIsSide, Directions DEF SameLast
<1>3. [d \in Side \X Id |-> got'[d[1]][d[2]]] = [d \in Side \X Id |-> got[d[1]][d[2]]]
    BY Directions DEF SameRead
<1>4. {d \in Side \X Id : Told(d[1], d[2])'} = {d \in Side \X Id : Told(d[1], d[2])}
    BY Directions DEF SameOver
<1> QED
    BY <1>1, <1>2, <1>3, <1>4 DEF Abstract!bytes

\* ... one that adds to what was written is a write,
LEMMA StepWrites ==
    ASSUME NEW s \in Side, NEW i \in Id, sent[Peer(s)][i] < MaxData,
           \A x \in Side, j \in Id :
               sent'[Peer(x)][j] = IF x = s /\ j = i THEN sent[Peer(s)][i] + 1
                                   ELSE sent[Peer(x)][j],
           SameLast, SameRead, SameOver
    PROVE  Abstract!Writes(<<s, i>>)
<1>1. [d \in Side \X Id |-> sent'[Peer(d[1])][d[2]]]
          = [[d \in Side \X Id |-> sent[Peer(d[1])][d[2]]] EXCEPT ![<<s, i>>] = @ + 1]
    <2> DEFINE f == [d \in Side \X Id |-> sent[Peer(d[1])][d[2]]]
               g == [d \in Side \X Id |-> sent'[Peer(d[1])][d[2]]]
    <2>1. f = [d \in Side \X Id |-> f[d]] /\ g = [d \in Side \X Id |-> g[d]]
        OBVIOUS
    <2>2. \A d \in Side \X Id : g[d] = IF d = <<s, i>> THEN sent[Peer(s)][i] + 1 ELSE f[d]
        BY Directions
    <2>3. <<s, i>> \in Side \X Id /\ f[<<s, i>>] = sent[Peer(s)][i]
        BY Directions
    <2> HIDE DEF f, g
    <2>4. g = [f EXCEPT ![<<s, i>>] = sent[Peer(s)][i] + 1]
        BY <2>1, <2>2, <2>3, ChangedAt
    <2> QED
        BY <2>3, <2>4 DEF f, g
<1>2. [d \in Side \X Id |-> fin'[Peer(d[1])][d[2]]] = [d \in Side \X Id |-> fin[Peer(d[1])][d[2]]]
    BY PeerIsSide, Directions DEF SameLast
<1>3. [d \in Side \X Id |-> got'[d[1]][d[2]]] = [d \in Side \X Id |-> got[d[1]][d[2]]]
    BY Directions DEF SameRead
<1>4. {d \in Side \X Id : Told(d[1], d[2])'} = {d \in Side \X Id : Told(d[1], d[2])}
    BY Directions DEF SameOver
<1> QED
    BY <1>1, <1>2, <1>3, <1>4, Directions DEF Abstract!Writes

\* ... one that fixes how much was written before the close is the close,
LEMMA StepCloses ==
    ASSUME NEW s \in Side, NEW i \in Id, fin[Peer(s)][i] = -1,
           \A x \in Side, j \in Id :
               fin'[Peer(x)][j] = IF x = s /\ j = i THEN sent[Peer(s)][i] ELSE fin[Peer(x)][j],
           SameWritten, SameRead, SameOver
    PROVE  Abstract!Closes(<<s, i>>)
<1>1. [d \in Side \X Id |-> fin'[Peer(d[1])][d[2]]]
          = [[d \in Side \X Id |-> fin[Peer(d[1])][d[2]]] EXCEPT ![<<s, i>>] = sent[Peer(s)][i]]
    <2> DEFINE f == [d \in Side \X Id |-> fin[Peer(d[1])][d[2]]]
               g == [d \in Side \X Id |-> fin'[Peer(d[1])][d[2]]]
    <2>1. f = [d \in Side \X Id |-> f[d]] /\ g = [d \in Side \X Id |-> g[d]]
        OBVIOUS
    <2>2. \A d \in Side \X Id : g[d] = IF d = <<s, i>> THEN sent[Peer(s)][i] ELSE f[d]
        BY Directions
    <2>3. <<s, i>> \in Side \X Id /\ f[<<s, i>>] = fin[Peer(s)][i]
        BY Directions
    <2> HIDE DEF f, g
    <2>4. g = [f EXCEPT ![<<s, i>>] = sent[Peer(s)][i]]
        BY <2>1, <2>2, <2>3, ChangedAt
    <2> QED
        BY <2>3, <2>4 DEF f, g
<1>2. [d \in Side \X Id |-> sent'[Peer(d[1])][d[2]]] = [d \in Side \X Id |-> sent[Peer(d[1])][d[2]]]
    BY PeerIsSide, Directions DEF SameWritten
<1>3. [d \in Side \X Id |-> got'[d[1]][d[2]]] = [d \in Side \X Id |-> got[d[1]][d[2]]]
    BY Directions DEF SameRead
<1>4. {d \in Side \X Id : Told(d[1], d[2])'} = {d \in Side \X Id : Told(d[1], d[2])}
    BY Directions DEF SameOver
<1> QED
    BY <1>1, <1>2, <1>3, <1>4, Directions DEF Abstract!Closes

\* ... one that tells the reader ends the direction,
LEMMA StepEnds ==
    ASSUME NEW s \in Side, NEW i \in Id, NowOver(s, i)
    PROVE  Abstract!Ends(<<s, i>>)
<1>1. {d \in Side \X Id : Told(d[1], d[2])'}
          = {d \in Side \X Id : Told(d[1], d[2])} \cup {<<s, i>>}
    BY Directions DEF NowOver
<1>2. [d \in Side \X Id |-> got'[d[1]][d[2]]][<<s, i>>] = got'[s][i]
    BY Directions
<1>3. [d \in Side \X Id |-> fin[Peer(d[1])][d[2]]][<<s, i>>] = fin[Peer(s)][i]
    BY Directions
<1> QED
    BY <1>1, <1>2, <1>3, Directions DEF Abstract!Ends, NowOver

\* ... by itself,
LEMMA StepIsTold ==
    ASSUME NEW s \in Side, NEW i \in Id, ~Told(s, i), NowOver(s, i),
           SameWritten, SameLast, SameRead
    PROVE  Abstract!IsTold(<<s, i>>)
<1>1. [d \in Side \X Id |-> sent'[Peer(d[1])][d[2]]] = [d \in Side \X Id |-> sent[Peer(d[1])][d[2]]]
    BY PeerIsSide, Directions DEF SameWritten
<1>2. [d \in Side \X Id |-> fin'[Peer(d[1])][d[2]]] = [d \in Side \X Id |-> fin[Peer(d[1])][d[2]]]
    BY PeerIsSide, Directions DEF SameLast
<1>3. [d \in Side \X Id |-> got'[d[1]][d[2]]] = [d \in Side \X Id |-> got[d[1]][d[2]]]
    BY Directions DEF SameRead
<1>4. <<s, i>> \notin {d \in Side \X Id : Told(d[1], d[2])}
    BY Directions
<1> QED
    BY <1>1, <1>2, <1>3, <1>4, StepEnds DEF Abstract!IsTold

\* ... or with the last byte; and one that adds the next byte to what was read is a read.
LEMMA StepReads ==
    ASSUME NEW s \in Side, NEW i \in Id, ~Told(s, i),
           NEW n \in 1..(IF fin[Peer(s)][i] # -1 /\ s = Acceptor(i)
                         THEN fin[Peer(s)][i] ELSE sent[Peer(s)][i]),
           IF got[s][i] = <<>> THEN s = Acceptor(i) => n = 1
           ELSE n = got[s][i][Len(got[s][i])] + 1,
           \A x \in Side, j \in Id :
               got'[x][j] = IF x = s /\ j = i THEN Append(got[s][i], n) ELSE got[x][j],
           SameWritten, SameLast, SameOver \/ NowOver(s, i)
    PROVE  Abstract!Reads(<<s, i>>)
<1>1. [d \in Side \X Id |-> sent'[Peer(d[1])][d[2]]] = [d \in Side \X Id |-> sent[Peer(d[1])][d[2]]]
    BY PeerIsSide, Directions DEF SameWritten
<1>2. [d \in Side \X Id |-> fin'[Peer(d[1])][d[2]]] = [d \in Side \X Id |-> fin[Peer(d[1])][d[2]]]
    BY PeerIsSide, Directions DEF SameLast
<1>3. [d \in Side \X Id |-> got'[d[1]][d[2]]]
          = [[d \in Side \X Id |-> got[d[1]][d[2]]] EXCEPT ![<<s, i>>] = Append(@, n)]
    <2> DEFINE f == [d \in Side \X Id |-> got[d[1]][d[2]]]
               g == [d \in Side \X Id |-> got'[d[1]][d[2]]]
    <2>1. f = [d \in Side \X Id |-> f[d]] /\ g = [d \in Side \X Id |-> g[d]]
        OBVIOUS
    <2>2. \A d \in Side \X Id : g[d] = IF d = <<s, i>> THEN Append(got[s][i], n) ELSE f[d]
        BY Directions
    <2>3. <<s, i>> \in Side \X Id /\ f[<<s, i>>] = got[s][i]
        BY Directions
    <2> HIDE DEF f, g
    <2>4. g = [f EXCEPT ![<<s, i>>] = Append(got[s][i], n)]
        BY <2>1, <2>2, <2>3, ChangedAt
    <2> QED
        BY <2>3, <2>4 DEF f, g
<1>4. <<s, i>> \notin {d \in Side \X Id : Told(d[1], d[2])}
    BY Directions
<1>5. /\ [d \in Side \X Id |-> got[d[1]][d[2]]][<<s, i>>] = got[s][i]
      /\ [d \in Side \X Id |-> fin[Peer(d[1])][d[2]]][<<s, i>>] = fin[Peer(s)][i]
      /\ [d \in Side \X Id |-> sent[Peer(d[1])][d[2]]][<<s, i>>] = sent[Peer(s)][i]
      /\ <<s, i>> \in {d \in Side \X Id : d[1] = Acceptor(d[2])} <=> s = Acceptor(i)
    BY Directions
<1>6. SameOver => {d \in Side \X Id : Told(d[1], d[2])'} = {d \in Side \X Id : Told(d[1], d[2])}
    BY Directions DEF SameOver
<1>7. n \in Abstract!Readable(<<s, i>>)
    BY <1>5 DEF Abstract!Readable
<1>8. Abstract!IsNext(<<s, i>>, n)
    BY <1>5 DEF Abstract!IsNext
<1>9. NowOver(s, i) => Abstract!Ends(<<s, i>>)
    BY StepEnds
<1> QED
    BY <1>1, <1>2, <1>3, <1>4, <1>6, <1>7, <1>8, <1>9 DEF Abstract!Reads

\* A step of a session is one of Bytes, or none.
BytesNext ==
    \/ \E d \in Side \X Id :
           Abstract!Writes(d) \/ Abstract!Closes(d) \/ Abstract!Reads(d) \/ Abstract!IsTold(d)
    \/ UNCHANGED Abstract!bytes

\* Nothing that tells the end changes.
LEMMA SameTold ==
    ASSUME NEW s \in Side, NEW i \in Id,
           eof'[s][i] = eof[s][i], inbuf'[s][i] = inbuf[s][i],
           closed'[s][i] = "eof" <=> closed[s][i] = "eof",
           HasStream(s, i)' <=> HasStream(s, i)
    PROVE  Told(s, i)' <=> Told(s, i)
BY DEF Told

\* Who is told the end has read it all.
LEMMA ToldHasAll ==
    ASSUME TypeOK', BufferInv', SoundInv', NEW s \in Side, NEW i \in Id,
           Told(s, i)', s = Acceptor(i)
    PROVE  Len(got'[s][i]) = fin'[Peer(s)][i]
<1> DEFINE u == View(s, i)'
<1>1. inbuf'[s][i] = <<>>
    BY DEF Told, BufferInv
<1>2. Waits(<<>>) = 0 /\ Len(got'[s][i]) \in Nat
    BY DEF Waits, TypeOK, EndOK
<1>3. u.came = Len(got'[s][i]) /\ u.close = fin'[Peer(s)][i]
    <2>1. u.came = Len(got'[s][i]) + Waits(inbuf'[s][i]) /\ u.close = fin'[Peer(s)][i]
        BY NextViews
    <2> HIDE DEF u
    <2> QED
        BY <1>1, <1>2, <2>1
<1>4. u.ended \/ u.failed
    BY NextViews DEF Told
<1>5. WholeOK(u)
    BY DEF SoundInv, Sound, IsWhole
<1> HIDE DEF u
<1> QED
    BY <1>3, <1>4, <1>5 DEF WholeOK

\* A step of which one reader at most is told the end.
LEMMA Tells ==
    ASSUME TypeOK', BufferInv', SoundInv', NEW s \in Side, NEW i \in Id,
           SameWritten, SameLast, SameRead,
           \A x \in Side, j \in Id : ~(x = s /\ j = i) => (Told(x, j)' <=> Told(x, j)),
           Told(s, i) => Told(s, i)'
    PROVE  BytesNext
<1>1. CASE Told(s, i)' <=> Told(s, i)
    BY <1>1, Stutters DEF SameOver, BytesNext
<1>2. CASE Told(s, i)' /\ ~Told(s, i)
    <2>1. s = Acceptor(i) => Len(got'[s][i]) = fin[Peer(s)][i]
        BY <1>2, ToldHasAll, PeerIsSide DEF SameLast
    <2>2. NowOver(s, i)
        BY <1>2, <2>1 DEF NowOver
    <2> QED
        BY <1>2, <2>2, StepIsTold, Directions DEF BytesNext
<1> QED
    BY <1>1, <1>2

\* A step of Quiet is none.
LEMMA QuietStutters ==
    ASSUME Quiet
    PROVE  BytesNext
<1>1. SameWritten /\ SameLast /\ SameRead
    BY DEF Quiet, endVars, SameWritten, SameLast, SameRead
<1>2. SameOver
    BY SameTold, QuietCallsHold DEF Quiet, endVars, SameOver
<1> QED
    BY <1>1, <1>2, Stutters DEF BytesNext

\* Shutdown and the read loop only ever tell an end.
LEMMA SideMovesBytes ==
    ASSUME TypeOK, TypeOK', ReaderInv, BufferInv, SoundInv, BufferInv', SoundInv',
           NEW s \in Side, SideMoves(s)
    PROVE  BytesNext
<1>h. /\ closed \in [Side -> [Id -> {"no", "eof", "local", "session"}]]
      /\ inbuf \in [Side -> [Id -> Seq(0..MaxData)]]
      /\ hand[s] \in Frame
    BY DEF TypeOK, LoopOK, EndOK
<1>1. UNCHANGED <<opener, request, eof, sent, fin, got>>
    BY DEF SideMoves, ShutdownSweep, ReadFrame, HandleData, HandleClose, Deliver, openVars,
           acceptVars, endVars
<1>2. SameWritten /\ SameLast /\ SameRead
    BY <1>1 DEF SameWritten, SameLast, SameRead
<1>3. \A x \in Side, j \in Id : HasStream(x, j)' <=> HasStream(x, j)
    BY <1>1 DEF HasStream
<1>4. CASE ShutdownSweep(s) \/ ReadFrame(s) \/ HandleData(s)
    <2>1. inbuf' = inbuf
        BY <1>4 DEF ShutdownSweep, ReadFrame, HandleData, endVars
    <2>2. \A x \in Side, j \in Id : closed'[x][j] = "eof" <=> closed[x][j] = "eof"
        <3>1. CASE ShutdownSweep(s)
            BY <1>h, <3>1 DEF ShutdownSweep, Fail
        <3>2. CASE ReadFrame(s) \/ HandleData(s)
            BY <3>2 DEF ReadFrame, HandleData, endVars
        <3> QED
            BY <1>4, <3>1, <3>2
    <2>3. SameOver
        BY <1>1, <1>3, <2>1, <2>2, SameTold DEF SameOver
    <2> QED
        BY <1>2, <2>3, Stutters DEF BytesNext
<1>5. CASE HandleClose(s)
    <2>1. inbuf' = inbuf
        BY <1>5 DEF HandleClose
    <2>2. CASE hand[s].id \in streams[s]
        <3>1. PICK i \in Id : i = hand[s].id
            BY <2>2 DEF TypeOK
        <3>2. /\ \A x \in Side, j \in Id : ~(x = s /\ j = i) => closed'[x][j] = closed[x][j]
              /\ closed[s][i] = "eof" => closed'[s][i] = "eof"
            BY <1>h, <1>5, <2>2, <3>1 DEF HandleClose, Fail
        <3>3. \A x \in Side, j \in Id : ~(x = s /\ j = i) => (Told(x, j)' <=> Told(x, j))
            BY <1>1, <1>3, <2>1, <3>2, SameTold
        <3>4. Told(s, i) => Told(s, i)'
            BY <1>1, <1>3, <2>1, <3>2 DEF Told
        <3> QED
            BY <1>2, <3>3, <3>4, Tells
    <2>3. CASE hand[s].id \notin streams[s]
        <3>1. closed' = closed
            BY <1>5, <2>3 DEF HandleClose
        <3>2. SameOver
            BY <1>1, <1>3, <2>1, <3>1, SameTold DEF SameOver
        <3> QED
            BY <1>2, <3>2, Stutters DEF BytesNext
    <2> QED
        BY <2>2, <2>3
<1>6. CASE Deliver(s)
    <2>1. PICK i \in Id : i = hand[s].id
        BY <1>6, DeliverRoom DEF Deliver
    <2>2. closed[s][i] # "eof" /\ closed' = closed
        BY <1>6, <2>1, DeliverRoom DEF Deliver
    <2>3. \A x \in Side, j \in Id : ~(x = s /\ j = i) => inbuf'[x][j] = inbuf[x][j]
        BY <1>h, <1>6, <2>1 DEF Deliver
    <2>4. Told(s, i)' <=> Told(s, i)
        BY <1>1, <2>2 DEF Told
    <2>5. SameOver
        BY <1>1, <1>3, <2>2, <2>3, <2>4, SameTold DEF SameOver
    <2> QED
        BY <1>2, <2>5, Stutters DEF BytesNext
<1> QED
    BY <1>4, <1>5, <1>6 DEF SideMoves

\* A stream that is answered was told of nothing before.
LEMMA AnswerBytes ==
    ASSUME TypeOK, TypeOK', BufferInv', SoundInv', NEW s \in Side, NEW i \in Id,
           \/ s = Opener(i) /\ OpenReply(i)
           \/ s = Acceptor(i) /\ (RequestAccept(i) \/ RequestAcceptSend(i))
    PROVE  BytesNext
<1>h. DOMAIN opener = Id /\ DOMAIN request = Id
    BY DEF TypeOK, OpenOK, AcceptOK
<1>1. UNCHANGED endVars
    BY DEF OpenReply, RequestAccept, RequestAcceptSend
<1>2. /\ \A x \in Side, j \in Id : ~(x = s /\ j = i) => (HasStream(x, j)' <=> HasStream(x, j))
      /\ HasStream(s, i) => HasStream(s, i)'
    BY <1>h, Sides DEF OpenReply, RequestAccept, RequestAcceptSend, HasStream, openVars,
                       acceptVars
<1>3. SameWritten /\ SameLast /\ SameRead
    BY <1>1 DEF endVars, SameWritten, SameLast, SameRead
<1>4. \A x \in Side, j \in Id : ~(x = s /\ j = i) => (Told(x, j)' <=> Told(x, j))
    BY <1>1, <1>2, SameTold DEF endVars
<1>5. Told(s, i) => Told(s, i)'
    BY <1>1, <1>2 DEF Told, endVars
<1> QED
    BY <1>3, <1>4, <1>5, Tells

\* The writer of a stream: a step of it writes, closes, or is none.
LEMMA WriterBytes ==
    ASSUME TypeOK, NEW s \in Side, NEW i \in Id,
           UNCHANGED <<opener, request, inbuf, eof, got>>,
           \A x \in Side, j \in Id : closed'[x][j] = "eof" <=> closed[x][j] = "eof",
           \A x \in Side, j \in Id : ~(x = s /\ j = i) =>
               sent'[x][j] = sent[x][j] /\ fin'[x][j] = fin[x][j],
           \/ sent'[s][i] = sent[s][i] /\ fin'[s][i] = fin[s][i]
           \/ /\ sent'[s][i] = sent[s][i] + 1 /\ sent[s][i] < MaxData
              /\ fin'[s][i] = fin[s][i]
           \/ /\ sent'[s][i] = sent[s][i]
              /\ fin[s][i] = -1 /\ fin'[s][i] = sent[s][i]
    PROVE  BytesNext
<1>p. PICK p \in Side : p = Peer(s) /\ Peer(p) = s /\ \A x \in Side : Peer(x) = s => x = p
    BY Sides
<1>1. SameRead /\ SameOver
    <2>1. SameRead
        BY DEF SameRead
    <2>2. SameOver
        BY SameTold DEF SameOver, HasStream
    <2> QED
        BY <2>1, <2>2
<1>2. CASE sent'[s][i] = sent[s][i] /\ fin'[s][i] = fin[s][i]
    <2>1. SameWritten /\ SameLast
        BY <1>2 DEF SameWritten, SameLast
    <2> QED
        BY <1>1, <2>1, Stutters DEF BytesNext
<1>3. CASE /\ sent'[s][i] = sent[s][i] + 1 /\ sent[s][i] < MaxData
           /\ fin'[s][i] = fin[s][i]
    <2>1. SameLast
        BY <1>3 DEF SameLast
    <2>2. \A x \in Side, j \in Id :
              sent'[Peer(x)][j] = IF x = p /\ j = i THEN sent[Peer(p)][i] + 1
                                  ELSE sent[Peer(x)][j]
        BY <1>p, <1>3, PeerIsSide
    <2>3. sent[Peer(p)][i] < MaxData
        BY <1>p, <1>3
    <2> QED
        BY <1>1, <2>1, <2>2, <2>3, StepWrites, Directions DEF BytesNext
<1>4. CASE /\ sent'[s][i] = sent[s][i]
           /\ fin[s][i] = -1 /\ fin'[s][i] = sent[s][i]
    <2>1. SameWritten
        BY <1>4 DEF SameWritten
    <2>2. \A x \in Side, j \in Id :
              fin'[Peer(x)][j] = IF x = p /\ j = i THEN sent[Peer(p)][i]
                                 ELSE fin[Peer(x)][j]
        BY <1>p, <1>4, PeerIsSide
    <2>3. fin[Peer(p)][i] = -1
        BY <1>p, <1>4
    <2> QED
        BY <1>1, <2>1, <2>2, <2>3, StepCloses, Directions DEF BytesNext
<1> QED
    BY <1>2, <1>3, <1>4

\* What the frames of an end do: Write, CloseWrite, Close, a call given up.
LEMMA FinishBytes ==
    ASSUME TypeOK, NEW s \in Side, NEW i \in Id,
           \/ WriteBegin(s, i) \/ CloseWriteBegin(s, i) \/ CloseBegin(s, i)
           \/ Finish(s, i)
    PROVE  BytesNext
<1>h. /\ sent \in [Side -> [Id -> 0..MaxData]] /\ fin \in [Side -> [Id -> (-1)..MaxData]]
      /\ closed \in [Side -> [Id -> {"no", "eof", "local", "session"}]]
      /\ writer[s][i] = "data" => sent[s][i] < MaxData
    BY DEF TypeOK, EndOK
<1>1. UNCHANGED <<opener, request, inbuf, eof, got>>
    BY DEF WriteBegin, CloseWriteBegin, CloseBegin, Finish, WriteSend, CloseWriteSend, CloseSend,
           openVars, acceptVars
<1>2. CASE WriteBegin(s, i) \/ CloseWriteBegin(s, i) \/ CloseBegin(s, i)
    <2>1. UNCHANGED <<closed, sent, fin>>
        BY <1>2 DEF WriteBegin, CloseWriteBegin, CloseBegin
    <2> QED
        BY <1>1, <2>1, WriterBytes
<1>3. CASE WriteSend(s, i)
    <2>1. UNCHANGED <<closed, fin>>
        BY <1>3 DEF WriteSend
    <2>2. sent' = sent \/ sent' = [sent EXCEPT ![s][i] = @ + 1]
        BY <1>3 DEF WriteSend
    <2>3. sent[s][i] < MaxData
        BY <1>h, <1>3 DEF WriteSend
    <2>4. \A x \in Side, j \in Id : ~(x = s /\ j = i) => sent'[x][j] = sent[x][j]
        BY <1>h, <2>2
    <2>5. sent'[s][i] = sent[s][i] \/ sent'[s][i] = sent[s][i] + 1
        BY <1>h, <2>2
    <2> QED
        BY <1>1, <2>1, <2>3, <2>4, <2>5, WriterBytes
<1>4. CASE CloseWriteSend(s, i) \/ CloseSend(s, i)
    <2>1. sent' = sent
        BY <1>4 DEF CloseWriteSend, CloseSend
    <2>2. \A x \in Side, j \in Id : closed'[x][j] = "eof" <=> closed[x][j] = "eof"
        <3>1. CASE closed' = closed
            BY <3>1
        <3>2. CASE Fail(s, {i}, "local")
            BY <1>h, <3>2 DEF Fail
        <3> QED
            BY <1>4, <3>1, <3>2 DEF CloseWriteSend, CloseSend
    <2>3. \/ fin' = fin
          \/ fin' = [fin EXCEPT ![s][i] = IF @ = -1 THEN sent[s][i] ELSE @]
        BY <1>4 DEF CloseWriteSend, CloseSend, SendFinal
    <2>4. \A x \in Side, j \in Id : ~(x = s /\ j = i) => fin'[x][j] = fin[x][j]
        BY <1>h, <2>3
    <2>5. fin'[s][i] = fin[s][i] \/ (fin[s][i] = -1 /\ fin'[s][i] = sent[s][i])
        BY <1>h, <2>3
    <2> QED
        BY <1>1, <2>1, <2>2, <2>4, <2>5, WriterBytes
<1> QED
    BY <1>2, <1>3, <1>4 DEF Finish

\* A call given up says CLOSE, too.
LEMMA CancelBytes ==
    ASSUME TypeOK, NEW s \in Side, NEW i \in Id, s = Opener(i), OpenCancelSend(i)
    PROVE  BytesNext
<1>h. /\ fin \in [Side -> [Id -> (-1)..MaxData]] /\ DOMAIN opener = Id
    BY DEF TypeOK, EndOK, OpenOK
<1>1. UNCHANGED <<request, inbuf, eof, got, closed, sent>>
    BY DEF OpenCancelSend, acceptVars
<1>2. \/ fin' = fin
      \/ fin' = [fin EXCEPT ![s][i] = IF @ = -1 THEN sent[s][i] ELSE @]
    BY DEF OpenCancelSend, SendFinal
<1>3. \A x \in Side, j \in Id : HasStream(x, j)' <=> HasStream(x, j)
    BY <1>h, <1>1 DEF OpenCancelSend, HasStream
<1>4. SameOver /\ SameWritten /\ SameRead
    <2>1. SameOver
        BY <1>1, <1>3, SameTold DEF SameOver
    <2> QED
        BY <1>1, <2>1 DEF SameWritten, SameRead
<1>5. CASE fin'[s][i] = fin[s][i]
    <2>1. SameLast
        BY <1>h, <1>2, <1>5 DEF SameLast
    <2> QED
        BY <1>4, <2>1, Stutters DEF BytesNext
<1>6. CASE fin'[s][i] # fin[s][i]
    <2>p. PICK p \in Side : p = Peer(s) /\ Peer(p) = s /\ \A x \in Side : Peer(x) = s => x = p
        BY Sides
    <2>1. fin[s][i] = -1 /\ fin'[s][i] = sent[s][i]
        BY <1>h, <1>2, <1>6
    <2>2. \A x \in Side, j \in Id : ~(x = s /\ j = i) => fin'[x][j] = fin[x][j]
        BY <1>h, <1>2
    <2>3. \A x \in Side, j \in Id :
              fin'[Peer(x)][j] = IF x = p /\ j = i THEN sent[Peer(p)][i]
                                 ELSE fin[Peer(x)][j]
        BY <2>p, <2>1, <2>2, PeerIsSide
    <2>4. fin[Peer(p)][i] = -1
        BY <2>p, <2>1
    <2>5. Abstract!Closes(<<p, i>>)
        BY <1>4, <2>3, <2>4, StepCloses
    <2> QED
        BY <2>5, Directions DEF BytesNext
<1> QED
    BY <1>5, <1>6

\* A Read gets the next byte, or is told.
LEMMA ReadBytes ==
    ASSUME TypeOK, TypeOK', BufferInv, SoundInv, BufferInv', SoundInv',
           NEW s \in Side, NEW i \in Id, Read(s, i)
    PROVE  BytesNext
<1> DEFINE b == inbuf[s][i]
           g == got[s][i]
           v == View(s, i)
<1>h. /\ inbuf \in [Side -> [Id -> Seq(0..MaxData)]] /\ got \in [Side -> [Id -> Seq(0..MaxData)]]
      /\ eof \in [Side -> [Id -> BOOLEAN]]
    BY DEF TypeOK, EndOK
<1>1. UNCHANGED <<opener, request, closed, sent, fin>>
    BY DEF Read, openVars, acceptVars
<1>2. /\ \A x \in Side, j \in Id : ~(x = s /\ j = i) =>
             inbuf'[x][j] = inbuf[x][j] /\ eof'[x][j] = eof[x][j] /\ got'[x][j] = got[x][j]
      /\ b # <<>> /\ ~eof[s][i] /\ inbuf'[s][i] = Tail(b)
      /\ \/ Head(b) = 0 /\ eof'[s][i] /\ got'[s][i] = g
         \/ Head(b) # 0 /\ ~eof'[s][i] /\ got'[s][i] = Append(g, Head(b))
    BY <1>h DEF Read
<1>3. SameWritten /\ SameLast
    BY <1>1 DEF SameWritten, SameLast
<1>4. \A x \in Side, j \in Id : ~(x = s /\ j = i) => (Told(x, j)' <=> Told(x, j))
    BY <1>1, <1>2, SameTold DEF HasStream
<1>5. ~Told(s, i)
    BY <1>2 DEF Told
<1>6. CASE Head(b) = 0
    <2>1. SameRead
        BY <1>2, <1>6 DEF SameRead
    <2> QED
        BY <1>3, <1>4, <1>5, <2>1, Tells
<1>7. CASE Head(b) # 0
    <2>1. b \in Seq(0..MaxData) /\ g \in Seq(0..MaxData) /\ Len(g) \in Nat
          /\ \A k \in DOMAIN b : b[k] = 0 => k = Len(b)
        BY <1>h DEF BufferInv
    <2>2. Waits(b) > 0 /\ Line(g, b)[Len(g) + 1] = Head(b) /\ Waits(b) \in Nat
        <3>1. Waits(b) \in Nat
            BY <2>1 DEF Waits
        <3> QED
            BY <1>2, <1>7, <2>1, <3>1, LineReads
    <2>3. /\ v.came = Len(g) + Waits(b) /\ v.line = Line(g, b)
          /\ v.total = sent[Peer(s)][i] /\ v.close = fin[Peer(s)][i]
        BY Views
    <2>4. /\ LineOK(v) /\ (s = Acceptor(i) => WholeOK(v))
          /\ v.total \in Nat /\ v.close \in Int
        BY ViewType DEF SoundInv, Sound, IsWhole, Pipeline
    <2>5. \A k \in 1..Len(g) : Line(g, b)[k] = g[k]
        BY <2>1 DEF Line
    <2> HIDE DEF v, b, g
    <2>6. Len(g) + 1 \in 1..v.came
        BY <2>1, <2>2, <2>3
    <2>7. /\ Head(b) \in 1..v.total
          /\ g # <<>> => Head(b) = g[Len(g)] + 1
          /\ s = Acceptor(i) => Head(b) = Len(g) + 1 /\ (v.close # -1 => v.came <= v.close)
        <3>1. Head(b) \in 1..v.total
            BY <2>2, <2>3, <2>4, <2>6 DEF LineOK
        <3>2. ASSUME g # <<>> PROVE Head(b) = g[Len(g)] + 1
            <4>1. Len(g) \in 1..v.came /\ Len(g) < v.came /\ Len(g) \in 1..Len(g)
                <5>1. Len(g) # 0
                    BY <2>1, <3>2
                <5>2. v.came \in Nat /\ Len(g) < v.came
                    BY <2>1, <2>2, <2>3
                <5> QED
                    BY <2>1, <5>1, <5>2
            <4> QED
                BY <2>2, <2>3, <2>4, <2>5, <4>1 DEF LineOK
        <3>3. s = Acceptor(i) => Head(b) = Len(g) + 1 /\ (v.close # -1 => v.came <= v.close)
            BY <2>2, <2>3, <2>4, <2>6 DEF WholeOK
        <3> QED
            BY <3>1, <3>2, <3>3
    <2>8. Head(b) \in 1..(IF v.close # -1 /\ s = Acceptor(i) THEN v.close ELSE v.total)
        <3>1. CASE v.close # -1 /\ s = Acceptor(i)
            BY <2>1, <2>2, <2>3, <2>4, <2>6, <2>7, <3>1
        <3>2. CASE ~(v.close # -1 /\ s = Acceptor(i))
            BY <2>7, <3>2
        <3> QED
            BY <3>1, <3>2
    <2>9. IF g = <<>> THEN s = Acceptor(i) => Head(b) = 1 ELSE Head(b) = g[Len(g)] + 1
        BY <2>7
    <2>10. \A x \in Side, j \in Id :
               got'[x][j] = IF x = s /\ j = i THEN Append(g, Head(b)) ELSE got[x][j]
        BY <1>2, <1>7 DEF b, g
    <2>11. SameOver \/ NowOver(s, i)
        <3>1. Told(s, i)' /\ s = Acceptor(i) => Len(got'[s][i]) = fin[Peer(s)][i]
            BY <1>1, ToldHasAll
        <3> QED
            BY <1>4, <1>5, <3>1 DEF SameOver, NowOver
    <2>12. /\ Head(b) \in 1..(IF fin[Peer(s)][i] # -1 /\ s = Acceptor(i)
                              THEN fin[Peer(s)][i] ELSE sent[Peer(s)][i])
           /\ IF got[s][i] = <<>> THEN s = Acceptor(i) => Head(b) = 1
              ELSE Head(b) = got[s][i][Len(got[s][i])] + 1
           /\ \A x \in Side, j \in Id :
                  got'[x][j] = IF x = s /\ j = i THEN Append(got[s][i], Head(b)) ELSE got[x][j]
        BY <2>3, <2>8, <2>9, <2>10 DEF g
    <2>13. Abstract!Reads(<<s, i>>)
        BY <1>3, <1>5, <2>11, <2>12, StepReads
    <2> QED
        BY <2>13, Directions DEF BytesNext
<1> QED
    BY <1>6, <1>7

\* Every step.
LEMMA NextBytes ==
    TypeOK /\ TypeOK' /\ CallsInv /\ BeatsInv /\ OpensInv /\ ReaderInv /\ BufferInv /\ SoundInv
        /\ BufferInv' /\ SoundInv' /\ [Next]_vars => BytesNext
<1> SUFFICES ASSUME TypeOK, TypeOK', CallsInv, BeatsInv, OpensInv, ReaderInv, BufferInv,
                    SoundInv, BufferInv', SoundInv', [Next]_vars
             PROVE  BytesNext
    OBVIOUS
<1>1. ASSUME NEW s \in Side, SideMoves(s)
      PROVE  BytesNext
    BY <1>1, SideMovesBytes
<1>2. ASSUME NEW s \in Side, NEW i \in Id, EndMoves(s, i)
      PROVE  BytesNext
    BY <1>2, AnswerBytes, CancelBytes, ReadBytes, FinishBytes DEF EndMoves
<1> QED
    BY <1>1, <1>2, QuietStutters, Kinds DEF Moves

\* At the start nothing is written.
LEMMA InitBytes == Init => Abstract!Empty
<1> SUFFICES ASSUME Init PROVE Abstract!Empty
    OBVIOUS
<1> QED
    BY PeerIsSide DEF Init, PerEnd, Abstract!Empty, Told, HasStream

\* The invariants hold at the start.
LEMMA InitInv ==
    Init => ShutdownInv /\ BeatsInv /\ OpensInv /\ ReaderInv /\ BufferInv /\ WriterInv /\ SoundInv
<1> SUFFICES ASSUME Init
             PROVE  /\ ShutdownInv /\ BeatsInv /\ OpensInv
                    /\ ReaderInv /\ BufferInv /\ WriterInv /\ SoundInv
    OBVIOUS
<1>1. ShutdownInv
    BY MuxAssumption DEF Init, ShutdownInv, CallsInv, PanicNeedsClose, Opener, Side
<1>2. BeatsInv
    BY DEF Init, BeatsInv, NoFrame, Msg
<1>3. OpensInv
    BY DEF Init, OpensInv, FramesInv, Fits, OnceInv, QueueInv, AnswersInv, NoFrame, Msg
<1>4. ReaderInv
    BY DEF Init, PerEnd, ReaderInv, Delivers
<1>5. BufferInv /\ WriterInv
    BY DEF Init, PerEnd, BufferInv, WriterInv
<1>6. ASSUME NEW s \in Side, NEW i \in Id
      PROVE  Sound(View(s, i), IsWhole(s, i))
    <2> DEFINE v == View(s, i)
    <2>1. /\ hand[s] = NoFrame /\ wire[s] = <<>> /\ streams[s] = {} /\ loop[s] = "read"
          /\ got[s][i] = <<>> /\ inbuf[s][i] = <<>> /\ ~eof[s][i] /\ closed[s][i] = "no"
          /\ sent[Peer(s)][i] = 0 /\ fin[Peer(s)][i] = -1 /\ ~wclosed[Peer(s)][i]
          /\ writer[Peer(s)][i] = "idle"
        BY PeerIsSide DEF Init, PerEnd
    <2>2. NoFrame.type = "NONE" /\ Waits(<<>>) = 0 /\ Len(<<>>) = 0
        BY DEF NoFrame, Msg, Waits
    <2>3. \A k \in Nat : v.way[k].type = "NONE"
        BY <2>1, <2>2 DEF View, WayOf, Flowing, Spot
    <2>4. /\ v.came = 0 /\ ~v.ended /\ ~v.failed /\ ~v.ready /\ v.total = 0 /\ v.close = -1
          /\ ~v.halved /\ v.writing = "idle"
        BY <2>1, <2>2, Views DEF Ready
    <2> HIDE DEF v
    <2>5. WayOK(v) /\ LineOK(v) /\ WriterOK(v) /\ NextOK(v, IsWhole(s, i)) /\ WholeOK(v)
        BY <2>3, <2>4 DEF WayOK, LineOK, WriterOK, NextOK, WholeOK, IsData
    <2> QED
        BY <2>5 DEF v, Sound
<1> QED
    BY <1>1, <1>2, <1>3, <1>4, <1>5, <1>6 DEF SoundInv

\* The streams of a session are byte streams (StreamsAreBytes): with any number of
\* them and any buffers, through cancelled opens, full buffers, half-closes, CLOSEs and
\* shutdowns, an end reads what the other wrote, in order and with nothing missing, the
\* accepting end from the first byte, and is told of the end only when it has read all
\* that was written before the close (readLoop, deliver, Read, Write, CloseWrite, Close).
THEOREM SessionsAreBytes == Safety => StreamsAreBytes
<1>1. ShutdownInv => CallsInv
    BY DEF ShutdownInv
<1>2. BytesNext =>
          [\E d \in Side \X Id :
               Abstract!Writes(d) \/ Abstract!Closes(d) \/ Abstract!Reads(d)
                   \/ Abstract!IsTold(d)]_(Abstract!bytes)
    BY DEF BytesNext
<1> QED
    BY <1>1, <1>2, Typing, InitInv, InitBytes, NextTypeOK, NextShutdownInv, NextBeatsInv,
       NextOpensInv, NextReaderInv, NextBufferInv, NextWriterInv, NextSoundInv, NextBytes, PTL
       DEF Safety, StreamsAreBytes, Abstract!Flow
=============================================================================
