------------------------------- MODULE Streams -------------------------------
(***************************************************************************)
(* A session implements the byte streams it multiplexes: the directions of *)
(* the streams of Mux, with the goroutines, buffers and frames in between, *)
(* are those of Bytes.                                                     *)
(***************************************************************************)
EXTENDS Mux

\* Read reports the end after a half-close, or once the stream has failed with
\* io.EOF and the buffer is drained.
Told(s, i) ==
    \/ eof[s][i]
    \/ HasStream(s, i) /\ closed[s][i] = "eof" /\ inbuf[s][i] = << >>

\* A direction is the end that reads and the id of the stream.
Abstract == INSTANCE Bytes WITH
    Dir     <- Side \X Id,
    Whole   <- {d \in Side \X Id : d[1] = Acceptor(d[2])},
    written <- [d \in Side \X Id |-> sent[Peer(d[1])][d[2]]],
    last    <- [d \in Side \X Id |-> fin[Peer(d[1])][d[2]]],
    read    <- [d \in Side \X Id |-> got[d[1]][d[2]]],
    over    <- {d \in Side \X Id : Told(d[1], d[2])}

\* "Stream is one multiplexed byte stream" (mux.go:374): what an end reads is
\* what the other wrote, in order and with nothing missing, through full
\* buffers, cancelled opens and closes, and an end of file comes only when all
\* that was written before it has been read.  The accepting end, whose stream
\* is registered before OPEN_OK goes out, reads from the first byte; the
\* opening end from the first it got at all (readLoop, deliver, Read).
StreamsAreBytes == Abstract!Flow
=============================================================================
