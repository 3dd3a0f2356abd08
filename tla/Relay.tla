-------------------------------- MODULE Relay --------------------------------
(***************************************************************************)
(* internal/agent/relay with internal/agent/filter and target: one         *)
(* connection as the daemon serves it, between the program in the guest    *)
(* (the client) and the Windows program it asked for (the server).  Pipe   *)
(* runs one copyDir for each direction; the direction to the server may    *)
(* pass through the ssh-agent filter, which works on whole messages        *)
(* whatever the chunks they come in.                                       *)
(*                                                                         *)
(* A unit is a piece of what the client writes: a whole request, a whole   *)
(* SSH_AGENTC_EXTENSION request, the first part of a request of two units, *)
(* or bytes that cannot start a message.  Any unit may end such a request. *)
(***************************************************************************)
EXTENDS Integers, Sequences, SequencesExt

CONSTANTS
    MaxUnits,    \* bound: units the client writes
    Kinds        \* what the client writes, of UnitKind

UnitKind == {"request", "extension", "part", "noise"}

ASSUME RelayAssumption ==
    MaxUnits \in Nat /\ Kinds \subseteq UnitKind

Dir == {"up", "down"}    \* to the server, to the client

VARIABLES
    filter,     \* whether the ssh-agent filter is on, fixed
    halfCloses, \* whether the server's connection has a CloseWrite, fixed
    lockStep,   \* whether the client waits for each of its answers, fixed
    quits,      \* whether the server may stop by itself, fixed
    written,    \* what the client wrote
    unread,     \* unread[d]: written towards d, not read by copyDir
    ended,      \* ended[d]: whoever writes towards d has finished
    buf,        \* SSHAgent.buf
    hand,       \* hand[d]: read, and let through, and not yet written
    copying,    \* copying[d]: the copyDir of d has not returned
    arrived,    \* arrived[d]: what has been delivered in direction d
    eof,        \* eof[d]: the half-close was passed on in direction d
    client,     \* the client: open, half-closed, gone, or closed by Pipe
    server,     \* the server: open or gone
    answered,   \* how many units of what arrived the server has answered
    pipe        \* copying, closing, or closed: where Pipe is

fixedVars  == <<filter, halfCloses, lockStep, quits>>
clientVars == <<written, client>>
serverVars == <<server, answered>>
copyVars   == <<buf, hand, copying, arrived, eof, pipe>>
relayVars  ==
    <<fixedVars, clientVars, serverVars, copyVars, unread, ended>>

RelayInit ==
    /\ filter \in BOOLEAN /\ halfCloses \in BOOLEAN /\ lockStep \in BOOLEAN
    /\ quits \in BOOLEAN /\ written = <<>> /\ client = "open"
    /\ server = "open" /\ answered = 0
    /\ unread = [d \in Dir |-> <<>>] /\ ended = [d \in Dir |-> FALSE]
    /\ buf = <<>> /\ hand = [d \in Dir |-> <<>>]
    /\ copying = [d \in Dir |-> TRUE]
    /\ arrived = [d \in Dir |-> <<>>] /\ eof = [d \in Dir |-> FALSE]
    /\ pipe = "copying"

-----------------------------------------------------------------------------
(* Messages: what a stream that starts at a message boundary holds.          *)

\* The last unit of the message at i, which may not have been written yet.
EndOf(s, i) == IF s[i] = "part" THEN i + 1 ELSE i

\* Where the messages of a stream start: a unit starts one unless it is the
\* second of a request of two.
Starts(s) ==
    LET starts[i \in 0..Len(s)] == i > 0 /\ (i = 1 \/ EndOf(s, i - 1) < i \/ ~starts[i - 1])
    IN  {i \in 1..Len(s) : starts[i]}

\* Its whole messages, one after the other.
Messages(s) ==
    LET whole == SetToSortSeq({i \in Starts(s) : EndOf(s, i) <= Len(s)}, <)
    IN  [k \in DOMAIN whole |-> SubSeq(s, whole[k], EndOf(s, whole[k]))]

Foreign(s) == \E i \in Starts(s) : s[i] = "noise"

-----------------------------------------------------------------------------
(* SSHAgent.Forward: what it lets through, answers, and keeps of its buffer. *)

Verdict(out, replies, kept) == [out |-> out, replies |-> replies, kept |-> kept]

\* Mutant: a message that is not whole yet is let through.
ForwardEager(b) ==
    LET f[i \in 1..Len(b) + 1] ==
            IF i > Len(b) THEN Verdict(<<>>, 0, <<>>)
            ELSE IF b[i] = "noise" THEN Verdict(SubSeq(b, i, Len(b)), 0, <<>>)
            ELSE LET rest == f[i + 1]
                 IN  IF b[i] = "extension"
                     THEN [rest EXCEPT !.replies = @ + 1]
                     ELSE [rest EXCEPT !.out = <<b[i]>> \o @]
    IN  f[1]

\* Mutant: what does not fit into one chunk is refused.
ForwardShort(b) ==
    LET f[i \in 1..Len(b) + 1] ==
            IF i > Len(b) THEN Verdict(<<>>, 0, <<>>)
            ELSE IF b[i] = "noise" THEN Verdict(SubSeq(b, i, Len(b)), 0, <<>>)
            ELSE IF EndOf(b, i) > Len(b) THEN Verdict(<<>>, 1, <<>>)
            ELSE LET rest == f[EndOf(b, i) + 1]
                 IN  IF b[i] = "extension"
                     THEN [rest EXCEPT !.replies = @ + 1]
                     ELSE [rest EXCEPT !.out = SubSeq(b, i, EndOf(b, i)) \o @]
    IN  f[1]

Forward(b) ==
    LET f[i \in 1..Len(b) + 1] ==
            IF i > Len(b) THEN Verdict(<<>>, 0, <<>>)
            ELSE IF b[i] = "noise" THEN Verdict(SubSeq(b, i, Len(b)), 0, <<>>)
            ELSE IF EndOf(b, i) > Len(b)
                 THEN Verdict(<<>>, 0, SubSeq(b, i, Len(b)))
            ELSE LET rest == f[EndOf(b, i) + 1]
                 IN  IF b[i] = "extension"
                     THEN [rest EXCEPT !.replies = @ + 1]
                     ELSE [rest EXCEPT !.out = SubSeq(b, i, EndOf(b, i)) \o @]
    IN  f[1]

-----------------------------------------------------------------------------
(* The two programs. *)

Writes(d, u) == unread' = [unread EXCEPT ![d] = Append(@, u)]
Finish(d) == ended' = [ended EXCEPT ![d] = TRUE]

ClientWrite ==
    /\ client = "open" /\ Len(written) < MaxUnits
    /\ lockStep /\ written # <<>> =>
           \/ EndOf(written, Len(written)) > Len(written)
              /\ Len(written) \in Starts(written)
           \/ Len(arrived["down"]) = Len(Messages(written))
    /\ \E u \in Kinds : written' = Append(written, u) /\ Writes("up", u)
    /\ UNCHANGED <<fixedVars, client, serverVars, copyVars, ended>>

ClientHalfCloses ==
    /\ client = "open" /\ client' = "half" /\ Finish("up")
    /\ UNCHANGED <<fixedVars, written, serverVars, copyVars, unread>>

\* It leaves, if only because it has read the end.
ClientGoes ==
    /\ client \in {"open", "half"} /\ client' = "gone" /\ Finish("up")
    /\ UNCHANGED <<fixedVars, written, serverVars, copyVars, unread>>

\* The server answers a whole request, drops the connection on an extension
\* it does not know (filter.go:35), and leaves what is none unanswered.
ServerAnswers ==
    LET m == Messages(arrived["up"]) IN
    /\ server = "open" /\ answered < Len(m)
    /\ answered' = answered + 1
    /\ CASE m[answered + 1][1] = "extension" ->
               server' = "gone" /\ Finish("down") /\ UNCHANGED unread
         [] m[answered + 1][1] = "noise" -> UNCHANGED <<server, ended, unread>>
         [] OTHER -> Writes("down", "answer") /\ UNCHANGED <<server, ended>>
    /\ UNCHANGED <<fixedVars, clientVars, copyVars>>

ServerLeaves ==
    /\ server = "open"
    /\ \/ eof["up"] /\ answered = Len(Messages(arrived["up"]))
       \/ quits
    /\ server' = "gone" /\ Finish("down")
    /\ UNCHANGED <<fixedVars, clientVars, answered, copyVars, unread>>

-----------------------------------------------------------------------------
(* copyDir, and Pipe around the two of them. *)

Gone(d) == IF d = "up" THEN server = "gone" ELSE client = "gone"

\* A chunk is read and goes through the filter, which answers an extension at
\* once; when that fails, the direction ends with nothing passed on.
Read(d) ==
    /\ copying[d] /\ hand[d] = <<>> /\ unread[d] # <<>>
    /\ \E n \in 1..Len(unread[d]) :
           LET chunk == SubSeq(unread[d], 1, n) IN
           /\ unread' = [unread EXCEPT ![d] = SubSeq(@, n + 1, Len(@))]
           /\ IF d = "up" /\ filter
              THEN LET v == Forward(buf \o chunk)
                       fails == v.replies > 0 /\ client = "gone"
                   IN
                   /\ buf' = v.kept
                   /\ hand' = [hand EXCEPT ![d] = IF fails THEN @ ELSE v.out]
                   /\ copying' = [copying EXCEPT ![d] = ~fails]
                   /\ arrived' = IF fails THEN arrived
                                 ELSE [arrived EXCEPT !["down"] =
                                     @ \o [k \in 1..v.replies |-> "failure"]]
              ELSE /\ hand' = [hand EXCEPT ![d] = chunk]
                   /\ UNCHANGED <<buf, arrived, copying>>
    /\ UNCHANGED <<fixedVars, clientVars, serverVars, ended, eof, pipe>>

\* A write to an end that is gone ends the direction; nothing is half-closed.
Write(d) ==
    /\ copying[d] /\ hand[d] # <<>>
    /\ IF Gone(d)
       THEN copying' = [copying EXCEPT ![d] = FALSE] /\ UNCHANGED <<hand, arrived>>
       ELSE /\ arrived' = [arrived EXCEPT ![d] = @ \o hand[d]]
            /\ hand' = [hand EXCEPT ![d] = <<>>]
            /\ UNCHANGED copying
    /\ UNCHANGED <<fixedVars, clientVars, serverVars, unread, ended, buf, eof, pipe>>

\* Mutant: the end is not passed on.
EndsSilently(d) ==
    /\ copying[d] /\ hand[d] = <<>> /\ unread[d] = <<>> /\ ended[d]
    /\ copying' = [copying EXCEPT ![d] = FALSE]
    /\ UNCHANGED <<fixedVars, clientVars, serverVars, unread, ended, buf, hand,
                   arrived, eof, pipe>>

\* The end of what there is to read is passed on as a half-close, which a
\* named pipe does not have (target.go:12).
Ends(d) ==
    /\ copying[d] /\ hand[d] = <<>> /\ unread[d] = <<>> /\ ended[d]
    /\ copying' = [copying EXCEPT ![d] = FALSE]
    /\ eof' = [eof EXCEPT ![d] = d = "down" \/ halfCloses]
    /\ UNCHANGED <<fixedVars, clientVars, serverVars, unread, ended, buf, hand,
                   arrived, pipe>>

\* Mutant: Pipe closes the two ends when the first direction is done.
PipeClosesEarly ==
    /\ pipe = "copying" /\ \E d \in Dir : ~copying[d]
    /\ pipe' = "closed"
    /\ client' = IF client = "gone" THEN client ELSE "closed"
    /\ server' = "gone"
    /\ ended' = [d \in Dir |-> TRUE]
    /\ copying' = [d \in Dir |-> FALSE]
    /\ UNCHANGED <<fixedVars, written, answered, unread, buf, hand, arrived, eof>>

\* Pipe waits for both, then closes the two ends.
PipeCloses ==
    /\ pipe = "copying" /\ \A d \in Dir : ~copying[d]
    /\ pipe' = "closed"
    /\ client' = IF client = "gone" THEN client ELSE "closed"
    /\ server' = "gone"
    /\ ended' = [d \in Dir |-> TRUE]
    /\ UNCHANGED <<fixedVars, written, answered, unread, buf, hand, copying,
                   arrived, eof>>

-----------------------------------------------------------------------------

RelayNext ==
    \/ ClientWrite \/ ClientHalfCloses \/ ClientGoes
    \/ ServerAnswers \/ ServerLeaves \/ PipeCloses
    \/ \E d \in Dir : Read(d) \/ Write(d) \/ Ends(d)

\* The goroutines run; a server that was told the end answers what it has
\* got and leaves.
RelayFairness ==
    /\ \A d \in Dir : WF_relayVars(Read(d) \/ Write(d) \/ Ends(d))
    /\ WF_relayVars(PipeCloses)
    /\ WF_relayVars(ServerAnswers) /\ WF_relayVars(eof["up"] /\ ServerLeaves)

-----------------------------------------------------------------------------
(* Properties. *)

RelayTypeOK ==
    /\ filter \in BOOLEAN /\ halfCloses \in BOOLEAN /\ lockStep \in BOOLEAN
    /\ quits \in BOOLEAN /\ written \in Seq(Kinds) /\ client \in {"open", "half", "gone", "closed"}
    /\ server \in {"open", "gone"} /\ answered \in 0..MaxUnits
    /\ unread \in [Dir -> Seq(Kinds \cup {"answer"})]
    /\ ended \in [Dir -> BOOLEAN] /\ buf \in Seq(Kinds)
    /\ hand \in [Dir -> Seq(Kinds \cup {"answer"})]
    /\ copying \in [Dir -> BOOLEAN]
    /\ arrived \in [Dir -> Seq(Kinds \cup {"answer", "failure"})]
    /\ eof \in [Dir -> BOOLEAN] /\ pipe \in {"copying", "closed"}

Taken == SubSeq(written, 1, Len(written) - Len(unread["up"]))
Extension(m) == m[1] = "extension"

\* However the client's bytes are cut into chunks, the server is given exactly
\* the whole messages read so far that are no extension requests, in order,
\* and nothing of one that is not complete; where the filter is off it is
\* given what was read ("Messages are re-framed across chunk boundaries",
\* filter.go:38; SSHAgent.Forward, copyDir).
FilterIsExact ==
    copying["up"] /\ ~Foreign(written) =>
        arrived["up"] \o hand["up"] =
            IF filter
            THEN FlattenSeq(SelectSeq(Messages(Taken), LAMBDA m : ~Extension(m)))
            ELSE Taken

\* Each answer a client gets is the one to its own request: the k-th is a
\* failure exactly when the k-th request is an extension.  It holds because an
\* ssh client waits for each answer; the filter would overtake the server's
\* answer to an earlier request (SSHAgent.Forward, replyTo).  A client that
\* half-closes and stays gets every answer: neither direction ends the other,
\* and the connection is closed only after the last one (copyDir, Pipe).
AnswersMatch ==
    filter /\ ~Foreign(written) =>
        /\ lockStep => \A k \in DOMAIN arrived["down"] :
            /\ k <= Len(Messages(written))
            /\ (arrived["down"][k] = "failure") = Extension(Messages(written)[k])
        /\ client = "closed" /\ ~quits =>
            Len(arrived["down"]) = Len(Messages(written))

\* What SSHAgent.Forward and copyDir take up is exact, and what comes down
\* matches it.
ForwardIsFaithful == FilterIsExact /\ AnswersMatch

\* A client that leaves is not served for ever, where the server can be told:
\* both ends are closed in the end (copyDir's CloseWrite, Pipe).  When the
\* reply to an extension cannot be written, the server is not told: the
\* direction ends with the error (relay.go:34).
LeftIsClosed ==
    client = "gone" /\ halfCloses /\ ~(filter /\ "extension" \in ToSet(written))
        ~> pipe = "closed"
=============================================================================
