----------------------------- MODULE ProxyServe -----------------------------
(***************************************************************************)
(* internal/proxy: the forward proxy of `wslkit proxy serve`.  For every   *)
(* request it asks Windows, or its cache of the answers, which way to go,  *)
(* dials the proxies it is told in their order, and tunnels.  The machine  *)
(* moves to another network meanwhile.  Windows is asked only where a      *)
(* script, or the search for one, is configured; a proxy that is named, or *)
(* none, is the one there was when serve was started, for ever.            *)
(***************************************************************************)
EXTENDS Integers, Sequences, SequencesExt

CONSTANTS
    Client,
    Plain,         \* those of them that use plain HTTP, without a tunnel
    Routes,        \* for each network, the proxies to go by; none to go direct
    TTL,
    MaxTime,       \* bound: of the clock
    MaxBytes       \* bound: what either end of a tunnel sends

\* The proxies that Windows may name.
Upstreams == UNION {Range(Routes[n]) : n \in DOMAIN Routes}

ASSUME ServeAssumption ==
    Routes \in Seq(Seq(Upstreams)) /\ Routes # << >> /\ TTL \in Nat

VARIABLES
    clock,
    config,        \* what is configured: a script, or fixed settings
    network,       \* the network the machine is on
    entry,         \* the cache, for one host
    request,       \* the request of each client
    movedAt, lateAt   \* history: when the machine moved, and when the answer to
                      \* a question of before was stored

serveVars == <<clock, config, network, entry, request, movedAt, lateAt>>

NoEntry == [at |-> 0, way |-> << >>, of |-> 0]

\* What a proxy says of a CONNECT: a status and then a blank line.  What the
\* tunnel carries comes right behind it.
Blank  == 0
Header == <<-1, Blank>>

\* step: idle, asks, dials, awaits the answer to its CONNECT, forwards (a plain
\* request), hijacks, drains, tunnels; refused when it was turned away, ended
\* when it was not.  of: the network it asked on.  way: the answer.  left: the
\* proxies that are not tried yet.  For each end of the tunnel: what it has sent,
\* how much of that was read, what has reached the other one, whether it has
\* closed its side, or its connection broke, and whether the other one was told.
End0 == [sent |-> << >>, read |-> 0, came |-> << >>, closed |-> FALSE,
         broken |-> FALSE, told |-> FALSE]
Idle == [step |-> "idle", plain |-> FALSE, of |-> 0, way |-> << >>, left |-> << >>,
         tried |-> 0, open |-> FALSE, client |-> End0, far |-> End0]

ServeInit ==
    /\ config \in {"script", "settings"}
    /\ clock = 0 /\ network = 1 /\ entry = NoEntry
    /\ request = [c \in Client |-> Idle] /\ movedAt = 0 /\ lateAt = 0

\* Never more than the bound: the clock stands for the time between two events.
TimePasses ==
    /\ clock < MaxTime /\ clock' = clock + 1
    /\ UNCHANGED <<config, network, entry, request, movedAt, lateAt>>

Moves ==
    /\ network < Len(Routes) /\ network' = network + 1 /\ movedAt' = clock
    /\ UNCHANGED <<clock, config, entry, request, lateAt>>

Becomes(c, r) == request' = [request EXCEPT ![c] = r]
Same == UNCHANGED <<clock, config, network, movedAt>>

\* Nothing stays open behind a request that is turned away or has ended.
TurnedAway(r) == [r EXCEPT !.step = "refused", !.open = FALSE]
Ended(r)   == [r EXCEPT !.step = "ended", !.open = FALSE]

-----------------------------------------------------------------------------
(* Upstream.                                                                 *)

\* Mutant: an answer does not grow old.
ValidForever(e) == e.of # 0

Valid(e) == e.of # 0 /\ clock - e.at < TTL

\* What Windows answers on network n, or what was configured at the start.
WayOf(n) ==
    IF config = "script" THEN Routes[n]
    ELSE IF Routes[1] = << >> THEN << >> ELSE <<Head(Routes[1])>>

GoesBy(r, way) == [r EXCEPT !.step = "dials", !.left = way, !.way = way]

\* ServeHTTP: what is in the cache is taken from there.  A question is asked
\* without the lock, and as of now.
Arrives(c) ==
    LET r == [Idle EXCEPT !.plain = c \in Plain] IN
    /\ request[c].step = "idle"
    /\ Becomes(c, IF Valid(entry) THEN GoesBy(r, entry.way)
                  ELSE [r EXCEPT !.step = "asks", !.of = network])
    /\ Same /\ UNCHANGED <<entry, lateAt>>

\* The answer, which the last one to come replaces, or none.
Answered(c) ==
    LET r == request[c] IN
    /\ r.step = "asks"
    /\ \/ /\ entry' = [at |-> clock, way |-> WayOf(r.of), of |-> r.of]
          /\ Becomes(c, GoesBy(r, WayOf(r.of)))
          /\ lateAt' = IF r.of = network THEN lateAt ELSE clock
       \/ Becomes(c, TurnedAway(r)) /\ UNCHANGED <<entry, lateAt>>
    /\ Same

-----------------------------------------------------------------------------
(* dialFor and negotiateConnect.  Every proxy is tried in turn.              *)

Direct(r) == r.way = << >>

Tries(c) ==
    LET r == request[c] more == r.left # << >>
        tries == [r EXCEPT !.tried = @ + 1, !.left = IF more THEN Tail(@) ELSE @]
    IN
    /\ r.step = "dials"
    /\ \/ /\ Direct(r) \/ more
          /\ Becomes(c, [tries EXCEPT !.open = TRUE,
                            !.step = IF r.plain THEN "forwards"
                                     ELSE IF Direct(r) THEN "hijacks" ELSE "awaits"])
       \/ /\ Direct(r) /\ Becomes(c, TurnedAway(tries))
       \/ /\ more
          /\ Becomes(c, IF r.plain \/ Tail(r.left) = << >> THEN TurnedAway(tries) ELSE tries)
    /\ Same /\ UNCHANGED <<entry, lateAt>>

\* The proxy answers, one byte being read at a time, and the far end behind it.
FarSends(c) ==
    LET r == request[c] far == r.far IN
    /\ r.step \in {"awaits", "hijacks", "drains", "tunnels"} /\ ~far.closed /\ r.open
    /\ Becomes(c,
         IF r.step = "awaits" /\ Len(far.sent) < Len(Header)
         THEN [r EXCEPT !.far.sent = Append(@, Header[Len(@) + 1])]
         ELSE [r EXCEPT !.far.sent =
                   Append(@, Len(@) + 1 - (IF Direct(r) THEN 0 ELSE Len(Header)))])
    /\ Direct(r) => Len(far.sent) < MaxBytes
    /\ ~Direct(r) => Len(far.sent) < Len(Header) + MaxBytes
    /\ Same /\ UNCHANGED <<entry, lateAt>>

\* Mutant: the answer is read with a buffer.
ReadsAll(far) == [far EXCEPT !.read = Len(far.sent)]

ReadsOne(far) == [far EXCEPT !.read = @ + 1]

\* readStatusLine: 200, or the next proxy, after a refusal as after a failure or
\* at the deadline.
Negotiates(c) ==
    LET r == request[c] far == r.far IN
    /\ r.step = "awaits"
    /\ \/ /\ far.read < Len(far.sent)
          /\ Becomes(c, [r EXCEPT !.far = ReadsOne(far),
                !.step = IF far.sent[far.read + 1] = Blank THEN "hijacks" ELSE @])
       \/ Becomes(c, IF r.left = << >> THEN TurnedAway(r)
                     ELSE [r EXCEPT !.step = "dials", !.open = FALSE, !.far = End0])
    /\ Same /\ UNCHANGED <<entry, lateAt>>

\* handleHTTP: by the first proxy only.
Forwards(c) ==
    /\ request[c].step = "forwards"
    /\ Becomes(c, Ended(request[c])) /\ Same /\ UNCHANGED <<entry, lateAt>>

-----------------------------------------------------------------------------
(* handleConnect and tunnel.                                                 *)

ClientSends(c) ==
    LET r == request[c] IN
    /\ r.step \in {"asks", "dials", "awaits", "hijacks", "drains", "tunnels"}
    /\ ~r.plain /\ ~r.client.closed /\ Len(r.client.sent) < MaxBytes
    /\ Becomes(c, [r EXCEPT !.client.sent = Append(@, Len(@) + 1)])
    /\ Same /\ UNCHANGED <<entry, lateAt>>

\* Either end closes its side, or its connection breaks.
Shuts(e)  == [e EXCEPT !.closed = TRUE]
Breaks(e) == [e EXCEPT !.closed = TRUE, !.broken = TRUE]

Closes(c) ==
    LET r == request[c] IN
    /\ r.step \in {"hijacks", "drains", "tunnels"}
    /\ \/ ~r.client.closed /\ Becomes(c, [r EXCEPT !.client = Shuts(@)])
       \/ ~r.client.broken /\ Becomes(c, [r EXCEPT !.client = Breaks(@)])
       \/ ~r.far.closed /\ Becomes(c, [r EXCEPT !.far = Shuts(@)])
       \/ ~r.far.broken /\ Becomes(c, [r EXCEPT !.far = Breaks(@)])
    /\ Same /\ UNCHANGED <<entry, lateAt>>

\* Hijack: what the client has sent so far is in the buffer, all or in part.
\* The client is told that the tunnel is there, if it can be.
Hijacks(c) ==
    LET r == request[c] IN
    /\ r.step = "hijacks"
    /\ \/ \E n \in r.client.read..Len(r.client.sent) :
            Becomes(c, [r EXCEPT !.step = "drains", !.client.read = n])
       \/ r.client.broken /\ Becomes(c, Ended(r))
    /\ Same /\ UNCHANGED <<entry, lateAt>>

\* The buffer is written before anything else of the client, if it can be.
Drains(c) ==
    LET r == request[c] IN
    /\ r.step = "drains"
    /\ \/ Becomes(c, [r EXCEPT !.step = "tunnels",
                         !.client.came = SubSeq(r.client.sent, 1, r.client.read)])
       \/ r.far.broken /\ r.client.read > 0 /\ Becomes(c, Ended(r))
    /\ Same /\ UNCHANGED <<entry, lateAt>>

\* One direction, from e to o: a byte is copied, or the end of it is passed on,
\* be it that e has closed, or that a read or a write failed.  The two
\* connections are closed when both directions are over.
Carries(e, o) == e.read < Len(e.sent) /\ ~e.told /\ ~o.broken
Carried(e) == [e EXCEPT !.read = @ + 1, !.came = Append(@, e.sent[e.read + 1])]
Tells(e, o) ==
    /\ ~e.told
    /\ \/ e.closed /\ e.read = Len(e.sent)
       \/ e.broken
       \/ o.broken /\ e.read < Len(e.sent)

Copies(c) ==
    LET r == request[c]
        onward(n) == IF n.client.told /\ n.far.told THEN Ended(n) ELSE n
    IN
    /\ r.step = "tunnels"
    /\ \/ Carries(r.client, r.far) /\ Becomes(c, [r EXCEPT !.client = Carried(@)])
       \/ Carries(r.far, r.client) /\ Becomes(c, [r EXCEPT !.far = Carried(@)])
       \/ Tells(r.client, r.far) /\ Becomes(c, onward([r EXCEPT !.client.told = TRUE]))
       \/ Tells(r.far, r.client) /\ Becomes(c, onward([r EXCEPT !.far.told = TRUE]))
    /\ Same /\ UNCHANGED <<entry, lateAt>>

ServeNext ==
    \/ TimePasses \/ Moves
    \/ \E c \in Client :
        \/ Arrives(c) \/ Answered(c) \/ Tries(c) \/ Negotiates(c) \/ Forwards(c)
        \/ FarSends(c) \/ ClientSends(c) \/ Closes(c)
        \/ Hijacks(c) \/ Drains(c) \/ Copies(c)

-----------------------------------------------------------------------------
(* Properties. *)

ServeTypeOK ==
    /\ config \in {"script", "settings"}
    /\ clock \in 0..MaxTime /\ network \in DOMAIN Routes /\ entry.of \in 0..network
    /\ \A c \in Client : request[c].open =>
            request[c].step \in {"awaits", "forwards", "hijacks", "drains", "tunnels"}

\* What the far end sends: all that comes, or what is behind the header of a
\* proxy.
Payload(r) ==
    LET n == IF Direct(r) THEN 0 ELSE Len(Header)
    IN  SubSeq(r.far.sent, n + 1, Len(r.far.sent))

\* Neither connection of the tunnel broke.
Unbroken(r) == ~r.client.broken /\ ~r.far.broken

Complete(r) ==
    /\ r.step = "refused" /\ ~r.plain /\ r.tried > 0 /\ ~Direct(r) => r.tried = Len(r.way)
    /\ IsPrefix(r.client.came, r.client.sent) /\ IsPrefix(r.far.came, Payload(r))
    /\ Unbroken(r) /\ r.client.told => r.client.came = r.client.sent
    /\ Unbroken(r) /\ r.far.told => r.far.came = Payload(r)

\* Where there is a script: once the machine has moved, and the answers to
\* questions asked before are in, a request goes the new way after one TTL
\* (resolver_windows.go:46-47, "moving from the office to a coffee shop takes
\* effect inside a minute").  Where there is none it never does, as the settings
\* are those of the start.  A tunnel is refused after all the proxies were tried
\* ("giving up on the first is how a machine loses its network").  And a tunnel
\* carries what either end sent in its order, without a hole, although what follows
\* a header or a request may come with it; all of it before the close is passed
\* on, unless one of the two connections broke: the other end is told of that as
\* of a close (Upstream, dialFor, negotiateConnect, handleConnect, tunnel).
TunnelsAreFaithful ==
    /\ [][\A c \in Client :
            /\ config = "script" /\ request[c].step = "idle" /\ request'[c].step = "dials"
            /\ request'[c].way # Routes[network]
            => clock - movedAt < TTL \/ clock - lateAt < TTL]_serveVars
    /\ [](\A c \in Client : Complete(request[c]))
=============================================================================
