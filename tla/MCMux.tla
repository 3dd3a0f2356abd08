-------------------------------- MODULE MCMux --------------------------------
(***************************************************************************)
(* Mux with what is done in a session narrowed in one of two ways, of which *)
(* one is chosen at first, since what both cover together costs more than   *)
(* the two of them.                                                         *)
(***************************************************************************)
EXTENDS Mux

VARIABLE focus   \* which of the two

Sent(types) == \E s \in Side : \E k \in DOMAIN wire'[s] : wire'[s][k].type \in types

\* Two streams opened at a time and heartbeats; nobody stops, and both peers are
\* wslkit's.
Crowded == UNCHANGED shut /\ (\A s \in Side : acc'[s] # "ended") /\ ~Sent(Foreign)

\* One stream, while either side stops, or gets a frame of a foreign peer.
Closing ==
    /\ nextID' \in {nextID, [guest |-> 3, host |-> 2]} /\ ~Sent({"PING"})
    /\ \A s \in Side : extras'[s] <= 1

FocusedInit == Init /\ focus \in {"crowded", "closing"}

FocusedNext ==
    /\ UNCHANGED focus /\ Next
    /\ IF focus = "crowded" THEN Crowded ELSE Closing

FocusedSafety == FocusedInit /\ [][FocusedNext]_<<focus, vars>>
=============================================================================
