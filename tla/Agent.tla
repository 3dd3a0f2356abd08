-------------------------------- MODULE Agent --------------------------------
(***************************************************************************)
(* The parts of the agent around the session that module Mux models, in    *)
(* one specification for checking: one connection (Relay), the daemon, the *)
(* guest and the VM (Daemon), the wiring of presets (Presets).  Daemon has *)
(* of a relay what Relay shows of it, and Presets decides only what the    *)
(* daemon opens, so that each part is explored by itself: part tells which *)
(* one moves.                                                              *)
(***************************************************************************)
EXTENDS Relay, Daemon, Presets

VARIABLE part

agentVars == <<part, relayVars, daemonVars, presetVars>>

AgentInit ==
    /\ RelayInit /\ DaemonInit /\ PresetsInit
    /\ part \in {"relay", "daemon", "presets"}
    /\ part # "relay" => ~filter /\ ~halfCloses /\ ~lockStep /\ ~quits

AgentNext ==
    /\ UNCHANGED part
    /\ \/ part = "relay" /\ RelayNext /\ UNCHANGED <<daemonVars, presetVars>>
       \/ part = "daemon" /\ DaemonNext /\ UNCHANGED <<relayVars, presetVars>>
       \/ part = "presets" /\ PresetsNext /\ UNCHANGED <<relayVars, daemonVars>>

\* What is fair of a part is not enabled before the part has moved.
AgentSpec ==
    AgentInit /\ [][AgentNext]_agentVars /\ RelayFairness /\ DaemonFairness

\* Every variable of the three parts keeps its type.
AgentTypeOK == RelayTypeOK /\ DaemonTypeOK /\ PresetsTypeOK

\* Nobody waits for one who has left: neither the server for a client that has
\* gone (Pipe), nor the next VM for the connections of the last (Serve).
NothingWaitsForEver == LeftIsClosed /\ RebindsOnceClosed
=============================================================================
