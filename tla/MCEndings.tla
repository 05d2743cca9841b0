------------------------------ MODULE MCEndings ------------------------------
(****************************************************************************)
(* What begins at the proxy ends, on small instances: connections that were *)
(* upgraded, tunnels, exchanges that are held.  As in MCServices a behaviour*)
(* is one of one of them, and the fairness is that of the one that runs.    *)
(****************************************************************************)
EXTENDS WebSocketLog

CONSTANTS t1, p, q, x1, u1, None

VARIABLES
    focus,                                               \* what runs
    tun, wire, copies, logged, kept, project,
    running, active, notice, verdict, pc, side, snap, override, held, claimed,
    done, drained, op, release, astray

tunnels == <<tun, wire, copies, logged, kept, project>>
holding == <<running, active, notice, verdict, pc, side, snap, override, held,
             claimed, done, drained, op, release, astray>>

endingsVars == <<focus, vars, tunnels, holding>>

-----------------------------------------------------------------------------
INSTANCE Tunnels WITH
    Tunnels <- {t1}, LogProjects <- {p, q}, MaxPieces <- 3, pump <- copies

Intercept == INSTANCE Intercept WITH
    Ids <- {p}, Snapshots <- {[id |-> p, on |-> {"request", "response"}]},
    Exchanges <- {x1}, Users <- {u1}, queue <- held

ASSUME WebSocketLogAssumption
ASSUME TunnelsAssumption

-----------------------------------------------------------------------------
EndingsInit ==
    /\ focus \in {"relay", "tunnels", "intercept"}
    /\ Init
    /\ TunnelsInit /\ (focus # "tunnels" => project = p)
    /\ Intercept!Init

Idle(f) ==
    /\ UNCHANGED focus
    /\ IF f = "relay" THEN TRUE ELSE UNCHANGED vars
    /\ IF f = "tunnels" THEN TRUE ELSE UNCHANGED tunnels
    /\ IF f = "intercept" THEN TRUE ELSE UNCHANGED holding

Runs(f) == focus = f /\ Idle(f)

EndingsNext ==
    \/ Runs("relay") /\ Next
    \/ Runs("tunnels") /\ TunnelsNext
    \/ Runs("intercept") /\ Intercept!Next

\* The fairness of WebSocketLog, Tunnels and Intercept.
EndingsFairness ==
    /\ WF_vars(focus = "relay" /\ Drains)
    /\ WF_vars(focus = "relay" /\ Ends)
    /\ \A d \in Dirs : WF_vars(focus = "relay" /\ PumpGoesOn(d))
    /\ WF_tunnels(focus = "tunnels" /\ TunnelStep(t1))
    /\ WF_tunnels(focus = "tunnels" /\ wire[t1].gone # {} /\ ServerCloses(t1))
    /\ WF_holding(focus = "intercept" /\ Intercept!HookGoesOn(x1))
    /\ WF_holding(focus = "intercept" /\ Intercept!OpGoesOn(u1))
    /\ WF_holding(focus = "intercept" /\ Intercept!WatcherStep)

EndingsSpec == EndingsInit /\ [][EndingsNext]_endingsVars /\ EndingsFairness

-----------------------------------------------------------------------------
(* NothingLeftOpen is that of Tunnels.                                      *)

\* Once a side has hung up, an upgraded connection ends, and so does a tunnel; a
\* console operation on a held exchange ends, whoever takes the answer, and so
\* does the announcement of a change of the project (internal/proxy/upgrade.go,
\* wsrelay.go, tunnel.go, internal/domain/intercept).
WhatBeginsEnds ==
    /\ ConnectionsEnd /\ TunnelsEnd
    /\ Intercept!OperationsEnd /\ Intercept!WatchersReturn
=============================================================================
