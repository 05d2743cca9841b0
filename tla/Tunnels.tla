------------------------------- MODULE Tunnels -------------------------------
(***************************************************************************)
(* What a CONNECT becomes (internal/proxy/connect.go, tunnel.go) and what  *)
(* the log writes of it (internal/domain/reqlog/tunnel.go).  A host the    *)
(* project does not want decrypted is relayed, two pumps to a tunnel; for  *)
(* every other host the proxy serves the connection itself, through a      *)
(* listener that hands out one connection.                                 *)
(***************************************************************************)
EXTENDS Integers, FiniteSets

CONSTANTS
    Tunnels,
    LogProjects,
    MaxPieces,  \* pieces a peer sends
    None

TunnelsAssumption == MaxPieces \in Nat /\ None \notin LogProjects

VARIABLES
    tun,     \* where the goroutine of each CONNECT stands
    wire,    \* the two connections of each
    pump,    \* relayTunnel's two copies
    logged,  \* Service.tunnels: the project an opened tunnel was written to
    kept,    \* entries: <<project, tunnel>> -> None, Pending or the figures
    project  \* the open project

tunnelsVars == <<tun, wire, pump, logged, kept, project>>

Sides == {"client", "target"}

Across(side) == IF side = "client" THEN "target" ELSE "client"

\* sent: pieces each side has sent; lost: of those, the ones that were read with
\* an answer of the upstream proxy; gone: the sides that have hung up; open: the
\* sides whose connection is open here.
Quiet == [sent |-> [s \in Sides |-> 0], lost |-> 0, gone |-> {}, open |-> {}]

Pending == [s \in Sides |-> None]

Copying == [at |-> "copy", passed |-> 0]

TunnelsInit ==
    /\ tun = [t \in Tunnels |-> "idle"]
    /\ wire = [t \in Tunnels |-> Quiet]
    /\ pump = [t \in Tunnels |-> [s \in Sides |-> Copying]]
    /\ logged = [t \in Tunnels |-> None]
    /\ kept = [k \in LogProjects \X Tunnels |-> None]
    /\ project \in LogProjects

At(t, from, to) == tun[t] = from /\ tun' = [tun EXCEPT ![t] = to]

Opened(t, side) == wire' = [wire EXCEPT ![t].open = @ \cup {side}]

Hung(t) == wire' = [wire EXCEPT ![t].open = {}]

-----------------------------------------------------------------------------
(* The peers.  The client may send before it is answered.                  *)

PeerSends(t, side) ==
    /\ side \in wire[t].open \ wire[t].gone
    /\ wire[t].sent[side] < MaxPieces
    /\ wire' = [wire EXCEPT ![t].sent[side] = @ + 1]
    /\ UNCHANGED <<tun, pump, logged, kept, project>>

PeerHangsUp(t, side) ==
    /\ side \in wire[t].open \ wire[t].gone
    /\ wire' = [wire EXCEPT ![t].gone = @ \cup {side}]
    /\ UNCHANGED <<tun, pump, logged, kept, project>>

OpenOther(p) ==
    /\ p # project
    /\ project' = p
    /\ UNCHANGED <<tun, wire, pump, logged, kept>>

DeleteTunnel(k) ==
    /\ kept[k] # None
    /\ kept' = [kept EXCEPT ![k] = None]
    /\ UNCHANGED <<tun, wire, pump, logged, project>>

-----------------------------------------------------------------------------
(* Relayed: the target is reached first, and only then is the connection   *)
(* taken from the server and the client answered.                          *)

Connect(t) ==
    /\ \/ At(t, "idle", "dial")
       \/ At(t, "idle", "greetServed")
    /\ Opened(t, "client")
    /\ UNCHANGED <<pump, logged, kept, project>>

\* Directly, or the upstream proxy, which is asked for the target then.
Dial(t) ==
    /\ \/ At(t, "dial", "greet")
       \/ At(t, "dial", "ask")
    /\ Opened(t, "target")
    /\ UNCHANGED <<pump, logged, kept, project>>

\* connectThrough reads the answer with a buffer of its own, and what the
\* target has sent by then may be in it.
ConnectThrough(t) ==
    /\ At(t, "ask", "greet")
    /\ \E n \in 0 .. wire[t].sent["target"] : wire' = [wire EXCEPT ![t].lost = n]
    /\ UNCHANGED <<pump, logged, kept, project>>

\* A 502: the address cannot be reached, or the proxy refuses.  The client's
\* connection is the server's again.
DialFails(t) ==
    /\ \/ At(t, "dial", "over")
       \/ At(t, "ask", "over")
    /\ Hung(t)
    /\ UNCHANGED <<pump, logged, kept, project>>

Greet(t) ==
    /\ At(t, "greet", "stand")
    /\ UNCHANGED <<wire, pump, logged, kept, project>>

GreetFails(t) ==
    /\ At(t, "greet", "over")
    /\ Hung(t)
    /\ UNCHANGED <<pump, logged, kept, project>>

\* TunnelOpened: no project wants it or the write fails, or the entry is
\* written and the project remembered for the end.
TunnelOpened(t) ==
    /\ At(t, "stand", "relay")
    /\ \/ UNCHANGED <<logged, kept>>
       \/ /\ kept' = [kept EXCEPT ![<<project, t>>] = Pending]
          /\ logged' = [logged EXCEPT ![t] = project]
    /\ UNCHANGED <<wire, pump, project>>

\* What a pump can read next is behind what it has passed and what was lost.
Unread(t, from) ==
    wire[t].sent[from] - pump[t][from].passed
        - IF from = "target" THEN wire[t].lost ELSE 0

Copy(t, from) ==
    /\ tun[t] = "relay" /\ pump[t][from].at = "copy"
    /\ wire[t].open = Sides /\ Unread(t, from) > 0
    /\ Across(from) \notin wire[t].gone
    /\ pump' = [pump EXCEPT ![t][from].passed = @ + 1]
    /\ UNCHANGED <<tun, wire, logged, kept, project>>

\* A read that ends, a write that fails, or either on a connection that the
\* other direction has closed.
CanEnd(t, from) ==
    /\ tun[t] = "relay" /\ pump[t][from].at = "copy"
    /\ \/ wire[t].open = {}
       \/ from \in wire[t].gone /\ Unread(t, from) = 0
       \/ Across(from) \in wire[t].gone /\ Unread(t, from) > 0

\* Broken: a direction that ends closes the connection it was reading only.
CopyEndsOneSided(t, from) ==
    /\ CanEnd(t, from)
    /\ pump' = [pump EXCEPT ![t][from].at = "done"]
    /\ wire' = [wire EXCEPT ![t].open = @ \ {from}]
    /\ UNCHANGED <<tun, logged, kept, project>>

CopyEndsTunnel(t, from) ==
    /\ CanEnd(t, from)
    /\ pump' = [pump EXCEPT ![t][from].at = "done"]
    /\ Hung(t)
    /\ UNCHANGED <<tun, logged, kept, project>>

RelayEnds(t) ==
    /\ At(t, "relay", "relayed")
    /\ \A s \in Sides : pump[t][s].at = "done"
    /\ UNCHANGED <<wire, pump, logged, kept, project>>

Figures(t) == [s \in Sides |-> pump[t][s].passed]

\* Broken: the entry is looked for where traffic is logged now.
TunnelClosedHere(t) ==
    /\ At(t, "relayed", "over")
    /\ logged' = [logged EXCEPT ![t] = None]
    /\ kept' = IF logged[t] = None \/ kept[<<project, t>>] = None THEN kept
               ELSE [kept EXCEPT ![<<project, t>>] = Figures(t)]
    /\ UNCHANGED <<wire, pump, project>>

\* An entry that is not there any more is left alone.
TunnelClosed(t) ==
    /\ At(t, "relayed", "over")
    /\ logged' = [logged EXCEPT ![t] = None]
    /\ kept' = IF logged[t] = None \/ kept[<<logged[t], t>>] = None THEN kept
               ELSE [kept EXCEPT ![<<logged[t], t>>] = Figures(t)]
    /\ UNCHANGED <<wire, pump, project>>

-----------------------------------------------------------------------------
(* Served: the answer, a look at the first byte, the handshake, and then   *)
(* http.Server on a oneShotListener.  The second Accept waits until the    *)
(* connection is closed, by the server or by a handler that has taken it.  *)

GreetServed(t) ==
    /\ At(t, "greetServed", "peek")
    /\ UNCHANGED <<wire, pump, logged, kept, project>>

Peek(t) ==
    /\ wire[t].sent["client"] > 0
    /\ At(t, "peek", "served")
    /\ UNCHANGED <<wire, pump, logged, kept, project>>

\* The answer cannot be written, the client says nothing, or the handshake
\* fails: the deferred Close.
ServeFails(t) ==
    /\ \/ At(t, "greetServed", "over")
       \/ wire[t].gone # {} /\ At(t, "peek", "over")
       \/ wire[t].sent["client"] > 0 /\ At(t, "peek", "over")
    /\ Hung(t)
    /\ UNCHANGED <<pump, logged, kept, project>>

\* handleUpgrade hijacks the connection of a WebSocket.
Upgrade(t) ==
    /\ wire[t].open # {} /\ At(t, "served", "upgraded")
    /\ UNCHANGED <<wire, pump, logged, kept, project>>

\* The server closes what its client has left, or what stays idle; a relay that
\* ends closes what was hijacked.
ServerCloses(t) ==
    /\ tun[t] \in {"served", "upgraded"} /\ wire[t].open # {}
    /\ Hung(t)
    /\ UNCHANGED <<tun, pump, logged, kept, project>>

\* Broken: a connection that was hijacked says nothing when it is closed.
AcceptReturnsServed(t) ==
    /\ wire[t].open = {} /\ At(t, "served", "over")
    /\ UNCHANGED <<wire, pump, logged, kept, project>>

AcceptReturns(t) ==
    /\ wire[t].open = {}
    /\ \/ At(t, "served", "over")
       \/ At(t, "upgraded", "over")
    /\ UNCHANGED <<wire, pump, logged, kept, project>>

-----------------------------------------------------------------------------
TunnelStep(t) ==
    \/ Dial(t) \/ ConnectThrough(t) \/ DialFails(t) \/ Greet(t) \/ GreetFails(t)
    \/ TunnelOpened(t) \/ RelayEnds(t) \/ TunnelClosed(t)
    \/ \E s \in Sides : Copy(t, s) \/ CopyEndsTunnel(t, s)
    \/ GreetServed(t) \/ Peek(t) \/ ServeFails(t) \/ AcceptReturns(t)

TunnelsNext ==
    \/ \E t \in Tunnels :
          \/ Connect(t) \/ TunnelStep(t) \/ Upgrade(t) \/ ServerCloses(t)
          \/ \E s \in Sides : PeerSends(t, s) \/ PeerHangsUp(t, s)
    \/ \E p \in LogProjects : OpenOther(p)
    \/ \E k \in LogProjects \X Tunnels : DeleteTunnel(k)

\* Goroutines go on, and a server notices that its client has left.
TunnelsFairness ==
    \A t \in Tunnels :
        /\ WF_tunnelsVars(TunnelStep(t))
        /\ WF_tunnelsVars(wire[t].gone # {} /\ ServerCloses(t))

TunnelsSpec == TunnelsInit /\ [][TunnelsNext]_tunnelsVars /\ TunnelsFairness

-----------------------------------------------------------------------------
(* Properties.                                                             *)

TunnelsTypeOK ==
    /\ tun \in [Tunnels -> {"idle", "dial", "ask", "greet", "stand", "relay", "relayed",
                           "greetServed", "peek", "served", "upgraded", "over"}]
    /\ wire \in [Tunnels -> [sent : [Sides -> 0 .. MaxPieces], lost : 0 .. MaxPieces,
                            gone : SUBSET Sides, open : SUBSET Sides]]
    /\ pump \in [Tunnels -> [Sides -> [at : {"copy", "done"}, passed : Nat]]]
    /\ logged \in [Tunnels -> LogProjects \cup {None}]
    /\ kept \in [LogProjects \X Tunnels -> {None, Pending} \cup [Sides -> Nat]]
    /\ project \in LogProjects

\* Nothing is left behind by a CONNECT that is over: both connections are
\* closed, no project is remembered for it and its entry, wherever it was
\* written, is closed with what has passed (tunnel, TunnelClosed).
NothingLeftOpen ==
    \A t \in Tunnels : tun[t] = "over" =>
       /\ wire[t].open = {}
       /\ logged[t] = None
       /\ \A p \in LogProjects : kept[<<p, t>>] \in {None, Figures(t)}

\* One side that hangs up ends the tunnel (relayTunnel, oneShotListener): also
\* where the other direction or a second Accept is still waiting.
TunnelsEnd ==
    \A t \in Tunnels : wire[t].gone # {} ~> tun[t] = "over"

\* "relayTunnel copies bytes both ways without looking at them": what a peer
\* gets begins with the first byte the other has sent.
NothingIsSkipped == \A t \in Tunnels : tun[t] = "relay" => wire[t].lost = 0
=============================================================================
