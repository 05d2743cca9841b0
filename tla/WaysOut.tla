------------------------------ MODULE WaysOut ------------------------------
(*****************************************************************************)
(* Which way a request leaves the machine: the scheme it is spoken in, the   *)
(* upstream proxy it goes through, and the address that is dialled.  The     *)
(* three are asked of the open project one after the other, and connections  *)
(* are pooled by the first two and the name, so an edit of the project may   *)
(* come between them or find connections to where the name was before.       *)
(*                                                                           *)
(* A host pattern is the set of hosts it covers.  The proxy, the sender and  *)
(* the automation each have a transport that works alike; this is one.       *)
(*****************************************************************************)
EXTENDS Integers, Sequences, FiniteSets, SequencesExt, FiniteSetsExt

CONSTANTS
    Hosts,
    Addresses,     \* a host may be moved to
    Upstream,      \* the upstream proxy a project may name
    Requests,
    Settings,      \* of projects that are saved
    MaxOverrides,  \* MaxHostOverrides
    MaxEdits,
    None

Schemes == {"http", "https"}

(* An override as it is stored: the hosts it covers, or None for a pattern   *)
(* that is no glob; whether it is on; a scheme or None; and an address, or   *)
(* None for one that cannot be dialled.                                      *)
Overrides ==
    [covers : {None} \cup SUBSET Hosts, on : BOOLEAN, scheme : {None} \cup Schemes,
     address : {None} \cup Addresses]

ProjectSettings ==
    [overrides : Seq(Overrides), upstream : {None, Upstream}, bypass : SUBSET Hosts,
     noDecrypt : SUBSET ({None} \cup SUBSET Hosts)]

(* What the transport knows of a connection.                                 *)
Connections ==
    [scheme : Schemes, host : Hosts, via : {None, Upstream},
     to : Hosts \cup Addresses \cup {None, Upstream}, users : SUBSET Requests,
     shared : BOOLEAN]

WaysAssumption ==
    /\ Settings \subseteq ProjectSettings
    /\ MaxOverrides \in Nat
    /\ None \notin Overrides \cup Connections

VARIABLES
    current,  \* settings of the open project
    edits,    \* changes of them so far
    notified, \* watchers have been called for the last one
    closing,  \* the transport closes connections that become idle
    way,      \* where each request stands
    conn,     \* connections, under the request that dialled them
    crossed   \* requests and connections that were in use across a change

waysVars == <<current, edits, notified, closing, way, conn, crossed>>

NoProject == [overrides |-> <<>>, upstream |-> None, bypass |-> {}, noDecrypt |-> {}]

(* Compile                                                                   *)
Compiles(s) ==
    /\ Len(s.overrides) <= MaxOverrides
    /\ \A i \in 1 .. Len(s.overrides) :
          s.overrides[i].on => s.overrides[i].covers # None /\ s.overrides[i].address # None
    /\ None \notin s.noDecrypt

(* Broken: the entry that is off hides the ones below it.                    *)
EntryOfAny(s, h) ==
    LET at == {i \in 1 .. Len(s.overrides) :
                 s.overrides[i].covers # None /\ h \in s.overrides[i].covers}
    IN IF at = {} \/ ~s.overrides[Min(at)].on THEN None ELSE s.overrides[Min(at)]

(* The first enabled override that covers a host.                            *)
EntryOf(s, h) ==
    LET at == {i \in 1 .. Len(s.overrides) :
                 s.overrides[i].on /\ h \in s.overrides[i].covers}
    IN IF at = {} THEN None ELSE s.overrides[Min(at)]

SchemeOf(s, h, scheme) ==
    LET e == EntryOf(s, h) IN IF e = None \/ e.scheme = None THEN scheme ELSE e.scheme

Via(s, h) ==
    IF EntryOf(s, h) # None \/ h \in s.bypass THEN None ELSE s.upstream

Dialled(s, h, via) ==
    IF via # None THEN via
    ELSE LET e == EntryOf(s, h) IN IF e = None THEN h ELSE e.address

Passes(s, h) == h \in UNION s.noDecrypt

-----------------------------------------------------------------------------
Unsent == [at |-> "idle", host |-> None, tunnel |-> FALSE, scheme |-> None, via |-> None,
         conn |-> None]

WaysInit ==
    /\ current \in {NoProject} \cup {s \in Settings : Compiles(s)}
    /\ edits = 0
    /\ notified = TRUE
    /\ closing = FALSE
    /\ way = [r \in Requests |-> Unsent]
    /\ conn = [r \in Requests |-> None]
    /\ crossed = {}

UnderWay == {r \in Requests : way[r].at \notin {"idle", "done"}}

(* A request that is done may have dialled what another one still uses.      *)
InUse == UnderWay \cup {c \in Requests : conn[c] # None /\ conn[c].users # {}}

(* Put of settings, or a switch of project: the snapshot is swapped, and the *)
(* watchers are called with the lock still held.                             *)
Edit(s) ==
    /\ notified /\ edits < MaxEdits
    /\ s # current /\ Compiles(s)
    /\ current' = s
    /\ edits' = edits + 1
    /\ notified' = FALSE
    /\ crossed' = crossed \cup InUse
    /\ UNCHANGED <<closing, way, conn>>

(* Broken: only a changed upstream closes what is idle.                      *)
NotifyKeeps ==
    /\ ~notified
    /\ notified' = TRUE
    /\ crossed' = crossed \cup InUse
    /\ UNCHANGED <<current, edits, way, conn, closing>>

(* CloseIdleConnections: those in use stay, and an HTTP/1 one is closed when *)
(* it becomes idle, unless a request has asked for a connection by then.     *)
Notify ==
    /\ ~notified
    /\ notified' = TRUE
    /\ closing' = TRUE
    /\ conn' = [r \in Requests |->
                   IF conn[r] # None /\ conn[r].users = {} THEN None ELSE conn[r]]
    /\ crossed' = crossed \cup InUse
    /\ UNCHANGED <<current, edits, way>>

(* A CONNECT to a host the project does not decrypt, or a request in https.  *)
SetOut(r, h, connect) ==
    /\ way[r].at = "idle"
    /\ LET tunnel == connect /\ Passes(current, h) IN
       way' = [way EXCEPT ![r] = [Unsent EXCEPT !.at = IF tunnel THEN "via" ELSE "scheme",
                                              !.host = h, !.tunnel = tunnel,
                                              !.scheme = "https"]]
    /\ crossed' = IF notified THEN crossed ELSE crossed \cup {r}
    /\ UNCHANGED <<current, edits, notified, closing, conn>>

(* schemeSwitcher.RoundTrip                                                  *)
SwitchScheme(r) ==
    /\ way[r].at = "scheme"
    /\ way' = [way EXCEPT ![r].scheme = SchemeOf(current, way[r].host, @), ![r].at = "via"]
    /\ UNCHANGED <<current, edits, notified, closing, conn, crossed>>

(* ProxyFunc                                                                 *)
AskProxy(r) ==
    /\ way[r].at = "via"
    /\ way' = [way EXCEPT ![r].via = Via(current, way[r].host),
                          ![r].at = IF way[r].tunnel THEN "dial" ELSE "conn"]
    /\ UNCHANGED <<current, edits, notified, closing, conn, crossed>>

(* The transport's pool: an idle connection of the same key, or a shared one.*)
Fits(r, c) ==
    /\ conn[c] # None
    /\ conn[c].scheme = way[r].scheme /\ conn[c].via = way[r].via
    /\ conn[c].host = way[r].host
    /\ conn[c].users = {} \/ conn[c].shared

GetConn(r) ==
    /\ way[r].at = "conn"
    /\ closing' = FALSE
    /\ IF \E c \in Requests : Fits(r, c)
       THEN \E c \in {x \in Requests : Fits(r, x)} :
            /\ way' = [way EXCEPT ![r].at = "use", ![r].conn = c]
            /\ conn' = [conn EXCEPT ![c].users = @ \cup {r}]
       ELSE /\ way' = [way EXCEPT ![r].at = "dial"]
            /\ UNCHANGED conn
    /\ UNCHANGED <<current, edits, notified, crossed>>

(* DialContext with dialAddr; a tunnel's connection is nobody else's.        *)
DialOut(r) ==
    /\ way[r].at = "dial"
    /\ \E shared \in BOOLEAN :
          /\ shared => ~way[r].tunnel /\ way[r].scheme = "https"
          /\ conn' = [conn EXCEPT ![r] =
                [scheme |-> way[r].scheme, host |-> way[r].host, via |-> way[r].via,
                 to |-> Dialled(current, way[r].host, way[r].via),
                 users |-> {r}, shared |-> shared]]
    /\ way' = [way EXCEPT ![r].at = "use", ![r].conn = r]
    /\ UNCHANGED <<current, edits, notified, closing, crossed>>

Finish(r) ==
    /\ way[r].at = "use"
    /\ LET c == way[r].conn
           ends == \/ way[r].tunnel
                   \/ closing /\ ~conn[c].shared
       IN conn' = [conn EXCEPT ![c] =
                      IF ends THEN None ELSE [conn[c] EXCEPT !.users = @ \ {r}]]
    /\ way' = [way EXCEPT ![r].at = "done"]
    /\ UNCHANGED <<current, edits, notified, closing, crossed>>

Step(r) ==
    \/ \E h \in Hosts, connect \in BOOLEAN : SetOut(r, h, connect)
    \/ SwitchScheme(r) \/ AskProxy(r) \/ GetConn(r) \/ DialOut(r) \/ Finish(r)

WaysNext ==
    \/ \E s \in Settings : Edit(s)
    \/ Notify
    \/ \E r \in Requests : Step(r)

WaysSpec == WaysInit /\ [][WaysNext]_waysVars

-----------------------------------------------------------------------------
(* What the settings mean, as their documentation has it: the first override *)
(* that is on moves a host, says how it is spoken to when it says anything,  *)
(* and is reached directly whatever upstream proxy there is.                 *)
Means(s, h) ==
    LET Moves(i) == s.overrides[i].on /\ h \in s.overrides[i].covers
        first == {i \in 1 .. Len(s.overrides) :
                     Moves(i) /\ \A j \in 1 .. (i - 1) : ~Moves(j)}
    IN
    IF first # {}
    THEN LET o == s.overrides[CHOOSE i \in first : TRUE] IN
         [scheme |-> IF o.scheme = None THEN "https" ELSE o.scheme,
          via |-> None, to |-> o.address]
    ELSE IF s.upstream # None /\ h \notin s.bypass
    THEN [scheme |-> "https", via |-> s.upstream, to |-> s.upstream]
    ELSE [scheme |-> "https", via |-> None, to |-> h]

(* Every kind of request to a host takes the way the open project's settings *)
(* mean, over a new connection and over a pooled one, unless it or the       *)
(* connection was in use when they changed; a tunnel speaks for itself.      *)
WayIsMeant ==
    \A r \in Requests :
        way[r].at = "use" /\ r \notin crossed /\ way[r].conn \notin crossed =>
            LET meant == Means(current, way[r].host) IN
            /\ way[r].via = meant.via
            /\ conn[way[r].conn].to = meant.to
            /\ ~way[r].tunnel => way[r].scheme = meant.scheme
            /\ way[r].tunnel => Passes(current, way[r].host)
=============================================================================
