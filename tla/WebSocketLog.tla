---------------------------- MODULE WebSocketLog ----------------------------
(***************************************************************************)
(* internal/domain/reqlog/websocket.go on top of the relay: one connection,*)
(* from the 101 the log takes to the figures its entry is closed with.     *)
(* The pumps hand messages to a bounded queue without waiting, a goroutine *)
(* drains it into the store, and the end of the relay waits for that.      *)
(***************************************************************************)
EXTENDS Relay, FiniteSets

CONSTANTS
    QueueSize,    \* wsQueue, 4096 in the code
    MaxMessages,  \* MaxWSMessages, 10000
    BatchSize,    \* wsBatch, 256
    ProgressEvery \* wsProgressEvery, 20

WebSocketLogAssumption ==
    RelayAssumption /\ {QueueSize, MaxMessages, BatchSize, ProgressEvery} \subseteq Nat \ {0}

VARIABLES
    phase,    \* of the exchange that is upgraded
    mark,     \* Service.ws holds a wsPending for it
    stamp,    \* the goroutine that stamps the subprotocol on the entry
    rec,      \* Service.ws holds a recorder: its figures
    queue,    \* messages in it
    drain,    \* where the draining goroutine stands, and its locals
    entry,    \* the entry of the exchange
    rows,     \* its messages in the store
    lost      \* history: messages of a batch the store refused

logVars == <<phase, mark, stamp, rec, queue, drain, entry, rows, lost>>
vars == <<relayVars, logVars>>

NoRecorder == [open |-> FALSE, count |-> 0, dropped |-> 0, stored |-> 0,
               queueClosed |-> FALSE]

AtRest == [at |-> "off", batch |-> 0, stored |-> 0, written |-> 0]

Init ==
    /\ RelayInit
    /\ phase = "response"
    /\ mark = FALSE
    /\ stamp = "off"
    /\ rec = NoRecorder
    /\ queue = 0
    /\ drain = AtRest
    /\ entry = [there |-> TRUE, messages |-> 0, dropped |-> 0, over |-> FALSE,
                subprotocol |-> FALSE]
    /\ rows = 0
    /\ lost = 0

-----------------------------------------------------------------------------
(* The handshake.                                                          *)

\* The response hook finds the mark of its request half, or not.
MarkUpgrade ==
    /\ phase = "response"
    /\ phase' = "upgrade"
    /\ mark' = TRUE /\ stamp' = "begun"
    /\ UNCHANGED <<relayVars, rec, queue, drain, entry, rows, lost>>

NotLogged ==
    /\ phase = "response"
    /\ phase' = "upgrade"
    /\ UNCHANGED <<relayVars, mark, stamp, rec, queue, drain, entry, rows, lost>>

Stamp ==
    /\ stamp = "begun"
    /\ stamp' = IF entry.there THEN "stamped" ELSE "off"
    /\ entry' = IF entry.there THEN [entry EXCEPT !.subprotocol = TRUE] ELSE entry
    /\ UNCHANGED <<relayVars, phase, mark, rec, queue, drain, rows, lost>>

\* Another connection is upgraded more than a minute later.
MarkExpires ==
    /\ mark
    /\ mark' = FALSE
    /\ UNCHANGED <<relayVars, phase, stamp, rec, queue, drain, entry, rows, lost>>

\* The client's connection cannot be taken over, or has gone.
UpgradeFails ==
    /\ phase = "upgrade"
    /\ phase' = "over"
    /\ UNCHANGED <<relayVars, mark, stamp, rec, queue, drain, entry, rows, lost>>

WSOpened ==
    /\ phase = "upgrade"
    /\ phase' = "open"
    /\ mark' = FALSE
    /\ rec' = [rec EXCEPT !.open = mark]
    /\ drain' = [drain EXCEPT !.at = IF mark THEN "select" ELSE "off"]
    /\ UNCHANGED <<relayVars, stamp, queue, entry, rows, lost>>

-----------------------------------------------------------------------------
(* The relay.                                                              *)

\* WSMessage, under the recorder's mutex: over the cap, or with the queue full,
\* the message is counted as dropped.
WSMessage ==
    IF ~rec.open THEN UNCHANGED <<rec, queue>>
    ELSE IF rec.count < MaxMessages /\ queue < QueueSize
    THEN /\ rec' = [rec EXCEPT !.count = @ + 1]
         /\ queue' = queue + 1
    ELSE /\ rec' = [rec EXCEPT !.dropped = @ + 1]
         /\ queue' = queue

Tell(d) ==
    /\ phase = "open"
    /\ Emit(d) /\ WSMessage
    /\ UNCHANGED <<phase, mark, stamp, drain, entry, rows, lost>>

Relays(d) == phase = "open" /\ Pump(d) /\ UNCHANGED logVars

Peers(d) == phase = "open" /\ Peer(d) /\ UNCHANGED logVars

-----------------------------------------------------------------------------
(* Service.drain.                                                          *)

\* What is queued is taken, as much as is there by then and fits a batch.
TakeBatch ==
    /\ drain.at = "select"
    /\ \E n \in 1 .. queue :
          /\ n <= BatchSize
          /\ queue' = queue - n
          /\ drain' = [drain EXCEPT !.at = "put", !.batch = n]
    /\ UNCHANGED <<relayVars, phase, mark, stamp, rec, entry, rows, lost>>

\* After a batch, and whether or not it was stored.
AfterBatch(stored) ==
    drain' = [drain EXCEPT
                 !.at = IF stored - drain.written >= ProgressEvery THEN "persist" ELSE "select",
                 !.batch = 0, !.stored = stored]

PutMessages ==
    /\ drain.at = "put"
    /\ rows' = rows + drain.batch
    /\ AfterBatch(drain.stored + drain.batch)
    /\ UNCHANGED <<relayVars, phase, mark, stamp, rec, queue, entry, lost>>

PutMessagesFails ==
    /\ drain.at = "put"
    /\ lost' = lost + drain.batch
    /\ AfterBatch(drain.stored)
    /\ UNCHANGED <<relayVars, phase, mark, stamp, rec, queue, entry, rows>>

Tick ==
    /\ drain.at = "select" /\ drain.stored # drain.written
    /\ drain' = [drain EXCEPT !.at = "persist"]
    /\ UNCHANGED <<relayVars, phase, mark, stamp, rec, queue, entry, rows, lost>>

\* setWSCount; the count goes for written even if the entry has gone.
SetWSCount ==
    /\ drain.at = "persist"
    /\ entry' = IF entry.there /\ ~entry.over
                THEN [entry EXCEPT !.messages = drain.stored] ELSE entry
    /\ drain' = [drain EXCEPT !.at = "select", !.written = drain.stored]
    /\ UNCHANGED <<relayVars, phase, mark, stamp, rec, queue, rows, lost>>

DrainEnds ==
    /\ drain.at = "select" /\ rec.queueClosed /\ queue = 0
    /\ rec' = [rec EXCEPT !.stored = drain.stored]
    /\ drain' = [drain EXCEPT !.at = "done"]
    /\ UNCHANGED <<relayVars, phase, mark, stamp, queue, entry, rows, lost>>

-----------------------------------------------------------------------------
(* The end of the connection.                                              *)

\* Broken: the recorder leaves the map with its queue open.
WSClosedForgets ==
    /\ phase = "open" /\ Returned
    /\ phase' = IF rec.open THEN "waiting" ELSE "over"
    /\ UNCHANGED <<relayVars, mark, stamp, rec, queue, drain, entry, rows, lost>>

\* The recorder leaves the map and its queue is closed.
WSClosed ==
    /\ phase = "open" /\ Returned
    /\ phase' = IF rec.open THEN "waiting" ELSE "over"
    /\ rec' = [rec EXCEPT !.queueClosed = rec.open]
    /\ UNCHANGED <<relayVars, mark, stamp, queue, drain, entry, rows, lost>>

\* Broken: nobody waits for the queue to be drained.
StoreCloseAtOnce ==
    /\ phase = "waiting"
    /\ phase' = IF entry.there THEN "stored" ELSE "over"
    /\ entry' = IF ~entry.there THEN entry
                ELSE [entry EXCEPT !.messages = rec.stored,
                                   !.dropped = rec.dropped, !.over = TRUE]
    /\ UNCHANGED <<relayVars, mark, stamp, rec, queue, drain, rows, lost>>

\* The queue is drained: the entry learns how the connection ended.
StoreClose ==
    /\ phase = "waiting" /\ drain.at = "done"
    /\ phase' = IF entry.there THEN "stored" ELSE "over"
    /\ entry' = IF ~entry.there THEN entry
                ELSE [entry EXCEPT !.messages = rec.stored,
                                   !.dropped = rec.dropped, !.over = TRUE]
    /\ UNCHANGED <<relayVars, mark, stamp, rec, queue, drain, rows, lost>>

\* The entry is deleted, evicted or cleared, and its messages with it.
DeleteEntry ==
    /\ entry.there
    /\ entry' = [entry EXCEPT !.there = FALSE]
    /\ rows' = 0
    /\ UNCHANGED <<relayVars, phase, mark, stamp, rec, queue, drain, lost>>

-----------------------------------------------------------------------------
Drains == TakeBatch \/ PutMessages \/ PutMessagesFails \/ SetWSCount \/ DrainEnds

Ends == WSClosed \/ StoreClose

Next ==
    \/ MarkUpgrade \/ NotLogged \/ Stamp \/ MarkExpires \/ UpgradeFails \/ WSOpened
    \/ \E d \in Dirs : Peers(d) \/ Relays(d) \/ Tell(d)
    \/ Drains \/ Tick \/ Ends \/ DeleteEntry

Spec == Init /\ [][Next]_vars

PumpGoesOn(d) ==
    \/ Tell(d)
    \/ /\ phase = "open" /\ UNCHANGED logVars
       /\ ReadEnds(d) \/ CopyEnds(d) \/ Leave(d) \/ (closed /\ WriteFails(d))

\* Goroutines that can go on do.  Peers need not say anything or hang up, and a
\* write may wait for a peer that does not read.
Fairness ==
    /\ WF_vars(Drains) /\ WF_vars(Ends)
    /\ \A d \in Dirs : WF_vars(PumpGoesOn(d))

FairSpec == Spec /\ Fairness

-----------------------------------------------------------------------------
(* Properties.                                                             *)

WebSocketLogTypeOK ==
    /\ RelayTypeOK
    /\ phase \in {"response", "upgrade", "open", "waiting", "stored", "over"}
    /\ mark \in BOOLEAN
    /\ stamp \in {"off", "begun", "stamped"}
    /\ rec \in [open : BOOLEAN, count : Nat, dropped : Nat, stored : Nat,
                queueClosed : BOOLEAN]
    /\ queue \in Nat
    /\ drain \in [at : {"off", "select", "put", "persist", "done"}, batch : Nat,
                  stored : Nat, written : Nat]
    /\ entry \in [there : BOOLEAN, messages : Nat, dropped : Nat, over : BOOLEAN,
                  subprotocol : BOOLEAN]
    /\ rows \in Nat
    /\ lost \in Nat

\* A connection that was recorded from the start closes its entry with figures
\* that account for every message the relay forwarded whole: stored, dropped,
\* or in a batch the store refused.  Its rows are as many as it says, and the
\* subprotocol the response was stamped with is still there (WSMessage, drain,
\* WSClosed, markUpgrade).
FiguresAddUp ==
    phase = "stored" /\ entry.there =>
       /\ entry.messages + entry.dropped + lost = emitted
       /\ entry.messages = rows
       /\ stamp = "stamped" => entry.subprotocol

\* A queue that is closed is never sent on: a send would bring the process down
\* (WSClosed closes it, WSMessage of either pump sends).
NoSendOnClosedQueue ==
    rec.queueClosed => \A d \in Dirs : pump[d].at # "emit"

\* What goes through an upgraded connection is what was sent, its figures account
\* for every message, and no send meets a closed queue.
ConnectionsAreLogged == RelayIsFaithful /\ FiguresAddUp /\ NoSendOnClosedQueue

\* Once either end of the relay is closed the connection comes to its end:
\* the other pump stops, the queue is drained, the entry is closed (run's
\* closeBoth, WSClosed's wait for drain).
ConnectionsEnd == closed ~> phase \in {"stored", "over"}

\* A deletion leaves no message behind, "rather than being orphaned there".
NoOrphans == ~entry.there => rows = 0
=============================================================================
