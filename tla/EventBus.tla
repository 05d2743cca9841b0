------------------------------ MODULE EventBus ------------------------------
(***************************************************************************)
(* internal/core/eventbus and the stream a console tab reads from it       *)
(* (internal/server/events.go).  Publishers share a read lock and never    *)
(* wait for a subscriber; a subscriber is taken off the list and its       *)
(* channel closed when its request ends.                                   *)
(***************************************************************************)
EXTENDS Integers, Sequences

CONSTANTS
    Tabs,
    Publishers,  \* goroutines that announce a change of the open project
    Buffer,      \* subscriberBuffer
    MaxEvents,   \* changes of the open project, numbered
    None

EventBusAssumption ==
    /\ Buffer \in Nat \ {0} /\ MaxEvents \in Nat
    /\ None \notin Publishers
    /\ None \notin [event : Nat, left : SUBSET Tabs]

VARIABLES
    activeID,   \* the open project, as ActiveID has it
    subs,       \* Bus.subs
    chan,       \* the channel of each tab: what is in it, and whether it is closed
    sending,    \* a publisher that holds the read lock: its event, whom it has to see
    announcer,  \* who holds the project service's lock, and announces under it
    tab,        \* the stream of each tab
    panicked    \* a send on a closed channel

busVars == <<activeID, subs, chan, sending, announcer, tab, panicked>>

Unlocked == \A p \in Publishers : sending[p] = None

\* shown: what the tab was last told; lost: it was not told of a change.
Gone == [at |-> "idle", shown |-> 0, lost |-> FALSE]

BusInit ==
    /\ activeID = 0
    /\ subs = {}
    /\ chan = [t \in Tabs |-> [queue |-> <<>>, closed |-> FALSE]]
    /\ sending = [p \in Publishers |-> None]
    /\ announcer = None
    /\ tab = [t \in Tabs |-> Gone]
    /\ panicked = FALSE

-----------------------------------------------------------------------------
(* A change of the open project is published before another can be made.   *)

Change(p) ==
    /\ announcer = None /\ activeID < MaxEvents
    /\ activeID' = activeID + 1
    /\ announcer' = p
    /\ UNCHANGED <<subs, chan, sending, tab, panicked>>

\* Publish takes the read lock, and sees who is subscribed.
PublishLocks(p) ==
    /\ announcer = p /\ sending[p] = None
    /\ sending' = [sending EXCEPT ![p] = [event |-> activeID, left |-> subs]]
    /\ tab' = [t \in Tabs |-> IF tab[t].at = "greeted" /\ t \notin subs
                              THEN [tab[t] EXCEPT !.lost = TRUE] ELSE tab[t]]
    /\ UNCHANGED <<activeID, subs, chan, announcer, panicked>>

\* A full channel means a drop; a closed one, a panic.
Deliver(p, t) ==
    /\ sending[p] # None /\ t \in sending[p].left
    /\ sending' = [sending EXCEPT ![p].left = @ \ {t}]
    /\ panicked' = (panicked \/ chan[t].closed)
    /\ IF Len(chan[t].queue) < Buffer
       THEN chan' = [chan EXCEPT ![t].queue = Append(@, sending[p].event)] /\ UNCHANGED tab
       ELSE tab' = [tab EXCEPT ![t].lost = TRUE] /\ UNCHANGED chan
    /\ UNCHANGED <<activeID, subs, announcer>>

PublishUnlocks(p) ==
    /\ sending[p] # None /\ sending[p].left = {}
    /\ sending' = [sending EXCEPT ![p] = None]
    /\ announcer' = None
    /\ UNCHANGED <<activeID, subs, chan, tab, panicked>>

-----------------------------------------------------------------------------
(* The stream of a tab.                                                    *)

\* Broken: a stream that comes back goes on without a hello.
HelloOnce(t) ==
    /\ tab[t].at = "idle"
    /\ tab' = [tab EXCEPT ![t].at = "greeted", ![t].lost = announcer # None]
    /\ UNCHANGED <<activeID, subs, chan, sending, announcer, panicked>>

\* The hello names the open project.
Hello(t) ==
    /\ tab[t].at = "idle"
    /\ tab' = [tab EXCEPT ![t] = [at |-> "greeted", shown |-> activeID,
                                  lost |-> announcer # None]]
    /\ UNCHANGED <<activeID, subs, chan, sending, announcer, panicked>>

Subscribe(t) ==
    /\ tab[t].at = "greeted" /\ Unlocked
    /\ subs' = subs \cup {t}
    /\ chan' = [chan EXCEPT ![t] = [queue |-> <<>>, closed |-> FALSE]]
    /\ tab' = [tab EXCEPT ![t].at = "reading"]
    /\ UNCHANGED <<activeID, sending, announcer, panicked>>

Show(t) ==
    /\ tab[t].at \in {"reading", "unsubscribed"} /\ chan[t].queue # <<>>
    /\ tab' = [tab EXCEPT ![t].shown = Head(chan[t].queue)]
    /\ chan' = [chan EXCEPT ![t].queue = Tail(@)]
    /\ UNCHANGED <<activeID, subs, sending, announcer, panicked>>

\* Broken: the channel is closed first, and leaves the list when it can.
UnsubscribeLater(t) ==
    /\ tab[t].at = "reading"
    /\ chan' = [chan EXCEPT ![t].closed = TRUE]
    /\ subs' = IF Unlocked THEN subs \ {t} ELSE subs
    /\ tab' = [tab EXCEPT ![t].at = "unsubscribed"]
    /\ UNCHANGED <<activeID, sending, announcer, panicked>>

\* The request ends: AfterFunc takes the channel off the list under the lock,
\* and closes it after that.
Unsubscribe(t) ==
    /\ tab[t].at = "reading" /\ Unlocked
    /\ subs' = subs \ {t}
    /\ tab' = [tab EXCEPT ![t].at = "unsubscribed"]
    /\ UNCHANGED <<activeID, chan, sending, announcer, panicked>>

CloseChannel(t) ==
    /\ tab[t].at = "unsubscribed"
    /\ chan' = [chan EXCEPT ![t].closed = TRUE]
    /\ tab' = [tab EXCEPT ![t] = Gone]
    /\ UNCHANGED <<activeID, subs, sending, announcer, panicked>>

BusNext ==
    \/ \E p \in Publishers :
          \/ Change(p) \/ PublishLocks(p) \/ PublishUnlocks(p)
          \/ \E t \in Tabs : Deliver(p, t)
    \/ \E t \in Tabs :
          Hello(t) \/ Subscribe(t) \/ Show(t) \/ Unsubscribe(t) \/ CloseChannel(t)

BusSpec == BusInit /\ [][BusNext]_busVars

-----------------------------------------------------------------------------
(* Properties.                                                             *)

BusTypeOK ==
    /\ activeID \in Nat
    /\ subs \subseteq Tabs
    /\ chan \in [Tabs -> [queue : Seq(Nat), closed : BOOLEAN]]
    /\ sending \in [Publishers -> [event : Nat, left : SUBSET Tabs] \cup {None}]
    /\ announcer \in Publishers \cup {None}
    /\ tab \in [Tabs -> [at : {"idle", "greeted", "reading", "unsubscribed"},
                         shown : Nat, lost : BOOLEAN]]
    /\ panicked \in BOOLEAN

\* Nobody sends on a channel that was closed, whenever a tab leaves (Publish and
\* the AfterFunc of Subscribe).
NoSendAfterClose == ~panicked

\* A tab that has read all it was sent shows the open project, unless a change
\* came between its hello and its subscription, or found its channel full, or
\* is still being announced.
TabsAreCurrent ==
    \A t \in Tabs : tab[t].at = "reading" /\ chan[t].queue = <<>>
                    /\ ~tab[t].lost /\ announcer = None => tab[t].shown = activeID

\* No event is sent to a tab that has left, and a tab that has read all it was
\* sent shows the open project.
EventsArrive == NoSendAfterClose /\ TabsAreCurrent
=============================================================================
