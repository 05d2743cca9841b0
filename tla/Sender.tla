------------------------------- MODULE Sender -------------------------------
(***************************************************************************)
(* internal/domain/sender: requests a person keeps, edits and sends.  Every*)
(* operation reads the open project and then the store, in transactions of *)
(* their own; a send holds the record it read for a whole round trip.      *)
(***************************************************************************)
EXTENDS Integers, FiniteSets

CONSTANTS
    Kept,           \* request ids
    SenderProjects,
    Heads, Bodies,  \* what an edit may set
    Users,          \* console operations that may be under way together
    None

Places == SenderProjects \X Kept

Requested == Heads \X Bodies

\* answers: the request the stored response is the answer to, or None.
Records == [head : Heads, body : Bodies, answers : Requested \cup {None}]

SenderAssumption ==
    /\ None \notin Users \cup SenderProjects \cup Bodies
    /\ None \notin Places \cup Requested
    /\ None \notin Records

VARIABLES
    open,    \* the open project, or None
    store,   \* the bucket of each project: <<project, id>> -> record, or None
    use,     \* the operations under way
    unused,  \* ids not drawn yet
    asked,   \* history: what the last edit of an id made of it
    passed   \* history: ids written by an operation that others had overtaken

senderVars == <<open, store, use, unused, asked, passed>>

Record(head, body, answers) == [head |-> head, body |-> body, answers |-> answers]

Asked(r) == <<r.head, r.body>>

Done == [at |-> "idle", place |-> None, record |-> None, stale |-> FALSE]

SenderInit ==
    /\ open \in SenderProjects \cup {None}
    /\ store = [k \in Places |-> None]
    /\ use = [u \in Users |-> Done]
    /\ unused = Kept
    /\ asked = [k \in Places |-> None]
    /\ passed = {}

OpenSender(p) ==
    /\ p # open
    /\ open' = p
    /\ UNCHANGED <<store, use, unused, asked, passed>>

\* Others that have read the record have read an old one.
Overtaken(u, ks) ==
    [v \in Users |-> IF v # u /\ use[v].place \in ks THEN [use[v] EXCEPT !.stale = TRUE]
                     ELSE use[v]]

Hold(u, at, k, r) ==
    use' = [use EXCEPT ![u] = [at |-> at, place |-> k, record |-> r, stale |-> FALSE]]

-----------------------------------------------------------------------------
(* Save and CloneFromLog.                                                  *)

\* A new request; a clone has the head and the body of a log entry, also of one
\* that was logged in another project.
Create(u, id, r) ==
    /\ open # None /\ use[u].at = "idle" /\ id \in unused
    /\ unused' = unused \ {id}
    /\ Hold(u, "put", <<open, id>>, r)
    /\ UNCHANGED <<open, store, asked, passed>>

\* Broken: an edit leaves the response where it was.
SaveReadKeeps(u, id, head, body) ==
    LET k == <<open, id>> IN
    /\ open # None /\ use[u].at = "idle" /\ store[k] # None
    /\ Hold(u, "put", k, Record(head, IF body = None THEN store[k].body ELSE body,
                                store[k].answers))
    /\ UNCHANGED <<open, store, unused, asked, passed>>

\* A rewrite keeps the body when it names none, and drops the response.
SaveRead(u, id, head, body) ==
    LET k == <<open, id>> IN
    /\ open # None /\ use[u].at = "idle" /\ store[k] # None
    /\ Hold(u, "put", k, Record(head, IF body = None THEN store[k].body ELSE body, None))
    /\ UNCHANGED <<open, store, unused, asked, passed>>

PutSaved(u) ==
    LET k == use[u].place  r == use[u].record IN
    /\ use[u].at = "put"
    /\ store' = [store EXCEPT ![k] = r]
    /\ asked' = [asked EXCEPT ![k] = Asked(r)]
    /\ passed' = IF use[u].stale THEN passed \cup {k} ELSE passed
    /\ use' = [Overtaken(u, {k}) EXCEPT ![u] = Done]
    /\ UNCHANGED <<open, unused>>

-----------------------------------------------------------------------------
(* Send: the record as it is stored, the round trip, the record put back   *)
(* with what came of it.  A failure leaves the record as it is.            *)

SendRead(u, id) ==
    /\ open # None /\ use[u].at = "idle" /\ store[<<open, id>>] # None
    /\ Hold(u, "send", <<open, id>>, store[<<open, id>>])
    /\ UNCHANGED <<open, store, unused, asked, passed>>

\* There is no record: the handler panics, and the server drops the connection.
SendNothing(u, id) ==
    /\ open # None /\ use[u].at = "idle" /\ store[<<open, id>>] = None
    /\ UNCHANGED senderVars

SendFails(u) ==
    /\ use[u].at = "send"
    /\ use' = [use EXCEPT ![u] = Done]
    /\ UNCHANGED <<open, store, unused, asked, passed>>

\* Broken: only the response is written, into the record as it is by then.
SendPutMerges(u) ==
    LET k == use[u].place  r == use[u].record IN
    /\ use[u].at = "send"
    /\ store' = IF store[k] = None THEN store
                ELSE [store EXCEPT ![k].answers = Asked(r)]
    /\ use' = [Overtaken(u, {k}) EXCEPT ![u] = Done]
    /\ UNCHANGED <<open, unused, asked, passed>>

SendPut(u) ==
    LET k == use[u].place  r == use[u].record IN
    /\ use[u].at = "send"
    /\ store' = [store EXCEPT ![k] = [r EXCEPT !.answers = Asked(r)]]
    /\ passed' = IF use[u].stale THEN passed \cup {k} ELSE passed
    /\ use' = [Overtaken(u, {k}) EXCEPT ![u] = Done]
    /\ UNCHANGED <<open, unused, asked>>

-----------------------------------------------------------------------------
(* Delete of one, Clear of all of the open project.                        *)

Drop(ks) ==
    /\ store' = [k \in Places |-> IF k \in ks THEN None ELSE store[k]]
    /\ asked' = [k \in Places |-> IF k \in ks THEN None ELSE asked[k]]
    /\ use' = Overtaken(None, ks)
    /\ UNCHANGED <<open, unused, passed>>

DeleteKept(id) == open # None /\ store[<<open, id>>] # None /\ Drop({<<open, id>>})

ClearKept ==
    LET ks == {k \in Places : k[1] = open /\ store[k] # None} IN
    ks # {} /\ Drop(ks)

-----------------------------------------------------------------------------
SenderNext ==
    \/ \E p \in SenderProjects \cup {None} : OpenSender(p)
    \/ \E u \in Users :
          \/ \E id \in Kept :
                \/ \E h \in Heads, b \in Bodies : Create(u, id, Record(h, b, None))
                \/ \E h \in Heads, b \in Bodies \cup {None} : SaveRead(u, id, h, b)
                \/ SendRead(u, id) \/ SendNothing(u, id)
          \/ PutSaved(u) \/ SendFails(u) \/ SendPut(u)
    \/ \E id \in Kept : DeleteKept(id)
    \/ ClearKept

SenderSpec == SenderInit /\ [][SenderNext]_senderVars

-----------------------------------------------------------------------------
(* Properties.                                                             *)

SenderTypeOK ==
    /\ open \in SenderProjects \cup {None}
    /\ store \in [Places -> Records \cup {None}]
    /\ use \in [Users -> [at : {"idle", "put", "send"}, place : Places \cup {None},
                          record : Records \cup {None}, stale : BOOLEAN]]
    /\ unused \subseteq Kept
    /\ asked \in [Places -> Requested \cup {None}]
    /\ passed \subseteq Places

\* "A rewrite drops the stored response, because it answered a request that no
\* longer exists" (Save): a stored response answers the request it is stored
\* with, whatever edits and sends have overtaken one another.
ResponsesAnswerTheirRequest ==
    \A k \in Places :
       store[k] # None => store[k].answers \in {None, Asked(store[k])}

\* What is stored is what the last edit asked for, and nothing where it was
\* deleted, unless a write rested on a record that had changed since it was read
\* (Send puts back the whole record).
LastEditStands ==
    \A k \in Places \ passed :
       asked[k] = IF store[k] = None THEN None ELSE Asked(store[k])

\* A stored response answers the request it is stored with, and what is stored
\* is what the last edit asked for.
SentRequestsAreKept == ResponsesAnswerTheirRequest /\ LastEditStands
=============================================================================
