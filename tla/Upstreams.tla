----------------------------- MODULE Upstreams -----------------------------
(***************************************************************************)
(* internal/domain/upstreams: the instance's list of proxies it goes out   *)
(* through.  Save and Delete are several transactions each; requests read  *)
(* a server's record and then a cache of compiled functions that the       *)
(* writers drop their server from.                                         *)
(***************************************************************************)
EXTENDS Integers, FiniteSets

CONSTANTS
    Servers,    \* ids
    Names,
    MaxServers,
    Editors,    \* console operations that may run at once
    Requests,   \* requests on their way out
    MaxWrites,  \* versions written, the readings of UpdatedAt
    None

UpstreamsAssumption ==
    /\ MaxServers \in Nat /\ MaxWrites \in Nat
    /\ None \notin [name : Names, at : Nat]
    /\ None \notin [at : Nat, fn : Nat]

VARIABLES
    servers,   \* the bucket: id -> record, None if absent
    writes,    \* the last UpdatedAt
    compiled,  \* Service.compiled: id -> function and the version it is filed at
    edit,      \* console operations under way
    read,      \* requests under way
    unborn,    \* ids not drawn yet
    deleted,   \* history: ids that were deleted
    raced      \* history: a write rested on a list that had changed meanwhile

upstreamsVars == <<servers, writes, compiled, edit, read, unborn, deleted, raced>>

Free == [op |-> "none", at |-> "idle", id |-> None, name |-> None, stale |-> FALSE]

Ready == [at |-> "idle", id |-> None, record |-> 0, via |-> 0]

UpstreamsInit ==
    /\ servers = [i \in Servers |-> None]
    /\ writes = 0
    /\ compiled = [i \in Servers |-> None]
    /\ edit = [c \in Editors |-> Free]
    /\ read = [r \in Requests |-> Ready]
    /\ unborn = Servers
    /\ deleted = {}
    /\ raced = FALSE

Listed == {i \in Servers : servers[i] # None}

Taken(name, id) == \E i \in Listed \ {id} : servers[i].name = name

\* What others had read of the list is out of date.
Others(c) == [d \in Editors |-> IF d = c THEN Free ELSE [edit[d] EXCEPT !.stale = TRUE]]

-----------------------------------------------------------------------------
(* Save: the list is read and checked, the record of an edit looked up, the*)
(* record put, the function forgotten.                                     *)

\* Broken: an edited server is not told from the others.
SaveChecksNoName(c, id, name) ==
    /\ edit[c].at = "idle" /\ writes < MaxWrites
    /\ id \in unborn => Cardinality(Listed) < MaxServers /\ ~Taken(name, id)
    /\ id \in Listed \cup unborn
    /\ edit' = [edit EXCEPT ![c] = [op |-> "save", at |-> "put", id |-> id,
                                    name |-> name, stale |-> FALSE]]
    /\ unborn' = unborn \ {id}
    /\ UNCHANGED <<servers, writes, compiled, read, raced, deleted>>

SaveChecks(c, id, name) ==
    /\ edit[c].at = "idle" /\ writes < MaxWrites
    /\ ~Taken(name, id)
    /\ id \in unborn => Cardinality(Listed) < MaxServers
    /\ id \in Listed \cup unborn
    /\ edit' = [edit EXCEPT ![c] = [op |-> "save", at |-> "put", id |-> id,
                                    name |-> name, stale |-> FALSE]]
    /\ unborn' = unborn \ {id}
    /\ UNCHANGED <<servers, writes, compiled, read, raced, deleted>>

\* The bucket has what was checked, whatever it holds by now.
SavePut(c) ==
    /\ edit[c].op = "save" /\ edit[c].at = "put" /\ writes < MaxWrites
    /\ writes' = writes + 1
    /\ servers' = [servers EXCEPT ![edit[c].id] = [name |-> edit[c].name, at |-> writes']]
    /\ edit' = [Others(c) EXCEPT ![c] = [edit[c] EXCEPT !.at = "forget"]]
    /\ raced' = (raced \/ edit[c].stale)
    /\ UNCHANGED <<compiled, read, unborn, deleted>>

\* Put fails, or the caller has gone.
SaveFails(c) ==
    /\ edit[c].op = "save" /\ edit[c].at = "put"
    /\ edit' = [edit EXCEPT ![c] = Free]
    /\ UNCHANGED <<servers, writes, compiled, read, unborn, raced, deleted>>

DeleteServer(c, id) ==
    /\ edit[c].at = "idle" /\ id \in Listed
    /\ servers' = [servers EXCEPT ![id] = None]
    /\ edit' = [Others(c) EXCEPT ![c] = [op |-> "delete", at |-> "forget", id |-> id,
                                         name |-> None, stale |-> FALSE]]
    /\ deleted' = deleted \cup {id}
    /\ UNCHANGED <<writes, compiled, read, unborn, raced>>

Forget(c) ==
    /\ edit[c].at = "forget"
    /\ compiled' = [compiled EXCEPT ![edit[c].id] = None]
    /\ edit' = [edit EXCEPT ![c] = Free]
    /\ UNCHANGED <<servers, writes, read, unborn, raced, deleted>>

-----------------------------------------------------------------------------
(* serverProxy.  A function is named by the version it was built from; no  *)
(* record means the instance's default, 0.                                 *)

GetRecord(r, id) ==
    /\ read[r].at = "idle"
    /\ read' = [read EXCEPT ![r] =
                   IF servers[id] = None
                   THEN [at |-> "over", id |-> id, record |-> 0, via |-> 0]
                   ELSE [at |-> "cache", id |-> id, record |-> servers[id].at, via |-> 0]]
    /\ UNCHANGED <<servers, writes, compiled, edit, unborn, raced, deleted>>

\* Broken: a function that is there is taken.
HitAny(r) == compiled[read[r].id] # None

Hit(r) ==
    /\ compiled[read[r].id] # None
    /\ compiled[read[r].id].at = read[r].record

LookUp(r) ==
    /\ read[r].at = "cache"
    /\ read' = IF Hit(r)
               THEN [read EXCEPT ![r].at = "over", ![r].via = compiled[read[r].id].fn]
               ELSE [read EXCEPT ![r].at = "compile", ![r].via = read[r].record]
    /\ UNCHANGED <<servers, writes, compiled, edit, unborn, raced, deleted>>

\* Compiled, and filed, without another look at the record.
File(r) ==
    /\ read[r].at = "compile"
    /\ compiled' = [compiled EXCEPT ![read[r].id] =
                       [at |-> read[r].record, fn |-> read[r].via]]
    /\ read' = [read EXCEPT ![r].at = "over"]
    /\ UNCHANGED <<servers, writes, edit, unborn, raced, deleted>>

Leaves(r) ==
    /\ read[r].at = "over"
    /\ read' = [read EXCEPT ![r] = Ready]
    /\ UNCHANGED <<servers, writes, compiled, edit, unborn, raced, deleted>>

UpstreamsNext ==
    \/ \E c \in Editors :
          \/ \E id \in Servers, name \in Names : SaveChecks(c, id, name)
          \/ SavePut(c) \/ SaveFails(c) \/ Forget(c)
          \/ \E id \in Servers : DeleteServer(c, id)
    \/ \E r \in Requests :
          \/ \E id \in Servers : GetRecord(r, id)
          \/ LookUp(r) \/ File(r) \/ Leaves(r)

UpstreamsSpec == UpstreamsInit /\ [][UpstreamsNext]_upstreamsVars

-----------------------------------------------------------------------------
(* Properties.                                                             *)

UpstreamsTypeOK ==
    /\ servers \in [Servers -> [name : Names, at : Nat] \cup {None}]
    /\ writes \in Nat
    /\ compiled \in [Servers -> [at : Nat, fn : Nat] \cup {None}]
    /\ edit \in [Editors -> [op : {"none", "save", "delete"}, at : {"idle", "put", "forget"},
                             id : Servers \cup {None}, name : Names \cup {None},
                             stale : BOOLEAN]]
    /\ read \in [Requests -> [at : {"idle", "cache", "compile", "over"},
                              id : Servers \cup {None}, record : Nat, via : Nat]]
    /\ unborn \subseteq Servers
    /\ deleted \subseteq Servers
    /\ raced \in BOOLEAN

\* "An edit takes effect at once": a request goes out by the function of the
\* record it found, never by one that a slower request filed after the edit had
\* dropped it (serverProxy, forget), and by none once the server is deleted.
EditsTakeEffect ==
    \A r \in Requests : read[r].at = "over" => read[r].via = read[r].record

\* No two servers have a name, the list is not longer than it may be and no
\* server returns after its deletion, unless a save was overtaken between its
\* look at the list and its write (Save).
ListIsSound ==
    raced \/ /\ \A i \in Listed : ~Taken(servers[i].name, i)
             /\ Cardinality(Listed) <= MaxServers
             /\ Listed \cap deleted = {}

\* A request goes out by the server as it was last saved, and the list of
\* servers is one the checks of a save allow.
UpstreamsAreCurrent == EditsTakeEffect /\ ListIsSound
=============================================================================
