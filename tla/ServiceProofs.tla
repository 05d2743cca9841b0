--------------------------- MODULE ServiceProofs ---------------------------
(***************************************************************************)
(* What the console's services guarantee for any number of editors, users, *)
(* tabs, uploaders, imports and records.  They share nothing: each has its *)
(* own specification, and its theorem rests on its own assumption.         *)
(***************************************************************************)
EXTENDS FiniteSetTheorems, SequenceTheorems, WellFoundedInduction, TLAPS

CONSTANTS
    None,
    Servers, Names, MaxServers, Editors, Requests, MaxWrites,
    Kept, SenderProjects, Heads, Bodies, Users,
    FileNames, SchemaProjects, Uploaders, Readers, MaxUploads,
    Tabs, Publishers, Buffer, MaxEvents,
    Imports, FileBuckets, MaxRecords, ImportBatch,
    MaxEntries, ExportPage,
    MaxVersion, Damaged

VARIABLES
    servers, writes, compiled, edit, read, unborn, deleted, raced,
    open, store, use, unused, asked, passed,
    opened, rows, uploads, upload, registry, lookup, overlapped,
    activeID, subs, chan, sending, announcer, tab, panicked,
    file, import, data, row, orphan,
    kept, export, written, stayed,
    exe, beside, aside, updating, current, latest, archive

INSTANCE Upstreams
INSTANCE Sender
INSTANCE ProtoSchema
INSTANCE EventBus
INSTANCE ProjectImport
INSTANCE ProjectExport
INSTANCE SelfUpdate WITH new <- beside, old <- aside, at <- updating

-----------------------------------------------------------------------------
(* Upstreams.                                                              *)

\* An operation knows its server, and a save its name; so does a request that
\* found a record.
OperationsKnow ==
    /\ \A c \in Editors : /\ edit[c].at # "idle" => edit[c].id \in Servers
                          /\ edit[c].at = "put" => edit[c].name \in Names
    /\ \A r \in Requests : read[r].at \in {"cache", "compile"} => read[r].id \in Servers

\* A function is filed at the version it was built from, and a request files
\* the one it built.
FiledAsBuilt ==
    /\ \A i \in Servers : compiled[i] # None => compiled[i].fn = compiled[i].at
    /\ \A r \in Requests : read[r].at \in {"compile", "over"} => read[r].via = read[r].record

\* While no save was overtaken, one that is about to write and has not been may
\* still write what it checked.
MayWrite(c) ==
    /\ edit[c].id \notin unborn
    /\ ~edit[c].stale =>
          /\ ~Taken(edit[c].name, edit[c].id)
          /\ \/ edit[c].id \in Listed
             \/ edit[c].id \notin deleted /\ Cardinality(Listed) < MaxServers

ListIsKept ==
    raced \/ /\ ListIsSound
             /\ IsFiniteSet(Listed)
             /\ unborn \cap (Listed \cup deleted) = {}
             /\ \A c \in Editors : edit[c].op = "save" /\ edit[c].at = "put" => MayWrite(c)

Editings == [op : {"none", "save", "delete"}, at : {"idle", "put", "forget"},
             id : Servers \cup {None}, name : Names \cup {None}, stale : BOOLEAN]

UpstreamsInv == UpstreamsTypeOK /\ OperationsKnow /\ FiledAsBuilt /\ ListIsKept

\* An operation that is told of a change, or goes on to the functions, is one.
LEMMA StillEditing ==
    ASSUME NEW e \in Editings
    PROVE  /\ Free \in Editings
           /\ [e EXCEPT !.stale = TRUE] \in Editings
           /\ [e EXCEPT !.at = "forget"] \in Editings
BY DEF Editings, Free

\* The types, and what the operations know.
LEMMA UpstreamsTypes ==
    ASSUME UpstreamsAssumption
    PROVE  /\ UpstreamsInit => UpstreamsTypeOK /\ OperationsKnow
           /\ UpstreamsTypeOK /\ OperationsKnow /\ [UpstreamsNext]_upstreamsVars
                 => (UpstreamsTypeOK /\ OperationsKnow)'
<1> USE DEF UpstreamsTypeOK, OperationsKnow
<1>1. ASSUME UpstreamsInit PROVE UpstreamsTypeOK /\ OperationsKnow
  BY <1>1 DEF UpstreamsInit, Free, Ready
<1>2. ASSUME UpstreamsTypeOK, OperationsKnow, [UpstreamsNext]_upstreamsVars
      PROVE  (UpstreamsTypeOK /\ OperationsKnow)'
  <2>1. CASE UNCHANGED upstreamsVars
    BY <1>2, <2>1 DEF upstreamsVars
  <2>2. ASSUME NEW c \in Editors, NEW id \in Servers, NEW name \in Names,
               SaveChecks(c, id, name)
        PROVE  (UpstreamsTypeOK /\ OperationsKnow)'
    BY <1>2, <2>2 DEF SaveChecks
  <2>3. ASSUME NEW c \in Editors, SavePut(c)
        PROVE  (UpstreamsTypeOK /\ OperationsKnow)'
    <3>1. edit[c].id \in Servers /\ edit[c].name \in Names /\ writes' \in Nat
      BY <1>2, <2>3 DEF SavePut
    <3>2. servers' \in [Servers -> [name : Names, at : Nat] \cup {None}]
      BY <1>2, <2>3, <3>1 DEF SavePut
    <3>3. \A d \in Editors :
             edit'[d] \in {Free, [edit[d] EXCEPT !.stale = TRUE], [edit[d] EXCEPT !.at = "forget"]}
      BY <1>2, <2>3 DEF SavePut, Others
    <3>4. edit' = [d \in Editors |-> edit'[d]]
      BY <2>3 DEF SavePut, Others
    <3>5. edit'[c] = [edit[c] EXCEPT !.at = "forget"]
      BY <1>2, <2>3 DEF SavePut, Others
    <3>6. \A d \in Editors \ {c} : edit'[d] \in {Free, [edit[d] EXCEPT !.stale = TRUE]}
      BY <1>2, <2>3 DEF SavePut, Others
    <3>7. edit' \in [Editors -> Editings]
      <4>1. ASSUME NEW d \in Editors PROVE edit'[d] \in Editings
        <5>1. edit[d] \in Editings
          BY <1>2 DEF Editings
        <5>2. /\ Free \in Editings
              /\ [edit[d] EXCEPT !.stale = TRUE] \in Editings
              /\ [edit[d] EXCEPT !.at = "forget"] \in Editings
          BY <5>1, StillEditing
        <5>3. edit'[d] \in {Free, [edit[d] EXCEPT !.stale = TRUE],
                             [edit[d] EXCEPT !.at = "forget"]}
          BY <3>3
        <5> QED
          BY <5>2, <5>3
      <4> QED
        BY <4>1, <3>4
    <3>8. UpstreamsTypeOK'
      BY <1>2, <2>3, <3>1, <3>2, <3>7 DEF SavePut, Editings
    <3>9. OperationsKnow'
      BY <1>2, <2>3, <3>1, <3>5, <3>6 DEF SavePut, Free
    <3> QED
      BY <3>8, <3>9
  <2>4. ASSUME NEW c \in Editors, SaveFails(c) \/ Forget(c)
        PROVE  (UpstreamsTypeOK /\ OperationsKnow)'
    <3>1. edit' = [edit EXCEPT ![c] = Free]
      BY <2>4 DEF SaveFails, Forget
    <3>2. edit' \in [Editors -> Editings]
      BY <1>2, <3>1 DEF Free, Editings
    <3>3. \A d \in Editors : edit'[d] \in {edit[d], Free}
      BY <1>2, <3>1
    <3>4. UpstreamsTypeOK'
      BY <1>2, <2>4, <3>2 DEF SaveFails, Forget, Editings
    <3> QED
      BY <1>2, <2>4, <3>3, <3>4 DEF SaveFails, Forget, Free
  <2>5. ASSUME NEW c \in Editors, NEW id \in Servers, DeleteServer(c, id)
        PROVE  (UpstreamsTypeOK /\ OperationsKnow)'
    <3>1. \A d \in Editors :
             edit'[d] \in {Free, [edit[d] EXCEPT !.stale = TRUE],
                          [op |-> "delete", at |-> "forget", id |-> id, name |-> None,
                           stale |-> FALSE]}
      BY <1>2, <2>5 DEF DeleteServer, Others
    <3>2. edit' = [d \in Editors |-> edit'[d]]
      BY <2>5 DEF DeleteServer, Others
    <3>3. edit' \in [Editors -> Editings]
      <4>1. \A d \in Editors : edit[d] \in Editings
        BY <1>2 DEF Editings
      <4>2. [op |-> "delete", at |-> "forget", id |-> id, name |-> None, stale |-> FALSE]
               \in Editings
        BY DEF Editings
      <4>3. \A d \in Editors : edit'[d] \in Editings
        BY <4>1, <4>2, <3>1, StillEditing
      <4> QED
        BY <4>3, <3>2
    <3>4. UpstreamsTypeOK'
      BY <1>2, <2>5, <3>3 DEF DeleteServer, Editings
    <3>5. OperationsKnow'
      BY <1>2, <2>5, <3>1 DEF DeleteServer, Free
    <3> QED
      BY <3>4, <3>5
  <2>6. ASSUME NEW r \in Requests, NEW id \in Servers, GetRecord(r, id)
        PROVE  (UpstreamsTypeOK /\ OperationsKnow)'
    <3>1. servers[id] # None => servers[id].at \in Nat
      BY <1>2
    <3> QED
      BY <1>2, <2>6, <3>1 DEF GetRecord
  <2>7. ASSUME NEW r \in Requests, LookUp(r)
        PROVE  (UpstreamsTypeOK /\ OperationsKnow)'
    <3>1. Hit(r) => compiled[read[r].id].fn \in Nat
      BY <1>2, <2>7 DEF Hit, LookUp
    <3>2. /\ read[r].record \in Nat /\ read[r].at = "cache"
          /\ UNCHANGED <<servers, writes, compiled, edit, unborn, raced, deleted>>
      BY <1>2, <2>7 DEF LookUp
    <3>3. \E at \in {"over", "compile"}, via \in Nat :
             read' = [read EXCEPT ![r].at = at, ![r].via = via]
      BY <2>7, <3>1, <3>2 DEF LookUp
    <3>4. UpstreamsTypeOK'
      <4>1. read' \in [Requests -> [at : {"idle", "cache", "compile", "over"},
                                   id : Servers \cup {None}, record : Nat, via : Nat]]
        <5>1. PICK at \in {"over", "compile"}, via \in Nat :
                 read' = [read EXCEPT ![r] = [read[r] EXCEPT !.at = at, !.via = via]]
          BY <3>3
        <5>2. [read[r] EXCEPT !.at = at, !.via = via] \in
                 [at : {"idle", "cache", "compile", "over"},
                  id : Servers \cup {None}, record : Nat, via : Nat]
          BY <1>2
        <5> QED
          BY <1>2, <5>1, <5>2
      <4> QED
        BY <1>2, <3>2, <4>1
    <3>5. \A s \in Requests :
             /\ read'[s].id = read[s].id
             /\ read'[s].at \in {"cache", "compile"} => read[s].at \in {"cache", "compile"}
      BY <1>2, <3>2, <3>3
    <3>6. OperationsKnow'
      BY <1>2, <3>2, <3>5
    <3> QED
      BY <3>4, <3>6
  <2>8. ASSUME NEW r \in Requests, File(r) \/ Leaves(r)
        PROVE  (UpstreamsTypeOK /\ OperationsKnow)'
    BY <1>2, <2>8 DEF File, Leaves, Ready
  <2> QED
    BY <1>2, <2>1, <2>2, <2>3, <2>4, <2>5, <2>6, <2>7, <2>8 DEF UpstreamsNext
<1> QED
  BY <1>1, <1>2

\* Functions stay filed as they were built: an edit drops one, a lookup takes
\* one of its own version, and only what was built is filed.
LEMMA FiledStep ==
    ASSUME UpstreamsAssumption, UpstreamsTypeOK, OperationsKnow, FiledAsBuilt,
           [UpstreamsNext]_upstreamsVars
    PROVE  FiledAsBuilt'
<1> USE DEF UpstreamsTypeOK, FiledAsBuilt
<1>1. CASE UNCHANGED upstreamsVars
  BY <1>1 DEF upstreamsVars
<1>2. ASSUME NEW c \in Editors,
             \/ \E id \in Servers, name \in Names : SaveChecks(c, id, name)
             \/ \E id \in Servers : DeleteServer(c, id)
             \/ SavePut(c) \/ SaveFails(c)
      PROVE  FiledAsBuilt'
  BY <1>2 DEF SaveChecks, SavePut, SaveFails, DeleteServer
<1>3. ASSUME NEW c \in Editors, Forget(c) PROVE FiledAsBuilt'
  BY <1>3 DEF Forget
<1>4. ASSUME NEW r \in Requests, NEW id \in Servers, GetRecord(r, id) PROVE FiledAsBuilt'
  BY <1>4 DEF GetRecord
<1>5. ASSUME NEW r \in Requests, LookUp(r) PROVE FiledAsBuilt'
  BY <1>5 DEF LookUp, Hit, OperationsKnow
<1>6. ASSUME NEW r \in Requests, File(r) PROVE FiledAsBuilt'
  BY <1>6 DEF File, OperationsKnow
<1>7. ASSUME NEW r \in Requests, Leaves(r) PROVE FiledAsBuilt'
  BY <1>7 DEF Leaves, Ready
<1> QED
  BY <1>1, <1>2, <1>3, <1>4, <1>5, <1>6, <1>7 DEF UpstreamsNext

\* The list stays sound: only SavePut adds to it, and one that was not overtaken
\* adds what it checked.
LEMMA ListStep ==
    ASSUME UpstreamsAssumption, UpstreamsTypeOK, OperationsKnow, ListIsKept,
           [UpstreamsNext]_upstreamsVars
    PROVE  ListIsKept'
<1> USE DEF UpstreamsTypeOK, ListIsKept, ListIsSound, MayWrite, Listed, Taken
<1>1. CASE UNCHANGED upstreamsVars
  BY <1>1 DEF upstreamsVars
<1>2. ASSUME NEW c \in Editors, NEW id \in Servers, NEW name \in Names,
             SaveChecks(c, id, name)
      PROVE  ListIsKept'
  <2>1. /\ UNCHANGED <<servers, raced, deleted>> /\ unborn' = unborn \ {id}
        /\ edit'[c].id = id /\ edit'[c].name = name
        /\ \A d \in Editors \ {c} : edit'[d] = edit[d]
    BY <1>2 DEF SaveChecks
  <2>2. CASE ~raced
    <3>1. MayWrite(c)'
      BY <1>2, <2>1, <2>2 DEF SaveChecks
    <3>2. \A d \in Editors \ {c} : MayWrite(d) => MayWrite(d)'
      BY <2>1
    <3>3. ListIsSound' /\ IsFiniteSet(Listed)' /\ (unborn \cap (Listed \cup deleted) = {})'
      BY <2>1, <2>2
    <3>4. ASSUME NEW d \in Editors, edit'[d].op = "save", edit'[d].at = "put"
          PROVE  MayWrite(d)'
      BY <2>1, <2>2, <3>1, <3>2, <3>4
    <3> QED
      BY <3>3, <3>4
  <2> QED
    BY <2>1, <2>2
<1>3. ASSUME NEW c \in Editors, SavePut(c) PROVE ListIsKept'
  <2> DEFINE id == edit[c].id
  <2>1. CASE raced'
    BY <2>1
  <2>2. CASE ~raced'
    <3>1. ~raced /\ ~edit[c].stale /\ MayWrite(c) /\ id \in Servers
      BY <1>3, <2>2 DEF SavePut, OperationsKnow
    <3>2. servers'[id] = [name |-> edit[c].name, at |-> writes']
          /\ servers'[id] # None
      BY <1>3, <3>1 DEF SavePut, UpstreamsAssumption, OperationsKnow
    <3>3. \A i \in Servers \ {id} : servers'[i] = servers[i]
      BY <1>3 DEF SavePut
    <3>4. Listed' = Listed \cup {id}
      BY <3>1, <3>2, <3>3
    <3>5. IsFiniteSet(Listed') /\ Cardinality(Listed') <= MaxServers
      <4>1. IsFiniteSet(Listed) /\ Cardinality(Listed) <= MaxServers
        BY <3>1
      <4>2. Cardinality(Listed) \in Nat /\ MaxServers \in Nat
        BY <4>1, FS_CardinalityType DEF UpstreamsAssumption
      <4>3. CASE id \in Listed
        <5>1. Listed' = Listed
          BY <3>4, <4>3
        <5> QED
          BY <4>1, <5>1
      <4>4. CASE id \notin Listed
        <5>1. Cardinality(Listed) < MaxServers
          BY <3>1, <4>4
        <5>2. IsFiniteSet(Listed \cup {id})
              /\ Cardinality(Listed \cup {id}) = Cardinality(Listed) + 1
          BY <4>1, <4>4, FS_AddElement
        <5> QED
          <6> DEFINE size == Cardinality(Listed)
          <6>1. size + 1 <= MaxServers
            BY <4>2, <5>1
          <6> QED
            BY <3>4, <5>2, <6>1
      <4> QED
        BY <4>3, <4>4
    <3>6. \A i \in Listed' : ~Taken(servers[i].name, i)'
      BY <3>1, <3>2, <3>3, <3>4
    <3>7. (Listed \cap deleted)' = {} /\ (unborn \cap (Listed \cup deleted))' = {}
      BY <1>3, <3>1, <3>4 DEF SavePut
    <3>8. \A d \in Editors : edit'[d].op = "save" /\ edit'[d].at = "put" =>
             edit'[d].stale /\ edit'[d].id \notin unborn'
      BY <1>3, <3>1 DEF SavePut, Others
    <3>9. ListIsSound'
      BY <3>5, <3>6, <3>7
    <3> QED
      BY <3>5, <3>7, <3>8, <3>9
  <2> QED
    BY <2>1, <2>2
<1>4. ASSUME NEW c \in Editors, SaveFails(c) \/ Forget(c) PROVE ListIsKept'
  <2>1. UNCHANGED <<servers, unborn, deleted, raced>>
    BY <1>4 DEF SaveFails, Forget
  <2>2. \A d \in Editors : edit'[d] \in {edit[d], Free}
    BY <1>4 DEF SaveFails, Forget
  <2> QED
    BY <2>1, <2>2 DEF Free
<1>5. ASSUME NEW c \in Editors, NEW id \in Servers, DeleteServer(c, id) PROVE ListIsKept'
  <2>1. SUFFICES ASSUME ~raced' PROVE ListIsKept'
    OBVIOUS
  <2>2. Listed' = Listed \ {id} /\ id \in Listed /\ ~raced
    BY <1>5, <2>1 DEF DeleteServer
  <2>3. IsFiniteSet(Listed') /\ Cardinality(Listed') <= MaxServers
    <3>1. IsFiniteSet(Listed) /\ Cardinality(Listed) <= MaxServers
      BY <2>2
    <3>2. IsFiniteSet(Listed \ {id}) /\ Cardinality(Listed \ {id}) = Cardinality(Listed) - 1
      <4> HIDE DEF Listed
      <4> QED
        BY <2>2, <3>1, FS_RemoveElement
    <3>3. Cardinality(Listed) \in Nat /\ MaxServers \in Nat
      BY <3>1, FS_CardinalityType DEF UpstreamsAssumption
    <3> HIDE DEF Listed
    <3> QED
      BY <2>2, <3>1, <3>2, <3>3
  <2>4. \A i \in Listed' : ~Taken(servers[i].name, i)'
    BY <1>5, <2>2 DEF DeleteServer
  <2>5. (Listed \cap deleted)' = {} /\ (unborn \cap (Listed \cup deleted))' = {}
    BY <1>5, <2>2 DEF DeleteServer
  <2>6. \A d \in Editors : edit'[d].op = "save" /\ edit'[d].at = "put" =>
           edit'[d].stale /\ edit'[d].id \notin unborn'
    BY <1>5, <2>2 DEF DeleteServer, Others
  <2>7. ListIsSound'
    BY <2>3, <2>4, <2>5
  <2> QED
    BY <2>3, <2>5, <2>6, <2>7
<1>6. ASSUME NEW r \in Requests,
             (\E id \in Servers : GetRecord(r, id)) \/ LookUp(r) \/ File(r) \/ Leaves(r)
      PROVE  ListIsKept'
  <2>1. UNCHANGED <<servers, edit, unborn, deleted, raced>>
    BY <1>6 DEF GetRecord, LookUp, File, Leaves
  <2> QED
    BY <2>1
<1> QED
  BY <1>1, <1>2, <1>3, <1>4, <1>5, <1>6 DEF UpstreamsNext

\* A request goes out by the function of the record it found, and a save that
\* was not overtaken leaves the list one its checks allow, for any number of
\* servers, editors and requests.
THEOREM ServersAreCurrent ==
    ASSUME UpstreamsAssumption
    PROVE  UpstreamsSpec => []UpstreamsAreCurrent
<1>1. UpstreamsInit => UpstreamsInv
  <2> SUFFICES ASSUME UpstreamsInit PROVE FiledAsBuilt /\ ListIsKept
    BY UpstreamsTypes DEF UpstreamsInv
  <2>1. Listed = {}
    BY DEF UpstreamsInit, Listed
  <2>2. IsFiniteSet(Listed) /\ Cardinality(Listed) = 0
    BY <2>1, FS_EmptySet
  <2>3. ListIsSound
    BY <2>1, <2>2 DEF ListIsSound, UpstreamsAssumption
  <2> QED
    BY <2>1, <2>2, <2>3
       DEF UpstreamsInit, FiledAsBuilt, ListIsKept, Free, Ready
<1>2. UpstreamsInv /\ [UpstreamsNext]_upstreamsVars => UpstreamsInv'
  BY UpstreamsTypes, FiledStep, ListStep DEF UpstreamsInv
<1>3. UpstreamsInv => UpstreamsAreCurrent
  BY DEF UpstreamsInv, FiledAsBuilt, ListIsKept, UpstreamsAreCurrent, EditsTakeEffect,
         ListIsSound
<1> QED
  BY <1>1, <1>2, <1>3, PTL DEF UpstreamsSpec

-----------------------------------------------------------------------------
(* Sender.                                                                 *)

Uses == [at : {"idle", "put", "send"}, place : Places \cup {None},
         record : Records \cup {None}, stale : BOOLEAN]

\* An operation that is under way has a place and a record; one that is about to
\* write an edit has no response in it.
HoldsRecord(u) ==
    /\ use[u].at # "idle" => use[u].place \in Places /\ use[u].record \in Records
    /\ use[u].at = "put" => use[u].record.answers = None

\* A send that nobody has overtaken holds what is stored.
HoldsStored(u) ==
    use[u].at = "send" /\ ~use[u].stale =>
       /\ store[use[u].place] # None
       /\ Asked(store[use[u].place]) = Asked(use[u].record)

SenderInv ==
    /\ SenderTypeOK
    /\ \A u \in Users : HoldsRecord(u) /\ HoldsStored(u)
    /\ SentRequestsAreKept

\* A new request, an edit or a clone has the types of one.
LEMMA RecordsAre ==
    ASSUME NEW h \in Heads, NEW b \in Bodies, NEW a \in Requested \cup {None}
    PROVE  Record(h, b, a) \in Records
BY DEF Record, Records

\* An answered record is one, and asks what it asked.
LEMMA Answered ==
    ASSUME NEW r \in Records
    PROVE  /\ Asked(r) \in Requested
           /\ [r EXCEPT !.answers = Asked(r)] \in Records
           /\ Asked([r EXCEPT !.answers = Asked(r)]) = Asked(r)
           /\ [r EXCEPT !.answers = Asked(r)].answers = Asked(r)
BY DEF Records, Requested, Asked

\* An operation that was told it is out of date, if it is, is otherwise the same.
SameButStale(e, f, is) ==
    /\ f.at = e.at /\ f.place = e.place /\ f.record = e.record
    /\ ~f.stale => ~e.stale /\ ~is

\* What WriteFails and a write's announcement do to an operation under way.
LEMMA Stale ==
    ASSUME NEW e \in Uses, NEW f, NEW is \in BOOLEAN,
           f = IF is THEN [e EXCEPT !.stale = TRUE] ELSE e
    PROVE  SameButStale(e, f, is)
<1>1. CASE is
  BY <1>1 DEF SameButStale, Uses
<1>2. CASE ~is
  BY <1>2 DEF SameButStale, Uses
<1> QED
  BY <1>1, <1>2

\* An operation that took a record in hand.
LEMMA HoldStep ==
    ASSUME SenderAssumption, SenderInv, NEW u \in Users, NEW at \in {"put", "send"},
           NEW k \in Places, NEW r \in Records, Hold(u, at, k, r),
           at = "put" => r.answers = None, at = "send" => store[k] = r,
           UNCHANGED <<open, store, asked, passed>>, unused' \subseteq Kept
    PROVE  SenderInv'
<1> USE DEF SenderInv, SenderTypeOK
<1>1. use' \in [Users -> Uses]
  BY DEF Hold, Uses
<1>2. use'[u] = [at |-> at, place |-> k, record |-> r, stale |-> FALSE]
      /\ \A v \in Users \ {u} : use'[v] = use[v]
  BY DEF Hold
<1>3. SenderTypeOK'
  BY <1>1 DEF Uses
<1>4. store[k] # None \/ at = "put"
  BY DEF SenderAssumption
<1>5. \A v \in Users : (HoldsRecord(v) /\ HoldsStored(v))'
  BY <1>2, <1>4 DEF HoldsRecord, HoldsStored
<1>6. SentRequestsAreKept'
  BY DEF SentRequestsAreKept, ResponsesAnswerTheirRequest, LastEditStands
<1> QED
  BY <1>3, <1>5, <1>6

\* Operations that end write what they hold, or nothing.
LEMMA WriteStep ==
    ASSUME SenderAssumption, SenderInv, NEW u \in Users,
           PutSaved(u) \/ SendPut(u) \/ SendFails(u)
    PROVE  SenderInv'
<1> DEFINE k == use[u].place
           r == use[u].record
<1> USE DEF SenderInv, SenderTypeOK
<1>1. CASE SendFails(u)
  <2>1. use' \in [Users -> Uses]
    BY <1>1 DEF SendFails, Done, Uses
  <2>2. \A v \in Users : use'[v] \in {use[v], Done}
    BY <1>1 DEF SendFails
  <2>3. SenderTypeOK'
    BY <1>1, <2>1 DEF SendFails, Uses
  <2>4. \A v \in Users : (HoldsRecord(v) /\ HoldsStored(v))'
    BY <1>1, <2>2 DEF SendFails, HoldsRecord, HoldsStored, Done
  <2> QED
    BY <1>1, <2>3, <2>4
       DEF SendFails, SentRequestsAreKept, ResponsesAnswerTheirRequest, LastEditStands
<1>2. ASSUME PutSaved(u) \/ SendPut(u) PROVE SenderInv'
  <2>1. k \in Places /\ r \in Records
    BY <1>2 DEF HoldsRecord, PutSaved, SendPut
  <2>2. PICK s \in Records : /\ store' = [store EXCEPT ![k] = s]
                             /\ s.answers \in {None, Asked(s)}
                             /\ Asked(s) = Asked(r)
    <3>1. CASE PutSaved(u)
      BY <2>1, <3>1 DEF PutSaved, HoldsRecord
    <3>2. CASE SendPut(u)
      BY <2>1, <3>2, Answered DEF SendPut
    <3> QED
      BY <1>2, <3>1, <3>2
  <2>3. s # None
    BY <2>2 DEF SenderAssumption
  <2>4. use' = [Overtaken(u, {k}) EXCEPT ![u] = Done] /\ UNCHANGED <<open, unused>>
    BY <1>2 DEF PutSaved, SendPut
  <2>5. /\ use'[u] = Done
        /\ \A v \in Users \ {u} : use'[v] = IF use[v].place = k
                                           THEN [use[v] EXCEPT !.stale = TRUE] ELSE use[v]
    BY <2>4 DEF Overtaken
  <2>6. use' \in [Users -> Uses]
    <3>1. \A v \in Users : use[v] \in Uses /\ [use[v] EXCEPT !.stale = TRUE] \in Uses
      BY DEF Uses
    <3>2. Done \in Uses
      BY DEF Done, Uses
    <3> QED
      BY <2>4, <3>1, <3>2 DEF Overtaken
  <2>7. asked' \in [Places -> Requested \cup {None}] /\ passed' \subseteq Places
    BY <1>2, <2>1, Answered DEF PutSaved, SendPut
  <2>8. SenderTypeOK'
    BY <2>2, <2>4, <2>6, <2>7 DEF Uses
  <2>9. \A v \in Users : (HoldsRecord(v) /\ HoldsStored(v))'
    <3>0. \A v \in Users \ {u} : SameButStale(use[v], use'[v], use[v].place = k)
      <4>1. \A v \in Users : use[v] \in Uses
        BY DEF Uses
      <4> QED
        BY <2>5, <4>1, Stale
    <3>1. \A v \in Users : HoldsRecord(v)'
      BY <2>5, <3>0 DEF HoldsRecord, Done, SameButStale
    <3>2. \A v \in Users \ {u} : HoldsStored(v)'
      <4> TAKE v \in Users \ {u}
      <4>0. SameButStale(use[v], use'[v], use[v].place = k)
        BY <3>0
      <4>1. CASE use[v].place = k
        BY <4>0, <4>1 DEF HoldsStored, SameButStale
      <4>2. CASE use[v].place # k
        <5>1. use'[v].at = "send" => store'[use[v].place] = store[use[v].place]
          BY <2>2, <4>0, <4>2 DEF HoldsRecord, SameButStale
        <5> QED
          BY <4>0, <5>1 DEF HoldsStored, SameButStale
      <4> QED
        BY <4>1, <4>2
    <3>3. HoldsStored(u)'
      BY <2>5 DEF HoldsStored, Done
    <3> QED
      BY <3>1, <3>2, <3>3
  <2>10. ResponsesAnswerTheirRequest'
    BY <2>2 DEF SentRequestsAreKept, ResponsesAnswerTheirRequest
  <2>11. LastEditStands'
    <3>1. CASE PutSaved(u)
      BY <2>1, <2>2, <2>3, <3>1 DEF PutSaved, SentRequestsAreKept, LastEditStands
    <3>2. CASE SendPut(u) /\ use[u].stale
      BY <2>2, <3>2 DEF SendPut, SentRequestsAreKept, LastEditStands
    <3>3. CASE SendPut(u) /\ ~use[u].stale
      <4>1. store[k] # None /\ Asked(store[k]) = Asked(s)
        BY <2>2, <3>3 DEF SendPut, HoldsStored
      <4> QED
        BY <2>2, <2>3, <3>3, <4>1 DEF SendPut, SentRequestsAreKept, LastEditStands
    <3> QED
      BY <1>2, <3>1, <3>2, <3>3
  <2> QED
    BY <2>8, <2>9, <2>10, <2>11 DEF SentRequestsAreKept
<1> QED
  BY <1>1, <1>2

\* What is deleted is deleted for those who hold it too.
LEMMA DropStep ==
    ASSUME SenderAssumption, SenderInv, NEW ks \in SUBSET Places, Drop(ks)
    PROVE  SenderInv'
<1> USE DEF SenderInv, SenderTypeOK
<1>1. \A v \in Users : use'[v] = IF use[v].place \in ks
                                 THEN [use[v] EXCEPT !.stale = TRUE] ELSE use[v]
  BY DEF Drop, Overtaken, SenderAssumption
<1>2. use' \in [Users -> Uses]
  <2>1. \A v \in Users : use[v] \in Uses /\ [use[v] EXCEPT !.stale = TRUE] \in Uses
    BY DEF Uses
  <2> QED
    BY <2>1 DEF Drop, Overtaken
<1>3. \A k \in Places : /\ store'[k] = IF k \in ks THEN None ELSE store[k]
                        /\ asked'[k] = IF k \in ks THEN None ELSE asked[k]
  BY DEF Drop
<1>4. SenderTypeOK'
  BY <1>2 DEF Drop, Uses
<1>5. \A v \in Users : (HoldsRecord(v) /\ HoldsStored(v))'
  <2> TAKE v \in Users
  <2>0. SameButStale(use[v], use'[v], use[v].place \in ks)
    <3>1. use[v] \in Uses
      BY DEF Uses
    <3> QED
      BY <1>1, <3>1 DEF SameButStale, Uses
  <2>1. CASE use[v].place \in ks
    BY <2>0, <2>1 DEF HoldsRecord, HoldsStored, SameButStale
  <2>2. CASE use[v].place \notin ks
    BY <1>3, <2>0, <2>2 DEF HoldsRecord, HoldsStored, SameButStale
  <2> QED
    BY <2>1, <2>2
<1>6. ResponsesAnswerTheirRequest'
  BY <1>3 DEF SentRequestsAreKept, ResponsesAnswerTheirRequest
<1>7. LastEditStands'
  BY <1>3 DEF SentRequestsAreKept, LastEditStands, Drop
<1> QED
  BY <1>4, <1>5, <1>6, <1>7 DEF SentRequestsAreKept

\* A stored response answers the request it is stored with, and what is stored
\* is what the last edit asked for unless it was overtaken, for any number of
\* projects, requests and users.
THEOREM RequestsAreKept ==
    ASSUME SenderAssumption
    PROVE  SenderSpec => []SentRequestsAreKept
<1>1. SenderInit => SenderInv
  BY DEF SenderInit, SenderInv, SenderTypeOK, HoldsRecord, HoldsStored, Done,
         SentRequestsAreKept, ResponsesAnswerTheirRequest, LastEditStands
<1>2. SenderInv /\ [SenderNext]_senderVars => SenderInv'
  <2> SUFFICES ASSUME SenderInv, [SenderNext]_senderVars PROVE SenderInv'
    OBVIOUS
  <2> USE DEF SenderInv, SenderTypeOK
  <2>1. CASE UNCHANGED senderVars
    BY <2>1 DEF senderVars, HoldsRecord, HoldsStored, SentRequestsAreKept,
                ResponsesAnswerTheirRequest, LastEditStands
  <2>2. ASSUME NEW p \in SenderProjects \cup {None}, OpenSender(p) PROVE SenderInv'
    BY <2>2 DEF OpenSender, HoldsRecord, HoldsStored, SentRequestsAreKept,
                ResponsesAnswerTheirRequest, LastEditStands
  <2>3. ASSUME NEW u \in Users, NEW id \in Kept, NEW h \in Heads, NEW b \in Bodies,
               Create(u, id, Record(h, b, None))
        PROVE  SenderInv'
    <3>1. <<open, id>> \in Places /\ Record(h, b, None) \in Records
          /\ Record(h, b, None).answers = None
      BY <2>3, RecordsAre DEF Create, Places, Record
    <3> QED
      BY <2>3, <3>1, HoldStep DEF Create
  <2>4. ASSUME NEW u \in Users, NEW id \in Kept, NEW h \in Heads,
               NEW b \in Bodies \cup {None}, SaveRead(u, id, h, b)
        PROVE  SenderInv'
    <3>1. <<open, id>> \in Places
      BY <2>4 DEF SaveRead, Places
    <3>2. store[<<open, id>>].body \in Bodies
      BY <2>4, <3>1 DEF SaveRead, Records
    <3>3. PICK c \in Bodies : c = IF b = None THEN store[<<open, id>>].body ELSE b
      BY <3>2
    <3>4. Record(h, c, None) \in Records /\ Record(h, c, None).answers = None
      BY RecordsAre DEF Record
    <3> QED
      BY <2>4, <3>1, <3>3, <3>4, HoldStep DEF SaveRead
  <2>5. ASSUME NEW u \in Users, NEW id \in Kept, SendRead(u, id) PROVE SenderInv'
    <3>1. <<open, id>> \in Places
      BY <2>5 DEF SendRead, Places
    <3>2. store[<<open, id>>] \in Records
      BY <2>5, <3>1 DEF SendRead
    <3> QED
      BY <2>5, <3>1, <3>2, HoldStep DEF SendRead
  <2>6. ASSUME NEW u \in Users, NEW id \in Kept, SendNothing(u, id) PROVE SenderInv'
    BY <2>1, <2>6 DEF SendNothing
  <2>7. ASSUME NEW u \in Users, PutSaved(u) \/ SendFails(u) \/ SendPut(u) PROVE SenderInv'
    BY <2>7, WriteStep
  <2>8. ASSUME NEW id \in Kept, DeleteKept(id) PROVE SenderInv'
    <3>1. {<<open, id>>} \in SUBSET Places
      BY <2>8 DEF DeleteKept, Places
    <3> QED
      BY <2>8, <3>1, DropStep DEF DeleteKept
  <2>9. CASE ClearKept
    <3> DEFINE ks == {k \in Places : k[1] = open /\ store[k] # None}
    <3>1. ks \in SUBSET Places /\ Drop(ks)
      BY <2>9 DEF ClearKept
    <3> QED
      BY <3>1, DropStep
  <2> QED
    BY <2>1, <2>2, <2>3, <2>4, <2>5, <2>6, <2>7, <2>8, <2>9 DEF SenderNext
<1>3. SenderInv => SentRequestsAreKept
  BY DEF SenderInv
<1> QED
  BY <1>1, <1>2, <1>3, PTL DEF SenderSpec

-----------------------------------------------------------------------------
(* ProtoSchema.                                                            *)

Uploadings == [at : {"idle", "replace", "invalidate"}, project : SchemaProjects \cup {None},
               seen : SUBSET Schemas, id : Nat, name : FileNames \cup {None},
               imports : SUBSET FileNames, stale : BOOLEAN]

\* Ids are drawn one after the other.
Drawn(S) == \A s \in S : s.id <= uploads

IdsAreDrawn ==
    /\ \A p \in SchemaProjects : Drawn(rows[p])
    /\ \A u \in Uploaders : Drawn(upload[u].seen) /\ upload[u].id <= uploads

\* An upload compiled against what it had listed, and has the list still in hand
\* if no other write came after it.
KnowsList(u) ==
    /\ upload[u].at # "idle" => upload[u].project \in SchemaProjects
    /\ upload[u].at = "replace" =>
          /\ upload[u].name \in FileNames
          /\ Compiles(Sources(upload[u].seen, upload[u].name, upload[u].imports),
                      upload[u].name)
          /\ ~upload[u].stale => rows[upload[u].project] = upload[u].seen

\* The list for the registry is what is stored, or a writer of it will drop the
\* registry once it is built.
ListIsFresh ==
    lookup.by # None =>
       /\ lookup.project \in SchemaProjects
       /\ Writing(lookup.project) \/ lookup.list = rows[lookup.project]

ProtoInv ==
    /\ ProtoTypeOK /\ IdsAreDrawn
    /\ \A u \in Uploaders : KnowsList(u)
    /\ ListIsFresh
    /\ SchemasAreCurrent

\* Numbers have a least one.
LEMMA LeastOf ==
    ASSUME NEW S \in SUBSET Nat, S # {}
    PROVE  \E x \in S : \A y \in S : x <= y
<1> DEFINE Below(x) == {y \in Nat : y < x}
           T == {Below(x) : x \in S}
<1>1. \A x \in S : Below(x) \in FiniteSubsetsOf(Nat)
  <2> TAKE x \in S
  <2>1. Below(x) = 0 .. (x - 1)
    OBVIOUS
  <2>2. IsFiniteSet(0 .. (x - 1))
    BY FS_Interval
  <2> QED
    BY <2>1, <2>2 DEF FiniteSubsetsOf
<1>2. PICK X \in T : \A Y \in T : <<Y, X>> \notin StrictSubsetOrdering(Nat)
  <2>1. T # {} /\ T \subseteq FiniteSubsetsOf(Nat)
    BY <1>1
  <2>2. IsWellFoundedOn(StrictSubsetOrdering(Nat), FiniteSubsetsOf(Nat))
    BY FS_StrictSubsetOrderingWellFounded
  <2> HIDE DEF T
  <2> QED
    BY <2>1, <2>2, WFMin
<1>3. PICK x \in S : X = Below(x)
  OBVIOUS
<1>4. ASSUME NEW y \in S, y < x PROVE FALSE
  <2>1. Below(y) \in T /\ Below(y) \subseteq Below(x) /\ Below(y) # Below(x)
    BY <1>4
  <2> QED
    BY <1>1, <1>2, <1>3, <2>1 DEF StrictSubsetOrdering, FiniteSubsetsOf
<1> QED
  BY <1>4

\* Of some schemas there is a first, and a last of those that were drawn.
LEMMA FirstIsOne ==
    ASSUME NEW S \in SUBSET Schemas, S # {}
    PROVE  First(S) \in S
<1>1. PICK n \in {s.id : s \in S} : \A m \in {s.id : s \in S} : n <= m
  <2>1. {s.id : s \in S} \in SUBSET Nat /\ {s.id : s \in S} # {}
    BY DEF Schemas
  <2> QED
    BY <2>1, LeastOf
<1>2. \E s \in S : \A t \in S : s.id <= t.id
  BY <1>1
<1> QED
  BY <1>2 DEF First

\* The newest row is one of the rows.
LEMMA LastIsOne ==
    ASSUME uploads \in Nat, NEW S \in SUBSET Schemas, S # {}, Drawn(S)
    PROVE  Newest(S) \in S
<1> DEFINE T == {uploads - s.id : s \in S}
<1>1. T \in SUBSET Nat /\ T # {}
  BY DEF Schemas, Drawn
<1>2. PICK n \in T : \A m \in T : n <= m
  BY <1>1, LeastOf
<1>3. PICK s \in S : n = uploads - s.id
  BY <1>2
<1>4. ASSUME NEW t \in S PROVE t.id <= s.id
  <2>1. n <= uploads - t.id
    BY <1>2
  <2> QED
    BY <1>3, <2>1 DEF Schemas
<1> QED
  BY <1>4 DEF Newest

\* What a compilation carries is of uploads.
LEMMA CarriedIs ==
    ASSUME ProtoTypeOK, IdsAreDrawn, NEW u \in Uploaders, KnowsList(u),
           upload[u].at = "replace"
    PROVE  Carried(u) \in [FileNames -> Nat \cup {None}]
<1> DEFINE r == upload[u]
           src == Sources(r.seen, r.name, r.imports)
           in == Reached(src, r.name)
<1>1. r \in Uploadings
  BY DEF ProtoTypeOK, Uploadings
<1>2. ASSUME NEW f \in FileNames, f # r.name, f \in in
      PROVE  Newest(Named(r.seen, f)).id \in Nat
  <2>1. src[f] # None
    BY <1>2 DEF KnowsList, Compiles
  <2>2. Named(r.seen, f) # {}
    BY <1>2, <2>1 DEF Sources
  <2>3. Named(r.seen, f) \in SUBSET Schemas /\ Drawn(Named(r.seen, f))
    BY <1>1 DEF Named, Uploadings, IdsAreDrawn, Drawn
  <2>4. Newest(Named(r.seen, f)) \in Schemas
    BY <2>2, <2>3, LastIsOne DEF ProtoTypeOK
  <2> QED
    BY <2>4 DEF Schemas
<1> HIDE DEF in
<1>3. \A f \in FileNames : (IF f = r.name THEN r.id
                            ELSE IF f \in in THEN Newest(Named(r.seen, f)).id ELSE None)
                           \in Nat \cup {None}
  BY <1>1, <1>2 DEF Uploadings
<1> QED
  BY <1>3 DEF Carried, in

\* What a registry has is of uploads.
LEMMA MergeIs ==
    ASSUME NEW S \in SUBSET Schemas
    PROVE  Merge(S) \in [FileNames -> Nat \cup {None}]
<1>1. ASSUME NEW f \in FileNames, {s \in S : s.carries[f] # None} # {}
      PROVE  First({s \in S : s.carries[f] # None}).carries[f] \in Nat \cup {None}
  <2>1. First({s \in S : s.carries[f] # None}) \in Schemas
    BY <1>1, FirstIsOne
  <2> QED
    BY <2>1 DEF Schemas
<1> QED
  BY <1>1 DEF Merge

\* A write of a project's rows: whoever listed them is told, and the writer has
\* yet to drop the registry.
LEMMA RowsWritten ==
    ASSUME ProtoSchemaAssumption, ProtoInv,
           NEW u \in Uploaders, NEW p \in SchemaProjects, NEW S \in SUBSET Schemas, Drawn(S),
           NEW e \in Uploadings, e.at = "invalidate", e.project = p, Drawn(e.seen),
           e.id <= uploads, upload[u].at # "invalidate",
           rows' = [rows EXCEPT ![p] = S], upload' = [Outdated(u, p) EXCEPT ![u] = e],
           UNCHANGED <<opened, uploads, registry, lookup>>,
           overlapped' \in BOOLEAN, OneSchemaOfAName'
    PROVE  ProtoInv'
<1> USE DEF ProtoInv, ProtoTypeOK
<1>1. \A v \in Uploaders : upload[v] \in Uploadings
  BY DEF Uploadings
<1>2. /\ upload'[u] = e
      /\ \A v \in Uploaders \ {u} : upload'[v] = IF upload[v].project = p
                                                THEN [upload[v] EXCEPT !.stale = TRUE]
                                                ELSE upload[v]
  BY DEF Outdated
<1>3. upload' \in [Uploaders -> Uploadings]
  <2>1. \A v \in Uploaders : [upload[v] EXCEPT !.stale = TRUE] \in Uploadings
    BY <1>1 DEF Uploadings
  <2> QED
    BY <1>1, <2>1 DEF Outdated
<1>4. \A v \in Uploaders \ {u} :
         /\ upload'[v].at = upload[v].at /\ upload'[v].project = upload[v].project
         /\ upload'[v].seen = upload[v].seen /\ upload'[v].id = upload[v].id
         /\ upload'[v].name = upload[v].name /\ upload'[v].imports = upload[v].imports
         /\ ~upload'[v].stale => ~upload[v].stale /\ upload[v].project # p
  <2> TAKE v \in Uploaders \ {u}
  <2>1. upload[v] \in Uploadings
    BY <1>1
  <2>2. CASE upload[v].project = p
    <3>1. upload'[v] = [upload[v] EXCEPT !.stale = TRUE]
      BY <1>2, <2>2
    <3>2. upload'[v].stale
      BY <2>1, <3>1 DEF Uploadings
    <3> QED
      BY <2>1, <3>1, <3>2 DEF Uploadings
  <2>3. CASE upload[v].project # p
    BY <1>2, <2>3
  <2> QED
    BY <2>2, <2>3
<1>5. \A q \in SchemaProjects \ {p} : rows'[q] = rows[q]
  OBVIOUS
<1>6. rows'[p] = S
  OBVIOUS
<1>7. ProtoTypeOK'
  BY <1>3 DEF Uploadings
<1>8. IdsAreDrawn'
  BY <1>2, <1>4, <1>5, <1>6 DEF IdsAreDrawn, Drawn
<1>9. \A v \in Uploaders : KnowsList(v)'
  <2>1. KnowsList(u)'
    BY <1>2 DEF KnowsList
  <2>2. ASSUME NEW v \in Uploaders \ {u} PROVE KnowsList(v)'
    <3>1. ~upload'[v].stale => rows'[upload[v].project] = rows[upload[v].project]
      BY <1>4
    <3> QED
      BY <1>4, <2>2, <3>1 DEF KnowsList
  <2> QED
    BY <2>1, <2>2
<1>10. Writing(p)'
  BY <1>2 DEF Writing
<1>11. \A q : Writing(q) => Writing(q)'
  BY <1>4 DEF Writing
<1>12. ListIsFresh'
  <2> SUFFICES ASSUME lookup.by # None PROVE ListIsFresh'
    BY DEF ListIsFresh
  <2>1. CASE lookup.project = p
    BY <1>10, <2>1 DEF ListIsFresh
  <2>2. CASE lookup.project # p
    BY <1>5, <1>11, <2>2 DEF ListIsFresh
  <2> QED
    BY <2>1, <2>2
<1>13. RegistryIsFresh'
  <2> SUFFICES ASSUME registry.project # None PROVE RegistryIsFresh'
    BY DEF RegistryIsFresh
  <2>1. CASE registry.project = p
    BY <1>10, <2>1 DEF RegistryIsFresh
  <2>2. CASE registry.project # p
    BY <1>5, <1>11, <2>2 DEF RegistryIsFresh, SchemasAreCurrent
  <2> QED
    BY <2>1, <2>2
<1> QED
  BY <1>7, <1>8, <1>9, <1>12, <1>13 DEF SchemasAreCurrent

\* An upload and a deletion write rows.
LEMMA UploadWrites ==
    ASSUME ProtoSchemaAssumption, ProtoInv, NEW u \in Uploaders, UploadReplaces(u)
    PROVE  ProtoInv'
<1> DEFINE r == upload[u]
           new == Schema(r.id, r.name, r.imports, Carried(u))
           drop == {s.id : s \in Named(r.seen, r.name)}
           left == {s \in rows[r.project] : s.id \notin drop}
<1> USE DEF ProtoInv, ProtoTypeOK
<1>1. r \in Uploadings /\ r.at = "replace" /\ r.project \in SchemaProjects
      /\ r.name \in FileNames
  BY DEF Uploadings, UploadReplaces, KnowsList
<1>2. new \in Schemas /\ new.id = r.id /\ new.name = r.name
  <2>1. Carried(u) \in [FileNames -> Nat \cup {None}]
    BY <1>1, CarriedIs
  <2> QED
    BY <1>1, <2>1 DEF Schema, Schemas, Uploadings
<1>3. left \cup {new} \in SUBSET Schemas /\ Drawn(left \cup {new})
  BY <1>1, <1>2 DEF IdsAreDrawn, Drawn
<1>4. rows' = [rows EXCEPT ![r.project] = left \cup {new}]
  BY DEF UploadReplaces
<1> DEFINE e == [r EXCEPT !.at = "invalidate"]
<1>5. e \in Uploadings /\ e.at = "invalidate" /\ e.project = r.project /\ e.seen = r.seen
      /\ e.id = r.id
  BY <1>1 DEF Uploadings
<1>6. OneSchemaOfAName'
  <2> SUFFICES ASSUME ~overlapped' PROVE OneSchemaOfAName'
    BY DEF OneSchemaOfAName
  <2>1. ~overlapped /\ rows[r.project] = r.seen
    BY <1>1 DEF UploadReplaces, KnowsList
  <2>2. \A s \in left : s.name # new.name
    BY <1>2, <2>1 DEF Named
  <2>3. \A q \in SchemaProjects : \A s, t \in rows[q] : s.name = t.name => s = t
    BY <2>1 DEF SchemasAreCurrent, OneSchemaOfAName
  <2>4. \A s, t \in left \cup {new} : s.name = t.name => s = t
    BY <1>1, <2>2, <2>3
  <2> QED
    BY <1>1, <1>4, <2>3, <2>4 DEF OneSchemaOfAName
<1>7. /\ upload' = [Outdated(u, r.project) EXCEPT ![u] = e]
      /\ UNCHANGED <<opened, uploads, registry, lookup>> /\ overlapped' \in BOOLEAN
  BY <1>1 DEF UploadReplaces, Uploadings
<1>8. Drawn(e.seen) /\ e.id <= uploads
  BY <1>5 DEF IdsAreDrawn, Drawn
<1> HIDE DEF new, left, e
<1> QED
  BY <1>1, <1>3, <1>4, <1>5, <1>6, <1>7, <1>8, RowsWritten

\* A deletion writes the rows without one of them, as an upload does.
LEMMA DeleteWrites ==
    ASSUME ProtoSchemaAssumption, ProtoInv, NEW u \in Uploaders, NEW id \in Nat,
           DeleteSchema(u, id)
    PROVE  ProtoInv'
<1> DEFINE S == {s \in rows[opened] : s.id # id}
           e == WithoutList("invalidate", opened)
<1> USE DEF ProtoInv, ProtoTypeOK
<1>1. S \in SUBSET Schemas /\ Drawn(S) /\ rows' = [rows EXCEPT ![opened] = S]
  BY DEF DeleteSchema, IdsAreDrawn, Drawn
<1>2. e \in Uploadings /\ e.at = "invalidate" /\ e.project = opened /\ Drawn(e.seen)
      /\ e.id <= uploads
  BY DEF WithoutList, Uploadings, Drawn
<1>3. OneSchemaOfAName'
  BY <1>1 DEF DeleteSchema, SchemasAreCurrent, OneSchemaOfAName
<1>4. /\ upload' = [Outdated(u, opened) EXCEPT ![u] = e]
      /\ upload[u].at # "invalidate"
      /\ UNCHANGED <<opened, uploads, registry, lookup>> /\ overlapped' \in BOOLEAN
  BY DEF DeleteSchema
<1> HIDE DEF S, e
<1> QED
  BY <1>1, <1>2, <1>3, <1>4, RowsWritten

\* The cached registry is the one that the stored schemas give unless their writer
\* is about to drop it, and one of a name is stored unless an upload was overtaken,
\* for any number of files, projects, uploaders and readers.
THEOREM SchemasStayCurrent ==
    ASSUME ProtoSchemaAssumption
    PROVE  ProtoSpec => []SchemasAreCurrent
<1> USE DEF ProtoInv, ProtoTypeOK
<1>1. ProtoInit => ProtoInv
  <2> SUFFICES ASSUME ProtoInit PROVE ProtoInv
    OBVIOUS
  <2> USE DEF ProtoInit
  <2>1. ProtoTypeOK
    BY DEF Unbuilt, Unused, WithoutList, Unlooked
  <2>2. IdsAreDrawn /\ \A u \in Uploaders : KnowsList(u)
    BY DEF Unused, WithoutList, IdsAreDrawn, Drawn, KnowsList
  <2>3. ListIsFresh /\ SchemasAreCurrent
    BY DEF Unbuilt, Unlooked, ListIsFresh, SchemasAreCurrent, RegistryIsFresh,
           OneSchemaOfAName
  <2> QED
    BY <2>1, <2>2, <2>3
<1>2. ProtoInv /\ [ProtoNext]_protoVars => ProtoInv'
  <2> SUFFICES ASSUME ProtoInv, [ProtoNext]_protoVars PROVE ProtoInv'
    OBVIOUS
  <2>1. CASE UNCHANGED protoVars
    BY <2>1 DEF protoVars, IdsAreDrawn, Drawn, KnowsList, ListIsFresh, Writing,
                SchemasAreCurrent, RegistryIsFresh, OneSchemaOfAName
  <2>2. ASSUME NEW p \in SchemaProjects, OpenSchemas(p) PROVE ProtoInv'
    BY <2>2 DEF OpenSchemas, IdsAreDrawn, Drawn, KnowsList, ListIsFresh, Writing,
                SchemasAreCurrent, RegistryIsFresh, OneSchemaOfAName
  <2>3. ASSUME NEW u \in Uploaders, NEW name \in FileNames, NEW imports \in SUBSET FileNames,
               UploadReads(u, name, imports)
        PROVE  ProtoInv'
    <3> DEFINE e == [at |-> "replace", project |-> opened, seen |-> rows[opened],
                     id |-> uploads + 1, name |-> name, imports |-> imports, stale |-> FALSE]
    <3>1. upload' = [upload EXCEPT ![u] = e] /\ e \in Uploadings
      BY <2>3 DEF UploadReads, Uploadings
    <3>2. ProtoTypeOK'
      BY <2>3, <3>1 DEF UploadReads, Uploadings
    <3>3. IdsAreDrawn'
      BY <2>3, <3>1 DEF UploadReads, IdsAreDrawn, Drawn, Schemas
    <3>4. \A v \in Uploaders : KnowsList(v)'
      BY <2>3, <3>1 DEF UploadReads, KnowsList
    <3>5. \A q : Writing(q)' <=> Writing(q)
      BY <2>3, <3>1 DEF UploadReads, Writing
    <3>6. ListIsFresh' /\ SchemasAreCurrent'
      BY <2>3, <3>5 DEF UploadReads, ListIsFresh, SchemasAreCurrent, RegistryIsFresh,
                        OneSchemaOfAName
    <3> QED
      BY <3>2, <3>3, <3>4, <3>6
  <2>4. ASSUME NEW u \in Uploaders, UploadReplaces(u) PROVE ProtoInv'
    BY <2>4, UploadWrites
  <2>5. ASSUME NEW u \in Uploaders, UploadFails(u) PROVE ProtoInv'
    <3>1. \A v \in Uploaders : upload'[v] \in {upload[v], Unused}
      BY <2>5 DEF UploadFails
    <3>2. ProtoTypeOK'
      BY <2>5 DEF UploadFails, Unused, WithoutList
    <3>3. IdsAreDrawn' /\ \A v \in Uploaders : KnowsList(v)'
      BY <2>5, <3>1 DEF UploadFails, Unused, WithoutList, IdsAreDrawn, Drawn, KnowsList
    <3>4. \A q : Writing(q)' <=> Writing(q)
      BY <2>5 DEF UploadFails, Unused, WithoutList, Writing
    <3>5. ListIsFresh' /\ SchemasAreCurrent'
      BY <2>5, <3>4 DEF UploadFails, ListIsFresh, SchemasAreCurrent, RegistryIsFresh,
                        OneSchemaOfAName
    <3> QED
      BY <3>2, <3>3, <3>5
  <2>6. ASSUME NEW u \in Uploaders, Invalidate(u) PROVE ProtoInv'
    <3>1. \A v \in Uploaders : upload'[v] \in {upload[v], Unused}
      BY <2>6 DEF Invalidate
    <3>2. ProtoTypeOK'
      BY <2>6 DEF Invalidate, Unused, WithoutList, Unbuilt
    <3>3. IdsAreDrawn' /\ \A v \in Uploaders : KnowsList(v)'
      BY <2>6, <3>1 DEF Invalidate, Unused, WithoutList, IdsAreDrawn, Drawn, KnowsList
    <3>4. ListIsFresh' /\ SchemasAreCurrent'
      BY <2>6 DEF Invalidate, Unbuilt, ListIsFresh, SchemasAreCurrent, RegistryIsFresh,
                  OneSchemaOfAName
    <3> QED
      BY <3>2, <3>3, <3>4
  <2>7. ASSUME NEW u \in Uploaders, NEW id \in 1 .. MaxUploads, DeleteSchema(u, id)
        PROVE  ProtoInv'
    <3>1. id \in Nat
      BY DEF ProtoSchemaAssumption
    <3> QED
      BY <2>7, <3>1, DeleteWrites
  <2>8. ASSUME NEW r \in Readers, FilesList(r) PROVE ProtoInv'
    BY <2>8 DEF FilesList, IdsAreDrawn, Drawn, KnowsList, ListIsFresh, Writing,
                SchemasAreCurrent, RegistryIsFresh, OneSchemaOfAName
  <2>9. CASE FilesBuild
    <3>1. Merge(lookup.list) \in [FileNames -> Nat \cup {None}]
      BY MergeIs
    <3>2. registry' = [project |-> lookup.project, files |-> Merge(lookup.list)]
      BY <2>9 DEF FilesBuild
    <3>3. ProtoTypeOK'
      BY <2>9, <3>1 DEF FilesBuild, Unlooked
    <3>4. IdsAreDrawn' /\ \A v \in Uploaders : KnowsList(v)'
      BY <2>9 DEF FilesBuild, IdsAreDrawn, Drawn, KnowsList
    <3>5. \A q : Writing(q)' <=> Writing(q)
      BY <2>9 DEF FilesBuild, Writing
    <3>6. RegistryIsFresh'
      BY <2>9, <3>2, <3>5 DEF FilesBuild, ListIsFresh, RegistryIsFresh
    <3>7. ListIsFresh' /\ OneSchemaOfAName'
      BY <2>9 DEF FilesBuild, Unlooked, ListIsFresh, SchemasAreCurrent, OneSchemaOfAName
    <3> QED
      BY <3>3, <3>4, <3>6, <3>7 DEF SchemasAreCurrent
  <2>10. CASE FilesFails
    BY <2>10 DEF FilesFails, Unlooked, IdsAreDrawn, Drawn, KnowsList, ListIsFresh, Writing,
                SchemasAreCurrent, RegistryIsFresh, OneSchemaOfAName
  <2> QED
    BY <2>1, <2>2, <2>3, <2>4, <2>5, <2>6, <2>7, <2>8, <2>9, <2>10 DEF ProtoNext
<1>3. ProtoInv => SchemasAreCurrent
  OBVIOUS
<1> QED
  BY <1>1, <1>2, <1>3, PTL DEF ProtoSpec

-----------------------------------------------------------------------------
(* EventBus.                                                               *)

\* What a tab will show when it has read all it was sent.
Latest(t) == IF chan[t].queue = <<>> THEN tab[t].shown
             ELSE chan[t].queue[Len(chan[t].queue)]

\* Who reads is subscribed, to a channel that is open.
ReadersSubscribe ==
    /\ \A t \in Tabs : tab[t].at = "reading" <=> t \in subs
    /\ \A t \in subs : ~chan[t].closed

\* The lock is held for the announcement of the latest change, to subscribers.
SendersAnnounce ==
    \A p \in Publishers : sending[p] # None =>
       announcer = p /\ sending[p].event = activeID /\ sending[p].left \subseteq subs

\* A change is being announced, and the lock is not taken yet.
Unannounced == announcer # None /\ sending[announcer] = None

\* A tab that has missed nothing will show the open project, or is about to be
\* told of it.
WillShow(t) ==
    ~tab[t].lost =>
       /\ tab[t].at = "reading" =>
             \/ Latest(t) = activeID
             \/ Unannounced
             \/ announcer # None /\ t \in sending[announcer].left
       /\ tab[t].at = "greeted" => tab[t].shown = activeID \/ Unannounced

BusInv ==
    /\ BusTypeOK /\ ReadersSubscribe /\ SendersAnnounce
    /\ \A t \in Tabs : WillShow(t)
    /\ NoSendAfterClose

Channels == [queue : Seq(Nat), closed : BOOLEAN]

Streams == [at : {"idle", "greeted", "reading", "unsubscribed"}, shown : Nat, lost : BOOLEAN]

\* What publishers do keeps the invariant.
LEMMA PublisherStep ==
    ASSUME EventBusAssumption, BusInv, NEW p \in Publishers,
           Change(p) \/ PublishLocks(p) \/ PublishUnlocks(p)
    PROVE  BusInv'
<1> USE DEF BusInv, BusTypeOK
<1>0. p # None
  BY DEF EventBusAssumption
<1>1. CASE Change(p)
  <2>1. sending[p] = None
    BY <1>0, <1>1 DEF Change, SendersAnnounce
  <2>2. Unannounced'
    BY <1>0, <1>1, <2>1 DEF Change, Unannounced
  <2>3. BusTypeOK' /\ ReadersSubscribe' /\ NoSendAfterClose'
    BY <1>1 DEF Change, ReadersSubscribe, NoSendAfterClose
  <2>4. SendersAnnounce'
    BY <1>0, <1>1 DEF Change, SendersAnnounce, EventBusAssumption
  <2>5. \A t \in Tabs : WillShow(t)'
    BY <2>2 DEF WillShow
  <2> QED
    BY <2>3, <2>4, <2>5
<1>2. CASE PublishLocks(p)
  <2> DEFINE e == [event |-> activeID, left |-> subs]
  <2>1. e # None /\ sending' = [sending EXCEPT ![p] = e] /\ e \in [event : Nat, left : SUBSET Tabs]
    BY <1>2 DEF PublishLocks, EventBusAssumption
  <2>2. \A t \in Tabs : tab'[t] = IF tab[t].at = "greeted" /\ t \notin subs
                                  THEN [tab[t] EXCEPT !.lost = TRUE] ELSE tab[t]
    BY <1>2 DEF PublishLocks
  <2>3. tab' \in [Tabs -> Streams]
    <3>1. \A t \in Tabs : tab[t] \in Streams /\ [tab[t] EXCEPT !.lost = TRUE] \in Streams
      BY DEF Streams
    <3> QED
      BY <1>2, <3>1 DEF PublishLocks
  <2>4. BusTypeOK'
    BY <1>2, <2>1, <2>3 DEF PublishLocks, Streams
  <2>5. \A t \in Tabs : /\ tab'[t].at = tab[t].at /\ tab'[t].shown = tab[t].shown
                        /\ tab[t].at = "greeted" => tab'[t].lost
                        /\ tab[t].at # "greeted" => tab'[t].lost = tab[t].lost
    BY <2>2 DEF ReadersSubscribe
  <2>6. ReadersSubscribe' /\ SendersAnnounce' /\ NoSendAfterClose'
    BY <1>2, <2>1, <2>5 DEF PublishLocks, ReadersSubscribe, SendersAnnounce, NoSendAfterClose
  <2>7. \A t \in Tabs : WillShow(t)'
    <3> TAKE t \in Tabs
    <3>1. CASE tab[t].at = "reading"
      <4>1. announcer' = p /\ sending'[p].left = subs /\ t \in subs
        BY <1>2, <2>1, <3>1 DEF PublishLocks, ReadersSubscribe
      <4> QED
        BY <1>0, <2>5, <3>1, <4>1 DEF WillShow
    <3>2. CASE tab[t].at # "reading"
      BY <2>5, <3>2 DEF WillShow
    <3> QED
      BY <3>1, <3>2
  <2> QED
    BY <2>4, <2>6, <2>7
<1>3. CASE PublishUnlocks(p)
  <2>1. announcer = p /\ sending[p].left = {}
    BY <1>3 DEF PublishUnlocks, SendersAnnounce
  <2>2. BusTypeOK' /\ ReadersSubscribe' /\ NoSendAfterClose'
    BY <1>3 DEF PublishUnlocks, ReadersSubscribe, NoSendAfterClose
  <2>3. SendersAnnounce'
    BY <1>3, <2>1 DEF PublishUnlocks, SendersAnnounce
  <2>4. \A t \in Tabs : WillShow(t)'
    BY <1>3, <2>1 DEF PublishUnlocks, WillShow, Unannounced, Latest
  <2> QED
    BY <2>2, <2>3, <2>4
<1> QED
  BY <1>1, <1>2, <1>3

\* An event that finds room is the last one of its channel.
LEMMA Appended ==
    ASSUME NEW q \in Seq(Nat), NEW e \in Nat
    PROVE  /\ Append(q, e) \in Seq(Nat) /\ Append(q, e) # <<>>
           /\ Append(q, e)[Len(Append(q, e))] = e
OBVIOUS

\* A delivery is to a channel that is open.
LEMMA DeliverStep ==
    ASSUME EventBusAssumption, BusInv, NEW p \in Publishers, NEW t \in Tabs, Deliver(p, t)
    PROVE  BusInv'
<1> USE DEF BusInv, BusTypeOK
<1> DEFINE e == sending[p]
           q == chan[t].queue
<1>0. p # None
  BY DEF EventBusAssumption
<1>1. /\ e \in [event : Nat, left : SUBSET Tabs] /\ t \in e.left
      /\ announcer = p /\ e.event = activeID /\ e.left \subseteq subs
  BY DEF Deliver, SendersAnnounce
<1>2. t \in subs /\ ~chan[t].closed /\ tab[t].at = "reading"
  BY <1>1 DEF ReadersSubscribe
<1>3. sending' = [sending EXCEPT ![p] = [event |-> e.event, left |-> e.left \ {t}]]
  <2>1. sending' = [sending EXCEPT ![p] = [e EXCEPT !.left = e.left \ {t}]]
    BY DEF Deliver
  <2>2. ASSUME NEW f \in [event : Nat, left : SUBSET Tabs], NEW L \in SUBSET Tabs
        PROVE  [f EXCEPT !.left = L] = [event |-> f.event, left |-> L]
    OBVIOUS
  <2>3. [e EXCEPT !.left = e.left \ {t}] = [event |-> e.event, left |-> e.left \ {t}]
    BY <1>1, <2>2
  <2> QED
    BY <2>1, <2>3
<1>4. /\ sending' \in [Publishers -> [event : Nat, left : SUBSET Tabs] \cup {None}]
      /\ sending'[p].left = e.left \ {t} /\ sending'[p].event = e.event
      /\ \A r \in Publishers \ {p} : sending'[r] = sending[r]
  BY <1>1, <1>3
<1>5. NoSendAfterClose'
  BY <1>2 DEF Deliver, NoSendAfterClose
<1>6. SendersAnnounce'
  BY <1>1, <1>4 DEF Deliver, SendersAnnounce
<1>7. CASE Len(q) < Buffer
  <2>1. chan' = [chan EXCEPT ![t].queue = Append(q, e.event)] /\ UNCHANGED tab
    BY <1>7 DEF Deliver
  <2>2. Append(q, e.event) \in Seq(Nat) /\ Append(q, e.event) # <<>>
        /\ Append(q, e.event)[Len(Append(q, e.event))] = e.event
    BY <1>1, Appended
  <2>3. chan'[t].queue = Append(q, e.event) /\ chan'[t].closed = chan[t].closed
        /\ \A s \in Tabs \ {t} : chan'[s] = chan[s]
    BY <2>1
  <2>4. BusTypeOK'
    <3>1. chan' \in [Tabs -> [queue : Seq(Nat), closed : BOOLEAN]]
      BY <2>1, <2>2
    <3> QED
      BY <1>4, <2>1, <3>1 DEF Deliver
  <2>5. ReadersSubscribe'
    BY <2>1, <2>3 DEF Deliver, ReadersSubscribe
  <2>6. \A s \in Tabs : WillShow(s)'
    <3>1. Latest(t)' = activeID'
      BY <1>1, <2>2, <2>3 DEF Deliver, Latest
    <3>2. ASSUME NEW s \in Tabs \ {t} PROVE WillShow(s)'
      <4>1. Latest(s)' = Latest(s) /\ tab'[s] = tab[s]
        BY <2>1, <2>3 DEF Latest
      <4>2. ~Unannounced
        BY <1>1 DEF Deliver, Unannounced
      <4> QED
        BY <1>1, <1>4, <4>1, <4>2 DEF Deliver, WillShow
    <3>3. WillShow(t)'
      BY <1>2, <2>1, <3>1 DEF WillShow
    <3> QED
      BY <3>2, <3>3
  <2> QED
    BY <1>5, <1>6, <2>4, <2>5, <2>6
<1>8. CASE ~(Len(q) < Buffer)
  <2>1. tab' = [tab EXCEPT ![t].lost = TRUE] /\ UNCHANGED chan
    BY <1>8 DEF Deliver
  <2>2. BusTypeOK'
    <3>1. tab' \in [Tabs -> [at : {"idle", "greeted", "reading", "unsubscribed"},
                            shown : Nat, lost : BOOLEAN]]
      BY <2>1
    <3> QED
      BY <1>4, <2>1, <3>1 DEF Deliver
  <2>3. ReadersSubscribe'
    BY <2>1 DEF Deliver, ReadersSubscribe
  <2>4. \A s \in Tabs : WillShow(s)'
    <3>1. ASSUME NEW s \in Tabs \ {t} PROVE WillShow(s)'
      <4>1. Latest(s)' = Latest(s) /\ tab'[s] = tab[s]
        BY <2>1 DEF Latest
      <4>2. ~Unannounced
        BY <1>1 DEF Deliver, Unannounced
      <4> QED
        BY <1>1, <1>4, <4>1, <4>2 DEF Deliver, WillShow
    <3>2. tab'[t].lost
      BY <2>1
    <3>3. WillShow(t)'
      BY <3>2 DEF WillShow
    <3> QED
      BY <3>1, <3>3
  <2> QED
    BY <1>5, <1>6, <2>2, <2>3, <2>4
<1> QED
  BY <1>7, <1>8

\* What a tab reads leaves the last of its events where it is, or shows it.
LEMMA Shown ==
    ASSUME NEW q \in Seq(Nat), q # <<>>
    PROVE  /\ Head(q) \in Nat /\ Tail(q) \in Seq(Nat)
           /\ IF Tail(q) = <<>> THEN Head(q) = q[Len(q)]
              ELSE Tail(q)[Len(Tail(q))] = q[Len(q)]
<1> DEFINE t == Tail(q)
<1>1. Head(q) = q[1] /\ Head(q) \in Nat /\ t \in Seq(Nat)
  OBVIOUS
<1>2. Len(q) \in Nat \ {0} /\ Len(t) = Len(q) - 1 /\ \A i \in 1 .. Len(t) : t[i] = q[i + 1]
  BY EmptySeq, HeadTailProperties
<1> HIDE DEF t
<1>3. CASE t = <<>>
  <2>1. Len(t) = 0
    BY <1>3, EmptySeq
  <2>2. Len(q) = 1
    BY <1>2, <2>1
  <2>3. Head(q) = q[Len(q)]
    BY <1>1, <2>2
  <2> QED
    BY <1>1, <1>3, <2>3 DEF t
<1>4. CASE t # <<>>
  <2>1. Len(t) \in Nat \ {0}
    BY <1>1, <1>4, EmptySeq
  <2>2. t[Len(t)] = q[Len(t) + 1] /\ Len(t) + 1 = Len(q)
    BY <1>2, <2>1
  <2> QED
    BY <1>1, <1>4, <2>2 DEF t
<1> QED
  BY <1>3, <1>4

\* What a tab's stream does keeps the invariant.
LEMMA StreamStep ==
    ASSUME EventBusAssumption, BusInv, NEW t \in Tabs,
           Hello(t) \/ Subscribe(t) \/ Show(t) \/ Unsubscribe(t) \/ CloseChannel(t)
    PROVE  BusInv'
<1> USE DEF BusInv, BusTypeOK
<1>1. /\ UNCHANGED <<activeID, sending, announcer, panicked>>
      /\ \A s \in Tabs \ {t} : tab'[s] = tab[s] /\ chan'[s] = chan[s]
      /\ subs' \subseteq Tabs /\ \A s \in Tabs \ {t} : s \in subs' <=> s \in subs
  BY DEF Hello, Subscribe, Show, Unsubscribe, CloseChannel
<1>2. NoSendAfterClose'
  BY <1>1 DEF NoSendAfterClose
<1>3. \A s \in Tabs \ {t} : WillShow(s)'
  BY <1>1 DEF WillShow, Latest, Unannounced
<1>4. SendersAnnounce'
  BY <1>1 DEF SendersAnnounce, Hello, Subscribe, Show, Unsubscribe, CloseChannel, Unlocked
<1>5. CASE Hello(t)
  <2>1. tab'[t] = [at |-> "greeted", shown |-> activeID, lost |-> announcer # None]
    BY <1>5 DEF Hello
  <2>2. BusTypeOK' /\ ReadersSubscribe'
    BY <1>5, <2>1 DEF Hello, ReadersSubscribe
  <2>3. WillShow(t)'
    BY <1>1, <2>1 DEF WillShow
  <2> QED
    BY <1>2, <1>3, <1>4, <2>2, <2>3
<1>6. CASE Subscribe(t)
  <2>1. tab'[t].at = "reading" /\ tab'[t].shown = tab[t].shown /\ tab'[t].lost = tab[t].lost
        /\ chan'[t] = [queue |-> <<>>, closed |-> FALSE]
    BY <1>6 DEF Subscribe
  <2>2. BusTypeOK'
    <3>1. <<>> \in Seq(Nat)
      OBVIOUS
    <3>2. [queue |-> <<>>, closed |-> FALSE] \in Channels
      BY <3>1 DEF Channels
    <3>3. chan' \in [Tabs -> Channels]
      BY <1>6, <3>2 DEF Subscribe, Channels
    <3>4. tab' \in [Tabs -> [at : {"idle", "greeted", "reading", "unsubscribed"},
                            shown : Nat, lost : BOOLEAN]]
      BY <1>6 DEF Subscribe
    <3>5. subs' \subseteq Tabs
      BY <1>6 DEF Subscribe
    <3> QED
      BY <1>6, <3>3, <3>4, <3>5 DEF Subscribe, Channels
  <2>3. ReadersSubscribe'
    BY <1>1, <1>6, <2>1 DEF Subscribe, ReadersSubscribe
  <2>4. WillShow(t)'
    BY <1>1, <1>6, <2>1 DEF Subscribe, WillShow, Latest, Unannounced
  <2> QED
    BY <1>2, <1>3, <1>4, <2>2, <2>3, <2>4
<1>7. CASE Show(t)
  <2> DEFINE q == chan[t].queue
  <2>1. q \in Seq(Nat) /\ q # <<>>
    BY <1>7 DEF Show
  <2>2. /\ tab'[t].at = tab[t].at /\ tab'[t].shown = Head(q) /\ tab'[t].lost = tab[t].lost
        /\ chan'[t].queue = Tail(q) /\ chan'[t].closed = chan[t].closed
    BY <1>7 DEF Show
  <2>3. Head(q) \in Nat /\ Tail(q) \in Seq(Nat)
    BY <2>1, Shown
  <2>4. BusTypeOK'
    BY <1>7, <2>3 DEF Show
  <2>5. ReadersSubscribe'
    BY <1>1, <1>7, <2>2 DEF Show, ReadersSubscribe
  <2>6. Latest(t)' = Latest(t)
    BY <2>1, <2>2, Shown DEF Latest
  <2>7. WillShow(t)'
    BY <1>1, <1>7, <2>2, <2>6 DEF Show, WillShow, Unannounced
  <2> QED
    BY <1>2, <1>3, <1>4, <2>4, <2>5, <2>7
<1>8. CASE Unsubscribe(t)
  <2>1. tab'[t].at = "unsubscribed"
    BY <1>8 DEF Unsubscribe
  <2>2. BusTypeOK'
    BY <1>8 DEF Unsubscribe
  <2>3. ReadersSubscribe'
    BY <1>1, <1>8, <2>1 DEF Unsubscribe, ReadersSubscribe
  <2>4. WillShow(t)'
    BY <2>1 DEF WillShow
  <2> QED
    BY <1>2, <1>3, <1>4, <2>2, <2>3, <2>4
<1>9. CASE CloseChannel(t)
  <2>1. tab'[t] = Gone
    BY <1>9 DEF CloseChannel
  <2>2. BusTypeOK'
    BY <1>9 DEF CloseChannel, Gone
  <2>3. ReadersSubscribe'
    BY <1>1, <1>9, <2>1 DEF CloseChannel, Gone, ReadersSubscribe
  <2>4. WillShow(t)'
    BY <2>1 DEF WillShow, Gone
  <2> QED
    BY <1>2, <1>3, <1>4, <2>2, <2>3, <2>4
<1> QED
  BY <1>5, <1>6, <1>7, <1>8, <1>9

\* No event is sent on a closed channel, and a tab that has read all it was sent
\* and missed nothing shows the open project, for any number of tabs, publishers
\* and changes, and any buffer.
THEOREM EventsReachTabs ==
    ASSUME EventBusAssumption
    PROVE  BusSpec => []EventsArrive
<1>1. BusInit => BusInv
  <2> SUFFICES ASSUME BusInit PROVE BusInv
    OBVIOUS
  <2> USE DEF BusInit
  <2>1. BusTypeOK
    <3>1. <<>> \in Seq(Nat)
      OBVIOUS
    <3>2. chan \in [Tabs -> [queue : Seq(Nat), closed : BOOLEAN]]
      BY <3>1
    <3>3. tab \in [Tabs -> Streams]
      BY DEF Gone, Streams
    <3> QED
      BY <3>2, <3>3 DEF BusTypeOK, Streams
  <2>2. ReadersSubscribe /\ SendersAnnounce /\ NoSendAfterClose
    BY DEF ReadersSubscribe, SendersAnnounce, NoSendAfterClose, Gone
  <2>3. \A t \in Tabs : WillShow(t)
    BY DEF WillShow, Gone
  <2> QED
    BY <2>1, <2>2, <2>3 DEF BusInv
<1>2. BusInv /\ [BusNext]_busVars => BusInv'
  <2> SUFFICES ASSUME BusInv, [BusNext]_busVars PROVE BusInv'
    OBVIOUS
  <2>1. CASE UNCHANGED busVars
    BY <2>1 DEF busVars, BusInv, BusTypeOK, ReadersSubscribe, SendersAnnounce,
                NoSendAfterClose, WillShow, Latest, Unannounced
  <2>2. ASSUME NEW p \in Publishers, Change(p) \/ PublishLocks(p) \/ PublishUnlocks(p)
        PROVE  BusInv'
    BY <2>2, PublisherStep
  <2>3. ASSUME NEW p \in Publishers, NEW t \in Tabs, Deliver(p, t) PROVE BusInv'
    BY <2>3, DeliverStep
  <2>4. ASSUME NEW t \in Tabs,
               Hello(t) \/ Subscribe(t) \/ Show(t) \/ Unsubscribe(t) \/ CloseChannel(t)
        PROVE  BusInv'
    BY <2>4, StreamStep
  <2> QED
    BY <2>1, <2>2, <2>3, <2>4 DEF BusNext
<1>3. BusInv => EventsArrive
  BY DEF BusInv, EventsArrive, TabsAreCurrent, WillShow, Unannounced, Latest
<1> QED
  BY <1>1, <1>2, <1>3, PTL DEF BusSpec

-----------------------------------------------------------------------------
(* ProjectImport.                                                          *)

Importings == [at : {"idle", "members", "buckets", "records", "insert", "discard", "over"},
               had : SUBSET Needed, done : SUBSET FileBuckets,
               bucket : FileBuckets \cup {None}, read : Nat, batch : SUBSET Nat]

Whole(i, b) == data[i][b] = 1 .. file[i][b]

\* What an import has under its id is what it has read: all of the buckets it is
\* done with, of the one it reads what is not in the batch, and nothing else.
HasRead(i) ==
    LET m == import[i] IN
    /\ m.at = "members" => m.done \in {{}, FileBuckets}
    /\ m.at \in {"members", "buckets", "records"} =>
          \A b \in FileBuckets :
             /\ b \in m.done => Whole(i, b)
             /\ b \notin m.done /\ ~(m.at = "records" /\ b = m.bucket) => data[i][b] = {}
    /\ m.at = "records" =>
          /\ m.bucket \in FileBuckets \ m.done
          /\ data[i][m.bucket] \cup m.batch = 1 .. m.read
          /\ m.read <= file[i][m.bucket]

\* An import that reaches its row is whole, and one that is over without a row
\* has left nothing.
Stands(i) ==
    /\ import[i].at = "insert" => \A b \in FileBuckets : Whole(i, b)
    /\ i \in row => import[i].at = "over" /\ \A b \in FileBuckets : Whole(i, b)
    /\ import[i].at = "idle" => import[i] = Fresh /\ data[i] = Empty
    /\ import[i].at = "over" /\ i \notin row \cup orphan => data[i] = Empty

ImportInv == ImportTypeOK /\ \A i \in Imports : HasRead(i) /\ Stands(i)

\* An import that a step does not touch is where it was.
LEMMA ImportApart ==
    ASSUME NEW i \in Imports, HasRead(i), Stands(i), import'[i] = import[i],
           data'[i] = data[i], file'[i] = file[i],
           i \in row' <=> i \in row, i \in orphan' <=> i \in orphan
    PROVE  HasRead(i)' /\ Stands(i)'
BY DEF HasRead, Stands, Whole, Empty

\* What an import goes on with is one.
LEMMA StillImporting ==
    ASSUME NEW m \in Importings
    PROVE  /\ \A a \in {"members", "buckets", "insert", "discard", "over"} :
                 [m EXCEPT !.at = a] \in Importings
           /\ \A h \in Needed : [m EXCEPT !.had = @ \cup {h}] \in Importings
           /\ \A b \in FileBuckets :
                 [m EXCEPT !.at = "records", !.bucket = b, !.read = 0, !.batch = {}]
                    \in Importings
           /\ [m EXCEPT !.read = m.read + 1, !.batch = @ \cup {m.read + 1}] \in Importings
           /\ [m EXCEPT !.batch = {}] \in Importings
           /\ m.bucket \in FileBuckets =>
                 [m EXCEPT !.at = "buckets", !.done = @ \cup {m.bucket}] \in Importings
           /\ [m EXCEPT !.at = "members", !.done = FileBuckets] \in Importings
<1>1. \A a \in {"members", "buckets", "insert", "discard", "over"} :
         [m EXCEPT !.at = a] \in Importings
  BY DEF Importings
<1>2. \A h \in Needed : [m EXCEPT !.had = @ \cup {h}] \in Importings
  BY DEF Importings
<1>3. \A b \in FileBuckets :
         [m EXCEPT !.at = "records", !.bucket = b, !.read = 0, !.batch = {}] \in Importings
  BY DEF Importings
<1>4. [m EXCEPT !.read = m.read + 1, !.batch = @ \cup {m.read + 1}] \in Importings
  <2>1. ASSUME NEW n \in Nat, NEW S \in SUBSET Nat
        PROVE  [m EXCEPT !.read = n, !.batch = S] \in Importings
    BY DEF Importings
  <2>2. m.read + 1 \in Nat /\ m.batch \cup {m.read + 1} \in SUBSET Nat
    BY DEF Importings
  <2> QED
    BY <2>1, <2>2
<1>5. [m EXCEPT !.batch = {}] \in Importings
  BY DEF Importings
<1>6. m.bucket \in FileBuckets =>
         [m EXCEPT !.at = "buckets", !.done = @ \cup {m.bucket}] \in Importings
  BY DEF Importings
<1>7. [m EXCEPT !.at = "members", !.done = FileBuckets] \in Importings
  BY DEF Importings
<1> QED
  BY <1>1, <1>2, <1>3, <1>4, <1>5, <1>6, <1>7

\* A new state of one import keeps the types of all.
LEMMA ImportsAre ==
    ASSUME ImportTypeOK, NEW i \in Imports, NEW m \in Importings,
           import' = [import EXCEPT ![i] = m]
    PROVE  import' \in [Imports -> Importings]
BY DEF ImportTypeOK, Importings

\* Steps between the members of a file.
LEMMA MembersStep ==
    ASSUME ImportAssumption, ImportInv, NEW i \in Imports,
           \/ StartImport(i) \/ ReadBucketsMember(i) \/ EndBuckets(i) \/ EndFile(i)
           \/ (\E m \in Needed : ReadMember(i, m))
    PROVE  ImportInv'
<1> USE DEF ImportInv, ImportTypeOK
<1>1. import[i] \in Importings /\ i \notin row /\ HasRead(i) /\ Stands(i)
  BY DEF Importings, Stands, StartImport, ReadBucketsMember, EndBuckets, EndFile, ReadMember,
         Reading
<1>2. CASE StartImport(i)
  <2>1. PICK f \in [FileBuckets -> 0 .. MaxRecords] : file' = [file EXCEPT ![i] = f]
    BY <1>2 DEF StartImport
  <2>2. f \in [FileBuckets -> Nat]
    BY DEF ImportAssumption
  <2>3. ImportTypeOK'
    <3>1. import' = [import EXCEPT ![i] = [import[i] EXCEPT !.at = "members"]]
      BY <1>2 DEF StartImport
    <3>2. import' \in [Imports -> Importings]
      BY <1>1, <3>1, StillImporting, ImportsAre
    <3> QED
      BY <1>2, <2>1, <2>2, <3>2 DEF StartImport, Importings
  <2>4. \A j \in Imports \ {i} : HasRead(j)' /\ Stands(j)'
    BY <1>2, <2>1, ImportApart DEF StartImport
  <2>5. import[i] = Fresh /\ data[i] = Empty
    BY <1>2 DEF StartImport, Reading, Stands
  <2>6. import'[i].at = "members" /\ import'[i].done = {} /\ data'[i] = Empty
    BY <1>2, <2>5 DEF StartImport, Fresh
  <2>7. HasRead(i)' /\ Stands(i)'
    BY <1>1, <1>2, <2>6 DEF StartImport, HasRead, Stands, Empty
  <2> QED
    BY <2>3, <2>4, <2>7
<1>3. ASSUME NEW m \in Needed, ReadMember(i, m) PROVE ImportInv'
  <2>1. ImportTypeOK'
    <3>1. import' = [import EXCEPT ![i] = [import[i] EXCEPT !.had = @ \cup {m}]]
      BY <1>3 DEF ReadMember
    <3>2. import' \in [Imports -> Importings]
      BY <1>1, <3>1, StillImporting, ImportsAre
    <3> QED
      BY <1>3, <3>2 DEF ReadMember, Importings
  <2>2. \A j \in Imports \ {i} : HasRead(j)' /\ Stands(j)'
    BY <1>3, ImportApart DEF ReadMember
  <2>3. import'[i].at = "members" /\ import'[i].done = import[i].done /\ import[i].at = "members"
    BY <1>1, <1>3 DEF ReadMember, Reading
  <2>4. HasRead(i)' /\ Stands(i)'
    BY <1>1, <1>3, <2>3 DEF ReadMember, HasRead, Stands, Whole
  <2> QED
    BY <2>1, <2>2, <2>4
<1>4. CASE ReadBucketsMember(i)
  <2>1. ImportTypeOK'
    <3>1. import' = [import EXCEPT ![i] = [import[i] EXCEPT !.at = "buckets"]]
      BY <1>4 DEF ReadBucketsMember
    <3>2. import' \in [Imports -> Importings]
      BY <1>1, <3>1, StillImporting, ImportsAre
    <3> QED
      BY <1>4, <3>2 DEF ReadBucketsMember, Importings
  <2>2. \A j \in Imports \ {i} : HasRead(j)' /\ Stands(j)'
    BY <1>4, ImportApart DEF ReadBucketsMember
  <2>3. import'[i].at = "buckets" /\ import'[i].done = import[i].done /\ import[i].at = "members"
    BY <1>1, <1>4 DEF ReadBucketsMember, Reading
  <2>4. HasRead(i)' /\ Stands(i)'
    BY <1>1, <1>4, <2>3 DEF ReadBucketsMember, HasRead, Stands, Whole
  <2> QED
    BY <2>1, <2>2, <2>4
<1>5. CASE EndBuckets(i)
  <2>1. ImportTypeOK'
    <3>1. import' = [import EXCEPT ![i] = [import[i] EXCEPT !.at = "members", !.done = FileBuckets]]
      BY <1>5 DEF EndBuckets
    <3>2. import' \in [Imports -> Importings]
      BY <1>1, <3>1, StillImporting, ImportsAre
    <3> QED
      BY <1>5, <3>2 DEF EndBuckets, Importings
  <2>2. \A j \in Imports \ {i} : HasRead(j)' /\ Stands(j)'
    BY <1>5, ImportApart DEF EndBuckets
  <2>3. import'[i].at = "members" /\ import'[i].done = FileBuckets /\ import[i].at = "buckets"
    BY <1>1, <1>5 DEF EndBuckets, Reading
  <2>4. \A b \in FileBuckets : Whole(i, b)
    <3> TAKE b \in FileBuckets
    <3>1. CASE b \in import[i].done
      BY <1>1, <2>3, <3>1 DEF HasRead
    <3>2. CASE b \notin import[i].done
      <4>1. data[i][b] = {} /\ file[i][b] = 0
        BY <1>1, <1>5, <2>3, <3>2 DEF HasRead, EndBuckets
      <4> QED
        BY <4>1 DEF Whole
    <3> QED
      BY <3>1, <3>2
  <2>5. HasRead(i)' /\ Stands(i)'
    BY <1>1, <1>5, <2>3, <2>4 DEF EndBuckets, HasRead, Stands, Whole
  <2> QED
    BY <2>1, <2>2, <2>5
<1>6. CASE EndFile(i)
  <2>1. ImportTypeOK'
    <3>1. import' = [import EXCEPT ![i] = [import[i] EXCEPT !.at = "insert"]]
      BY <1>6 DEF EndFile
    <3>2. import' \in [Imports -> Importings]
      BY <1>1, <3>1, StillImporting, ImportsAre
    <3> QED
      BY <1>6, <3>2 DEF EndFile, Importings
  <2>2. \A j \in Imports \ {i} : HasRead(j)' /\ Stands(j)'
    BY <1>6, ImportApart DEF EndFile
  <2>3. import'[i].at = "insert" /\ import[i].at = "members"
    BY <1>1, <1>6 DEF EndFile, Reading
  <2>4. \A b \in FileBuckets : Whole(i, b)
    <3> TAKE b \in FileBuckets
    <3>1. CASE import[i].done = FileBuckets
      BY <1>1, <2>3, <3>1 DEF HasRead
    <3>2. CASE import[i].done = {}
      <4>1. data[i][b] = {} /\ file[i][b] = 0
        BY <1>1, <1>6, <2>3, <3>2 DEF HasRead, EndFile
      <4> QED
        BY <4>1 DEF Whole
    <3> QED
      BY <1>1, <2>3, <3>1, <3>2 DEF HasRead
  <2>5. HasRead(i)' /\ Stands(i)'
    BY <1>1, <1>6, <2>3, <2>4 DEF EndFile, HasRead, Stands, Whole
  <2> QED
    BY <2>1, <2>2, <2>5
<1> QED
  BY <1>2, <1>3, <1>4, <1>5, <1>6

\* Steps between the records of a bucket.
LEMMA RecordsStep ==
    ASSUME ImportAssumption, ImportInv, NEW i \in Imports,
           \/ (\E b \in FileBuckets : ReadBucket(i, b))
           \/ ReadRecord(i) \/ Flush(i) \/ EndBucket(i)
    PROVE  ImportInv'
<1> USE DEF ImportInv, ImportTypeOK
<1>1. import[i] \in Importings /\ i \notin row /\ HasRead(i) /\ Stands(i)
  BY DEF Importings, Stands, ReadBucket, ReadRecord, Flush, EndBucket, Reading
<1>2. ASSUME NEW b \in FileBuckets, ReadBucket(i, b) PROVE ImportInv'
  <2>1. ImportTypeOK'
    <3>1. import' = [import EXCEPT ![i] = [import[i] EXCEPT !.at = "records", !.bucket = b,
                                                       !.read = 0, !.batch = {}]]
      BY <1>2 DEF ReadBucket
    <3>2. import' \in [Imports -> Importings]
      BY <1>1, <3>1, StillImporting, ImportsAre
    <3> QED
      BY <1>2, <3>2 DEF ReadBucket, Importings
  <2>2. \A j \in Imports \ {i} : HasRead(j)' /\ Stands(j)'
    BY <1>2, ImportApart DEF ReadBucket
  <2>3. /\ import'[i].at = "records" /\ import'[i].done = import[i].done
        /\ import'[i].bucket = b /\ import'[i].read = 0 /\ import'[i].batch = {}
        /\ import[i].at = "buckets" /\ b \notin import[i].done
    <3>1. /\ import[i].at = "buckets" /\ b \notin import[i].done
          /\ import' = [import EXCEPT ![i] = [import[i] EXCEPT !.at = "records", !.bucket = b,
                                                          !.read = 0, !.batch = {}]]
      BY <1>2 DEF ReadBucket, Reading
    <3>2. import'[i] = [import[i] EXCEPT !.at = "records", !.bucket = b, !.read = 0,
                                         !.batch = {}]
      BY <3>1
    <3> QED
      BY <1>1, <3>1, <3>2 DEF Importings
  <2>4. data[i][b] = {} /\ {} = 1 .. 0 /\ 0 <= file[i][b]
    <3>1. data[i][b] = {}
      BY <1>1, <2>3 DEF HasRead
    <3>2. 0 <= file[i][b]
      OBVIOUS
    <3> QED
      BY <3>1, <3>2
  <2>5. HasRead(i)' /\ Stands(i)'
    BY <1>1, <1>2, <2>3, <2>4 DEF ReadBucket, HasRead, Stands, Whole
  <2> QED
    BY <2>1, <2>2, <2>5
<1> DEFINE b == import[i].bucket
           n == import[i].read + 1
<1>3. ASSUME Reading(i, "records")
      PROVE  /\ b \in FileBuckets \ import[i].done
             /\ data[i][b] \cup import[i].batch = 1 .. import[i].read
             /\ import[i].read <= file[i][b]
             /\ import[i].read \in Nat /\ file[i][b] \in Nat
  BY <1>1, <1>3 DEF Reading, HasRead, Importings
<1>4. CASE ReadRecord(i)
  <2>1. ImportTypeOK'
    <3>1. import' = [import EXCEPT ![i] = [import[i] EXCEPT !.read = import[i].read + 1,
                                               !.batch = @ \cup {import[i].read + 1}]]
      BY <1>4 DEF ReadRecord
    <3>2. import' \in [Imports -> Importings]
      BY <1>1, <3>1, StillImporting, ImportsAre
    <3> QED
      BY <1>4, <3>2 DEF ReadRecord, Importings
  <2>2. \A j \in Imports \ {i} : HasRead(j)' /\ Stands(j)'
    BY <1>4, ImportApart DEF ReadRecord
  <2>3. /\ import'[i].at = "records" /\ import'[i].done = import[i].done
        /\ import'[i].bucket = b /\ import'[i].read = n
        /\ import'[i].batch = import[i].batch \cup {n}
        /\ import[i].at = "records" /\ n <= file[i][b]
    BY <1>1, <1>4 DEF ReadRecord, Reading, Importings
  <2>4. data[i][b] \cup (import[i].batch \cup {n}) = 1 .. n
    <3>1. ASSUME NEW k \in Nat PROVE (1 .. k) \cup {k + 1} = 1 .. (k + 1)
      <4>1. \A x \in 1 .. (k + 1) : x \in 1 .. k \/ x = k + 1
        OBVIOUS
      <4>2. \A x \in 1 .. k : x \in 1 .. (k + 1)
        OBVIOUS
      <4>3. k + 1 \in 1 .. (k + 1)
        OBVIOUS
      <4> QED
        BY <4>1, <4>2, <4>3
    <3>2. (1 .. import[i].read) \cup {n} = 1 .. n
      BY <1>3, <1>4, <3>1 DEF ReadRecord
    <3>3. data[i][b] \cup import[i].batch = 1 .. import[i].read
      BY <1>3, <1>4 DEF ReadRecord
    <3> HIDE DEF n, b
    <3> QED
      BY <3>2, <3>3
  <2>5. HasRead(i)' /\ Stands(i)'
    BY <1>1, <1>3, <1>4, <2>3, <2>4 DEF ReadRecord, HasRead, Stands, Whole
  <2> QED
    BY <2>1, <2>2, <2>5
<1>5. CASE Flush(i)
  <2>0. b \in FileBuckets
    BY <1>3, <1>5 DEF Flush
  <2>1. ImportTypeOK'
    <3>1. data[i][b] \cup import[i].batch \in SUBSET Nat
      BY <2>0
    <3>2. import' = [import EXCEPT ![i] = [import[i] EXCEPT !.batch = {}]]
      BY <1>5 DEF Flush
    <3>3. import' \in [Imports -> Importings]
      BY <1>1, <3>2, StillImporting, ImportsAre
    <3> QED
      BY <1>5, <3>1, <3>3 DEF Flush, Importings
  <2>2. \A j \in Imports \ {i} : HasRead(j)' /\ Stands(j)'
    BY <1>5, ImportApart DEF Flush
  <2>3. /\ import'[i].at = "records" /\ import'[i].done = import[i].done
        /\ import'[i].bucket = b /\ import'[i].read = import[i].read
        /\ import'[i].batch = {} /\ import[i].at = "records"
    BY <1>1, <1>5 DEF Flush, Reading, Importings
  <2>4. /\ data'[i][b] = data[i][b] \cup import[i].batch
        /\ \A c \in FileBuckets \ {b} : data'[i][c] = data[i][c]
    BY <1>5, <2>0 DEF Flush
  <2>5. HasRead(i)' /\ Stands(i)'
    BY <1>1, <1>3, <1>5, <2>3, <2>4 DEF Flush, HasRead, Stands, Whole
  <2> QED
    BY <2>1, <2>2, <2>5
<1>6. CASE EndBucket(i)
  <2>0. b \in FileBuckets
    BY <1>3, <1>6 DEF EndBucket
  <2>1. ImportTypeOK'
    <3>1. import' = [import EXCEPT ![i] = [import[i] EXCEPT !.at = "buckets", !.done = @ \cup {b}]]
      BY <1>6 DEF EndBucket
    <3>2. import' \in [Imports -> Importings]
      BY <1>1, <2>0, <3>1, StillImporting, ImportsAre
    <3> QED
      BY <1>6, <3>2 DEF EndBucket, Importings
  <2>2. \A j \in Imports \ {i} : HasRead(j)' /\ Stands(j)'
    BY <1>6, ImportApart DEF EndBucket
  <2>3. /\ import'[i].at = "buckets" /\ import'[i].done = import[i].done \cup {b}
        /\ import[i].at = "records"
    BY <1>1, <1>6 DEF EndBucket, Reading, Importings
  <2>4. Whole(i, b)
    BY <1>3, <1>6 DEF EndBucket, Whole
  <2>5. HasRead(i)' /\ Stands(i)'
    BY <1>1, <1>3, <1>6, <2>3, <2>4 DEF EndBucket, HasRead, Stands, Whole
  <2> QED
    BY <2>1, <2>2, <2>5
<1> QED
  BY <1>2, <1>4, <1>5, <1>6

\* How imports end.
LEMMA EndStep ==
    ASSUME ImportAssumption, ImportInv, NEW i \in Imports,
           ImportFails(i) \/ Insert(i) \/ Discard(i) \/ DeleteImported(i)
    PROVE  ImportInv'
<1> USE DEF ImportInv, ImportTypeOK
<1>1. import[i] \in Importings /\ HasRead(i) /\ Stands(i)
  BY DEF Importings
<1>2. Empty \in [FileBuckets -> SUBSET Nat]
  BY DEF Empty
<1>3. ImportTypeOK'
  <2>1. import' = import \/ \E a \in {"discard", "over"} :
           import' = [import EXCEPT ![i] = [import[i] EXCEPT !.at = a]]
    BY DEF ImportFails, Insert, Discard, DeleteImported
  <2>2. import' \in [Imports -> Importings]
    <3>1. import \in [Imports -> Importings]
      BY DEF Importings
    <3> QED
      BY <1>1, <2>1, <3>1, StillImporting, ImportsAre
  <2>3. data' \in [Imports -> [FileBuckets -> SUBSET Nat]]
    BY <1>2 DEF ImportFails, Insert, Discard, DeleteImported
  <2> QED
    BY <2>2, <2>3 DEF ImportFails, Insert, Discard, DeleteImported, Importings
<1>4. \A j \in Imports \ {i} : HasRead(j)' /\ Stands(j)'
  BY ImportApart DEF ImportFails, Insert, Discard, DeleteImported
<1>5. CASE ImportFails(i)
  <2>1. import'[i].at = "discard" /\ i \notin row'
    BY <1>1, <1>5 DEF ImportFails, Stands
  <2> QED
    BY <1>3, <1>4, <2>1 DEF HasRead, Stands
<1>6. CASE Insert(i)
  <2>1. import'[i].at = "over" /\ import[i].at = "insert" /\ i \in row'
    BY <1>1, <1>6 DEF Insert, Reading
  <2>2. \A b \in FileBuckets : Whole(i, b)'
    BY <1>1, <1>6, <2>1 DEF Insert, Stands, Whole
  <2> QED
    BY <1>3, <1>4, <2>1, <2>2 DEF HasRead, Stands
<1>7. CASE Discard(i)
  <2>1. import'[i].at = "over" /\ i \notin row'
    BY <1>1, <1>7 DEF Discard, Reading, Stands
  <2>2. i \in orphan' \/ data'[i] = Empty
    BY <1>7 DEF Discard
  <2> QED
    BY <1>3, <1>4, <2>1, <2>2 DEF HasRead, Stands
<1>8. CASE DeleteImported(i)
  <2>1. import'[i].at = "over" /\ i \notin row' /\ data'[i] = Empty
    BY <1>1, <1>8 DEF DeleteImported, Stands
  <2> QED
    BY <1>3, <1>4, <2>1 DEF HasRead, Stands
<1> QED
  BY <1>5, <1>6, <1>7, <1>8

\* A crash leaves what it leaves to those it has cut short.
LEMMA CrashStep ==
    ASSUME ImportAssumption, ImportInv, CrashImports
    PROVE  ImportInv'
<1> USE DEF ImportInv, ImportTypeOK
<1>1. ImportTypeOK'
  BY DEF CrashImports, Fresh
<1>2. ASSUME NEW i \in Imports, import[i].at \in {"idle", "over"}
      PROVE  HasRead(i)' /\ Stands(i)'
  BY <1>2, ImportApart DEF CrashImports
<1>3. ASSUME NEW i \in Imports, import[i].at \notin {"idle", "over"}
      PROVE  HasRead(i)' /\ Stands(i)'
  <2>1. import'[i].at = "over" /\ i \in orphan' /\ i \notin row'
    BY <1>3 DEF CrashImports, Fresh, Stands
  <2> QED
    BY <2>1 DEF HasRead, Stands
<1> QED
  BY <1>1, <1>2, <1>3

\* A project that appears has every record of its file, and a failed import leaves
\* nothing but for a crash or a cleanup that fails itself, for any number of
\* imports, buckets and records, and any batch.
THEOREM ImportsStayWhole ==
    ASSUME ImportAssumption
    PROVE  ImportSpec => []ImportsAreWhole
<1>1. ImportInit => ImportInv
  BY DEF ImportInit, ImportInv, ImportTypeOK, HasRead, Stands, Fresh, Empty
<1>2. ImportInv /\ [ImportNext]_importVars => ImportInv'
  <2> SUFFICES ASSUME ImportInv, [ImportNext]_importVars PROVE ImportInv'
    OBVIOUS
  <2>1. CASE UNCHANGED importVars
    BY <2>1, ImportApart DEF importVars, ImportInv, ImportTypeOK
  <2>2. ASSUME NEW i \in Imports,
               \/ StartImport(i) \/ ReadBucketsMember(i) \/ EndBuckets(i) \/ EndFile(i)
               \/ (\E m \in Needed : ReadMember(i, m))
        PROVE  ImportInv'
    BY <2>2, MembersStep
  <2>3. ASSUME NEW i \in Imports,
               \/ (\E b \in FileBuckets : ReadBucket(i, b))
               \/ ReadRecord(i) \/ Flush(i) \/ EndBucket(i)
        PROVE  ImportInv'
    BY <2>3, RecordsStep
  <2>4. ASSUME NEW i \in Imports,
               ImportFails(i) \/ Insert(i) \/ Discard(i) \/ DeleteImported(i)
        PROVE  ImportInv'
    BY <2>4, EndStep
  <2>5. CASE CrashImports
    BY <2>5, CrashStep
  <2> QED
    BY <2>1, <2>2, <2>3, <2>4, <2>5 DEF ImportNext
<1>3. ImportInv => ImportsAreWhole
  BY DEF ImportInv, Stands, Whole, ImportsAreWhole
<1> QED
  BY <1>1, <1>2, <1>3, PTL DEF ImportSpec

-----------------------------------------------------------------------------
(* ProjectExport.                                                          *)

\* Up to the key behind which it reads, an export has what has stayed.
UpTo(stay, has) == \A e \in stay : e <= export.after => e \in has

\* The buckets it is done with are in the file, and the one it writes up to where
\* it is.
WrittenSoFar ==
    /\ stayed.logs \subseteq kept.logs /\ stayed.messages \subseteq kept.messages
    /\ export.bucket = 1 => UpTo(stayed.logs, written.logs)
    /\ export.bucket \in {2, 3} => stayed.logs \subseteq written.logs
    /\ export.bucket = 2 => UpTo(stayed.messages, written.messages)
    /\ export.bucket = 3 => stayed.messages \subseteq written.messages

ExportInv == ExportTypeOK /\ WrittenSoFar

\* Records are finitely many.
LEMMA EntriesAreFinite ==
    ASSUME ExportAssumption, NEW S \in SUBSET Entries
    PROVE  IsFiniteSet(S) /\ Cardinality(S) \in Nat
<1>1. IsFiniteSet(Entries)
  BY FS_Interval DEF Entries, ExportAssumption
<1> QED
  BY <1>1, FS_Subset, FS_CardinalityType

\* The last record of some is one of them.
LEMMA MaxIsOne ==
    ASSUME ExportAssumption, NEW S \in SUBSET Entries, S # {}
    PROVE  Max(S) \in S /\ \A e \in S : e <= Max(S)
<1> DEFINE T == {MaxEntries - e : e \in S}
<1>1. T \in SUBSET Nat /\ T # {}
  <2>1. ASSUME NEW e \in S PROVE MaxEntries - e \in Nat
    BY DEF Entries, ExportAssumption
  <2> QED
    BY <2>1
<1>2. PICK n \in T : \A m \in T : n <= m
  BY <1>1, LeastOf
<1>3. PICK e \in S : n = MaxEntries - e
  BY <1>2
<1>4. ASSUME NEW d \in S PROVE e >= d
  <2>1. n <= MaxEntries - d
    BY <1>2
  <2> QED
    BY <1>3, <2>1 DEF Entries, ExportAssumption
<1>5. \E x \in S : \A y \in S : x >= y
  BY <1>4
<1>6. Max(S) \in S /\ \A y \in S : Max(S) >= y
  BY <1>5 DEF Max
<1> QED
  BY <1>6 DEF Entries, ExportAssumption

\* A page that is not full has all there is, and a full one all up to its last.
LEMMA PageTakes ==
    ASSUME ExportAssumption, NEW b \in {"logs", "messages"}, kept[b] \in SUBSET Entries,
           NEW after \in Nat, NEW next, next = {e \in kept[b] : e > after}
    PROVE  LET page == Page(b, after) IN
           /\ page \in SUBSET Entries
           /\ Cardinality(page) < ExportPage => page = next
           /\ ~(Cardinality(page) < ExportPage) =>
                 Max(page) \in Nat /\ \A e \in next : e <= Max(page) => e \in page
<1> DEFINE Below(e) == {d \in next : d < e}
           page == {e \in next : Cardinality(Below(e)) < ExportPage}
<1>0. Page(b, after) = page
  BY DEF Page
<1>1. next \in SUBSET Entries /\ page \in SUBSET Entries /\ \A e \in next : e \in Nat
  BY DEF Entries, ExportAssumption
<1>2. ExportPage \in Nat \ {0}
  BY DEF ExportAssumption
<1>3. ASSUME Cardinality(page) < ExportPage, next \ page # {} PROVE FALSE
  <2>1. PICK x \in next \ page : \A y \in next \ page : x <= y
    <3>1. next \ page \in SUBSET Nat
      BY <1>1
    <3> HIDE DEF page
    <3> QED
      BY <1>3, <3>1, LeastOf
  <2>2. Below(x) \subseteq page
    BY <1>1, <2>1
  <2>3. Cardinality(Below(x)) <= Cardinality(page)
    <3>1. IsFiniteSet(page)
      BY <1>1, EntriesAreFinite
    <3> QED
      BY <2>2, <3>1, FS_Subset
  <2>4. Cardinality(Below(x)) \in Nat /\ Cardinality(page) \in Nat
    BY <1>1, EntriesAreFinite
  <2>5. Cardinality(Below(x)) < ExportPage
    BY <1>2, <1>3, <2>3, <2>4
  <2> QED
    BY <2>1, <2>5
<1>4. ASSUME ~(Cardinality(page) < ExportPage)
      PROVE  Max(page) \in Nat /\ \A e \in next : e <= Max(page) => e \in page
  <2>1. page # {}
    <3>1. Cardinality({}) = 0
      BY FS_EmptySet
    <3> HIDE DEF page
    <3> QED
      BY <1>2, <1>4, <3>1
  <2>2. Max(page) \in page
    <3> HIDE DEF page
    <3> QED
      BY <1>1, <2>1, MaxIsOne
  <2>3. ASSUME NEW e \in next, e <= Max(page) PROVE Cardinality(Below(e)) < ExportPage
    <3> DEFINE m == Max(page)
    <3>1. m \in next /\ Cardinality(Below(m)) < ExportPage
      BY <2>2
    <3> HIDE DEF m, page
    <3>2. Below(e) \subseteq Below(m)
      BY <1>1, <2>3, <3>1 DEF m
    <3>3. Cardinality(Below(e)) <= Cardinality(Below(m))
      <4>1. IsFiniteSet(Below(m))
        BY <1>1, EntriesAreFinite
      <4> QED
        BY <3>2, <4>1, FS_Subset
    <3>4. Cardinality(Below(e)) \in Nat /\ Cardinality(Below(m)) \in Nat
      BY <1>1, EntriesAreFinite
    <3> QED
      BY <1>2, <3>1, <3>3, <3>4
  <2> QED
    BY <1>1, <2>2, <2>3
<1>5. Cardinality(page) < ExportPage => page = next
  BY <1>3
<1> HIDE DEF page
<1> QED
  BY <1>0, <1>1, <1>4, <1>5

\* A page moves an export on by what is in it.
LEMMA WritePageStep ==
    ASSUME ExportAssumption, ExportInv, WritePage
    PROVE  ExportInv'
<1> USE DEF ExportInv, ExportTypeOK
<1>1. export.bucket \in {1, 2}
  BY DEF WritePage, Exporting, ExportBuckets
<1>2. export.after \in Nat
  OBVIOUS
<1>3. CASE export.bucket = 1
  <2> DEFINE next == {e \in kept.logs : e > export.after}
             page == Page("logs", export.after)
  <2>1. /\ page \in SUBSET Entries
        /\ Cardinality(page) < ExportPage => page = next
        /\ ~(Cardinality(page) < ExportPage) =>
              Max(page) \in Nat /\ \A e \in next : e <= Max(page) => e \in page
    BY <1>2, PageTakes
  <2>2. ExportBuckets[export.bucket] = "logs"
    BY <1>3 DEF ExportBuckets
  <2>3. /\ written' = [written EXCEPT !.logs = @ \cup page]
        /\ Cardinality(page) < ExportPage => export' = [bucket |-> 2, after |-> 0]
        /\ ~(Cardinality(page) < ExportPage) => export' = [export EXCEPT !.after = Max(page)]
        /\ UNCHANGED <<kept, stayed>>
    <3>1. Page(ExportBuckets[export.bucket], export.after) = page
      BY <2>2
    <3>2. written' = [written EXCEPT !["logs"] = written["logs"] \cup page]
      BY <2>2 DEF WritePage
    <3>3. Cardinality(page) < ExportPage => export' = [bucket |-> export.bucket + 1, after |-> 0]
      BY <3>1 DEF WritePage
    <3>4. ~(Cardinality(page) < ExportPage) => export' = [export EXCEPT !.after = Max(page)]
      BY <3>1 DEF WritePage
    <3>5. UNCHANGED <<kept, stayed>>
      BY DEF WritePage
    <3> HIDE DEF page
    <3>6. written' = [written EXCEPT !.logs = @ \cup page]
      BY <3>2
    <3>7. export.bucket + 1 = 2
      BY <1>3
    <3> QED
      BY <3>3, <3>4, <3>5, <3>6, <3>7
  <2> HIDE DEF page
  <2>4. written'.logs = written.logs \cup page /\ written'.messages = written.messages
    BY <2>3
  <2>5. ExportTypeOK'
    BY <2>1, <2>3
  <2>6. \A e \in stayed.logs : e \in Nat /\ e \in Entries /\ (e \in next \/ e \in written.logs)
    BY <1>2, <1>3 DEF WrittenSoFar, UpTo, Entries, ExportAssumption
  <2>7. CASE Cardinality(page) < ExportPage
    <3>1. stayed.logs \subseteq written'.logs
      BY <2>1, <2>4, <2>6, <2>7
    <3>2. \A e \in stayed.messages : ~(e <= 0)
      BY DEF Entries, ExportAssumption
    <3> QED
      BY <2>3, <2>5, <2>7, <3>1, <3>2 DEF WrittenSoFar, UpTo
  <2>8. CASE ~(Cardinality(page) < ExportPage)
    <3>1. export'.bucket = 1 /\ export'.after = Max(page)
      BY <1>3, <2>3, <2>8
    <3>2. \A e \in stayed.logs : e <= Max(page) => e \in written'.logs
      BY <2>1, <2>4, <2>6, <2>8
    <3> QED
      BY <2>3, <2>5, <3>1, <3>2 DEF WrittenSoFar, UpTo
  <2> QED
    BY <2>7, <2>8
<1>4. CASE export.bucket = 2
  <2> DEFINE next == {e \in kept.messages : e > export.after}
             page == Page("messages", export.after)
  <2>1. /\ page \in SUBSET Entries
        /\ Cardinality(page) < ExportPage => page = next
        /\ ~(Cardinality(page) < ExportPage) =>
              Max(page) \in Nat /\ \A e \in next : e <= Max(page) => e \in page
    BY <1>2, PageTakes
  <2>2. ExportBuckets[export.bucket] = "messages"
    BY <1>4 DEF ExportBuckets
  <2>3. /\ written' = [written EXCEPT !.messages = @ \cup page]
        /\ Cardinality(page) < ExportPage => export' = [bucket |-> 3, after |-> 0]
        /\ ~(Cardinality(page) < ExportPage) => export' = [export EXCEPT !.after = Max(page)]
        /\ UNCHANGED <<kept, stayed>>
    <3>1. Page(ExportBuckets[export.bucket], export.after) = page
      BY <2>2
    <3>2. written' = [written EXCEPT !["messages"] = written["messages"] \cup page]
      BY <2>2 DEF WritePage
    <3>3. Cardinality(page) < ExportPage => export' = [bucket |-> export.bucket + 1, after |-> 0]
      BY <3>1 DEF WritePage
    <3>4. ~(Cardinality(page) < ExportPage) => export' = [export EXCEPT !.after = Max(page)]
      BY <3>1 DEF WritePage
    <3>5. UNCHANGED <<kept, stayed>>
      BY DEF WritePage
    <3> HIDE DEF page
    <3>6. written' = [written EXCEPT !.messages = @ \cup page]
      BY <3>2
    <3>7. export.bucket + 1 = 3
      BY <1>4
    <3> QED
      BY <3>3, <3>4, <3>5, <3>6, <3>7
  <2> HIDE DEF page
  <2>4. written'.messages = written.messages \cup page /\ written'.logs = written.logs
    BY <2>3
  <2>5. ExportTypeOK'
    BY <2>1, <2>3
  <2>6. \A e \in stayed.messages :
           e \in Nat /\ (e \in next \/ e \in written.messages)
    BY <1>2, <1>4 DEF WrittenSoFar, UpTo, Entries, ExportAssumption
  <2>7. CASE Cardinality(page) < ExportPage
    <3>1. stayed.messages \subseteq written'.messages
      BY <2>1, <2>4, <2>6, <2>7
    <3> QED
      BY <1>4, <2>3, <2>4, <2>5, <2>7, <3>1 DEF WrittenSoFar
  <2>8. CASE ~(Cardinality(page) < ExportPage)
    <3>1. export'.bucket = 2 /\ export'.after = Max(page)
      BY <1>4, <2>3, <2>8
    <3>2. \A e \in stayed.messages : e <= Max(page) => e \in written'.messages
      BY <2>1, <2>4, <2>6, <2>8
    <3> QED
      BY <1>4, <2>3, <2>4, <2>5, <3>1, <3>2 DEF WrittenSoFar, UpTo
  <2> QED
    BY <2>7, <2>8
<1> QED
  BY <1>1, <1>3, <1>4

\* What was there from the beginning of an export to its end is in the file, for
\* any number of records and any size of a page.
THEOREM ExportsLeaveNothingOut ==
    ASSUME ExportAssumption
    PROVE  ExportSpec => []NothingIsLeftOut
<1>1. ExportInit => ExportInv
  BY DEF ExportInit, ExportInv, ExportTypeOK, WrittenSoFar, UpTo, Nothing
<1>2. ExportInv /\ [ExportNext]_exportVars => ExportInv'
  <2> SUFFICES ASSUME ExportInv, [ExportNext]_exportVars PROVE ExportInv'
    OBVIOUS
  <2> USE DEF ExportInv, ExportTypeOK
  <2>1. CASE UNCHANGED exportVars
    BY <2>1 DEF exportVars, WrittenSoFar, UpTo
  <2>2. ASSUME NEW e \in Entries, LogEntry(e) \/ LogMessage(e) PROVE ExportInv'
    BY <2>2 DEF LogEntry, LogMessage, WrittenSoFar, UpTo
  <2>3. ASSUME NEW e \in Entries, RemoveEntry(e) PROVE ExportInv'
    BY <2>3 DEF RemoveEntry, WrittenSoFar, UpTo
  <2>4. CASE BeginExport
    <3>1. \A e \in Entries : ~(e <= 0)
      BY DEF Entries, ExportAssumption
    <3> QED
      BY <2>4, <3>1 DEF BeginExport, WrittenSoFar, UpTo
  <2>5. CASE WritePage
    BY <2>5, WritePageStep
  <2>6. CASE ExportFails
    BY <2>6 DEF ExportFails, Nothing, WrittenSoFar, UpTo
  <2> QED
    BY <2>1, <2>2, <2>3, <2>4, <2>5, <2>6 DEF ExportNext
<1>3. ExportInv => NothingIsLeftOut
  BY DEF ExportInv, ExportTypeOK, WrittenSoFar, NothingIsLeftOut, Written, ExportBuckets
<1> QED
  BY <1>1, <1>2, <1>3, PTL DEF ExportSpec

-----------------------------------------------------------------------------
(* Replacing the program implements the atomic file, for any number of     *)
(* releases.                                                               *)

UpdateTypeOK ==
    /\ exe \in Binaries \cup {None}
    /\ beside \in Binaries \cup {None, Damaged}
    /\ aside \in Binaries \cup {None}
    /\ updating \in {"idle", "fetch", "download", "verify", "write", "writing",
               "moveOld", "moveNew", "removeOld"}
    /\ current \in Binaries
    /\ latest \in Binaries
    /\ archive \in Binaries \cup {None, Damaged}

\* The binary has one of its two names, and between the renames the other two
\* files are what they were when the update was begun.
UpdateInv ==
    /\ UpdateTypeOK
    /\ exe = None => aside # None
    /\ updating \in {"fetch", "download", "verify", "write", "writing", "moveOld"} => exe = current
    /\ updating \in {"download", "verify", "write", "writing", "moveOld", "moveNew"} => latest > current
    /\ updating \in {"write", "writing", "moveOld", "moveNew"} => archive = latest
    /\ updating \in {"moveOld", "moveNew"} => beside = latest
    /\ updating = "moveNew" => exe = None /\ aside = current
    /\ updating = "removeOld" => exe # None

\* The invariant holds at first (UpdateInit): the program that is there.
LEMMA UpdateInvInit ==
    ASSUME UpdateAssumption
    PROVE  UpdateInit => UpdateInv
BY DEF UpdateAssumption, UpdateInit, UpdateInv, UpdateTypeOK, Binaries

\* A step of the update keeps it and, seen through Binary, exchanges the binary
\* for a later one or changes nothing.
LEMMA UpdateStep ==
    ASSUME UpdateAssumption, UpdateInv, [UpdateNext]_updateVars
    PROVE  /\ UpdateInv'
           /\ Binary' = Binary \/ (Binary' \in Binaries /\ LaterThan(Binary', Binary))
<1> USE DEF UpdateAssumption, UpdateInv, UpdateTypeOK, Binaries, Releases, Binary, LaterThan
<1>1. CASE StartUpdate BY <1>1 DEF StartUpdate
<1>2. CASE FetchRelease BY <1>2 DEF FetchRelease
<1>3. CASE Download BY <1>3 DEF Download
<1>4. CASE VerifyChecksum BY <1>4 DEF VerifyChecksum
<1>5. CASE GiveUp BY <1>5 DEF GiveUp
<1>6. CASE BeginWrite BY <1>6 DEF BeginWrite
<1>7. CASE EndWrite BY <1>7 DEF EndWrite
<1>8. CASE WriteFails BY <1>8 DEF WriteFails
<1>9. CASE MoveOld BY <1>9 DEF MoveOld
<1>10. CASE MoveOldFails BY <1>10 DEF MoveOldFails
<1>11. CASE MoveNew BY <1>11 DEF MoveNew
<1>12. CASE MoveNewFails BY <1>12 DEF MoveNewFails
<1>13. CASE RemoveOld BY <1>13 DEF RemoveOld
<1>14. CASE Crash BY <1>14 DEF Crash
<1>15. CASE MoveBack BY <1>15 DEF MoveBack
<1>16. CASE UNCHANGED updateVars BY <1>16 DEF updateVars
<1> QED
  BY <1>1, <1>2, <1>3, <1>4, <1>5, <1>6, <1>7, <1>8, <1>9, <1>10, <1>11, <1>12,
     <1>13, <1>14, <1>15, <1>16 DEF UpdateNext

\* "A failed update leaves the working one in place" (internal/cli/update.go), for
\* any number of releases: replacing the program implements the atomic file.
THEOREM UpdateImplementsAtomicFile ==
    ASSUME UpdateAssumption
    PROVE  UpdateSpec => UpdateIsAtomic
<1>1. UpdateInit => Replaced!FileInit
  BY DEF UpdateAssumption, UpdateInit, Replaced!FileInit, Binary, Binaries
<1>2. UpdateInv /\ [UpdateNext]_updateVars
         => [\E v \in Binaries : Replaced!Exchange(v)]_Binary
  BY UpdateStep DEF Replaced!Exchange
<1>3. UpdateInv /\ [UpdateNext]_updateVars => UpdateInv'
  BY UpdateStep
<1> QED
  BY <1>1, <1>2, <1>3, UpdateInvInit, PTL DEF UpdateSpec, UpdateIsAtomic, Replaced!FileSpec
=============================================================================
