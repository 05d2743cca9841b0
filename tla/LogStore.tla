------------------------------ MODULE LogStore ------------------------------
(***************************************************************************)
(* internal/domain/reqlog/store.go and blobs.go over core/blobstore: log   *)
(* entries are records of the database, and a body past the threshold is a *)
(* file beside it that the record names.  A database transaction is one    *)
(* step.  The files are written before the transaction of a new entry,     *)
(* inside the transaction of a rewrite, and removed after the transaction  *)
(* that stopped naming them; the process may stop between any two of these *)
(* and reconciles the files with the records when it starts again.         *)
(*                                                                         *)
(* Every body here is one past the threshold: smaller ones never leave     *)
(* their record.                                                           *)
(***************************************************************************)
CONSTANTS
    Projects,    \* project ids, each of which is used for one project
    Entries,     \* entry ids
    Callers,     \* goroutines that use the store
    None         \* no record, no envelope

VARIABLES
    offloads,    \* bodies go to files (--body-blob-mb is not zero)
    running,     \* the process is up
    status,      \* what has become of each project id
    used,        \* the entry ids that were ever given to a new entry
    records,     \* BucketLogs of each project
    files,       \* the body files on disk
    call,        \* what each goroutine is doing
    envelope,    \* an exported project file: the records of a log
    exposed,     \* history: entries a removal of others' files can reach
    dropped,     \* history: files left by a crash or a failed write
    forgotten    \* history: files the store stopped naming without removing

vars == <<offloads, running, status, used, records, files, call, envelope,
          exposed, dropped, forgotten>>

history == <<exposed, dropped, forgotten>>

Sides == {"request", "response"}

Places == {"absent", "inline", "file"}

\* Where the bodies of an entry are.  The files of an entry are named by the
\* project it was in when they were written.
Records == [from : Projects, at : [Sides -> Places]]

ASSUME NoneAssumption ==
    /\ None \notin Records
    /\ None \notin [Entries -> Records \cup {None}]

Files == Projects \X Entries \X Sides

\* The files the record of x in p names (refsOf).
RefsOf(r, x) == {<<r.from, x, s>> : s \in {s \in Sides : r.at[s] = "file"}}

Refs(p, x) == IF records[p][x] = None THEN {} ELSE RefsOf(records[p][x], x)

\* The files some record names.
Claimed == UNION {Refs(p, x) : p \in Projects, x \in Entries}

Group(p) == {f \in Files : f[1] = p}

Idle == [at |-> "idle", p |-> None, x |-> None, refs |-> {}]

\* The record that offload makes of the bodies in sides.
Offloaded(p, sides) ==
    [from |-> p,
     at |-> [s \in Sides |-> IF s \notin sides THEN "absent"
                             ELSE IF offloads THEN "file" ELSE "inline"]]

Present(r) == {s \in Sides : r.at[s] # "absent"}

\* A goroutine that is removing the files of all of p.
Clearing(p) == \E c \in Callers : call[c].at = "clearing" /\ call[c].p = p

Init ==
    /\ offloads \in BOOLEAN
    /\ running = TRUE
    /\ status = [p \in Projects |-> "unused"]
    /\ used = {}
    /\ records = [p \in Projects |-> [x \in Entries |-> None]]
    /\ files = {}
    /\ call = [c \in Callers |-> Idle]
    /\ envelope = None
    /\ exposed = {}
    /\ dropped = {}
    /\ forgotten = {}

-----------------------------------------------------------------------------
(* A new entry: the hook of the log, a HAR import, a tunnel.               *)

Begin(c) == running /\ call[c].at = "idle"

Goes(c, to) == call' = [call EXCEPT ![c] = to]

CreateProject(p) ==
    /\ running
    /\ status[p] = "unused"
    /\ status' = [status EXCEPT ![p] = "live"]
    /\ UNCHANGED <<offloads, running, used, records, files, call, envelope, history>>

PutFiles(c, p, x, sides) ==
    LET new == RefsOf(Offloaded(p, sides), x) IN
    /\ Begin(c)
    /\ status[p] = "live"
    /\ x \notin used
    /\ used' = used \cup {x}
    /\ files' = files \cup new
    /\ Goes(c, [at |-> "putting", p |-> p, x |-> x, refs |-> new])
    /\ exposed' = IF Clearing(p) THEN exposed \cup {<<p, x>>} ELSE exposed
    /\ UNCHANGED <<offloads, running, status, records, envelope, dropped, forgotten>>

\* The record is written whatever has become of the project.
PutRecord(c, sides) ==
    LET p == call[c].p
        x == call[c].x
        r == Offloaded(p, sides)
    IN
    /\ running
    /\ call[c].at = "putting"
    /\ RefsOf(r, x) = call[c].refs
    /\ records' = [records EXCEPT ![p][x] = r]
    /\ Goes(c, Idle)
    /\ UNCHANGED <<offloads, running, status, used, files, envelope, history>>

\* The transaction fails: nothing removes the files.
PutFails(c) ==
    /\ running
    /\ call[c].at = "putting"
    /\ dropped' = dropped \cup call[c].refs
    /\ Goes(c, Idle)
    /\ UNCHANGED <<offloads, running, status, used, records, files, envelope,
                   exposed, forgotten>>

-----------------------------------------------------------------------------
(* A rewrite, in one transaction: the response of an entry, its marks, its *)
(* saved flag.  The entry is read whole, changed and offloaded again.      *)

\* The record of x in p after a rewrite that answers it, or does not.
Rewritten(p, x, answered) ==
    Offloaded(p, Present(records[p][x]) \cup IF answered THEN {"response"} ELSE {})

\* Broken: the files the entry had are taken for stale ones.
UpdateDropsStale(p, x, answered) ==
    LET r == Rewritten(p, x, answered) IN
    /\ running
    /\ records[p][x] # None
    /\ Refs(p, x) \subseteq files
    /\ records' = [records EXCEPT ![p][x] = r]
    /\ files' = (files \cup RefsOf(r, x)) \ Refs(p, x)
    /\ UNCHANGED <<offloads, running, status, used, call, envelope, history>>

\* hydrate clears the references, so offload never has a stale one to report.
Update(p, x, answered) ==
    LET r == Rewritten(p, x, answered) IN
    /\ running
    /\ records[p][x] # None
    /\ Refs(p, x) \subseteq files
    /\ records' = [records EXCEPT ![p][x] = r]
    /\ files' = files \cup RefsOf(r, x)
    /\ forgotten' = (forgotten \cup Refs(p, x)) \ Claimed'
    /\ UNCHANGED <<offloads, running, status, used, call, envelope, exposed, dropped>>

\* The transaction fails after the files were written.
UpdateRollsBack(p, x, answered) ==
    LET new == RefsOf(Rewritten(p, x, answered), x) IN
    /\ running
    /\ records[p][x] # None
    /\ Refs(p, x) \subseteq files
    /\ files' = files \cup new
    /\ dropped' = dropped \cup (new \ Claimed)
    /\ UNCHANGED <<offloads, running, status, used, records, call, envelope,
                   exposed, forgotten>>

-----------------------------------------------------------------------------
(* Removal: Delete, DeleteMany and Trim take some entries, Clear and the   *)
(* deletion of a project take them all.                                    *)

\* The records once the ones of p in gone have gone.
Without(p, gone) ==
    [records EXCEPT ![p] = [x \in Entries |-> IF x \in gone THEN None ELSE @[x]]]

\* Broken: only the request half of an entry is looked at.
DeleteManyForgetsRefs(c, p, gone) ==
    /\ Begin(c)
    /\ status[p] = "live"
    /\ gone # {}
    /\ gone \subseteq {x \in Entries : records[p][x] # None}
    /\ records' = Without(p, gone)
    /\ Goes(c, [at |-> "removing", p |-> p, x |-> None,
                refs |-> {f \in UNION {Refs(p, x) : x \in gone} : f[3] = "request"}])
    /\ UNCHANGED <<offloads, running, status, used, files, envelope, history>>

DeleteMany(c, p, gone) ==
    /\ Begin(c)
    /\ status[p] = "live"
    /\ gone # {}
    /\ gone \subseteq {x \in Entries : records[p][x] # None}
    /\ records' = Without(p, gone)
    /\ Goes(c, [at |-> "removing", p |-> p, x |-> None,
                refs |-> UNION {Refs(p, x) : x \in gone}])
    /\ UNCHANGED <<offloads, running, status, used, files, envelope, history>>

\* Entries whose files are written but whose records are not.
InFlight(p) ==
    {<<p, call[c].x>> : c \in {c \in Callers : call[c].at = "putting" /\ call[c].p = p}}

\* Every record of p goes, and then its directory.  DeleteGroup does nothing
\* while bodies are not offloaded.
Clear(c, p) ==
    LET named == UNION {Refs(p, x) : x \in Entries} IN
    /\ records' = Without(p, Entries)
    /\ IF offloads
         THEN /\ Goes(c, [at |-> "clearing", p |-> p, x |-> None, refs |-> {}])
              /\ exposed' = exposed \cup InFlight(p)
              /\ forgotten' = (forgotten \cup {f \in named : f[1] # p}) \ Claimed'
         ELSE /\ forgotten' = (forgotten \cup named) \ Claimed'
              /\ UNCHANGED <<call, exposed>>
    /\ UNCHANGED <<offloads, running, used, files, envelope, dropped>>

ClearLog(c, p) ==
    /\ Begin(c)
    /\ status[p] = "live"
    /\ Clear(c, p)
    /\ UNCHANGED status

\* The project is deleted and its deletion is heard (project.deleted).
DeleteProject(c, p) ==
    /\ Begin(c)
    /\ status[p] = "live"
    /\ status' = [status EXCEPT ![p] = "deleted"]
    /\ Clear(c, p)

\* The announcement was dropped by a full bus.
DeleteUnheard(p) ==
    /\ running
    /\ status[p] = "live"
    /\ status' = [status EXCEPT ![p] = "deleted"]
    /\ records' = Without(p, Entries)
    /\ dropped' = (dropped \cup UNION {Refs(p, x) : x \in Entries}) \ Claimed'
    /\ UNCHANGED <<offloads, running, used, files, call, envelope, exposed, forgotten>>

\* Files go one at a time; a file that is not there is no error.
RemoveFile(c, f) ==
    /\ running
    /\ call[c].at = "removing"
    /\ f \in call[c].refs
    /\ files' = files \ {f}
    /\ Goes(c, [call[c] EXCEPT !.refs = @ \ {f}])
    /\ UNCHANGED <<offloads, running, status, used, records, envelope, history>>

RemoveFromGroup(c, f) ==
    /\ running
    /\ call[c].at = "clearing"
    /\ f \in files \cap Group(call[c].p)
    /\ files' = files \ {f}
    /\ UNCHANGED <<offloads, running, status, used, records, call, envelope, history>>

Removed(c) ==
    /\ running
    /\ \/ call[c].at = "removing" /\ call[c].refs = {}
       \/ call[c].at = "clearing" /\ files \cap Group(call[c].p) = {}
    /\ Goes(c, Idle)
    /\ UNCHANGED <<offloads, running, status, used, records, files, envelope, history>>

-----------------------------------------------------------------------------
(* Reading: the record in one transaction, the files it names after it.    *)

Read(c, p, x) ==
    /\ Begin(c)
    /\ status[p] = "live"
    /\ records[p][x] # None
    /\ Goes(c, [at |-> "reading", p |-> p, x |-> x, refs |-> Refs(p, x)])
    /\ UNCHANGED <<offloads, running, status, used, records, files, envelope, history>>

ReadWhole(c) ==
    /\ running
    /\ call[c].at = "reading"
    /\ call[c].refs \subseteq files
    /\ Goes(c, Idle)
    /\ UNCHANGED <<offloads, running, status, used, records, files, envelope, history>>

\* A missing file is an error.
ReadFails(c) ==
    /\ running
    /\ call[c].at = "reading"
    /\ ~(call[c].refs \subseteq files)
    /\ Goes(c, Idle)
    /\ UNCHANGED <<offloads, running, status, used, records, files, envelope, history>>

-----------------------------------------------------------------------------
(* A project file (internal/domain/transfer): the records as they are in   *)
(* the database, references and all, written under a new project id.  A    *)
(* log here is never longer than a page of an export or a batch of an      *)
(* import.                                                                 *)

Export(p) ==
    /\ running
    /\ status[p] = "live"
    /\ envelope = None
    /\ \E x \in Entries : records[p][x] # None
    /\ envelope' = records[p]
    /\ UNCHANGED <<offloads, running, status, used, records, files, call, history>>

Import(q) ==
    /\ running
    /\ status[q] = "unused"
    /\ envelope # None
    /\ status' = [status EXCEPT ![q] = "live"]
    /\ records' = [records EXCEPT ![q] = envelope]
    /\ exposed' = exposed \cup {e \in Projects \X Entries : envelope[e[2]] # None}
    /\ envelope' = None
    /\ UNCHANGED <<offloads, running, used, files, call, dropped, forgotten>>

-----------------------------------------------------------------------------
(* The process stops, and starts with another setting or the same.         *)

Crash ==
    /\ running
    /\ running' = FALSE
    /\ call' = [c \in Callers |-> Idle]
    /\ dropped' = dropped \cup (files \ Claimed)
    /\ UNCHANGED <<offloads, status, used, records, files, envelope, exposed, forgotten>>

\* Broken: the sweep knows only the request half of an entry.
BootSweepsResponses(on) ==
    /\ ~running
    /\ running' = TRUE
    /\ offloads' = on
    /\ files' = IF on THEN {f \in files \cap Claimed : f[3] = "request"} ELSE files
    /\ UNCHANGED <<status, used, records, call, envelope, history>>

\* SweepBodies removes what no record names, of every project; with
\* offloading off it does nothing.
Boot(on) ==
    /\ ~running
    /\ running' = TRUE
    /\ offloads' = on
    /\ files' = IF on THEN files \cap Claimed ELSE files
    /\ dropped' = IF on THEN {} ELSE dropped
    /\ forgotten' = IF on THEN {} ELSE forgotten
    /\ UNCHANGED <<status, used, records, call, envelope, exposed>>

Next ==
    \/ \E c \in Callers, p \in Projects, x \in Entries :
         \/ \E sides \in {{"request"}, Sides} : PutFiles(c, p, x, sides)
         \/ Read(c, p, x)
    \/ \E p \in Projects, x \in Entries, answered \in BOOLEAN :
         Update(p, x, answered) \/ UpdateRollsBack(p, x, answered)
    \/ \E c \in Callers, p \in Projects :
         \/ \E gone \in SUBSET Entries : DeleteMany(c, p, gone)
         \/ ClearLog(c, p) \/ DeleteProject(c, p)
    \/ \E c \in Callers, f \in Files : RemoveFile(c, f) \/ RemoveFromGroup(c, f)
    \/ \E c \in Callers :
         \/ \E sides \in {{"request"}, Sides} : PutRecord(c, sides)
         \/ PutFails(c) \/ Removed(c) \/ ReadWhole(c) \/ ReadFails(c)
    \/ \E p \in Projects : CreateProject(p) \/ DeleteUnheard(p) \/ Export(p) \/ Import(p)
    \/ Crash
    \/ \E on \in BOOLEAN : Boot(on)

Spec == Init /\ [][Next]_vars

-----------------------------------------------------------------------------

Calls ==
    {Idle}
    \cup [at : {"putting", "reading"}, p : Projects, x : Entries, refs : SUBSET Files]
    \cup [at : {"removing"}, p : Projects, x : {None}, refs : SUBSET Files]
    \cup [at : {"clearing"}, p : Projects, x : {None}, refs : {{}}]

TypeOK ==
    /\ offloads \in BOOLEAN
    /\ running \in BOOLEAN
    /\ status \in [Projects -> {"unused", "live", "deleted"}]
    /\ used \in SUBSET Entries
    /\ records \in [Projects -> [Entries -> Records \cup {None}]]
    /\ files \in SUBSET Files
    /\ call \in [Callers -> Calls]
    /\ envelope \in [Entries -> Records \cup {None}] \cup {None}
    /\ exposed \in SUBSET (Projects \X Entries)
    /\ dropped \in SUBSET Files
    /\ forgotten \in SUBSET Files

\* A body is in its record or in a file that is there, whatever is deleted,
\* rewritten or swept and wherever the process stops - unless the entry was
\* being written while its whole project was being emptied, or came from or
\* went into a project file (the rule of package blobstore).
NothingHalfWay ==
    \A p \in Projects, x \in Entries :
        <<p, x>> \notin exposed => Refs(p, x) \subseteq files

\* Files that a goroutine has still to name or to remove.
Due ==
    (UNION {call[c].refs : c \in {c \in Callers : call[c].at \in {"putting", "removing"}}})
    \cup (UNION {Group(p) : p \in {p \in Projects : Clearing(p)}})

\* A file that no record names is about to be named, is about to be removed,
\* or is one the store is known to leave behind: by a crash, a failed write
\* or a missed announcement, or by having stopped naming it unremoved
\* (Delete, DeleteMany, Trim, Clear).
NoFileIsMislaid == files \ Claimed \subseteq Due \cup dropped \cup forgotten

\* A reader is refused only an entry that is gone by then, or one of the
\* exposed (Get).
ReadersSeeWhole ==
    [][\A c \in Callers :
          ReadFails(c) => \/ records[call[c].p][call[c].x] = None
                          \/ <<call[c].p, call[c].x>> \in exposed]_vars

\* The package comment of blobstore: a body is either in the record or in a
\* file, never half way.
NeverHalfWay ==
    \A p \in Projects, x \in Entries : Refs(p, x) \subseteq files

\* docs/projects.md: every export sees whole bodies.
ExportsAreWhole ==
    envelope # None =>
        \A x \in Entries, s \in Sides :
            envelope[x] # None => envelope[x].at[s] # "file"

=============================================================================
