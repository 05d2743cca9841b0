----------------------------- MODULE LogService -----------------------------
(***************************************************************************)
(* internal/domain/reqlog/service.go over store.go: the two hooks that log *)
(* an exchange, the retention that follows them in a goroutine of its own, *)
(* and the console's calls on the log.  A transaction is one step, and so  *)
(* is each touch of the open project and of the two atomics of retention.  *)
(* Bodies and their files are LogStore's.                                  *)
(***************************************************************************)
EXTENDS Integers, FiniteSets, FiniteSetsExt

CONSTANTS
    Projects,
    Cap,       \* MaxEntries of each project, 0 for none
    N,         \* exchanges; their ids are UUIDv7, which sort by time
    Every,     \* trimEvery, 64 in the code
    Page,      \* eachPage, 200, and the 500 ids of a batch that is deleted
    Callers,   \* console calls that may be in flight together
    Faults,    \* TRUE: a transaction may fail
    None       \* no project

ASSUME CapAssumption == Cap \in [Projects -> Nat]
ASSUME SizesAssumption == N \in Nat /\ {Every, Page} \subseteq Nat \ {0}
ASSUME NoneAssumption == None \notin Projects

VARIABLES
    active,     \* the open project
    deleted,    \* projects that were deleted
    log,        \* bucket "logs" of each project
    exchange,   \* where the hooks of each exchange stand, and its project
    writes,     \* Service.writes
    trimming,   \* Service.trimming
    trim,       \* the goroutine of retention, and the project it read
    call,       \* where each console call that takes several steps stands
    kept,       \* history: saved entries the last trim of a project met
    counted,    \* history: projects whose entries were ever counted
    spilt,      \* history: a count was used up and no trim came of it
    stragglers  \* history: exchanges about to be put when their project went

vars == <<active, deleted, log, exchange, writes, trimming, trim, call, kept,
          counted, spilt, stragglers>>
retention == <<writes, trimming, trim, kept, counted, spilt>>

Ids == 1 .. N

Fresh == [saved |-> FALSE, answered |-> FALSE]

Empty == [i \in {} |-> Fresh]

Logged(p) == DOMAIN log[p]

Only(f, S) == [i \in S |-> f[i]]

\* The oldest n elements of S.
Oldest(S, n) == {i \in S : Cardinality({j \in S : j < i}) < n}

Waiting == [at |-> "new", project |-> None]

Over == [at |-> "done", project |-> None]

\* A removal of many entries: the op that asked for it, the project it read,
\* the key it has got to, the ids it has collected, whether it has met a saved
\* entry, and (history) the entries that have been saved since it began.
Idle == [op |-> "none", at |-> "idle", project |-> None, after |-> 0,
         ids |-> {}, keep |-> FALSE, safe |-> {}]

Init ==
    /\ active = None
    /\ deleted = {}
    /\ log = [p \in Projects |-> Empty]
    /\ exchange = [i \in Ids |-> Waiting]
    /\ writes = 0
    /\ trimming = FALSE
    /\ trim = [at |-> "idle", project |-> None]
    /\ call = [c \in Callers |-> Idle]
    /\ kept = [p \in Projects |-> 0]
    /\ counted = {}
    /\ spilt = FALSE
    /\ stragglers = {}

\* Entries S of p are no longer what a removal has to spare.
NotSafe(p, S) ==
    [c \in Callers |-> IF call[c].project = p THEN [call[c] EXCEPT !.safe = @ \ S]
                       ELSE call[c]]

-----------------------------------------------------------------------------
(* The project under it, which is opened, closed, and deleted when closed. *)

Open(p) ==
    /\ p \notin deleted \cup {active}
    /\ active' = p
    /\ UNCHANGED <<deleted, log, exchange, retention, call, stragglers>>

Close ==
    /\ active # None
    /\ active' = None
    /\ UNCHANGED <<deleted, log, exchange, retention, call, stragglers>>

DeleteProject(p) ==
    /\ p \notin deleted \cup {active}
    /\ deleted' = deleted \cup {p}
    /\ log' = [log EXCEPT ![p] = Empty]
    /\ call' = NotSafe(p, Ids)
    /\ stragglers' = stragglers \cup
                       {i \in Ids : exchange[i] = [at |-> "reading", project |-> p]}
    /\ UNCHANGED <<active, exchange, retention>>

-----------------------------------------------------------------------------
(* The hooks.                                                              *)

Move(i, at) == exchange' = [exchange EXCEPT ![i].at = at]

End(i) == exchange' = [exchange EXCEPT ![i] = Over]

\* Ids are given in the order of time.
Begins(i) ==
    /\ exchange[i].at = "new"
    /\ \A j \in 1 .. i - 1 : exchange[j].at # "new"

\* The request hook reads the open project.
Request(i) ==
    /\ Begins(i) /\ active # None
    /\ exchange' = [exchange EXCEPT ![i] = [at |-> "reading", project |-> active]]
    /\ UNCHANGED <<active, deleted, log, retention, call, stragglers>>

\* Nothing is open, the log is paused, the request is out of a scope that is
\* kept to, or the project ignores it: the response half finds no mark.
NotLogged(i) ==
    /\ Begins(i)
    /\ End(i)
    /\ UNCHANGED <<active, deleted, log, retention, call, stragglers>>

\* The body has been read and the entry is put.
PutEntry(i) ==
    LET p == exchange[i].project IN
    /\ exchange[i].at = "reading"
    /\ log' = [log EXCEPT ![p] = [j \in Logged(p) \cup {i} |->
                                     IF j = i THEN Fresh ELSE log[p][j]]]
    /\ Move(i, "put")
    /\ UNCHANGED <<active, deleted, retention, call, stragglers>>

PutFails(i) ==
    /\ Faults
    /\ exchange[i].at = "reading"
    /\ End(i)
    /\ UNCHANGED <<active, deleted, log, retention, call, stragglers>>

\* maybeTrim, up to the count.
Count(i) ==
    LET p == exchange[i].project IN
    /\ exchange[i].at = "put"
    /\ IF Cap[p] = 0
       THEN Move(i, "upstream") /\ UNCHANGED <<writes, counted>>
       ELSE /\ writes' = writes + 1
            /\ Move(i, IF writes' < Every THEN "upstream" ELSE "due")
            /\ counted' = counted \cup {p}
    /\ UNCHANGED <<active, deleted, log, trimming, trim, kept, spilt, call,
                   stragglers>>

\* The counter starts again, and retention unless it is still at work.
StartTrim(i) ==
    /\ exchange[i].at = "due"
    /\ Move(i, "upstream")
    /\ writes' = 0
    /\ trimming' = TRUE
    /\ trim' = IF trimming THEN trim ELSE [at |-> "begun", project |-> None]
    /\ spilt' = (spilt \/ trimming \/ writes # Every)
    /\ UNCHANGED <<active, deleted, log, kept, counted, call, stragglers>>

\* Broken: puts the entry again when it has gone.
StoreResponseUpserts(i) ==
    LET p == exchange[i].project IN
    /\ exchange[i].at = "upstream"
    /\ log' = [log EXCEPT ![p] = [j \in Logged(p) \cup {i} |->
                   IF j = i THEN [Fresh EXCEPT !.answered = TRUE] ELSE log[p][j]]]
    /\ Move(i, "answered")
    /\ UNCHANGED <<active, deleted, retention, call, stragglers>>

\* The response hook leaves the answer to a goroutine, whose SetResponse is an
\* Update: an entry that has gone is not found.
StoreResponse(i) ==
    LET p == exchange[i].project IN
    /\ exchange[i].at = "upstream"
    /\ IF i \in Logged(p)
       THEN log' = [log EXCEPT ![p][i].answered = TRUE] /\ Move(i, "answered")
       ELSE log' = log /\ End(i)
    /\ UNCHANGED <<active, deleted, retention, call, stragglers>>

\* No answer came, or it could not be stored in its ten seconds.
NoResponse(i) ==
    /\ exchange[i].at = "upstream"
    /\ End(i)
    /\ UNCHANGED <<active, deleted, log, retention, call, stragglers>>

-----------------------------------------------------------------------------
(* Retention.                                                              *)

\* Trim reads the project that is open by now, which need not be the one that
\* was counted.
TrimReads ==
    /\ trim.at = "begun"
    /\ LET capped == active # None /\ Cap[active] > 0 IN
       /\ trim' = [at |-> IF capped THEN "read" ELSE "over", project |-> active]
       /\ spilt' = (spilt \/ ~capped \/ counted # {active})
    /\ UNCHANGED <<active, deleted, log, exchange, writes, trimming, kept,
                   counted, call, stragglers>>

\* Broken: the saved entries do not count towards the cap.
TrimmedUncounted(f, cap) ==
    LET unsaved == {i \in DOMAIN f : ~f[i].saved}
    IN Only(f, DOMAIN f \ Oldest(unsaved, Cardinality(unsaved) - cap))

\* The oldest entries that are not saved go, as many as are over the cap.
Trimmed(f, cap) ==
    LET excess == Cardinality(DOMAIN f) - cap
    IN Only(f, DOMAIN f \ Oldest({i \in DOMAIN f : ~f[i].saved}, excess))

TrimLog ==
    LET p == trim.project IN
    /\ trim.at = "read"
    /\ log' = [log EXCEPT ![p] = Trimmed(@, Cap[p])]
    /\ kept' = [kept EXCEPT ![p] = Cardinality({i \in Logged(p) : log[p][i].saved})]
    /\ trim' = [at |-> "over", project |-> None]
    /\ UNCHANGED <<active, deleted, exchange, writes, trimming, counted, spilt,
                   call, stragglers>>

TrimFails ==
    /\ Faults
    /\ trim.at = "read"
    /\ trim' = [at |-> "over", project |-> None]
    /\ spilt' = TRUE
    /\ UNCHANGED <<active, deleted, log, exchange, writes, trimming, kept,
                   counted, call, stragglers>>

\* The deferred store, whatever became of the trim.
TrimEnds ==
    /\ trim.at = "over"
    /\ trimming' = FALSE
    /\ trim' = [at |-> "idle", project |-> None]
    /\ UNCHANGED <<active, deleted, log, exchange, writes, kept, counted, spilt,
                   call, stragglers>>

-----------------------------------------------------------------------------
(* Console calls on one entry.  Each reads the open project and runs one   *)
(* transaction, by which time that project may have been closed.           *)

\* Broken: writes an entry built anew.
SetSavedAnew(p, i, saved) ==
    /\ i \in Logged(p)
    /\ log' = [log EXCEPT ![p][i] = [Fresh EXCEPT !.saved = saved]]
    /\ call' = IF saved THEN call ELSE NotSafe(p, {i})
    /\ UNCHANGED <<active, deleted, exchange, retention, stragglers>>

\* SetSaved; an entry that has gone is not found.
SetSaved(p, i, saved) ==
    /\ i \in Logged(p)
    /\ log' = [log EXCEPT ![p][i].saved = saved]
    /\ call' = IF saved THEN call ELSE NotSafe(p, {i})
    /\ UNCHANGED <<active, deleted, exchange, retention, stragglers>>

Delete(p, i) ==
    /\ i \in Logged(p)
    /\ log' = [log EXCEPT ![p] = Only(@, Logged(p) \ {i})]
    /\ call' = NotSafe(p, {i})
    /\ UNCHANGED <<active, deleted, exchange, retention, stragglers>>

-----------------------------------------------------------------------------
(* Clear and DeleteMatching, which read the log a page at a time and then  *)
(* remove.                                                                 *)

\* The console asks for the whole log, for what a filter selects of it, or for
\* what a filter selects among the saved entries.
Clear(c, op) ==
    /\ call[c].at = "idle" /\ active # None
    /\ call' = [call EXCEPT ![c] =
          [op |-> op, at |-> "collect", project |-> active, after |-> 0, ids |-> {},
           keep |-> FALSE, safe |-> {i \in Logged(active) : log[active][i].saved}]]
    /\ UNCHANGED <<active, deleted, log, exchange, retention, stragglers>>

\* What a page adds: a filter may select anything of its view.
Selected(op, page, saved) ==
    CASE op = "clear" -> {page \ saved}
      [] op = "log" -> SUBSET (page \ saved)
      [] op = "saved" -> SUBSET saved

\* Broken: knows only of its last page whether there is something to keep.
CollectForgets(c) ==
    LET p == call[c].project
        page == Oldest({i \in Logged(p) : i > call[c].after}, Page)
        saved == {i \in page : log[p][i].saved}
    IN /\ call[c].at = "collect"
       /\ \E found \in Selected(call[c].op, page, saved) :
             call' = [call EXCEPT
                ![c].ids = @ \cup found, ![c].keep = saved # {},
                ![c].after = IF page = {} THEN @ ELSE Max(page),
                ![c].at = IF Cardinality(page) < Page THEN "remove" ELSE @]
       /\ UNCHANGED <<active, deleted, log, exchange, retention, stragglers>>

Collect(c) ==
    LET p == call[c].project
        page == Oldest({i \in Logged(p) : i > call[c].after}, Page)
        saved == {i \in page : log[p][i].saved}
    IN /\ call[c].at = "collect"
       /\ \E found \in Selected(call[c].op, page, saved) :
             call' = [call EXCEPT
                ![c].ids = @ \cup found,
                ![c].keep = @ \/ saved # {},
                ![c].after = IF page = {} THEN @ ELSE Max(page),
                ![c].at = IF Cardinality(page) < Page THEN "remove" ELSE @]
       /\ UNCHANGED <<active, deleted, log, exchange, retention, stragglers>>

Wholesale(c) == call[c].op = "clear" /\ ~call[c].keep

\* Clear met nothing saved: the buckets go, whatever is in them by now.
ClearBuckets(c) ==
    LET p == call[c].project IN
    /\ call[c].at = "remove" /\ Wholesale(c)
    /\ log' = [log EXCEPT ![p] = Empty]
    /\ call' = [NotSafe(p, Ids) EXCEPT ![c] = Idle]
    /\ UNCHANGED <<active, deleted, exchange, retention, stragglers>>

\* One batch of the ids that were collected; those that have gone are skipped.
DeleteBatch(c) ==
    LET p == call[c].project
        batch == Oldest(call[c].ids, Page)
    IN /\ call[c].at = "remove" /\ ~Wholesale(c) /\ batch # {}
       /\ log' = [log EXCEPT ![p] = Only(@, Logged(p) \ batch)]
       /\ call' = [NotSafe(p, batch) EXCEPT ![c].ids = @ \ batch]
       /\ UNCHANGED <<active, deleted, exchange, retention, stragglers>>

\* Nothing is left to remove, or a transaction failed and the rest stays.
EndRemoval(c) ==
    /\ call[c].at = "remove"
    /\ Faults \/ (~Wholesale(c) /\ call[c].ids = {})
    /\ call' = [call EXCEPT ![c] = Idle]
    /\ UNCHANGED <<active, deleted, log, exchange, retention, stragglers>>

-----------------------------------------------------------------------------
Next ==
    \/ \E p \in Projects : Open(p) \/ DeleteProject(p)
    \/ Close
    \/ \E i \in Ids :
          \/ Request(i) \/ NotLogged(i) \/ PutEntry(i) \/ PutFails(i)
          \/ Count(i) \/ StartTrim(i) \/ StoreResponse(i) \/ NoResponse(i)
          \/ \E p \in Projects :
                \/ \E saved \in BOOLEAN : SetSaved(p, i, saved)
                \/ Delete(p, i)
    \/ TrimReads \/ TrimLog \/ TrimFails \/ TrimEnds
    \/ \E c \in Callers :
          \/ \E op \in {"clear", "log", "saved"} : Clear(c, op)
          \/ Collect(c) \/ ClearBuckets(c) \/ DeleteBatch(c) \/ EndRemoval(c)

Spec == Init /\ [][Next]_vars

-----------------------------------------------------------------------------
Entries == [saved : BOOLEAN, answered : BOOLEAN]

\* A bucket: some ids and the entry of each.
Logs == UNION {[S -> Entries] : S \in SUBSET Ids}

Stands ==
    [at : {"new", "done"}, project : {None}]
    \cup [at : {"reading", "put", "due", "upstream", "answered"}, project : Projects]

Trims ==
    [at : {"idle", "begun"}, project : {None}]
    \cup [at : {"read"}, project : Projects]
    \cup [at : {"over"}, project : Projects \cup {None}]

Removals ==
    [op : {"clear", "log", "saved"}, at : {"collect", "remove"}, project : Projects,
     after : 0 .. N, ids : SUBSET Ids, keep : BOOLEAN, safe : SUBSET Ids]

TypeOK ==
    /\ active \in Projects \cup {None}
    /\ deleted \in SUBSET Projects
    /\ log \in [Projects -> Logs]
    /\ exchange \in [Ids -> Stands]
    /\ writes \in Nat
    /\ trimming \in BOOLEAN
    /\ trim \in Trims
    /\ call \in [Callers -> Removals \cup {Idle}]
    /\ kept \in [Projects -> Nat]
    /\ counted \in SUBSET Projects
    /\ spilt \in BOOLEAN
    /\ stragglers \in SUBSET Ids

-----------------------------------------------------------------------------
(* Properties.                                                             *)

NothingDue == trim.at = "idle" /\ \A i \in Ids : exchange[i].at \notin {"put", "due"}

\* The cap of a log is honoured within trimEvery entries of itself, or of what
\* its last trim had to leave because it is saved (trimEvery, maybeTrim).  Two
\* things are known to break that promise and are excluded by the premise: the
\* counter is shared by all projects, and a count that comes due while a trim
\* is under way, or finds another project open or the disk failing, is used up.
CapIsKept ==
    \A p \in Projects :
       NothingDue /\ Cap[p] > 0 /\ counted = {p} /\ ~spilt
          => Cardinality(Logged(p)) < Max({Cap[p], kept[p]}) + Every

\* A call that clears the log, or what a filter selects of it, takes no entry
\* that was saved before the call began and ever since, however many pages it
\* reads and whatever goes on between them; and no trim takes a saved entry
\* (Service.Clear, DeleteMatching, Store.Trim).
SavedIsSpared ==
    [][/\ \A c \in Callers :
             /\ call[c].op \in {"clear", "log"}
             /\ call'[c].at # call[c].at \/ call'[c].ids # call[c].ids
             => call[c].safe \subseteq
                   DOMAIN log'[call[c].project] \cup (Ids \ Logged(call[c].project))
       /\ trim.at = "read" /\ trim'.at # "read" =>
             \A i \in Logged(trim.project) :
                log[trim.project][i].saved => i \in DOMAIN log'[trim.project]]_vars

\* The log of a deleted project holds nothing but the requests whose hook had
\* read the project before it was deleted: no response, mark or trim brings an
\* entry back (Store.Put creates its buckets, Store.Update asks for the entry).
OnlyStragglersReturn == \A p \in deleted : Logged(p) \subseteq stragglers

\* An entry whose response was stored keeps it, whatever is done to its marks
\* meanwhile (SetResponse, SetSaved).
NoAnswerIsLost ==
    \A i \in Ids :
       LET p == exchange[i].project IN
       exchange[i].at = "answered" /\ i \in Logged(p) => log[p][i].answered

\* What the comment on trimEvery says of the cap, without the premises of
\* CapIsKept.
CapIsHonoured ==
    \A p \in Projects :
       NothingDue /\ Cap[p] > 0
          => Cardinality(Logged(p)) <= Max({Cap[p], kept[p]}) + Every
=============================================================================
