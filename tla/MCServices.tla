----------------------------- MODULE MCServices -----------------------------
(***************************************************************************)
(* What the console's services keep and hand out, on small instances.  The *)
(* services below share nothing, so a behaviour is one of one of them: the *)
(* first state says of which, and the others stay as they began.           *)
(***************************************************************************)
EXTENDS Integers, FiniteSets, Sequences, TLC

CONSTANTS None, s1, s2, s3, n1, n2, u1, u2, p, q, r1, missing, server, Damaged

VARIABLES
    focus,                                          \* the service that runs
    servers, writes, compiled, edit, reads, unborn, deleted, raced,
    open, store, use, unused, asked, passed,
    opened, rows, uploads, upload, registry, lookup, overlapped,
    activeID, subs, chan, sending, announcer, tab, panicked,
    file, import, data, row, orphan,
    kept, export, written, stayed,
    source, harFile, harImport, imported, told,
    log, messages, reader, constant,
    exe, new, old, at, current, latest, archive

upstreams == <<servers, writes, compiled, edit, reads, unborn, deleted, raced>>
sender == <<open, store, use, unused, asked, passed>>
schemas == <<opened, rows, uploads, upload, registry, lookup, overlapped>>
events == <<activeID, subs, chan, sending, announcer, tab, panicked>>
imports == <<file, import, data, row, orphan>>
exports == <<kept, export, written, stayed>>
hars == <<source, harFile, harImport, imported, told>>
logs == <<log, messages, reader, constant>>
updates == <<exe, new, old, at, current, latest, archive>>

vars == <<focus, upstreams, sender, schemas, events, imports, exports, hars, logs, updates>>

(* A list with room for two of three servers.                              *)
INSTANCE Upstreams WITH
    Servers <- {s1, s2, s3}, Names <- {n1, n2}, MaxServers <- 2,
    Editors <- {u1, u2}, Requests <- {r1}, MaxWrites <- 3, read <- reads

INSTANCE Sender WITH
    Kept <- {s1, s2}, SenderProjects <- {p, q}, Heads <- {n1}, Bodies <- {n1, n2},
    Users <- {u1, u2}

INSTANCE ProtoSchema WITH
    FileNames <- {n1, n2}, SchemaProjects <- {p, q}, Uploaders <- {u1, u2},
    Readers <- {r1}, MaxUploads <- 3

INSTANCE EventBus WITH
    Tabs <- {s1, s2}, Publishers <- {u1, u2}, Buffer <- 1, MaxEvents <- 4

INSTANCE ProjectImport WITH
    Imports <- {p}, FileBuckets <- {n1, n2}, MaxRecords <- 3, ImportBatch <- 2

INSTANCE ProjectExport WITH
    MaxEntries <- 4, ExportPage <- 2

INSTANCE LogReads WITH
    LastId <- 3, LastKey <- 5, Limit <- 1, ScanBatch <- 2, EachPage <- 1,
    Chunk <- 1, MaxScore <- 1, Gone <- missing

INSTANCE SelfUpdate WITH MaxVersion <- 3

(* Entries of a HAR file: with and without an answer, measured or not, with*)
(* a body its type agrees with or not.                                     *)
Contents == {[type |-> "text", body |-> "latin"], [type |-> "unknown", body |-> "text"],
             [type |-> "unknown", body |-> "bytes"], [type |-> "binary", body |-> "latin"],
             [type |-> "text", body |-> "empty"]}

Timings(dns, connect, tls, wait, reused) ==
    [dns |-> dns, connect |-> connect, tls |-> tls, wait |-> wait, reused |-> reused,
     server |-> server]

MaybeMeasured == {None, Timings(0, 1, 0, 1, TRUE), Timings(0, 1, 1, 0, FALSE),
                  Timings(1, 1, 0, 1, FALSE)}

Answers == {[type |-> c.type, body |-> c.body, truncated |-> cut, streamed |-> ~cut,
             duration |-> 1, timings |-> t] :
            c \in Contents, cut \in BOOLEAN, t \in MaybeMeasured}

InHar(c, cut, answer) ==
    [type |-> c.type, body |-> c.body, truncated |-> cut, answer |-> answer]

ManyEntries == {InHar(c, cut, None) : c \in Contents, cut \in BOOLEAN}
              \cup {InHar(c, FALSE, a) : c \in Contents, a \in Answers}

INSTANCE HarFile WITH
    LogEntries <- ManyEntries, Length <- 1, Addresses <- {server}

Interchangeable == Permutations({s1, s2}) \cup Permutations({u1, u2})

ASSUME UpstreamsAssumption
ASSUME SenderAssumption
ASSUME ProtoSchemaAssumption
ASSUME EventBusAssumption
ASSUME ImportAssumption
ASSUME ExportAssumption
ASSUME ReadsAssumption
ASSUME HarAssumption
ASSUME UpdateAssumption

-----------------------------------------------------------------------------
Init ==
    /\ focus \in {"upstreams", "sender", "schemas", "events", "import",
                  "export", "reads", "har", "update"}
    /\ UpstreamsInit
    /\ SenderInit /\ (focus # "sender" => open = None)
    /\ ProtoInit /\ (focus # "schemas" => opened = p)
    /\ BusInit
    /\ ImportInit
    /\ ExportInit /\ (focus # "export" => kept.logs = {})
    /\ ReadsInit
    /\ IF focus = "har" THEN HarInit
       ELSE source = <<>> /\ harFile = <<>> /\ harImport = "no" /\ imported = <<>> /\ told = None
    /\ UpdateInit /\ (focus # "update" => exe = 0)

Idle(f) ==
    /\ UNCHANGED focus
    /\ IF f = "upstreams" THEN TRUE ELSE UNCHANGED upstreams
    /\ IF f = "sender" THEN TRUE ELSE UNCHANGED sender
    /\ IF f = "schemas" THEN TRUE ELSE UNCHANGED schemas
    /\ IF f = "events" THEN TRUE ELSE UNCHANGED events
    /\ IF f = "import" THEN TRUE ELSE UNCHANGED imports
    /\ IF f = "export" THEN TRUE ELSE UNCHANGED exports
    /\ IF f = "reads" THEN TRUE ELSE UNCHANGED logs
    /\ IF f = "har" THEN TRUE ELSE UNCHANGED hars
    /\ IF f = "update" THEN TRUE ELSE UNCHANGED updates

Runs(f) == focus = f /\ Idle(f)

Next ==
    \/ Runs("upstreams") /\ UpstreamsNext
    \/ Runs("sender") /\ SenderNext
    \/ Runs("schemas") /\ ProtoNext
    \/ Runs("events") /\ BusNext
    \/ Runs("import") /\ ImportNext
    \/ Runs("export") /\ ExportNext
    \/ Runs("reads") /\ messages = {} /\ ReadLog
    \/ Runs("reads") /\ Here(log) = {} /\ ReadMessages
    \/ Runs("har") /\ HarNext
    \/ Runs("update") /\ UpdateNext

Spec == Init /\ [][Next]_vars

-----------------------------------------------------------------------------
(* UpstreamsAreCurrent, SentRequestsAreKept, SchemasAreCurrent,            *)
(* EventsArrive, ImportsAreWhole, NothingIsLeftOut, LogIsReadWhole,        *)
(* RoundTrips and UpdateIsAtomic are the services' own.                    *)
=============================================================================
