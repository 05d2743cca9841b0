---------------------------- MODULE ProjectExport ----------------------------
(***************************************************************************)
(* Exporting a project while it is in use (Service.Export and page of      *)
(* internal/domain/transfer): the buckets are written one after the other, *)
(* each in pages of their own transaction, and the log goes on.            *)
(***************************************************************************)
EXTENDS Integers, Sequences, FiniteSetsExt

CONSTANTS
    MaxEntries,  \* entries of the log, numbered in the order of their keys
    ExportPage   \* exportPage

ExportAssumption == MaxEntries \in Nat /\ ExportPage \in Nat \ {0}

Entries == 1 .. MaxEntries

\* buckets, in file order: two that belong together stand for all.
ExportBuckets == <<"logs", "messages">>

VARIABLES
    kept,    \* the project's buckets: the entries that have a record in each
    export,  \* the bucket that is being written, the key behind which it reads
    written, \* the file so far
    stayed   \* history: records that were there since the export began

exportVars == <<kept, export, written, stayed>>

Nothing == [logs |-> {}, messages |-> {}]

ExportInit ==
    /\ kept \in [logs : SUBSET Entries, messages : SUBSET Entries]
    /\ kept.messages \subseteq kept.logs
    /\ export = [bucket |-> 0, after |-> 0]
    /\ written = Nothing
    /\ stayed = Nothing

-----------------------------------------------------------------------------
(* The log.  An entry has its messages after it, and goes with them.       *)

LogEntry(e) ==
    /\ e \notin kept.logs
    /\ kept' = [kept EXCEPT !.logs = @ \cup {e}]
    /\ UNCHANGED <<export, written, stayed>>

LogMessage(e) ==
    /\ e \in kept.logs \ kept.messages
    /\ kept' = [kept EXCEPT !.messages = @ \cup {e}]
    /\ UNCHANGED <<export, written, stayed>>

RemoveEntry(e) ==
    /\ e \in kept.logs
    /\ kept' = [logs |-> kept.logs \ {e}, messages |-> kept.messages \ {e}]
    /\ stayed' = [logs |-> stayed.logs \ {e}, messages |-> stayed.messages \ {e}]
    /\ UNCHANGED <<export, written>>

-----------------------------------------------------------------------------
BeginExport ==
    /\ export.bucket = 0
    /\ export' = [bucket |-> 1, after |-> 0]
    /\ stayed' = kept
    /\ UNCHANGED <<kept, written>>

Exporting == export.bucket \in DOMAIN ExportBuckets

\* page: the keys behind the last one written, from the first or from where it
\* was, whether that record is still there or not.
Page(bucket, after) ==
    LET next == {e \in kept[bucket] : e > after}
    IN {e \in next : Cardinality({d \in next : d < e}) < ExportPage}

\* Broken: the next bucket is read from where the last one ended.
WritePageOn ==
    LET b == ExportBuckets[export.bucket]
        page == Page(b, export.after)
    IN
    /\ Exporting
    /\ written' = [written EXCEPT ![b] = @ \cup page]
    /\ export' = IF Cardinality(page) < ExportPage
                 THEN [export EXCEPT !.bucket = @ + 1]
                 ELSE [export EXCEPT !.after = Max(page)]
    /\ UNCHANGED <<kept, stayed>>

\* A page that is not full is the last of its bucket.
WritePage ==
    LET b == ExportBuckets[export.bucket]
        page == Page(b, export.after)
    IN
    /\ Exporting
    /\ written' = [written EXCEPT ![b] = @ \cup page]
    /\ export' = IF Cardinality(page) < ExportPage
                 THEN [bucket |-> export.bucket + 1, after |-> 0]
                 ELSE [export EXCEPT !.after = Max(page)]
    /\ UNCHANGED <<kept, stayed>>

\* The reader has gone: a document cut short.
ExportFails ==
    /\ Exporting
    /\ export' = [bucket |-> 0, after |-> 0]
    /\ written' = Nothing
    /\ stayed' = Nothing
    /\ UNCHANGED kept

ExportNext ==
    \/ \E e \in Entries : LogEntry(e) \/ LogMessage(e) \/ RemoveEntry(e)
    \/ BeginExport \/ WritePage \/ ExportFails

ExportSpec == ExportInit /\ [][ExportNext]_exportVars

-----------------------------------------------------------------------------
(* Properties.                                                             *)

ExportTypeOK ==
    /\ kept \in [logs : SUBSET Entries, messages : SUBSET Entries]
    /\ written \in [logs : SUBSET Entries, messages : SUBSET Entries]
    /\ stayed \in [logs : SUBSET Entries, messages : SUBSET Entries]
    /\ export \in [bucket : 0 .. 3, after : Nat]

Written == export.bucket > Len(ExportBuckets)

\* What was there from the beginning of an export to its end is in the file,
\* wherever the pages fell and whatever went meanwhile, the record a page ended
\* with included (page, Export).
NothingIsLeftOut ==
    Written => /\ stayed.logs \subseteq written.logs
               /\ stayed.messages \subseteq written.messages

\* "The buckets are read in one transaction as the writer runs": a message in
\* the file has its entry in it.
ExportIsOneMoment == Written => written.messages \subseteq written.logs
=============================================================================
