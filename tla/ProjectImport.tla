---------------------------- MODULE ProjectImport ----------------------------
(***************************************************************************)
(* Importing a project from a file (Service.Import and read of             *)
(* internal/domain/transfer): the members of the envelope are taken in the *)
(* order of the file, the records of a bucket are written in batches under *)
(* an id nobody knows yet, and the project's row comes last.               *)
(***************************************************************************)
EXTENDS Integers, Sequences, FiniteSets

CONSTANTS
    Imports,      \* one id each, newID
    FileBuckets,  \* buckets a file may have
    MaxRecords,   \* records of a bucket in a file
    ImportBatch,  \* importBatch
    None

ImportAssumption == MaxRecords \in Nat /\ ImportBatch \in Nat \ {0}

VARIABLES
    file,    \* the file of each import: how many records each bucket has
    import,  \* where each import stands
    data,    \* the data bucket of each id: records by bucket, numbered
    row,     \* ids that are projects
    orphan   \* history: ids a crash or a cleanup that failed has left

importVars == <<file, import, data, row, orphan>>

Needed == {"format", "version", "project"}

\* had: members that were read; bucket: the array that is being read, with the
\* records taken from it and those of them not written yet.
Fresh == [at |-> "idle", had |-> {}, done |-> {}, bucket |-> None, read |-> 0, batch |-> {}]

Empty == [b \in FileBuckets |-> {}]

ImportInit ==
    /\ file = [i \in Imports |-> [b \in FileBuckets |-> 0]]
    /\ import = [i \in Imports |-> Fresh]
    /\ data = [i \in Imports |-> Empty]
    /\ row = {}
    /\ orphan = {}

Reading(i, at) == import[i].at = at

StartImport(i) ==
    /\ Reading(i, "idle") /\ i \notin row \cup orphan
    /\ \E f \in [FileBuckets -> 0 .. MaxRecords] : file' = [file EXCEPT ![i] = f]
    /\ import' = [import EXCEPT ![i].at = "members"]
    /\ UNCHANGED <<data, row, orphan>>

\* One that is neither ours nor known is skipped.
ReadMember(i, m) ==
    /\ Reading(i, "members") /\ m \notin import[i].had
    /\ import' = [import EXCEPT ![i].had = @ \cup {m}]
    /\ UNCHANGED <<file, data, row, orphan>>

\* Records are taken only from a file that has said it is one of ours.
ReadBucketsMember(i) ==
    /\ Reading(i, "members") /\ {"format", "version"} \subseteq import[i].had
    /\ import[i].done = {}
    /\ import' = [import EXCEPT ![i].at = "buckets"]
    /\ UNCHANGED <<file, data, row, orphan>>

ReadBucket(i, b) ==
    /\ Reading(i, "buckets") /\ b \notin import[i].done
    /\ import' = [import EXCEPT ![i].at = "records", ![i].bucket = b,
                                ![i].read = 0, ![i].batch = {}]
    /\ UNCHANGED <<file, data, row, orphan>>

\* A record is decoded and pointed at the new project.
ReadRecord(i) ==
    LET n == import[i].read + 1 IN
    /\ Reading(i, "records") /\ n <= file[i][import[i].bucket]
    /\ Cardinality(import[i].batch) < ImportBatch
    /\ import' = [import EXCEPT ![i].read = n, ![i].batch = @ \cup {n}]
    /\ UNCHANGED <<file, data, row, orphan>>

\* flush: a full batch, or what is left at the end of the array.
Flush(i) ==
    /\ Reading(i, "records") /\ import[i].batch # {}
    /\ \/ Cardinality(import[i].batch) = ImportBatch
       \/ import[i].read = file[i][import[i].bucket]
    /\ data' = [data EXCEPT ![i][import[i].bucket] = @ \cup import[i].batch]
    /\ import' = [import EXCEPT ![i].batch = {}]
    /\ UNCHANGED <<file, row, orphan>>

\* Broken: the last batch is written only if it is full.
EndBucketUnflushed(i) ==
    /\ Reading(i, "records") /\ import[i].read = file[i][import[i].bucket]
    /\ Cardinality(import[i].batch) < ImportBatch
    /\ import' = [import EXCEPT ![i].at = "buckets", ![i].done = @ \cup {import[i].bucket}]
    /\ UNCHANGED <<file, data, row, orphan>>

EndBucket(i) ==
    /\ Reading(i, "records") /\ import[i].read = file[i][import[i].bucket]
    /\ import[i].batch = {}
    /\ import' = [import EXCEPT ![i].at = "buckets", ![i].done = @ \cup {import[i].bucket}]
    /\ UNCHANGED <<file, data, row, orphan>>

EndBuckets(i) ==
    /\ Reading(i, "buckets")
    /\ \A b \in FileBuckets : file[i][b] > 0 => b \in import[i].done
    /\ import' = [import EXCEPT ![i].at = "members", ![i].done = FileBuckets]
    /\ UNCHANGED <<file, data, row, orphan>>

\* The end of the file: nothing may be missing.  A settings-only export has its
\* buckets empty, one of another program may have none.
EndFile(i) ==
    /\ Reading(i, "members") /\ import[i].had = Needed
    /\ \A b \in FileBuckets : file[i][b] > 0 => import[i].done # {}
    /\ import' = [import EXCEPT ![i].at = "insert"]
    /\ UNCHANGED <<file, data, row, orphan>>

\* A file cut short or of another kind, a record that does not decode, a write
\* that fails, a client that leaves, settings that do not compile, a hundred
\* names taken.
ImportFails(i) ==
    /\ import[i].at \in {"members", "buckets", "records", "insert"}
    /\ import' = [import EXCEPT ![i].at = "discard"]
    /\ UNCHANGED <<file, data, row, orphan>>

Insert(i) ==
    /\ Reading(i, "insert")
    /\ row' = row \cup {i}
    /\ import' = [import EXCEPT ![i].at = "over"]
    /\ UNCHANGED <<file, data, orphan>>

\* Broken: what failed is taken to have left nothing.
DiscardNothing(i) ==
    /\ Reading(i, "discard")
    /\ import' = [import EXCEPT ![i].at = "over"]
    /\ UNCHANGED <<file, data, row, orphan>>

\* Best effort.
Discard(i) ==
    /\ Reading(i, "discard")
    /\ import' = [import EXCEPT ![i].at = "over"]
    /\ \/ data' = [data EXCEPT ![i] = Empty] /\ UNCHANGED orphan
       \/ orphan' = orphan \cup {i} /\ UNCHANGED data
    /\ UNCHANGED <<file, row>>

\* No start looks for data without a row.
CrashImports ==
    LET lost == {i \in Imports : import[i].at \notin {"idle", "over"}} IN
    /\ lost # {}
    /\ orphan' = orphan \cup lost
    /\ import' = [i \in Imports |-> IF i \in lost THEN [Fresh EXCEPT !.at = "over"]
                                    ELSE import[i]]
    /\ UNCHANGED <<file, data, row>>

\* Deleting a project takes its data with it.
DeleteImported(i) ==
    /\ i \in row
    /\ row' = row \ {i}
    /\ data' = [data EXCEPT ![i] = Empty]
    /\ UNCHANGED <<file, import, orphan>>

ImportNext ==
    \/ \E i \in Imports :
          \/ StartImport(i) \/ ReadBucketsMember(i) \/ EndBuckets(i) \/ EndFile(i)
          \/ ReadRecord(i) \/ Flush(i) \/ EndBucket(i)
          \/ ImportFails(i) \/ Insert(i) \/ Discard(i) \/ DeleteImported(i)
          \/ \E m \in Needed : ReadMember(i, m)
          \/ \E b \in FileBuckets : ReadBucket(i, b)
    \/ CrashImports

ImportSpec == ImportInit /\ [][ImportNext]_importVars

-----------------------------------------------------------------------------
(* Properties.                                                             *)

ImportTypeOK ==
    /\ file \in [Imports -> [FileBuckets -> Nat]]
    /\ import \in [Imports -> [at : {"idle", "members", "buckets", "records", "insert",
                                    "discard", "over"},
                              had : SUBSET Needed, done : SUBSET FileBuckets,
                              bucket : FileBuckets \cup {None}, read : Nat,
                              batch : SUBSET Nat]]
    /\ data \in [Imports -> [FileBuckets -> SUBSET Nat]]
    /\ row \subseteq Imports
    /\ orphan \subseteq Imports

\* A project appears with every record of its file, and "a failure after records
\* were written leaves nothing behind" but for a crash or a cleanup that fails
\* itself (Import, discard).
ImportsAreWhole ==
    \A i \in Imports :
       /\ i \in row => \A b \in FileBuckets : data[i][b] = 1 .. file[i][b]
       /\ import[i].at = "over" /\ i \notin row \cup orphan => data[i] = Empty
=============================================================================
