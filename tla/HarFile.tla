------------------------------- MODULE HarFile -------------------------------
(*****************************************************************************)
(* A log exported as a HAR file and read back into another project: what the *)
(* format has no word for, what each side makes of it, and files that are    *)
(* cut short, by the export that wrote them or while they are read.          *)
(*                                                                           *)
(* Of an entry the model keeps what a file may lose: the bytes of a body and *)
(* what its content type says of them, whether it was cut or streamed, and   *)
(* the phases of the exchange.  Durations are whole: the code's are floats,  *)
(* and what rounding does to a sum of them is left out.                      *)
(*****************************************************************************)
EXTENDS Integers, Sequences

CONSTANTS
    LogEntries, \* entries a log may have
    Length,     \* of the log
    Addresses,  \* of servers
    None

VARIABLES
    source,    \* the log that is exported, oldest first
    harFile,   \* its file: the rows, and whether the document was closed
    harImport, \* "no", "reads", "done", "failed"
    imported,  \* rows the import has put into the open project
    told       \* reqlog.imported, with the number of entries it names

harVars == <<source, harFile, harImport, imported, told>>

(* Bytes a body may be: no bytes, UTF-8, UTF-8 but for a few bytes, and bytes*)
(* that no one would read.  Coerced is what JSON makes of the third.         *)
BodyKinds == {"empty", "text", "latin", "bytes"}
Phases == {"dns", "connect", "tls", "wait"}

IsBinary(type, body) ==
    /\ body # "empty"
    /\ \/ type = "binary"
       \/ type = "unknown" /\ body = "bytes"

Coerced(body) == IF body \in {"latin", "bytes"} THEN "coerced" ELSE body

(* Broken: the content type alone decides whether a body is text.            *)
BodyOutByType(type, body) ==
    IF type = "binary" THEN [text |-> body, base64 |-> TRUE]
                       ELSE [text |-> Coerced(body), base64 |-> FALSE]

(* harBody and harBodyIn                                                     *)
BodyOut(type, body) ==
    IF IsBinary(type, body) THEN [text |-> body, base64 |-> TRUE]
                            ELSE [text |-> Coerced(body), base64 |-> FALSE]

BodyIn(b) == b.text

(* What the tracer of an exchange measures.  A connection that was open may  *)
(* still have been dialled for: the dial lost the race.                      *)
Measured ==
    [dns : Nat, connect : Nat, tls : Nat, wait : Nat, reused : BOOLEAN, server : Addresses]

(* Answers and entries that have these bodies and these measurements.        *)
ContentTypes == {"text", "binary", "unknown"}
HarAnswers(bodies, timings) ==
    [type : ContentTypes, body : bodies, truncated : BOOLEAN, streamed : BOOLEAN,
     duration : Nat, timings : timings \cup {None}]
HarEntries ==
    [type : ContentTypes, body : BodyKinds, truncated : BOOLEAN,
     answer : HarAnswers(BodyKinds, Measured) \cup {None}]

(* What a file may give: a body that was coerced, timings of no server.      *)
ReadAnswers ==
    HarAnswers(BodyKinds \cup {"coerced"},
               [dns : Nat, connect : Nat, tls : Nat, wait : Nat, reused : BOOLEAN,
                server : Addresses \cup {None}])

HarAssumption ==
    /\ Length \in Nat
    /\ LogEntries \subseteq HarEntries
    /\ None \notin Nat \cup Addresses /\ None \notin ReadAnswers

(* The phases in the way of the format: connect has tls in it, and -1 is a   *)
(* phase that did not happen.  Without a measurement all of it is waiting.   *)
TimingsOf(answer) ==
    LET t == answer.timings IN
    IF t = None
    THEN [dns |-> -1, connect |-> -1, tls |-> -1, wait |-> answer.duration, server |-> None]
    ELSE IF t.reused
    THEN [dns |-> -1, connect |-> -1, tls |-> -1, wait |-> t.wait, server |-> t.server]
    ELSE [dns |-> t.dns, connect |-> t.connect + t.tls, tls |-> t.tls, wait |-> t.wait,
          server |-> t.server]

AtLeastZero(n) == IF n < 0 THEN 0 ELSE n

TimingsIn(t) ==
    LET in == [dns |-> AtLeastZero(t.dns),
               connect |-> AtLeastZero(AtLeastZero(t.connect) - AtLeastZero(t.tls)),
               tls |-> AtLeastZero(t.tls),
               wait |-> AtLeastZero(t.wait),
               reused |-> t.dns < 0 /\ t.connect < 0 /\ t.tls < 0,
               server |-> t.server]
    IN IF ~in.reused /\ in.server = None /\ \A p \in Phases : in[p] = 0 THEN None ELSE in

HarEntryOf(e) ==
    [body |-> BodyOut(e.type, e.body), type |-> e.type, truncated |-> e.truncated,
     pending |-> e.answer = None,
     answer |-> IF e.answer = None THEN None
                ELSE [body |-> BodyOut(e.answer.type, e.answer.body), type |-> e.answer.type,
                      truncated |-> e.answer.truncated, streamed |-> e.answer.streamed,
                      time |-> e.answer.duration, timings |-> TimingsOf(e.answer)]]

EntryFromHAR(h) ==
    [type |-> h.type, body |-> BodyIn(h.body), truncated |-> h.truncated,
     answer |-> IF h.pending THEN None
                ELSE [type |-> h.answer.type, body |-> BodyIn(h.answer.body),
                      truncated |-> h.answer.truncated, streamed |-> h.answer.streamed,
                      duration |-> h.answer.time, timings |-> TimingsIn(h.answer.timings)]]

-----------------------------------------------------------------------------
HarInit ==
    /\ source \in [1 .. Length -> LogEntries]
    /\ harFile = [rows |-> <<>>, closed |-> FALSE]
    /\ harImport = "no"
    /\ imported = <<>>
    /\ told = None

(* WriteHAR streams: a reader that goes away leaves a document cut short.    *)
WriteEntry ==
    /\ harImport = "no" /\ ~harFile.closed /\ Len(harFile.rows) < Length
    /\ harFile' = [harFile EXCEPT !.rows = Append(@, HarEntryOf(source[Len(@) + 1]))]
    /\ UNCHANGED <<source, harImport, imported, told>>

WriteEnd ==
    /\ harImport = "no" /\ ~harFile.closed /\ Len(harFile.rows) = Length
    /\ harFile' = [harFile EXCEPT !.closed = TRUE]
    /\ UNCHANGED <<source, harImport, imported, told>>

ImportBegins ==
    /\ harImport = "no"
    /\ harImport' = "reads"
    /\ UNCHANGED <<source, harFile, imported, told>>

(* readHARLog puts each entry as it comes, under an id of its own.           *)
ImportEntry ==
    /\ harImport = "reads" /\ Len(imported) < Len(harFile.rows)
    /\ imported' = Append(imported, EntryFromHAR(harFile.rows[Len(imported) + 1]))
    /\ UNCHANGED <<source, harFile, harImport, told>>

(* The file ends in the middle, a write fails, or the request is gone.       *)
HarImportFails ==
    /\ harImport = "reads"
    /\ harImport' = "failed"
    /\ UNCHANGED <<source, harFile, imported, told>>

ImportEnds ==
    /\ harImport = "reads" /\ harFile.closed /\ Len(imported) = Len(harFile.rows)
    /\ harImport' = IF imported = <<>> THEN "failed" ELSE "done"
    /\ told' = IF imported = <<>> THEN None ELSE Len(imported)
    /\ UNCHANGED <<source, harFile, imported>>

HarNext ==
    \/ WriteEntry \/ WriteEnd
    \/ ImportBegins \/ ImportEntry \/ HarImportFails \/ ImportEnds

HarSpec == HarInit /\ [][HarNext]_harVars

-----------------------------------------------------------------------------
(* A body comes back byte for byte, but for one that its type calls text and *)
(* that is no UTF-8, of which wire.go:19-23 says it is coerced.              *)
SameBody(type, was, is) == is = was \/ (type # "binary" /\ was \in {"latin", "bytes"}
                                        /\ ~IsBinary(type, was) /\ is = "coerced")

(* A connection that was open comes back with none of the phases of a dial.  *)
SameTimings(was, is) ==
    is = IF was.reused THEN [was EXCEPT !.dns = 0, !.connect = 0, !.tls = 0] ELSE was

(* What is imported is what was exported, entry by entry and in order: its   *)
(* bodies, whether they are whole, whether there was an answer, and the      *)
(* phases of an exchange that was measured.  The console hears of an import  *)
(* when all of the log is in, and of none that was cut short.                *)
RoundTrips ==
    /\ \A i \in 1 .. Len(imported) :
          LET was == source[i]
              is == imported[i]
          IN /\ SameBody(was.type, was.body, is.body)
             /\ is.truncated = was.truncated
             /\ (is.answer = None) <=> (was.answer = None)
             /\ was.answer # None =>
                   /\ SameBody(was.answer.type, was.answer.body, is.answer.body)
                   /\ is.answer.truncated = was.answer.truncated
                   /\ is.answer.streamed = was.answer.streamed
                   /\ is.answer.duration = was.answer.duration
                   /\ was.answer.timings # None =>
                         SameTimings(was.answer.timings, is.answer.timings)
    /\ told # None <=> harImport = "done"
    /\ told # None => told = Length

(* harimport.go:241-243: "Nothing measurable at all is stored as not measured*)
(* rather than as a row of zeros."                                           *)
UnmeasuredStaysUnmeasured ==
    \A i \in 1 .. Len(imported) :
        source[i].answer # None =>
            (source[i].answer.timings = None <=> imported[i].answer.timings = None)
=============================================================================
