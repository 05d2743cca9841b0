------------------------------ MODULE LogReads ------------------------------
(*****************************************************************************)
(* How the request log is read: the pages of the console's list, the walks   *)
(* over the whole log that a ranking, a count, an export and a delete by     *)
(* search make, and the pages of a connection's messages.  Every page is a   *)
(* transaction of its own, so the log changes between two of them: entries   *)
(* are recorded, imported with ids of long ago, moved to the saved view and  *)
(* deleted, the entry a page ended on among them.                            *)
(*                                                                           *)
(* The matcher is abstracted to `hit`, what it says of an entry; an entry    *)
(* that is saved, marked or answered may be judged differently after.        *)
(*****************************************************************************)
EXTENDS Integers, FiniteSets, Sequences, SequencesExt, FiniteSetsExt, Functions

CONSTANTS
    LastId,      \* ids are 1..LastId, in the order of their time
    LastKey,     \* keys of the message index are 1..LastKey
    Limit,     \* rows of a page, and of a ranking
    ScanBatch, \* entries a search reads before it answers with what it has
    EachPage,  \* entries of a walk's transaction
    Chunk,     \* entries a delete by search removes in a transaction
    MaxScore,  \* durations are 0..MaxScore, -1 without a response
    None,      \* no entry of that id yet, no operation
    Gone       \* the entry was deleted; its id does not come back

ReadsAssumption ==
    /\ {LastId, LastKey, Limit, ScanBatch, EachPage, Chunk, MaxScore} \subseteq Nat
    /\ 0 \notin {Limit, ScanBatch, EachPage, Chunk}
    /\ None # Gone /\ {None, Gone} \cap [hit : BOOLEAN, score : -1 .. MaxScore] = {}

VARIABLES
    log,       \* the bucket: id -> what the matcher and the ranking see of it
    messages,  \* keys of the message index
    reader,    \* the operation that reads, or None
    constant   \* what it has to reach: there since it began, and a hit since

readsVars == <<log, messages, reader, constant>>

Keys == 1..LastId
Rows == [hit: BOOLEAN, score: -1..MaxScore]
Here(l) == {k \in Keys : l[k] \notin {None, Gone}}
Hits(l) == {k \in Here(l) : l[k].hit}

(* The messages of the connection that is read; the other keys of the index  *)
(* belong to the connections before and after it.                            *)
Own == 2 .. LastKey - 1

ListOps == {"list", "messagesAfter", "messagesBefore"}
WalkOps == {"export", "rank", "delete"}

ReadsInit ==
    /\ log = [k \in Keys |-> None]
    /\ messages = {}
    /\ reader = None
    /\ constant = {}

-----------------------------------------------------------------------------
(* A cursor over the keys S; 0 and Beyond stand for nil.                     *)
Beyond == LastId + LastKey + 1
Seek(S, k) == Min({x \in S : x >= k} \cup {Beyond})
Prev(S, k) == Max({x \in S : x < k} \cup {0})

InOrder(S) ==
    CHOOSE s \in [1 .. Cardinality(S) -> S] :
        \A i, j \in 1 .. Cardinality(S) : i < j => s[i] < s[j]

DownFrom(S, k) == Reverse(InOrder({x \in S : x <= k}))
UpFrom(S, k) == InOrder({x \in S : x >= k})

(* What List takes of the entries it visited, and when it ends a page short: *)
(* it has read a batch, and the entry it is at does not match.               *)
Taking(l, visited) == Reverse(InOrder({k \in Range(visited) : l[k].hit}))
Weary(l, visited) ==
    /\ Len(visited) >= ScanBatch
    /\ ~l[visited[Len(visited)]].hit

(* Broken: an entry that is gone is taken for the end of the log.            *)
WalkStartThere(S, before) ==
    IF before = 0 \/ before \notin S THEN Prev(S, Beyond) ELSE Prev(S, before)

(* Where a walk starts: below the entry the last page ended on, which may be *)
(* gone by now.                                                              *)
WalkStart(S, before) ==
    IF before = 0 THEN Prev(S, Beyond) ELSE Prev(S, Seek(S, before))

WalkPage(l, before) ==
    LET keys == DownFrom(Here(l), WalkStart(Here(l), before))
        Part(n) == SubSeq(keys, 1, n)
        visits == Min({n \in 0 .. Len(keys) :
                         \/ n = Len(keys)
                         \/ Len(Taking(l, Part(n))) = Limit
                         \/ n > 0 /\ Weary(l, Part(n))})
    IN [rows |-> Taking(l, Part(visits)),
        more |-> visits < Len(keys) \/ (visits > 0 /\ Weary(l, Part(visits)))]

(* Messages of the connection behind a number, and the newest ones below it; *)
(* 0 is the start of either.  Key k holds message k - 1 of the connection.   *)
MessagesAfter(m, after) ==
    LET keys == UpFrom(m \cap Own, Seek(m, IF after = 0 THEN Min(Own) ELSE after + 1))
    IN [rows |-> SubSeq(keys, 1, Min({Limit, Len(keys)})), more |-> Len(keys) > Limit]

(* Broken: Seek is left on the first key behind the wanted ones.             *)
MessagesBeforeOn(m, before) ==
    LET start == IF before = 0 THEN Seek(m, LastKey) ELSE Prev(m, Seek(m, before))
        keys == IF start \in Own THEN DownFrom(m \cap Own, start) ELSE <<>>
    IN [rows |-> SubSeq(keys, 1, Min({Limit, Len(keys)})), more |-> Len(keys) > Limit]

MessagesBefore(m, before) ==
    LET start == IF before = 0 THEN Prev(m, Seek(m, LastKey)) ELSE Prev(m, Seek(m, before))
        keys == IF start \in Own THEN DownFrom(m \cap Own, start) ELSE <<>>
    IN [rows |-> SubSeq(keys, 1, Min({Limit, Len(keys)})), more |-> Len(keys) > Limit]

(* Broken: the first key that is found was read before.                      *)
EachFromNext(l, after) ==
    LET at == IF after = 0 THEN Seek(Here(l), 1) ELSE Seek(Here(l), after)
        keys == UpFrom(Here(l), IF after = 0 THEN at ELSE at + 1)
    IN SubSeq(keys, 1, Min({EachPage, Len(keys)}))

(* A transaction of Each: the entries behind the last one read.                *)
EachFrom(l, after) ==
    LET at == IF after = 0 THEN Seek(Here(l), 1) ELSE Seek(Here(l), after)
        keys == UpFrom(Here(l), IF at = after THEN after + 1 ELSE at)
    IN SubSeq(keys, 1, Min({EachPage, Len(keys)}))

(* Broken: a full ranking takes no more.                                     *)
RankedFirst(best, k, score) ==
    LET at == Min({i \in 1 .. Len(best) : score >= best[i].score} \cup {Len(best) + 1})
    IN IF score < 0 \/ Len(best) = Limit THEN best
       ELSE InsertAt(best, at, [id |-> k, score |-> score])

(* Top puts an entry before the first score it beats or equals.              *)
Ranked(best, k, score) ==
    LET at == Min({i \in 1 .. Len(best) : score >= best[i].score} \cup {Len(best) + 1})
        all == InsertAt(best, at, [id |-> k, score |-> score])
    IN IF score < 0 THEN best ELSE SubSeq(all, 1, Min({Limit, Len(all)}))

Ranking(l, best, hits) ==
    LET after[n \in 0 .. Len(hits)] ==
            IF n = 0 THEN best ELSE Ranked(after[n - 1], hits[n], l[hits[n]].score)
    IN after[Len(hits)]

-----------------------------------------------------------------------------
(* What keeps what the operation under way has to reach.                     *)
Keeps(l, m) ==
    IF reader = None THEN {}
    ELSE IF reader.op \in {"messagesAfter", "messagesBefore"} THEN constant \cap m
    ELSE {k \in constant \cap Hits(l) :
            reader.op = "rank" => l[k].score = log[k].score}

(* A request is recorded, which its id dates a moment back, or an entry of an*)
(* imported file, at the time it happened.                                   *)
Put(k, row) ==
    /\ log[k] = None
    /\ log' = [log EXCEPT ![k] = row]
    /\ constant' = Keeps(log', messages)
    /\ UNCHANGED <<messages, reader>>

(* SetMarks, SetSaved, or the response, which comes once.                    *)
Update(k, row) ==
    /\ k \in Here(log)
    /\ row.score = log[k].score \/ log[k].score = -1
    /\ log' = [log EXCEPT ![k] = row]
    /\ constant' = Keeps(log', messages)
    /\ UNCHANGED <<messages, reader>>

Delete(k) ==
    /\ k \in Here(log)
    /\ log' = [log EXCEPT ![k] = Gone]
    /\ constant' = Keeps(log', messages)
    /\ UNCHANGED <<messages, reader>>

(* A batch of messages is stored, or a connection's are deleted with it.     *)
PutMessages(k) ==
    /\ k > Max((messages \cap Own) \cup {0}) \/ k \notin Own
    /\ messages' = messages \cup {k}
    /\ constant' = Keeps(log, messages')
    /\ UNCHANGED <<log, reader>>

DeleteMessages ==
    /\ messages' = messages \ Own
    /\ constant' = Keeps(log, messages')
    /\ UNCHANGED <<log, reader>>

-----------------------------------------------------------------------------
Reads(op) == reader # None /\ reader.op = op /\ reader.todo = "read"

Begin(op, reach) ==
    /\ reader = None
    /\ reader' = [op |-> op, todo |-> "read", at |-> 0, asked |-> FALSE,
                page |-> <<>>, out |-> <<>>, best |-> <<>>]
    /\ constant' = reach
    /\ UNCHANGED <<log, messages>>

BeginList == Begin("list", Hits(log))
BeginMessages ==
    \E op \in {"messagesAfter", "messagesBefore"} : Begin(op, messages \cap Own)

(* Top, ExportHAR, and Clear with a search.  Hosts and Tags walk the same way*)
(* and count what they visit.                                                *)
BeginWalk == \E op \in WalkOps : Begin(op, Hits(log))

(* A page, and the console, which asks for older rows behind the last one it *)
(* shows for as long as the answer says there are more.                      *)
Answer(a) ==
    LET out == reader.out \o a.rows IN
    /\ reader' = [reader EXCEPT !.asked = TRUE,
                              !.page = a.rows,
                              !.out = out,
                              !.at = IF out = <<>> THEN 0 ELSE out[Len(out)],
                              !.todo = IF a.more THEN "read" ELSE "done"]
    /\ UNCHANGED <<log, messages, constant>>

ListPage ==
    /\ Reads("list")
    /\ Answer(WalkPage(log, reader.at))

MessagesPage ==
    \/ Reads("messagesAfter") /\ Answer(MessagesAfter(messages, reader.at))
    \/ Reads("messagesBefore") /\ Answer(MessagesBefore(messages, reader.at))

(* A transaction of Each, and what the operation makes of its entries.       *)
EachStep ==
    /\ \E op \in WalkOps : Reads(op)
    /\ LET page == EachFrom(log, reader.at)
           hits == InOrder({k \in Range(page) : log[k].hit})
       IN reader' = [reader EXCEPT
                     !.at = IF page = <<>> THEN @ ELSE page[Len(page)],
                     !.out = @ \o hits,
                     !.best = Ranking(log, @, hits),
                     !.todo = IF Len(page) = EachPage THEN "read"
                              ELSE IF reader.op = "delete" THEN "delete" ELSE "done",
                     !.page = IF reader.op = "delete" THEN @ \o hits ELSE @]
    /\ UNCHANGED <<log, messages, constant>>

(* DeleteMany of the next ids found; what is gone already is passed over.    *)
DeleteChunk ==
    /\ reader # None /\ reader.todo = "delete"
    /\ LET n == Min({Chunk, Len(reader.page)})
           chunk == Range(SubSeq(reader.page, 1, n))
       IN /\ log' = [k \in Keys |-> IF k \in chunk /\ k \in Here(log) THEN Gone ELSE log[k]]
          /\ reader' = [reader EXCEPT !.page = SubSeq(@, n + 1, Len(@)),
                                    !.todo = IF n = Len(reader.page) THEN "done" ELSE @]
    /\ UNCHANGED <<messages, constant>>

End ==
    /\ reader # None /\ reader.todo = "done"
    /\ reader' = None
    /\ constant' = {}
    /\ UNCHANGED <<log, messages>>

ReadLog ==
    \/ \E k \in Keys, row \in Rows : Put(k, row) \/ Update(k, row)
    \/ \E k \in Keys : Delete(k)
    \/ BeginList
    \/ BeginWalk
    \/ ListPage
    \/ EachStep
    \/ DeleteChunk
    \/ End

ReadMessages ==
    \/ \E k \in 1 .. LastKey : PutMessages(k)
    \/ DeleteMessages
    \/ BeginMessages
    \/ MessagesPage
    \/ End

ReadsNext == ReadLog \/ ReadMessages

ReadsSpec == ReadsInit /\ [][ReadsNext]_readsVars

-----------------------------------------------------------------------------
Finished(op) == reader # None /\ reader.op = op /\ reader.todo = "done"

(* Pages that are read one behind the other hold every entry that was there  *)
(* and matched the whole time, each once and in order, whatever came and     *)
(* went meanwhile, the entry a page was to start from included; and the same *)
(* is so of the messages of a connection, in either direction.               *)
PagesReachAll ==
    \A op \in ListOps : Finished(op) =>
        /\ constant \subseteq Range(reader.out)
        /\ \A i, j \in 1 .. Len(reader.out) : i < j =>
              IF op = "messagesAfter" THEN reader.out[i] < reader.out[j]
                                      ELSE reader.out[i] > reader.out[j]

(* A walk over the whole log visits every such entry once, oldest first; the *)
(* ranking made of it holds the highest, and a delete by search leaves none  *)
(* of what it found.                                                         *)
WalksReachAll ==
    /\ \A op \in WalkOps : Finished(op) =>
          /\ constant \subseteq Range(reader.out)
          /\ \A i, j \in 1 .. Len(reader.out) : i < j => reader.out[i] < reader.out[j]
    /\ Finished("rank") =>
          /\ \A i, j \in 1 .. Len(reader.best) :
                i < j => reader.best[i].score >= reader.best[j].score
          /\ \A k \in constant : log[k].score >= 0 =>
                \/ \E i \in 1 .. Len(reader.best) : reader.best[i].id = k
                \/ /\ Len(reader.best) = Limit
                   /\ reader.best[Limit].score >= log[k].score
    /\ Finished("delete") => Range(reader.out) \cap Here(log) = {}

(* Who reads the log gets all of it: pages and walks that are transactions of*)
(* their own miss nothing that was there throughout and show nothing twice   *)
(* (reqlog/service.go, store.go).                                            *)
LogIsReadWhole == PagesReachAll /\ WalksReachAll

(* service.go:87-89, of List: "A search that walks scanBatch entries without *)
(* filling the page stops there and reports more, so the console can ask     *)
(* again from the last id it saw."  A page that reports more shows an id.    *)
SearchGoesOn ==
    Reads("list") /\ reader.asked => reader.page # <<>>
=============================================================================
