--------------------------- MODULE LogStoreProofs ---------------------------
(***************************************************************************)
(* What LogStore guarantees for any number of projects, entries and        *)
(* goroutines.                                                             *)
(***************************************************************************)
EXTENDS LogStore, TLAPS

USE NoneAssumption

\* The files a record names are files.
LEMMA RefsAreFiles ==
    ASSUME NEW r \in Records, NEW x \in Entries
    PROVE  RefsOf(r, x) \subseteq Files
<1> QED
  BY DEF RefsOf, Records, Files

\* Offloading makes a record (offload).
LEMMA OffloadedIsRecord ==
    ASSUME offloads \in BOOLEAN, NEW p \in Projects, NEW sides
    PROVE  Offloaded(p, sides) \in Records
<1> QED
  BY DEF Offloaded, Records, Places

\* What an entry names are files (refsOf).
LEMMA RefsTyped ==
    ASSUME TypeOK, NEW p \in Projects, NEW x \in Entries
    PROVE  Refs(p, x) \subseteq Files
<1> QED
  BY RefsAreFiles DEF Refs, TypeOK

\* What the entries name together are files (SweepBodies).
LEMMA ClaimedTyped ==
    ASSUME TypeOK
    PROVE  Claimed \subseteq Files
<1> QED
  BY RefsTyped DEF Claimed

\* The variables keep their types.
THEOREM TypeCorrect == Spec => []TypeOK
<1>1. Init => TypeOK
  BY DEF Init, TypeOK, Calls
<1>2. TypeOK /\ [Next]_vars => TypeOK'
  <2> SUFFICES ASSUME TypeOK, [Next]_vars PROVE TypeOK'
    OBVIOUS
  <2>1. ASSUME NEW p \in Projects, CreateProject(p) PROVE TypeOK'
    BY <2>1 DEF CreateProject, TypeOK, history
  <2>2. ASSUME NEW c \in Callers, NEW p \in Projects, NEW x \in Entries,
               NEW sides \in {{"request"}, Sides}, PutFiles(c, p, x, sides)
        PROVE  TypeOK'
    <3>1. RefsOf(Offloaded(p, sides), x) \subseteq Files
      BY OffloadedIsRecord, RefsAreFiles DEF TypeOK
    <3> QED
      BY <2>2, <3>1 DEF PutFiles, Goes, TypeOK, Calls
  <2>3. ASSUME NEW c \in Callers, NEW sides \in {{"request"}, Sides}, PutRecord(c, sides)
        PROVE  TypeOK'
    <3>1. call[c].p \in Projects /\ call[c].x \in Entries
      BY <2>3 DEF PutRecord, TypeOK, Calls, Idle
    <3>2. Offloaded(call[c].p, sides) \in Records
      BY <3>1, OffloadedIsRecord DEF TypeOK
    <3> QED
      BY <2>3, <3>1, <3>2 DEF PutRecord, Goes, TypeOK, Calls, history
  <2>4. ASSUME NEW c \in Callers, PutFails(c) PROVE TypeOK'
    BY <2>4 DEF PutFails, Goes, TypeOK, Calls, Idle
  <2>5. ASSUME NEW p \in Projects, NEW x \in Entries, NEW answered \in BOOLEAN,
               Update(p, x, answered) \/ UpdateRollsBack(p, x, answered)
        PROVE  TypeOK'
    <3>1. Rewritten(p, x, answered) \in Records
      BY OffloadedIsRecord DEF Rewritten, TypeOK
    <3>2. RefsOf(Rewritten(p, x, answered), x) \subseteq Files
      BY <3>1, RefsAreFiles
    <3>3. Refs(p, x) \subseteq Files
      BY RefsTyped
    <3> QED
      BY <2>5, <3>1, <3>2, <3>3 DEF Update, UpdateRollsBack, TypeOK
  <2>6. ASSUME NEW p \in Projects, NEW gone \in SUBSET Entries
        PROVE  /\ Without(p, gone) \in [Projects -> [Entries -> Records \cup {None}]]
               /\ UNION {Refs(p, x) : x \in gone} \subseteq Files
    BY RefsTyped DEF Without, TypeOK
  <2>7. ASSUME NEW c \in Callers, NEW p \in Projects, NEW gone \in SUBSET Entries,
               DeleteMany(c, p, gone)
        PROVE  TypeOK'
    BY <2>6, <2>7 DEF DeleteMany, Goes, TypeOK, Calls, history
  <2>8. ASSUME NEW c \in Callers, NEW p \in Projects,
               ClearLog(c, p) \/ DeleteProject(c, p)
        PROVE  TypeOK'
    <3>1. InFlight(p) \subseteq Projects \X Entries
      BY DEF InFlight, TypeOK, Calls, Idle
    <3>2. Clear(c, p) /\ status' \in [Projects -> {"unused", "live", "deleted"}]
      BY <2>8 DEF ClearLog, DeleteProject, TypeOK
    <3>3. records' = Without(p, Entries) /\ Without(p, Entries) \in [Projects -> [Entries -> Records \cup {None}]]
      BY <2>6, <3>2 DEF Clear
    <3>4. forgotten' \subseteq Files
      BY <2>6, <3>2 DEF Clear, TypeOK
    <3>5. call' \in [Callers -> Calls] /\ exposed' \subseteq Projects \X Entries
      BY <3>1, <3>2 DEF Clear, Goes, Calls, TypeOK
    <3>6. UNCHANGED <<offloads, running, used, files, envelope, dropped>>
      BY <3>2 DEF Clear
    <3> QED
      BY <3>2, <3>3, <3>4, <3>5, <3>6 DEF TypeOK
  <2>9. ASSUME NEW p \in Projects, DeleteUnheard(p) PROVE TypeOK'
    BY <2>6, <2>9 DEF DeleteUnheard, TypeOK
  <2>10. ASSUME NEW c \in Callers, NEW f \in Files, RemoveFile(c, f) \/ RemoveFromGroup(c, f)
         PROVE  TypeOK'
    BY <2>10 DEF RemoveFile, RemoveFromGroup, Goes, TypeOK, Calls, Idle, history
  <2>11. ASSUME NEW c \in Callers, Removed(c) \/ ReadWhole(c) \/ ReadFails(c) PROVE TypeOK'
    BY <2>11 DEF Removed, ReadWhole, ReadFails, Goes, TypeOK, Calls, history
  <2>12. ASSUME NEW c \in Callers, NEW p \in Projects, NEW x \in Entries, Read(c, p, x)
         PROVE  TypeOK'
    BY <2>12, RefsTyped DEF Read, Goes, TypeOK, Calls, history
  <2>13. ASSUME NEW p \in Projects, Export(p) \/ Import(p) PROVE TypeOK'
    BY <2>13 DEF Export, Import, TypeOK, history
  <2>14. CASE Crash
    BY <2>14 DEF Crash, TypeOK, Calls
  <2>15. ASSUME NEW on \in BOOLEAN, Boot(on) PROVE TypeOK'
    BY <2>15 DEF Boot, TypeOK
  <2>16. CASE UNCHANGED vars
    BY <2>16 DEF vars, history, TypeOK
  <2> QED
    BY <2>1, <2>2, <2>3, <2>4, <2>5, <2>7, <2>8, <2>9, <2>10, <2>11, <2>12, <2>13, <2>14,
       <2>15, <2>16 DEF Next
<1> QED
  BY <1>1, <1>2, PTL DEF Spec

-----------------------------------------------------------------------------
(***************************************************************************)
(* Entry ids are fresh.  An id that was not given out has left no trace,   *)
(* and one whose entry is still being put has no record anywhere and no    *)
(* other goroutine putting it.  Nothing runs while the process is down,    *)
(* and an unused project is empty.                                         *)
(***************************************************************************)

Numbered ==
    /\ \A p \in Projects, x \in Entries : records[p][x] # None => x \in used
    /\ envelope # None => \A x \in Entries : envelope[x] # None => x \in used
    /\ \A c \in Callers : call[c].at = "removing" => \A f \in call[c].refs : f[2] \in used

Alone(c) ==
    /\ status[call[c].p] # "unused"
    /\ call[c].x \in used
    /\ \A p \in Projects : records[p][call[c].x] = None
    /\ envelope # None => envelope[call[c].x] = None
    /\ \A f \in call[c].refs : f[1] = call[c].p /\ f[2] = call[c].x
    /\ \A d \in Callers : call[d].at = "putting" /\ call[d].x = call[c].x => d = c

Fresh ==
    /\ Numbered
    /\ \A c \in Callers : call[c].at = "putting" => Alone(c)
    /\ ~running => \A c \in Callers : call[c].at = "idle"
    /\ \A p \in Projects : status[p] = "unused" => \A x \in Entries : records[p][x] = None

\* A reference names the entry it is for.
LEMMA RefNames ==
    /\ \A r, x : \A f \in RefsOf(r, x) : f[1] = r.from /\ f[2] = x
    /\ \A p, x : \A f \in Refs(p, x) :
         records[p][x] # None /\ f[1] = records[p][x].from /\ f[2] = x
<1> QED
  BY DEF RefsOf, Refs

\* A removal adds no record.
LEMMA WithoutLess ==
    ASSUME TypeOK, NEW p \in Projects, NEW gone
    PROVE  \A q \in Projects, x \in Entries :
             /\ Without(p, gone)[q][x] = (IF q = p /\ x \in gone THEN None ELSE records[q][x])
<1> QED
  BY DEF Without, TypeOK

\* The ids of a log are used once (ids.New).
LEMMA IdsAreFresh == Spec => []Fresh
<1>1. Init => Fresh
  BY DEF Init, Fresh, Numbered, Idle
<1>2. TypeOK /\ Fresh /\ [Next]_vars => Fresh'
  <2> SUFFICES ASSUME TypeOK, Fresh, [Next]_vars PROVE Fresh'
    OBVIOUS
  <2> USE DEF Fresh, Numbered, Alone, TypeOK, Calls, Idle
  <2>1. ASSUME NEW p \in Projects, CreateProject(p) PROVE Fresh'
    BY <2>1 DEF CreateProject, history
  <2>2. ASSUME NEW c \in Callers, NEW p \in Projects, NEW x \in Entries,
               NEW sides \in {{"request"}, Sides}, PutFiles(c, p, x, sides)
        PROVE  Fresh'
    <3> DEFINE new == RefsOf(Offloaded(p, sides), x)
    <3>1. \A f \in new : f[1] = p /\ f[2] = x
      BY RefNames DEF Offloaded
    <3>2. /\ running /\ x \notin used /\ used' = used \cup {x}
          /\ call' = [call EXCEPT ![c] = [at |-> "putting", p |-> p, x |-> x, refs |-> new]]
          /\ UNCHANGED <<running, status, records, envelope>> /\ status[p] = "live"
      BY <2>2 DEF PutFiles, Begin, Goes
    <3> HIDE DEF new
    <3>3. Numbered'
      BY <3>2
    <3>4. \A d \in Callers : call'[d].at = "putting" => Alone(d)'
      BY <3>1, <3>2
    <3> QED
      BY <3>2, <3>3, <3>4
  <2>3. ASSUME NEW c \in Callers, NEW sides \in {{"request"}, Sides}, PutRecord(c, sides)
        PROVE  Fresh'
    <3> DEFINE r == Offloaded(call[c].p, sides)
    <3>1. /\ call[c].p \in Projects /\ call[c].x \in Entries /\ call[c].at = "putting"
          /\ running /\ Alone(c)
      BY <2>3 DEF PutRecord
    <3>2. \A q \in Projects, y \in Entries :
            records'[q][y] = IF q = call[c].p /\ y = call[c].x THEN r ELSE records[q][y]
      BY <2>3, <3>1 DEF PutRecord
    <3>3. call' = [call EXCEPT ![c] = Idle] /\ UNCHANGED <<running, status, used, envelope>>
      BY <2>3 DEF PutRecord, Goes
    <3> HIDE DEF r
    <3>4. Numbered'
      BY <3>1, <3>2, <3>3
    <3>5. \A d \in Callers : call'[d].at = "putting" => Alone(d)'
      BY <3>1, <3>2, <3>3
    <3> QED
      BY <3>1, <3>2, <3>3, <3>4, <3>5
  <2>4. ASSUME NEW c \in Callers, PutFails(c) PROVE Fresh'
    BY <2>4 DEF PutFails, Goes
  <2>5. ASSUME NEW p \in Projects, NEW x \in Entries, NEW answered \in BOOLEAN,
               Update(p, x, answered)
        PROVE  Fresh'
    BY <2>5 DEF Update
  <2>6. ASSUME NEW p \in Projects, NEW x \in Entries, NEW answered \in BOOLEAN,
               UpdateRollsBack(p, x, answered)
        PROVE  Fresh'
    BY <2>6 DEF UpdateRollsBack
  <2>7. ASSUME NEW c \in Callers, NEW p \in Projects, NEW gone \in SUBSET Entries,
               DeleteMany(c, p, gone)
        PROVE  Fresh'
    <3> DEFINE refs == UNION {Refs(p, x) : x \in gone}
    <3>1. \A q \in Projects, y \in Entries : records'[q][y] # None => records[q][y] # None
      BY <2>7, WithoutLess DEF DeleteMany
    <3>2. /\ running /\ UNCHANGED <<running, used, envelope, status>>
          /\ call' = [call EXCEPT ![c] = [at |-> "removing", p |-> p, x |-> None, refs |-> refs]]
      BY <2>7 DEF DeleteMany, Begin, Goes, history
    <3>3. \A f \in refs : f[2] \in used
      BY RefNames
    <3> HIDE DEF refs
    <3>4. Numbered'
      BY <3>1, <3>2, <3>3
    <3> QED
      BY <3>1, <3>2, <3>4
  <2>8. ASSUME NEW c \in Callers, NEW p \in Projects, ClearLog(c, p) PROVE Fresh'
    <3>1. \A q \in Projects, y \in Entries : records'[q][y] # None => records[q][y] # None
      BY <2>8, WithoutLess DEF ClearLog, Clear
    <3>2. /\ call[c].at = "idle" /\ running /\ UNCHANGED <<running, used, envelope>>
          /\ \A q \in Projects : status'[q] = "unused" => status[q] = "unused"
      BY <2>8 DEF ClearLog, Begin, Clear
    <3>3. \A d \in Callers : call'[d] = call[d] \/ call'[d].at = "clearing"
      BY <2>8 DEF ClearLog, Clear, Goes
    <3>4. Numbered'
      BY <3>1, <3>2, <3>3
    <3>5. \A d \in Callers : call'[d].at = "putting" => Alone(d)'
      <4> SUFFICES ASSUME NEW d \in Callers, call'[d].at = "putting" PROVE Alone(d)'
        OBVIOUS
      <4>1. call'[d] = call[d] /\ Alone(d)
        BY <3>3
      <4> QED
        BY <3>1, <3>2, <3>3, <4>1
    <3> QED
      BY <3>1, <3>2, <3>3, <3>4, <3>5
  <2>9. ASSUME NEW c \in Callers, NEW p \in Projects, DeleteProject(c, p) PROVE Fresh'
    <3>1. \A q \in Projects, y \in Entries : records'[q][y] # None => records[q][y] # None
      BY <2>9, WithoutLess DEF DeleteProject, Clear
    <3>2. /\ call[c].at = "idle" /\ running /\ UNCHANGED <<running, used, envelope>>
          /\ \A q \in Projects : status'[q] = "unused" => status[q] = "unused"
      BY <2>9 DEF DeleteProject, Begin, Clear
    <3>3. \A d \in Callers : call'[d] = call[d] \/ call'[d].at = "clearing"
      BY <2>9 DEF DeleteProject, Clear, Goes
    <3>4. Numbered'
      BY <3>1, <3>2, <3>3
    <3>5. \A d \in Callers : call'[d].at = "putting" => Alone(d)'
      <4> SUFFICES ASSUME NEW d \in Callers, call'[d].at = "putting" PROVE Alone(d)'
        OBVIOUS
      <4>1. call'[d] = call[d] /\ Alone(d)
        BY <3>3
      <4> QED
        BY <3>1, <3>2, <3>3, <4>1
    <3> QED
      BY <3>1, <3>2, <3>3, <3>4, <3>5
  <2>10. ASSUME NEW p \in Projects, DeleteUnheard(p) PROVE Fresh'
    BY <2>10 DEF DeleteUnheard, Without
  <2>11. ASSUME NEW c \in Callers, NEW f \in Files, RemoveFile(c, f) PROVE Fresh'
    BY <2>11 DEF RemoveFile, Goes, history
  <2>12. ASSUME NEW c \in Callers, NEW f \in Files, RemoveFromGroup(c, f) PROVE Fresh'
    BY <2>12 DEF RemoveFromGroup, history
  <2>13. ASSUME NEW c \in Callers, Removed(c) PROVE Fresh'
    BY <2>13 DEF Removed, Goes, history
  <2>14. ASSUME NEW c \in Callers, NEW p \in Projects, NEW x \in Entries, Read(c, p, x)
        PROVE  Fresh'
    BY <2>14 DEF Read, Begin, Goes, history
  <2>15. ASSUME NEW c \in Callers, ReadWhole(c) PROVE Fresh'
    BY <2>15 DEF ReadWhole, Goes, history
  <2>16. ASSUME NEW c \in Callers, ReadFails(c) PROVE Fresh'
    BY <2>16 DEF ReadFails, Goes, history
  <2>17. ASSUME NEW p \in Projects, Export(p) PROVE Fresh'
    BY <2>17 DEF Export, history
  <2>18. ASSUME NEW p \in Projects, Import(p) PROVE Fresh'
    BY <2>18 DEF Import
  <2>19. CASE Crash
    BY <2>19 DEF Crash
  <2>20. ASSUME NEW on \in BOOLEAN, Boot(on) PROVE Fresh'
    BY <2>20 DEF Boot
  <2>21. CASE UNCHANGED vars
    BY <2>21 DEF vars, history
  <2> HIDE DEF Fresh, TypeOK
  <2> QED
    BY <2>1, <2>2, <2>3, <2>4, <2>5, <2>6, <2>7, <2>8, <2>9, <2>10, <2>11, <2>12, <2>13, <2>14, <2>15, <2>16, <2>17, <2>18, <2>19, <2>20, <2>21
    DEF Next
<1> QED
  BY <1>1, <1>2, TypeCorrect, PTL DEF Spec

-----------------------------------------------------------------------------
(***************************************************************************)
(* Whose files are removed.  No goroutine has the files of an entry to     *)
(* remove while the entry has a record, or is being put, unless the entry  *)
(* is exposed.                                                             *)
(***************************************************************************)

Untouched(p, x) ==
    /\ ~Clearing(p)
    /\ \A c \in Callers : call[c].at = "removing" =>
         \A f \in call[c].refs : f[1] # p \/ f[2] # x

\* Files of another project are named only by entries that are exposed.
Home ==
    \A p \in Projects, x \in Entries :
        records[p][x] # None /\ records[p][x].from # p => \A q \in Projects : <<q, x>> \in exposed

GuardedRecords ==
    \A p \in Projects, x \in Entries :
        records[p][x] # None /\ <<p, x>> \notin exposed =>
            Refs(p, x) \subseteq files /\ Untouched(p, x)

GuardedPuts ==
    \A c \in Callers, p \in Projects, x \in Entries :
        call[c].at = "putting" /\ call[c].p = p /\ call[c].x = x /\ <<p, x>> \notin exposed =>
            call[c].refs \subseteq files /\ Untouched(p, x)

Guarded == Home /\ GuardedRecords /\ GuardedPuts

\* An entry that is not exposed names files of its own project.
LEMMA HomeNames ==
    ASSUME Home, NEW p \in Projects, NEW x \in Entries, records[p][x] # None,
           <<p, x>> \notin exposed
    PROVE  \A f \in Refs(p, x) : f[1] = p /\ f[2] = x
<1>1. records[p][x].from = p
  BY DEF Home
<1> QED
  BY <1>1, RefNames

\* A step that removes one file, which nobody untouched has, and starts
\* nothing.
LEMMA GuardLosesFile ==
    ASSUME Fresh, Guarded, NEW f, files' = files \ {f}, UNCHANGED <<records, exposed>>,
           \A q \in Projects, y \in Entries : /\ (Untouched(q, y) => Untouched(q, y)')
                                              /\ (Untouched(q, y) => q # f[1] \/ y # f[2]),
           \A d \in Callers : call'[d].at = "putting" => call'[d] = call[d]
    PROVE  Guarded'
<1>1. Home'
  BY DEF Guarded, Home
<1>2. GuardedRecords'
  <2> SUFFICES ASSUME NEW q \in Projects, NEW y \in Entries, records[q][y] # None,
                      <<q, y>> \notin exposed
               PROVE  Refs(q, y)' \subseteq files' /\ Untouched(q, y)'
    BY DEF GuardedRecords
  <2>1. Refs(q, y) \subseteq files /\ Untouched(q, y)
    BY DEF Guarded, GuardedRecords
  <2>2. f \notin Refs(q, y)
    BY <2>1, HomeNames DEF Guarded
  <2>3. Refs(q, y)' = Refs(q, y)
    BY DEF Refs
  <2> QED
    BY <2>1, <2>2, <2>3
<1>3. GuardedPuts'
  <2> SUFFICES ASSUME NEW d \in Callers, NEW q \in Projects, NEW y \in Entries,
                      call'[d].at = "putting", call'[d].p = q, call'[d].x = y,
                      <<q, y>> \notin exposed'
               PROVE  call'[d].refs \subseteq files' /\ Untouched(q, y)'
    BY DEF GuardedPuts
  <2>1. call'[d] = call[d]
    OBVIOUS
  <2>2. call[d].refs \subseteq files /\ Untouched(q, y)
    BY <2>1 DEF Guarded, GuardedPuts
  <2>3. \A g \in call[d].refs : g[1] = q /\ g[2] = y
    BY <2>1 DEF Fresh, Alone
  <2> QED
    BY <2>1, <2>2, <2>3
<1> QED
  BY <1>1, <1>2, <1>3 DEF Guarded

\* The files of entries that are not exposed are there and nobody is about to
\* remove them (offload, deleteEntry, DeleteGroup).
LEMMA FilesAreGuarded == Spec => []Guarded
<1>1. Init => Guarded
  BY DEF Init, Guarded, Home, GuardedRecords, GuardedPuts, Idle
<1>2. TypeOK /\ Fresh /\ Guarded /\ [Next]_vars => Guarded'
  <2> SUFFICES ASSUME TypeOK, Fresh, Guarded, [Next]_vars PROVE Guarded'
    OBVIOUS
  <2> USE DEF Guarded, Home, GuardedRecords, GuardedPuts, Untouched, Clearing, Refs, RefsOf,
              Fresh, Numbered, Alone, TypeOK, Calls, Idle
  <2>1. ASSUME NEW p \in Projects, CreateProject(p) PROVE Guarded'
    BY <2>1 DEF CreateProject, history
  <2>2. ASSUME NEW c \in Callers, NEW p \in Projects, NEW x \in Entries,
               NEW sides \in {{"request"}, Sides}, PutFiles(c, p, x, sides)
        PROVE  Guarded'
    <3> DEFINE new == RefsOf(Offloaded(p, sides), x)
    <3>1. \A f \in new : f[1] = p /\ f[2] = x
      <4> HIDE DEF RefsOf
      <4> QED
        BY RefNames DEF Offloaded
    <3>2. /\ x \notin used /\ files' = files \cup new /\ UNCHANGED records
          /\ call' = [call EXCEPT ![c] = [at |-> "putting", p |-> p, x |-> x, refs |-> new]]
          /\ exposed \subseteq exposed' /\ (Clearing(p) => <<p, x>> \in exposed')
          /\ call[c].at = "idle"
      BY <2>2 DEF PutFiles, Begin, Goes
    <3> HIDE DEF new
    <3>3. \A q \in Projects, y \in Entries : Untouched(q, y) => Untouched(q, y)'
      BY <3>2
    <3>4. ~Clearing(p) => Untouched(p, x)
      BY <3>2
    <3> HIDE DEF Untouched, Clearing
    <3>5. Home' /\ GuardedRecords'
      BY <3>2, <3>3
    <3>6. GuardedPuts'
      <4> SUFFICES ASSUME NEW d \in Callers, NEW q \in Projects, NEW y \in Entries,
                          call'[d].at = "putting", call'[d].p = q, call'[d].x = y,
                          <<q, y>> \notin exposed'
                   PROVE  call'[d].refs \subseteq files' /\ Untouched(q, y)'
        OBVIOUS
      <4>1. CASE d = c
        <5>1. q = p /\ y = x /\ call'[d].refs = new
          BY <4>1, <3>2
        <5> QED
          BY <5>1, <3>2, <3>3, <3>4
      <4>2. CASE d # c
        <5>1. call'[d] = call[d]
          BY <4>2, <3>2
        <5>2. <<q, y>> \notin exposed
          BY <3>2
        <5>3. call[d].refs \subseteq files /\ Untouched(q, y)
          BY <5>1, <5>2
        <5> QED
          BY <5>1, <5>3, <3>2, <3>3
      <4> QED
        BY <4>1, <4>2
    <3> QED
      BY <3>5, <3>6
  <2>3. ASSUME NEW c \in Callers, NEW sides \in {{"request"}, Sides}, PutRecord(c, sides)
        PROVE  Guarded'
    <3> DEFINE r == Offloaded(call[c].p, sides)
    <3>1. /\ call[c].p \in Projects /\ call[c].x \in Entries /\ call[c].at = "putting"
          /\ RefsOf(r, call[c].x) = call[c].refs /\ r.from = call[c].p
      BY <2>3 DEF PutRecord, Offloaded
    <3>2. \A q \in Projects, y \in Entries :
            records'[q][y] = IF q = call[c].p /\ y = call[c].x THEN r ELSE records[q][y]
      BY <2>3, <3>1 DEF PutRecord
    <3>3. call' = [call EXCEPT ![c] = Idle] /\ UNCHANGED <<files, exposed>>
      BY <2>3 DEF PutRecord, Goes, history
    <3> HIDE DEF r
    <3>4. \A q \in Projects, y \in Entries : Untouched(q, y) => Untouched(q, y)'
      BY <3>3
    <3> HIDE DEF Untouched, Clearing, RefsOf
    <3>5. Home'
      BY <3>1, <3>2, <3>3
    <3>6. GuardedRecords'
      BY <3>1, <3>2, <3>3, <3>4
    <3>7. GuardedPuts'
      BY <3>3, <3>4
    <3> QED
      BY <3>5, <3>6, <3>7
  <2>4. ASSUME NEW c \in Callers, PutFails(c) PROVE Guarded'
    BY <2>4 DEF PutFails, Goes
  <2>5. ASSUME NEW p \in Projects, NEW x \in Entries, NEW answered \in BOOLEAN,
               Update(p, x, answered)
        PROVE  Guarded'
    <3> DEFINE r == Rewritten(p, x, answered)
    <3>1. \A q \in Projects, y \in Entries :
            records'[q][y] = IF q = p /\ y = x THEN r ELSE records[q][y]
      BY <2>5 DEF Update
    <3>2. /\ files' = files \cup RefsOf(r, x) /\ UNCHANGED <<call, exposed>>
          /\ records[p][x] # None /\ r.from = p
      BY <2>5 DEF Update, Rewritten, Offloaded
    <3> HIDE DEF r
    <3>3. \A q \in Projects, y \in Entries : Untouched(q, y) => Untouched(q, y)'
      BY <3>2
    <3> HIDE DEF Untouched, Clearing, RefsOf
    <3>4. Home' /\ GuardedPuts'
      BY <3>1, <3>2, <3>3
    <3>5. GuardedRecords'
      BY <3>1, <3>2, <3>3
    <3> QED
      BY <3>4, <3>5
  <2>6. ASSUME NEW p \in Projects, NEW x \in Entries, NEW answered \in BOOLEAN,
               UpdateRollsBack(p, x, answered)
        PROVE  Guarded'
    BY <2>6 DEF UpdateRollsBack
  <2>7. ASSUME NEW c \in Callers, NEW p \in Projects, NEW gone \in SUBSET Entries,
               DeleteMany(c, p, gone)
        PROVE  Guarded'
    BY <2>7 DEF DeleteMany, Begin, Goes, Without, history
  <2>8. ASSUME NEW c \in Callers, NEW p \in Projects, ClearLog(c, p) PROVE Guarded'
    <3>1. \A q \in Projects, y \in Entries :
            records'[q][y] = IF q = p /\ y \in Entries THEN None ELSE records[q][y]
      BY <2>8, WithoutLess DEF ClearLog, Clear
    <3>2. /\ \A d \in Callers :
               \/ call'[d] = call[d]
               \/ call'[d].at = "clearing" /\ call'[d].p = p
          /\ exposed \subseteq exposed' /\ UNCHANGED files
      BY <2>8 DEF ClearLog, Clear, Goes
    <3>3. \/ UNCHANGED call
          \/ \A d \in Callers : call[d].at = "putting" /\ call[d].p = p
                                 => <<call[d].p, call[d].x>> \in exposed'
      BY <2>8 DEF ClearLog, Clear, InFlight
    <3>4. \A q \in Projects, y \in Entries : q # p /\ Untouched(q, y) => Untouched(q, y)'
      BY <3>2
    <3>5. UNCHANGED call => \A q \in Projects, y \in Entries : Untouched(q, y) => Untouched(q, y)'
      OBVIOUS
    <3> HIDE DEF Untouched, Clearing, RefsOf
    <3>6. Home'
      BY <3>1, <3>2
    <3>7. GuardedRecords'
      BY <3>1, <3>2, <3>4
    <3>8. GuardedPuts'
      <4> SUFFICES ASSUME NEW d \in Callers, NEW q \in Projects, NEW y \in Entries,
                          call'[d].at = "putting", call'[d].p = q, call'[d].x = y,
                          <<q, y>> \notin exposed'
                   PROVE  call'[d].refs \subseteq files' /\ Untouched(q, y)'
        OBVIOUS
      <4>1. call'[d] = call[d]
        BY <3>2
      <4>2. call[d].refs \subseteq files /\ Untouched(q, y)
        BY <3>2, <4>1
      <4> QED
        BY <3>2, <3>3, <3>4, <3>5, <4>1, <4>2
    <3> QED
      BY <3>6, <3>7, <3>8
  <2>9. ASSUME NEW c \in Callers, NEW p \in Projects, DeleteProject(c, p) PROVE Guarded'
    <3>1. \A q \in Projects, y \in Entries :
            records'[q][y] = IF q = p /\ y \in Entries THEN None ELSE records[q][y]
      BY <2>9, WithoutLess DEF DeleteProject, Clear
    <3>2. /\ \A d \in Callers :
               \/ call'[d] = call[d]
               \/ call'[d].at = "clearing" /\ call'[d].p = p
          /\ exposed \subseteq exposed' /\ UNCHANGED files
      BY <2>9 DEF DeleteProject, Clear, Goes
    <3>3. \/ UNCHANGED call
          \/ \A d \in Callers : call[d].at = "putting" /\ call[d].p = p
                                 => <<call[d].p, call[d].x>> \in exposed'
      BY <2>9 DEF DeleteProject, Clear, InFlight
    <3>4. \A q \in Projects, y \in Entries : q # p /\ Untouched(q, y) => Untouched(q, y)'
      BY <3>2
    <3>5. UNCHANGED call => \A q \in Projects, y \in Entries : Untouched(q, y) => Untouched(q, y)'
      OBVIOUS
    <3> HIDE DEF Untouched, Clearing, RefsOf
    <3>6. Home'
      BY <3>1, <3>2
    <3>7. GuardedRecords'
      BY <3>1, <3>2, <3>4
    <3>8. GuardedPuts'
      <4> SUFFICES ASSUME NEW d \in Callers, NEW q \in Projects, NEW y \in Entries,
                          call'[d].at = "putting", call'[d].p = q, call'[d].x = y,
                          <<q, y>> \notin exposed'
                   PROVE  call'[d].refs \subseteq files' /\ Untouched(q, y)'
        OBVIOUS
      <4>1. call'[d] = call[d]
        BY <3>2
      <4>2. call[d].refs \subseteq files /\ Untouched(q, y)
        BY <3>2, <4>1
      <4> QED
        BY <3>2, <3>3, <3>4, <3>5, <4>1, <4>2
    <3> QED
      BY <3>6, <3>7, <3>8
  <2>10. ASSUME NEW p \in Projects, DeleteUnheard(p) PROVE Guarded'
    BY <2>10 DEF DeleteUnheard, Without
  <2>11. ASSUME NEW c \in Callers, NEW f \in Files, RemoveFile(c, f) PROVE Guarded'
    <3>1. /\ call[c].at = "removing" /\ f \in call[c].refs
          /\ files' = files \ {f} /\ UNCHANGED <<records, exposed>>
          /\ call' = [call EXCEPT ![c] = [call[c] EXCEPT !.refs = @ \ {f}]]
      BY <2>11 DEF RemoveFile, Goes, history
    <3>2. \A q \in Projects, y \in Entries : /\ (Untouched(q, y) => Untouched(q, y)')
                                              /\ (Untouched(q, y) => q # f[1] \/ y # f[2])
      BY <3>1
    <3>3. \A d \in Callers : call'[d].at = "putting" => call'[d] = call[d]
      BY <3>1
    <3> QED
      BY <3>1, <3>2, <3>3, GuardLosesFile
  <2>12. ASSUME NEW c \in Callers, NEW f \in Files, RemoveFromGroup(c, f) PROVE Guarded'
    <3>1. /\ call[c].at = "clearing" /\ f \in Files /\ f[1] = call[c].p
          /\ files' = files \ {f} /\ UNCHANGED <<call, records, exposed>>
      BY <2>12 DEF RemoveFromGroup, Group, history
    <3>2. \A q \in Projects, y \in Entries : /\ (Untouched(q, y) => Untouched(q, y)')
                                              /\ (Untouched(q, y) => q # f[1] \/ y # f[2])
      BY <3>1
    <3> QED
      BY <3>1, <3>2, GuardLosesFile
  <2>13. ASSUME NEW c \in Callers, Removed(c) PROVE Guarded'
    BY <2>13 DEF Removed, Goes, history
  <2>14. ASSUME NEW c \in Callers, NEW p \in Projects, NEW x \in Entries, Read(c, p, x)
        PROVE  Guarded'
    BY <2>14 DEF Read, Begin, Goes, history
  <2>15. ASSUME NEW c \in Callers, ReadWhole(c) PROVE Guarded'
    BY <2>15 DEF ReadWhole, Goes, history
  <2>16. ASSUME NEW c \in Callers, ReadFails(c) PROVE Guarded'
    BY <2>16 DEF ReadFails, Goes, history
  <2>17. ASSUME NEW p \in Projects, Export(p) PROVE Guarded'
    BY <2>17 DEF Export, history
  <2>18. ASSUME NEW p \in Projects, Import(p) PROVE Guarded'
    BY <2>18 DEF Import
  <2>19. CASE Crash
    BY <2>19 DEF Crash
  <2>20. ASSUME NEW on \in BOOLEAN, Boot(on) PROVE Guarded'
    <3>1. /\ UNCHANGED <<call, records, exposed>> /\ files \cap Claimed \subseteq files'
          /\ \A d \in Callers : call[d].at = "idle"
      BY <2>20 DEF Boot
    <3>2. \A q \in Projects, y \in Entries : Refs(q, y) \subseteq Claimed
      <4> HIDE DEF Refs
      <4> QED
        BY DEF Claimed
    <3>3. \A q \in Projects, y \in Entries : Untouched(q, y)'
      BY <3>1
    <3> HIDE DEF Untouched, Clearing, RefsOf
    <3>4. GuardedRecords' /\ GuardedPuts' /\ Home'
      BY <3>1, <3>2, <3>3
    <3> QED
      BY <3>4
  <2>21. CASE UNCHANGED vars
    BY <2>21 DEF vars, history
  <2> HIDE DEF Guarded, Fresh, TypeOK
  <2> QED
    BY <2>1, <2>2, <2>3, <2>4, <2>5, <2>6, <2>7, <2>8, <2>9, <2>10, <2>11, <2>12, <2>13, <2>14, <2>15, <2>16, <2>17, <2>18, <2>19, <2>20, <2>21
    DEF Next
<1> QED
  BY <1>1, <1>2, TypeCorrect, IdsAreFresh, PTL DEF Spec

\* Package blobstore: the bodies of an entry are in its record or in files
\* that are there, at every moment and across every crash, for every entry no
\* removal of a whole project and no project file has reached.
THEOREM BodiesAreWhole == Spec => []NothingHalfWay
<1>1. TypeOK /\ Guarded => NothingHalfWay
  BY DEF Guarded, GuardedRecords, NothingHalfWay, Refs
<1> QED
  BY <1>1, TypeCorrect, FilesAreGuarded, PTL
-----------------------------------------------------------------------------
(***************************************************************************)
(* Files nobody names.  NoFileIsMislaid is inductive on top of Fresh: what *)
(* a step takes from one of the sets it mentions it puts into another.     *)
(***************************************************************************)

\* A file some goroutine has still to name or to remove.
Awaited(f) ==
    \/ \E c \in Callers : call[c].at \in {"putting", "removing"} /\ f \in call[c].refs
    \/ \E c \in Callers : call[c].at = "clearing" /\ call[c].p \in Projects /\ f \in Group(call[c].p)

\* A file that may be without a name.
Placed(f) == Awaited(f) \/ f \in dropped \/ f \in forgotten

\* Membership of the sets that a record or a goroutine makes up.
LEMMA WhoseFile ==
    ASSUME NEW f
    PROVE  /\ f \in Due <=> Awaited(f)
           /\ f \in Claimed <=> \E p \in Projects, x \in Entries : f \in Refs(p, x)
<1>1. f \in Claimed <=> \E p \in Projects, x \in Entries : f \in Refs(p, x)
  BY DEF Claimed
<1>2. ASSUME f \in Due PROVE Awaited(f)
  <2>1. CASE \E c \in Callers : call[c].at \in {"putting", "removing"} /\ f \in call[c].refs
    BY <2>1 DEF Awaited
  <2>2. CASE \E p \in Projects : Clearing(p) /\ f \in Group(p)
    BY <2>2 DEF Awaited, Clearing
  <2> QED
    BY <1>2, <2>1, <2>2 DEF Due
<1>3. ASSUME NEW c \in Callers, call[c].at \in {"putting", "removing"}, f \in call[c].refs
      PROVE  f \in Due
  BY <1>3 DEF Due
<1>4. ASSUME NEW c \in Callers, call[c].at = "clearing", call[c].p \in Projects,
             f \in Group(call[c].p)
      PROVE  f \in Due
  <2>1. Clearing(call[c].p)
    BY <1>4 DEF Clearing
  <2> QED
    BY <1>4, <2>1 DEF Due
<1> QED
  BY <1>1, <1>2, <1>3, <1>4 DEF Awaited

\* The same of the state after a step.
LEMMA WhoseFileNext ==
    ASSUME NEW f
    PROVE  f \in Due' <=> Awaited(f)'
<1>1. ASSUME f \in Due' PROVE Awaited(f)'
  <2>1. CASE \E c \in Callers : call'[c].at \in {"putting", "removing"} /\ f \in call'[c].refs
    BY <2>1 DEF Awaited
  <2>2. CASE \E p \in Projects : Clearing(p)' /\ f \in Group(p)
    BY <2>2 DEF Awaited, Clearing
  <2> QED
    BY <1>1, <2>1, <2>2 DEF Due
<1>2. ASSUME NEW c \in Callers, call'[c].at \in {"putting", "removing"}, f \in call'[c].refs
      PROVE  f \in Due'
  BY <1>2 DEF Due
<1>3. ASSUME NEW c \in Callers, call'[c].at = "clearing", call'[c].p \in Projects,
             f \in Group(call'[c].p)
      PROVE  f \in Due'
  <2>1. PICK p \in Projects : p = call'[c].p
    BY <1>3
  <2>2. Clearing(p)'
    BY <1>3, <2>1 DEF Clearing
  <2> QED
    BY <1>3, <2>1, <2>2 DEF Due
<1> QED
  BY <1>1, <1>2, <1>3 DEF Awaited

\* A step that changes no record leaves every file its name.
LEMMA SameClaims ==
    ASSUME UNCHANGED records
    PROVE  Claimed' = Claimed
<1> QED
  BY DEF Claimed, Refs

\* What is named stays named where no record that was there has changed.
LEMMA MoreClaims ==
    ASSUME \A p \in Projects, x \in Entries : records[p][x] # None => records'[p][x] = records[p][x]
    PROVE  Claimed \subseteq Claimed'
<1> SUFFICES ASSUME NEW f \in Claimed PROVE f \in Claimed'
  OBVIOUS
<1>1. PICK p \in Projects, x \in Entries : f \in Refs(p, x)
  BY WhoseFile
<1>2. records[p][x] # None
  BY <1>1 DEF Refs
<1>3. Refs(p, x)' = Refs(p, x)
  BY <1>2 DEF Refs
<1> QED
  BY <1>1, <1>3 DEF Claimed
\* A file that loses its name was named by an entry that went.
LEMMA NamedByGone ==
    ASSUME NEW p \in Projects, NEW gone \in SUBSET Entries,
           \A q \in Projects, y \in Entries :
             records'[q][y] = IF q = p /\ y \in gone THEN None ELSE records[q][y],
           NEW f, f \in Claimed, f \notin Claimed'
    PROVE  f \in UNION {Refs(p, x) : x \in gone}
<1>1. PICK q \in Projects, y \in Entries : f \in Refs(q, y)
  BY WhoseFile
<1>2. Refs(q, y)' \subseteq Claimed'
  BY DEF Claimed
<1>3. q # p \/ y \notin gone => Refs(q, y)' = Refs(q, y)
  BY DEF Refs
<1> QED
  BY <1>1, <1>2, <1>3

\* A file without a name is about to get one, about to be removed, or one of
\* those the store is known to leave: for any number of projects, entries and
\* goroutines, whichever call fails and wherever the process stops (offload,
\* deleteEntry, DeleteGroup, SweepBodies).
THEOREM FilesAreAccounted == Spec => []NoFileIsMislaid
<1>1. Init => NoFileIsMislaid
  BY DEF Init, NoFileIsMislaid
<1>2. TypeOK /\ Fresh /\ NoFileIsMislaid /\ [Next]_vars => NoFileIsMislaid'
  <2> SUFFICES ASSUME TypeOK, Fresh, NoFileIsMislaid, [Next]_vars,
                      NEW f \in files', f \notin Claimed'
               PROVE  Placed(f)'
    BY WhoseFileNext DEF NoFileIsMislaid, Placed
  <2>0. f \in files /\ f \notin Claimed => Placed(f)
    BY WhoseFile DEF NoFileIsMislaid, Placed
  <2> USE DEF Goes
  <2>1. ASSUME NEW p \in Projects, CreateProject(p) PROVE Placed(f)'
    BY <2>0, <2>1, SameClaims DEF CreateProject, history, Awaited, Placed
  <2>2. ASSUME NEW c \in Callers, NEW p \in Projects, NEW x \in Entries,
               NEW sides \in {{"request"}, Sides}, PutFiles(c, p, x, sides)
        PROVE  Placed(f)'
    <3> DEFINE new == RefsOf(Offloaded(p, sides), x)
    <3>1. /\ UNCHANGED <<records, dropped, forgotten>> /\ files' = files \cup new
          /\ call[c].at = "idle" /\ call'[c].at = "putting" /\ call'[c].refs = new
          /\ \A d \in Callers : d # c => call'[d] = call[d]
      BY <2>2 DEF PutFiles, Begin, TypeOK
    <3> HIDE DEF new
    <3>2. Awaited(f) => Awaited(f)'
      BY <3>1 DEF Awaited
    <3>3. f \in new => Awaited(f)'
      BY <3>1 DEF Awaited
    <3> QED
      BY <2>0, <3>1, <3>2, <3>3, SameClaims DEF Placed
  <2>3. ASSUME NEW c \in Callers, NEW sides \in {{"request"}, Sides}, PutRecord(c, sides)
        PROVE  Placed(f)'
    <3> DEFINE r == Offloaded(call[c].p, sides)
    <3>1. /\ call[c].p \in Projects /\ call[c].x \in Entries /\ call[c].at = "putting"
          /\ RefsOf(r, call[c].x) = call[c].refs /\ r \in Records
          /\ \A p \in Projects : records[p][call[c].x] = None
      BY <2>3, OffloadedIsRecord DEF PutRecord, Fresh, Alone, TypeOK, Calls, Idle
    <3>2. \A q \in Projects, y \in Entries :
            records'[q][y] = IF q = call[c].p /\ y = call[c].x THEN r ELSE records[q][y]
      BY <2>3, <3>1 DEF PutRecord, TypeOK
    <3>3. /\ UNCHANGED <<files, dropped, forgotten>>
          /\ \A d \in Callers : d # c => call'[d] = call[d]
      BY <2>3 DEF PutRecord, TypeOK, history
    <3> HIDE DEF r
    <3>4. Claimed \subseteq Claimed'
      BY <3>1, <3>2, MoreClaims
    <3>5. r # None
      BY <3>1
    <3>6. call[c].refs \subseteq Claimed'
      BY <3>1, <3>2, <3>5 DEF Claimed, Refs
    <3>7. Awaited(f) => Awaited(f)'
      BY <3>1, <3>3, <3>6 DEF Awaited
    <3> QED
      BY <2>0, <3>3, <3>4, <3>7 DEF Placed
  <2>4. ASSUME NEW c \in Callers, PutFails(c) PROVE Placed(f)'
    <3>1. /\ UNCHANGED <<records, files, forgotten>> /\ dropped' = dropped \cup call[c].refs
          /\ \A d \in Callers : d # c => call'[d] = call[d]
          /\ call[c].at = "putting"
      BY <2>4 DEF PutFails, TypeOK
    <3> QED
      BY <2>0, <3>1, SameClaims DEF Placed, Awaited
  <2>5. ASSUME NEW p \in Projects, NEW x \in Entries, NEW answered \in BOOLEAN,
               Update(p, x, answered)
        PROVE  Placed(f)'
    <3> DEFINE r == Rewritten(p, x, answered)
    <3>1. \A q \in Projects, y \in Entries :
            records'[q][y] = IF q = p /\ y = x THEN r ELSE records[q][y]
      BY <2>5 DEF Update, TypeOK
    <3>2. /\ files' = files \cup RefsOf(r, x) /\ UNCHANGED <<call, dropped>>
          /\ forgotten' = (forgotten \cup Refs(p, x)) \ Claimed'
      BY <2>5 DEF Update
    <3>3. r # None
      BY OffloadedIsRecord DEF Rewritten, TypeOK
    <3> HIDE DEF r
    <3>4. RefsOf(r, x) \subseteq Claimed'
      BY <3>1, <3>3 DEF Claimed, Refs
    <3>5. f \in Claimed => f \in Refs(p, x)
      <4> SUFFICES ASSUME f \in Claimed PROVE f \in Refs(p, x)
        OBVIOUS
      <4>1. PICK q \in Projects, y \in Entries : f \in Refs(q, y)
        BY WhoseFile
      <4>2. q # p \/ y # x => Refs(q, y)' = Refs(q, y)
        BY <3>1 DEF Refs
      <4>3. Refs(q, y)' \subseteq Claimed'
        BY DEF Claimed
      <4> QED
        BY <4>1, <4>2, <4>3
    <3>6. Awaited(f) => Awaited(f)'
      BY <3>2 DEF Awaited
    <3> QED
      BY <2>0, <3>2, <3>4, <3>5, <3>6 DEF Placed
  <2>6. ASSUME NEW p \in Projects, NEW x \in Entries, NEW answered \in BOOLEAN,
               UpdateRollsBack(p, x, answered)
        PROVE  Placed(f)'
    <3> DEFINE new == RefsOf(Rewritten(p, x, answered), x)
    <3>1. /\ files' = files \cup new /\ dropped' = dropped \cup (new \ Claimed)
          /\ UNCHANGED <<records, call, forgotten>>
      BY <2>6 DEF UpdateRollsBack
    <3> HIDE DEF new
    <3> QED
      BY <2>0, <3>1, SameClaims DEF Placed, Awaited
  <2>7. ASSUME NEW c \in Callers, NEW p \in Projects, NEW gone \in SUBSET Entries,
               DeleteMany(c, p, gone)
        PROVE  Placed(f)'
    <3> DEFINE refs == UNION {Refs(p, x) : x \in gone}
    <3>1. \A q \in Projects, y \in Entries :
            records'[q][y] = IF q = p /\ y \in gone THEN None ELSE records[q][y]
      BY <2>7, WithoutLess DEF DeleteMany
    <3>2. /\ UNCHANGED <<files, dropped, forgotten>>
          /\ call[c].at = "idle" /\ call'[c].at = "removing" /\ call'[c].refs = refs
          /\ \A d \in Callers : d # c => call'[d] = call[d]
      BY <2>7 DEF DeleteMany, Begin, TypeOK, history
    <3>3. f \in Claimed => f \in refs
      BY <3>1, NamedByGone
    <3> HIDE DEF refs
    <3> QED
      BY <2>0, <3>2, <3>3 DEF Placed, Awaited
  <2>8. ASSUME NEW c \in Callers, NEW p \in Projects, Begin(c), Clear(c, p)
        PROVE  Placed(f)'
    <3> DEFINE named == UNION {Refs(p, x) : x \in Entries}
    <3>1. \A q \in Projects, y \in Entries :
            records'[q][y] = IF q = p /\ y \in Entries THEN None ELSE records[q][y]
      BY <2>8, WithoutLess DEF Clear
    <3>2. f \in Claimed => f \in named
      BY <3>1, NamedByGone
    <3>3. UNCHANGED <<files, dropped>> /\ call[c].at = "idle"
      BY <2>8 DEF Clear, Begin
    <3>4. CASE offloads
      <4>1. /\ call'[c].at = "clearing" /\ call'[c].p = p
            /\ \A d \in Callers : d # c => call'[d] = call[d]
            /\ forgotten' = (forgotten \cup {g \in named : g[1] # p}) \ Claimed'
        BY <2>8, <3>4 DEF Clear, TypeOK
      <4>2. f \in Files
        BY <2>8 DEF TypeOK, Clear
      <4> HIDE DEF named
      <4>3. f \in named /\ f[1] = p => Awaited(f)'
        BY <4>1, <4>2 DEF Awaited, Group
      <4>4. Awaited(f) => Awaited(f)'
        BY <3>3, <4>1 DEF Awaited
      <4> QED
        BY <2>0, <3>2, <3>3, <4>1, <4>3, <4>4 DEF Placed
    <3>5. CASE ~offloads
      <4>1. UNCHANGED call /\ forgotten' = (forgotten \cup named) \ Claimed'
        BY <2>8, <3>5 DEF Clear
      <4> HIDE DEF named
      <4> QED
        BY <2>0, <3>2, <3>3, <4>1 DEF Placed, Awaited
    <3> QED
      BY <3>4, <3>5
  <2>9. ASSUME NEW c \in Callers, NEW p \in Projects, ClearLog(c, p) \/ DeleteProject(c, p)
        PROVE  Placed(f)'
    BY <2>8, <2>9 DEF ClearLog, DeleteProject
  <2>10. ASSUME NEW p \in Projects, DeleteUnheard(p) PROVE Placed(f)'
    <3> DEFINE named == UNION {Refs(p, x) : x \in Entries}
    <3>1. \A q \in Projects, y \in Entries :
            records'[q][y] = IF q = p /\ y \in Entries THEN None ELSE records[q][y]
      BY <2>10, WithoutLess DEF DeleteUnheard
    <3>2. f \in Claimed => f \in named
      BY <3>1, NamedByGone
    <3>3. /\ UNCHANGED <<files, call, forgotten>> /\ dropped' = (dropped \cup named) \ Claimed'
      BY <2>10 DEF DeleteUnheard
    <3> HIDE DEF named
    <3> QED
      BY <2>0, <3>2, <3>3 DEF Placed, Awaited
  <2>11. ASSUME NEW c \in Callers, NEW g \in Files, RemoveFile(c, g) PROVE Placed(f)'
    <3>1. /\ UNCHANGED <<records, dropped, forgotten>> /\ files' = files \ {g}
          /\ call[c].at = "removing" /\ call'[c].at = "removing"
          /\ call'[c].refs = call[c].refs \ {g}
          /\ \A d \in Callers : d # c => call'[d] = call[d]
      BY <2>11 DEF RemoveFile, TypeOK, Calls, Idle, history
    <3> QED
      BY <2>0, <3>1, SameClaims DEF Placed, Awaited
  <2>12. ASSUME NEW c \in Callers, NEW g \in Files, RemoveFromGroup(c, g) PROVE Placed(f)'
    BY <2>0, <2>12, SameClaims DEF RemoveFromGroup, history, Placed, Awaited
  <2>13. ASSUME NEW c \in Callers, Removed(c) PROVE Placed(f)'
    <3>1. /\ UNCHANGED <<records, files, dropped, forgotten>>
          /\ \A d \in Callers : d # c => call'[d] = call[d]
          /\ \/ call[c].at = "removing" /\ call[c].refs = {}
             \/ call[c].at = "clearing" /\ files \cap Group(call[c].p) = {}
      BY <2>13 DEF Removed, TypeOK, history
    <3> QED
      BY <2>0, <3>1, SameClaims DEF Placed, Awaited
  <2>14. ASSUME NEW c \in Callers,
                \/ \E p \in Projects, x \in Entries : Read(c, p, x)
                \/ ReadWhole(c) \/ ReadFails(c)
         PROVE  Placed(f)'
    <3>1. /\ UNCHANGED <<records, files, dropped, forgotten>>
          /\ \A d \in Callers : d # c => call'[d] = call[d]
          /\ call[c].at \in {"idle", "reading"}
      BY <2>14 DEF Read, Begin, ReadWhole, ReadFails, TypeOK, history
    <3> QED
      BY <2>0, <3>1, SameClaims DEF Placed, Awaited
  <2>15. ASSUME NEW p \in Projects, Export(p) PROVE Placed(f)'
    BY <2>0, <2>15, SameClaims DEF Export, history, Placed, Awaited
  <2>16. ASSUME NEW p \in Projects, Import(p) PROVE Placed(f)'
    <3>1. Claimed \subseteq Claimed'
      BY <2>16, MoreClaims DEF Import, Fresh, TypeOK
    <3> QED
      BY <2>0, <2>16, <3>1 DEF Import, Placed, Awaited
  <2>17. CASE Crash
    BY <2>17, SameClaims DEF Crash, Placed
  <2>18. ASSUME NEW on \in BOOLEAN, Boot(on) PROVE Placed(f)'
    <3>1. ~Awaited(f)
      BY <2>18 DEF Boot, Fresh, Awaited
    <3> QED
      BY <2>0, <2>18, <3>1, SameClaims DEF Boot, Placed
  <2>19. CASE UNCHANGED vars
    BY <2>0, <2>19, SameClaims DEF vars, history, Placed, Awaited
  <2> HIDE DEF Goes
  <2> QED
    BY <2>1, <2>2, <2>3, <2>4, <2>5, <2>6, <2>7, <2>9, <2>10, <2>11, <2>12, <2>13, <2>14,
       <2>15, <2>16, <2>17, <2>18, <2>19 DEF Next
<1> QED
  BY <1>1, <1>2, TypeCorrect, IdsAreFresh, PTL DEF Spec
-----------------------------------------------------------------------------
(***************************************************************************)
(* Readers.  While the entry of a reader has a record and is not exposed,  *)
(* the files the reader goes for are there, though a rewrite may have      *)
(* stopped naming them: they are the entry's own, and nobody has them to   *)
(* remove.                                                                 *)
(***************************************************************************)

Provided(c) ==
    LET p == call[c].p
        x == call[c].x
    IN  /\ x \in used
        /\ \A d \in Callers : call[d].at = "putting" => call[d].x # x
        /\ records[p][x] # None /\ <<p, x>> \notin exposed =>
              /\ call[c].refs \subseteq files
              /\ \A f \in call[c].refs : f[1] = p /\ f[2] = x

Readable == \A c \in Callers : call[c].at = "reading" => Provided(c)

\* A reader stays provided where its files, its entry and the others stay.
LEMMA StaysProvided ==
    ASSUME Readable, used \subseteq used', exposed \subseteq exposed',
           NEW c \in Callers, call'[c] = call[c], call[c].at = "reading",
           \A d \in Callers : call'[d].at = "putting" => call'[d] = call[d] \/ call'[d].x \notin used,
           records'[call[c].p][call[c].x] # None /\ <<call[c].p, call[c].x>> \notin exposed'
             => /\ records[call[c].p][call[c].x] # None
                /\ \A f \in call[c].refs :
                     f \in files /\ f[1] = call[c].p /\ f[2] = call[c].x => f \in files'
    PROVE  Provided(c)'
<1>1. Provided(c)
  BY DEF Readable
<1> QED
  BY <1>1 DEF Provided

\* A living entry that is not exposed keeps its files, read or not (Get).
LEMMA ReadersAreProvided == Spec => []Readable
<1>1. Init => Readable
  BY DEF Init, Readable, Idle
<1>2. TypeOK /\ Fresh /\ Guarded /\ Readable /\ [Next]_vars => Readable'
  <2> SUFFICES ASSUME TypeOK, Fresh, Guarded, Readable, [Next]_vars,
                      NEW b \in Callers, call'[b].at = "reading"
               PROVE  Provided(b)'
    BY DEF Readable
  <2> USE DEF Goes
  <2>1. ASSUME NEW p \in Projects, CreateProject(p) PROVE Provided(b)'
    BY <2>1, StaysProvided DEF CreateProject, history
  <2>2. ASSUME NEW c \in Callers, NEW p \in Projects, NEW x \in Entries,
               NEW sides \in {{"request"}, Sides}, PutFiles(c, p, x, sides)
        PROVE  Provided(b)'
    <3>1. /\ UNCHANGED records /\ files \subseteq files' /\ exposed \subseteq exposed'
          /\ used' = used \cup {x} /\ x \notin used
          /\ call'[c].at = "putting" /\ call'[c].x = x
          /\ \A d \in Callers : d # c => call'[d] = call[d]
      BY <2>2 DEF PutFiles, TypeOK
    <3> QED
      BY <3>1, StaysProvided
  <2>3. ASSUME NEW c \in Callers, NEW sides \in {{"request"}, Sides}, PutRecord(c, sides)
        PROVE  Provided(b)'
    <3>1. /\ UNCHANGED <<files, exposed, used>> /\ call[c].at = "putting"
          /\ call'[c].at = "idle" /\ \A d \in Callers : d # c => call'[d] = call[d]
      BY <2>3 DEF PutRecord, TypeOK, history, Idle
    <3>2. call'[b] = call[b] /\ call[b].p \in Projects /\ call[b].x \in Entries
      BY <3>1 DEF TypeOK, Calls, Idle
    <3>3. call[b].x # call[c].x
      BY <3>1, <3>2 DEF Readable, Provided
    <3>4. records'[call[b].p][call[b].x] = records[call[b].p][call[b].x]
      BY <2>3, <3>2, <3>3 DEF PutRecord, TypeOK
    <3> QED
      BY <3>1, <3>2, <3>4, StaysProvided
  <2>4. ASSUME NEW c \in Callers, PutFails(c) PROVE Provided(b)'
    <3>1. /\ UNCHANGED <<records, files, exposed, used>> /\ call'[c].at = "idle"
          /\ \A d \in Callers : d # c => call'[d] = call[d]
      BY <2>4 DEF PutFails, TypeOK, Idle
    <3> QED
      BY <3>1, StaysProvided
  <2>5. ASSUME NEW p \in Projects, NEW x \in Entries, NEW answered \in BOOLEAN,
               Update(p, x, answered) \/ UpdateRollsBack(p, x, answered)
        PROVE  Provided(b)'
    <3>1. /\ \A q \in Projects, y \in Entries :
                records'[q][y] # None => records[q][y] # None
          /\ files \subseteq files' /\ UNCHANGED <<call, exposed, used>>
      BY <2>5 DEF Update, UpdateRollsBack, TypeOK
    <3>2. call[b].p \in Projects /\ call[b].x \in Entries
      BY <3>1 DEF TypeOK, Calls, Idle
    <3> QED
      BY <3>1, <3>2, StaysProvided
  <2>6. ASSUME NEW c \in Callers, NEW p \in Projects,
               \/ \E gone \in SUBSET Entries : DeleteMany(c, p, gone)
               \/ ClearLog(c, p) \/ DeleteProject(c, p) \/ DeleteUnheard(p)
        PROVE  Provided(b)'
    <3>1. \E gone : records' = Without(p, gone)
      BY <2>6 DEF DeleteMany, ClearLog, DeleteProject, Clear, DeleteUnheard
    <3>2. \A q \in Projects, y \in Entries : records'[q][y] # None => records[q][y] # None
      BY <3>1, WithoutLess
    <3>3. /\ \A d \in Callers : call'[d] = call[d] \/ call'[d].at \in {"removing", "clearing"}
          /\ UNCHANGED <<files, used>> /\ exposed \subseteq exposed'
      BY <2>6 DEF DeleteMany, ClearLog, DeleteProject, Clear, DeleteUnheard, TypeOK, history
    <3>4. call[b].p \in Projects /\ call[b].x \in Entries /\ call'[b] = call[b]
      BY <3>3 DEF TypeOK, Calls, Idle
    <3> QED
      BY <3>2, <3>3, <3>4, StaysProvided
  <2>7. ASSUME NEW c \in Callers, NEW f \in Files, RemoveFile(c, f) \/ RemoveFromGroup(c, f)
        PROVE  Provided(b)'
    <3>1. /\ UNCHANGED <<records, exposed, used>> /\ files' = files \ {f}
          /\ \A d \in Callers : call'[d] = call[d] \/ call'[d].at = "removing"
      BY <2>7 DEF RemoveFile, RemoveFromGroup, TypeOK, Calls, Idle, history
    <3>2. call[b].p \in Projects /\ call[b].x \in Entries /\ call'[b] = call[b]
      BY <3>1 DEF TypeOK, Calls, Idle
    <3>3. ~Untouched(f[1], f[2])
      BY <2>7 DEF RemoveFile, RemoveFromGroup, Group, Untouched, Clearing
    <3>4. records[call[b].p][call[b].x] # None /\ <<call[b].p, call[b].x>> \notin exposed
            => Untouched(call[b].p, call[b].x)
      BY <3>2 DEF Guarded, GuardedRecords
    <3> QED
      BY <3>1, <3>2, <3>3, <3>4, StaysProvided
  <2>8. ASSUME NEW c \in Callers, Removed(c) \/ ReadWhole(c) \/ ReadFails(c) PROVE Provided(b)'
    <3>1. /\ UNCHANGED <<records, files, exposed, used>> /\ call'[c].at = "idle"
          /\ \A d \in Callers : d # c => call'[d] = call[d]
      BY <2>8 DEF Removed, ReadWhole, ReadFails, TypeOK, Idle, history
    <3> QED
      BY <3>1, StaysProvided
  <2>9. ASSUME NEW c \in Callers, NEW p \in Projects, NEW x \in Entries, Read(c, p, x)
        PROVE  Provided(b)'
    <3>1. /\ UNCHANGED <<records, files, exposed, used>>
          /\ \A d \in Callers : d # c => call'[d] = call[d]
          /\ call'[c] = [at |-> "reading", p |-> p, x |-> x, refs |-> Refs(p, x)]
          /\ records[p][x] # None
      BY <2>9 DEF Read, TypeOK, history
    <3>2. CASE b # c
      <4>1. \A d \in Callers : call'[d].at = "putting" => call'[d] = call[d]
        BY <3>1
      <4>2. call'[b] = call[b]
        BY <3>1, <3>2
      <4>3. UNCHANGED <<records, files, exposed, used>>
        BY <3>1
      <4> HIDE DEF Provided
      <4> QED
        BY <4>1, <4>2, <4>3, StaysProvided
    <3>3. CASE b = c
      <4>1. x \in used /\ \A d \in Callers : call[d].at = "putting" => call[d].x # x
        BY <3>1 DEF Fresh, Numbered, Alone
      <4>2. <<p, x>> \notin exposed => Refs(p, x) \subseteq files
        BY <3>1 DEF Guarded, GuardedRecords
      <4>3. <<p, x>> \notin exposed => \A f \in Refs(p, x) : f[1] = p /\ f[2] = x
        BY <3>1, HomeNames DEF Guarded
      <4>4. \A d \in Callers : call'[d].at = "putting" => call[d].at = "putting" /\ call'[d].x = call[d].x
        BY <3>1
      <4>5. /\ call'[b].p = p /\ call'[b].x = x /\ call'[b].refs = Refs(p, x)
            /\ UNCHANGED <<files, exposed, used>>
        BY <3>1, <3>3
      <4>6. \A d \in Callers : call'[d].at = "putting" => call'[d].x # x
        BY <4>1, <4>4
      <4> QED
        BY <4>1, <4>2, <4>3, <4>5, <4>6 DEF Provided
    <3> QED
      BY <3>2, <3>3
  <2>10. ASSUME NEW p \in Projects, Export(p) PROVE Provided(b)'
    BY <2>10, StaysProvided DEF Export, history
  <2>11. ASSUME NEW p \in Projects, Import(p) PROVE Provided(b)'
    <3>1. /\ UNCHANGED <<files, call, used>> /\ exposed \subseteq exposed'
          /\ \A q \in Projects, y \in Entries :
                records'[q][y] # None /\ <<q, y>> \notin exposed' => records'[q][y] = records[q][y]
      BY <2>11 DEF Import, TypeOK
    <3>2. call[b].p \in Projects /\ call[b].x \in Entries
      BY <3>1 DEF TypeOK, Calls, Idle
    <3> QED
      BY <3>1, <3>2, StaysProvided
  <2>12. CASE Crash
    BY <2>12 DEF Crash, Idle
  <2>13. ASSUME NEW on \in BOOLEAN, Boot(on) PROVE Provided(b)'
    BY <2>13 DEF Boot, Fresh
  <2>14. CASE UNCHANGED vars
    BY <2>14, StaysProvided DEF vars, history
  <2> HIDE DEF Goes
  <2> QED
    BY <2>1, <2>2, <2>3, <2>4, <2>5, <2>6, <2>7, <2>8, <2>9, <2>10, <2>11, <2>12, <2>13,
       <2>14 DEF Next
<1> QED
  BY <1>1, <1>2, TypeCorrect, IdsAreFresh, FilesAreGuarded, PTL DEF Spec

\* A reader is refused an entry only when it is gone by then or exposed, however
\* it is rewritten, and whatever is removed, between the record and the files.
THEOREM ReadersAreServed == Spec => ReadersSeeWhole
<1>1. Readable =>
        \A c \in Callers : ReadFails(c) => \/ records[call[c].p][call[c].x] = None
                                           \/ <<call[c].p, call[c].x>> \in exposed
  BY DEF Readable, Provided, ReadFails
<1> QED
  BY <1>1, ReadersAreProvided, PTL DEF ReadersSeeWhole, Spec
=============================================================================
