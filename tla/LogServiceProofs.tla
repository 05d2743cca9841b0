-------------------------- MODULE LogServiceProofs --------------------------
(***************************************************************************)
(* What LogService guarantees for any number of projects, exchanges and    *)
(* calls, and for any cap, page and trim interval.                         *)
(***************************************************************************)
EXTENDS LogService, FiniteSetTheorems, WellFoundedInduction, TLAPS

-----------------------------------------------------------------------------
(* What the variables satisfy besides their types.                         *)

\* A deleted project is not open, and a hook that read it before it went is a
\* straggler.
Stragglers ==
    /\ active \notin deleted
    /\ OnlyStragglersReturn
    /\ \A i \in Ids : exchange[i].at = "reading" /\ exchange[i].project \in deleted
                        => i \in stragglers

\* An exchange that has not been put is in no log.
NotYetLogged ==
    \A i \in Ids, p \in Projects :
       exchange[i].at \in {"new", "reading"} => i \notin Logged(p)

\* A removal knows what it must spare: those entries are saved, it has not
\* collected them, and it has met one of them when there is one behind it.
Spares(c) ==
    /\ \A i \in call[c].safe :
          i \in Logged(call[c].project) /\ log[call[c].project][i].saved
    /\ call[c].op \in {"clear", "log"} => call[c].ids \cap call[c].safe = {}
    /\ call[c].op = "clear" /\ call[c].at = "collect" =>
          \A i \in call[c].safe : i <= call[c].after => call[c].keep
    /\ call[c].op = "clear" /\ call[c].at = "remove" =>
          \A i \in call[c].safe : call[c].keep

Sparing == \A c \in Callers : call[c].at # "idle" => Spares(c)

\* Entries of p that were put and not counted yet.
Pending(p) == {i \in Ids : exchange[i].at = "put" /\ exchange[i].project = p}

\* The trim that counts is of a project that was counted.
TrimIsCounted == trim.at = "read" /\ ~spilt => trim.project \in counted

\* A count that is used up is due.
CountIsDue == writes < Every \/ \E i \in Ids : exchange[i].at = "due"

\* While only p is counted, its log is over its cap, or over what its last
\* trim left, by what was written since, or a trim is under way.
Grows(p) ==
    Cap[p] > 0 /\ counted \subseteq {p} /\ ~spilt /\ trim.at \in {"idle", "over"}
       => Cardinality(Logged(p))
             <= Max({Cap[p], kept[p]}) + writes + Cardinality(Pending(p))

Measured == TrimIsCounted /\ CountIsDue /\ \A p \in Projects : Grows(p)

USE CapAssumption, SizesAssumption, NoneAssumption

-----------------------------------------------------------------------------
(* Ids in their order.                                                     *)

\* Ids have a first one.
LEMMA Least ==
    ASSUME NEW S \in SUBSET Nat, S # {}
    PROVE  \E x \in S : \A y \in S : x <= y
<1> DEFINE T == {0 .. x : x \in S}
<1>0. T # {}
  OBVIOUS
<1>1. T \subseteq FiniteSubsetsOf(Nat)
  <2>1. ASSUME NEW x \in S PROVE 0 .. x \in FiniteSubsetsOf(Nat)
    <3>1. x \in Int /\ 0 \in Int /\ 0 .. x \in SUBSET Nat
      OBVIOUS
    <3>2. IsFiniteSet(0 .. x)
      BY <3>1, FS_Interval
    <3> QED
      BY <3>1, <3>2 DEF FiniteSubsetsOf
  <2> QED
    BY <2>1
<1>2. PICK X \in T : \A Y \in T : <<Y, X>> \notin StrictSubsetOrdering(Nat)
  <2>1. IsWellFoundedOn(StrictSubsetOrdering(Nat), FiniteSubsetsOf(Nat))
    BY FS_StrictSubsetOrderingWellFounded
  <2> HIDE DEF T
  <2> QED
    BY <1>0, <1>1, <2>1, WFMin
<1>3. PICK x \in S : X = 0 .. x
  OBVIOUS
<1>4. ASSUME NEW y \in S, y < x PROVE FALSE
  <2>1. 0 .. y \in T
    OBVIOUS
  <2>2. 0 .. y \subseteq 0 .. x /\ 0 .. y # 0 .. x
    BY <1>4
  <2> QED
    BY <1>1, <1>2, <1>3, <2>1, <2>2 DEF StrictSubsetOrdering, FiniteSubsetsOf
<1> QED
  BY <1>4

\* Ids have a last one, which Max finds.
LEMMA MaxIsLast ==
    ASSUME NEW n \in Nat, NEW S \in SUBSET (0 .. n), S # {}
    PROVE  /\ Max(S) \in S
           /\ \A y \in S : y <= Max(S)
<1> DEFINE T == {n - x : x \in S}
<1>1. T \in SUBSET Nat /\ T # {}
  <2>1. ASSUME NEW x \in S PROVE n - x \in Nat
    OBVIOUS
  <2> QED
    BY <2>1
<1>2. PICK z \in T : \A y \in T : z <= y
  BY <1>1, Least
<1>3. \E x \in S : \A y \in S : x >= y
  <2>1. PICK x \in S : z = n - x
    BY <1>2
  <2>2. ASSUME NEW y \in S PROVE x >= y
    <3>1. z <= n - y
      BY <1>2
    <3> QED
      BY <2>1, <3>1
  <2> QED
    BY <2>2
<1> QED
  BY <1>3 DEF Max

\* Any set of ids is finite.
LEMMA IdsAreFinite ==
    ASSUME NEW S, S \subseteq Ids
    PROVE  IsFiniteSet(S) /\ Cardinality(S) \in Nat
<1>1. IsFiniteSet(Ids)
  BY FS_Interval DEF Ids
<1> QED
  BY <1>1, FS_Subset, FS_CardinalityType

\* The oldest of some ids are among them, and with an id all that are older.
LEMMA OldestIsBelow ==
    ASSUME NEW S, S \subseteq Ids, NEW n \in Int
    PROVE  /\ Oldest(S, n) \subseteq S
           /\ \A i \in Oldest(S, n), j \in S : j < i => j \in Oldest(S, n)
<1>1. ASSUME NEW i \in Oldest(S, n), NEW j \in S, j < i
      PROVE  j \in Oldest(S, n)
  <2> DEFINE I == {k \in S : k < i}
             J == {k \in S : k < j}
  <2>1. ASSUME NEW k \in J PROVE k \in I
    BY <1>1, k \in Int /\ i \in Int /\ j \in Int DEF Oldest, Ids
  <2>2. IsFiniteSet(I)
    BY IdsAreFinite
  <2>3. Cardinality(J) <= Cardinality(I)
    BY <2>1, <2>2, FS_Subset
  <2>4. Cardinality(I) < n
    BY DEF Oldest
  <2>5. Cardinality(I) \in Nat /\ Cardinality(J) \in Nat
    BY IdsAreFinite
  <2> QED
    BY <2>3, <2>4, <2>5 DEF Oldest
<1> QED
  BY <1>1 DEF Oldest

\* When the oldest n are fewer than n, they are all there are.
LEMMA OldestIsAll ==
    ASSUME NEW S, S \subseteq Ids, NEW n \in Int, Cardinality(Oldest(S, n)) < n
    PROVE  Oldest(S, n) = S
<1> DEFINE O == Oldest(S, n)
<1> SUFFICES ASSUME S \ O # {} PROVE FALSE
  BY DEF Oldest
<1> HIDE DEF O
<1>0. \A x \in S : x \in Nat
  BY DEF Ids
<1>1. S \ O \in SUBSET Nat
  BY <1>0
<1>2. PICK x \in S \ O : \A y \in S \ O : x <= y
  BY <1>1, Least
<1> DEFINE B == {j \in S : j < x}
<1>3. ASSUME NEW y \in B PROVE y \in O
  BY <1>0, <1>2
<1>4. O \subseteq S
  BY DEF Oldest, O
<1>5. Cardinality(B) <= Cardinality(O)
  BY <1>3, <1>4, IdsAreFinite, FS_Subset
<1>6. Cardinality(B) \in Nat /\ Cardinality(O) \in Nat
  BY <1>4, IdsAreFinite
<1>7. Cardinality(B) < n
  BY <1>5, <1>6 DEF O
<1> QED
  BY <1>2, <1>7 DEF Oldest, O

-----------------------------------------------------------------------------
(* Types.                                                                  *)

\* What a bucket is made of.
LEMMA Bucket ==
    ASSUME NEW f \in Logs
    PROVE  /\ DOMAIN f \subseteq Ids
           /\ f = [i \in DOMAIN f |-> f[i]]
           /\ \A i \in DOMAIN f : f[i] \in Entries
<1> QED
  BY DEF Logs

\* What makes a bucket.
LEMMA IsBucket ==
    ASSUME NEW S, S \subseteq Ids, NEW f \in [S -> Entries]
    PROVE  f \in Logs
<1> QED
  BY DEF Logs

\* An entry put, marked or answered leaves a bucket.
LEMMA Written ==
    ASSUME NEW f \in Logs, NEW i \in Ids, NEW e \in Entries
    PROVE  [j \in DOMAIN f \cup {i} |-> IF j = i THEN e ELSE f[j]] \in Logs
<1> QED
  BY Bucket, IsBucket, DOMAIN f \cup {i} \subseteq Ids

\* Entries removed leave a bucket.
LEMMA Removed ==
    ASSUME NEW f \in Logs, NEW S, S \subseteq DOMAIN f
    PROVE  Only(f, S) \in Logs /\ DOMAIN Only(f, S) = S
<1>1. S \subseteq Ids /\ \A i \in S : f[i] \in Entries
  BY Bucket
<1> QED
  BY <1>1, IsBucket DEF Only

\* The empty bucket.
LEMMA EmptyBucket == Empty \in Logs /\ DOMAIN Empty = {}
<1>1. {} \subseteq Ids /\ Empty \in [{} -> Entries]
  BY DEF Empty
<1> QED
  BY <1>1, IsBucket

\* A fresh entry, and an answered one.
LEMMA FreshTyped == Fresh \in Entries
<1> QED
  BY DEF Fresh, Entries

\* A call at work is a removal, of a project.
LEMMA CallTyped ==
    ASSUME TypeOK, NEW c \in Callers,
           call[c].at # "idle" \/ call[c].op # "none" \/ call[c].project # None
    PROVE  /\ call[c] \in Removals
           /\ call[c].project \in Projects
           /\ log[call[c].project] \in Logs
<1>1. call[c] \in Removals \cup {Idle}
  BY DEF TypeOK
<1>2. call[c] # Idle
  BY DEF Idle
<1> QED
  BY <1>1, <1>2 DEF TypeOK, Removals

\* A removal spares fewer, or none.
LEMMA NotSafeTyped ==
    ASSUME TypeOK, NEW p \in Projects, NEW S
    PROVE  NotSafe(p, S) \in [Callers -> Removals \cup {Idle}]
<1>1. ASSUME NEW c \in Callers, call[c].project = p
      PROVE  [call[c] EXCEPT !.safe = @ \ S] \in Removals
  <2>1. call[c] \in Removals
    BY <1>1, CallTyped
  <2> QED
    BY <2>1 DEF Removals
<1> QED
  BY <1>1 DEF NotSafe, TypeOK

\* Every step keeps the types.
LEMMA TypeStep == ASSUME TypeOK, [Next]_vars PROVE TypeOK'
<1> USE DEF retention
<1>1. ASSUME NEW p \in Projects, Open(p) PROVE TypeOK'
  BY <1>1 DEF Open, TypeOK
<1>2. CASE Close
  BY <1>2 DEF Close, TypeOK
<1>3. ASSUME NEW p \in Projects, DeleteProject(p) PROVE TypeOK'
  <2>1. call' \in [Callers -> Removals \cup {Idle}]
    BY <1>3, NotSafeTyped DEF DeleteProject
  <2>2. log' \in [Projects -> Logs]
    BY <1>3, EmptyBucket DEF DeleteProject, TypeOK
  <2> QED
    BY <1>3, <2>1, <2>2 DEF DeleteProject, TypeOK
<1>4. ASSUME NEW i \in Ids, Request(i) PROVE TypeOK'
  <2>1. exchange' \in [Ids -> Stands]
    BY <1>4 DEF Request, TypeOK, Stands
  <2> QED
    BY <1>4, <2>1 DEF Request, TypeOK
<1>5. ASSUME NEW i \in Ids, NotLogged(i) \/ PutFails(i) \/ NoResponse(i) PROVE TypeOK'
  <2>1. exchange' \in [Ids -> Stands]
    BY <1>5 DEF NotLogged, PutFails, NoResponse, End, Over, TypeOK, Stands
  <2> QED
    BY <1>5, <2>1 DEF NotLogged, PutFails, NoResponse, TypeOK
<1>6. ASSUME NEW i \in Ids, PutEntry(i) PROVE TypeOK'
  <2>1. exchange[i].project \in Projects
    BY <1>6 DEF PutEntry, TypeOK, Stands
  <2> DEFINE p == exchange[i].project
             f == [j \in Logged(p) \cup {i} |-> IF j = i THEN Fresh ELSE log[p][j]]
  <2>4. f \in Logs
    <3>1. log[p] \in Logs
      BY <2>1 DEF TypeOK
    <3> QED
      BY <3>1, Written, FreshTyped DEF Logged
  <2>2. log' \in [Projects -> Logs]
    <3>1. log' = [log EXCEPT ![p] = f]
      BY <1>6 DEF PutEntry
    <3> HIDE DEF f
    <3> QED
      BY <2>4, <3>1 DEF TypeOK
  <2>3. exchange' \in [Ids -> Stands]
    BY <1>6, <2>1 DEF PutEntry, Move, TypeOK, Stands
  <2> QED
    BY <1>6, <2>2, <2>3 DEF PutEntry, TypeOK
<1>7. ASSUME NEW i \in Ids, Count(i) PROVE TypeOK'
  <2>1. exchange[i].project \in Projects
    BY <1>7 DEF Count, TypeOK, Stands
  <2>2. exchange' \in [Ids -> Stands]
    BY <1>7, <2>1 DEF Count, Move, TypeOK, Stands
  <2>3. writes' \in Nat /\ counted' \in SUBSET Projects
    BY <1>7, <2>1 DEF Count, TypeOK
  <2> QED
    BY <1>7, <2>2, <2>3 DEF Count, TypeOK
<1>8. ASSUME NEW i \in Ids, StartTrim(i) PROVE TypeOK'
  <2>1. exchange[i].project \in Projects
    BY <1>8 DEF StartTrim, TypeOK, Stands
  <2>2. exchange' \in [Ids -> Stands]
    BY <1>8, <2>1 DEF StartTrim, Move, TypeOK, Stands
  <2>3. trim' \in Trims
    BY <1>8 DEF StartTrim, TypeOK, Trims
  <2>4. spilt' \in BOOLEAN
    BY <1>8 DEF StartTrim, TypeOK
  <2> QED
    BY <1>8, <2>2, <2>3, <2>4 DEF StartTrim, TypeOK
<1>9. ASSUME NEW i \in Ids, StoreResponse(i) PROVE TypeOK'
  <2> DEFINE p == exchange[i].project
  <2>1. p \in Projects
    BY <1>9 DEF StoreResponse, TypeOK, Stands
  <2>2. exchange' \in [Ids -> Stands]
    BY <1>9, <2>1 DEF StoreResponse, Move, End, Over, TypeOK, Stands
  <2>3. ASSUME i \in Logged(p) PROVE [log[p] EXCEPT ![i].answered = TRUE] \in Logs
    <3>1. log[p] \in Logs
      BY <2>1 DEF TypeOK
    <3>2. log[p] \in [Logged(p) -> Entries]
      BY <3>1, Bucket DEF Logged
    <3>3. [log[p][i] EXCEPT !.answered = TRUE] \in Entries
      BY <2>3, <3>2 DEF Entries
    <3>4. [log[p] EXCEPT ![i].answered = TRUE] \in [Logged(p) -> Entries]
      BY <3>2, <3>3
    <3> QED
      BY <3>1, <3>4, Bucket, IsBucket DEF Logged
  <2>4. log' \in [Projects -> Logs]
    BY <1>9, <2>1, <2>3 DEF StoreResponse, TypeOK
  <2> QED
    BY <1>9, <2>2, <2>4 DEF StoreResponse, TypeOK
<1>10. ASSUME NEW i \in Ids, NEW p \in Projects, NEW saved \in BOOLEAN, SetSaved(p, i, saved)
       PROVE  TypeOK'
  <2>1. [log[p] EXCEPT ![i].saved = saved] \in Logs
    <3>1. log[p] \in Logs
      BY DEF TypeOK
    <3>2. [log[p] EXCEPT ![i].saved = saved] \in [Logged(p) -> Entries]
      BY <1>10, <3>1, Bucket DEF SetSaved, Logged, Entries
    <3> QED
      BY <3>1, <3>2, Bucket, IsBucket DEF Logged
  <2>2. log' \in [Projects -> Logs]
    BY <1>10, <2>1 DEF SetSaved, TypeOK
  <2>3. call' \in [Callers -> Removals \cup {Idle}]
    BY <1>10, NotSafeTyped DEF SetSaved, TypeOK
  <2> QED
    BY <1>10, <2>2, <2>3 DEF SetSaved, TypeOK
<1>11. ASSUME NEW i \in Ids, NEW p \in Projects, Delete(p, i) PROVE TypeOK'
  <2>1. log' \in [Projects -> Logs]
    BY <1>11, Removed DEF Delete, TypeOK, Logged
  <2>2. call' \in [Callers -> Removals \cup {Idle}]
    BY <1>11, NotSafeTyped DEF Delete
  <2> QED
    BY <1>11, <2>1, <2>2 DEF Delete, TypeOK
<1>12. CASE TrimReads
  <2>1. trim' \in Trims
    BY <1>12 DEF TrimReads, TypeOK, Trims
  <2>2. spilt' \in BOOLEAN
    BY <1>12 DEF TrimReads, TypeOK
  <2> QED
    BY <1>12, <2>1, <2>2 DEF TrimReads, TypeOK
<1>13. CASE TrimLog
  <2>1. trim.project \in Projects
    BY <1>13 DEF TrimLog, TypeOK, Trims
  <2>2. log' \in [Projects -> Logs]
    BY <1>13, <2>1, Removed DEF TrimLog, Trimmed, TypeOK
  <2>3. Cardinality({i \in Logged(trim.project) : log[trim.project][i].saved}) \in Nat
    BY <2>1, Bucket, IdsAreFinite DEF Logged, TypeOK
  <2>4. trim' \in Trims /\ kept' \in [Projects -> Nat]
    BY <1>13, <2>1, <2>3 DEF TrimLog, TypeOK, Trims
  <2> QED
    BY <1>13, <2>2, <2>4 DEF TrimLog, TypeOK
<1>14. CASE TrimFails
  BY <1>14 DEF TrimFails, TypeOK, Trims
<1>15. CASE TrimEnds
  BY <1>15 DEF TrimEnds, TypeOK, Trims
<1>16. ASSUME NEW c \in Callers, NEW op \in {"clear", "log", "saved"}, Clear(c, op)
       PROVE  TypeOK'
  <2>1. active \in Projects /\ log[active] \in Logs
    BY <1>16 DEF Clear, TypeOK
  <2>2. {i \in Logged(active) : log[active][i].saved} \in SUBSET Ids
    BY <2>1, Bucket DEF Logged
  <2> DEFINE S == {i \in Logged(active) : log[active][i].saved}
             r == [op |-> op, at |-> "collect", project |-> active, after |-> 0,
                   ids |-> {}, keep |-> FALSE, safe |-> S]
  <2>4. r \in Removals
    <3>2. 0 \in 0 .. N
      OBVIOUS
    <3> QED
      BY <2>1, <2>2, <3>2 DEF Removals
  <2>3. call' \in [Callers -> Removals \cup {Idle}]
    <3>1. call' = [call EXCEPT ![c] = r]
      BY <1>16 DEF Clear
    <3> HIDE DEF r
    <3> QED
      BY <2>4, <3>1 DEF TypeOK
  <2> QED
    BY <1>16, <2>3 DEF Clear, TypeOK
<1>17. ASSUME NEW c \in Callers, Collect(c) PROVE TypeOK'
  <2> DEFINE p == call[c].project
             S == {i \in Logged(p) : i > call[c].after}
             page == Oldest(S, Page)
             saved == {i \in page : log[p][i].saved}
             after == IF page = {} THEN call[c].after ELSE Max(page)
             at == IF Cardinality(page) < Page THEN "remove" ELSE "collect"
  <2>1. call[c] \in Removals /\ log[p] \in Logs
    BY <1>17, CallTyped DEF Collect
  <2>2. page \subseteq Ids
    BY <2>1, Bucket DEF Oldest, Logged
  <2>3. after \in 0 .. N
    <3>1. CASE page = {}
      BY <2>1, <3>1 DEF Removals
    <3>2. CASE page # {}
      <4>0. page \in SUBSET (0 .. N) /\ N \in Nat
        BY <2>2 DEF Ids
      <4> HIDE DEF page
      <4>1. Max(page) \in page
        BY <4>0, <3>2, MaxIsLast
      <4> QED
        BY <4>0, <3>2, <4>1
    <3> QED
      BY <3>1, <3>2
  <2>4. PICK found \in Selected(call[c].op, page, saved) :
           call' = [call EXCEPT ![c].ids = @ \cup found, ![c].keep = @ \/ saved # {},
                                ![c].after = after, ![c].at = at]
    BY <1>17 DEF Collect
  <2>5. found \subseteq page
    BY <2>1 DEF Selected, Removals
  <2> HIDE DEF page, saved, after, at
  <2>6. call'[c] \in Removals
    BY <2>1, <2>2, <2>3, <2>4, <2>5 DEF TypeOK, Removals, at
  <2>7. call' \in [Callers -> Removals \cup {Idle}]
    BY <2>4, <2>6 DEF TypeOK
  <2> QED
    BY <1>17, <2>7 DEF Collect, TypeOK
<1>18. ASSUME NEW c \in Callers, ClearBuckets(c) \/ DeleteBatch(c) \/ EndRemoval(c)
       PROVE  TypeOK'
  <2> DEFINE p == call[c].project
  <2>1. call[c] \in Removals /\ p \in Projects /\ log[p] \in Logs
    BY <1>18, CallTyped DEF ClearBuckets, DeleteBatch, EndRemoval
  <2>2. \A S : NotSafe(p, S) \in [Callers -> Removals \cup {Idle}]
    BY <2>1, NotSafeTyped
  <2>3. CASE ClearBuckets(c)
    <3>1. call' \in [Callers -> Removals \cup {Idle}]
      BY <2>2, <2>3 DEF ClearBuckets
    <3>2. log' \in [Projects -> Logs]
      BY <2>1, <2>3, EmptyBucket DEF ClearBuckets, TypeOK
    <3> QED
      BY <2>3, <3>1, <3>2 DEF ClearBuckets, TypeOK
  <2>4. CASE DeleteBatch(c)
    <3> DEFINE batch == Oldest(call[c].ids, Page)
    <3>1. NotSafe(p, batch)[c] \in Removals
      BY <2>1 DEF NotSafe, Removals
    <3>2. [NotSafe(p, batch) EXCEPT ![c].ids = @ \ batch][c] \in Removals
      BY <2>2, <3>1 DEF Removals
    <3>3. call' \in [Callers -> Removals \cup {Idle}]
      BY <2>2, <2>4, <3>2 DEF DeleteBatch
    <3>4. log' \in [Projects -> Logs]
      BY <2>1, <2>4, Removed DEF DeleteBatch, Logged, TypeOK
    <3> QED
      BY <2>4, <3>3, <3>4 DEF DeleteBatch, TypeOK
  <2>5. CASE EndRemoval(c)
    BY <2>5 DEF EndRemoval, TypeOK
  <2> QED
    BY <1>18, <2>3, <2>4, <2>5
<1>19. CASE UNCHANGED vars
  BY <1>19 DEF vars, TypeOK
<1> QED
  BY <1>1, <1>2, <1>3, <1>4, <1>5, <1>6, <1>7, <1>8, <1>9, <1>10, <1>11, <1>12,
     <1>13, <1>14, <1>15, <1>16, <1>17, <1>18, <1>19 DEF Next

\* The variables keep their types.
THEOREM TypeCorrect == Spec => []TypeOK
<1>1. Init => TypeOK
  <2>1. Waiting \in Stands /\ [at |-> "idle", project |-> None] \in Trims
    BY DEF Waiting, Stands, Trims
  <2>2. SUFFICES ASSUME Init PROVE TypeOK
    OBVIOUS
  <2>3. log \in [Projects -> Logs]
    BY <2>2, EmptyBucket DEF Init
  <2>4. call \in [Callers -> Removals \cup {Idle}]
    BY <2>2 DEF Init
  <2> QED
    BY <2>1, <2>2, <2>3, <2>4 DEF Init, TypeOK
<1>2. TypeOK /\ [Next]_vars => TypeOK'
  BY TypeStep
<1> QED
  BY <1>1, <1>2, PTL DEF Spec

-----------------------------------------------------------------------------
(* How a step changes a log.                                               *)

\* The steps that leave every log alone.
Apart ==
    \/ \E p \in Projects : Open(p)
    \/ Close
    \/ \E i \in Ids : Request(i) \/ NotLogged(i) \/ PutFails(i) \/ Count(i)
                      \/ StartTrim(i) \/ NoResponse(i)
    \/ TrimReads \/ TrimFails \/ TrimEnds
    \/ \E c \in Callers :
          Collect(c) \/ EndRemoval(c) \/ \E op \in {"clear", "log", "saved"} : Clear(c, op)
    \/ UNCHANGED vars

\* They do.
LEMMA ApartKeepsLogs == ASSUME Apart PROVE log' = log
<1> QED
  BY DEF Apart, Open, Close, Request, NotLogged, PutFails, Count, StartTrim, NoResponse,
         TrimReads, TrimFails, TrimEnds, Collect, EndRemoval, Clear, vars

\* What the others do to the bucket of p.
PutIn(p, i) ==
    /\ PutEntry(i) /\ exchange[i].project = p
    /\ Logged(p)' = Logged(p) \cup {i}
    /\ \A j \in Logged(p)' : log'[p][j] = IF j = i THEN Fresh ELSE log[p][j]

AnsweredIn(p, i) ==
    /\ StoreResponse(i) /\ exchange[i].project = p /\ i \in Logged(p)
    /\ log'[p] = [log[p] EXCEPT ![i].answered = TRUE]

MarkedIn(p, i, saved) ==
    /\ SetSaved(p, i, saved)
    /\ log'[p] = [log[p] EXCEPT ![i].saved = saved]

DeletedFrom(p, i) == Delete(p, i) /\ log'[p] = Only(log[p], Logged(p) \ {i})

TrimmedTo(p) == TrimLog /\ trim.project = p /\ log'[p] = Trimmed(log[p], Cap[p])

ClearedBy(p, c) == ClearBuckets(c) /\ call[c].project = p /\ Logged(p)' = {}

BatchGoes(p, c) ==
    /\ DeleteBatch(c) /\ call[c].project = p
    /\ log'[p] = Only(log[p], Logged(p) \ Oldest(call[c].ids, Page))

Becomes(p) ==
    \/ log'[p] = log[p]
    \/ DeleteProject(p) /\ Logged(p)' = {}
    \/ \E i \in Ids :
          \/ PutIn(p, i) \/ AnsweredIn(p, i) \/ DeletedFrom(p, i)
          \/ \E saved \in BOOLEAN : MarkedIn(p, i, saved)
    \/ TrimmedTo(p)
    \/ \E c \in Callers : ClearedBy(p, c) \/ BatchGoes(p, c)

\* Every step changes a bucket in one of these ways.
LEMMA BucketStep ==
    ASSUME TypeOK, [Next]_vars, NEW p \in Projects
    PROVE  Becomes(p)
<1>0. log \in [Projects -> Logs]
  BY DEF TypeOK
<1>1. CASE Apart
  BY <1>1, ApartKeepsLogs DEF Becomes
<1>2. ASSUME NEW q \in Projects, DeleteProject(q) PROVE Becomes(p)
  <2>1. log'[p] = log[p] \/ (q = p /\ Logged(p)' = {})
    BY <1>0, <1>2, EmptyBucket DEF DeleteProject, Logged
  <2> QED
    BY <1>2, <2>1 DEF Becomes
<1>3. ASSUME NEW i \in Ids, PutEntry(i) PROVE Becomes(p)
  <2> DEFINE q == exchange[i].project
             f == [j \in Logged(q) \cup {i} |-> IF j = i THEN Fresh ELSE log[q][j]]
  <2>1. log' = [log EXCEPT ![q] = f]
    BY <1>3 DEF PutEntry
  <2>2. CASE q # p
    <3>1. log'[p] = log[p]
      <4> HIDE DEF f
      <4> QED
        BY <1>0, <2>1, <2>2
    <3> QED
      BY <3>1 DEF Becomes
  <2>3. CASE q = p
    <3>1. log'[p] = f
      <4> HIDE DEF f
      <4> QED
        BY <1>0, <2>1, <2>3
    <3>2. PutIn(p, i)
      BY <1>3, <2>3, <3>1 DEF Logged, PutIn
    <3> QED
      BY <3>2 DEF Becomes
  <2> QED
    BY <2>2, <2>3
<1>4. ASSUME NEW i \in Ids, StoreResponse(i) PROVE Becomes(p)
  <2>1. log'[p] = log[p] \/ AnsweredIn(p, i)
    BY <1>0, <1>4 DEF StoreResponse, AnsweredIn
  <2> QED
    BY <2>1 DEF Becomes
<1>5. ASSUME NEW q \in Projects, NEW i \in Ids, NEW saved \in BOOLEAN, SetSaved(q, i, saved)
      PROVE  Becomes(p)
  <2>1. log'[p] = log[p] \/ MarkedIn(p, i, saved)
    BY <1>0, <1>5 DEF SetSaved, MarkedIn
  <2> QED
    BY <2>1 DEF Becomes
<1>6. ASSUME NEW q \in Projects, NEW i \in Ids, Delete(q, i) PROVE Becomes(p)
  <2>1. log'[p] = log[p] \/ DeletedFrom(p, i)
    BY <1>0, <1>6 DEF Delete, DeletedFrom
  <2> QED
    BY <2>1 DEF Becomes
<1>7. CASE TrimLog
  <2>1. log'[p] = log[p] \/ TrimmedTo(p)
    BY <1>0, <1>7 DEF TrimLog, TrimmedTo
  <2> QED
    BY <2>1 DEF Becomes
<1>8. ASSUME NEW c \in Callers, ClearBuckets(c) \/ DeleteBatch(c) PROVE Becomes(p)
  <2>1. log'[p] = log[p] \/ ClearedBy(p, c) \/ BatchGoes(p, c)
    BY <1>0, <1>8, EmptyBucket DEF ClearBuckets, DeleteBatch, Logged, ClearedBy, BatchGoes
  <2> QED
    BY <2>1 DEF Becomes
<1>9. \/ Apart
      \/ \E q \in Projects : DeleteProject(q)
      \/ \E i \in Ids : PutEntry(i) \/ StoreResponse(i)
      \/ \E q \in Projects, i \in Ids : \/ \E saved \in BOOLEAN : SetSaved(q, i, saved)
                                        \/ Delete(q, i)
      \/ TrimLog
      \/ \E c \in Callers : ClearBuckets(c) \/ DeleteBatch(c)
  BY DEF Next, Apart
<1> QED
  BY <1>1, <1>2, <1>3, <1>4, <1>5, <1>6, <1>7, <1>8, <1>9

\* Only a hook that puts its entry adds one to a log.
LEMMA WhoPuts ==
    ASSUME TypeOK, [Next]_vars, NEW p \in Projects
    PROVE  Logged(p)' \subseteq Logged(p) \/ \E i \in Ids : PutIn(p, i)
<1> USE DEF Logged, Only
<1>1. CASE TrimmedTo(p)
  BY <1>1 DEF TrimmedTo, Trimmed
<1>2. ASSUME NEW i, NEW saved, AnsweredIn(p, i) \/ MarkedIn(p, i, saved)
      PROVE  Logged(p)' = Logged(p)
  BY <1>2 DEF AnsweredIn, MarkedIn
<1>3. ASSUME NEW i, DeletedFrom(p, i)
      PROVE  Logged(p)' \subseteq Logged(p)
  BY <1>3 DEF DeletedFrom
<1>4. ASSUME NEW c, BatchGoes(p, c)
      PROVE  Logged(p)' \subseteq Logged(p)
  BY <1>4 DEF BatchGoes
<1>5. ASSUME NEW c, ClearedBy(p, c)
      PROVE  Logged(p)' \subseteq Logged(p)
  BY <1>5 DEF ClearedBy
<1> QED
  BY <1>1, <1>2, <1>3, <1>4, <1>5, BucketStep DEF Becomes

\* The steps that move no exchange.
Still ==
    \/ \E p \in Projects : Open(p) \/ DeleteProject(p)
    \/ Close
    \/ \E p \in Projects, i \in Ids : \/ \E saved \in BOOLEAN : SetSaved(p, i, saved)
                                      \/ Delete(p, i)
    \/ TrimReads \/ TrimLog \/ TrimFails \/ TrimEnds
    \/ \E c \in Callers :
          \/ \E op \in {"clear", "log", "saved"} : Clear(c, op)
          \/ Collect(c) \/ ClearBuckets(c) \/ DeleteBatch(c) \/ EndRemoval(c)
    \/ UNCHANGED vars

Hook(i) ==
    \/ Request(i) \/ NotLogged(i) \/ PutEntry(i) \/ PutFails(i)
    \/ Count(i) \/ StartTrim(i) \/ StoreResponse(i) \/ NoResponse(i)

\* Every step is one of these, or of the hook of an exchange.
LEMMA StillOrHook == ASSUME [Next]_vars PROVE Still \/ \E i \in Ids : Hook(i)
<1> QED
  BY DEF Next, Still, Hook

\* They move none.
LEMMA StillKeepsExchanges == ASSUME Still PROVE exchange' = exchange
<1> QED
  BY DEF Still, Open, DeleteProject, Close, SetSaved, Delete, TrimReads, TrimLog, TrimFails,
         TrimEnds, Clear, Collect, ClearBuckets, DeleteBatch, EndRemoval, vars

\* A hook moves its own exchange, and changes its project only to read it or to
\* end.
Advances(i) ==
    \/ Request(i) /\ exchange'[i] = [at |-> "reading", project |-> active]
    \/ /\ NotLogged(i) \/ PutFails(i) \/ NoResponse(i) \/ StoreResponse(i)
       /\ exchange'[i] = Over
    \/ /\ exchange'[i].project = exchange[i].project
       /\ exchange[i].project \in Projects
       /\ \/ PutEntry(i) /\ exchange[i].at = "reading" /\ exchange'[i].at = "put"
          \/ Count(i) /\ exchange[i].at = "put" /\ exchange'[i].at \in {"upstream", "due"}
          \/ StartTrim(i) /\ exchange[i].at = "due" /\ exchange'[i].at = "upstream"
          \/ /\ StoreResponse(i) /\ exchange[i].at = "upstream"
             /\ exchange'[i].at = "answered" /\ i \in Logged(exchange[i].project)

\* A hook does that, and leaves the other exchanges alone.
LEMMA HookAdvances ==
    ASSUME TypeOK, NEW i \in Ids, Hook(i)
    PROVE  Advances(i) /\ \A j \in Ids \ {i} : exchange'[j] = exchange[j]
<1>1. exchange \in [Ids -> Stands]
  BY DEF TypeOK
<1>2. CASE Request(i) \/ NotLogged(i) \/ PutFails(i) \/ NoResponse(i)
  BY <1>1, <1>2 DEF Request, NotLogged, PutFails, NoResponse, End, Advances
<1>3. CASE PutEntry(i)
  BY <1>1, <1>3 DEF PutEntry, Move, Advances, Stands
<1>4. CASE Count(i)
  BY <1>1, <1>4 DEF Count, Move, Advances, Stands
<1>5. CASE StartTrim(i)
  BY <1>1, <1>5 DEF StartTrim, Move, Advances, Stands
<1>6. CASE StoreResponse(i)
  BY <1>1, <1>6 DEF StoreResponse, Move, End, Advances, Stands
<1> QED
  BY <1>2, <1>3, <1>4, <1>5, <1>6 DEF Hook

\* Every exchange stays where it is or advances.
LEMMA ExchangeStep ==
    ASSUME TypeOK, [Next]_vars, NEW i \in Ids
    PROVE  exchange'[i] = exchange[i] \/ Advances(i)
<1> QED
  BY StillOrHook, StillKeepsExchanges, HookAdvances

-----------------------------------------------------------------------------
(* Deleted projects, and answers.                                          *)

\* Which projects are open and deleted.
LEMMA ProjectStep ==
    ASSUME [Next]_vars
    PROVE  \/ active' = active /\ deleted' = deleted /\ stragglers' = stragglers
           \/ \E p \in Projects : Open(p)
           \/ Close
           \/ \E p \in Projects : DeleteProject(p)
<1> DEFINE Kept == active' = active /\ deleted' = deleted /\ stragglers' = stragglers
<1>1. ASSUME NEW i \in Ids, Hook(i) PROVE Kept
  BY <1>1 DEF Hook, Request, NotLogged, PutEntry, PutFails, Count, StartTrim, StoreResponse,
              NoResponse
<1>2. ASSUME NEW p \in Projects, NEW i \in Ids,
             (\E saved \in BOOLEAN : SetSaved(p, i, saved)) \/ Delete(p, i)
      PROVE  Kept
  BY <1>2 DEF SetSaved, Delete
<1>3. CASE TrimReads \/ TrimLog \/ TrimFails \/ TrimEnds \/ UNCHANGED vars
  BY <1>3 DEF TrimReads, TrimLog, TrimFails, TrimEnds, vars
<1>4. ASSUME NEW c \in Callers,
             \/ \E op \in {"clear", "log", "saved"} : Clear(c, op)
             \/ Collect(c) \/ ClearBuckets(c) \/ DeleteBatch(c) \/ EndRemoval(c)
      PROVE  Kept
  BY <1>4 DEF Clear, Collect, ClearBuckets, DeleteBatch, EndRemoval
<1> QED
  BY <1>1, <1>2, <1>3, <1>4, StillOrHook DEF Still

\* Whatever is in the log of a deleted project was about to be put when the
\* project went.
LEMMA StragglersStep == ASSUME TypeOK, Stragglers, [Next]_vars PROVE Stragglers'
<1>0. ASSUME NEW p \in deleted' \ deleted PROVE p \in Projects /\ DeleteProject(p)
  <2>1. ASSUME NEW q \in Projects, DeleteProject(q) PROVE p = q
    BY <2>1 DEF DeleteProject
  <2>2. ASSUME (\E q \in Projects : Open(q)) \/ Close PROVE deleted' = deleted
    BY <2>2 DEF Open, Close
  <2> QED
    BY <2>1, <2>2, ProjectStep
<1>1. active' \notin deleted'
  <2>1. active \notin deleted /\ None \notin deleted
    BY NoneAssumption DEF Stragglers, TypeOK
  <2>2. ASSUME NEW p \in Projects, DeleteProject(p) PROVE active' \notin deleted'
    BY <2>1, <2>2 DEF DeleteProject
  <2> QED
    BY <2>1, <2>2, ProjectStep DEF Open, Close
<1>2. ASSUME NEW p \in deleted', NEW i \in Logged(p)' PROVE i \in stragglers'
  <2>1. p \in Projects
    BY ProjectStep DEF TypeOK, Open, Close, DeleteProject
  <2>2. CASE p \notin deleted
    <3>1. DeleteProject(p)
      BY <1>0, <1>2, <2>2
    <3>2. Logged(p)' = {}
      BY <2>1, <3>1, EmptyBucket DEF DeleteProject, Logged, TypeOK
    <3> QED
      BY <1>2, <3>2
  <2>3. CASE p \in deleted
    <3>1. stragglers \subseteq stragglers'
      BY ProjectStep DEF Open, Close, DeleteProject
    <3>2. CASE Logged(p)' \subseteq Logged(p)
      BY <1>2, <2>3, <3>1, <3>2 DEF Stragglers, OnlyStragglersReturn
    <3>3. ASSUME NEW j \in Ids, PutIn(p, j) PROVE i \in stragglers'
      <4>1. exchange[j].at = "reading" /\ exchange[j].project = p
        BY <3>3 DEF PutIn, PutEntry
      <4>2. j \in stragglers /\ Logged(p) \subseteq stragglers
        BY <2>3, <4>1 DEF Stragglers, OnlyStragglersReturn
      <4> QED
        BY <1>2, <3>1, <3>3, <4>2 DEF PutIn
    <3> QED
      BY <2>1, <3>2, <3>3, WhoPuts
  <2> QED
    BY <2>2, <2>3
<1>3. ASSUME NEW i \in Ids, exchange'[i].at = "reading", exchange'[i].project \in deleted'
      PROVE  i \in stragglers'
  <2>1. CASE Advances(i)
    <3>1. Request(i) /\ exchange'[i].project = active
      BY <1>3, <2>1 DEF Advances, Over
    <3> QED
      BY <1>3, <3>1 DEF Request, Stragglers
  <2>2. CASE exchange'[i] = exchange[i]
    <3>1. CASE exchange[i].project \in deleted
      BY <1>3, <2>2, <3>1, ProjectStep DEF Stragglers, Open, Close, DeleteProject
    <3>2. CASE exchange[i].project \notin deleted
      <4> DEFINE p == exchange[i].project
      <4>1. DeleteProject(p) /\ p \in Projects
        BY <1>0, <1>3, <2>2, <3>2
      <4>2. exchange[i] \in Stands
        BY DEF TypeOK
      <4>3. exchange[i] = [at |-> "reading", project |-> p]
        BY <1>3, <2>2, <4>1, <4>2 DEF Stands
      <4> QED
        BY <4>1, <4>3 DEF DeleteProject
    <3> QED
      BY <3>1, <3>2
  <2> QED
    BY <2>1, <2>2, ExchangeStep
<1> QED
  BY <1>1, <1>2, <1>3 DEF Stragglers, OnlyStragglersReturn

\* The log of a deleted project holds nothing but what the requests put whose
\* hook had read the project before (Store.Put, Store.Update).
THEOREM DeletedStaysEmpty == Spec => []OnlyStragglersReturn
<1>1. Init => Stragglers
  BY NoneAssumption DEF Init, Stragglers, OnlyStragglersReturn
<1>2. TypeOK /\ Stragglers /\ [Next]_vars => Stragglers'
  BY StragglersStep
<1>3. Stragglers => OnlyStragglersReturn
  BY DEF Stragglers
<1> QED
  BY <1>1, <1>2, <1>3, TypeCorrect, PTL DEF Spec

\* An entry whose response was stored keeps it (SetResponse, SetSaved).
THEOREM AnswersStay == Spec => []NoAnswerIsLost
<1>1. Init => NoAnswerIsLost
  BY DEF Init, NoAnswerIsLost, Waiting
<1>2. TypeOK /\ NoAnswerIsLost /\ [Next]_vars => NoAnswerIsLost'
  <2> SUFFICES ASSUME TypeOK, NoAnswerIsLost, [Next]_vars,
                      NEW i \in Ids, exchange'[i].at = "answered",
                      NEW p, p = exchange'[i].project, i \in Logged(p)'
               PROVE  log'[p][i].answered
    BY DEF NoAnswerIsLost
  <2>1. CASE Advances(i)
    <3>1. StoreResponse(i) /\ p \in Projects /\ p = exchange[i].project /\ i \in Logged(p)
      BY <2>1 DEF Advances, Over
    <3>2. log[p] \in Logs /\ log' = [log EXCEPT ![p][i].answered = TRUE]
      BY <3>1 DEF StoreResponse, TypeOK
    <3>3. log[p][i] \in Entries /\ i \in DOMAIN log[p]
      BY <3>1, <3>2, Bucket DEF Logged
    <3> QED
      BY <3>1, <3>2, <3>3 DEF TypeOK, Entries
  <2>2. CASE exchange'[i] = exchange[i]
    <3>1. p \in Projects /\ log[p] \in Logs
      BY <2>2 DEF TypeOK, Stands
    <3>2. i \in Logged(p) => log[p][i].answered /\ log[p][i] \in Entries
      BY <2>2, <3>1, Bucket DEF NoAnswerIsLost, Logged
    <3>3. CASE log'[p] = log[p]
      BY <3>2, <3>3 DEF Logged
    <3>4. ASSUME NEW j \in Ids, PutIn(p, j) PROVE log'[p][i].answered
      <4>1. exchange[j].at = "reading"
        BY <3>4 DEF PutIn, PutEntry
      <4>2. j # i
        BY <2>2, <4>1
      <4> QED
        BY <3>2, <3>4, <4>2 DEF PutIn
    <3>5. ASSUME NEW j \in Ids, NEW saved \in BOOLEAN, AnsweredIn(p, j) \/ MarkedIn(p, j, saved)
          PROVE  log'[p][i].answered
      BY <3>2, <3>5 DEF AnsweredIn, MarkedIn, Logged, Entries
    <3>6. ASSUME NEW S, log'[p] = Only(log[p], S), S \subseteq Logged(p)
          PROVE  log'[p][i].answered
      BY <3>2, <3>6 DEF Only, Logged
    <3>7. CASE TrimmedTo(p)
      BY <3>6, <3>7 DEF TrimmedTo, Trimmed, Logged
    <3>8. ASSUME NEW j \in Ids, DeletedFrom(p, j) PROVE log'[p][i].answered
      BY <3>6, <3>8 DEF DeletedFrom
    <3>9. ASSUME NEW c \in Callers, ClearedBy(p, c) \/ BatchGoes(p, c)
          PROVE  log'[p][i].answered
      BY <3>6, <3>9 DEF ClearedBy, BatchGoes
    <3> QED
      BY <3>1, <3>3, <3>4, <3>5, <3>7, <3>8, <3>9, BucketStep DEF Becomes
  <2> QED
    BY <2>1, <2>2, ExchangeStep
<1> QED
  BY <1>1, <1>2, TypeCorrect, PTL DEF Spec

-----------------------------------------------------------------------------
(* What removals and trims spare.                                          *)

\* An exchange that has not been put is in no log.
LEMMA NotYetLoggedStep ==
    ASSUME TypeOK, NotYetLogged, [Next]_vars PROVE NotYetLogged'
<1> SUFFICES ASSUME NEW i \in Ids, NEW p \in Projects, exchange'[i].at \in {"new", "reading"}
             PROVE  i \notin Logged(p)'
  BY DEF NotYetLogged
<1>1. exchange[i].at \in {"new", "reading"}
  <2>1. CASE Advances(i)
    <3>1. Request(i)
      BY <2>1 DEF Advances, Over
    <3> QED
      BY <3>1 DEF Request, Begins
  <2>2. CASE exchange'[i] = exchange[i]
    BY <2>2
  <2> QED
    BY <2>1, <2>2, ExchangeStep
<1>2. i \notin Logged(p)
  BY <1>1 DEF NotYetLogged
<1>3. ASSUME NEW j \in Ids, PutIn(p, j) PROVE j # i
  <2>1. Hook(j) /\ exchange[j].at = "reading"
    BY <1>3 DEF PutIn, Hook, PutEntry
  <2>2. Advances(j)
    BY <2>1, HookAdvances
  <2>3. exchange'[j].at = "put"
    BY <1>3, <2>1 DEF PutIn, PutEntry, Move, TypeOK, Stands
  <2> QED
    BY <2>3
<1> QED
  BY <1>2, <1>3, WhoPuts DEF PutIn

\* The calls are left alone but for what they have to spare.
Steady(c) ==
    /\ call'[c].op = call[c].op
    /\ call'[c].at = call[c].at
    /\ call'[c].project = call[c].project
    /\ call'[c].after = call[c].after
    /\ call'[c].ids = call[c].ids
    /\ call'[c].keep = call[c].keep
    /\ call'[c].safe \subseteq call[c].safe

Removing(c) ==
    \/ \E op \in {"clear", "log", "saved"} : Clear(c, op)
    \/ Collect(c) \/ ClearBuckets(c) \/ DeleteBatch(c) \/ EndRemoval(c)

\* What NotSafe does to one call.
LEMMA SafeLess ==
    ASSUME TypeOK, NEW p, NEW S, NEW c \in Callers
    PROVE  /\ NotSafe(p, S)[c].op = call[c].op
           /\ NotSafe(p, S)[c].at = call[c].at
           /\ NotSafe(p, S)[c].project = call[c].project
           /\ NotSafe(p, S)[c].after = call[c].after
           /\ NotSafe(p, S)[c].ids = call[c].ids
           /\ NotSafe(p, S)[c].keep = call[c].keep
           /\ call[c].project = p => NotSafe(p, S)[c].safe = call[c].safe \ S
           /\ call[c].project # p => NotSafe(p, S)[c].safe = call[c].safe
<1>1. call[c] \in Removals \cup {Idle}
  BY DEF TypeOK
<1> QED
  BY <1>1 DEF NotSafe, Removals, Idle

\* A call only moves by its own steps.
LEMMA CallStep ==
    ASSUME TypeOK, [Next]_vars, NEW c \in Callers
    PROVE  Steady(c) \/ Removing(c)
<1>1. ASSUME call' = call PROVE Steady(c)
  BY <1>1 DEF Steady
<1>2. ASSUME NEW p, NEW S, call'[c] = NotSafe(p, S)[c] PROVE Steady(c)
  <2>1. NotSafe(p, S)[c].safe \subseteq call[c].safe
    BY SafeLess
  <2> QED
    BY <1>2, <2>1, SafeLess DEF Steady
<1>3. ASSUME NEW i \in Ids, Hook(i) PROVE call' = call
  BY <1>3 DEF Hook, Request, NotLogged, PutEntry, PutFails, Count, StartTrim, StoreResponse,
              NoResponse
<1>4. ASSUME (\E p \in Projects : Open(p)) \/ Close \/ TrimReads \/ TrimLog \/ TrimFails
             \/ TrimEnds \/ UNCHANGED vars
      PROVE  call' = call
  BY <1>4 DEF Open, Close, TrimReads, TrimLog, TrimFails, TrimEnds, vars
<1>5. ASSUME NEW p \in Projects, DeleteProject(p) PROVE Steady(c)
  BY <1>2, <1>5 DEF DeleteProject
<1>6. ASSUME NEW p \in Projects, NEW i \in Ids,
             (\E saved \in BOOLEAN : SetSaved(p, i, saved)) \/ Delete(p, i)
      PROVE  Steady(c)
  BY <1>1, <1>2, <1>6 DEF SetSaved, Delete
<1>7. ASSUME NEW d \in Callers, d # c, Removing(d) PROVE Steady(c)
  <2>0. call \in [Callers -> Removals \cup {Idle}]
    BY DEF TypeOK
  <2>1. CASE (\E op \in {"clear", "log", "saved"} : Clear(d, op)) \/ Collect(d) \/ EndRemoval(d)
    <3>1. call'[c] = call[c]
      BY <1>7, <2>0, <2>1 DEF Clear, Collect, EndRemoval
    <3> QED
      BY <3>1 DEF Steady
  <2>2. CASE ClearBuckets(d) \/ DeleteBatch(d)
    <3> DEFINE p == call[d].project
               batch == Oldest(call[d].ids, Page)
    <3>1. ASSUME NEW S, NEW r, call' = [NotSafe(p, S) EXCEPT ![d] = r]
          PROVE  call'[c] = NotSafe(p, S)[c]
      BY <1>7, <3>1 DEF NotSafe
    <3>2. CASE ClearBuckets(d)
      <4>1. call'[c] = NotSafe(p, Ids)[c]
        BY <3>1, <3>2 DEF ClearBuckets
      <4> QED
        BY <1>2, <4>1
    <3>3. CASE DeleteBatch(d)
      <4>1. call'[c] = NotSafe(p, batch)[c]
        BY <3>1, <3>3 DEF DeleteBatch
      <4> QED
        BY <1>2, <4>1
    <3> QED
      BY <2>2, <3>2, <3>3
  <2> QED
    BY <1>7, <2>1, <2>2 DEF Removing
<1> QED
  BY <1>1, <1>3, <1>4, <1>5, <1>6, <1>7, StillOrHook DEF Still, Removing

\* What a call spares stays in its log, saved.
LEMMA SafeStays ==
    ASSUME TypeOK, NotYetLogged, Sparing, [Next]_vars,
           NEW c \in Callers, call[c].at # "idle", call'[c].at # "idle",
           Steady(c) \/ DeleteBatch(c) \/ Collect(c),
           NEW p, p = call[c].project, NEW i \in call'[c].safe, i \in call[c].safe
    PROVE  i \in DOMAIN log'[p] /\ log'[p][i].saved
<1>1. p \in Projects /\ log[p] \in Logs
  BY CallTyped
<1>2. i \in Logged(p) /\ log[p][i].saved
  BY DEF Sparing, Spares
<1>3. log[p][i] \in Entries /\ i \in Ids
  BY <1>1, <1>2, Bucket DEF Logged
<1>4. CASE log'[p] = log[p]
  BY <1>2, <1>4 DEF Logged
<1>5. CASE DeleteProject(p)
  <2>1. call'[c].safe = call[c].safe \ Ids
    BY <1>5, SafeLess DEF DeleteProject
  <2> QED
    BY <1>3, <2>1
<1>6. ASSUME NEW j \in Ids, PutIn(p, j) PROVE i \in DOMAIN log'[p] /\ log'[p][i].saved
  <2>1. exchange[j].at = "reading"
    BY <1>6 DEF PutIn, PutEntry
  <2>2. j # i
    BY <1>1, <1>2, <2>1 DEF NotYetLogged
  <2> QED
    BY <1>2, <1>6, <2>2 DEF PutIn, Logged
<1>7. ASSUME NEW j \in Ids, AnsweredIn(p, j) PROVE i \in DOMAIN log'[p] /\ log'[p][i].saved
  BY <1>2, <1>3, <1>7 DEF AnsweredIn, Logged, Entries
<1>8. ASSUME NEW j \in Ids, NEW saved \in BOOLEAN, MarkedIn(p, j, saved)
      PROVE  i \in DOMAIN log'[p] /\ log'[p][i].saved
  <2>1. saved \/ call'[c].safe = call[c].safe \ {j}
    BY <1>8, SafeLess DEF MarkedIn, SetSaved
  <2> QED
    BY <1>2, <1>3, <1>8, <2>1 DEF MarkedIn, Logged, Entries
<1>9. ASSUME NEW j \in Ids, DeletedFrom(p, j) PROVE i \in DOMAIN log'[p] /\ log'[p][i].saved
  <2>1. call'[c].safe = call[c].safe \ {j}
    BY <1>9, SafeLess DEF DeletedFrom, Delete
  <2> QED
    BY <1>2, <1>9, <2>1 DEF DeletedFrom, Logged, Only
<1>10. CASE TrimmedTo(p)
  BY <1>2, <1>10 DEF TrimmedTo, Trimmed, Only, Oldest, Logged
<1>11. ASSUME NEW d \in Callers, ClearedBy(p, d) PROVE FALSE
  <2>1. call' = [NotSafe(p, Ids) EXCEPT ![d] = Idle]
    BY <1>11 DEF ClearedBy, ClearBuckets
  <2>2. NotSafe(p, Ids) = [e \in Callers |-> NotSafe(p, Ids)[e]]
    BY DEF NotSafe
  <2>3. call'[c] = IF d = c THEN Idle ELSE NotSafe(p, Ids)[c]
    BY <2>1, <2>2
  <2>4. d # c
    BY <2>3 DEF Idle
  <2>5. call'[c].safe = call[c].safe \ Ids
    BY <2>3, <2>4, SafeLess
  <2> QED
    BY <1>3, <2>5
<1>12. ASSUME NEW d \in Callers, BatchGoes(p, d) PROVE i \in DOMAIN log'[p] /\ log'[p][i].saved
  <2> DEFINE batch == Oldest(call[d].ids, Page)
             less == NotSafe(p, batch)
  <2>1. call' = [less EXCEPT ![d].ids = @ \ batch]
    BY <1>12 DEF BatchGoes, DeleteBatch
  <2>2. less \in [Callers -> Removals \cup {Idle}] /\ less[c].safe = call[c].safe \ batch
    BY <1>1, NotSafeTyped, SafeLess
  <2>3. call'[c].safe = less[c].safe
    <3> HIDE DEF less, batch
    <3>1. less[c] \in Removals \cup {Idle}
      BY <2>2
    <3>2. CASE d = c
      BY <2>1, <2>2, <3>1, <3>2 DEF Removals, Idle
    <3>3. CASE d # c
      BY <2>1, <2>2, <3>3
    <3> QED
      BY <3>2, <3>3
  <2> QED
    BY <1>2, <1>12, <2>2, <2>3 DEF BatchGoes, Only, Logged
<1> QED
  BY <1>1, <1>4, <1>5, <1>6, <1>7, <1>8, <1>9, <1>10, <1>11, <1>12, BucketStep DEF Becomes

\* What a page holds, and what is behind it.
LEMMA PageIsMet ==
    ASSUME TypeOK, NEW c \in Callers, call[c] \in Removals,
           NEW S, S = {i \in Logged(call[c].project) : i > call[c].after},
           NEW page, page = Oldest(S, Page),
           NEW i \in Logged(call[c].project), i > call[c].after,
           \/ page # {} /\ i <= Max(page)
           \/ Cardinality(page) < Page
    PROVE  i \in page
<1>1. log[call[c].project] \in Logs
  BY DEF TypeOK, Removals
<1>2. S \subseteq Ids /\ i \in S /\ N \in Nat /\ Page \in Int
  BY <1>1, Bucket DEF Logged
<1>3. CASE Cardinality(page) < Page
  BY <1>2, <1>3, OldestIsAll
<1>4. CASE page # {} /\ i <= Max(page)
  <2>1. page \subseteq S /\ \A k \in page, j \in S : j < k => j \in page
    BY <1>2, OldestIsBelow
  <2>2. page \in SUBSET (0 .. N)
    BY <1>2, <2>1 DEF Ids
  <2>3. Max(page) \in page
    BY <1>2, <1>4, <2>2, MaxIsLast
  <2>4. Max(page) \in Int /\ i \in Int
    BY <1>2, <2>2, <2>3 DEF Ids
  <2>5. i < Max(page) \/ i = Max(page)
    BY <1>4, <2>4
  <2> QED
    BY <1>2, <2>1, <2>3, <2>5
<1> QED
  BY <1>3, <1>4

\* A page is collected.
LEMMA CollectSpares ==
    ASSUME TypeOK, NotYetLogged, Sparing, [Next]_vars, NEW c \in Callers, Collect(c)
    PROVE  Spares(c)'
<1> DEFINE r == call[c]
           p == r.project
           S == {i \in Logged(p) : i > r.after}
           page == Oldest(S, Page)
           saved == {i \in page : log[p][i].saved}
           after == IF page = {} THEN r.after ELSE Max(page)
           at == IF Cardinality(page) < Page THEN "remove" ELSE r.at
<1>1. r.at = "collect" /\ r \in Removals /\ log' = log
  BY CallTyped DEF Collect
<1>2. Spares(c)
  BY <1>1 DEF Sparing
<1>3. PICK found \in Selected(r.op, page, saved) :
         call' = [call EXCEPT ![c].ids = @ \cup found, ![c].keep = @ \/ saved # {},
                              ![c].after = after, ![c].at = at]
  BY DEF Collect
<1>4. r.op \in {"clear", "log"} => found \cap saved = {}
  BY DEF Selected
<1>5. found \subseteq page
  BY <1>1 DEF Selected, Removals
<1>6. \A i \in r.safe : i \in Logged(p) /\ log[p][i].saved
  BY <1>2 DEF Spares
<1>7. \A i \in r.safe : i \in page => i \in saved
  BY <1>6
<1>8. \A i \in r.safe : /\ i <= after => i <= r.after \/ i \in page
                        /\ at = "remove" => i <= r.after \/ i \in page
  <2> SUFFICES ASSUME NEW i \in r.safe, ~(i <= r.after), i <= after \/ at = "remove"
               PROVE  i \in page
    OBVIOUS
  <2>1. i \in Ids /\ r.after \in Int
    BY <1>1 DEF Removals
  <2>2. i > r.after
    BY <2>1 DEF Ids
  <2>3. \/ page # {} /\ i <= Max(page)
        \/ Cardinality(page) < Page
    BY <1>1
  <2> HIDE DEF page
  <2>4. page = Oldest(S, Page)
    BY DEF page
  <2> QED
    BY <1>1, <1>6, <2>2, <2>3, <2>4, PageIsMet
<1> HIDE DEF page, saved, after, at
<1>9. /\ call'[c].op = r.op /\ call'[c].project = p /\ call'[c].safe = r.safe
      /\ call'[c].ids = r.ids \cup found
      /\ call'[c].keep = (r.keep \/ saved # {})
      /\ call'[c].after = after /\ call'[c].at = at
  BY <1>1, <1>3 DEF TypeOK, Removals
<1>10. /\ r.op \in {"clear", "log"} => r.ids \cap r.safe = {}
       /\ r.op = "clear" => \A i \in r.safe : i <= r.after => r.keep
  BY <1>1, <1>2 DEF Spares
<1>11. r.op \in {"clear", "log"} => call'[c].ids \cap call'[c].safe = {}
  BY <1>4, <1>5, <1>7, <1>9, <1>10
<1>12. r.op = "clear" => \A i \in r.safe : i <= after \/ at = "remove" => call'[c].keep
  BY <1>7, <1>8, <1>9, <1>10
<1>13. \A i \in call'[c].safe : i \in Logged(p)' /\ log'[p][i].saved
  BY <1>1, <1>6, <1>9 DEF Logged
<1> QED
  BY <1>9, <1>11, <1>12, <1>13 DEF Spares

\* A call that goes on spares what it has to.
LEMMA SparingStep ==
    ASSUME TypeOK, NotYetLogged, Sparing, [Next]_vars PROVE Sparing'
<1> SUFFICES ASSUME NEW c \in Callers, call'[c].at # "idle" PROVE Spares(c)'
  BY DEF Sparing
<1>1. CASE Steady(c)
  <2>1. call[c].at # "idle" /\ Spares(c)
    BY <1>1 DEF Steady, Sparing
  <2> DEFINE p == call[c].project
  <2>2. \A i \in call'[c].safe : i \in DOMAIN log'[p] /\ log'[p][i].saved
    <3>1. call'[c].safe \subseteq call[c].safe
      BY <1>1 DEF Steady
    <3> QED
      BY <1>1, <2>1, <3>1, SafeStays
  <2>3. \A i \in call'[c].safe : /\ i \in DOMAIN log'[call'[c].project]
                                 /\ log'[call'[c].project][i].saved
    <3>1. call'[c].project = p
      BY <1>1 DEF Steady
    <3> QED
      BY <2>2, <3>1
  <2> QED
    BY <1>1, <2>1, <2>3 DEF Steady, Spares, Logged
<1>2. ASSUME NEW op \in {"clear", "log", "saved"}, Clear(c, op) PROVE Spares(c)'
  <2> DEFINE S == {i \in Logged(active) : log[active][i].saved}
             r == [op |-> op, at |-> "collect", project |-> active, after |-> 0,
                   ids |-> {}, keep |-> FALSE, safe |-> S]
  <2>1. active \in Projects /\ log[active] \in Logs /\ log' = log
    BY <1>2 DEF Clear, TypeOK
  <2>2. call'[c] = r
    <3>1. call' = [call EXCEPT ![c] = r]
      BY <1>2 DEF Clear
    <3> HIDE DEF r
    <3> QED
      BY <3>1 DEF TypeOK
  <2>3. ASSUME NEW i \in S
        PROVE  i \in DOMAIN log'[active] /\ log'[active][i].saved /\ ~(i <= 0)
    <3>1. i \in DOMAIN log[active] /\ log[active][i].saved
      BY DEF Logged
    <3>2. i \in Ids
      BY <2>1, <3>1, Bucket
    <3> QED
      BY <2>1, <3>1, <3>2 DEF Ids
  <2> HIDE DEF S
  <2>4. /\ call'[c].op = op /\ call'[c].at = "collect" /\ call'[c].project = active
        /\ call'[c].after = 0 /\ call'[c].ids = {} /\ call'[c].safe = S
    BY <2>2
  <2> QED
    BY <2>3, <2>4 DEF Spares, Logged
<1>3. CASE Collect(c)
  BY <1>3, CollectSpares
<1>4. CASE ClearBuckets(c) \/ EndRemoval(c)
  <2>1. call'[c] = Idle
    BY <1>4 DEF ClearBuckets, EndRemoval, TypeOK, NotSafe
  <2> QED
    BY <2>1 DEF Idle
<1>5. CASE DeleteBatch(c)
  <2> DEFINE p == call[c].project
             batch == Oldest(call[c].ids, Page)
             less == NotSafe(p, batch)
  <2>1. call[c] \in Removals /\ p \in Projects /\ call[c].at = "remove" /\ Spares(c)
    BY <1>5, CallTyped DEF DeleteBatch, Sparing
  <2>2. less \in [Callers -> Removals \cup {Idle}] /\ less[c] \in Removals
    <3>1. less[c].at = "remove"
      BY <2>1, SafeLess
    <3>2. less \in [Callers -> Removals \cup {Idle}]
      BY <2>1, NotSafeTyped
    <3> HIDE DEF less
    <3> QED
      BY <3>1, <3>2 DEF Idle
  <2>3. call' = [less EXCEPT ![c].ids = @ \ batch]
    BY <1>5 DEF DeleteBatch
  <2>4. /\ less[c].op = call[c].op /\ less[c].at = "remove" /\ less[c].project = p
        /\ less[c].ids = call[c].ids /\ less[c].keep = call[c].keep
        /\ less[c].safe = call[c].safe \ batch
    BY <2>1, SafeLess
  <2>5. /\ call'[c].op = call[c].op /\ call'[c].at = "remove" /\ call'[c].project = p
        /\ call'[c].ids = call[c].ids \ batch /\ call'[c].keep = call[c].keep
        /\ call'[c].safe = call[c].safe \ batch
    <3> HIDE DEF less, batch
    <3> QED
      BY <2>2, <2>3, <2>4 DEF Removals
  <2>6. \A i \in call'[c].safe : i \in DOMAIN log'[p] /\ log'[p][i].saved
    BY <1>5, <2>1, <2>5, SafeStays
  <2> HIDE DEF batch
  <2> QED
    BY <2>1, <2>5, <2>6 DEF Spares, Logged
<1> QED
  BY <1>1, <1>2, <1>3, <1>4, <1>5, CallStep DEF Removing

\* Removals spare what they have to.
LEMMA AlwaysSparing == Spec => [](TypeOK /\ NotYetLogged /\ Sparing)
<1>1. Init => NotYetLogged /\ Sparing
  BY EmptyBucket DEF Init, NotYetLogged, Sparing, Idle, Logged
<1>2. TypeOK /\ NotYetLogged /\ Sparing /\ [Next]_vars => NotYetLogged' /\ Sparing'
  BY NotYetLoggedStep, SparingStep
<1> QED
  BY <1>1, <1>2, TypeCorrect, PTL DEF Spec

\* A call that clears the log, or what a filter selects of it, takes no entry
\* that was saved before it began and ever since; and no trim takes a saved
\* entry (Service.Clear, DeleteMatching, Store.Trim).
THEOREM SavedStays == Spec => SavedIsSpared
<1> DEFINE CallsSpare ==
              \A c \in Callers :
                 /\ call[c].op \in {"clear", "log"}
                 /\ call'[c].at # call[c].at \/ call'[c].ids # call[c].ids
                 => call[c].safe \subseteq
                       DOMAIN log'[call[c].project] \cup (Ids \ Logged(call[c].project))
           TrimSpares ==
              trim.at = "read" /\ trim'.at # "read" =>
                 \A i \in Logged(trim.project) :
                    log[trim.project][i].saved => i \in DOMAIN log'[trim.project]
<1>1. ASSUME TypeOK, NotYetLogged, Sparing, [Next]_vars PROVE CallsSpare
  <2> SUFFICES ASSUME NEW c \in Callers, call[c].op \in {"clear", "log"},
                      call'[c].at # call[c].at \/ call'[c].ids # call[c].ids
               PROVE  call[c].safe \subseteq DOMAIN log'[call[c].project]
    OBVIOUS
  <2> DEFINE p == call[c].project
  <2>1. call[c] \in Removals /\ p \in Projects /\ call[c].at # "idle" /\ Spares(c)
    BY <1>1, CallTyped DEF Sparing, Removals
  <2>2. call[c].safe \subseteq Logged(p)
    BY <2>1 DEF Spares
  <2>3. CASE Collect(c) \/ EndRemoval(c)
    BY <2>2, <2>3 DEF Collect, EndRemoval, Logged
  <2>4. CASE ClearBuckets(c)
    BY <2>1, <2>4 DEF ClearBuckets, Wholesale, Spares
  <2>5. CASE DeleteBatch(c)
    <3> DEFINE batch == Oldest(call[c].ids, Page)
    <3>1. log'[p] = Only(log[p], Logged(p) \ batch)
      BY <1>1, <2>1, <2>5 DEF DeleteBatch, TypeOK
    <3>2. batch \cap call[c].safe = {}
      BY <2>1 DEF Spares, Oldest
    <3> QED
      BY <2>2, <3>1, <3>2 DEF Only
  <2>6. ASSUME NEW op, Clear(c, op) PROVE FALSE
    BY <2>1, <2>6 DEF Clear
  <2> QED
    BY <1>1, <2>3, <2>4, <2>5, <2>6, CallStep DEF Removing, Steady
<1>2. ASSUME TypeOK, [Next]_vars PROVE TrimSpares
  <2> SUFFICES ASSUME trim.at = "read", trim'.at # "read",
                      NEW i \in Logged(trim.project), log[trim.project][i].saved
               PROVE  i \in DOMAIN log'[trim.project]
    OBVIOUS
  <2>1. CASE TrimLog
    BY <1>2, <2>1 DEF TrimLog, Trimmed, Only, Oldest, Logged, TypeOK, Trims
  <2>2. CASE ~TrimLog
    <3>1. log' = log
      <4>1. CASE Still
        BY <2>2, <4>1 DEF Still, Open, DeleteProject, Close, SetSaved, Delete, TrimReads,
           TrimFails, TrimEnds, Clear, Collect, ClearBuckets, DeleteBatch, EndRemoval,
           retention, vars
      <4>2. ASSUME NEW j \in Ids, Hook(j) PROVE log' = log
        BY <4>2 DEF Hook, Request, NotLogged, PutEntry, PutFails, Count, StartTrim,
                    StoreResponse, NoResponse, retention
      <4> QED
        BY <1>2, <4>1, <4>2, StillOrHook
    <3> QED
      BY <3>1 DEF Logged
  <2> QED
    BY <2>1, <2>2
<1>3. TypeOK /\ NotYetLogged /\ Sparing /\ [Next]_vars => [CallsSpare /\ TrimSpares]_vars
  BY <1>1, <1>2
<1> QED
  BY <1>3, AlwaysSparing, PTL DEF Spec, SavedIsSpared

-----------------------------------------------------------------------------
(* The cap.                                                                *)

\* The larger of two counts.
LEMMA MaxOfTwo ==
    ASSUME NEW a \in Nat, NEW b \in Nat
    PROVE  Max({a, b}) \in {a, b} /\ a <= Max({a, b}) /\ b <= Max({a, b})
<1>1. {a, b} \in SUBSET (0 .. a + b) /\ {a, b} # {} /\ a + b \in Nat
  OBVIOUS
<1> QED
  BY <1>1, MaxIsLast

\* A trim leaves the cap, or what is saved when that is more (Store.Trim).
LEMMA TrimLeaves ==
    ASSUME NEW f \in Logs, NEW cap \in Nat
    PROVE  Cardinality(DOMAIN Trimmed(f, cap))
              <= Max({cap, Cardinality({i \in DOMAIN f : f[i].saved})})
<1> DEFINE D == DOMAIN f
           U == {i \in D : ~f[i].saved}
           K == {i \in D : f[i].saved}
           e == Cardinality(D) - cap
           O == Oldest(U, e)
<1>1. D \subseteq Ids /\ U \subseteq Ids /\ K \subseteq Ids
  BY Bucket
<1>2. DOMAIN Trimmed(f, cap) = D \ O
  BY DEF Trimmed, Only
<1>3. O \subseteq U
  BY DEF Oldest
<1>4. /\ Cardinality(D) \in Nat /\ Cardinality(O) \in Nat /\ Cardinality(K) \in Nat
      /\ Cardinality(D \ O) \in Nat /\ IsFiniteSet(D)
  BY <1>1, <1>3, IdsAreFinite
<1>5. e \in Int
  BY <1>4
<1>6. CASE Cardinality(O) < e
  <2>1. O = U
    <3> HIDE DEF e, U
    <3> QED
      BY <1>1, <1>5, <1>6, OldestIsAll
  <2>2. D \ O = K
    BY <2>1
  <2>3. Cardinality(K) <= Max({cap, Cardinality(K)})
    <3> HIDE DEF K
    <3> QED
      BY <1>4, MaxOfTwo
  <2> QED
    BY <1>2, <2>2, <2>3
<1>7. CASE ~(Cardinality(O) < e)
  <2>1. D \cap O = O
    BY <1>3
  <2>2. Cardinality(D \ O) = Cardinality(D) - Cardinality(O)
    <3> HIDE DEF O, D
    <3> QED
      BY <1>4, <2>1, FS_Difference
  <2>3. Cardinality(D \ O) <= cap
    BY <1>4, <1>7, <2>2
  <2>4. Cardinality(D \ O) <= Max({cap, Cardinality(K)})
    <3> HIDE DEF K, D, O
    <3>1. /\ cap <= Max({cap, Cardinality(K)})
          /\ Max({cap, Cardinality(K)}) \in {cap, Cardinality(K)}
      BY <1>4, MaxOfTwo
    <3> QED
      BY <1>4, <2>3, <3>1
  <2> QED
    BY <1>2, <2>4
<1> QED
  BY <1>6, <1>7

\* Retention moves by the steps that count and trim.
LEMMA RetentionStep ==
    ASSUME [Next]_vars
    PROVE  \/ UNCHANGED retention
           \/ \E i \in Ids : Count(i) \/ StartTrim(i)
           \/ TrimReads \/ TrimLog \/ TrimFails \/ TrimEnds
<1>1. CASE Still /\ ~(TrimReads \/ TrimLog \/ TrimFails \/ TrimEnds)
  <2>1. CASE \/ \E p \in Projects : Open(p) \/ DeleteProject(p)
             \/ Close
             \/ UNCHANGED vars
    BY <2>1 DEF Open, DeleteProject, Close, retention, vars
  <2>2. ASSUME NEW p \in Projects, NEW i \in Ids,
               (\E saved \in BOOLEAN : SetSaved(p, i, saved)) \/ Delete(p, i)
        PROVE  UNCHANGED retention
    BY <2>2 DEF SetSaved, Delete
  <2>3. ASSUME NEW c \in Callers,
               (\E op \in {"clear", "log", "saved"} : Clear(c, op)) \/ Collect(c)
        PROVE  UNCHANGED retention
    BY <2>3 DEF Clear, Collect
  <2>4. ASSUME NEW c \in Callers, ClearBuckets(c) \/ DeleteBatch(c) \/ EndRemoval(c)
        PROVE  UNCHANGED retention
    BY <2>4 DEF ClearBuckets, DeleteBatch, EndRemoval
  <2> QED
    BY <1>1, <2>1, <2>2, <2>3, <2>4 DEF Still
<1>2. ASSUME NEW i \in Ids, Hook(i), ~(Count(i) \/ StartTrim(i)) PROVE UNCHANGED retention
  BY <1>2 DEF Hook, Request, NotLogged, PutEntry, PutFails, StoreResponse, NoResponse
<1> QED
  BY <1>1, <1>2, StillOrHook

\* Putting and counting change what is pending.
LEMMA PendingStep ==
    ASSUME TypeOK, [Next]_vars, NEW p \in Projects,
           ~(\E i \in Ids : PutEntry(i) \/ Count(i))
    PROVE  Pending(p)' = Pending(p)
<1>1. ASSUME NEW i \in Ids PROVE i \in Pending(p)' <=> i \in Pending(p)
  <2>1. CASE Advances(i)
    <3>1. exchange[i].at # "put" /\ exchange'[i].at # "put"
      BY <2>1 DEF Advances, Request, Begins, NotLogged, PutFails, NoResponse, StoreResponse,
                  StartTrim, Over
    <3> QED
      BY <3>1 DEF Pending
  <2>2. CASE exchange'[i] = exchange[i]
    BY <2>2 DEF Pending
  <2> QED
    BY <2>1, <2>2, ExchangeStep
<1> QED
  BY <1>1 DEF Pending

\* A hook changes what is pending by its own exchange only.
LEMMA PendingHook ==
    ASSUME TypeOK, NEW i \in Ids, NEW p \in Projects, Hook(i)
    PROVE  /\ PutEntry(i) => Pending(p)' = IF exchange[i].project = p THEN Pending(p) \cup {i}
                                           ELSE Pending(p)
           /\ PutEntry(i) => i \notin Pending(p)
           /\ Count(i) => Pending(p)' = IF exchange[i].project = p THEN Pending(p) \ {i}
                                        ELSE Pending(p)
           /\ Count(i) => (i \in Pending(p) <=> exchange[i].project = p)
<1>1. \A j \in Ids \ {i} : exchange'[j] = exchange[j]
  BY HookAdvances
<1>2. ASSUME PutEntry(i)
      PROVE  /\ exchange[i].at = "reading" /\ exchange'[i].at = "put"
             /\ exchange'[i].project = exchange[i].project
  BY <1>2 DEF PutEntry, Move, TypeOK, Stands
<1>3. ASSUME Count(i)
      PROVE  /\ exchange[i].at = "put" /\ exchange'[i].at # "put"
             /\ exchange'[i].project = exchange[i].project
  BY <1>3 DEF Count, Move, TypeOK, Stands
<1> QED
  BY <1>1, <1>2, <1>3 DEF Pending

\* A trim starts from a count, and of the project that was counted.
LEMMA TrimIsCountedStep ==
    ASSUME TypeOK, TrimIsCounted, [Next]_vars PROVE TrimIsCounted'
<1>1. CASE UNCHANGED retention
  BY <1>1 DEF TrimIsCounted, retention
<1>2. ASSUME NEW i \in Ids, Count(i) PROVE TrimIsCounted'
  BY <1>2 DEF Count, TrimIsCounted
<1>3. ASSUME NEW i \in Ids, StartTrim(i) PROVE TrimIsCounted'
  <2>1. ~spilt' => ~spilt /\ ~trimming
    BY <1>3 DEF StartTrim, TypeOK
  <2> QED
    BY <1>3, <2>1 DEF StartTrim, TrimIsCounted
<1>4. CASE TrimReads \/ TrimLog \/ TrimFails \/ TrimEnds
  <2>1. CASE TrimReads
    <3>1. ASSUME trim'.at = "read", ~spilt' PROVE counted = {active} /\ trim'.project = active
      BY <2>1, <3>1 DEF TrimReads, TypeOK
    <3> QED
      BY <2>1, <3>1 DEF TrimReads, TrimIsCounted
  <2>2. CASE TrimLog \/ TrimFails \/ TrimEnds
    BY <2>2 DEF TrimLog, TrimFails, TrimEnds, TrimIsCounted
  <2> QED
    BY <1>4, <2>1, <2>2
<1> QED
  BY <1>1, <1>2, <1>3, <1>4, RetentionStep

\* The counter is below trimEvery, or its reset is due (maybeTrim).
LEMMA CountIsDueStep ==
    ASSUME TypeOK, CountIsDue, [Next]_vars PROVE CountIsDue'
<1>1. ASSUME NEW i \in Ids, Count(i) PROVE CountIsDue'
  <2>1. CASE Cap[exchange[i].project] = 0
    <3>1. writes' = writes /\ exchange[i].at = "put"
      BY <1>1, <2>1 DEF Count
    <3>2. \A j \in Ids \ {i} : exchange'[j] = exchange[j]
      BY <1>1, HookAdvances DEF Hook
    <3> QED
      BY <3>1, <3>2 DEF CountIsDue
  <2>2. CASE Cap[exchange[i].project] # 0
    <3>1. writes' < Every \/ exchange'[i].at = "due"
      BY <1>1, <2>2 DEF Count, Move, TypeOK, Stands
    <3> QED
      BY <3>1 DEF CountIsDue
  <2> QED
    BY <2>1, <2>2
<1>2. ASSUME NEW i \in Ids, StartTrim(i) PROVE CountIsDue'
  BY <1>2 DEF StartTrim, CountIsDue
<1>3. ASSUME ~\E i \in Ids : Count(i) \/ StartTrim(i) PROVE CountIsDue'
  <2>1. writes' = writes
    BY <1>3, RetentionStep DEF retention, TrimReads, TrimLog, TrimFails, TrimEnds
  <2>2. ASSUME NEW i \in Ids, exchange[i].at = "due" PROVE exchange'[i].at = "due"
    <3>1. ~Advances(i)
      BY <1>3, <2>2 DEF Advances, Request, Begins, NotLogged, PutFails, NoResponse, StoreResponse
    <3> QED
      BY <2>2, <3>1, ExchangeStep
  <2> QED
    BY <2>1, <2>2 DEF CountIsDue
<1> QED
  BY <1>1, <1>2, <1>3

\* A log grows by what is put, which is pending until it is counted.
LEMMA GrowsStep ==
    ASSUME TypeOK, Measured, [Next]_vars, NEW p \in Projects PROVE Grows(p)'
<1> SUFFICES ASSUME Cap[p] > 0, counted' \subseteq {p}, ~spilt', trim'.at \in {"idle", "over"}
             PROVE  Cardinality(Logged(p)')
                       <= Max({Cap[p], kept'[p]}) + writes' + Cardinality(Pending(p)')
  BY DEF Grows
<1> DEFINE L == Cardinality(Logged(p))
           P == Cardinality(Pending(p))
           M == Max({Cap[p], kept[p]})
<1>1. TypeOK'
  BY TypeStep
<1>2. /\ log[p] \in Logs /\ log'[p] \in Logs
      /\ writes \in Nat /\ writes' \in Nat /\ Cap[p] \in Nat /\ kept[p] \in Nat /\ kept'[p] \in Nat
  BY <1>1, CapAssumption DEF TypeOK
<1>3. /\ Logged(p) \subseteq Ids /\ Logged(p)' \subseteq Ids
      /\ Pending(p) \subseteq Ids /\ Pending(p)' \subseteq Ids
  BY <1>2, Bucket DEF Logged, Pending
<1>4. /\ L \in Nat /\ P \in Nat /\ IsFiniteSet(Logged(p)) /\ IsFiniteSet(Pending(p))
      /\ Cardinality(Logged(p)') \in Nat /\ Cardinality(Pending(p)') \in Nat
  BY <1>3, IdsAreFinite
<1>5. M \in Nat /\ Max({Cap[p], kept'[p]}) \in Nat
  BY <1>2, MaxOfTwo
<1>6. ASSUME trim.at \in {"idle", "over"} PROVE L <= M + writes + P
  <2>1. counted \subseteq {p} /\ ~spilt
    <3>1. counted \subseteq counted' /\ (spilt => spilt')
      <4>1. ASSUME NEW i \in Ids, Count(i) \/ StartTrim(i)
            PROVE  counted \subseteq counted' /\ (spilt => spilt')
        BY <4>1 DEF Count, StartTrim, TypeOK
      <4>2. ASSUME UNCHANGED retention
            PROVE  counted \subseteq counted' /\ (spilt => spilt')
        BY <4>2 DEF retention
      <4>3. ASSUME TrimReads \/ TrimLog \/ TrimFails \/ TrimEnds
            PROVE  counted \subseteq counted' /\ (spilt => spilt')
        BY <4>3 DEF TrimReads, TrimLog, TrimFails, TrimEnds, TypeOK
      <4> QED
        BY <4>1, <4>2, <4>3, RetentionStep
    <3> QED
      BY <3>1
  <2> QED
    BY <1>6, <2>1 DEF Measured, Grows
<1>7. ASSUME Logged(p)' \subseteq Logged(p) PROVE Cardinality(Logged(p)') <= L
  BY <1>4, <1>7, FS_Subset
<1>8. ASSUME NEW i \in Ids, PutEntry(i)
      PROVE  Cardinality(Logged(p)')
                <= Max({Cap[p], kept'[p]}) + writes' + Cardinality(Pending(p)')
  <2>1. Hook(i) /\ kept' = kept /\ writes' = writes /\ trim' = trim
    BY <1>8 DEF Hook, PutEntry, retention
  <2>2. L <= M + writes + P
    BY <1>6, <2>1
  <2>3. CASE exchange[i].project = p
    <3>1. Pending(p)' = Pending(p) \cup {i} /\ i \notin Pending(p)
      BY <1>8, <2>1, <2>3, PendingHook
    <3>2. Cardinality(Pending(p)') = P + 1
      BY <1>4, <3>1, FS_AddElement
    <3>3. Logged(p)' = Logged(p) \cup {i}
      <4>1. Logged(p)' \subseteq Logged(p) \cup {i} /\ Logged(p) \cup {i} \subseteq Logged(p)'
        BY <1>8, <2>3 DEF PutEntry, Logged, TypeOK
      <4> QED
        BY <4>1
    <3>4. Cardinality(Logged(p)') <= L + 1
      <4>1. Cardinality(Logged(p) \cup {i}) = IF i \in Logged(p) THEN L ELSE L + 1
        BY <1>4, FS_AddElement
      <4> QED
        BY <1>4, <3>3, <4>1
    <3> QED
      BY <1>2, <1>4, <1>5, <2>1, <2>2, <3>2, <3>4
  <2>4. CASE exchange[i].project # p
    <3>1. Pending(p)' = Pending(p)
      BY <1>8, <2>1, <2>4, PendingHook
    <3>2. Logged(p)' = Logged(p)
      BY <1>8, <2>4 DEF PutEntry, Logged, TypeOK
    <3> QED
      BY <2>1, <2>2, <3>1, <3>2
  <2> QED
    BY <2>3, <2>4
<1>9. ASSUME NEW i \in Ids, Count(i)
      PROVE  Cardinality(Logged(p)')
                <= Max({Cap[p], kept'[p]}) + writes' + Cardinality(Pending(p)')
  <2>1. Hook(i) /\ kept' = kept /\ log' = log /\ trim' = trim
    BY <1>9 DEF Hook, Count, retention
  <2>2. L <= M + writes + P
    BY <1>6, <2>1
  <2>3. CASE exchange[i].project = p
    <3>1. Pending(p)' = Pending(p) \ {i} /\ i \in Pending(p)
      BY <1>9, <2>1, <2>3, PendingHook
    <3>2. Cardinality(Pending(p)') = P - 1
      BY <1>4, <3>1, FS_RemoveElement
    <3>3. writes' = writes + 1
      BY <1>9, <2>3 DEF Count
    <3> QED
      BY <1>2, <1>4, <1>5, <2>1, <2>2, <3>2, <3>3 DEF Logged
  <2>4. CASE exchange[i].project # p
    <3>1. Pending(p)' = Pending(p)
      BY <1>9, <2>1, <2>4, PendingHook
    <3>2. writes' = writes
      <4>1. exchange[i].project \notin counted'
        BY <2>4
      <4> QED
        BY <1>9, <4>1 DEF Count
    <3> QED
      BY <2>1, <2>2, <3>1, <3>2 DEF Logged
  <2> QED
    BY <2>3, <2>4
<1>10. ASSUME ~\E i \in Ids : PutEntry(i) \/ Count(i)
       PROVE  Pending(p)' = Pending(p) /\ Logged(p)' \subseteq Logged(p)
  BY <1>10, PendingStep, WhoPuts DEF PutIn
<1>11. CASE TrimLog
  <2>1. p = trim.project /\ trim.at = "read"
    <3>1. trim.at = "read" /\ counted' = counted /\ spilt' = spilt
      BY <1>11 DEF TrimLog
    <3> QED
      BY <3>1 DEF Measured, TrimIsCounted
  <2>2. log'[p] = Trimmed(log[p], Cap[p]) /\ writes' = writes
    BY <1>11, <2>1 DEF TrimLog, TypeOK
  <2>3. kept'[p] = Cardinality({i \in DOMAIN log[p] : log[p][i].saved})
    BY <1>11, <2>1 DEF TrimLog, TypeOK, Logged
  <2>4. Cardinality(DOMAIN log'[p]) <= Max({Cap[p], kept'[p]})
    BY <1>2, <2>2, <2>3, TrimLeaves
  <2> QED
    BY <1>2, <1>4, <1>5, <2>4 DEF Logged
<1>12. CASE TrimEnds \/ UNCHANGED retention
  <2>1. trim.at \in {"idle", "over"} /\ writes' = writes /\ kept' = kept
    BY <1>12 DEF TrimEnds, retention
  <2>2. CASE \E i \in Ids : PutEntry(i) \/ Count(i)
    BY <1>8, <1>9, <2>2
  <2>3. CASE ~\E i \in Ids : PutEntry(i) \/ Count(i)
    <3>1. Pending(p)' = Pending(p) /\ Cardinality(Logged(p)') <= L
      BY <1>7, <1>10, <2>3
    <3>2. L <= M + writes + P
      BY <1>6, <2>1
    <3> QED
      BY <1>2, <1>4, <1>5, <2>1, <3>1, <3>2
  <2> QED
    BY <2>2, <2>3
<1>13. ASSUME NEW i \in Ids, StartTrim(i) PROVE FALSE
  BY <1>13 DEF StartTrim, TypeOK
<1>14. ASSUME TrimReads \/ TrimFails PROVE FALSE
  <2>1. ASSUME TrimReads, active = None \/ ~(Cap[active] > 0) PROVE FALSE
    BY <2>1 DEF TrimReads
  <2>2. ASSUME TrimReads, active # None, Cap[active] > 0 PROVE FALSE
    BY <2>2 DEF TrimReads
  <2> QED
    BY <1>14, <2>1, <2>2 DEF TrimFails
<1> QED
  BY <1>9, <1>11, <1>12, <1>13, <1>14, RetentionStep

\* The cap of a log is honoured within trimEvery entries of itself, or of what
\* its last trim had to leave because it is saved, while nothing else is counted
\* and no count is used up without a trim (trimEvery, maybeTrim).
THEOREM CapHolds == Spec => []CapIsKept
<1>1. Init => Measured
  <2> SUFFICES ASSUME Init PROVE Measured
    OBVIOUS
  <2>1. TrimIsCounted /\ CountIsDue
    BY DEF Init, TrimIsCounted, CountIsDue
  <2>2. ASSUME NEW p \in Projects PROVE Grows(p)
    <3>1. Logged(p) = {} /\ Pending(p) = {} /\ writes = 0 /\ kept[p] = 0
      BY EmptyBucket DEF Init, Logged, Pending, Waiting
    <3>2. Cardinality({}) = 0
      BY FS_EmptySet
    <3>3. Cap[p] \in Nat /\ Max({Cap[p], 0}) \in Nat
      BY CapAssumption, MaxOfTwo
    <3> QED
      BY <3>1, <3>2, <3>3 DEF Grows
  <2> QED
    BY <2>1, <2>2 DEF Measured
<1>2. TypeOK /\ Measured /\ [Next]_vars => Measured'
  BY TrimIsCountedStep, CountIsDueStep, GrowsStep DEF Measured
<1>3. TypeOK /\ Measured => CapIsKept
  <2> SUFFICES ASSUME TypeOK, Measured, NEW p \in Projects,
                      NothingDue, Cap[p] > 0, counted = {p}, ~spilt
               PROVE  Cardinality(Logged(p)) < Max({Cap[p], kept[p]}) + Every
    BY DEF CapIsKept
  <2>1. Pending(p) = {}
    BY DEF NothingDue, Pending
  <2>2. Cardinality(Pending(p)) = 0
    BY <2>1, FS_EmptySet
  <2>3. writes < Every
    BY DEF NothingDue, Measured, CountIsDue
  <2>4. Cardinality(Logged(p)) <= Max({Cap[p], kept[p]}) + writes + 0
    BY <2>2 DEF NothingDue, Measured, Grows
  <2>5. Max({Cap[p], kept[p]}) \in Nat /\ writes \in Nat
    BY CapAssumption, MaxOfTwo DEF TypeOK
  <2>6. Cardinality(Logged(p)) \in Nat
    BY Bucket, IdsAreFinite DEF TypeOK, Logged
  <2> QED
    BY <2>3, <2>4, <2>5, <2>6
<1> QED
  BY <1>1, <1>2, <1>3, TypeCorrect, PTL DEF Spec
=============================================================================
