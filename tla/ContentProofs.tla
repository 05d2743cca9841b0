--------------------------- MODULE ContentProofs ---------------------------
(***************************************************************************)
(* What the program makes of what it reads, for contents of any size: how  *)
(* the request log is read, in pages and in walks, what the file it is     *)
(* exported to brings back, which messages the frames of a WebSocket are,  *)
(* and what the rules of a project make of a request and its response.     *)
(* They share nothing: each has its own specification and its own          *)
(* assumption.                                                             *)
(***************************************************************************)
EXTENDS FiniteSetTheorems, SequenceTheorems, WellFoundedInduction, TLAPS

CONSTANTS
    None,
    LastId, LastKey, Limit, ScanBatch, EachPage, Chunk, MaxScore, Gone,
    LogEntries, Length, Addresses,
    Sent, Keep, MaxFrames,
    RuleLists, Requests, Responses, MaxSaves, bad

VARIABLES
    log, messages, reader, constant,
    source, harFile, harImport, imported, told,
    frames, asm, copying, announced,
    rules, saves, moment, stage, matched, left, req, reply, given, res

INSTANCE LogReads
INSTANCE HarFile
INSTANCE Frames WITH out <- announced
INSTANCE Rules WITH was <- moment, at <- stage, answer <- reply

-----------------------------------------------------------------------------
(* Numbers and listings.                                                   *)

\* Numbers have a least one.
LEMMA LeastOf ==
    ASSUME NEW S \in SUBSET Nat, S # {}
    PROVE  \E x \in S : \A y \in S : x <= y
<1> DEFINE Below(x) == {y \in Nat : y < x}
           T == {Below(x) : x \in S}
<1>1. \A x \in S : Below(x) \in FiniteSubsetsOf(Nat)
  <2> TAKE x \in S
  <2>1. Below(x) = 0 .. (x - 1)
    OBVIOUS
  <2>2. IsFiniteSet(0 .. (x - 1))
    BY FS_Interval
  <2> QED
    BY <2>1, <2>2 DEF FiniteSubsetsOf
<1>2. PICK X \in T : \A Y \in T : <<Y, X>> \notin StrictSubsetOrdering(Nat)
  <2>1. T # {} /\ T \subseteq FiniteSubsetsOf(Nat)
    BY <1>1
  <2>2. IsWellFoundedOn(StrictSubsetOrdering(Nat), FiniteSubsetsOf(Nat))
    BY FS_StrictSubsetOrderingWellFounded
  <2> HIDE DEF T
  <2> QED
    BY <2>1, <2>2, WFMin
<1>3. PICK x \in S : X = Below(x)
  OBVIOUS
<1>4. ASSUME NEW y \in S, y < x PROVE FALSE
  <2>1. Below(y) \in T /\ Below(y) \subseteq Below(x) /\ Below(y) # Below(x)
    BY <1>4
  <2> QED
    BY <1>1, <1>2, <1>3, <2>1 DEF StrictSubsetOrdering, FiniteSubsetsOf
<1> QED
  BY <1>4

\* Some numbers have a greatest one.
LEMMA MaxOfSome ==
    ASSUME NEW S \in SUBSET Nat, IsFiniteSet(S), S # {}
    PROVE  Max(S) \in S /\ \A x \in S : x <= Max(S)
<1>1. PICK m \in Nat : \A x \in S : x <= m
  <2> DEFINE T == {n \in Nat : \E Q \in SUBSET Nat : /\ IsFiniteSet(Q) /\ Cardinality(Q) = n
                                                  /\ \A m \in Nat : \E x \in Q : ~(x <= m)}
  <2>1. CASE T = {}
    <3>1. Cardinality(S) \in Nat
      BY FS_CardinalityType
    <3> QED
      BY <2>1, <3>1
  <2>2. CASE T # {}
    <3>1. PICK n \in T : \A k \in T : n <= k
      BY <2>2, LeastOf
    <3>2. PICK Q \in SUBSET Nat : /\ IsFiniteSet(Q) /\ Cardinality(Q) = n
                                 /\ \A m \in Nat : \E x \in Q : ~(x <= m)
      BY <3>1
    <3>3. PICK x \in Q : ~(x <= 0)
      BY <3>2
    <3>4. IsFiniteSet(Q \ {x}) /\ Cardinality(Q \ {x}) = n - 1 /\ n \in Nat /\ n - 1 \in Nat
      <4>1. IsFiniteSet(Q \ {x}) /\ Cardinality(Q \ {x}) = n - 1
        BY <3>2, FS_RemoveElement
      <4>2. Cardinality(Q \ {x}) \in Nat
        BY <4>1, FS_CardinalityType
      <4> QED
        BY <3>1, <4>1, <4>2
    <3>5. n - 1 \notin T
      BY <3>1, <3>4
    <3>6. PICK m \in Nat : \A y \in Q \ {x} : y <= m
      BY <3>2, <3>4, <3>5
    <3>7. CASE x <= m
      BY <3>2, <3>6, <3>7
    <3>8. CASE ~(x <= m)
      <4>1. \A y \in Q : y <= x
        BY <3>6, <3>8
      <4> QED
        BY <3>2, <4>1
    <3> QED
      BY <3>7, <3>8
  <2> QED
    BY <2>1, <2>2
<1> DEFINE D == {m - x : x \in S}
<1>2. D \in SUBSET Nat /\ D # {}
  <2>1. ASSUME NEW x \in S PROVE m - x \in Nat
    <3>1. x \in Nat /\ x <= m
      BY <1>1
    <3> QED
      BY <3>1
  <2> QED
    BY <2>1
<1>3. PICK d \in D : \A e \in D : d <= e
  BY <1>2, LeastOf
<1>4. PICK x \in S : d = m - x
  BY <1>3
<1>5. \A y \in S : y <= x
  <2> TAKE y \in S
  <2>1. m - y \in D /\ m - x <= m - y
    BY <1>3, <1>4
  <2> QED
    BY <2>1
<1>6. \E z \in S : \A y \in S : z >= y
  BY <1>5
<1> QED
  BY <1>6 DEF Max

\* They can be put in order.
Sorts(s, S) ==
    /\ s \in [1 .. Cardinality(S) -> S]
    /\ \A i, j \in 1 .. Cardinality(S) : i < j => s[i] < s[j]

\* Every finite set of numbers has an order.
LEMMA SortedExists ==
    ASSUME NEW S \in SUBSET Nat, IsFiniteSet(S)
    PROVE  \E s : Sorts(s, S)
<1> DEFINE T == {n \in Nat : \E Q \in SUBSET Nat : /\ IsFiniteSet(Q) /\ Cardinality(Q) = n
                                                /\ ~ \E s : Sorts(s, Q)}
<1>1. CASE T = {}
  <2>1. Cardinality(S) \in Nat
    BY FS_CardinalityType
  <2> QED
    BY <1>1, <2>1
<1>2. CASE T # {}
  <2>1. PICK n \in T : \A k \in T : n <= k
    BY <1>2, LeastOf
  <2>2. PICK Q \in SUBSET Nat : /\ IsFiniteSet(Q) /\ Cardinality(Q) = n
                               /\ ~ \E s : Sorts(s, Q)
    BY <2>1
  <2>3. Q # {}
    <3>1. ASSUME Q = {} PROVE FALSE
      <4>1. Cardinality(Q) = 0
        BY <3>1, FS_EmptySet
      <4>2. [i \in 1 .. 0 |-> 0] \in [1 .. 0 -> Q]
        OBVIOUS
      <4>3. Sorts([i \in 1 .. 0 |-> 0], Q)
        BY <4>1, <4>2 DEF Sorts
      <4> QED
        BY <2>2, <4>3
    <3> QED
      BY <3>1
  <2> DEFINE m == Max(Q)
             P == Q \ {m}
  <2>4. m \in Q /\ \A x \in Q : x <= m
    BY <2>2, <2>3, MaxOfSome
  <2>5. IsFiniteSet(P) /\ Cardinality(P) = n - 1 /\ n \in Nat /\ n - 1 \in Nat
    <3>1. IsFiniteSet(P) /\ Cardinality(P) = n - 1
      BY <2>2, <2>4, FS_RemoveElement
    <3>2. Cardinality(P) \in Nat
      BY <3>1, FS_CardinalityType
    <3> QED
      BY <2>1, <3>1, <3>2
  <2>6. PICK s : Sorts(s, P)
    <3>1. n - 1 \notin T
      BY <2>1, <2>5
    <3> QED
      BY <2>2, <2>5, <3>1
  <2> DEFINE t == [i \in 1 .. n |-> IF i = n THEN m ELSE s[i]]
  <2>7. Sorts(t, Q)
    <3>1. \A i \in 1 .. n - 1 : s[i] \in P
      BY <2>5, <2>6 DEF Sorts
    <3>2. \A i \in 1 .. n : i = n \/ i \in 1 .. n - 1
      BY <2>5
    <3>3. \A i \in 1 .. n - 1 : s[i] < m
      <4> TAKE i \in 1 .. n - 1
      <4>1. s[i] \in Q /\ s[i] # m
        BY <3>1
      <4> HIDE DEF m
      <4>2. s[i] \in Nat /\ m \in Nat /\ s[i] <= m
        BY <2>4, <4>1
      <4> QED
        BY <4>1, <4>2
    <3>4. t \in [1 .. n -> Q]
      BY <2>4, <3>1, <3>2
    <3>5. ASSUME NEW i \in 1 .. n, NEW j \in 1 .. n, i < j PROVE t[i] < t[j]
      <4>1. i \in 1 .. n - 1 /\ t[i] = s[i]
        BY <2>5, <3>5
      <4>2. CASE j = n
        BY <3>3, <4>1, <4>2
      <4>3. CASE j # n
        <5>1. j \in 1 .. n - 1 /\ t[j] = s[j]
          BY <2>5, <4>3
        <5>2. s[i] < s[j]
          BY <2>5, <2>6, <3>5, <4>1, <5>1 DEF Sorts
        <5> QED
          BY <4>1, <5>1, <5>2
      <4> QED
        BY <4>2, <4>3
    <3> HIDE DEF t
    <3> QED
      BY <2>2, <3>4, <3>5 DEF Sorts
  <2> QED
    BY <2>2, <2>7
<1> QED
  BY <1>1, <1>2

\* InOrder puts each of them in its place.
LEMMA Ordering ==
    ASSUME NEW S \in SUBSET Nat, IsFiniteSet(S)
    PROVE  /\ InOrder(S) \in Seq(S) /\ Len(InOrder(S)) = Cardinality(S)
           /\ Len(InOrder(S)) \in Nat
           /\ \A i, j \in 1 .. Len(InOrder(S)) : i < j => InOrder(S)[i] < InOrder(S)[j]
           /\ Range(InOrder(S)) = S
<1> DEFINE n == Cardinality(S)
           s == InOrder(S)
<1>1. n \in Nat
  BY FS_CardinalityType
<1>2. Sorts(s, S)
  BY SortedExists DEF Sorts, InOrder
<1> HIDE DEF s
<1>3. s \in [1 .. n -> S]
  BY <1>2 DEF Sorts
<1>4. s \in Seq(S) /\ Len(s) = n
  BY <1>1, <1>3, IsASeq
<1>5. ASSUME NEW i \in 1 .. n, NEW j \in 1 .. n, i < j PROVE s[i] < s[j]
  BY <1>2, <1>5 DEF Sorts
<1>6. ASSUME NEW i \in 1 .. n, NEW j \in 1 .. n, i # j PROVE s[i] # s[j]
  <2>1. s[i] \in Nat /\ s[j] \in Nat
    BY <1>3
  <2>2. i < j \/ j < i
    BY <1>6
  <2> QED
    BY <1>5, <2>1, <2>2
<1>7. s \in Injection(1 .. n, S)
  BY <1>3, <1>6 DEF Injection, IsInjective
<1>8. Cardinality(1 .. n) = n
  BY <1>1, FS_Interval
<1>9. s \in Surjection(1 .. n, S)
  BY <1>7, <1>8, FS_Injection
<1>10. Range(s) = S
  BY <1>3, <1>9 DEF Surjection, Range
<1> QED
  BY <1>1, <1>4, <1>5, <1>10 DEF s

\* The orders the operations read in: a list and the messages before a number go
\* down, and 0 is their beginning; the others go up.
MessageOps == {"messagesAfter", "messagesBefore"}
Downwards == {"list", "messagesBefore"}

\* x lies ahead of where the operation is.
Ahead(op, at, x) == IF op \in Downwards THEN at = 0 \/ x < at ELSE at < x

InOrderOf(op, q) == \A i, j \in 1 .. Len(q) : i < j => Ahead(op, q[i], q[j])

\* q lists the keys of S in the order of op.
Lists(op, q, S) == q \in Seq(S) /\ Range(q) = S /\ InOrderOf(op, q)

\* What is ahead of a key that is ahead is ahead.
LEMMA AheadIsTransitive ==
    ASSUME NEW op, NEW x \in Nat, NEW y \in Nat \ {0}, NEW z \in Nat,
           Ahead(op, x, y), Ahead(op, y, z)
    PROVE  Ahead(op, x, z)
BY DEF Ahead

\* A key is ahead of one that is read, or it is that one or behind it.
LEMMA AheadOrBehind ==
    ASSUME NEW op, NEW x \in Nat \ {0}, NEW y \in Nat \ {0}
    PROVE  /\ ~Ahead(op, x, x)
           /\ x # y => (Ahead(op, x, y) <=> ~Ahead(op, y, x))
BY DEF Ahead

\* In the order of an operation that goes up.
LEMMA UpLists ==
    ASSUME NEW S \in SUBSET (Nat \ {0}), IsFiniteSet(S), NEW op, op \notin Downwards
    PROVE  Lists(op, InOrder(S), S)
BY Ordering DEF Lists, InOrderOf, Ahead

\* Reversed, it goes down.
LEMMA DownLists ==
    ASSUME NEW S \in SUBSET (Nat \ {0}), IsFiniteSet(S), NEW op, op \in Downwards
    PROVE  Lists(op, Reverse(InOrder(S)), S)
<1> DEFINE q == InOrder(S)
           r == Reverse(q)
           n == Len(q)
<1>1. /\ q \in Seq(S) /\ n \in Nat /\ Range(q) = S
      /\ \A i, j \in 1 .. n : i < j => q[i] < q[j]
  BY Ordering
<1> HIDE DEF q
<1>2. /\ r \in [1 .. n -> S]
      /\ \A i \in 1 .. n : n - i + 1 \in 1 .. n /\ r[i] = q[n - i + 1]
  <2>1. \A i \in 1 .. n : q[i] \in S
    BY <1>1, ElementOfSeq
  <2>2. \A i \in 1 .. n : n - i + 1 \in 1 .. n
    BY <1>1
  <2> QED
    BY <2>1, <2>2 DEF Reverse
<1>3. r \in Seq(S) /\ Len(r) = n
  BY <1>1, <1>2, IsASeq
<1>4. Range(r) = S
  <2>1. Range(r) \subseteq S
    BY <1>2 DEF Range
  <2>2. ASSUME NEW x \in S PROVE x \in Range(r)
    <3>1. PICK i \in DOMAIN q : q[i] = x
      BY <1>1 DEF Range
    <3>2. i \in 1 .. n
      BY <1>1, <3>1, LenProperties
    <3>3. n - i + 1 \in 1 .. n /\ n - (n - i + 1) + 1 = i
      BY <1>1, <3>2
    <3>4. r[n - i + 1] = x
      BY <1>2, <3>1, <3>3
    <3> QED
      BY <1>2, <3>3, <3>4 DEF Range
  <2> QED
    BY <2>1, <2>2
<1> HIDE DEF r
<1>5. ASSUME NEW i \in 1 .. n, NEW j \in 1 .. n, i < j PROVE r[j] < r[i]
  <2>1. n - j + 1 \in 1 .. n /\ n - i + 1 \in 1 .. n /\ n - j + 1 < n - i + 1
    BY <1>1, <1>5
  <2> QED
    BY <1>1, <1>2, <2>1
<1>6. InOrderOf(op, r)
  BY <1>3, <1>5 DEF InOrderOf, Ahead
<1> QED
  BY <1>3, <1>4, <1>6 DEF Lists, r, q

\* The keys of S among the first n of q.
AmongFirst(S, q, n) == {x \in S : \E i \in 1 .. n : x = q[i]}

\* The first n of a listing: what is not among them is ahead of the last.
LEMMA FirstOfListing ==
    ASSUME NEW op, NEW S \in SUBSET (Nat \ {0}), NEW q, Lists(op, q, S),
           NEW n \in 0 .. Len(q)
    PROVE  /\ SubSeq(q, 1, n) \in Seq(S) /\ Len(SubSeq(q, 1, n)) = n
           /\ InOrderOf(op, SubSeq(q, 1, n))
           /\ \A i \in 1 .. n : SubSeq(q, 1, n)[i] = q[i]
           /\ n > 0 => /\ q[n] \in S
                      /\ \A i \in 1 .. n : ~Ahead(op, q[n], q[i])
<1> DEFINE p == SubSeq(q, 1, n)
<1>1. /\ q \in Seq(S) /\ Range(q) = S /\ Len(q) \in Nat /\ n \in Nat /\ n <= Len(q)
      /\ \A i, j \in 1 .. Len(q) : i < j => Ahead(op, q[i], q[j])
      /\ \A i \in 1 .. Len(q) : q[i] \in S
  BY LenProperties, ElementOfSeq DEF Lists, InOrderOf
<1>2. p \in Seq(S) /\ Len(p) = n /\ \A i \in 1 .. n : p[i] = q[i]
  BY <1>1, SubSeqProperties
<1> HIDE DEF p
<1>3. InOrderOf(op, p)
  <2> SUFFICES ASSUME NEW i \in 1 .. n, NEW j \in 1 .. n, i < j PROVE Ahead(op, p[i], p[j])
    BY <1>2 DEF InOrderOf
  <2>1. i \in 1 .. Len(q) /\ j \in 1 .. Len(q)
    BY <1>1
  <2> QED
    BY <1>1, <1>2, <2>1
<1>4. ASSUME n > 0 PROVE q[n] \in S /\ \A i \in 1 .. n : ~Ahead(op, q[n], q[i])
  <2>1. n \in 1 .. Len(q) /\ q[n] \in S
    BY <1>1, <1>4
  <2> SUFFICES ASSUME NEW i \in 1 .. n PROVE ~Ahead(op, q[n], q[i])
    BY <2>1
  <2>2. i \in 1 .. Len(q) /\ q[i] \in S
    BY <1>1
  <2>3. CASE i = n
    BY <2>1, <2>3, AheadOrBehind
  <2>4. CASE i # n
    <3>1. Ahead(op, q[i], q[n])
      BY <1>1, <2>1, <2>2, <2>4
    <3>2. q[i] # q[n]
      BY <2>2, <3>1, AheadOrBehind
    <3> QED
      BY <2>1, <2>2, <3>1, <3>2, AheadOrBehind
  <2> QED
    BY <2>3, <2>4
<1> QED
  BY <1>2, <1>3, <1>4 DEF p

\* What is not among the first n of a listing is ahead of them.
LEMMA RestOfListing ==
    ASSUME NEW op, NEW S \in SUBSET (Nat \ {0}), NEW q, Lists(op, q, S),
           NEW n \in 0 .. Len(q), NEW x \in S, \A i \in 1 .. n : x # q[i]
    PROVE  n < Len(q) /\ (n > 0 => Ahead(op, q[n], x))
<1>1. /\ q \in Seq(S) /\ Range(q) = S /\ Len(q) \in Nat /\ n \in Nat /\ n <= Len(q)
      /\ \A i, j \in 1 .. Len(q) : i < j => Ahead(op, q[i], q[j])
  BY LenProperties DEF Lists, InOrderOf
<1>2. PICK j \in 1 .. Len(q) : x = q[j]
  BY <1>1, LenProperties DEF Range
<1>3. j > n /\ n < Len(q)
  <2>1. j \notin 1 .. n
    BY <1>2
  <2> QED
    BY <1>1, <2>1
<1>4. ASSUME n > 0 PROVE Ahead(op, q[n], x)
  <2>1. n \in 1 .. Len(q) /\ n < j
    BY <1>1, <1>3, <1>4
  <2> QED
    BY <1>1, <1>2, <2>1
<1> QED
  BY <1>3, <1>4

\* A cursor finds the keys from a number on, and the ones below it.
LEMMA Seeking ==
    ASSUME ReadsAssumption, NEW S \in SUBSET (1 .. LastId + LastKey), NEW k \in Nat
    PROVE  /\ Seek(S, k) \in Nat /\ \A x \in S : x >= Seek(S, k) <=> x >= k
           /\ k \in S => Seek(S, k) = k
<1> DEFINE T == {x \in S : x >= k} \cup {Beyond}
<1>1. LastId \in Nat /\ LastKey \in Nat /\ Beyond = LastId + LastKey + 1 /\ Beyond \in Nat
  BY DEF ReadsAssumption, Beyond
<1>2. T \in SUBSET Nat /\ T # {}
  <2>1. ASSUME NEW x \in S PROVE x \in Nat
    BY <1>1
  <2> QED
    BY <1>1, <2>1
<1>3. PICK m \in T : \A y \in T : m <= y
  BY <1>2, LeastOf
<1>4. Min(T) \in T /\ \A y \in T : Min(T) <= y
  BY <1>3 DEF Min
<1> DEFINE s == Min(T)
<1>5. Seek(S, k) = s
  BY DEF Seek
<1> HIDE DEF s
<1>6. s \in T /\ \A y \in T : s <= y
  BY <1>4 DEF s
<1>7. \A x \in S : x \in Nat /\ x < Beyond
  BY <1>1
<1>8. s = Beyond \/ s >= k
  BY <1>6
<1>9. ASSUME NEW x \in S PROVE x >= s <=> x >= k
  BY <1>1, <1>2, <1>6, <1>7, <1>8, <1>9
<1>10. ASSUME k \in S PROVE s = k
  <2>1. k \in T /\ s <= k /\ k < Beyond /\ s \in Nat
    BY <1>2, <1>6, <1>7, <1>10
  <2> HIDE DEF T
  <2> QED
    BY <1>1, <1>8, <2>1
<1> QED
  BY <1>2, <1>5, <1>6, <1>9, <1>10

\* Prev finds the last key below a number.
LEMMA Below ==
    ASSUME ReadsAssumption, NEW S \in SUBSET (1 .. LastId + LastKey), NEW k \in Nat
    PROVE  /\ Prev(S, k) \in S \cup {0} /\ Prev(S, k) \in Nat
           /\ Prev(S, k) # 0 => Prev(S, k) < k
           /\ \A x \in S : x <= Prev(S, k) <=> x < k
<1> DEFINE T == {x \in S : x < k} \cup {0}
           p == Max(T)
<1>1. LastId + LastKey \in Nat
  BY DEF ReadsAssumption
<1>2. T \in SUBSET Nat /\ T # {}
  <2>1. ASSUME NEW x \in S PROVE x \in Nat
    BY <1>1
  <2>2. \A x \in T : x \in Nat
    BY <2>1
  <2>3. 0 \in T
    OBVIOUS
  <2> HIDE DEF T
  <2> QED
    BY <2>2, <2>3
<1>3. IsFiniteSet(T)
  <2>1. \A x \in T : x <= LastId + LastKey
    BY <1>1
  <2> QED
    BY <1>1, <1>2, <2>1, FS_BoundedSetOfNaturals
<1>4. Prev(S, k) = p
  BY DEF Prev
<1> HIDE DEF p
<1>5. p \in T /\ \A x \in T : x <= p
  BY <1>2, <1>3, MaxOfSome DEF p
<1>6. ASSUME NEW x \in S PROVE x <= p <=> x < k
  <2>1. x \in Nat /\ p \in Nat /\ (p = 0 \/ p < k) /\ x # 0
    BY <1>1, <1>5
  <2>2. x < k => x <= p
    BY <1>5
  <2> QED
    BY <2>1, <2>2
<1> QED
  BY <1>2, <1>4, <1>5, <1>6

\* Where the rows of an operation are.
Where(op) == IF op \in MessageOps THEN Own ELSE Keys

\* Rows are at numbers behind 0, and finitely many.
LEMMA WhereIs ==
    ASSUME ReadsAssumption, NEW op
    PROVE  /\ Where(op) \in SUBSET (1 .. LastId + LastKey)
           /\ Where(op) \in SUBSET (Nat \ {0})
           /\ IsFiniteSet(1 .. LastId + LastKey)
           /\ \A S : S \subseteq 1 .. LastId + LastKey => IsFiniteSet(S)
<1>1. LastId \in Nat /\ LastKey \in Nat
  BY DEF ReadsAssumption
<1>2. IsFiniteSet(1 .. LastId + LastKey)
  BY <1>1, FS_Interval
<1> QED
  BY <1>1, <1>2, FS_Subset DEF Where, Own, Keys

\* An answer serves: its rows are ahead of the last answer, and what stands and
\* is ahead of it is among them or ahead of this one, which says there is more.
Serves(op, at, S, rows, more, next) ==
    /\ rows \in Seq(Where(op))
    /\ InOrderOf(op, rows)
    /\ \A i \in 1 .. Len(rows) : Ahead(op, at, rows[i]) /\ ~Ahead(op, next, rows[i])
    /\ next = at \/ (next \in Where(op) /\ Ahead(op, at, next))
    /\ \A k \in S : Ahead(op, at, k) =>
          (\E i \in 1 .. Len(rows) : rows[i] = k) \/ (more /\ Ahead(op, next, k))

\* A page is made of the first n keys q of those T that are ahead: its rows are
\* the ones of F among them, and the last one it goes on from is one of the n.
PageOf(op, at, T, q, n, F, rows, more, next) ==
    /\ T \in SUBSET Where(op) /\ \A x \in T : Ahead(op, at, x)
    /\ Lists(op, q, T) /\ n \in 0 .. Len(q)
    /\ F \in SUBSET T
    /\ Lists(op, rows, AmongFirst(F, q, n))
    /\ n < Len(q) => more
    /\ \/ next = at /\ rows = <<>>
       \/ \E i \in 1 .. n : next = q[i] /\ \A j \in 1 .. Len(rows) : ~Ahead(op, next, rows[j])

\* Such a page serves.
LEMMA PageServes ==
    ASSUME NEW op, NEW at \in Nat, Where(op) \subseteq Nat \ {0},
           NEW T, NEW q, NEW n, NEW F, NEW rows, NEW more, NEW next,
           PageOf(op, at, T, q, n, F, rows, more, next),
           NEW S, \A x \in S : Ahead(op, at, x) => x \in F
    PROVE  Serves(op, at, S, rows, more, next)
<1>0. /\ T \in SUBSET Where(op) /\ \A x \in T : Ahead(op, at, x)
      /\ Lists(op, q, T) /\ n \in 0 .. Len(q)
      /\ F \in SUBSET T
      /\ Lists(op, rows, AmongFirst(F, q, n))
      /\ n < Len(q) => more
      /\ \/ next = at /\ rows = <<>>
         \/ \E i \in 1 .. n : next = q[i] /\ \A j \in 1 .. Len(rows) : ~Ahead(op, next, rows[j])
  BY DEF PageOf
<1> USE <1>0 DEF AmongFirst
<1> DEFINE P == {x \in F : \E i \in 1 .. n : x = q[i]}
<1>1. rows \in Seq(P) /\ Range(rows) = P /\ InOrderOf(op, rows) /\ Len(rows) \in Nat
      /\ \A i \in 1 .. Len(rows) : rows[i] \in P
  BY LenProperties, ElementOfSeq DEF Lists
<1>2. rows \in Seq(Where(op))
  BY <1>1, SeqMonotonic
<1>3. /\ q \in Seq(T) /\ Len(q) \in Nat /\ \A i \in 1 .. Len(q) : q[i] \in T
      /\ n \in Nat /\ n <= Len(q)
  BY LenProperties, ElementOfSeq DEF Lists
<1>4. \A i \in 1 .. n : q[i] \in T /\ q[i] \in Where(op)
  BY <1>3
<1>5. \A i \in 1 .. Len(rows) : Ahead(op, at, rows[i]) /\ ~Ahead(op, next, rows[i])
  <2>1. \A i \in 1 .. Len(rows) : Ahead(op, at, rows[i])
    BY <1>1
  <2>2. CASE rows = <<>>
    BY <2>2
  <2> QED
    BY <2>1, <2>2
<1>6. next = at \/ (next \in Where(op) /\ Ahead(op, at, next))
  BY <1>4
<1>7. ASSUME NEW k \in S, Ahead(op, at, k), ~ \E i \in 1 .. Len(rows) : rows[i] = k
      PROVE  more /\ Ahead(op, next, k)
  <2>1. k \in F /\ k \in T /\ k \in Nat \ {0}
    BY <1>7
  <2>2. k \notin P
    BY <1>1, <1>7, LenProperties DEF Range
  <2>3. \A i \in 1 .. n : k # q[i]
    BY <2>1, <2>2
  <2>4. n < Len(q) /\ (n > 0 => Ahead(op, q[n], k))
    <3>1. T \in SUBSET (Nat \ {0}) /\ Lists(op, q, T) /\ n \in 0 .. Len(q)
      OBVIOUS
    <3> QED
      BY ONLY <2>1, <2>3, <3>1, RestOfListing
  <2>5. CASE next = at
    BY <1>7, <2>4, <2>5
  <2>6. ASSUME NEW i \in 1 .. n, next = q[i] PROVE Ahead(op, next, k)
    <3>1. n > 0
      BY <1>3
    <3>2. q[n] \in T /\ ~Ahead(op, q[n], q[i])
      <4>1. T \in SUBSET (Nat \ {0}) /\ Lists(op, q, T) /\ n \in 0 .. Len(q)
        OBVIOUS
      <4> QED
        BY ONLY <2>6, <3>1, <4>1, FirstOfListing
    <3>3. q[n] \in Nat \ {0} /\ next \in Nat \ {0} /\ ~Ahead(op, q[n], next) /\ Ahead(op, q[n], k)
      BY <1>4, <2>4, <2>6, <3>1, <3>2
    <3> QED
      BY <2>1, <3>3 DEF Ahead
  <2> QED
    BY <2>4, <2>5, <2>6
<1> QED
  BY <1>1, <1>2, <1>5, <1>6, <1>7 DEF Serves

\* The last of a listing is behind none of it.
LEMMA LastOfListing ==
    ASSUME NEW op, NEW S \in SUBSET (Nat \ {0}), NEW q, Lists(op, q, S), q # <<>>
    PROVE  /\ Len(q) \in 1 .. Len(q) /\ q[Len(q)] \in S
           /\ \A i \in 1 .. Len(q) : ~Ahead(op, q[Len(q)], q[i])
<1> DEFINE n == Len(q)
<1>1. /\ q \in Seq(S) /\ n \in Nat /\ InOrderOf(op, q)
      /\ \A i \in 1 .. n : q[i] \in S
  BY LenProperties, ElementOfSeq DEF Lists
<1>2. n \in 1 .. n /\ q[n] \in S
  <2>1. n # 0
    BY <1>1, EmptySeq
  <2> QED
    BY <1>1, <2>1
<1>3. ASSUME NEW i \in 1 .. n PROVE ~Ahead(op, q[n], q[i])
  <2>1. q[i] \in Nat \ {0} /\ q[n] \in Nat \ {0}
    BY <1>1, <1>2
  <2>2. CASE i = n
    BY <2>1, <2>2, AheadOrBehind
  <2>3. CASE i # n
    <3>1. Ahead(op, q[i], q[n])
      <4>1. i < n
        BY <1>1, <2>3
      <4> QED
        BY <1>1, <1>2, <4>1 DEF InOrderOf
    <3>2. q[i] # q[n]
      BY <2>1, <3>1, AheadOrBehind
    <3> QED
      BY <2>1, <3>1, <3>2, AheadOrBehind
  <2> QED
    BY <2>2, <2>3
<1> QED
  BY <1>2, <1>3

\* Nothing is listed of nothing.
LEMMA NothingListed ==
    ASSUME NEW op PROVE Lists(op, <<>>, {})
BY DEF Lists, InOrderOf, Range

\* The smaller of two numbers.
LEMMA SmallerOfTwo ==
    ASSUME NEW x \in Nat, NEW y \in Nat
    PROVE  /\ Min({x, y}) \in {x, y} /\ Min({x, y}) \in Nat
           /\ Min({x, y}) <= x /\ Min({x, y}) <= y
<1>1. \E a \in {x, y} : \A b \in {x, y} : a <= b
  <2>1. CASE x <= y
    BY <2>1
  <2>2. CASE ~(x <= y)
    BY <2>2
  <2> QED
    BY <2>1, <2>2
<1>2. /\ Min({x, y}) \in {x, y} /\ \A b \in {x, y} : Min({x, y}) <= b
  BY <1>1 DEF Min
<1> QED
  BY <1>2

\* The keys of a page.
LEMMA KeysBelow ==
    ASSUME ReadsAssumption, NEW S \in SUBSET (1 .. LastId + LastKey), NEW k \in Nat,
           NEW op, op \in Downwards
    PROVE  Lists(op, DownFrom(S, k), {x \in S : x <= k})
<1>1. {x \in S : x <= k} \in SUBSET (Nat \ {0}) /\ IsFiniteSet({x \in S : x <= k})
  <2>1. LastId + LastKey \in Nat
    BY DEF ReadsAssumption
  <2>2. {x \in S : x <= k} \subseteq 1 .. LastId + LastKey
    OBVIOUS
  <2> QED
    BY <2>1, <2>2, WhereIs
<1> QED
  BY <1>1, DownLists DEF DownFrom

\* UpFrom lists the keys from a number on.
LEMMA KeysFrom ==
    ASSUME ReadsAssumption, NEW S \in SUBSET (1 .. LastId + LastKey), NEW k \in Nat,
           NEW op, op \notin Downwards
    PROVE  Lists(op, UpFrom(S, k), {x \in S : x >= k})
<1>1. {x \in S : x >= k} \in SUBSET (Nat \ {0}) /\ IsFiniteSet({x \in S : x >= k})
  <2>1. LastId + LastKey \in Nat
    BY DEF ReadsAssumption
  <2>2. {x \in S : x >= k} \subseteq 1 .. LastId + LastKey
    OBVIOUS
  <2> QED
    BY <2>1, <2>2, WhereIs
<1> QED
  BY <1>1, UpLists DEF UpFrom

\* The first keys of a listing, for as many as a page may have.
FirstOf(q, most) == SubSeq(q, 1, Min({most, Len(q)}))

StartsWith(q, rows, most) ==
    /\ Len(rows) \in 0 .. Len(q)
    /\ Len(rows) < Len(q) => Len(rows) = most /\ Len(q) > most
    /\ \A i \in 1 .. Len(rows) : rows[i] = q[i]

\* The first keys of a listing list what is among its first.
LEMMA FirstKeys ==
    ASSUME NEW op, NEW S \in SUBSET (Nat \ {0}), NEW q, Lists(op, q, S),
           NEW most \in Nat
    PROVE  /\ StartsWith(q, FirstOf(q, most), most)
           /\ Lists(op, FirstOf(q, most), AmongFirst(S, q, Len(FirstOf(q, most))))
<1> DEFINE n == Min({most, Len(q)})
           rows == FirstOf(q, most)
           P == {x \in S : \E i \in 1 .. n : x = q[i]}
<1>1. q \in Seq(S) /\ Len(q) \in Nat
  BY LenProperties DEF Lists
<1>2. n \in 0 .. Len(q) /\ (n < Len(q) => n = most /\ Len(q) > most)
  BY <1>1, SmallerOfTwo
<1>3. rows = SubSeq(q, 1, n)
  BY DEF FirstOf
<1> HIDE DEF n, rows
<1>4. rows \in Seq(S) /\ Len(rows) = n /\ InOrderOf(op, rows) /\ \A i \in 1 .. n : rows[i] = q[i]
  BY <1>2, <1>3, FirstOfListing
<1>5. DOMAIN rows = 1 .. n
  BY <1>4, LenProperties
<1>6. \A i \in 1 .. n : rows[i] \in S /\ rows[i] = q[i]
  BY <1>4, ElementOfSeq
<1>7. Range(rows) = P
  BY <1>5, <1>6 DEF Range
<1>8. rows \in Seq(P)
  <2>1. \A i \in 1 .. n : rows[i] \in P
    BY <1>6
  <2>2. n \in Nat
    BY <1>1, <1>2
  <2>3. rows \in [1 .. n -> S] /\ rows = [i \in 1 .. n |-> rows[i]]
    BY <1>4, <1>5, LenProperties
  <2> HIDE DEF P
  <2>4. rows \in [1 .. n -> P]
    BY <2>1, <2>3
  <2> QED
    BY ONLY <2>2, <2>4, IsASeq
<1>9. Lists(op, rows, P)
  BY <1>4, <1>7, <1>8 DEF Lists
<1> QED
  BY <1>2, <1>4, <1>9 DEF rows, AmongFirst, StartsWith

\* What an answer goes on from.
NextOf(at, rows) == IF rows = <<>> THEN at ELSE rows[Len(rows)]

\* A page of a listing's first keys.
LEMMA FirstKeysServe ==
    ASSUME ReadsAssumption, NEW op, NEW at \in Nat, NEW T \in SUBSET Where(op),
           \A x \in T : Ahead(op, at, x),
           NEW q, Lists(op, q, T), NEW most \in Nat \ {0},
           NEW S, \A x \in S : Ahead(op, at, x) => x \in T
    PROVE  Serves(op, at, S, FirstOf(q, most), Len(q) > most, NextOf(at, FirstOf(q, most)))
<1> DEFINE rows == FirstOf(q, most)
           n == Len(rows)
           P == AmongFirst(T, q, n)
           next == NextOf(at, rows)
<1>1. Where(op) \subseteq Nat \ {0} /\ T \in SUBSET (Nat \ {0})
  BY WhereIs
<1>2. /\ n \in 0 .. Len(q) /\ (n < Len(q) => Len(q) > most)
      /\ Lists(op, rows, P)
      /\ \A i \in 1 .. n : rows[i] = q[i]
  <2>0. Lists(op, q, T) /\ most \in Nat
    OBVIOUS
  <2>1. Lists(op, rows, P)
    BY ONLY <1>1, <2>0, FirstKeys
  <2>2. StartsWith(q, rows, most)
    BY ONLY <1>1, <2>0, FirstKeys
  <2> HIDE DEF P
  <2> QED
    BY <2>1, <2>2 DEF StartsWith
<1> HIDE DEF rows
<1>3. CASE rows = <<>>
  <2>1. next = at
    BY <1>3 DEF NextOf
  <2>2. PageOf(op, at, T, q, n, T, rows, Len(q) > most, next)
    BY <1>2, <1>3, <2>1 DEF PageOf
  <2> HIDE DEF n, next
  <2> QED
    BY <1>1, <2>2, PageServes DEF rows, next
<1>4. CASE rows # <<>>
  <2>1. next = rows[n]
    BY <1>4 DEF NextOf
  <2>2. P \in SUBSET (Nat \ {0})
    BY <1>1 DEF AmongFirst
  <2>3. n \in 1 .. n /\ \A i \in 1 .. n : ~Ahead(op, rows[n], rows[i])
    <3> HIDE DEF P
    <3> QED
      BY <1>2, <1>4, <2>2, LastOfListing
  <2>4. next = q[n] /\ \A j \in 1 .. Len(rows) : ~Ahead(op, next, rows[j])
    BY <1>2, <2>1, <2>3
  <2> HIDE DEF next
  <2>5. PageOf(op, at, T, q, n, T, rows, Len(q) > most, next)
    BY <1>2, <2>3, <2>4 DEF PageOf
  <2> HIDE DEF n
  <2> QED
    BY <1>1, <2>5, PageServes DEF rows, next
<1> QED
  BY <1>3, <1>4

\* Messages behind a number: a page serves (MessagesAfter).
LEMMA AfterServes ==
    ASSUME ReadsAssumption, NEW m \in SUBSET (1 .. LastKey), NEW at \in Own \cup {0}
    PROVE  LET a == MessagesAfter(m, at) IN
           Serves("messagesAfter", at, m \cap Own, a.rows, a.more, NextOf(at, a.rows))
<1> DEFINE op == "messagesAfter"
           O == m \cap Own
           k == IF at = 0 THEN Min(Own) ELSE at + 1
           T == {x \in O : x >= Seek(m, k)}
           q == UpFrom(O, Seek(m, k))
<1>1. LastId \in Nat /\ LastKey \in Nat /\ Limit \in Nat \ {0} /\ at \in Nat
  BY DEF ReadsAssumption, Own
<1>2. /\ Own \in SUBSET (Nat \ {0}) /\ op \notin Downwards /\ Where(op) = Own
      /\ O \in SUBSET (1 .. LastId + LastKey) /\ m \in SUBSET (1 .. LastId + LastKey)
  <2>1. m \in SUBSET (1 .. LastId + LastKey)
    BY <1>1
  <2> QED
    BY <1>1, <2>1 DEF Own, Downwards, Where, MessageOps
<1>3. CASE O = {}
  <2>1. T = {}
    BY <1>3
  <2>2. q = InOrder(T)
    BY DEF UpFrom
  <2>3. Lists(op, q, {})
    <3>1. {} \in SUBSET (Nat \ {0}) /\ IsFiniteSet({})
      BY FS_EmptySet
    <3> QED
      BY <1>2, <2>1, <2>2, <3>1, UpLists
  <2> HIDE DEF q, T, op, O
  <2>4. {} \in SUBSET Where(op) /\ \A x \in O : Ahead(op, at, x) => x \in {}
    BY <1>3
  <2>5. Serves(op, at, O, FirstOf(q, Limit), Len(q) > Limit, NextOf(at, FirstOf(q, Limit)))
    BY <1>1, <2>3, <2>4, FirstKeysServe
  <2> QED
    BY <2>5 DEF q, T, op, O, MessagesAfter, FirstOf
<1>4. CASE O # {}
  <2>1. k \in Nat /\ \A x \in Own : x >= k <=> at < x
    <3>1. CASE at = 0
      <4>1. Own \in SUBSET Nat /\ Own # {}
        BY <1>2, <1>4
      <4>2. PICK y \in Own : \A x \in Own : y <= x
        BY <4>1, LeastOf
      <4>3. Min(Own) \in Own /\ \A x \in Own : Min(Own) <= x
        BY <4>2 DEF Min
      <4>4. k = Min(Own)
        BY <3>1
      <4> HIDE DEF k
      <4>5. \A x \in Own : x \in Nat /\ 0 < x
        BY <1>2
      <4>6. k \in Own /\ \A x \in Own : k <= x
        BY <4>3, <4>4
      <4> QED
        BY <3>1, <4>5, <4>6
    <3>2. CASE at # 0
      <4>1. k = at + 1
        BY <3>2
      <4> HIDE DEF k
      <4> QED
        BY <1>1, <1>2, <4>1
    <3> QED
      BY <3>1, <3>2
  <2> HIDE DEF k
  <2>2. Seek(m, k) \in Nat /\ \A x \in m : x >= Seek(m, k) <=> x >= k
    BY <1>2, <2>1, Seeking
  <2>3. Lists(op, q, T)
    BY <1>2, <2>2, KeysFrom
  <2>4. T \in SUBSET Where(op)
    BY <1>2
  <2>5. \A x \in O : Ahead(op, at, x) <=> x \in T
    <3> SUFFICES ASSUME NEW x \in O PROVE Ahead(op, at, x) <=> x \in T
      OBVIOUS
    <3>1. Ahead(op, at, x) <=> at < x
      BY <1>2 DEF Ahead
    <3> QED
      BY <2>1, <2>2, <3>1
  <2>6. \A x \in T : Ahead(op, at, x)
    BY <2>5
  <2> HIDE DEF q, T, op, O
  <2>7. Serves(op, at, O, FirstOf(q, Limit), Len(q) > Limit, NextOf(at, FirstOf(q, Limit)))
    BY <1>1, <2>3, <2>4, <2>5, <2>6, FirstKeysServe
  <2> QED
    BY <2>7 DEF q, T, op, O, k, MessagesAfter, FirstOf
<1> QED
  BY <1>3, <1>4

\* Messages below a number: a page serves, the numbers of other connections
\* below it included, where the cursor may stop (MessagesBefore).
LEMMA BeforeServes ==
    ASSUME ReadsAssumption, NEW m \in SUBSET (1 .. LastKey), NEW at \in Own \cup {0}
    PROVE  LET a == MessagesBefore(m, at) IN
           Serves("messagesBefore", at, m \cap Own, a.rows, a.more, NextOf(at, a.rows))
<1> DEFINE op == "messagesBefore"
           O == m \cap Own
           to == IF at = 0 THEN Seek(m, LastKey) ELSE Seek(m, at)
           start == Prev(m, to)
           T == {x \in O : x <= start}
           q == IF start \in Own THEN DownFrom(O, start) ELSE <<>>
<1>1. LastId \in Nat /\ LastKey \in Nat /\ Limit \in Nat \ {0} /\ at \in Nat
  BY DEF ReadsAssumption, Own
<1>2. /\ op \in Downwards /\ Where(op) = Own
      /\ O \in SUBSET (1 .. LastId + LastKey) /\ m \in SUBSET (1 .. LastId + LastKey)
      /\ \A x \in m : x \in Nat /\ 1 <= x /\ x <= LastKey
      /\ \A x \in Nat : x \in Own <=> 2 <= x /\ x < LastKey
  <2>1. m \in SUBSET (1 .. LastId + LastKey)
    BY <1>1
  <2>2. \A x \in Nat : x \in Own <=> 2 <= x /\ x < LastKey
    BY <1>1 DEF Own
  <2> QED
    BY <1>1, <2>1, <2>2 DEF Downwards, Where, MessageOps
<1> DEFINE from == IF at = 0 THEN LastKey ELSE at
<1>3. from \in Nat /\ from <= LastKey /\ to = Seek(m, from)
  <2>1. CASE at = 0
    BY <1>1, <2>1
  <2>2. CASE at # 0
    BY <1>1, <1>2, <2>2
  <2> QED
    BY <2>1, <2>2
<1> HIDE DEF from, to
<1>4. to \in Nat /\ \A x \in m : x < to <=> x < from
  <2>1. to \in Nat /\ \A x \in m : x >= to <=> x >= from
    BY <1>2, <1>3, Seeking
  <2> QED
    BY <1>2, <1>3, <2>1
<1>5. /\ start \in m \cup {0} /\ start \in Nat
      /\ start # 0 => start < to
      /\ \A x \in m : x <= start <=> x < to
  BY <1>2, <1>4, Below
<1> HIDE DEF start
<1>6. \A x \in O : x \in T <=> x < from
  <2> SUFFICES ASSUME NEW x \in O PROVE x <= start <=> x < from
    OBVIOUS
  <2>1. x \in m
    OBVIOUS
  <2> QED
    BY <1>4, <1>5, <2>1
<1>7. \A x \in O : Ahead(op, at, x) <=> x \in T
  <2> SUFFICES ASSUME NEW x \in O PROVE Ahead(op, at, x) <=> x < from
    BY <1>6
  <2>1. x \in Own /\ x \in Nat /\ x < LastKey
    BY <1>2
  <2>2. CASE at = 0
    BY <1>2, <2>1, <2>2 DEF Ahead, from
  <2>3. CASE at # 0
    BY <1>2, <2>1, <2>3 DEF Ahead, from
  <2> QED
    BY <2>2, <2>3
<1>8. Lists(op, q, T)
  <2>1. CASE start \in Own
    BY <1>2, <1>5, <2>1, KeysBelow
  <2>2. CASE start \notin Own
    <3>1. start < 2
      <4>1. CASE start = 0
        BY <4>1
      <4>2. CASE start # 0
        <5>1. start \in m /\ start < from
          BY <1>4, <1>5, <4>2
        <5>2. start < LastKey
          BY <1>1, <1>3, <1>5, <5>1
        <5>3. start \in Own <=> 2 <= start /\ start < LastKey
          BY <1>2, <1>5
        <5> QED
          BY <1>5, <2>2, <5>2, <5>3
      <4> QED
        BY <4>1, <4>2
    <3>2. ASSUME NEW x \in O PROVE ~(x <= start)
      <4>1. x \in Nat /\ 2 <= x
        BY <1>2
      <4> QED
        BY <1>5, <3>1, <4>1
    <3>3. T = {}
      BY <3>2
    <3>4. q = <<>>
      BY <2>2
    <3> HIDE DEF T, q
    <3> QED
      BY <3>3, <3>4, NothingListed
  <2> QED
    BY <2>1, <2>2
<1>9. T \in SUBSET Where(op) /\ \A x \in T : Ahead(op, at, x)
  BY <1>2, <1>7
<1> HIDE DEF T, q, op, O
<1>10. Serves(op, at, O, FirstOf(q, Limit), Len(q) > Limit, NextOf(at, FirstOf(q, Limit)))
  BY <1>1, <1>7, <1>8, <1>9, FirstKeysServe
<1>11. MessagesBefore(m, at) = [rows |-> FirstOf(q, Limit), more |-> Len(q) > Limit]
  <2>1. start = IF at = 0 THEN Prev(m, Seek(m, LastKey)) ELSE Prev(m, Seek(m, at))
    BY DEF start, to
  <2> QED
    BY <2>1 DEF MessagesBefore, FirstOf, q, O
<1> QED
  BY <1>10, <1>11 DEF op, O

\* A page of a walk: what matches of the next entries.
LEMMA EachServes ==
    ASSUME ReadsAssumption, NEW l, NEW at \in Keys \cup {0}, NEW op \in WalkOps
    PROVE  LET page == EachFrom(l, at) IN
           LET hits == InOrder({k \in Range(page) : l[k].hit}) IN
           /\ Serves(op, at, Hits(l), hits, Len(page) = EachPage, NextOf(at, page))
           /\ Range(hits) \subseteq Hits(l)
<1> DEFINE page == EachFrom(l, at)
           H == Here(l)
           to == IF at = 0 THEN Seek(H, 1) ELSE Seek(H, at)
           from == IF to = at THEN at + 1 ELSE to
           T == {x \in H : x >= from}
           F == Hits(l) \cap T
           q == UpFrom(H, from)
           n == Len(page)
           hits == {k \in Range(page) : l[k].hit}
           rows == InOrder(hits)
           next == NextOf(at, page)
<1>1. LastId \in Nat /\ LastKey \in Nat /\ EachPage \in Nat \ {0} /\ at \in Nat
  BY DEF ReadsAssumption, Keys
<1>2. /\ op \notin Downwards /\ Where(op) = Keys
      /\ H \in SUBSET (1 .. LastId + LastKey) /\ H \in SUBSET Keys
      /\ Keys \in SUBSET (Nat \ {0})
  BY <1>1 DEF Keys, Here, Downwards, WalkOps, Where, MessageOps
<1>3. page = FirstOf(q, EachPage)
  BY DEF EachFrom, FirstOf
<1> HIDE DEF page
<1>4. /\ to \in Nat
      /\ (at # 0 /\ at \in H) => to = at
      /\ \A x \in H : x >= to <=> x >= at
  <2>1. CASE at = 0
    <3>1. Seek(H, 1) \in Nat /\ \A x \in H : x >= Seek(H, 1) <=> x >= 1
      BY <1>2, Seeking
    <3>2. to = Seek(H, 1)
      BY <2>1
    <3> HIDE DEF to, H
    <3> QED
      BY <1>2, <2>1, <3>1, <3>2
  <2>2. CASE at # 0
    <3>1. to = Seek(H, at)
      BY <2>2
    <3> HIDE DEF to, H
    <3> QED
      BY <1>1, <1>2, <3>1, Seeking
  <2> QED
    BY <2>1, <2>2
<1> HIDE DEF to
<1>5. from \in Nat /\ \A x \in H : x >= from <=> x > at
  <2> SUFFICES ASSUME NEW x \in H PROVE from \in Nat /\ (x >= from <=> x > at)
    BY <1>1, <1>4
  <2>1. x \in Nat /\ x # 0 /\ (x >= to <=> x >= at)
    BY <1>2, <1>4
  <2>2. CASE to = at
    <3>1. from = at + 1
      BY <2>2
    <3> HIDE DEF from
    <3> QED
      BY <1>1, <2>1, <3>1
  <2>3. CASE to # at
    <3>1. from = to
      BY <2>3
    <3>2. x # at
      BY <1>4, <2>1, <2>3
    <3> HIDE DEF from
    <3> QED
      BY <1>1, <1>4, <2>1, <3>1, <3>2
  <2> QED
    BY <2>2, <2>3
<1> HIDE DEF from
<1>6. Lists(op, q, T)
  BY <1>2, <1>5, KeysFrom
<1>7. /\ T \in SUBSET Where(op) /\ T \in SUBSET (Nat \ {0})
      /\ \A x \in T : Ahead(op, at, x)
      /\ \A x \in H : Ahead(op, at, x) => x \in T
  BY <1>1, <1>2, <1>5 DEF Ahead
<1> HIDE DEF q, H
<1>8. StartsWith(q, page, EachPage) /\ Lists(op, page, AmongFirst(T, q, n))
  <2>1. EachPage \in Nat /\ T \in SUBSET (Nat \ {0}) /\ Lists(op, q, T)
    BY <1>1, <1>6, <1>7
  <2> HIDE DEF T
  <2> QED
    BY ONLY <1>3, <2>1, FirstKeys
<1> HIDE DEF T
<1>9. hits = AmongFirst(F, q, n)
  <2>1. Range(page) = AmongFirst(T, q, n)
    BY <1>8 DEF Lists
  <2>2. \A x \in T : x \in F <=> l[x].hit
    BY DEF T, H, Hits
  <2> QED
    BY <2>1, <2>2 DEF AmongFirst
<1> HIDE DEF n
<1>10. hits \in SUBSET (Nat \ {0}) /\ IsFiniteSet(hits)
  <2>1. hits \subseteq T
    BY <1>9 DEF AmongFirst
  <2>2. hits \in SUBSET (1 .. LastId + LastKey)
    BY <1>2, <2>1 DEF T
  <2> HIDE DEF hits
  <2> QED
    BY <1>7, <2>1, <2>2, WhereIs
<1> HIDE DEF hits, F
<1>11. Lists(op, rows, AmongFirst(F, q, n))
  BY <1>2, <1>9, <1>10, UpLists
<1>12. F \in SUBSET T
  BY DEF F
<1>13. n \in 0 .. Len(q) /\ (n < Len(q) => n = EachPage) /\ \A i \in 1 .. n : page[i] = q[i]
  BY <1>8 DEF StartsWith, n
<1> HIDE DEF rows
<1>14. \/ next = at /\ rows = <<>>
       \/ \E i \in 1 .. n : next = q[i] /\ \A j \in 1 .. Len(rows) : ~Ahead(op, next, rows[j])
  <2>1. CASE page = <<>>
    <3>1. next = at /\ n = 0
      BY <2>1 DEF NextOf, n
    <3>2. AmongFirst(F, q, n) = {}
      BY <3>1 DEF AmongFirst
    <3>3. rows = <<>>
      BY <1>11, <3>2, EmptySeq DEF Lists
    <3> QED
      BY <3>1, <3>3
  <2>2. CASE page # <<>>
    <3>1. next = page[n]
      BY <2>2 DEF NextOf, n
    <3>2. AmongFirst(T, q, n) \in SUBSET (Nat \ {0})
      BY <1>7 DEF AmongFirst
    <3>3. n \in 1 .. n /\ \A i \in 1 .. n : ~Ahead(op, page[n], page[i])
      BY <1>8, <2>2, <3>2, LastOfListing DEF n
    <3>4. \A j \in 1 .. Len(rows) : rows[j] \in AmongFirst(F, q, n)
      BY <1>11, ElementOfSeq DEF Lists
    <3>5. next = q[n] /\ \A j \in 1 .. Len(rows) : ~Ahead(op, next, rows[j])
      BY <1>13, <3>1, <3>3, <3>4 DEF AmongFirst
    <3> QED
      BY <3>3, <3>5
  <2> QED
    BY <2>1, <2>2
<1> HIDE DEF next
<1>15. PageOf(op, at, T, q, n, F, rows, n = EachPage, next)
  BY <1>6, <1>7, <1>11, <1>12, <1>13, <1>14 DEF PageOf
<1>16. \A x \in Hits(l) : Ahead(op, at, x) => x \in F
  BY <1>7 DEF F, Hits, H
<1>17. Serves(op, at, Hits(l), rows, n = EachPage, next)
  <2>1. Where(op) \subseteq Nat \ {0}
    BY <1>2
  <2> QED
    BY <1>1, <1>15, <1>16, <2>1, PageServes
<1>18. Range(rows) \subseteq Hits(l)
  BY <1>11 DEF Lists, AmongFirst, F
<1> QED
  BY <1>17, <1>18 DEF rows, hits, n, next, page

\* A page of the list serves, however early it ends and whether or not the entry
\* it starts below is still there (WalkPage).
LEMMA ListServes ==
    ASSUME ReadsAssumption, NEW l, NEW at \in Keys \cup {0}
    PROVE  LET a == WalkPage(l, at) IN
           Serves("list", at, Hits(l), a.rows, a.more, NextOf(at, a.rows))
<1> DEFINE op == "list"
           H == Here(l)
           to == IF at = 0 THEN Beyond ELSE Seek(H, at)
           start == Prev(H, to)
           T == {x \in H : x <= start}
           F == Hits(l) \cap T
           q == DownFrom(H, start)
           Part(i) == SubSeq(q, 1, i)
           Ends == {i \in 0 .. Len(q) : \/ i = Len(q)
                                        \/ Len(Taking(l, Part(i))) = Limit
                                        \/ i > 0 /\ Weary(l, Part(i))}
           n == Min(Ends)
           rows == Taking(l, Part(n))
           more == n < Len(q) \/ (n > 0 /\ Weary(l, Part(n)))
           next == NextOf(at, rows)
<1>1. LastId \in Nat /\ LastKey \in Nat /\ at \in Nat /\ Beyond = LastId + LastKey + 1
  BY DEF ReadsAssumption, Keys, Beyond
<1>2. /\ op \in Downwards /\ Where(op) = Keys
      /\ H \in SUBSET (1 .. LastId + LastKey) /\ H \in SUBSET Keys
      /\ Keys \in SUBSET (Nat \ {0})
  BY <1>1 DEF Keys, Here, Downwards, Where, MessageOps
<1>3. WalkPage(l, at) = [rows |-> rows, more |-> more]
  <2>1. start = WalkStart(H, at)
    BY DEF WalkStart
  <2> HIDE DEF start
  <2> QED
    BY <2>1 DEF WalkPage
<1> HIDE DEF n
<1>4. to \in Nat /\ \A x \in H : x < to <=> at = 0 \/ x < at
  <2>1. CASE at = 0
    <3>1. to = Beyond
      BY <2>1
    <3>2. \A x \in H : x < Beyond
      BY <1>1, <1>2
    <3> HIDE DEF to, H
    <3> QED
      BY <1>1, <2>1, <3>1, <3>2
  <2>2. CASE at # 0
    <3>1. to = Seek(H, at)
      BY <2>2
    <3> HIDE DEF to, H
    <3>2. to \in Nat /\ \A x \in H : x >= to <=> x >= at
      BY <1>1, <1>2, <3>1, Seeking
    <3>3. \A x \in H : x \in Nat
      BY <1>2
    <3> QED
      BY <1>1, <2>2, <3>2, <3>3
  <2> QED
    BY <2>1, <2>2
<1> HIDE DEF to
<1>5. start \in Nat /\ \A x \in H : x <= start <=> x < to
  BY <1>2, <1>4, Below
<1> HIDE DEF start
<1>6. Lists(op, q, T)
  BY <1>2, <1>5, KeysBelow
<1>7. \A x \in H : x \in T <=> Ahead(op, at, x)
  BY <1>2, <1>4, <1>5 DEF Ahead
<1>8. /\ T \in SUBSET Where(op) /\ T \in SUBSET (Nat \ {0})
      /\ T \in SUBSET (1 .. LastId + LastKey)
      /\ \A x \in T : Ahead(op, at, x)
  BY <1>2, <1>7
<1>9. q \in Seq(T) /\ Len(q) \in Nat
  BY <1>6, LenProperties DEF Lists
<1> HIDE DEF q, H
<1>10. n \in 0 .. Len(q)
  <2>1. Ends \in SUBSET Nat /\ Len(q) \in Ends
    BY <1>9
  <2> HIDE DEF Ends
  <2>2. PICK i \in Ends : \A j \in Ends : i <= j
    BY <2>1, LeastOf
  <2>3. Min(Ends) \in Ends
    BY <2>2 DEF Min
  <2> QED
    BY <2>3 DEF Ends, n
<1> DEFINE p == Part(n)
           hits == {k \in Range(p) : l[k].hit}
<1>11. Range(p) = AmongFirst(T, q, n)
  <2>1. /\ p \in Seq(T) /\ Len(p) = n
        /\ \A i \in 1 .. n : p[i] = q[i]
    <3> HIDE DEF T
    <3> QED
      BY <1>6, <1>8, <1>10, FirstOfListing
  <2>2. DOMAIN p = 1 .. n /\ \A i \in 1 .. n : p[i] \in T
    BY <2>1, LenProperties, ElementOfSeq
  <2> HIDE DEF p
  <2> QED
    BY <2>1, <2>2 DEF AmongFirst, Range
<1> HIDE DEF p
<1>12. hits = AmongFirst(F, q, n)
  <2>1. F \subseteq T /\ \A x \in T : x \in F <=> l[x].hit
    BY DEF H, Hits
  <2> HIDE DEF T, F
  <2> QED
    BY <1>11, <2>1 DEF AmongFirst
<1>13. hits \in SUBSET (Nat \ {0}) /\ IsFiniteSet(hits)
  <2>1. hits \subseteq T
    BY <1>12 DEF AmongFirst
  <2> HIDE DEF hits, T
  <2> QED
    BY <1>8, <2>1, WhereIs
<1>14. rows = Reverse(InOrder(hits))
  BY DEF Taking, p
<1> HIDE DEF rows, hits
<1>15. Lists(op, rows, AmongFirst(F, q, n))
  <2>1. Lists(op, rows, hits)
    BY <1>2, <1>13, <1>14, DownLists
  <2> QED
    BY <1>12, <2>1
<1>16. \/ next = at /\ rows = <<>>
       \/ \E i \in 1 .. n : next = q[i] /\ \A j \in 1 .. Len(rows) : ~Ahead(op, next, rows[j])
  <2>1. CASE rows = <<>>
    BY <2>1 DEF NextOf
  <2>2. CASE rows # <<>>
    <3>1. AmongFirst(F, q, n) \in SUBSET (Nat \ {0})
      BY <1>12, <1>13
    <3>2. /\ next \in AmongFirst(F, q, n)
          /\ \A i \in 1 .. Len(rows) : ~Ahead(op, next, rows[i])
      BY <1>15, <2>2, <3>1, LastOfListing DEF NextOf
    <3> QED
      BY <3>2 DEF AmongFirst
  <2> QED
    BY <2>1, <2>2
<1>17. F \in SUBSET T
  OBVIOUS
<1>18. n < Len(q) => more
  OBVIOUS
<1>19. \A x \in Hits(l) : Ahead(op, at, x) => x \in F
  BY <1>7 DEF Hits, H
<1> HIDE DEF T, F, next, more
<1>20. PageOf(op, at, T, q, n, F, rows, more, next)
  BY <1>6, <1>8, <1>10, <1>15, <1>16, <1>17, <1>18 DEF PageOf
<1>21. Serves(op, at, Hits(l), rows, more, next)
  <2>1. Where(op) \subseteq Nat \ {0}
    BY <1>2
  <2> QED
    BY <1>1, <1>19, <1>20, <2>1, PageServes
<1> QED
  BY <1>3, <1>21 DEF next

-----------------------------------------------------------------------------
\* What an operation has answered so far: in order, and none of it ahead of
\* where it is.
OutSound(op, at, out) ==
    /\ out \in Seq(Where(op)) /\ at \in Where(op) \cup {0}
    /\ InOrderOf(op, out)
    /\ \A i \in 1 .. Len(out) : ~Ahead(op, at, out[i])

\* What two sequences hold together.
LEMMA JoinedRange ==
    ASSUME NEW S, NEW a \in Seq(S), NEW b \in Seq(S)
    PROVE  Range(a \o b) = Range(a) \cup Range(b)
<1> DEFINE n == Len(a)
           m == Len(b)
           c == a \o b
<1>1. /\ n \in Nat /\ m \in Nat /\ DOMAIN a = 1 .. n /\ DOMAIN b = 1 .. m
      /\ c \in Seq(S) /\ Len(c) = n + m
      /\ \A i \in 1 .. n + m : c[i] = IF i <= n THEN a[i] ELSE b[i - n]
  BY LenProperties, ConcatProperties
<1>2. DOMAIN c = 1 .. n + m
  BY <1>1, LenProperties
<1> HIDE DEF n, m, c
<1>3. ASSUME NEW x \in Range(c) PROVE x \in Range(a) \cup Range(b)
  <2>1. PICK i \in 1 .. n + m : c[i] = x
    BY <1>2 DEF Range
  <2>2. CASE i <= n
    <3>1. i \in 1 .. n /\ a[i] = x
      BY <1>1, <2>1, <2>2
    <3> QED
      BY <1>1, <3>1 DEF Range
  <2>3. CASE ~(i <= n)
    <3>1. i - n \in 1 .. m /\ b[i - n] = x
      BY <1>1, <2>1, <2>3
    <3> QED
      BY <1>1, <3>1 DEF Range
  <2> QED
    BY <2>2, <2>3
<1>4. ASSUME NEW x \in Range(a) PROVE x \in Range(c)
  <2>1. PICK i \in 1 .. n : a[i] = x
    BY <1>1 DEF Range
  <2>2. i \in 1 .. n + m /\ c[i] = x
    BY <1>1, <2>1
  <2> QED
    BY <1>2, <2>2 DEF Range
<1>5. ASSUME NEW x \in Range(b) PROVE x \in Range(c)
  <2>1. PICK i \in 1 .. m : b[i] = x
    BY <1>1 DEF Range
  <2>2. i + n \in 1 .. n + m /\ ~(i + n <= n) /\ (i + n) - n = i
    BY <1>1
  <2>3. c[i + n] = x
    BY <1>1, <2>1, <2>2
  <2> QED
    BY <1>2, <2>2, <2>3 DEF Range
<1> QED
  BY <1>3, <1>4, <1>5 DEF c

\* An answer that serves goes behind the ones before it.
LEMMA AnswersJoin ==
    ASSUME ReadsAssumption, NEW op, NEW at, NEW out, OutSound(op, at, out),
           NEW S, NEW rows, NEW more, NEW next, Serves(op, at, S, rows, more, next)
    PROVE  /\ OutSound(op, next, out \o rows)
           /\ Range(out \o rows) = Range(out) \cup Range(rows)
<1> DEFINE W == Where(op)
           all == out \o rows
           n == Len(out)
           m == Len(rows)
<1>1. W \in SUBSET (Nat \ {0})
  BY WhereIs
<1>2. /\ out \in Seq(W) /\ rows \in Seq(W) /\ at \in W \cup {0} /\ next \in W \cup {0}
      /\ InOrderOf(op, out) /\ InOrderOf(op, rows)
      /\ \A i \in 1 .. n : ~Ahead(op, at, out[i])
      /\ \A i \in 1 .. m : Ahead(op, at, rows[i]) /\ ~Ahead(op, next, rows[i])
      /\ next = at \/ (next \in W /\ Ahead(op, at, next))
  BY DEF OutSound, Serves
<1> HIDE DEF W
<1>3. /\ n \in Nat /\ m \in Nat
      /\ \A i \in 1 .. n : out[i] \in W
      /\ \A i \in 1 .. m : rows[i] \in W
      /\ DOMAIN out = 1 .. n /\ DOMAIN rows = 1 .. m
  BY <1>2, LenProperties, ElementOfSeq
<1>4. /\ all \in Seq(W) /\ Len(all) = n + m
      /\ \A i \in 1 .. n + m : all[i] = IF i <= n THEN out[i] ELSE rows[i - n]
  BY <1>2, ConcatProperties
<1>5. DOMAIN all = 1 .. n + m
  BY <1>4, LenProperties
<1> HIDE DEF all
<1>6. \A i \in 1 .. n : i \in 1 .. n + m /\ all[i] = out[i]
  BY <1>3, <1>4
<1>7. \A i \in 1 .. m : i + n \in 1 .. n + m /\ all[i + n] = rows[i]
  <2> TAKE i \in 1 .. m
  <2>1. i + n \in 1 .. n + m /\ ~(i + n <= n) /\ (i + n) - n = i
    BY <1>3
  <2> QED
    BY <1>4, <2>1
<1>8. \A i \in 1 .. n + m : i \in 1 .. n \/ (i - n \in 1 .. m /\ all[i] = rows[i - n])
  <2> TAKE i \in 1 .. n + m
  <2>1. i <= n => i \in 1 .. n
    BY <1>3
  <2>2. ~(i <= n) => i - n \in 1 .. m
    BY <1>3
  <2> QED
    BY <1>4, <2>1, <2>2
<1>9. \A x \in W : ~Ahead(op, at, x) => ~Ahead(op, next, x)
  BY <1>1, <1>2 DEF Ahead
<1>10. \A x \in W : \A y \in W : ~Ahead(op, at, x) /\ Ahead(op, at, y) => Ahead(op, x, y)
  BY <1>1, <1>2 DEF Ahead
<1>11. Range(all) = Range(out) \cup Range(rows)
  BY <1>2, JoinedRange DEF all
<1>12. InOrderOf(op, all)
  <2> SUFFICES ASSUME NEW i \in 1 .. n + m, NEW j \in 1 .. n + m, i < j
               PROVE  Ahead(op, all[i], all[j])
    BY <1>4 DEF InOrderOf
  <2>1. CASE j \in 1 .. n
    <3>1. i \in 1 .. n
      BY <1>3, <2>1
    <3> QED
      BY <1>2, <1>6, <2>1, <3>1 DEF InOrderOf
  <2>2. CASE j \notin 1 .. n
    <3>1. j - n \in 1 .. m /\ all[j] = rows[j - n]
      BY <1>8, <2>2
    <3>2. CASE i \in 1 .. n
      <4>1. all[i] = out[i] /\ out[i] \in W /\ ~Ahead(op, at, out[i])
        BY <1>2, <1>3, <1>6, <3>2
      <4>2. rows[j - n] \in W /\ Ahead(op, at, rows[j - n])
        BY <1>2, <1>3, <3>1
      <4> QED
        BY <1>10, <3>1, <4>1, <4>2
    <3>3. CASE i \notin 1 .. n
      <4>1. i - n \in 1 .. m /\ all[i] = rows[i - n]
        BY <1>8, <3>3
      <4>2. i - n < j - n
        BY <1>3
      <4> QED
        BY <1>2, <3>1, <4>1, <4>2 DEF InOrderOf
    <3> QED
      BY <3>2, <3>3
  <2> QED
    BY <2>1, <2>2
<1>13. \A i \in 1 .. n + m : ~Ahead(op, next, all[i])
  <2> TAKE i \in 1 .. n + m
  <2>1. CASE i \in 1 .. n
    BY <1>2, <1>3, <1>6, <1>9, <2>1
  <2>2. CASE i \notin 1 .. n
    BY <1>2, <1>8, <2>2
  <2> QED
    BY <2>1, <2>2
<1> QED
  BY <1>2, <1>4, <1>11, <1>12, <1>13 DEF OutSound, all, W

\* The last of two answers is the last of the second, unless that is empty.
LEMMA LastOfBoth ==
    ASSUME NEW S, NEW out \in Seq(S), NEW rows \in Seq(S)
    PROVE  IF out \o rows = <<>> THEN NextOf(NextOf(0, out), rows) = 0
           ELSE NextOf(NextOf(0, out), rows) = (out \o rows)[Len(out \o rows)]
<1>1. /\ Len(out) \in Nat /\ Len(rows) \in Nat
      /\ out \o rows \in Seq(S) /\ Len(out \o rows) = Len(out) + Len(rows)
      /\ \A i \in 1 .. Len(out) + Len(rows) :
            (out \o rows)[i] = IF i <= Len(out) THEN out[i] ELSE rows[i - Len(out)]
  BY LenProperties, ConcatProperties
<1>2. /\ rows # <<>> => Len(rows) # 0
      /\ out # <<>> => Len(out) # 0
  BY EmptySeq
<1>3. CASE rows = <<>>
  <2>1. out \o rows = out
    BY <1>3, ConcatEmptySeq
  <2> QED
    BY <1>3, <2>1 DEF NextOf
<1>4. CASE rows # <<>>
  <2>1. Len(out) + Len(rows) \in 1 .. Len(out) + Len(rows) /\ Len(rows) > 0
    BY <1>1, <1>2, <1>4
  <2>2. (out \o rows)[Len(out) + Len(rows)] = rows[Len(rows)]
    <3>1. ~(Len(out) + Len(rows) <= Len(out)) /\ (Len(out) + Len(rows)) - Len(out) = Len(rows)
      BY <1>1, <2>1
    <3> QED
      BY <1>1, <2>1, <3>1
  <2>3. out \o rows # <<>>
    <3>1. Len(out \o rows) # 0
      BY <1>1, <2>1
    <3> QED
      BY <3>1, EmptySeq
  <2> QED
    BY <1>1, <1>4, <2>2, <2>3 DEF NextOf
<1> QED
  BY <1>3, <1>4

-----------------------------------------------------------------------------
\* The entries of a ranking.
Placed == [id : Keys, score : -1 .. MaxScore]

\* A ranking goes down and is not longer than it may be.
Descends(best) ==
    /\ best \in Seq(Placed) /\ Len(best) <= Limit
    /\ \A i, j \in 1 .. Len(best) : i < j => best[i].score >= best[j].score

\* It has an entry, or is full of others that are not below it.
Has(best, k, score) ==
    \/ \E i \in 1 .. Len(best) : best[i].id = k /\ best[i].score = score
    \/ Len(best) = Limit /\ best[Limit].score >= score

\* What InsertAt makes of a sequence.
LEMMA Inserting ==
    ASSUME NEW S, NEW s \in Seq(S), NEW i \in 1 .. Len(s) + 1, NEW e \in S
    PROVE  /\ InsertAt(s, i, e) \in Seq(S) /\ Len(InsertAt(s, i, e)) = Len(s) + 1
           /\ \A j \in 1 .. Len(s) + 1 :
                 InsertAt(s, i, e)[j] = IF j < i THEN s[j] ELSE IF j = i THEN e ELSE s[j - 1]
<1> DEFINE a == SubSeq(s, 1, i - 1)
           b == <<e>>
           c == SubSeq(s, i, Len(s))
           n == Len(s)
<1>1. n \in Nat /\ i \in Nat /\ i >= 1 /\ i <= n + 1 /\ \A j \in 1 .. n : s[j] \in S
  BY LenProperties, ElementOfSeq
<1>2. a \in Seq(S) /\ Len(a) = i - 1 /\ \A j \in 1 .. i - 1 : a[j] = s[j]
  <2>1. \A j \in 1 .. i - 1 : s[j] \in S
    BY <1>1
  <2>2. /\ a \in Seq(S) /\ Len(a) = IF 1 <= i - 1 THEN (i - 1) - 1 + 1 ELSE 0
        /\ \A j \in 1 .. (i - 1) - 1 + 1 : a[j] = s[1 + j - 1]
    BY <1>1, <2>1, SubSeqProperties
  <2> HIDE DEF a
  <2> QED
    BY <1>1, <2>2
<1>3. c \in Seq(S) /\ Len(c) = n - i + 1 /\ \A j \in 1 .. n - i + 1 : c[j] = s[i + j - 1]
  <2>1. \A j \in i .. n : s[j] \in S
    BY <1>1
  <2>2. /\ c \in Seq(S) /\ Len(c) = IF i <= n THEN n - i + 1 ELSE 0
        /\ \A j \in 1 .. n - i + 1 : c[j] = s[i + j - 1]
    BY <1>1, <2>1, SubSeqProperties
  <2> HIDE DEF c
  <2> QED
    BY <1>1, <2>2
<1>4. b \in Seq(S) /\ Len(b) = 1 /\ b[1] = e
  OBVIOUS
<1> HIDE DEF a, b, c
<1>5. /\ a \o b \in Seq(S) /\ Len(a \o b) = i
      /\ \A j \in 1 .. i : (a \o b)[j] = IF j < i THEN s[j] ELSE e
  <2>1. /\ a \o b \in Seq(S) /\ Len(a \o b) = Len(a) + Len(b)
        /\ \A j \in 1 .. Len(a) + Len(b) : (a \o b)[j] = IF j <= Len(a) THEN a[j] ELSE b[j - Len(a)]
    BY <1>2, <1>4, ConcatProperties
  <2> DEFINE ab == a \o b
  <2> HIDE DEF ab
  <2>2. /\ ab \in Seq(S) /\ Len(ab) = (i - 1) + 1
        /\ \A j \in 1 .. (i - 1) + 1 : ab[j] = IF j <= i - 1 THEN a[j] ELSE b[j - (i - 1)]
    BY <1>2, <1>4, <2>1 DEF ab
  <2>3. ASSUME NEW j \in 1 .. i PROVE ab[j] = IF j < i THEN s[j] ELSE e
    <3>1. CASE j < i
      BY <1>1, <1>2, <2>2, <3>1
    <3>2. CASE j = i
      <4>1. j \in 1 .. (i - 1) + 1 /\ ~(j <= i - 1) /\ j - (i - 1) = 1
        BY <1>1, <3>2
      <4> QED
        BY <1>4, <2>2, <3>2, <4>1
    <3> QED
      BY <1>1, <3>1, <3>2
  <2>4. ab \in Seq(S) /\ Len(ab) = i /\ \A j \in 1 .. i : ab[j] = IF j < i THEN s[j] ELSE e
    BY <1>1, <2>2, <2>3
  <2> QED
    BY <2>4 DEF ab
<1> DEFINE ab == a \o b
           all == ab \o c
<1>6. InsertAt(s, i, e) = all
  BY DEF InsertAt, a, b, c
<1> HIDE DEF ab
<1>7. ab \in Seq(S) /\ Len(ab) = i /\ \A j \in 1 .. i : ab[j] = IF j < i THEN s[j] ELSE e
  BY <1>5 DEF ab
<1>8. /\ all \in Seq(S) /\ Len(all) = i + (n - i + 1)
      /\ \A j \in 1 .. i + (n - i + 1) : all[j] = IF j <= i THEN ab[j] ELSE c[j - i]
  <2>1. /\ all \in Seq(S) /\ Len(all) = Len(ab) + Len(c)
        /\ \A j \in 1 .. Len(ab) + Len(c) : all[j] = IF j <= Len(ab) THEN ab[j] ELSE c[j - Len(ab)]
    BY <1>3, <1>7, ConcatProperties
  <2> HIDE DEF all, n
  <2> QED
    BY <1>3, <1>7, <2>1
<1> HIDE DEF all, n
<1>9. ASSUME NEW j \in 1 .. n + 1
      PROVE  all[j] = IF j < i THEN s[j] ELSE IF j = i THEN e ELSE s[j - 1]
  <2>1. j \in 1 .. i + (n - i + 1)
    BY <1>1
  <2>2. CASE j <= i
    <3>1. all[j] = ab[j] /\ j \in 1 .. i
      BY <1>1, <1>8, <2>1, <2>2
    <3> QED
      BY <1>1, <1>7, <3>1
  <2>3. CASE ~(j <= i)
    <3>1. all[j] = c[j - i]
      BY <1>8, <2>1, <2>3
    <3>2. j - i \in 1 .. n - i + 1 /\ i + (j - i) - 1 = j - 1 /\ ~(j < i) /\ j # i
      BY <1>1, <2>3
    <3>3. c[j - i] = s[j - 1]
      BY <1>3, <3>2
    <3> QED
      BY <3>1, <3>2, <3>3
  <2> QED
    BY <2>2, <2>3
<1> QED
  BY <1>1, <1>6, <1>8, <1>9 DEF n

\* Top keeps what it has, and takes what is not below all of a full ranking.
LEMMA RankedKeeps ==
    ASSUME ReadsAssumption, NEW best, Descends(best), NEW k \in Keys,
           NEW score \in -1 .. MaxScore
    PROVE  /\ Descends(Ranked(best, k, score))
           /\ score >= 0 => Has(Ranked(best, k, score), k, score)
           /\ \A x \in Keys : \A y \in -1 .. MaxScore :
                 Has(best, x, y) => Has(Ranked(best, k, score), x, y)
<1> DEFINE r == Ranked(best, k, score)
           n == Len(best)
           Lower == {i \in 1 .. n : score >= best[i].score}
           at == Min(Lower \cup {n + 1})
           new == [id |-> k, score |-> score]
           all == InsertAt(best, at, new)
           m == Min({Limit, Len(all)})
<1>1. /\ best \in Seq(Placed) /\ n \in Nat /\ n <= Limit /\ Limit \in Nat \ {0}
      /\ \A i, j \in 1 .. n : i < j => best[i].score >= best[j].score
      /\ \A i \in 1 .. n : best[i] \in Placed
      /\ MaxScore \in Nat
  BY LenProperties, ElementOfSeq DEF Descends, ReadsAssumption
<1>2. CASE score < 0
  <2>1. r = best
    BY <1>2 DEF Ranked
  <2> QED
    BY <1>2, <2>1
<1>3. CASE ~(score < 0)
  <2>1. r = SubSeq(all, 1, m)
    BY <1>3 DEF Ranked
  <2> HIDE DEF r, at
  <2>2. at \in 1 .. n + 1 /\ \A i \in Lower : at <= i
    <3> DEFINE T == Lower \cup {n + 1}
    <3>1. T \in SUBSET Nat /\ T # {}
      BY <1>1
    <3>2. PICK i \in T : \A j \in T : i <= j
      <4> HIDE DEF T
      <4> QED
        BY <3>1, LeastOf
    <3>3. Min(T) \in T /\ \A j \in T : Min(T) <= j
      <4> HIDE DEF T
      <4> QED
        BY <3>2 DEF Min
    <3> QED
      BY <1>1, <3>3 DEF at
  <2>3. at \in Lower \/ at = n + 1
    <3> DEFINE T == Lower \cup {n + 1}
    <3>1. T \in SUBSET Nat /\ T # {}
      BY <1>1
    <3>2. PICK i \in T : \A j \in T : i <= j
      <4> HIDE DEF T
      <4> QED
        BY <3>1, LeastOf
    <3>3. Min(T) \in T
      <4> HIDE DEF T
      <4> QED
        BY <3>2 DEF Min
    <3> QED
      BY <3>3 DEF at
  <2>4. new \in Placed
    BY DEF Placed
  <2>5. /\ all \in Seq(Placed) /\ Len(all) = n + 1
        /\ \A j \in 1 .. n + 1 :
              all[j] = IF j < at THEN best[j] ELSE IF j = at THEN new ELSE best[j - 1]
    BY <1>1, <2>2, <2>4, Inserting
  <2> HIDE DEF all, new
  <2>6. /\ m \in Nat /\ m <= Limit /\ m <= n + 1 /\ (m = Limit \/ m = n + 1)
        /\ m >= 1 /\ m >= n
    <3>1. /\ Min({Limit, n + 1}) \in {Limit, n + 1} /\ Min({Limit, n + 1}) \in Nat
          /\ Min({Limit, n + 1}) <= Limit /\ Min({Limit, n + 1}) <= n + 1
      <4>1. n + 1 \in Nat
        BY <1>1
      <4> QED
        BY <1>1, <4>1, SmallerOfTwo
    <3>2. m = Min({Limit, n + 1})
      BY <2>5
    <3> HIDE DEF m
    <3> QED
      BY <1>1, <3>1, <3>2
  <2> HIDE DEF m
  <2>7. r \in Seq(Placed) /\ Len(r) = m /\ \A j \in 1 .. m : r[j] = all[j]
    <3>1. \A j \in 1 .. m : all[j] \in Placed
      <4>1. \A j \in 1 .. n + 1 : all[j] \in Placed
        BY <2>5, ElementOfSeq
      <4> QED
        BY <1>1, <2>6, <4>1
    <3>2. /\ r \in Seq(Placed) /\ Len(r) = IF 1 <= m THEN m - 1 + 1 ELSE 0
          /\ \A j \in 1 .. m - 1 + 1 : r[j] = all[1 + j - 1]
      BY <2>1, <2>6, <3>1, SubSeqProperties
    <3> QED
      BY <2>6, <3>2
  <2>8. \A j \in 1 .. m :
           r[j] = IF j < at THEN best[j] ELSE IF j = at THEN new ELSE best[j - 1]
    BY <1>1, <2>5, <2>6, <2>7
  <2>9. \A i \in 1 .. n : best[i].score \in Int
    BY <1>1 DEF Placed
  <2>10. new.id = k /\ new.score = score /\ score \in Int
    BY <1>1 DEF new
  <2>11. \A i \in 1 .. n : at <= i => score >= best[i].score
    <3> SUFFICES ASSUME NEW i \in 1 .. n, at <= i PROVE score >= best[i].score
      OBVIOUS
    <3>1. at \in Lower
      <4>1. at # n + 1
        BY <1>1, <2>2
      <4> QED
        BY <2>3, <4>1
    <3>2. score >= best[at].score /\ at \in 1 .. n
      BY <3>1
    <3>3. best[at].score >= best[i].score
      <4>1. CASE at = i
        BY <2>9, <4>1
      <4>2. CASE at # i
        BY <1>1, <2>2, <3>2, <4>2
      <4> QED
        BY <4>1, <4>2
    <3> QED
      BY <2>9, <2>10, <3>2, <3>3
  <2>12. \A i \in 1 .. n : i < at => best[i].score > score
    <3> SUFFICES ASSUME NEW i \in 1 .. n, i < at PROVE best[i].score > score
      OBVIOUS
    <3>1. i \notin Lower
      BY <2>2
    <3> QED
      BY <2>9, <2>10, <3>1
  <2> HIDE DEF Lower
  <2>13. ASSUME NEW i \in 1 .. m, NEW j \in 1 .. m, i < j PROVE r[i].score >= r[j].score
    <3>1. at \in Nat /\ i \in Nat /\ j \in Nat /\ i >= 1 /\ j <= n + 1
      BY <1>1, <2>2, <2>6
    <3>2. CASE j < at
      <4>1. i \in 1 .. n /\ j \in 1 .. n /\ i < at
        BY <1>1, <2>2, <2>13, <3>1, <3>2
      <4>2. r[i] = best[i] /\ r[j] = best[j]
        BY <2>8, <3>2, <4>1
      <4> QED
        BY <1>1, <2>13, <4>1, <4>2
    <3>3. CASE j = at
      <4>1. i \in 1 .. n /\ i < at /\ ~(j < at)
        BY <1>1, <2>2, <2>13, <3>1, <3>3
      <4>2. r[i] = best[i] /\ r[j] = new
        BY <2>8, <3>3, <4>1
      <4> QED
        BY <2>9, <2>10, <2>12, <4>1, <4>2
    <3>4. CASE j > at
      <4>1. j - 1 \in 1 .. n /\ ~(j < at) /\ j # at /\ at <= j - 1
        BY <1>1, <2>2, <3>1, <3>4
      <4>2. r[j] = best[j - 1] /\ best[j - 1].score \in Int
        BY <2>8, <2>9, <4>1
      <4>3. CASE i < at
        <5>1. i \in 1 .. n /\ i < j - 1
          BY <1>1, <3>1, <4>1, <4>3
        <5>2. r[i] = best[i]
          BY <2>8, <4>3
        <5> QED
          BY <1>1, <4>1, <4>2, <5>1, <5>2
      <4>4. CASE i = at
        <5>1. r[i] = new
          BY <2>8, <3>1, <4>4
        <5> QED
          BY <2>10, <2>11, <4>1, <4>2, <5>1
      <4>5. CASE i > at
        <5>1. i - 1 \in 1 .. n /\ ~(i < at) /\ i # at /\ i - 1 < j - 1
          BY <1>1, <2>2, <2>13, <3>1, <4>5
        <5>2. r[i] = best[i - 1]
          BY <2>8, <5>1
        <5> QED
          BY <1>1, <4>1, <4>2, <5>1, <5>2
      <4> QED
        BY <3>1, <4>3, <4>4, <4>5
    <3> QED
      BY <3>1, <3>2, <3>3, <3>4
  <2>14. Descends(r)
    BY <2>6, <2>7, <2>13 DEF Descends
  <2>15. Has(r, k, score)
    <3>1. CASE at <= m
      <4>1. at \in 1 .. m /\ at \in 1 .. Len(r)
        BY <2>2, <2>6, <2>7, <3>1
      <4>2. r[at] = new
        BY <2>2, <2>8, <4>1
      <4> QED
        BY <2>10, <4>1, <4>2 DEF Has
    <3>2. CASE ~(at <= m)
      <4>1. m = Limit /\ n = Limit /\ at = n + 1 /\ Limit \in 1 .. n /\ Limit \in 1 .. m
        BY <1>1, <2>2, <2>6, <3>2
      <4>2. Limit < at
        BY <1>1, <4>1
      <4>3. r[Limit] = best[Limit] /\ best[Limit].score > score
        BY <2>8, <2>12, <4>1, <4>2
      <4>4. best[Limit].score >= score
        BY <2>9, <2>10, <4>1, <4>3
      <4> QED
        BY <2>7, <4>1, <4>3, <4>4 DEF Has
    <3> QED
      BY <3>1, <3>2
  <2>16. ASSUME m = Limit, NEW i \in 1 .. n PROVE i >= Limit => r[Limit].score >= best[i].score
    <3> SUFFICES ASSUME i >= Limit PROVE r[Limit].score >= best[i].score
      OBVIOUS
    <3>1. i = Limit /\ n = Limit /\ Limit \in 1 .. m
      BY <1>1, <2>6, <2>16
    <3>2. CASE Limit < at
      <4>1. r[Limit] = best[Limit]
        BY <2>8, <3>1, <3>2
      <4> QED
        BY <2>9, <3>1, <4>1
    <3>3. CASE Limit = at
      <4>1. r[Limit] = new
        BY <1>1, <2>8, <3>1, <3>3
      <4>2. at <= i
        BY <1>1, <3>1, <3>3
      <4> QED
        BY <2>10, <2>11, <4>1, <4>2
    <3>4. CASE Limit > at
      <4>1. ~(Limit < at) /\ Limit # at /\ Limit - 1 \in 1 .. n /\ Limit - 1 < Limit
        BY <1>1, <2>2, <3>1, <3>4
      <4>2. r[Limit] = best[Limit - 1]
        BY <2>8, <3>1, <4>1
      <4> QED
        BY <1>1, <3>1, <4>1, <4>2
    <3> QED
      BY <1>1, <2>2, <3>2, <3>3, <3>4
  <2>17. ASSUME NEW x \in Keys, NEW y \in -1 .. MaxScore, Has(best, x, y) PROVE Has(r, x, y)
    <3>1. ASSUME NEW i \in 1 .. n, best[i].id = x /\ best[i].score = y PROVE Has(r, x, y)
      <4> DEFINE j == IF i < at THEN i ELSE i + 1
      <4>1. CASE j <= m
        <5>1. j \in 1 .. m /\ r[j] = best[i]
          <6>1. CASE i < at
            <7>1. j = i
              BY <6>1
            <7> HIDE DEF j
            <7> QED
              BY <1>1, <2>6, <2>8, <4>1, <6>1, <7>1
          <6>2. CASE ~(i < at)
            <7>1. j = i + 1
              BY <6>2
            <7> HIDE DEF j
            <7>2. j \in 1 .. m /\ ~(j < at) /\ j # at /\ j - 1 = i
              BY <1>1, <2>2, <2>6, <4>1, <6>2, <7>1
            <7> QED
              BY <2>8, <7>2
          <6> QED
            BY <6>1, <6>2
        <5> QED
          BY <2>7, <3>1, <5>1 DEF Has
      <4>2. CASE ~(j <= m)
        <5>1. m = Limit /\ i >= Limit
          <6>1. j = i \/ j = i + 1
            OBVIOUS
          <6> HIDE DEF j
          <6> QED
            BY <1>1, <2>6, <4>2, <6>1
        <5>2. r[Limit].score >= best[i].score
          BY <2>16, <5>1
        <5> QED
          BY <2>7, <3>1, <5>1, <5>2 DEF Has
      <4> QED
        BY <4>1, <4>2
    <3>2. CASE n = Limit /\ best[Limit].score >= y
      <4>1. m = Limit /\ Limit \in 1 .. n /\ Limit \in 1 .. m
        BY <1>1, <2>6, <3>2
      <4>2. r[Limit].score >= best[Limit].score
        BY <1>1, <2>16, <4>1
      <4>3. r[Limit].score \in Int /\ best[Limit].score \in Int
        <5>1. r[Limit] \in Placed
          BY <2>7, <4>1, ElementOfSeq
        <5> QED
          BY <1>1, <2>9, <4>1, <5>1 DEF Placed
      <4>4. r[Limit].score >= y
        BY <1>1, <3>2, <4>2, <4>3
      <4> QED
        BY <2>7, <4>1, <4>4 DEF Has
    <3> QED
      BY <2>17, <3>1, <3>2 DEF Has
  <2> QED
    BY <2>14, <2>15, <2>17 DEF r
<1> QED
  BY <1>2, <1>3

\* f ranks the first m of the hits one behind the other.
Ranks(f, m, l, best, hits) ==
    f = [n \in 0 .. m |->
            IF n = 0 THEN best ELSE Ranked(f[n - 1], hits[n], l[hits[n]].score)]

\* Ranking is a ranking of its hits.
LEMMA RankingExists ==
    ASSUME NEW l, NEW best, NEW hits, NEW m \in Nat
    PROVE  \E f : Ranks(f, m, l, best, hits)
<1> DEFINE Step(g, n) == Ranked(g, hits[n], l[hits[n]].score)
           T == {k \in Nat : ~ \E f : Ranks(f, k, l, best, hits)}
<1>1. CASE T = {}
  BY <1>1
<1>2. CASE T # {}
  <2>1. PICK k \in T : \A j \in T : k <= j
    <3>1. T \in SUBSET Nat
      OBVIOUS
    <3> HIDE DEF T
    <3> QED
      BY <1>2, <3>1, LeastOf
  <2>2. k \in Nat /\ ~ \E f : Ranks(f, k, l, best, hits)
    BY <2>1
  <2>3. CASE k = 0
    <3> DEFINE f == [n \in 0 .. 0 |-> best]
    <3>1. f = [n \in 0 .. 0 |-> IF n = 0 THEN best ELSE Step(f[n - 1], n)]
      OBVIOUS
    <3> HIDE DEF f
    <3>2. Ranks(f, 0, l, best, hits)
      BY <3>1 DEF Ranks
    <3> QED
      BY <2>2, <2>3, <3>2
  <2>4. CASE k # 0
    <3>1. k - 1 \in Nat /\ k - 1 \notin T
      BY <2>1, <2>2, <2>4
    <3>2. PICK g : Ranks(g, k - 1, l, best, hits)
      BY <3>1
    <3>3. \A n \in 0 .. k - 1 : g[n] = IF n = 0 THEN best ELSE Step(g[n - 1], n)
      BY <3>2 DEF Ranks
    <3> DEFINE f == [n \in 0 .. k |-> IF n = k THEN Step(g[k - 1], k) ELSE g[n]]
    <3>4. ASSUME NEW n \in 0 .. k PROVE f[n] = IF n = 0 THEN best ELSE Step(f[n - 1], n)
      <4> HIDE DEF Step
      <4>1. CASE n = k
        <5>1. k - 1 \in 0 .. k /\ k - 1 # k
          BY <2>2, <2>4
        <5>2. f[k - 1] = g[k - 1] /\ f[k] = Step(g[k - 1], k)
          BY <2>2, <5>1
        <5> QED
          BY <2>4, <4>1, <5>2
      <4>2. CASE n # k
        <5>1. n \in 0 .. k - 1 /\ f[n] = g[n]
          BY <2>2, <4>2
        <5>2. CASE n = 0
          BY <3>3, <5>1, <5>2
        <5>3. CASE n # 0
          <6>1. n - 1 \in 0 .. k /\ n - 1 # k
            BY <2>2, <5>1, <5>3
          <6>2. f[n - 1] = g[n - 1]
            BY <6>1
          <6> QED
            BY <3>3, <5>1, <5>3, <6>2
        <5> QED
          BY <5>2, <5>3
      <4> QED
        BY <4>1, <4>2
    <3>5. f = [n \in 0 .. k |-> f[n]]
      OBVIOUS
    <3> HIDE DEF f
    <3>6. f = [n \in 0 .. k |-> IF n = 0 THEN best ELSE Step(f[n - 1], n)]
      <4> HIDE DEF Step
      <4> QED
        BY <3>4, <3>5
    <3>7. Ranks(f, k, l, best, hits)
      BY <3>6 DEF Ranks
    <3> QED
      BY <2>2, <3>7
  <2> QED
    BY <2>3, <2>4
<1> QED
  BY <1>1, <1>2

\* A ranking that is gone on with keeps what it has, and takes the new entries.
RankedSo(b, best, l, hits, n) ==
    /\ Descends(b)
    /\ \A i \in 1 .. n : l[hits[i]].score >= 0 => Has(b, hits[i], l[hits[i]].score)
    /\ \A x \in Keys : \A y \in -1 .. MaxScore : Has(best, x, y) => Has(b, x, y)

\* It keeps what it had before the hits, and takes each of them.
LEMMA RankingKeeps ==
    ASSUME ReadsAssumption, NEW l, NEW best, Descends(best), NEW hits \in Seq(Keys),
           \A i \in 1 .. Len(hits) : l[hits[i]].score \in -1 .. MaxScore
    PROVE  RankedSo(Ranking(l, best, hits), best, l, hits, Len(hits))
<1> DEFINE m == Len(hits)
           Step(g, n) == Ranked(g, hits[n], l[hits[n]].score)
           f == CHOOSE f : f = [n \in 0 .. m |-> IF n = 0 THEN best ELSE Step(f[n - 1], n)]
<1>1. Ranking(l, best, hits) = f[m]
  BY DEF Ranking
<1>2. m \in Nat /\ \A i \in 1 .. m : hits[i] \in Keys
  BY LenProperties, ElementOfSeq
<1>3. f = [n \in 0 .. m |-> IF n = 0 THEN best ELSE Step(f[n - 1], n)]
  <2>1. \E g : g = [n \in 0 .. m |-> IF n = 0 THEN best ELSE Step(g[n - 1], n)]
    <3>1. m \in Nat
      BY <1>2
    <3> HIDE DEF m
    <3>2. PICK g : Ranks(g, m, l, best, hits)
      BY <3>1, RankingExists
    <3>3. g = [n \in 0 .. m |-> IF n = 0 THEN best ELSE Step(g[n - 1], n)]
      BY <3>2 DEF Ranks
    <3> QED
      BY <3>3
  <2> HIDE DEF m, Step
  <2> QED
    BY <2>1
<1> HIDE DEF f
<1>4. f[0] = best /\ \A n \in 1 .. m : f[n] = Step(f[n - 1], n)
  <2> HIDE DEF Step
  <2>1. 0 \in 0 .. m
    BY <1>2
  <2>2. ASSUME NEW n \in 1 .. m PROVE f[n] = Step(f[n - 1], n)
    <3>1. n \in 0 .. m /\ n # 0
      BY <1>2
    <3> QED
      BY <1>3, <3>1
  <2>3. f[0] = best
    BY <1>3, <2>1
  <2> QED
    BY <2>2, <2>3
<1> DEFINE So(n) == RankedSo(f[n], best, l, hits, n)
           T == {n \in 0 .. m : ~So(n)}
<1>5. CASE T = {}
  BY <1>1, <1>2, <1>5
<1>6. CASE T # {}
  <2>1. PICK n \in T : \A j \in T : n <= j
    <3>1. T \in SUBSET Nat
      BY <1>2
    <3> HIDE DEF T
    <3> QED
      BY <1>6, <3>1, LeastOf
  <2>2. n \in 0 .. m /\ ~So(n) /\ n \in Nat
    BY <1>2, <2>1
  <2>3. CASE n = 0
    BY <1>4, <2>2, <2>3 DEF RankedSo
  <2>4. CASE n # 0
    <3>1. n - 1 \in 0 .. m /\ n - 1 \notin T /\ n \in 1 .. m
      BY <1>2, <2>1, <2>2, <2>4
    <3>2. So(n - 1)
      BY <3>1
    <3> DEFINE k == hits[n]
               score == l[k].score
               b == f[n - 1]
    <3>3. k \in Keys /\ score \in -1 .. MaxScore
      BY <1>2, <3>1
    <3>4. f[n] = Ranked(b, k, score)
      BY <1>4, <3>1
    <3>5. Descends(b)
      BY <3>2 DEF RankedSo
    <3> HIDE DEF b, score, k
    <3>6. /\ Descends(f[n])
          /\ score >= 0 => Has(f[n], k, score)
          /\ \A x \in Keys : \A y \in -1 .. MaxScore : Has(b, x, y) => Has(f[n], x, y)
      BY <3>3, <3>4, <3>5, RankedKeeps
    <3>7. ASSUME NEW i \in 1 .. n, l[hits[i]].score >= 0 PROVE Has(f[n], hits[i], l[hits[i]].score)
      <4>1. CASE i = n
        BY <3>6, <3>7, <4>1 DEF k, score
      <4>2. CASE i # n
        <5>1. i \in 1 .. n - 1 /\ i \in 1 .. m
          BY <1>2, <2>2, <4>2
        <5>2. Has(b, hits[i], l[hits[i]].score)
          BY <3>2, <3>7, <5>1 DEF RankedSo, b
        <5>3. hits[i] \in Keys /\ l[hits[i]].score \in -1 .. MaxScore
          BY <1>2, <5>1
        <5> QED
          BY <3>6, <5>2, <5>3
      <4> QED
        BY <4>1, <4>2
    <3>8. ASSUME NEW x \in Keys, NEW y \in -1 .. MaxScore, Has(best, x, y) PROVE Has(f[n], x, y)
      <4>1. Has(b, x, y)
        BY <3>2, <3>8 DEF RankedSo, b
      <4> QED
        BY <3>6, <4>1
    <3>9. So(n)
      BY <3>6, <3>7, <3>8 DEF RankedSo
    <3> QED
      BY <2>2, <3>9
  <2> QED
    BY <2>3, <2>4
<1> QED
  BY <1>5, <1>6

-----------------------------------------------------------------------------
\* What an operation has to reach for as long as it reads.
Standing(op, l, m) == IF op \in MessageOps THEN m \cap Own ELSE Hits(l)

Readers == [op : ListOps \cup WalkOps, todo : {"read", "delete", "done"}, at : Nat,
            asked : BOOLEAN, page : Seq(Nat), out : Seq(Nat), best : Seq(Placed)]

\* What it has to reach is answered or ahead of it.
Reaches(r, l, m, c) ==
    /\ c \subseteq Where(r.op)
    /\ r.todo = "read" => c \subseteq Standing(r.op, l, m)
    /\ \A k \in c : k \in Range(r.out) \/ (r.todo = "read" /\ Ahead(r.op, r.at, k))

\* The ranking has what it was to reach of the entries that were read.
RanksWhatItRead(r, l, c) ==
    /\ Descends(r.best)
    /\ r.op = "rank" =>
          /\ c \subseteq Hits(l)
          /\ \A k \in c : k \in Range(r.out) /\ l[k].score >= 0 => Has(r.best, k, l[k].score)

\* A delete has what it found before it, or that is gone.
DeletesWhatItFound(r, l) ==
    r.op = "delete" =>
        /\ \A k \in Range(r.out) : l[k] # None /\ (k \in Range(r.page) \/ l[k] = Gone)
        /\ r.todo = "done" => r.page = <<>>

ReaderSound(r, l, m, c) ==
    /\ r \in Readers
    /\ OutSound(r.op, r.at, r.out)
    /\ r.op \in ListOps => r.at = NextOf(0, r.out)
    /\ r.todo = "delete" => r.op = "delete"
    /\ Reaches(r, l, m, c)
    /\ RanksWhatItRead(r, l, c)
    /\ DeletesWhatItFound(r, l)

\* The invariant of the reads of the log.
LogReadsInv ==
    /\ log \in [Keys -> Rows \cup {None, Gone}]
    /\ messages \in SUBSET (1 .. LastKey)
    /\ reader # None => ReaderSound(reader, log, messages, constant)

\* It says that what an operation answered is whole.
LEMMA InvReadsWhole ==
    ASSUME ReadsAssumption, LogReadsInv PROVE LogIsReadWhole
<1> SUFFICES ASSUME reader # None, reader.todo = "done" PROVE LogIsReadWhole
  BY DEF LogIsReadWhole, PagesReachAll, WalksReachAll, Finished
<1>1. /\ reader \in Readers
      /\ OutSound(reader.op, reader.at, reader.out)
      /\ Reaches(reader, log, messages, constant)
      /\ RanksWhatItRead(reader, log, constant)
      /\ DeletesWhatItFound(reader, log)
  BY DEF LogReadsInv, ReaderSound
<1>2. constant \subseteq Range(reader.out)
  BY <1>1 DEF Reaches
<1>3. Where(reader.op) \in SUBSET (Nat \ {0})
  BY WhereIs
<1>4. \A i \in 1 .. Len(reader.out) : reader.out[i] \in Nat \ {0}
  BY <1>1, <1>3, ElementOfSeq DEF OutSound
<1>5. \A i, j \in 1 .. Len(reader.out) : i < j =>
         IF reader.op \in Downwards THEN reader.out[i] > reader.out[j]
                                    ELSE reader.out[i] < reader.out[j]
  BY <1>1, <1>4 DEF OutSound, InOrderOf, Ahead
<1>6. PagesReachAll
  BY <1>2, <1>5 DEF PagesReachAll, Finished, ListOps, Downwards
<1>7. \A op \in WalkOps : Finished(op) =>
         /\ constant \subseteq Range(reader.out)
         /\ \A i, j \in 1 .. Len(reader.out) : i < j => reader.out[i] < reader.out[j]
  BY <1>2, <1>5 DEF Finished, WalkOps, Downwards
<1>8. ASSUME Finished("rank")
      PROVE  /\ \A i, j \in 1 .. Len(reader.best) :
                   i < j => reader.best[i].score >= reader.best[j].score
             /\ \A k \in constant : log[k].score >= 0 =>
                   \/ \E i \in 1 .. Len(reader.best) : reader.best[i].id = k
                   \/ /\ Len(reader.best) = Limit
                      /\ reader.best[Limit].score >= log[k].score
  BY <1>1, <1>2, <1>8 DEF Finished, RanksWhatItRead, Descends, Has
<1>9. ASSUME Finished("delete") PROVE Range(reader.out) \cap Here(log) = {}
  <2>1. reader.page = <<>> /\ Range(<<>>) = {}
    BY <1>1, <1>9 DEF Finished, DeletesWhatItFound, Range
  <2>2. \A k \in Range(reader.out) : log[k] = Gone
    BY <1>1, <1>9, <2>1 DEF Finished, DeletesWhatItFound
  <2> QED
    BY <2>2 DEF Here
<1> QED
  BY <1>6, <1>7, <1>8, <1>9 DEF LogIsReadWhole, WalksReachAll

\* None and Gone are not rows.
LEMMA NoRows ==
    ASSUME ReadsAssumption PROVE None \notin Rows /\ Gone \notin Rows /\ None # Gone
BY DEF ReadsAssumption, Rows

\* The log and the messages may change while an operation reads.
LEMMA ChangesMeanwhile ==
    ASSUME ReadsAssumption, LogReadsInv, reader' = reader, constant' = Keeps(log', messages'),
           log' \in [Keys -> Rows \cup {None, Gone}], messages' \in SUBSET (1 .. LastKey),
           \A k \in Keys : \/ log'[k] = log[k]
                           \/ log[k] = None
                           \/ log[k] # Gone /\ log'[k] # None
    PROVE  LogReadsInv'
<1> SUFFICES ASSUME reader # None
             PROVE  ReaderSound(reader, log', messages', constant')
  BY DEF LogReadsInv
<1> DEFINE r == reader
<1>1. /\ r \in Readers
      /\ OutSound(r.op, r.at, r.out)
      /\ r.op \in ListOps => r.at = NextOf(0, r.out)
      /\ r.todo = "delete" => r.op = "delete"
      /\ Reaches(r, log, messages, constant)
      /\ RanksWhatItRead(r, log, constant)
      /\ DeletesWhatItFound(r, log)
  BY DEF LogReadsInv, ReaderSound
<1>2. constant' \subseteq constant /\ constant' \subseteq Standing(r.op, log', messages')
  <2>1. constant \subseteq Where(r.op)
    BY <1>1 DEF Reaches
  <2>2. CASE r.op \in MessageOps
    BY <2>1, <2>2 DEF Keeps, Standing, Where, MessageOps
  <2>3. CASE r.op \notin MessageOps
    BY <2>3 DEF Keeps, Standing, MessageOps
  <2> QED
    BY <2>2, <2>3
<1>3. Reaches(r, log', messages', constant')
  BY <1>1, <1>2 DEF Reaches
<1>4. RanksWhatItRead(r, log', constant')
  <2>1. ASSUME r.op = "rank"
        PROVE  /\ constant' \subseteq Hits(log')
               /\ \A k \in constant' : log'[k].score = log[k].score
    BY <2>1 DEF Keeps
  <2> QED
    BY <1>1, <1>2, <2>1 DEF RanksWhatItRead
<1>5. DeletesWhatItFound(r, log')
  <2> SUFFICES ASSUME r.op = "delete", NEW k \in Range(r.out)
               PROVE  log'[k] # None /\ (k \in Range(r.page) \/ log'[k] = Gone)
    BY <1>1 DEF DeletesWhatItFound
  <2>1. log[k] # None /\ (k \in Range(r.page) \/ log[k] = Gone)
    BY <1>1 DEF DeletesWhatItFound
  <2>2. k \in Keys
    <3>1. r.out \in Seq(Keys)
      BY <1>1 DEF OutSound, Where, MessageOps
    <3>2. PICK i \in 1 .. Len(r.out) : r.out[i] = k
      BY <3>1, LenProperties DEF Range
    <3> QED
      BY <3>1, <3>2, ElementOfSeq
  <2> QED
    BY <2>1, <2>2, NoRows
<1> QED
  BY <1>1, <1>3, <1>4, <1>5 DEF ReaderSound

\* An entry is put, changed or deleted.
LEMMA LogChanges ==
    ASSUME ReadsAssumption, LogReadsInv, NEW k \in Keys, NEW v,
           (log[k] = None /\ v \in Rows) \/ (k \in Here(log) /\ v \in Rows \cup {Gone}),
           log' = [log EXCEPT ![k] = v], constant' = Keeps(log', messages),
           messages' = messages, reader' = reader
    PROVE  LogReadsInv'
<1>1. log \in [Keys -> Rows \cup {None, Gone}] /\ messages \in SUBSET (1 .. LastKey)
  BY DEF LogReadsInv
<1>2. log' \in [Keys -> Rows \cup {None, Gone}]
  BY <1>1
<1>3. \A x \in Keys : \/ log'[x] = log[x]
                      \/ log[x] = None
                      \/ log[x] # Gone /\ log'[x] # None
  BY <1>1, NoRows DEF Here
<1>4. constant' = Keeps(log', messages') /\ messages' \in SUBSET (1 .. LastKey)
  BY <1>1
<1> QED
  BY <1>2, <1>3, <1>4, ChangesMeanwhile

\* Messages are put or deleted.
LEMMA MessagesChange ==
    ASSUME ReadsAssumption, LogReadsInv, messages' \in SUBSET (1 .. LastKey),
           constant' = Keeps(log, messages'), log' = log, reader' = reader
    PROVE  LogReadsInv'
<1>1. log' \in [Keys -> Rows \cup {None, Gone}] /\ constant' = Keeps(log', messages')
  BY DEF LogReadsInv
<1> QED
  BY <1>1, ChangesMeanwhile

\* An operation begins with all of it ahead.
LEMMA BeginStep ==
    ASSUME ReadsAssumption, LogReadsInv, NEW op \in ListOps \cup WalkOps,
           Begin(op, Standing(op, log, messages))
    PROVE  LogReadsInv'
<1> DEFINE r == reader'
           c == Standing(op, log, messages)
<1>1. /\ log \in [Keys -> Rows \cup {None, Gone}] /\ messages \in SUBSET (1 .. LastKey)
      /\ log' = log /\ messages' = messages /\ constant' = c
  BY DEF LogReadsInv, Begin
<1>2. r = [op |-> op, todo |-> "read", at |-> 0, asked |-> FALSE,
           page |-> <<>>, out |-> <<>>, best |-> <<>>]
  BY DEF Begin
<1>3. r \in Readers
  BY <1>2 DEF Readers
<1>4. /\ r.op = op /\ r.todo = "read" /\ r.at = 0 /\ r.page = <<>> /\ r.out = <<>> /\ r.best = <<>>
  BY <1>2
<1> HIDE DEF r
<1>5. OutSound(r.op, r.at, r.out)
  BY <1>4 DEF OutSound, InOrderOf
<1>6. Where(op) \in SUBSET (Nat \ {0})
  BY WhereIs
<1>7. c \subseteq Where(op)
  BY DEF Standing, Where, Hits, Here
<1>8. Reaches(r, log, messages, c)
  <2>1. \A k \in c : Ahead(op, 0, k)
    BY <1>6, <1>7 DEF Ahead
  <2> QED
    BY <1>4, <1>7, <2>1 DEF Reaches
<1>9. Range(r.out) = {}
  BY <1>4 DEF Range
<1>10. RanksWhatItRead(r, log, c)
  <2>1. Descends(r.best)
    BY <1>4 DEF Descends, ReadsAssumption
  <2>2. op = "rank" => c \subseteq Hits(log)
    BY DEF Standing, MessageOps
  <2> HIDE DEF c
  <2> QED
    BY <1>4, <1>9, <2>1, <2>2 DEF RanksWhatItRead
<1>11. DeletesWhatItFound(r, log)
  BY <1>4, <1>9 DEF DeletesWhatItFound
<1>12. r.at = NextOf(0, r.out)
  BY <1>4 DEF NextOf
<1> HIDE DEF c
<1>13. ReaderSound(r, log, messages, c)
  BY <1>3, <1>4, <1>5, <1>8, <1>10, <1>11, <1>12 DEF ReaderSound
<1> QED
  BY <1>1, <1>13 DEF LogReadsInv, r

\* The rows of an answer.
LEMMA RowsAreNumbers ==
    ASSUME ReadsAssumption, NEW op, NEW rows \in Seq(Where(op))
    PROVE  rows \in Seq(Nat)
<1>1. Where(op) \subseteq Nat
  BY WhereIs
<1> QED
  BY <1>1, SeqMonotonic

\* What is to be reached stays answered or ahead.
LEMMA ReachGoesOn ==
    ASSUME ReadsAssumption, NEW r, NEW l, NEW m, NEW c, Reaches(r, l, m, c), r.todo = "read",
           OutSound(r.op, r.at, r.out),
           NEW rows, NEW more, NEW next,
           Serves(r.op, r.at, Standing(r.op, l, m), rows, more, next)
    PROVE  \A k \in c : k \in Range(r.out \o rows) \/ (more /\ Ahead(r.op, next, k))
<1> SUFFICES ASSUME NEW k \in c
             PROVE  k \in Range(r.out \o rows) \/ (more /\ Ahead(r.op, next, k))
  OBVIOUS
<1>1. Range(r.out \o rows) = Range(r.out) \cup Range(rows)
  BY AnswersJoin
<1>2. k \in Range(r.out) \/ Ahead(r.op, r.at, k)
  BY DEF Reaches
<1>3. CASE k \in Range(r.out)
  BY <1>1, <1>3
<1>4. CASE Ahead(r.op, r.at, k)
  <2>1. k \in Standing(r.op, l, m)
    BY DEF Reaches
  <2>2. (\E i \in 1 .. Len(rows) : rows[i] = k) \/ (more /\ Ahead(r.op, next, k))
    BY <1>4, <2>1 DEF Serves
  <2>3. DOMAIN rows = 1 .. Len(rows)
    BY LenProperties DEF Serves
  <2> QED
    BY <1>1, <2>2, <2>3 DEF Range
<1> QED
  BY <1>2, <1>3, <1>4

\* A page of a list goes behind the ones before it.
LEMMA AnswerStep ==
    ASSUME ReadsAssumption, LogReadsInv, reader # None, reader.op \in ListOps,
           reader.todo = "read", NEW a, Answer(a),
           Serves(reader.op, reader.at, Standing(reader.op, log, messages), a.rows, a.more,
                  NextOf(reader.at, a.rows))
    PROVE  LogReadsInv'
<1> DEFINE r == reader
           s == reader'
           rows == a.rows
           next == NextOf(r.at, rows)
           all == r.out \o rows
<1>1. /\ r \in Readers
      /\ OutSound(r.op, r.at, r.out)
      /\ r.at = NextOf(0, r.out)
      /\ Reaches(r, log, messages, constant)
      /\ RanksWhatItRead(r, log, constant)
  BY DEF LogReadsInv, ReaderSound
<1>2. /\ rows \in Seq(Where(r.op)) /\ r.out \in Seq(Where(r.op))
  BY <1>1 DEF Serves, OutSound
<1>3. OutSound(r.op, next, all)
  BY <1>1, AnswersJoin
<1>4. next = IF all = <<>> THEN 0 ELSE all[Len(all)]
  BY <1>1, <1>2, LastOfBoth
<1>5. s = [r EXCEPT !.asked = TRUE, !.page = rows, !.out = all,
                    !.at = next, !.todo = IF a.more THEN "read" ELSE "done"]
  BY <1>4 DEF Answer
<1>6. /\ log' = log /\ messages' = messages /\ constant' = constant
      /\ log \in [Keys -> Rows \cup {None, Gone}] /\ messages \in SUBSET (1 .. LastKey)
  BY DEF Answer, LogReadsInv
<1>7. rows \in Seq(Nat) /\ all \in Seq(Nat) /\ next \in Nat
  <2>1. Where(r.op) \in SUBSET (Nat \ {0})
    BY WhereIs
  <2>2. all \in Seq(Where(r.op)) /\ next \in Where(r.op) \cup {0}
    BY <1>3 DEF OutSound
  <2> HIDE DEF all, rows, next
  <2> QED
    BY <1>2, <2>1, <2>2, RowsAreNumbers
<1>8. \A k \in constant : k \in Range(all) \/ (a.more /\ Ahead(r.op, next, k))
  <2>1. /\ ReadsAssumption /\ r.todo = "read"
        /\ Serves(r.op, r.at, Standing(r.op, log, messages), rows, a.more, next)
    OBVIOUS
  <2> HIDE DEF r, rows, next
  <2> QED
    BY ONLY <1>1, <2>1, ReachGoesOn
<1>9. next = NextOf(0, all)
  BY <1>4 DEF NextOf
<1> HIDE DEF all, rows, next
<1>10. /\ s \in Readers /\ s.op = r.op /\ s.out = all /\ s.at = next /\ s.best = r.best
       /\ s.todo = IF a.more THEN "read" ELSE "done"
  BY <1>1, <1>5, <1>7 DEF Readers
<1> HIDE DEF s
<1>11. OutSound(s.op, s.at, s.out)
  BY <1>3, <1>10
<1>12. Reaches(s, log, messages, constant)
  BY <1>1, <1>8, <1>10 DEF Reaches
<1>13. RanksWhatItRead(s, log, constant) /\ DeletesWhatItFound(s, log)
  BY <1>1, <1>10 DEF RanksWhatItRead, DeletesWhatItFound, ListOps
<1>14. ReaderSound(s, log, messages, constant)
  BY <1>9, <1>10, <1>11, <1>12, <1>13 DEF ReaderSound
<1> QED
  BY <1>6, <1>14 DEF LogReadsInv, s

\* A transaction of a walk goes behind the ones before it.
LEMMA EachStepKeeps ==
    ASSUME ReadsAssumption, LogReadsInv, EachStep
    PROVE  LogReadsInv'
<1> DEFINE r == reader
           s == reader'
           page == EachFrom(log, r.at)
           hits == InOrder({k \in Range(page) : log[k].hit})
           next == NextOf(r.at, page)
           all == r.out \o hits
           best == Ranking(log, r.best, hits)
           full == Len(page) = EachPage
<1>1. r # None /\ r.op \in WalkOps /\ r.todo = "read"
  BY DEF EachStep, Reads
<1>2. /\ r \in Readers
      /\ OutSound(r.op, r.at, r.out)
      /\ Reaches(r, log, messages, constant)
      /\ RanksWhatItRead(r, log, constant)
      /\ DeletesWhatItFound(r, log)
  BY <1>1 DEF LogReadsInv, ReaderSound
<1>3. /\ log' = log /\ messages' = messages /\ constant' = constant
      /\ log \in [Keys -> Rows \cup {None, Gone}] /\ messages \in SUBSET (1 .. LastKey)
  BY DEF EachStep, LogReadsInv
<1>4. s = [r EXCEPT !.at = next, !.out = all, !.best = best,
                    !.todo = IF full THEN "read"
                             ELSE IF r.op = "delete" THEN "delete" ELSE "done",
                    !.page = IF r.op = "delete" THEN r.page \o hits ELSE r.page]
  BY DEF EachStep, NextOf
<1>5. r.op \notin MessageOps /\ Where(r.op) = Keys /\ Standing(r.op, log, messages) = Hits(log)
  BY <1>1 DEF WalkOps, MessageOps, Where, Standing
<1>6. r.at \in Keys \cup {0} /\ r.out \in Seq(Keys)
  BY <1>2, <1>5 DEF OutSound
<1>7. /\ Serves(r.op, r.at, Hits(log), hits, full, next)
      /\ Range(hits) \subseteq Hits(log)
  BY <1>1, <1>6, EachServes
<1> HIDE DEF page, hits, best, next, full
<1>8. /\ hits \in Seq(Keys) /\ DOMAIN hits = 1 .. Len(hits)
      /\ \A i \in 1 .. Len(hits) : hits[i] \in Keys
  BY <1>5, <1>7, LenProperties, ElementOfSeq DEF Serves
<1>9. \A i \in 1 .. Len(hits) : log[hits[i]] \in Rows /\ hits[i] \in Hits(log)
  <2> TAKE i \in 1 .. Len(hits)
  <2>1. hits[i] \in Hits(log)
    BY <1>7, <1>8 DEF Range
  <2> QED
    BY <1>3, <2>1 DEF Hits, Here
<1>10. OutSound(r.op, next, all) /\ Range(all) = Range(r.out) \cup Range(hits)
  BY <1>2, <1>7, AnswersJoin
<1>11. \A k \in constant : k \in Range(all) \/ (full /\ Ahead(r.op, next, k))
  <2>1. /\ ReadsAssumption /\ r.todo = "read"
        /\ Serves(r.op, r.at, Standing(r.op, log, messages), hits, full, next)
    BY <1>1, <1>5, <1>7
  <2> HIDE DEF r
  <2> QED
    BY ONLY <1>2, <2>1, ReachGoesOn
<1> HIDE DEF all
<1>12. RankedSo(best, r.best, log, hits, Len(hits))
  <2>1. \A i \in 1 .. Len(hits) : log[hits[i]].score \in -1 .. MaxScore
    BY <1>9 DEF Rows
  <2>2. Descends(r.best)
    BY <1>2 DEF RanksWhatItRead
  <2> QED
    BY <1>8, <2>1, <2>2, RankingKeeps DEF best
<1>13. best \in Seq(Placed) /\ all \in Seq(Nat) /\ next \in Nat /\ hits \in Seq(Nat)
  <2>1. Keys \in SUBSET (Nat \ {0})
    BY <1>5, WhereIs
  <2>2. all \in Seq(Keys) /\ next \in Keys \cup {0}
    BY <1>5, <1>10 DEF OutSound
  <2>3. best \in Seq(Placed)
    BY <1>12 DEF RankedSo, Descends
  <2>4. all \in Seq(Nat) /\ hits \in Seq(Nat)
    BY <1>5, <1>8, <2>2, RowsAreNumbers
  <2> QED
    BY <2>1, <2>2, <2>3, <2>4
<1> DEFINE pages == IF r.op = "delete" THEN r.page \o hits ELSE r.page
<1>14. r.page \in Seq(Nat) /\ r.page \o hits \in Seq(Nat) /\ pages \in Seq(Nat)
  <2>1. r.page \in Seq(Nat)
    BY <1>2 DEF Readers
  <2> QED
    BY <1>13, <2>1, ConcatProperties
<1> HIDE DEF pages
<1>15. /\ s \in Readers /\ s.op = r.op /\ s.out = all /\ s.at = next /\ s.best = best
       /\ s.todo = IF full THEN "read" ELSE IF r.op = "delete" THEN "delete" ELSE "done"
       /\ s.page = pages
  BY <1>2, <1>4, <1>13, <1>14 DEF Readers, pages
<1> HIDE DEF s
<1>16. OutSound(s.op, s.at, s.out)
  BY <1>10, <1>15
<1>17. Reaches(s, log, messages, constant)
  BY <1>1, <1>2, <1>11, <1>15 DEF Reaches
<1>18. RanksWhatItRead(s, log, constant)
  <2>1. Descends(best)
    BY <1>12 DEF RankedSo
  <2>2. ASSUME r.op = "rank", NEW k \in constant, k \in Range(all), log[k].score >= 0
        PROVE  Has(best, k, log[k].score)
    <3>1. CASE k \in Range(hits)
      <4>1. PICK i \in 1 .. Len(hits) : hits[i] = k
        BY <1>8, <3>1 DEF Range
      <4> QED
        BY <1>12, <2>2, <4>1 DEF RankedSo
    <3>2. CASE k \in Range(r.out)
      <4>1. Has(r.best, k, log[k].score)
        BY <1>2, <2>2, <3>2 DEF RanksWhatItRead
      <4>2. k \in Keys /\ log[k] \in Rows
        BY <1>2, <1>3, <2>2 DEF RanksWhatItRead, Hits, Here
      <4>3. log[k].score \in -1 .. MaxScore
        BY <4>2 DEF Rows
      <4> QED
        BY <1>12, <4>1, <4>2, <4>3 DEF RankedSo
    <3> QED
      BY <1>10, <2>2, <3>1, <3>2
  <2>3. r.op = "rank" => constant \subseteq Hits(log)
    BY <1>2 DEF RanksWhatItRead
  <2> QED
    BY <1>15, <2>1, <2>2, <2>3 DEF RanksWhatItRead
<1>19. DeletesWhatItFound(s, log)
  <2> SUFFICES ASSUME r.op = "delete"
               PROVE  /\ \A k \in Range(all) :
                            log[k] # None /\ (k \in Range(pages) \/ log[k] = Gone)
                      /\ s.todo # "done"
    BY <1>15 DEF DeletesWhatItFound
  <2>1. s.todo # "done"
    BY <1>15
  <2>2. Range(pages) = Range(r.page) \cup Range(hits)
    BY <1>13, <1>14, JoinedRange DEF pages
  <2>3. ASSUME NEW k \in Range(hits) PROVE log[k] # None
    <3>1. PICK i \in 1 .. Len(hits) : hits[i] = k
      BY <1>8 DEF Range
    <3> QED
      BY <1>9, <3>1, NoRows
  <2> QED
    BY <1>2, <1>10, <2>1, <2>2, <2>3 DEF DeletesWhatItFound
<1>20. ReaderSound(s, log, messages, constant)
  <2>1. s.op \notin ListOps /\ (s.todo = "delete" => s.op = "delete")
    BY <1>1, <1>15 DEF WalkOps, ListOps
  <2> QED
    BY <1>15, <1>16, <1>17, <1>18, <1>19, <2>1 DEF ReaderSound
<1> QED
  BY <1>3, <1>20 DEF LogReadsInv, s

\* A chunk of a delete takes what it removes off what is left to remove.
LEMMA DeleteChunkStep ==
    ASSUME ReadsAssumption, LogReadsInv, DeleteChunk
    PROVE  LogReadsInv'
<1> DEFINE r == reader
           s == reader'
           n == Min({Chunk, Len(r.page)})
           chunk == Range(SubSeq(r.page, 1, n))
           rest == SubSeq(r.page, n + 1, Len(r.page))
<1>1. r # None /\ r.todo = "delete" /\ r.op = "delete"
  BY DEF DeleteChunk, LogReadsInv, ReaderSound
<1>2. /\ r \in Readers
      /\ OutSound(r.op, r.at, r.out)
      /\ Reaches(r, log, messages, constant)
      /\ RanksWhatItRead(r, log, constant)
      /\ DeletesWhatItFound(r, log)
  BY <1>1 DEF LogReadsInv, ReaderSound
<1>3. /\ messages' = messages /\ constant' = constant
      /\ log \in [Keys -> Rows \cup {None, Gone}] /\ messages \in SUBSET (1 .. LastKey)
  BY DEF DeleteChunk, LogReadsInv
<1>4. /\ log' = [k \in Keys |-> IF k \in chunk /\ k \in Here(log) THEN Gone ELSE log[k]]
      /\ s = [r EXCEPT !.page = rest, !.todo = IF n = Len(r.page) THEN "done" ELSE r.todo]
  BY DEF DeleteChunk
<1>5. /\ r.page \in Seq(Nat) /\ Len(r.page) \in Nat /\ n \in 0 .. Len(r.page)
      /\ DOMAIN r.page = 1 .. Len(r.page)
      /\ \A i \in 1 .. Len(r.page) : r.page[i] \in Nat
  <2>1. r.page \in Seq(Nat) /\ Chunk \in Nat
    BY <1>2 DEF Readers, ReadsAssumption
  <2>2. Len(r.page) \in Nat
    BY <2>1, LenProperties
  <2> QED
    BY <2>1, <2>2, SmallerOfTwo, LenProperties, ElementOfSeq
<1> HIDE DEF n
<1>6. /\ rest \in Seq(Nat) /\ Len(rest) = Len(r.page) - n
      /\ \A i \in 1 .. Len(r.page) - n : rest[i] = r.page[n + i]
  <2>1. \A i \in n + 1 .. Len(r.page) : r.page[i] \in Nat
    BY <1>5
  <2>2. /\ rest \in Seq(Nat)
        /\ Len(rest) = IF n + 1 <= Len(r.page) THEN Len(r.page) - (n + 1) + 1 ELSE 0
        /\ \A i \in 1 .. Len(r.page) - (n + 1) + 1 : rest[i] = r.page[n + 1 + i - 1]
    BY <1>5, <2>1, SubSeqProperties
  <2> HIDE DEF rest
  <2> QED
    BY <1>5, <2>2
<1>7. /\ Len(SubSeq(r.page, 1, n)) = n /\ SubSeq(r.page, 1, n) \in Seq(Nat)
      /\ \A i \in 1 .. n : SubSeq(r.page, 1, n)[i] = r.page[i]
  <2>1. \A i \in 1 .. n : r.page[i] \in Nat
    BY <1>5
  <2>2. /\ SubSeq(r.page, 1, n) \in Seq(Nat)
        /\ Len(SubSeq(r.page, 1, n)) = IF 1 <= n THEN n - 1 + 1 ELSE 0
        /\ \A i \in 1 .. n - 1 + 1 : SubSeq(r.page, 1, n)[i] = r.page[1 + i - 1]
    BY <1>5, <2>1, SubSeqProperties
  <2> QED
    BY <1>5, <2>2
<1>8. \A k \in Range(r.page) : k \in chunk \/ k \in Range(rest)
  <2> SUFFICES ASSUME NEW k \in Range(r.page) PROVE k \in chunk \/ k \in Range(rest)
    OBVIOUS
  <2>1. PICK i \in 1 .. Len(r.page) : r.page[i] = k
    BY <1>5 DEF Range
  <2>2. CASE i <= n
    <3>1. i \in 1 .. n /\ DOMAIN SubSeq(r.page, 1, n) = 1 .. n
      BY <1>5, <1>7, <2>2, LenProperties
    <3> QED
      BY <1>7, <2>1, <3>1 DEF Range
  <2>3. CASE ~(i <= n)
    <3>1. i - n \in 1 .. Len(r.page) - n /\ n + (i - n) = i
      BY <1>5, <2>3
    <3>2. rest[i - n] = k
      BY <1>6, <2>1, <3>1
    <3>3. DOMAIN rest = 1 .. Len(r.page) - n
      BY <1>6, LenProperties
    <3> HIDE DEF rest
    <3> QED
      BY <3>1, <3>2, <3>3 DEF Range
  <2> QED
    BY <2>2, <2>3
<1>9. n = Len(r.page) => rest = <<>>
  BY <1>5, <1>6, EmptySeq
<1> HIDE DEF chunk, rest
<1>10. log' \in [Keys -> Rows \cup {None, Gone}]
  BY <1>3, <1>4
<1>11. /\ s \in Readers /\ s.op = "delete" /\ s.out = r.out /\ s.at = r.at /\ s.best = r.best
       /\ s.page = rest /\ s.todo = IF n = Len(r.page) THEN "done" ELSE "delete"
  BY <1>1, <1>2, <1>4, <1>6 DEF Readers
<1> HIDE DEF s
<1>12. Reaches(s, log', messages, constant)
  BY <1>1, <1>2, <1>11 DEF Reaches
<1>13. RanksWhatItRead(s, log', constant)
  BY <1>2, <1>11 DEF RanksWhatItRead
<1>14. DeletesWhatItFound(s, log')
  <2> SUFFICES ASSUME NEW k \in Range(r.out)
               PROVE  log'[k] # None /\ (k \in Range(rest) \/ log'[k] = Gone)
    BY <1>9, <1>11 DEF DeletesWhatItFound
  <2>1. log[k] # None /\ (k \in Range(r.page) \/ log[k] = Gone)
    BY <1>1, <1>2 DEF DeletesWhatItFound
  <2>2. k \in Keys
    <3>1. r.out \in Seq(Keys)
      BY <1>1, <1>2 DEF OutSound, Where, MessageOps
    <3>2. PICK i \in 1 .. Len(r.out) : r.out[i] = k
      BY <3>1, LenProperties DEF Range
    <3> QED
      BY <3>1, <3>2, ElementOfSeq
  <2>3. log'[k] = IF k \in chunk /\ k \in Here(log) THEN Gone ELSE log[k]
    BY <1>4, <2>2
  <2>4. k \in chunk => log'[k] = Gone
    BY <2>1, <2>2, <2>3 DEF Here
  <2> QED
    BY <1>8, <2>1, <2>3, <2>4, NoRows
<1>15. ReaderSound(s, log', messages, constant)
  <2>1. s.op \notin ListOps /\ OutSound(s.op, s.at, s.out)
    BY <1>1, <1>2, <1>11 DEF ListOps
  <2> QED
    BY <1>11, <1>12, <1>13, <1>14, <2>1 DEF ReaderSound
<1> QED
  BY <1>3, <1>10, <1>15 DEF LogReadsInv, s

\* Steps of the log and of what reads it.
LEMMA ReadLogKeeps ==
    ASSUME ReadsAssumption, LogReadsInv, ReadLog
    PROVE  LogReadsInv'
<1>1. ASSUME NEW k \in Keys, NEW row \in Rows, Put(k, row) PROVE LogReadsInv'
  BY <1>1, LogChanges DEF Put
<1>2. ASSUME NEW k \in Keys, NEW row \in Rows, Update(k, row) PROVE LogReadsInv'
  BY <1>2, LogChanges DEF Update
<1>3. ASSUME NEW k \in Keys, Delete(k) PROVE LogReadsInv'
  BY <1>3, LogChanges DEF Delete
<1>4. CASE BeginList
  <2>1. "list" \in ListOps \cup WalkOps /\ Standing("list", log, messages) = Hits(log)
    BY DEF ListOps, Standing, MessageOps
  <2> QED
    BY <1>4, <2>1, BeginStep DEF BeginList
<1>5. CASE BeginWalk
  <2>1. PICK op \in WalkOps : Begin(op, Hits(log))
    BY <1>5 DEF BeginWalk
  <2>2. op \in ListOps \cup WalkOps /\ Standing(op, log, messages) = Hits(log)
    BY DEF WalkOps, Standing, MessageOps
  <2> QED
    BY <2>1, <2>2, BeginStep
<1>6. CASE ListPage
  <2>1. /\ reader # None /\ reader.op = "list" /\ reader.todo = "read"
        /\ Answer(WalkPage(log, reader.at))
    BY <1>6 DEF ListPage, Reads
  <2>2. reader.op \in ListOps /\ Standing(reader.op, log, messages) = Hits(log)
    BY <2>1 DEF ListOps, Standing, MessageOps
  <2>3. reader.at \in Keys \cup {0}
    BY <2>1 DEF LogReadsInv, ReaderSound, OutSound, Where, MessageOps
  <2> DEFINE a == WalkPage(log, reader.at)
  <2>4. Serves(reader.op, reader.at, Standing(reader.op, log, messages), a.rows, a.more,
               NextOf(reader.at, a.rows))
    BY <2>1, <2>2, <2>3, ListServes
  <2> HIDE DEF a
  <2> QED
    BY <2>1, <2>2, <2>4, AnswerStep DEF a
<1>7. CASE EachStep
  BY <1>7, EachStepKeeps
<1>8. CASE DeleteChunk
  BY <1>8, DeleteChunkStep
<1>9. CASE End
  BY <1>9 DEF End, LogReadsInv
<1> QED
  BY <1>1, <1>2, <1>3, <1>4, <1>5, <1>6, <1>7, <1>8, <1>9 DEF ReadLog

\* Steps of the messages and of what reads them.
LEMMA ReadMessagesKeeps ==
    ASSUME ReadsAssumption, LogReadsInv, ReadMessages
    PROVE  LogReadsInv'
<1>0. messages \in SUBSET (1 .. LastKey)
  BY DEF LogReadsInv
<1>1. ASSUME NEW k \in 1 .. LastKey, PutMessages(k) PROVE LogReadsInv'
  BY <1>0, <1>1, MessagesChange DEF PutMessages
<1>2. CASE DeleteMessages
  BY <1>0, <1>2, MessagesChange DEF DeleteMessages
<1>3. CASE BeginMessages
  <2>1. PICK op \in {"messagesAfter", "messagesBefore"} : Begin(op, messages \cap Own)
    BY <1>3 DEF BeginMessages
  <2>2. op \in ListOps \cup WalkOps /\ Standing(op, log, messages) = messages \cap Own
    BY DEF ListOps, Standing, MessageOps
  <2> QED
    BY <2>1, <2>2, BeginStep
<1>4. ASSUME NEW op \in MessageOps, Reads(op) PROVE
        /\ reader # None /\ reader.op = op /\ reader.todo = "read" /\ reader.op \in ListOps
        /\ Standing(reader.op, log, messages) = messages \cap Own
        /\ reader.at \in Own \cup {0}
  <2>1. reader # None /\ reader.op = op /\ reader.todo = "read"
    BY <1>4 DEF Reads
  <2> QED
    BY <2>1 DEF MessageOps, ListOps, Standing, LogReadsInv, ReaderSound, OutSound, Where
<1>5. CASE Reads("messagesAfter") /\ Answer(MessagesAfter(messages, reader.at))
  <2> DEFINE a == MessagesAfter(messages, reader.at)
  <2>1. /\ reader # None /\ reader.op = "messagesAfter" /\ reader.todo = "read"
        /\ reader.op \in ListOps /\ reader.at \in Own \cup {0}
        /\ Standing(reader.op, log, messages) = messages \cap Own
    BY <1>4, <1>5 DEF MessageOps
  <2>2. Serves(reader.op, reader.at, Standing(reader.op, log, messages), a.rows, a.more,
               NextOf(reader.at, a.rows))
    BY <1>0, <2>1, AfterServes
  <2> HIDE DEF a
  <2> QED
    BY <1>5, <2>1, <2>2, AnswerStep DEF a
<1>6. CASE Reads("messagesBefore") /\ Answer(MessagesBefore(messages, reader.at))
  <2> DEFINE a == MessagesBefore(messages, reader.at)
  <2>1. /\ reader # None /\ reader.op = "messagesBefore" /\ reader.todo = "read"
        /\ reader.op \in ListOps /\ reader.at \in Own \cup {0}
        /\ Standing(reader.op, log, messages) = messages \cap Own
    BY <1>4, <1>6 DEF MessageOps
  <2>2. Serves(reader.op, reader.at, Standing(reader.op, log, messages), a.rows, a.more,
               NextOf(reader.at, a.rows))
    BY <1>0, <2>1, BeforeServes
  <2> HIDE DEF a
  <2> QED
    BY <1>6, <2>1, <2>2, AnswerStep DEF a
<1>7. CASE End
  BY <1>7 DEF End, LogReadsInv
<1> QED
  BY <1>1, <1>2, <1>3, <1>5, <1>6, <1>7 DEF ReadMessages, MessagesPage

\* The log is read whole.  Who reads it in pages, or walks all of it in
\* transactions of its own, gets everything that was there and matched the whole
\* time, once and in order, whatever came and went meanwhile; a ranking has the
\* highest of it, and a delete by search leaves nothing of what it found
\* (internal/domain/reqlog/service.go, store.go).
THEOREM LogsAreReadWhole ==
    ASSUME ReadsAssumption
    PROVE  ReadsSpec => []LogIsReadWhole
<1>1. ReadsInit => LogReadsInv
  BY DEF ReadsInit, LogReadsInv
<1>2. LogReadsInv /\ [ReadsNext]_readsVars => LogReadsInv'
  <2> SUFFICES ASSUME LogReadsInv, [ReadsNext]_readsVars PROVE LogReadsInv'
    OBVIOUS
  <2>1. CASE ReadLog
    BY <2>1, ReadLogKeeps
  <2>2. CASE ReadMessages
    BY <2>2, ReadMessagesKeeps
  <2>3. CASE UNCHANGED readsVars
    BY <2>3 DEF readsVars, LogReadsInv
  <2> QED
    BY <2>1, <2>2, <2>3 DEF ReadsNext
<1>3. LogReadsInv => LogIsReadWhole
  BY InvReadsWhole
<1> QED
  BY <1>1, <1>2, <1>3, PTL DEF ReadsSpec

-----------------------------------------------------------------------------
(* HarFile.                                                                *)

\* What comes back of an entry is what RoundTrips asks of it.
ComesBack(was, is) ==
    /\ SameBody(was.type, was.body, is.body)
    /\ is.truncated = was.truncated
    /\ (is.answer = None) <=> (was.answer = None)
    /\ was.answer # None =>
          /\ SameBody(was.answer.type, was.answer.body, is.answer.body)
          /\ is.answer.truncated = was.answer.truncated
          /\ is.answer.streamed = was.answer.streamed
          /\ is.answer.duration = was.answer.duration
          /\ was.answer.timings # None => SameTimings(was.answer.timings, is.answer.timings)

\* The bytes of a body survive the way out and in.
LEMMA BodyComesBack ==
    ASSUME NEW type \in ContentTypes, NEW body \in BodyKinds
    PROVE  /\ SameBody(type, body, BodyIn(BodyOut(type, body)))
           /\ BodyIn(BodyOut(type, body)) \in BodyKinds \cup {"coerced"}
BY DEF ContentTypes, BodyKinds, SameBody, BodyIn, BodyOut, IsBinary, Coerced

\* A measurement without the phases of a dial.
LEMMA Undialled ==
    ASSUME NEW t \in Measured
    PROVE  [t EXCEPT !.dns = 0, !.connect = 0, !.tls = 0]
              = [dns |-> 0, connect |-> 0, tls |-> 0, wait |-> t.wait, reused |-> t.reused,
                 server |-> t.server]
<1> DEFINE u == [t EXCEPT !.dns = 0, !.connect = 0, !.tls = 0]
<1>1. u \in Measured
  BY DEF Measured
<1>2. u.dns = 0 /\ u.connect = 0 /\ u.tls = 0
  BY DEF Measured
<1>3. u.wait = t.wait /\ u.reused = t.reused /\ u.server = t.server
  BY DEF Measured
<1> HIDE DEF u
<1>4. u = [dns |-> u.dns, connect |-> u.connect, tls |-> u.tls, wait |-> u.wait,
           reused |-> u.reused, server |-> u.server]
  BY <1>1 DEF Measured
<1>5. u = [dns |-> 0, connect |-> 0, tls |-> 0, wait |-> t.wait, reused |-> t.reused,
           server |-> t.server]
  BY <1>2, <1>3, <1>4
<1> QED
  BY <1>5 DEF u

\* So do the phases of an exchange that was measured.
LEMMA TimingsComeBack ==
    ASSUME HarAssumption, NEW a, a.timings \in Measured, a.timings # None
    PROVE  SameTimings(a.timings, TimingsIn(TimingsOf(a)))
<1> DEFINE t == a.timings
           h == TimingsOf(a)
           dns == AtLeastZero(h.dns)
           connect == AtLeastZero(AtLeastZero(h.connect) - AtLeastZero(h.tls))
           tls == AtLeastZero(h.tls)
           wait == AtLeastZero(h.wait)
           reused == h.dns < 0 /\ h.connect < 0 /\ h.tls < 0
           in == [dns |-> dns, connect |-> connect, tls |-> tls, wait |-> wait,
                  reused |-> reused, server |-> h.server]
<1>1. /\ t.dns \in Nat /\ t.connect \in Nat /\ t.tls \in Nat /\ t.wait \in Nat
      /\ t.reused \in BOOLEAN /\ t.server # None
  BY DEF Measured, HarAssumption
<1>2. t = [dns |-> t.dns, connect |-> t.connect, tls |-> t.tls, wait |-> t.wait,
           reused |-> t.reused, server |-> t.server]
  BY DEF Measured
<1>3. TimingsIn(h) = in
  <2>1. in.server # None
    BY <1>1 DEF TimingsOf
  <2> QED
    BY <2>1 DEF TimingsIn
<1>4. CASE t.reused
  <2>1. h = [dns |-> -1, connect |-> -1, tls |-> -1, wait |-> t.wait, server |-> t.server]
    BY <1>4 DEF TimingsOf
  <2>2. in = [dns |-> 0, connect |-> 0, tls |-> 0, wait |-> t.wait, reused |-> TRUE,
              server |-> t.server]
    <3>1. dns = 0 /\ connect = 0 /\ tls = 0 /\ wait = t.wait
      BY <1>1, <2>1 DEF AtLeastZero
    <3>2. reused = TRUE /\ h.server = t.server
      BY <2>1
    <3> HIDE DEF dns, connect, tls, wait, reused, h
    <3> QED
      BY <3>1, <3>2
  <2>3. [t EXCEPT !.dns = 0, !.connect = 0, !.tls = 0]
           = [dns |-> 0, connect |-> 0, tls |-> 0, wait |-> t.wait, reused |-> t.reused,
              server |-> t.server]
    BY Undialled
  <2> HIDE DEF in, h
  <2> QED
    BY <1>1, <1>3, <1>4, <2>2, <2>3 DEF SameTimings, h
<1>5. CASE ~t.reused
  <2>1. h = [dns |-> t.dns, connect |-> t.connect + t.tls, tls |-> t.tls, wait |-> t.wait,
             server |-> t.server]
    BY <1>5 DEF TimingsOf
  <2>2. in = [dns |-> t.dns, connect |-> t.connect, tls |-> t.tls, wait |-> t.wait,
              reused |-> FALSE, server |-> t.server]
    <3>1. dns = t.dns /\ connect = t.connect /\ tls = t.tls /\ wait = t.wait
      BY <1>1, <2>1 DEF AtLeastZero
    <3>2. reused = FALSE /\ h.server = t.server
      BY <1>1, <2>1
    <3> HIDE DEF dns, connect, tls, wait, reused, h
    <3> QED
      BY <3>1, <3>2
  <2> HIDE DEF in, h
  <2> QED
    BY <1>1, <1>2, <1>3, <1>5, <2>2 DEF SameTimings, h
<1> QED
  BY <1>1, <1>4, <1>5

\* So does an entry.
LEMMA EntryComesBack ==
    ASSUME HarAssumption, NEW e \in LogEntries
    PROVE  ComesBack(e, EntryFromHAR(HarEntryOf(e)))
<1> DEFINE h == HarEntryOf(e)
           is == EntryFromHAR(h)
           a == e.answer
<1>1. /\ e.type \in ContentTypes /\ e.body \in BodyKinds /\ e.truncated \in BOOLEAN
      /\ a \in HarAnswers(BodyKinds, Measured) \cup {None}
  BY DEF HarAssumption, HarEntries
<1>2. /\ is.body = BodyIn(BodyOut(e.type, e.body)) /\ is.truncated = e.truncated
  BY DEF HarEntryOf, EntryFromHAR
<1>3. CASE a = None
  <2>1. is.answer = None
    BY <1>3 DEF HarEntryOf, EntryFromHAR
  <2> QED
    BY <1>1, <1>2, <1>3, <2>1, BodyComesBack DEF ComesBack
<1>4. CASE a # None
  <2>1. /\ a.type \in ContentTypes /\ a.body \in BodyKinds
        /\ a.truncated \in BOOLEAN /\ a.streamed \in BOOLEAN /\ a.duration \in Nat
        /\ a.timings \in Measured \cup {None}
    BY <1>1, <1>4 DEF HarAnswers
  <2> DEFINE body == BodyIn(BodyOut(a.type, a.body))
             timings == TimingsIn(TimingsOf(a))
  <2>2. is.answer = [type |-> a.type, body |-> body, truncated |-> a.truncated,
                     streamed |-> a.streamed, duration |-> a.duration, timings |-> timings]
    BY <1>4 DEF HarEntryOf, EntryFromHAR
  <2>3. is.answer # None
    <3>1. timings \in [dns : Nat, connect : Nat, tls : Nat, wait : Nat, reused : BOOLEAN,
                       server : Addresses \cup {None}] \cup {None}
      <4>1. /\ TimingsOf(a).dns \in Int /\ TimingsOf(a).connect \in Int
            /\ TimingsOf(a).tls \in Int /\ TimingsOf(a).wait \in Int
            /\ TimingsOf(a).server \in Addresses \cup {None}
        BY <2>1 DEF TimingsOf, Measured
      <4> HIDE DEF a
      <4>2. \A n \in Int : AtLeastZero(n) \in Nat
        BY DEF AtLeastZero
      <4> QED
        BY <4>1, <4>2 DEF TimingsIn
    <3>2. body \in BodyKinds \cup {"coerced"}
      BY <2>1, BodyComesBack
    <3>3. is.answer \in ReadAnswers
      <4> HIDE DEF body, timings, is
      <4> QED
        BY <2>1, <2>2, <3>1, <3>2 DEF ReadAnswers, HarAnswers
    <3> QED
      BY <3>3 DEF HarAssumption
  <2>4. SameBody(a.type, a.body, body)
    BY <2>1, BodyComesBack
  <2>5. a.timings # None => SameTimings(a.timings, timings)
    BY <2>1, TimingsComeBack
  <2>6. SameBody(e.type, e.body, is.body)
    BY <1>1, <1>2, BodyComesBack
  <2> HIDE DEF body, timings, is
  <2> QED
    BY <1>2, <1>4, <2>2, <2>3, <2>4, <2>5, <2>6 DEF ComesBack, is
<1> QED
  BY <1>3, <1>4

HarRows == {HarEntryOf(e) : e \in LogEntries}

\* The file is the log so far, and what is imported is the file so far.
HarInv ==
    /\ source \in [1 .. Length -> LogEntries]
    /\ harFile \in [rows : Seq(HarRows), closed : BOOLEAN]
    /\ imported \in Seq({EntryFromHAR(h) : h \in HarRows})
    /\ Len(harFile.rows) <= Length
    /\ harFile.closed => Len(harFile.rows) = Length
    /\ \A i \in 1 .. Len(harFile.rows) : harFile.rows[i] = HarEntryOf(source[i])
    /\ Len(imported) <= Len(harFile.rows)
    /\ \A i \in 1 .. Len(imported) : imported[i] = EntryFromHAR(harFile.rows[i])
    /\ told # None <=> harImport = "done"
    /\ told # None => told = Length

\* What was imported is what came back of the entries.
LEMMA HarInvariant ==
    ASSUME HarAssumption
    PROVE  HarSpec => []HarInv
<1> USE DEF HarInv
<1>1. HarInit => HarInv
  BY DEF HarInit, HarAssumption
<1>2. HarInv /\ [HarNext]_harVars => HarInv'
  <2> SUFFICES ASSUME HarInv, [HarNext]_harVars PROVE HarInv'
    OBVIOUS
  <2>0. /\ Length \in Nat /\ None \notin Nat
        /\ Len(harFile.rows) \in Nat /\ Len(imported) \in Nat
    BY DEF HarAssumption
  <2>1. CASE WriteEntry
    <3> DEFINE row == HarEntryOf(source[Len(harFile.rows) + 1])
    <3>1. source[Len(harFile.rows) + 1] \in LogEntries
      BY <2>0, <2>1 DEF WriteEntry
    <3>2. row \in HarRows
      BY <3>1 DEF HarRows
    <3>3. /\ harFile' = [harFile EXCEPT !.rows = Append(harFile.rows, row)]
          /\ UNCHANGED <<source, harImport, imported, told>>
          /\ ~harFile.closed /\ Len(harFile.rows) < Length
      BY <2>1 DEF WriteEntry
    <3> DEFINE more == Append(harFile.rows, row)
    <3>4. /\ more \in Seq(HarRows) /\ Len(more) = Len(harFile.rows) + 1
          /\ \A i \in 1 .. Len(harFile.rows) : more[i] = harFile.rows[i]
          /\ more[Len(harFile.rows) + 1] = row
      BY <2>0, <3>2
    <3>5. harFile'.rows = more /\ harFile'.closed = harFile.closed
          /\ harFile' \in [rows : Seq(HarRows), closed : BOOLEAN]
      BY <3>3, <3>4
    <3>6. ASSUME NEW i \in 1 .. Len(more) PROVE more[i] = HarEntryOf(source[i])
      <4>1. i \in 1 .. Len(harFile.rows) \/ i = Len(harFile.rows) + 1
        BY <2>0, <3>4
      <4> HIDE DEF more
      <4> QED
        BY <3>4, <4>1
    <3>7. \A i \in 1 .. Len(imported) : i \in 1 .. Len(harFile.rows)
      BY <2>0
    <3> HIDE DEF more, row
    <3> QED
      BY <2>0, <3>3, <3>4, <3>5, <3>6, <3>7
  <2>2. CASE WriteEnd
    BY <2>2 DEF WriteEnd
  <2>3. CASE ImportBegins
    BY <2>3 DEF ImportBegins
  <2>4. CASE ImportEntry
    <3> DEFINE n == Len(imported) + 1
               is == EntryFromHAR(harFile.rows[n])
               more == Append(imported, is)
    <3>1. n \in 1 .. Len(harFile.rows) /\ imported' = more
          /\ UNCHANGED <<source, harFile, harImport, told>>
      BY <2>0, <2>4 DEF ImportEntry
    <3>2. harFile.rows[n] \in HarRows
      BY <2>0, <3>1, ElementOfSeq
    <3>3. is \in {EntryFromHAR(h) : h \in HarRows}
      BY <3>2
    <3>4. /\ more \in Seq({EntryFromHAR(h) : h \in HarRows}) /\ Len(more) = n
          /\ \A i \in 1 .. Len(imported) : more[i] = imported[i]
          /\ more[n] = is
      BY <2>0, <3>3
    <3>5. ASSUME NEW i \in 1 .. Len(more) PROVE more[i] = EntryFromHAR(harFile.rows[i])
      <4>1. i \in 1 .. Len(imported) \/ i = n
        BY <2>0, <3>4
      <4> HIDE DEF more, n
      <4> QED
        BY <3>4, <4>1
    <3>6. Len(more) <= Len(harFile.rows)
      BY <3>1, <3>4
    <3> HIDE DEF more, is, n
    <3> QED
      BY <3>1, <3>4, <3>5, <3>6
  <2>5. CASE HarImportFails
    BY <2>5 DEF HarImportFails
  <2>6. CASE ImportEnds
    BY <2>0, <2>6 DEF ImportEnds
  <2>7. CASE UNCHANGED harVars
    BY <2>7 DEF harVars
  <2> QED
    BY <2>1, <2>2, <2>3, <2>4, <2>5, <2>6, <2>7 DEF HarNext
<1> QED
  BY <1>1, <1>2, PTL DEF HarSpec

\* A log comes back from its file as it was exported, whatever its entries are,
\* and the console hears of all of it or of nothing
\* (har.go, harimport.go).
THEOREM HarFilesRoundTrip ==
    ASSUME HarAssumption
    PROVE  HarSpec => []RoundTrips
<1>1. HarInv => RoundTrips
  <2> SUFFICES ASSUME HarInv PROVE RoundTrips
    OBVIOUS
  <2>1. ASSUME NEW i \in 1 .. Len(imported)
        PROVE  ComesBack(source[i], imported[i])
    <3>1. i \in 1 .. Len(harFile.rows) /\ i \in 1 .. Length
      BY DEF HarInv, HarAssumption
    <3>2. source[i] \in LogEntries
      BY <3>1 DEF HarInv
    <3>3. imported[i] = EntryFromHAR(HarEntryOf(source[i]))
      BY <3>1 DEF HarInv
    <3> QED
      BY <3>2, <3>3, EntryComesBack
  <2> QED
    BY <2>1 DEF RoundTrips, HarInv, ComesBack
<1> QED
  BY <1>1, HarInvariant, PTL

-----------------------------------------------------------------------------
(* The frames of a WebSocket.                                              *)

-----------------------------------------------------------------------------
(* Sums.                                                                   *)

\* s adds the first n of some numbers one behind the other.
Adds(s, numbers, n) ==
    s = [k \in 0 .. n |-> IF k = 0 THEN 0 ELSE s[k - 1] + numbers[k]]

\* There are such sums.
LEMMA SumExists ==
    ASSUME NEW numbers, NEW m \in Nat
    PROVE  \E s : Adds(s, numbers, m)
<1> DEFINE Step(g, n) == g + numbers[n]
           T == {k \in Nat : ~ \E s : Adds(s, numbers, k)}
<1>1. CASE T = {}
  BY <1>1
<1>2. CASE T # {}
  <2>1. PICK k \in T : \A j \in T : k <= j
    <3>1. T \in SUBSET Nat
      OBVIOUS
    <3> HIDE DEF T
    <3> QED
      BY <1>2, <3>1, LeastOf
  <2>2. k \in Nat /\ ~ \E s : Adds(s, numbers, k)
    BY <2>1
  <2>3. CASE k = 0
    <3> DEFINE f == [n \in 0 .. 0 |-> 0]
    <3>1. f = [n \in 0 .. 0 |-> IF n = 0 THEN 0 ELSE Step(f[n - 1], n)]
      OBVIOUS
    <3> HIDE DEF f
    <3>2. Adds(f, numbers, 0)
      BY <3>1 DEF Adds
    <3> QED
      BY <2>2, <2>3, <3>2
  <2>4. CASE k # 0
    <3>1. k - 1 \in Nat /\ k - 1 \notin T
      BY <2>1, <2>2, <2>4
    <3>2. PICK g : Adds(g, numbers, k - 1)
      BY <3>1
    <3>3. \A n \in 0 .. k - 1 : g[n] = IF n = 0 THEN 0 ELSE Step(g[n - 1], n)
      BY <3>2 DEF Adds
    <3> DEFINE f == [n \in 0 .. k |-> IF n = k THEN Step(g[k - 1], k) ELSE g[n]]
    <3>4. ASSUME NEW n \in 0 .. k PROVE f[n] = IF n = 0 THEN 0 ELSE Step(f[n - 1], n)
      <4> HIDE DEF Step
      <4>1. CASE n = k
        <5>1. k - 1 \in 0 .. k /\ k - 1 # k
          BY <2>2, <2>4
        <5>2. f[k - 1] = g[k - 1] /\ f[k] = Step(g[k - 1], k)
          BY <2>2, <5>1
        <5> QED
          BY <2>4, <4>1, <5>2
      <4>2. CASE n # k
        <5>1. n \in 0 .. k - 1 /\ f[n] = g[n]
          BY <2>2, <4>2
        <5>2. CASE n = 0
          BY <3>3, <5>1, <5>2
        <5>3. CASE n # 0
          <6>1. n - 1 \in 0 .. k /\ n - 1 # k
            BY <2>2, <5>1, <5>3
          <6>2. f[n - 1] = g[n - 1]
            BY <6>1
          <6> QED
            BY <3>3, <5>1, <5>3, <6>2
        <5> QED
          BY <5>2, <5>3
      <4> QED
        BY <4>1, <4>2
    <3>5. f = [n \in 0 .. k |-> f[n]]
      OBVIOUS
    <3> HIDE DEF f
    <3>6. f = [n \in 0 .. k |-> IF n = 0 THEN 0 ELSE Step(f[n - 1], n)]
      <4> HIDE DEF Step
      <4> QED
        BY <3>4, <3>5
    <3>7. Adds(f, numbers, k)
      BY <3>6 DEF Adds
    <3> QED
      BY <2>2, <3>7
  <2> QED
    BY <2>3, <2>4
<1> QED
  BY <1>1, <1>2

\* Sums of the same numbers are the same.
LEMMA SumsAgree ==
    ASSUME NEW f, NEW g, NEW s, NEW t, NEW a \in Nat, NEW b \in Nat, NEW m \in Nat,
           Adds(s, f, a), Adds(t, g, b), m <= a, m <= b, \A k \in 1 .. m : f[k] = g[k]
    PROVE  s[m] = t[m]
<1>1. s[0] = 0 /\ \A k \in 1 .. a : s[k] = s[k - 1] + f[k]
  <2>1. 0 \in 0 .. a /\ \A k \in 1 .. a : k \in 0 .. a /\ k # 0
    OBVIOUS
  <2> QED
    BY <2>1 DEF Adds
<1>2. t[0] = 0 /\ \A k \in 1 .. b : t[k] = t[k - 1] + g[k]
  <2>1. 0 \in 0 .. b /\ \A k \in 1 .. b : k \in 0 .. b /\ k # 0
    OBVIOUS
  <2> QED
    BY <2>1 DEF Adds
<1> DEFINE T == {k \in 0 .. m : s[k] # t[k]}
<1>3. CASE T = {}
  BY <1>3
<1>4. CASE T # {}
  <2>1. PICK k \in T : \A j \in T : k <= j
    <3>1. T \in SUBSET Nat
      OBVIOUS
    <3> HIDE DEF T
    <3> QED
      BY <1>4, <3>1, LeastOf
  <2>2. k \in 1 .. m /\ k - 1 \in 0 .. m /\ k - 1 \notin T
    BY <1>1, <1>2, <2>1
  <2>3. s[k - 1] = t[k - 1] /\ f[k] = g[k] /\ k \in 1 .. a /\ k \in 1 .. b
    BY <2>2
  <2> QED
    BY <1>1, <1>2, <2>1, <2>3
<1> QED
  BY <1>3, <1>4

\* SumOf is the last of them.
LEMMA SumOfIs ==
    ASSUME NEW numbers, NEW n \in Nat
    PROVE  \E s : Adds(s, numbers, n) /\ SumOf(numbers, n) = s[n]
<1> DEFINE s == CHOOSE s : s = [k \in 0 .. n |-> IF k = 0 THEN 0 ELSE s[k - 1] + numbers[k]]
<1>1. SumOf(numbers, n) = s[n]
  BY DEF SumOf
<1>2. s = [k \in 0 .. n |-> IF k = 0 THEN 0 ELSE s[k - 1] + numbers[k]]
  <2>1. PICK t : Adds(t, numbers, n)
    BY SumExists
  <2>2. t = [k \in 0 .. n |-> IF k = 0 THEN 0 ELSE t[k - 1] + numbers[k]]
    BY <2>1 DEF Adds
  <2> QED
    BY <2>2
<1> HIDE DEF s
<1>3. Adds(s, numbers, n)
  BY <1>2 DEF Adds
<1> QED
  BY <1>1, <1>3

\* The sum of no numbers is 0, and that of more of them adds the last one.
LEMMA Summing ==
    ASSUME NEW numbers
    PROVE  /\ SumOf(numbers, 0) = 0
           /\ \A n \in Nat : SumOf(numbers, n + 1) = SumOf(numbers, n) + numbers[n + 1]
<1>1. SumOf(numbers, 0) = 0
  <2>1. PICK s : Adds(s, numbers, 0) /\ SumOf(numbers, 0) = s[0]
    BY SumOfIs
  <2>2. 0 \in 0 .. 0
    OBVIOUS
  <2> QED
    BY <2>1, <2>2 DEF Adds
<1>2. ASSUME NEW n \in Nat PROVE SumOf(numbers, n + 1) = SumOf(numbers, n) + numbers[n + 1]
  <2>1. PICK s : Adds(s, numbers, n + 1) /\ SumOf(numbers, n + 1) = s[n + 1]
    BY SumOfIs
  <2>2. PICK t : Adds(t, numbers, n) /\ SumOf(numbers, n) = t[n]
    BY SumOfIs
  <2>3. s[n] = t[n]
    BY <2>1, <2>2, SumsAgree
  <2>4. n + 1 \in 0 .. n + 1 /\ n + 1 # 0 /\ (n + 1) - 1 = n
    OBVIOUS
  <2>5. s[n + 1] = s[n] + numbers[n + 1]
    BY <2>1, <2>4 DEF Adds
  <2> QED
    BY <2>1, <2>2, <2>3, <2>5
<1> QED
  BY <1>1, <1>2

\* The sum of the same numbers is the same.
LEMMA SameSum ==
    ASSUME NEW f, NEW g, NEW n \in Nat, \A k \in 1 .. n : f[k] = g[k]
    PROVE  SumOf(f, n) = SumOf(g, n)
<1>1. PICK s : Adds(s, f, n) /\ SumOf(f, n) = s[n]
  BY SumOfIs
<1>2. PICK t : Adds(t, g, n) /\ SumOf(g, n) = t[n]
  BY SumOfIs
<1> QED
  BY <1>1, <1>2, SumsAgree

\* The sum of natural numbers is one.
LEMMA SumIsNat ==
    ASSUME NEW f, NEW n \in Nat, \A k \in 1 .. n : f[k] \in Nat
    PROVE  SumOf(f, n) \in Nat
<1> DEFINE T == {k \in 0 .. n : SumOf(f, k) \notin Nat}
<1>1. CASE T = {}
  BY <1>1
<1>2. CASE T # {}
  <2>1. PICK k \in T : \A j \in T : k <= j
    <3>1. T \in SUBSET Nat
      OBVIOUS
    <3> HIDE DEF T
    <3> QED
      BY <1>2, <3>1, LeastOf
  <2>2. k # 0
    BY <2>1, Summing
  <2>3. k - 1 \in Nat /\ SumOf(f, k - 1) \in Nat /\ (k - 1) + 1 = k /\ f[k] \in Nat
    BY <2>1, <2>2
  <2>4. SumOf(f, k) = SumOf(f, k - 1) + f[k]
    BY <2>3, Summing
  <2> QED
    BY <2>1, <2>3, <2>4
<1> QED
  BY <1>1, <1>2
-----------------------------------------------------------------------------
(* The standard's view of the frames.                                      *)

\* Some numbers have a first.
LEMMA FirstIs ==
    ASSUME NEW S \in SUBSET Nat, S # {}
    PROVE  FirstPart(S) \in S /\ \A k \in S : FirstPart(S) <= k
BY LeastOf DEF FirstPart

\* Frames as the assumption has them.
LEMMA FrameIs ==
    ASSUME FramesAssumption, NEW f \in Sent
    PROVE  /\ f.op \in Opcodes /\ f.fin \in BOOLEAN /\ f.rsv1 \in BOOLEAN /\ f.bytes \in Nat
           /\ f.length.seven \in Nat /\ f.length.ext \in Nat
           /\ f.length \in Forms(f.bytes)
BY DEF FramesAssumption

\* The frames that come after change nothing of what was there.
LEMMA FramesStay ==
    ASSUME NEW fs \in Seq(Sent), NEW f \in Sent
    PROVE  /\ Append(fs, f) \in Seq(Sent)
           /\ Len(fs) \in Nat /\ Len(Append(fs, f)) = Len(fs) + 1
           /\ Append(fs, f)[Len(fs) + 1] = f
           /\ \A i \in 1 .. Len(fs) : Append(fs, f)[i] = fs[i] /\ fs[i] \in Sent
BY AppendProperties, LenProperties, ElementOfSeq

\* What is open behind a frame is one of the frames before it.
LEMMA FragmentsAre ==
    ASSUME NEW fs, NEW i \in Nat
    PROVE  Fragments(fs, i) \subseteq 1 .. i /\ IsFiniteSet(Fragments(fs, i))
<1>1. Fragments(fs, i) \subseteq 1 .. i
  BY DEF Fragments
<1>2. IsFiniteSet(1 .. i)
  BY FS_Interval
<1> QED
  BY <1>1, <1>2, FS_Subset

\* A control frame leaves a message open, one with FIN ends it, any other goes on
\* with it.
LEMMA FragmentsGrow ==
    ASSUME NEW fs, NEW i \in Nat, i > 0
    PROVE  /\ ~IsData(fs[i]) => Fragments(fs, i) = Fragments(fs, i - 1)
           /\ IsData(fs[i]) /\ fs[i].fin => Fragments(fs, i) = {}
           /\ IsData(fs[i]) /\ ~fs[i].fin => Fragments(fs, i) = Fragments(fs, i - 1) \cup {i}
<1> DEFINE D(k) == IsData(fs[k])
           Fin(k) == fs[k].fin
           Of(n) == {j \in 1 .. n : D(j) /\ \A k \in j .. n : D(k) => ~Fin(k)}
<1>1. Fragments(fs, i) = Of(i) /\ Fragments(fs, i - 1) = Of(i - 1)
  BY DEF Fragments
<1> HIDE DEF D, Fin
<1>2. i \in 1 .. i /\ i \notin 1 .. i - 1 /\ 1 .. i = (1 .. i - 1) \cup {i}
  OBVIOUS
<1>3. \A j \in 1 .. i - 1 : j .. i = (j .. i - 1) \cup {i}
  OBVIOUS
<1>4. i .. i = {i}
  OBVIOUS
<1>5. ~D(i) => Of(i) = Of(i - 1)
  BY <1>2, <1>3
<1>6. D(i) /\ Fin(i) => Of(i) = {}
  BY <1>2, <1>3, <1>4
<1>7. D(i) /\ ~Fin(i) => Of(i) = Of(i - 1) \cup {i}
  BY <1>2, <1>3, <1>4
<1> HIDE DEF Of
<1> QED
  BY <1>1, <1>5, <1>6, <1>7 DEF D, Fin

\* The bytes of data are counted frame by frame.
LEMMA DataBytesGrow ==
    ASSUME FramesAssumption, NEW fs \in Seq(Sent)
    PROVE  /\ DataBytes(fs, 0) = 0
           /\ \A i \in 0 .. Len(fs) : DataBytes(fs, i) \in Nat
           /\ \A i \in 1 .. Len(fs) :
                 DataBytes(fs, i) = DataBytes(fs, i - 1)
                                    + (IF IsData(fs[i]) THEN fs[i].bytes ELSE 0)
<1> DEFINE Amount(j) == IF IsData(fs[j]) THEN fs[j].bytes ELSE 0
           amounts == [j \in 1 .. Len(fs) |-> Amount(j)]
<1>1. \A i : DataBytes(fs, i) = SumOf(amounts, i)
  BY DEF DataBytes
<1>2. Len(fs) \in Nat
  BY LenProperties
<1>3. \A j \in 1 .. Len(fs) : amounts[j] = Amount(j) /\ amounts[j] \in Nat
  <2> TAKE j \in 1 .. Len(fs)
  <2>1. fs[j] \in Sent
    BY ElementOfSeq
  <2>2. fs[j].bytes \in Nat
    BY <2>1, FrameIs
  <2> QED
    BY <2>2
<1> HIDE DEF amounts
<1>4. ASSUME NEW i \in 0 .. Len(fs) PROVE SumOf(amounts, i) \in Nat
  <2>1. i \in Nat /\ \A k \in 1 .. i : amounts[k] \in Nat
    BY <1>2, <1>3
  <2> QED
    BY <2>1, SumIsNat
<1>5. ASSUME NEW i \in 1 .. Len(fs) PROVE SumOf(amounts, i) = SumOf(amounts, i - 1) + Amount(i)
  <2>1. i - 1 \in Nat /\ (i - 1) + 1 = i
    BY <1>2
  <2>2. SumOf(amounts, (i - 1) + 1) = SumOf(amounts, i - 1) + amounts[(i - 1) + 1]
    BY <2>1, Summing
  <2> QED
    BY <1>3, <2>1, <2>2
<1>6. SumOf(amounts, 0) = 0
  BY Summing
<1> QED
  BY <1>1, <1>4, <1>5, <1>6

\* Fewer frames have no more bytes.
LEMMA DataBytesAscend ==
    ASSUME FramesAssumption, NEW fs \in Seq(Sent)
    PROVE  \A i, j \in 0 .. Len(fs) : i <= j => DataBytes(fs, i) <= DataBytes(fs, j)
<1>1. Len(fs) \in Nat
  BY LenProperties
<1> SUFFICES ASSUME NEW i \in 0 .. Len(fs), NEW m \in 0 .. Len(fs), i <= m
             PROVE  DataBytes(fs, i) <= DataBytes(fs, m)
  OBVIOUS
<1> DEFINE T == {j \in i .. m : ~(DataBytes(fs, i) <= DataBytes(fs, j))}
<1>2. CASE T = {}
  BY <1>1, <1>2
<1>3. CASE T # {}
  <2>1. PICK j \in T : \A k \in T : j <= k
    <3>1. T \in SUBSET Nat
      BY <1>1
    <3> HIDE DEF T
    <3> QED
      BY <1>3, <3>1, LeastOf
  <2>2. j \in i .. m /\ j \in 0 .. Len(fs) /\ DataBytes(fs, j) \in Nat /\ DataBytes(fs, i) \in Nat
    BY <1>1, <2>1, DataBytesGrow
  <2>3. j # i
    BY <2>1, <2>2
  <2>4. j - 1 \in i .. m /\ j - 1 \notin T /\ j \in 1 .. Len(fs) /\ j - 1 \in 0 .. Len(fs)
    BY <1>1, <2>1, <2>2, <2>3
  <2>5. DataBytes(fs, i) <= DataBytes(fs, j - 1)
    BY <2>4
  <2>6. /\ DataBytes(fs, j) = DataBytes(fs, j - 1) + (IF IsData(fs[j]) THEN fs[j].bytes ELSE 0)
        /\ DataBytes(fs, j - 1) \in Nat
    BY <2>4, DataBytesGrow
  <2>7. fs[j].bytes \in Nat
    BY <2>4, ElementOfSeq, FrameIs
  <2> HIDE DEF T
  <2>8. DataBytes(fs, i) <= DataBytes(fs, j)
    BY <2>2, <2>5, <2>6, <2>7
  <2> QED
    BY <2>1, <2>8 DEF T
<1> QED
  BY <1>2, <1>3

\* The parts of a message are frames, the last of which is its last.
LEMMA PartsAre ==
    ASSUME NEW fs, NEW i \in Nat, i > 0
    PROVE  /\ Parts(fs, i) \subseteq 1 .. i /\ i \in Parts(fs, i)
           /\ FirstPart(Parts(fs, i)) \in Parts(fs, i)
<1>1. Fragments(fs, i - 1) \subseteq 1 .. i - 1
  BY FragmentsAre
<1>2. Parts(fs, i) \subseteq 1 .. i /\ i \in Parts(fs, i)
  BY <1>1 DEF Parts
<1>3. Parts(fs, i) \in SUBSET Nat
  BY <1>2
<1> QED
  BY <1>2, <1>3, FirstIs

\* The view of the frames that were there stays.
LEMMA ViewStays ==
    ASSUME NEW fs \in Seq(Sent), NEW f \in Sent
    PROVE  /\ \A i \in 0 .. Len(fs) : Fragments(Append(fs, f), i) = Fragments(fs, i)
           /\ \A i \in 0 .. Len(fs) : DataBytes(Append(fs, f), i) = DataBytes(fs, i)
           /\ \A i \in 1 .. Len(fs) : /\ Sound(Append(fs, f), i) <=> Sound(fs, i)
                                      /\ Parts(Append(fs, f), i) = Parts(fs, i)
                                      /\ Bytes(Append(fs, f), i) = Bytes(fs, i)
<1> DEFINE g == Append(fs, f)
           n == Len(fs)
<1>1. /\ n \in Nat /\ Len(g) = n + 1 /\ \A i \in 1 .. n : g[i] = fs[i]
  BY FramesStay
<1> HIDE DEF g, n
<1>2. ASSUME NEW i \in 0 .. n PROVE Fragments(g, i) = Fragments(fs, i)
  <2>1. \A j \in 1 .. i : g[j] = fs[j]
    BY <1>1
  <2>2. \A j \in 1 .. i : \A k \in j .. i : k \in 1 .. i
    BY <1>1
  <2> QED
    BY <2>1, <2>2 DEF Fragments
<1>3. ASSUME NEW i \in 0 .. n PROVE DataBytes(g, i) = DataBytes(fs, i)
  <2> DEFINE A(h) == [j \in 1 .. Len(h) |-> IF IsData(h[j]) THEN h[j].bytes ELSE 0]
  <2>1. \A k \in 1 .. i : A(g)[k] = A(fs)[k]
    BY <1>1 DEF n
  <2>2. i \in Nat
    BY <1>1
  <2> HIDE DEF A
  <2>3. SumOf(A(g), i) = SumOf(A(fs), i)
    BY <2>1, <2>2, SameSum
  <2> QED
    BY <2>3 DEF A, DataBytes
<1>4. ASSUME NEW i \in 1 .. n
      PROVE  /\ Sound(g, i) <=> Sound(fs, i)
             /\ Parts(g, i) = Parts(fs, i)
             /\ Bytes(g, i) = Bytes(fs, i)
  <2>1. g[i] = fs[i] /\ i - 1 \in 0 .. n /\ i \in 0 .. n /\ i \in Nat /\ i > 0
    BY <1>1
  <2>2. Fragments(g, i - 1) = Fragments(fs, i - 1)
    BY <1>2, <2>1
  <2>3. Sound(g, i) <=> Sound(fs, i)
    BY <2>1, <2>2 DEF Sound
  <2>4. Parts(g, i) = Parts(fs, i)
    BY <2>1, <2>2 DEF Parts
  <2>5. FirstPart(Parts(fs, i)) - 1 \in 0 .. n
    BY <1>1, <2>1, PartsAre
  <2>6. DataBytes(g, i) = DataBytes(fs, i)
    BY <1>3, <2>1
  <2>7. DataBytes(g, FirstPart(Parts(fs, i)) - 1) = DataBytes(fs, FirstPart(Parts(fs, i)) - 1)
    BY <1>3, <2>5
  <2> QED
    BY <2>1, <2>3, <2>4, <2>6, <2>7 DEF Bytes
<1> QED
  BY <1>2, <1>3, <1>4 DEF g, n
-----------------------------------------------------------------------------
(* What is kept of a message.                                              *)

KeptParts == Seq(Nat \X Nat)
Assemblers == [open : BOOLEAN, op : Opcodes, kept : KeptParts, size : Nat, frames : Nat,
               truncated : BOOLEAN, compressed : BOOLEAN]

\* What is kept is a number of bytes, and one part more adds its own.
LEMMA KeptGrows ==
    ASSUME NEW a, NEW b, NEW x \in Nat, NEW t \in Nat,
           a.kept \in KeptParts, b.kept = Append(a.kept, <<x, t>>)
    PROVE  /\ Len(a.kept) \in Nat /\ Len(b.kept) = Len(a.kept) + 1 /\ b.kept \in KeptParts
           /\ b.kept[Len(a.kept) + 1] = <<x, t>>
           /\ \A p \in 1 .. Len(a.kept) : b.kept[p] = a.kept[p]
           /\ \A p \in 0 .. Len(a.kept) : KeptBy(b, p) = KeptBy(a, p)
           /\ KeptOf(b) = KeptOf(a) + t
<1> DEFINE n == Len(a.kept)
           A == [i \in 1 .. Len(a.kept) |-> a.kept[i][2]]
           B == [i \in 1 .. Len(b.kept) |-> b.kept[i][2]]
<1>1. <<x, t>> \in Nat \X Nat
  OBVIOUS
<1>2. /\ n \in Nat /\ Len(b.kept) = n + 1 /\ b.kept \in KeptParts
      /\ b.kept[n + 1] = <<x, t>>
      /\ \A p \in 1 .. n : b.kept[p] = a.kept[p]
  BY <1>1, AppendProperties, LenProperties DEF KeptParts
<1>3. \A p \in 1 .. n : B[p] = A[p]
  BY <1>2
<1>4. B[n + 1] = t
  BY <1>2
<1>5. \A p : KeptBy(a, p) = SumOf(A, p) /\ KeptBy(b, p) = SumOf(B, p)
  BY DEF KeptBy
<1> HIDE DEF A, B
<1>6. ASSUME NEW p \in 0 .. n PROVE KeptBy(b, p) = KeptBy(a, p)
  <2>1. p \in Nat /\ \A k \in 1 .. p : B[k] = A[k]
    BY <1>2, <1>3
  <2> QED
    BY <1>5, <2>1, SameSum
<1>7. SumOf(B, n + 1) = SumOf(B, n) + B[n + 1]
  BY <1>2, Summing
<1>8. KeptOf(b) = KeptBy(b, n + 1) /\ KeptOf(a) = KeptBy(a, n)
  BY <1>2 DEF KeptOf
<1>9. n \in 0 .. n
  BY <1>2
<1>10. KeptOf(b) = KeptOf(a) + t
  BY <1>4, <1>5, <1>6, <1>7, <1>8, <1>9
<1> QED
  BY <1>2, <1>6, <1>10

\* Messages of the same parts keep the same.
LEMMA SameKept ==
    ASSUME NEW a, NEW b, a.kept = b.kept
    PROVE  (\A p : KeptBy(a, p) = KeptBy(b, p)) /\ KeptOf(a) = KeptOf(b)
BY DEF KeptBy, KeptOf

\* Of no parts nothing is kept.
LEMMA NothingKept ==
    ASSUME NEW a, a.kept = <<>>
    PROVE  KeptOf(a) = 0
<1>1. Len(<<>>) = 0
  OBVIOUS
<1>2. KeptOf(a) = SumOf([i \in 1 .. Len(a.kept) |-> a.kept[i][2]], 0)
  BY <1>1 DEF KeptOf, KeptBy
<1> QED
  BY <1>2, Summing

\* The header is read as the length it stands for, also the one the proxy writes.
LEMMA LengthIsRead ==
    ASSUME NEW n \in Nat
    PROVE  /\ \A w \in Forms(n) : ReadLength(w) = n
           /\ ReadLength(Encode(n)) = n
<1>1. ASSUME NEW w \in Forms(n) PROVE ReadLength(w) = n
  <2>1. CASE w = [seven |-> 127, ext |-> n]
    BY <2>1 DEF ReadLength
  <2>2. CASE w = [seven |-> 126, ext |-> n]
    BY <2>2 DEF ReadLength
  <2>3. CASE w = [seven |-> n, ext |-> 0] /\ n <= 125
    BY <2>3 DEF ReadLength
  <2> QED
    BY <2>1, <2>2, <2>3 DEF Forms
<1>2. Encode(n) \in Forms(n)
  BY DEF Encode, Forms
<1> QED
  BY <1>1, <1>2

\* The frames that come after change nothing of what a message tells.
LEMMA TellsStays ==
    ASSUME FramesAssumption, NEW fs \in Seq(Sent), NEW f \in Sent, NEW m,
           NEW P \in SUBSET (1 .. Len(fs)), NEW bytes, P # {}, Tells(fs, m, P, bytes)
    PROVE  Tells(Append(fs, f), m, P, bytes)
<1> DEFINE g == Append(fs, f)
           b == DataBytes(fs, FirstPart(P) - 1)
<1>1. Len(fs) \in Nat /\ \A i \in 1 .. Len(fs) : g[i] = fs[i]
  BY FramesStay
<1>2. \A i \in 0 .. Len(fs) : DataBytes(g, i) = DataBytes(fs, i)
  BY ViewStays
<1>3. FirstPart(P) \in 1 .. Len(fs) /\ FirstPart(P) - 1 \in 0 .. Len(fs)
  <2>1. P \in SUBSET Nat
    BY <1>1
  <2>2. FirstPart(P) \in P
    BY <2>1, FirstIs
  <2>3. FirstPart(P) \in 1 .. Len(fs)
    BY <2>2
  <2>4. \A n \in Nat : \A k \in 1 .. n : k - 1 \in 0 .. n
    OBVIOUS
  <2> QED
    BY <1>1, <2>3, <2>4
<1>4. g[FirstPart(P)] = fs[FirstPart(P)] /\ DataBytes(g, FirstPart(P) - 1) = b
  BY <1>1, <1>2, <1>3
<1>5. Carries(fs, m, P, b, bytes)
  BY DEF Tells
<1> HIDE DEF g, b
<1>6. Carries(g, m, P, b, bytes)
  <2>1. ASSUME NEW p \in 1 .. Len(m.kept)
        PROVE  /\ m.kept[p][1] \in P
               /\ DataBytes(g, m.kept[p][1] - 1) - b = KeptBy(m, p - 1)
    <3>1. /\ m.kept[p][1] \in P
          /\ DataBytes(fs, m.kept[p][1] - 1) - b = KeptBy(m, p - 1)
      BY <1>5 DEF Carries
    <3>2. m.kept[p][1] - 1 \in 0 .. Len(fs)
      <4>1. \A q \in 1 .. Len(fs) : q - 1 \in 0 .. Len(fs)
        BY <1>1
      <4>2. m.kept[p][1] \in 1 .. Len(fs)
        BY <3>1
      <4> QED
        BY <4>1, <4>2
    <3> QED
      BY <1>2, <3>1, <3>2
  <2> QED
    BY <1>5, <2>1 DEF Carries
<1>7. Tells(g, m, P, bytes)
  BY <1>4, <1>6 DEF Tells, b
<1> QED
  BY <1>7 DEF g

\* The fragments of a message carry it: with one more of them it carries what is
\* in that one as well.
LEMMA AppendedCarries ==
    ASSUME FramesAssumption, frames \in Seq(Sent), NEW f \in Sent, IsData(f),
           NEW a \in Assemblers, NEW P \in SUBSET (1 .. Len(frames)), NEW before \in Nat,
           before <= DataBytes(frames, Len(frames)),
           Carries(frames, a, P, before, DataBytes(frames, Len(frames)) - before)
    PROVE  /\ Carries(Append(frames, f), Appended(a, f.bytes), P \cup {Len(frames) + 1}, before,
                      DataBytes(Append(frames, f), Len(frames) + 1) - before)
           /\ Appended(a, f.bytes) \in Assemblers
           /\ a.truncated = (Keep < DataBytes(frames, Len(frames)) - before)
                 => Appended(a, f.bytes).truncated
                       = (Keep < DataBytes(Append(frames, f), Len(frames) + 1) - before)
<1> DEFINE g == Append(frames, f)
           n == Len(frames)
           so == DataBytes(frames, n) - before
           all == DataBytes(g, n + 1) - before
           room == Keep - KeptOf(a)
           prefix == IF Keep < f.bytes THEN Keep ELSE f.bytes
           take == IF room < prefix THEN room ELSE prefix
           b == Appended(a, f.bytes)
<1>1. /\ g \in Seq(Sent) /\ n \in Nat /\ Len(g) = n + 1 /\ g[n + 1] = f
      /\ \A i \in 1 .. n : g[i] = frames[i]
  BY FramesStay
<1>2. f.bytes \in Nat /\ Keep \in Nat
  BY FrameIs DEF FramesAssumption
<1>3. DataBytes(frames, n) \in Nat
  BY <1>1, DataBytesGrow
<1>4. DataBytes(g, n + 1) = DataBytes(frames, n) + f.bytes
  <2>1. n + 1 \in 1 .. Len(g) /\ (n + 1) - 1 = n /\ n \in 0 .. n
    BY <1>1
  <2>2. DataBytes(g, n + 1) = DataBytes(g, n) + f.bytes
    BY <1>1, <2>1, DataBytesGrow
  <2>3. DataBytes(g, n) = DataBytes(frames, n)
    BY <2>1, ViewStays
  <2> QED
    BY <2>2, <2>3
<1>5. so \in Nat /\ all = so + f.bytes
  BY <1>2, <1>3, <1>4
<1>6. /\ a.size = so /\ a.frames = Cardinality(P)
      /\ KeptOf(a) = (IF Keep < so THEN Keep ELSE so)
      /\ \A p \in 1 .. Len(a.kept) :
            /\ a.kept[p][1] \in P
            /\ DataBytes(frames, a.kept[p][1] - 1) - before = KeptBy(a, p - 1)
  BY DEF Carries
<1>7. a.kept \in KeptParts /\ Len(a.kept) \in Nat
  BY LenProperties DEF Assemblers, KeptParts
<1>8. /\ b.kept = (IF take > 0 THEN Append(a.kept, <<n + 1, take>>) ELSE a.kept)
      /\ b.truncated = (a.truncated \/ take < f.bytes)
      /\ b.size = a.size + f.bytes
      /\ b.frames = a.frames + 1
      /\ b.open = a.open /\ b.op = a.op /\ b.compressed = a.compressed
      /\ b = [open |-> b.open, op |-> b.op, kept |-> b.kept, size |-> b.size,
              frames |-> b.frames, truncated |-> b.truncated, compressed |-> b.compressed]
  <2>1. b = [a EXCEPT !.kept = IF take > 0 THEN Append(@, <<n + 1, take>>) ELSE @,
                      !.truncated = @ \/ take < f.bytes,
                      !.size = @ + f.bytes,
                      !.frames = @ + 1]
    BY DEF Appended
  <2> HIDE DEF b, take
  <2>2. a = [open |-> a.open, op |-> a.op, kept |-> a.kept, size |-> a.size,
             frames |-> a.frames, truncated |-> a.truncated, compressed |-> a.compressed]
    BY DEF Assemblers
  <2>3. b = [open |-> a.open, op |-> a.op,
             kept |-> IF take > 0 THEN Append(a.kept, <<n + 1, take>>) ELSE a.kept,
             size |-> a.size + f.bytes, frames |-> a.frames + 1,
             truncated |-> (a.truncated \/ take < f.bytes), compressed |-> a.compressed]
    BY <2>1, <2>2
  <2> QED
    BY <2>3
<1> HIDE DEF g, n, b, so, all
<1>7a. \A q \in P : q - 1 \in 0 .. n
  <2>1. \A q \in 1 .. n : q - 1 \in 0 .. n
    BY <1>1
  <2> QED
    BY <2>1 DEF n
<1>9. /\ take \in Nat
      /\ KeptOf(a) + take = (IF Keep < all THEN Keep ELSE all)
      /\ take > 0 => KeptOf(a) = so
      /\ take < f.bytes \/ Keep < so <=> Keep < all
  BY <1>2, <1>5, <1>6
<1> HIDE DEF take
<1>10. /\ b.kept \in KeptParts
       /\ KeptOf(b) = KeptOf(a) + take
       /\ \A p \in 1 .. Len(b.kept) :
             /\ b.kept[p][1] \in P \cup {n + 1}
             /\ DataBytes(g, b.kept[p][1] - 1) - before = KeptBy(b, p - 1)
  <2>1. CASE take = 0
    <3>1. b.kept = a.kept /\ KeptOf(b) = KeptOf(a) /\ \A p : KeptBy(b, p) = KeptBy(a, p)
      BY <1>8, <2>1, SameKept
    <3>2. KeptOf(a) = KeptOf(a) + 0
      BY <1>2, <1>5, <1>6
    <3>3. ASSUME NEW p \in 1 .. Len(a.kept)
          PROVE  DataBytes(g, a.kept[p][1] - 1) - before = KeptBy(a, p - 1)
      <4>1. a.kept[p][1] - 1 \in 0 .. n
        BY <1>6, <1>7a
      <4> QED
        BY <1>6, <4>1, ViewStays DEF g, n
    <3> QED
      BY <1>6, <1>7, <2>1, <3>1, <3>2, <3>3
  <2>2. CASE take > 0
    <3>1. b.kept = Append(a.kept, <<n + 1, take>>) /\ n + 1 \in Nat
      BY <1>1, <1>8, <2>2
    <3>2. /\ Len(b.kept) = Len(a.kept) + 1 /\ b.kept \in KeptParts
          /\ b.kept[Len(a.kept) + 1] = <<n + 1, take>>
          /\ \A p \in 1 .. Len(a.kept) : b.kept[p] = a.kept[p]
          /\ \A p \in 0 .. Len(a.kept) : KeptBy(b, p) = KeptBy(a, p)
          /\ KeptOf(b) = KeptOf(a) + take
      <4>1. take \in Nat
        BY <1>9
      <4>2. a.kept \in KeptParts
        BY <1>7
      <4> DEFINE x == n + 1
      <4>3. b.kept = Append(a.kept, <<x, take>>) /\ x \in Nat
        BY <3>1
      <4> HIDE DEF x
      <4>4. /\ Len(a.kept) \in Nat /\ Len(b.kept) = Len(a.kept) + 1 /\ b.kept \in KeptParts
            /\ b.kept[Len(a.kept) + 1] = <<x, take>>
            /\ \A p \in 1 .. Len(a.kept) : b.kept[p] = a.kept[p]
            /\ \A p \in 0 .. Len(a.kept) : KeptBy(b, p) = KeptBy(a, p)
            /\ KeptOf(b) = KeptOf(a) + take
        <5>1. KeptOf(b) = KeptOf(a) + take
          BY <4>1, <4>2, <4>3, KeptGrows
        <5>2. b.kept[Len(a.kept) + 1] = <<x, take>>
          BY <4>1, <4>2, <4>3, KeptGrows
        <5>3. \A p \in 1 .. Len(a.kept) : b.kept[p] = a.kept[p]
          BY <4>1, <4>2, <4>3, KeptGrows
        <5>4. \A p \in 0 .. Len(a.kept) : KeptBy(b, p) = KeptBy(a, p)
          BY <4>1, <4>2, <4>3, KeptGrows
        <5>5. Len(b.kept) = Len(a.kept) + 1
          BY <4>1, <4>2, <4>3, KeptGrows
        <5>6. b.kept \in KeptParts
          <6>1. <<x, take>> \in Nat \X Nat
            BY <4>1, <4>3
          <6> QED
            BY <4>2, <4>3, <6>1, AppendProperties DEF KeptParts
        <5> QED
          BY <1>7, <5>1, <5>2, <5>3, <5>4, <5>5, <5>6
      <4> QED
        BY <4>4 DEF x
    <3>3. ASSUME NEW p \in 1 .. Len(a.kept)
          PROVE  /\ b.kept[p][1] \in P
                 /\ DataBytes(g, b.kept[p][1] - 1) - before = KeptBy(b, p - 1)
      <4>1. a.kept[p][1] - 1 \in 0 .. n /\ p - 1 \in 0 .. Len(a.kept)
        <5>1. a.kept[p][1] - 1 \in 0 .. n
          BY <1>6, <1>7a
        <5>2. p - 1 \in 0 .. Len(a.kept)
          BY <1>7
        <5> QED
          BY <5>1, <5>2
      <4>2. DataBytes(g, a.kept[p][1] - 1) = DataBytes(frames, a.kept[p][1] - 1)
        BY <4>1, ViewStays DEF g, n
      <4> QED
        BY <1>6, <3>2, <4>1, <4>2
    <3>4. ASSUME NEW p \in 1 .. Len(b.kept), p = Len(a.kept) + 1
          PROVE  /\ b.kept[p][1] = n + 1
                 /\ DataBytes(g, b.kept[p][1] - 1) - before = KeptBy(b, p - 1)
      <4>1. b.kept[p][1] = n + 1 /\ (n + 1) - 1 = n /\ p - 1 = Len(a.kept) /\ n \in 0 .. n
            /\ Len(a.kept) \in 0 .. Len(a.kept)
        BY <1>1, <1>7, <3>2, <3>4
      <4>2. DataBytes(g, n) = DataBytes(frames, n)
        BY <4>1, ViewStays DEF g, n
      <4>3. KeptBy(b, p - 1) = KeptOf(a)
        BY <3>2, <4>1 DEF KeptOf
      <4> QED
        BY <1>9, <2>2, <4>1, <4>2, <4>3 DEF so
    <3>5. \A p \in 1 .. Len(b.kept) : p \in 1 .. Len(a.kept) \/ p = Len(a.kept) + 1
      BY <1>7, <3>2
    <3> QED
      BY <3>2, <3>3, <3>4, <3>5
  <2> QED
    BY <1>9, <2>1, <2>2
<1>11. b.frames = Cardinality(P \cup {n + 1})
  <2>1. n + 1 \notin P /\ IsFiniteSet(1 .. n)
    BY <1>1, FS_Interval DEF n
  <2>2. IsFiniteSet(P)
    BY <2>1, FS_Subset DEF n
  <2> QED
    BY <1>6, <1>8, <2>1, <2>2, FS_AddElement
<1>12. Carries(g, b, P \cup {n + 1}, before, all)
  <2>1. b.size = all
    BY <1>5, <1>6, <1>8
  <2> QED
    BY <1>9, <1>10, <1>11, <2>1 DEF Carries
<1>13. b \in Assemblers
  <2>1. /\ a.truncated \in BOOLEAN /\ a.open \in BOOLEAN /\ a.compressed \in BOOLEAN
        /\ a.op \in Opcodes /\ a.size \in Nat /\ a.frames \in Nat
    BY DEF Assemblers
  <2>2. b.truncated \in BOOLEAN
    BY <1>8, <2>1
  <2>3. b.size \in Nat /\ b.frames \in Nat
    BY <1>2, <1>8, <2>1
  <2> QED
    BY <1>8, <1>10, <2>1, <2>2, <2>3 DEF Assemblers
<1>14. a.truncated = (Keep < so) => b.truncated = (Keep < all)
  <2>1. b.truncated = (a.truncated \/ take < f.bytes)
    BY <1>8
  <2>2. (take < f.bytes \/ Keep < so) <=> Keep < all
    BY <1>9
  <2>3. ASSUME a.truncated = (Keep < so) PROVE b.truncated = (Keep < all)
    <3>1. b.truncated = (Keep < so \/ take < f.bytes)
      BY <2>1, <2>3
    <3>2. (Keep < so \/ take < f.bytes) = (Keep < all)
      BY <2>2
    <3> QED
      BY <3>1, <3>2
  <2> QED
    BY <2>3
<1> QED
  BY <1>12, <1>13, <1>14 DEF g, n, b, so, all
-----------------------------------------------------------------------------
(* The messages that were announced.                                       *)

Announcements == [op : Opcodes, kept : KeptParts, size : Nat, frames : Nat,
                  truncated : BOOLEAN, compressed : BOOLEAN]
Nth(S, i) == Cardinality({j \in S : j <= i})
AreWhole(fs, soFar) ==
    /\ Len(soFar) = Cardinality(Endings(fs))
    /\ \A i \in Endings(fs) :
          Tells(fs, soFar[Nth(Endings(fs), i)], Parts(fs, i), Bytes(fs, i))

\* The place of a number among some.
LEMMA NthIs ==
    ASSUME NEW n \in Nat, NEW S \in SUBSET (1 .. n)
    PROVE  /\ IsFiniteSet(S) /\ Cardinality(S) \in Nat
           /\ \A i \in S : Nth(S, i) \in 1 .. Cardinality(S)
           /\ \A i \in S : Nth(S \cup {n + 1}, i) = Nth(S, i)
           /\ Nth(S \cup {n + 1}, n + 1) = Cardinality(S) + 1
           /\ Cardinality(S \cup {n + 1}) = Cardinality(S) + 1
<1>1. IsFiniteSet(S) /\ Cardinality(S) \in Nat
  <2>1. IsFiniteSet(1 .. n)
    BY FS_Interval
  <2>2. IsFiniteSet(S)
    BY <2>1, FS_Subset
  <2> QED
    BY <2>2, FS_CardinalityType
<1>2. n + 1 \notin S /\ \A j \in S : j \in Nat /\ j <= n + 1 /\ j < n + 1
  OBVIOUS
<1>3. Cardinality(S \cup {n + 1}) = Cardinality(S) + 1
  BY <1>1, <1>2, FS_AddElement
<1>4. ASSUME NEW i \in S PROVE Nth(S, i) \in 1 .. Cardinality(S)
  <2> DEFINE T == {j \in S : j <= i}
  <2>1. T \in SUBSET S /\ T # {}
    BY <1>2, <1>4
  <2>2. IsFiniteSet(T) /\ Cardinality(T) <= Cardinality(S)
    BY <1>1, <2>1, FS_Subset
  <2>3. Cardinality(T) \in Nat /\ Cardinality(T) # 0
    BY <2>1, <2>2, FS_CardinalityType, FS_EmptySet
  <2> HIDE DEF T
  <2>4. Cardinality(T) \in 1 .. Cardinality(S)
    BY <1>1, <2>2, <2>3
  <2> QED
    BY <2>4 DEF T, Nth
<1>5. ASSUME NEW i \in S PROVE Nth(S \cup {n + 1}, i) = Nth(S, i)
  <2>1. {j \in S \cup {n + 1} : j <= i} = {j \in S : j <= i}
    BY <1>2
  <2> QED
    BY <2>1 DEF Nth
<1>6. Nth(S \cup {n + 1}, n + 1) = Cardinality(S) + 1
  <2>1. {j \in S \cup {n + 1} : j <= n + 1} = S \cup {n + 1}
    <3>1. \A j \in S \cup {n + 1} : j <= n + 1
      BY <1>2
    <3> QED
      BY <3>1
  <2> QED
    BY <1>3, <2>1 DEF Nth
<1> QED
  BY <1>1, <1>3, <1>4, <1>5, <1>6

\* A frame is accepted behind frames that all were.
LEMMA AcceptedGrow ==
    ASSUME NEW fs \in Seq(Sent), NEW f \in Sent
    PROVE  /\ Accepted(fs) = 1 .. Len(fs) /\ Sound(Append(fs, f), Len(fs) + 1)
                 => /\ Accepted(Append(fs, f)) = 1 .. Len(fs) + 1
                    /\ f.fin => Endings(Append(fs, f)) = Endings(fs) \cup {Len(fs) + 1}
                    /\ ~f.fin => Endings(Append(fs, f)) = Endings(fs)
           /\ ~(Accepted(fs) = 1 .. Len(fs) /\ Sound(Append(fs, f), Len(fs) + 1))
                 => /\ Accepted(Append(fs, f)) # 1 .. Len(fs) + 1
                    /\ Endings(Append(fs, f)) = Endings(fs)
<1> DEFINE g == Append(fs, f)
           n == Len(fs)
<1>1. /\ g \in Seq(Sent) /\ n \in Nat /\ Len(g) = n + 1 /\ g[n + 1] = f
      /\ \A i \in 1 .. n : g[i] = fs[i]
  BY FramesStay
<1>2. \A i \in 1 .. n : Sound(g, i) <=> Sound(fs, i)
  BY ViewStays DEF g, n
<1> HIDE DEF g
<1>3. /\ 1 .. n + 1 = (1 .. n) \cup {n + 1} /\ n + 1 \notin 1 .. n
      /\ \A i \in 1 .. n : \A j \in 1 .. i : j \in 1 .. n
  BY <1>1
<1>4. \A i \in 1 .. n : i \in Accepted(g) <=> i \in Accepted(fs)
  BY <1>1, <1>2, <1>3 DEF Accepted
<1>5. n + 1 \in Accepted(g) <=> (Accepted(fs) = 1 .. n /\ Sound(g, n + 1))
  <2>1. n + 1 \in Accepted(g) <=> \A j \in 1 .. n + 1 : Sound(g, j)
    BY <1>1, <1>3 DEF Accepted
  <2>2. (\A j \in 1 .. n : Sound(fs, j)) <=> Accepted(fs) = 1 .. n
    <3>1. ASSUME \A j \in 1 .. n : Sound(fs, j) PROVE Accepted(fs) = 1 .. n
      BY <1>3, <3>1 DEF Accepted, n
    <3>2. ASSUME Accepted(fs) = 1 .. n, NEW j \in 1 .. n PROVE Sound(fs, j)
      <4>1. j \in Accepted(fs) /\ j \in 1 .. j
        BY <1>1, <3>2
      <4> QED
        BY <4>1 DEF Accepted
    <3> QED
      BY <3>1, <3>2
  <2> QED
    BY <1>2, <1>3, <2>1, <2>2
<1>6. Accepted(g) \subseteq 1 .. n + 1 /\ Accepted(fs) \subseteq 1 .. n
  BY <1>1 DEF Accepted
<1>7. /\ \A i \in 1 .. n : i \in Endings(g) <=> i \in Endings(fs)
      /\ n + 1 \in Endings(g) <=> (n + 1 \in Accepted(g) /\ f.fin)
      /\ Endings(g) \subseteq 1 .. n + 1 /\ Endings(fs) \subseteq 1 .. n
  BY <1>1, <1>4, <1>6 DEF Endings
<1> HIDE DEF n
<1>8. ASSUME Accepted(fs) = 1 .. n, Sound(g, n + 1)
      PROVE  /\ Accepted(g) = 1 .. n + 1
             /\ f.fin => Endings(g) = Endings(fs) \cup {n + 1}
             /\ ~f.fin => Endings(g) = Endings(fs)
  <2>1. n + 1 \in Accepted(g)
    BY <1>5, <1>8
  <2>2. Accepted(g) = 1 .. n + 1
    BY <1>3, <1>4, <1>6, <1>8, <2>1
  <2>3. f.fin => Endings(g) = Endings(fs) \cup {n + 1}
    BY <1>3, <1>7, <2>1
  <2>4. ~f.fin => Endings(g) = Endings(fs)
    BY <1>3, <1>7
  <2> QED
    BY <2>2, <2>3, <2>4
<1>9. ASSUME ~(Accepted(fs) = 1 .. n /\ Sound(g, n + 1))
      PROVE  Accepted(g) # 1 .. n + 1 /\ Endings(g) = Endings(fs)
  <2>1. n + 1 \notin Accepted(g)
    BY <1>5, <1>9
  <2>2. Endings(g) = Endings(fs)
    BY <1>3, <1>7, <2>1
  <2> QED
    BY <1>3, <2>1, <2>2
<1> QED
  BY <1>8, <1>9 DEF g, n

\* A frame that ends nothing leaves the messages as they are.
LEMMA WholeStays ==
    ASSUME FramesAssumption, NEW fs \in Seq(Sent), NEW f \in Sent, NEW soFar,
           AreWhole(fs, soFar), Endings(Append(fs, f)) = Endings(fs)
    PROVE  AreWhole(Append(fs, f), soFar)
<1> DEFINE g == Append(fs, f)
<1>1. Len(fs) \in Nat /\ Endings(fs) \subseteq 1 .. Len(fs)
  BY FramesStay DEF Endings, Accepted
<1>2. ASSUME NEW i \in Endings(fs)
      PROVE  Tells(g, soFar[Nth(Endings(fs), i)], Parts(g, i), Bytes(g, i))
  <2>1. i \in 1 .. Len(fs) /\ i \in Nat /\ i > 0
    BY <1>1
  <2>2. Parts(g, i) = Parts(fs, i) /\ Bytes(g, i) = Bytes(fs, i)
    BY <2>1, ViewStays
  <2>3. Parts(fs, i) \subseteq 1 .. i /\ i \in Parts(fs, i)
    BY <2>1, PartsAre
  <2>4. Parts(fs, i) \in SUBSET (1 .. Len(fs)) /\ Parts(fs, i) # {}
    BY <1>1, <2>1, <2>3
  <2>5. Tells(fs, soFar[Nth(Endings(fs), i)], Parts(fs, i), Bytes(fs, i))
    BY DEF AreWhole
  <2>6. Tells(g, soFar[Nth(Endings(fs), i)], Parts(fs, i), Bytes(fs, i))
    BY <2>4, <2>5, TellsStays
  <2> QED
    BY <2>2, <2>6
<1> HIDE DEF g
<1>3. Len(soFar) = Cardinality(Endings(fs))
  BY DEF AreWhole
<1>4. Endings(g) = Endings(fs)
  BY DEF g
<1>5. AreWhole(g, soFar)
  BY <1>2, <1>3, <1>4 DEF AreWhole
<1> QED
  BY <1>5 DEF g

\* A message for the frame that ended it is one more.
LEMMA WholeGrows ==
    ASSUME FramesAssumption, NEW fs \in Seq(Sent), NEW f \in Sent,
           NEW soFar \in Seq(Announcements), NEW m \in Announcements,
           AreWhole(fs, soFar), Endings(Append(fs, f)) = Endings(fs) \cup {Len(fs) + 1},
           Tells(Append(fs, f), m, Parts(Append(fs, f), Len(fs) + 1),
                 Bytes(Append(fs, f), Len(fs) + 1))
    PROVE  AreWhole(Append(fs, f), Append(soFar, m))
<1> DEFINE g == Append(fs, f)
           n == Len(fs)
           more == Append(soFar, m)
           S == Endings(fs)
<1>1. n \in Nat /\ S \in SUBSET (1 .. n)
  BY FramesStay DEF Endings, Accepted
<1>2. /\ Len(soFar) = Cardinality(S)
      /\ \A i \in S : Tells(fs, soFar[Nth(S, i)], Parts(fs, i), Bytes(fs, i))
  BY DEF AreWhole
<1>3. /\ Len(soFar) \in Nat /\ Len(more) = Len(soFar) + 1
      /\ \A k \in 1 .. Len(soFar) : more[k] = soFar[k]
      /\ more[Len(soFar) + 1] = m
  BY AppendProperties, LenProperties
<1>4. Endings(g) = S \cup {n + 1}
  OBVIOUS
<1>5. Tells(g, m, Parts(g, n + 1), Bytes(g, n + 1))
  OBVIOUS
<1>6. ASSUME NEW i \in S
      PROVE  Tells(g, soFar[Nth(S, i)], Parts(g, i), Bytes(g, i))
  <2>1. i \in 1 .. n /\ i \in Nat /\ i > 0
    BY <1>1
  <2>2. Parts(g, i) = Parts(fs, i) /\ Bytes(g, i) = Bytes(fs, i)
    BY <2>1, ViewStays
  <2>3. Parts(fs, i) \subseteq 1 .. i /\ i \in Parts(fs, i)
    BY <2>1, PartsAre
  <2>4. Parts(fs, i) \in SUBSET (1 .. n) /\ Parts(fs, i) # {}
    BY <1>1, <2>1, <2>3
  <2>5. Tells(g, soFar[Nth(S, i)], Parts(fs, i), Bytes(fs, i))
    BY <1>2, <2>4, TellsStays
  <2> QED
    BY <2>2, <2>5
<1> HIDE DEF g, n, more, S
<1>7. /\ Cardinality(S) \in Nat
      /\ \A i \in S : Nth(S, i) \in 1 .. Cardinality(S)
      /\ \A i \in S : Nth(S \cup {n + 1}, i) = Nth(S, i)
      /\ Nth(S \cup {n + 1}, n + 1) = Cardinality(S) + 1
      /\ Cardinality(S \cup {n + 1}) = Cardinality(S) + 1
  BY <1>1, NthIs
<1>8. Len(more) = Cardinality(Endings(g))
  BY <1>2, <1>3, <1>4, <1>7
<1>9. ASSUME NEW i \in Endings(g)
      PROVE  Tells(g, more[Nth(Endings(g), i)], Parts(g, i), Bytes(g, i))
  <2>1. CASE i \in S
    <3>1. Nth(Endings(g), i) = Nth(S, i) /\ more[Nth(S, i)] = soFar[Nth(S, i)]
      BY <1>2, <1>3, <1>4, <1>7, <2>1
    <3> QED
      BY <1>6, <2>1, <3>1
  <2>2. CASE i = n + 1
    <3>1. more[Nth(Endings(g), i)] = m
      BY <1>2, <1>3, <1>4, <1>7, <2>2
    <3> QED
      BY <1>5, <2>2, <3>1
  <2> QED
    BY <1>4, <1>9, <2>1, <2>2
<1>10. AreWhole(g, more)
  BY <1>8, <1>9 DEF AreWhole
<1> QED
  BY <1>10 DEF g, more
-----------------------------------------------------------------------------
(* The inductive invariant: as long as every frame is accepted the pump    *)
(* assembles, and what it has assembled is what the fragments of the open  *)
(* message tell.                                                           *)

FramesType ==
    /\ frames \in Seq(Sent) /\ announced \in Seq(Announcements)
    /\ asm \in Assemblers /\ copying \in BOOLEAN
Assembling ==
    /\ Accepted(frames) = 1 .. Len(frames)
    /\ asm.open <=> Fragments(frames, Len(frames)) # {}
    /\ asm.open =>
          Tells(frames, asm, Fragments(frames, Len(frames)),
                DataBytes(frames, Len(frames))
                   - DataBytes(frames, FirstPart(Fragments(frames, Len(frames))) - 1))
FramesInvariant ==
    /\ FramesType
    /\ ~copying => Assembling
    /\ copying => Accepted(frames) # 1 .. Len(frames)
    /\ AreWhole(frames, announced)

\* Before the first frame.
LEMMA FramesBegin ==
    ASSUME FramesAssumption, FramesInit
    PROVE  FramesInvariant
<1>1. frames = <<>> /\ asm = Closed /\ copying = FALSE /\ announced = <<>>
  BY DEF FramesInit
<1>2. frames \in Seq(Sent) /\ announced \in Seq(Announcements) /\ <<>> \in KeptParts
      /\ Len(frames) = 0 /\ Len(announced) = 0
  BY <1>1, EmptySeq DEF KeptParts
<1>3. asm \in Assemblers /\ ~asm.open
  BY <1>1, <1>2 DEF Closed, Assemblers, Opcodes, Data
<1>4. 1 .. 0 = {}
  OBVIOUS
<1>5. Accepted(frames) = 1 .. Len(frames) /\ Endings(frames) = {}
  BY <1>2, <1>4 DEF Accepted, Endings
<1>6. Fragments(frames, Len(frames)) = {}
  BY <1>2, <1>4 DEF Fragments
<1>7. Assembling
  BY <1>3, <1>5, <1>6 DEF Assembling
<1>8. AreWhole(frames, announced)
  BY <1>2, <1>5, FS_EmptySet DEF AreWhole
<1> QED
  BY <1>1, <1>2, <1>3, <1>7, <1>8 DEF FramesInvariant, FramesType

\* What the pump accepts is what a receiver does.
LEMMA SoundNow ==
    ASSUME FramesAssumption, FramesInvariant, ~copying, NEW f \in Sent
    PROVE  Sound(Append(frames, f), Len(frames) + 1)
              <=> ~Refused(f) /\ (IsData(f) => ~Disorder(f))
<1> DEFINE g == Append(frames, f)
           n == Len(frames)
<1>1. n \in Nat /\ g[n + 1] = f /\ (n + 1) - 1 = n /\ n \in 0 .. n
  BY FramesStay DEF FramesInvariant, FramesType
<1>2. Fragments(g, n) = Fragments(frames, n)
  BY <1>1, ViewStays DEF FramesInvariant, FramesType
<1>3. asm.open <=> Fragments(frames, n) # {}
  BY DEF FramesInvariant, Assembling
<1>4. ReadLength(f.length) = f.bytes /\ f.op \in Opcodes
  BY FrameIs, LengthIsRead
<1> HIDE DEF g, n
<1>5. Sound(g, n + 1) <=>
         (CASE f.op = "reserved" -> FALSE
            [] f.op \in Control -> f.fin /\ f.bytes <= MaxControlPayload
            [] OTHER -> (f.op = "continuation") <=> Fragments(frames, n) # {})
  BY <1>1, <1>2 DEF Sound
<1>6. CASE f.op = "reserved"
  <2>1. ~Sound(g, n + 1) /\ Refused(f)
    BY <1>5, <1>6 DEF Refused, Control
  <2> QED
    BY <2>1 DEF g, n
<1>7. CASE f.op \in Control
  <2>1. f.op # "reserved" /\ ~IsData(f)
    BY <1>7 DEF Control, IsData
  <2>2. f.bytes \in Nat
    BY FrameIs
  <2>3. Refused(f) <=> ~(f.fin /\ f.bytes <= MaxControlPayload)
    BY <1>4, <1>7, <2>1, <2>2 DEF Refused, MaxControlPayload
  <2>4. Sound(g, n + 1) <=> f.fin /\ f.bytes <= MaxControlPayload
    BY <1>5, <1>7, <2>1
  <2>5. Sound(g, n + 1) <=> ~Refused(f) /\ (IsData(f) => ~Disorder(f))
    BY <2>1, <2>3, <2>4
  <2> QED
    BY <2>5 DEF g, n
<1>8. CASE f.op # "reserved" /\ f.op \notin Control
  <2>1. ~Refused(f) /\ IsData(f)
    BY <1>8 DEF Refused, IsData
  <2>2. Sound(g, n + 1) <=> ((f.op = "continuation") <=> Fragments(frames, n) # {})
    BY <1>5, <1>8
  <2>3. Disorder(f) <=> ~((f.op = "continuation") <=> Fragments(frames, n) # {})
    BY <1>3 DEF Disorder
  <2>4. Sound(g, n + 1) <=> ~Refused(f) /\ (IsData(f) => ~Disorder(f))
    BY <2>1, <2>2, <2>3
  <2> QED
    BY <2>4 DEF g, n
<1> QED
  BY <1>6, <1>7, <1>8

\* The first of some numbers is the one that is no more than any other.
LEMMA FirstIsLeast ==
    ASSUME NEW S \in SUBSET Nat, NEW x \in S, \A k \in S : x <= k
    PROVE  FirstPart(S) = x
<1>1. S # {}
  OBVIOUS
<1>2. FirstPart(S) \in S /\ \A k \in S : FirstPart(S) <= k
  BY <1>1, FirstIs
<1>3. FirstPart(S) <= x /\ x <= FirstPart(S) /\ FirstPart(S) \in Nat /\ x \in Nat
  BY <1>2
<1> QED
  BY <1>3

\* A control frame is a message of its own.
LEMMA ControlTells ==
    ASSUME FramesAssumption, frames \in Seq(Sent), NEW f \in Sent, f.op \in Control
    PROVE  /\ ControlMessage(f) \in Announcements
           /\ Tells(Append(frames, f), ControlMessage(f),
                    Parts(Append(frames, f), Len(frames) + 1),
                    Bytes(Append(frames, f), Len(frames) + 1))
<1> DEFINE g == Append(frames, f)
           n == Len(frames)
           m == ControlMessage(f)
           take == IF Keep < f.bytes THEN Keep ELSE f.bytes
<1>1. n \in Nat /\ g[n + 1] = f /\ (n + 1) - 1 = n
  BY FramesStay
<1>2. f.bytes \in Nat /\ Keep \in Nat /\ f.op \in Opcodes /\ f.op \notin Data
  BY FrameIs DEF FramesAssumption, Control, Data
<1>3. ReadLength(f.length) = f.bytes
  BY FrameIs, LengthIsRead
<1>4. m = [op |-> f.op, kept |-> IF take > 0 THEN <<<<n + 1, take>>>> ELSE <<>>,
           size |-> f.bytes, frames |-> 1, truncated |-> FALSE, compressed |-> FALSE]
  BY <1>3 DEF ControlMessage
<1> HIDE DEF m
<1>5. /\ m.op = f.op /\ m.size = f.bytes /\ m.frames = 1
      /\ m.truncated = FALSE /\ m.compressed = FALSE
      /\ m.kept = IF take > 0 THEN <<<<n + 1, take>>>> ELSE <<>>
  BY <1>4
<1>6. take \in Nat
  BY <1>2
<1> HIDE DEF take
<1>7. /\ m.kept \in KeptParts /\ KeptOf(m) = take
      /\ \A p \in 1 .. Len(m.kept) : p = 1 /\ m.kept[p][1] = n + 1 /\ KeptBy(m, p - 1) = 0
  <2>1. <<>> \in KeptParts /\ Len(<<>>) = 0
    BY EmptySeq DEF KeptParts
  <2>2. CASE take = 0
    <3>1. m.kept = <<>>
      BY <1>5, <2>2
    <3>2. KeptOf(m) = 0
      BY <3>1, NothingKept
    <3>3. 1 .. 0 = {}
      OBVIOUS
    <3> QED
      BY <2>1, <2>2, <3>1, <3>2, <3>3
  <2>3. CASE take # 0
    <3> DEFINE z == [kept |-> <<>>]
               x == n + 1
    <3>1. m.kept = Append(z.kept, <<x, take>>)
      BY <1>5, <1>6, <2>3
    <3>2. z.kept = <<>> /\ KeptOf(z) = 0
      BY NothingKept
    <3>3. x \in Nat
      BY <1>1
    <3> HIDE DEF z, x
    <3>4. z.kept \in KeptParts
      BY <2>1, <3>2
    <3>5. /\ Len(m.kept) = Len(z.kept) + 1
          /\ m.kept[Len(z.kept) + 1] = <<x, take>>
          /\ \A p \in 0 .. Len(z.kept) : KeptBy(m, p) = KeptBy(z, p)
          /\ KeptOf(m) = KeptOf(z) + take
      <4>1. Len(m.kept) = Len(z.kept) + 1
        BY <1>6, <3>1, <3>3, <3>4, KeptGrows
      <4>2. m.kept[Len(z.kept) + 1] = <<x, take>>
        BY <1>6, <3>1, <3>3, <3>4, KeptGrows
      <4>3. \A p \in 0 .. Len(z.kept) : KeptBy(m, p) = KeptBy(z, p)
        BY <1>6, <3>1, <3>3, <3>4, KeptGrows
      <4>4. KeptOf(m) = KeptOf(z) + take
        BY <1>6, <3>1, <3>3, <3>4, KeptGrows
      <4> QED
        BY <4>1, <4>2, <4>3, <4>4
    <3>6. m.kept \in KeptParts
      <4>1. <<x, take>> \in Nat \X Nat
        BY <1>6, <3>3
      <4> QED
        BY <3>1, <3>4, <4>1, AppendProperties DEF KeptParts
    <3>7. Len(z.kept) = 0 /\ KeptBy(z, 0) = 0
      BY <2>1, <3>2 DEF KeptOf
    <3>8. Len(m.kept) = 1 /\ m.kept[1] = <<x, take>> /\ KeptBy(m, 0) = 0 /\ KeptOf(m) = take
      BY <1>6, <3>2, <3>5, <3>7
    <3>9. \A p \in 1 .. Len(m.kept) : p = 1 /\ p - 1 = 0
      BY <3>8
    <3> QED
      BY <3>6, <3>8, <3>9 DEF x
  <2> QED
    BY <2>2, <2>3
<1>8. m \in Announcements
  <2>1. m = [op |-> m.op, kept |-> m.kept, size |-> m.size, frames |-> m.frames,
             truncated |-> m.truncated, compressed |-> m.compressed]
    BY <1>4
  <2>2. /\ m.op \in Opcodes /\ m.size \in Nat /\ m.frames \in Nat
        /\ m.truncated \in BOOLEAN /\ m.compressed \in BOOLEAN
    <3>1. m.op \in Opcodes
      BY <1>2, <1>5
    <3>2. m.size \in Nat
      BY <1>2, <1>5
    <3>3. m.frames \in Nat
      BY <1>5
    <3>4. m.truncated \in BOOLEAN
      BY <1>5
    <3>5. m.compressed \in BOOLEAN
      BY <1>5
    <3> QED
      BY <3>1, <3>2, <3>3, <3>4, <3>5
  <2>3. m.kept \in KeptParts
    BY <1>7
  <2> QED
    BY <2>1, <2>2, <2>3 DEF Announcements
<1>9. Parts(g, n + 1) = {n + 1} /\ Bytes(g, n + 1) = f.bytes
  BY <1>1 DEF Parts, Bytes, IsData
<1>10. FirstPart({n + 1}) = n + 1
  BY <1>1, FirstIsLeast
<1> HIDE DEF g, n
<1>11. Carries(g, m, {n + 1}, DataBytes(g, n), f.bytes)
  <2>1. m.frames = Cardinality({n + 1})
    BY <1>5, FS_Singleton
  <2>2. KeptOf(m) = IF Keep < f.bytes THEN Keep ELSE f.bytes
    BY <1>7 DEF take
  <2>3. DataBytes(g, n) \in Int
    <3>1. frames \in Seq(Sent) /\ g \in Seq(Sent) /\ n \in 0 .. Len(g)
      BY FramesStay DEF g, n
    <3> QED
      BY <3>1, DataBytesGrow
  <2>4. \A p \in 1 .. Len(m.kept) :
           /\ m.kept[p][1] \in {n + 1}
           /\ DataBytes(g, m.kept[p][1] - 1) - DataBytes(g, n) = KeptBy(m, p - 1)
    BY <1>1, <1>7, <2>3
  <2> QED
    BY <1>5, <2>1, <2>2, <2>4 DEF Carries
<1>12. Tells(g, m, {n + 1}, f.bytes)
  BY <1>1, <1>2, <1>5, <1>10, <1>11 DEF Tells
<1> QED
  BY <1>8, <1>9, <1>12 DEF g, n, m
\* A frame of data goes on with the open message, or begins one.
LEMMA DataTells ==
    ASSUME FramesAssumption, FramesInvariant, ~copying,
           NEW f \in Sent, ~Refused(f), IsData(f), ~Disorder(f)
    PROVE  /\ Appended(Begun(f), f.bytes) \in Assemblers
           /\ Appended(Begun(f), f.bytes).open
           /\ Tells(Append(frames, f), Appended(Begun(f), f.bytes),
                    Fragments(frames, Len(frames)) \cup {Len(frames) + 1},
                    DataBytes(Append(frames, f), Len(frames) + 1)
                       - DataBytes(Append(frames, f),
                            FirstPart(Fragments(frames, Len(frames)) \cup {Len(frames) + 1}) - 1))
<1> DEFINE g == Append(frames, f)
           n == Len(frames)
           P == Fragments(frames, n)
           Q == P \cup {n + 1}
           a == Begun(f)
           b == Appended(a, f.bytes)
           before == IF P = {} THEN DataBytes(frames, n)
                               ELSE DataBytes(frames, FirstPart(P) - 1)
           so == DataBytes(frames, n) - before
           all == DataBytes(g, n + 1) - before
<1>1. frames \in Seq(Sent) /\ asm \in Assemblers /\ Assembling
  BY DEF FramesInvariant, FramesType
<1>2. /\ n \in Nat /\ g[n + 1] = f /\ (n + 1) - 1 = n /\ n \in 0 .. n
      /\ \A i \in 1 .. n : g[i] = frames[i]
  BY <1>1, FramesStay
<1>3. P \in SUBSET (1 .. n) /\ P \in SUBSET Nat
  BY <1>2, FragmentsAre
<1>4. asm.open <=> P # {}
  BY <1>1 DEF Assembling
<1>5. asm.open => Tells(frames, asm, P, DataBytes(frames, n) - DataBytes(frames, FirstPart(P) - 1))
  BY <1>1 DEF Assembling
<1>6. f.op \in Opcodes /\ f.rsv1 \in BOOLEAN /\ f.op # "reserved" /\ f.op \notin Control
  BY FrameIs DEF Refused, IsData
<1>7. /\ \A i \in 0 .. n : DataBytes(frames, i) \in Nat
      /\ \A i, j \in 0 .. n : i <= j => DataBytes(frames, i) <= DataBytes(frames, j)
      /\ \A i \in 0 .. n : DataBytes(g, i) = DataBytes(frames, i)
  <2>1. \A i \in 0 .. n : DataBytes(frames, i) \in Nat
    BY <1>1, DataBytesGrow
  <2>2. \A i, j \in 0 .. n : i <= j => DataBytes(frames, i) <= DataBytes(frames, j)
    BY <1>1, DataBytesAscend
  <2>3. \A i \in 0 .. n : DataBytes(g, i) = DataBytes(frames, i)
    BY <1>1, ViewStays
  <2> QED
    BY <2>1, <2>2, <2>3
<1>8. P # {} => /\ FirstPart(P) \in P /\ \A k \in P : FirstPart(P) <= k
                /\ FirstPart(P) \in 1 .. n /\ FirstPart(P) - 1 \in 0 .. n
  <2> SUFFICES ASSUME P # {}
               PROVE  /\ FirstPart(P) \in P /\ \A k \in P : FirstPart(P) <= k
                      /\ FirstPart(P) \in 1 .. n /\ FirstPart(P) - 1 \in 0 .. n
    OBVIOUS
  <2> HIDE DEF P, n
  <2>1. FirstPart(P) \in P /\ \A k \in P : FirstPart(P) <= k
    BY <1>3, FirstIs
  <2>2. FirstPart(P) \in 1 .. n
    BY <1>3, <2>1
  <2> QED
    BY <1>2, <2>1, <2>2
<1>9. before \in Nat /\ before <= DataBytes(frames, n)
  <2> HIDE DEF P, n
  <2>1. CASE P = {}
    BY <1>2, <1>7, <2>1
  <2>2. CASE P # {}
    <3>1. FirstPart(P) - 1 \in 0 .. n /\ FirstPart(P) - 1 <= n
      BY <1>2, <1>8, <2>2
    <3> QED
      BY <1>2, <1>7, <2>2, <3>1
  <2> QED
    BY <2>1, <2>2
<1>10. FirstPart(Q) = (IF P = {} THEN n + 1 ELSE FirstPart(P)) /\ Q \in SUBSET Nat
  <2> HIDE DEF P, n
  <2>1. Q \in SUBSET Nat
    BY <1>2, <1>3
  <2>2. CASE P = {}
    <3>1. n + 1 \in Q /\ \A k \in Q : n + 1 <= k
      BY <1>2, <2>2
    <3>2. FirstPart(Q) = n + 1
      BY <2>1, <3>1, FirstIsLeast
    <3> QED
      BY <2>1, <2>2, <3>2
  <2>3. CASE P # {}
    <3>1. FirstPart(P) \in Q /\ \A k \in Q : FirstPart(P) <= k
      BY <1>2, <1>8, <2>3
    <3>2. FirstPart(Q) = FirstPart(P)
      BY <2>1, <3>1, FirstIsLeast
    <3> QED
      BY <2>1, <2>3, <3>2
  <2> QED
    BY <2>2, <2>3
<1>11. DataBytes(g, FirstPart(Q) - 1) = before
  <2> HIDE DEF P, n, Q
  <2>1. CASE P = {}
    BY <1>2, <1>7, <1>10, <2>1
  <2>2. CASE P # {}
    BY <1>2, <1>7, <1>8, <1>10, <2>2
  <2> QED
    BY <2>1, <2>2
<1>12. /\ a \in Assemblers /\ a.open
       /\ Carries(frames, a, P, before, so)
       /\ a.op = g[FirstPart(Q)].op
       /\ a.compressed = (g[FirstPart(Q)].op \in Data /\ g[FirstPart(Q)].rsv1)
       /\ g[FirstPart(Q)].op \in Data => a.truncated = (Keep < so)
  <2>1. CASE f.op = "continuation"
    <3>1. a = asm /\ asm.open /\ P # {}
      BY <1>4, <2>1 DEF Begun, Disorder
    <3>2. before = DataBytes(frames, FirstPart(P) - 1)
      BY <3>1
    <3>3. Tells(frames, asm, P, so)
      BY <1>5, <3>1, <3>2
    <3>4. g[FirstPart(Q)] = frames[FirstPart(P)]
      <4> HIDE DEF P, n, Q, g
      <4> QED
        BY <1>2, <1>8, <1>10, <3>1
    <3> HIDE DEF P, n, Q, g, so, before, a
    <3> QED
      BY <1>1, <3>1, <3>2, <3>3, <3>4 DEF Tells
  <2>2. CASE f.op # "continuation"
    <3>1. a = [Closed EXCEPT !.open = TRUE, !.op = f.op, !.compressed = f.rsv1]
      BY <2>2 DEF Begun
    <3>2. P = {}
      BY <1>4, <2>2 DEF Disorder
    <3>3. f.op \in Data
      BY <1>6, <2>2 DEF Opcodes
    <3>4. g[FirstPart(Q)] = f
      <4> HIDE DEF P, n, Q, g
      <4> QED
        BY <1>2, <1>10, <3>2
    <3>5. so = 0
      <4> HIDE DEF P, n
      <4> QED
        BY <1>2, <1>7, <3>2
    <3> HIDE DEF P, n, Q, g, so, before, a
    <3>6. a = [open |-> TRUE, op |-> f.op, kept |-> <<>>, size |-> 0, frames |-> 0,
               truncated |-> FALSE, compressed |-> f.rsv1]
      BY <3>1 DEF Closed
    <3>7. <<>> \in KeptParts /\ Len(<<>>) = 0
      BY EmptySeq DEF KeptParts
    <3>8. a \in Assemblers /\ a.open
      BY <1>6, <3>6, <3>7 DEF Assemblers
    <3>9. KeptOf(a) = 0 /\ Len(a.kept) = 0
      BY <3>6, <3>7, NothingKept
    <3>10. Keep \in Nat
      BY DEF FramesAssumption
    <3>11. Carries(frames, a, P, before, so)
      <4>1. a.size = so /\ a.frames = Cardinality(P)
        BY <3>2, <3>5, <3>6, FS_EmptySet
      <4>2. KeptOf(a) = IF Keep < so THEN Keep ELSE so
        BY <3>5, <3>9, <3>10
      <4>3. 1 .. Len(a.kept) = {}
        BY <3>9
      <4> QED
        BY <4>1, <4>2, <4>3 DEF Carries
    <3>12. a.op = f.op /\ a.compressed = f.rsv1 /\ a.truncated = FALSE
      BY <3>6
    <3>13. a.truncated = (Keep < so)
      <4>1. (Keep < so) = FALSE
        BY <3>5, <3>10
      <4> QED
        BY <3>12, <4>1
    <3>14. a.compressed = (f.op \in Data /\ f.rsv1)
      BY <1>6, <3>3, <3>12
    <3> QED
      BY <3>4, <3>8, <3>11, <3>12, <3>13, <3>14
  <2> QED
    BY <2>1, <2>2
<1>13. b.open = a.open /\ b.op = a.op /\ b.compressed = a.compressed
  <2> HIDE DEF a
  <2> QED
    BY <1>12 DEF Appended, Assemblers
<1>14. /\ Carries(g, b, Q, before, all)
       /\ b \in Assemblers
       /\ a.truncated = (Keep < so) => b.truncated = (Keep < all)
  <2>1. Carries(frames, a, P, before, so)
    BY <1>12
  <2>2. a \in Assemblers
    BY <1>12
  <2> HIDE DEF a, P, before
  <2> QED
    BY <1>1, <1>3, <1>9, <2>1, <2>2, AppendedCarries
<1> HIDE DEF g, n, P, Q, a, b, before, so, all
<1>15. Tells(g, b, Q, all)
  BY <1>11, <1>12, <1>13, <1>14 DEF Tells
<1>16. all = DataBytes(g, n + 1) - DataBytes(g, FirstPart(Q) - 1)
  BY <1>11 DEF all
<1>17. b.open
  BY <1>12, <1>13
<1>18. b \in Assemblers
  BY <1>14
<1>19. Tells(g, b, Q, DataBytes(g, n + 1) - DataBytes(g, FirstPart(Q) - 1))
  BY <1>15, <1>16
<1> QED
  BY <1>17, <1>18, <1>19 DEF g, n, P, Q, a, b
\* Each frame keeps the invariant.
LEMMA FrameKeeps ==
    ASSUME FramesAssumption, FramesInvariant, NEW f \in Sent, Frame(f)
    PROVE  FramesInvariant'
<1> DEFINE g == Append(frames, f)
           n == Len(frames)
<1>1. FramesType /\ AreWhole(frames, announced)
  BY DEF FramesInvariant
<1>2. /\ g \in Seq(Sent) /\ n \in Nat /\ Len(g) = n + 1 /\ g[n + 1] = f
      /\ n + 1 \in 1 .. n + 1 /\ (n + 1) - 1 = n /\ n + 1 > 0 /\ n + 1 \in Nat /\ n \in 0 .. n
      /\ n + 1 \in 1 .. Len(g)
  BY <1>1, FramesStay DEF FramesType
<1>3. frames' = g
  BY DEF Frame
<1>4. ReadLength(f.length) = f.bytes
  BY FrameIs, LengthIsRead
<1>5. ASSUME ~(Accepted(frames) = 1 .. n /\ Sound(g, n + 1)),
             copying' = TRUE, UNCHANGED <<asm, announced>>
      PROVE  FramesInvariant'
  <2>1. Accepted(g) # 1 .. Len(g) /\ Endings(g) = Endings(frames)
    BY <1>1, <1>2, <1>5, AcceptedGrow DEF FramesType
  <2>2. AreWhole(g, announced)
    BY <1>1, <2>1, WholeStays DEF FramesType
  <2> HIDE DEF g, n
  <2>3. FramesType'
    BY <1>1, <1>2, <1>3, <1>5 DEF FramesType
  <2>4. (AreWhole(frames, announced))'
    BY <1>3, <1>5, <2>2
  <2>5. (Accepted(frames) # 1 .. Len(frames))'
    BY <1>3, <2>1
  <2> QED
    BY <1>5, <2>3, <2>4, <2>5 DEF FramesInvariant
<1>6. CASE copying
  <2>1. Accepted(frames) # 1 .. n
    BY <1>6 DEF FramesInvariant
  <2>2. copying' = TRUE /\ UNCHANGED <<asm, announced>>
    BY <1>6 DEF Frame
  <2> QED
    BY <1>5, <2>1, <2>2
<1>7. CASE ~copying /\ (Refused(f) \/ (IsData(f) /\ Disorder(f)))
  <2>1. ~Sound(g, n + 1)
    BY <1>7, SoundNow
  <2>2. copying' = TRUE /\ UNCHANGED <<asm, announced>>
    BY <1>7 DEF Frame, IsData
  <2> QED
    BY <1>5, <2>1, <2>2
<1>8. CASE ~copying /\ ~Refused(f) /\ ~IsData(f)
  <2>1. Sound(g, n + 1) /\ Assembling
    BY <1>8, SoundNow DEF FramesInvariant
  <2>2. f.op \in Control /\ f.fin
    BY <1>8 DEF Refused, IsData
  <2>3. Accepted(g) = 1 .. Len(g) /\ Endings(g) = Endings(frames) \cup {n + 1}
    BY <1>1, <1>2, <2>1, <2>2, AcceptedGrow DEF FramesType, Assembling
  <2>4. /\ ControlMessage(f) \in Announcements
        /\ Tells(g, ControlMessage(f), Parts(g, n + 1), Bytes(g, n + 1))
    BY <1>1, <2>2, ControlTells DEF FramesType
  <2>5. /\ announced' = Append(announced, ControlMessage(f))
        /\ UNCHANGED <<asm, copying>>
    BY <1>8, <2>2 DEF Frame
  <2>6. AreWhole(g, Append(announced, ControlMessage(f)))
    BY <1>1, <2>3, <2>4, WholeGrows DEF FramesType
  <2>7. Fragments(g, n + 1) = Fragments(frames, n)
    <3>1. Fragments(g, n) = Fragments(frames, n)
      BY <1>1, <1>2, ViewStays DEF FramesType
    <3>2. Fragments(g, n + 1) = Fragments(g, n)
      <4> HIDE DEF g, n
      <4> QED
        BY <1>2, <1>8, FragmentsGrow
    <3> QED
      BY <3>1, <3>2
  <2>8. DataBytes(g, n + 1) = DataBytes(frames, n)
    <3>1. DataBytes(g, n) = DataBytes(frames, n) /\ DataBytes(frames, n) \in Nat
      BY <1>1, <1>2, ViewStays, DataBytesGrow DEF FramesType
    <3>2. DataBytes(g, n + 1) = DataBytes(g, n) + 0
      <4> HIDE DEF g, n
      <4> QED
        BY <1>2, <1>8, DataBytesGrow
    <3> QED
      BY <3>1, <3>2
  <2> DEFINE P == Fragments(frames, n)
  <2>9. asm.open => Tells(g, asm, P, DataBytes(frames, n) - DataBytes(g, FirstPart(P) - 1))
    <3> SUFFICES ASSUME asm.open
                 PROVE  Tells(g, asm, P, DataBytes(frames, n) - DataBytes(g, FirstPart(P) - 1))
      OBVIOUS
    <3>1. /\ P # {}
          /\ Tells(frames, asm, P, DataBytes(frames, n) - DataBytes(frames, FirstPart(P) - 1))
      BY <2>1 DEF Assembling
    <3>2. P \in SUBSET (1 .. n) /\ P \in SUBSET Nat
      BY <1>2, FragmentsAre
    <3>3. Tells(g, asm, P, DataBytes(frames, n) - DataBytes(frames, FirstPart(P) - 1))
      BY <1>1, <3>1, <3>2, TellsStays DEF FramesType
    <3> HIDE DEF P
    <3>4. FirstPart(P) \in P
      BY <3>1, <3>2, FirstIs
    <3>5. FirstPart(P) - 1 \in 0 .. n
      <4> HIDE DEF n
      <4>1. \A q \in 1 .. n : q - 1 \in 0 .. n
        BY <1>2
      <4> QED
        BY <3>2, <3>4, <4>1
    <3>6. DataBytes(g, FirstPart(P) - 1) = DataBytes(frames, FirstPart(P) - 1)
      BY <1>1, <3>5, ViewStays DEF FramesType
    <3> QED
      BY <3>3, <3>6
  <2> HIDE DEF g, n
  <2>10. FramesType'
    <3>1. announced' \in Seq(Announcements)
      BY <1>1, <2>4, <2>5, AppendProperties DEF FramesType
    <3> QED
      BY <1>1, <1>2, <1>3, <2>5, <3>1 DEF FramesType
  <2>11. asm.open <=> P # {}
    BY <2>1 DEF Assembling, n
  <2> HIDE DEF P
  <2>12. Fragments(g, Len(g)) = P /\ DataBytes(g, Len(g)) = DataBytes(frames, n)
    BY <1>2, <2>7, <2>8 DEF P
  <2>13. Assembling'
    <3>1. (Accepted(frames) = 1 .. Len(frames))'
      BY <1>3, <2>3
    <3>2. (asm.open <=> Fragments(frames, Len(frames)) # {})'
      BY <1>3, <2>5, <2>11, <2>12
    <3>3. (asm.open =>
             Tells(frames, asm, Fragments(frames, Len(frames)),
                   DataBytes(frames, Len(frames))
                      - DataBytes(frames, FirstPart(Fragments(frames, Len(frames))) - 1)))'
      BY <1>3, <2>5, <2>9, <2>12
    <3> QED
      BY <3>1, <3>2, <3>3 DEF Assembling
  <2>14. (AreWhole(frames, announced))'
    BY <1>3, <2>5, <2>6
  <2> QED
    BY <1>8, <2>5, <2>10, <2>13, <2>14 DEF FramesInvariant
<1>9. CASE ~copying /\ ~Refused(f) /\ IsData(f) /\ ~Disorder(f)
  <2> DEFINE b == Appended(Begun(f), f.bytes)
             Q == Fragments(frames, n) \cup {n + 1}
  <2>1. Sound(g, n + 1) /\ Assembling
    BY <1>9, SoundNow DEF FramesInvariant
  <2>2. /\ Accepted(g) = 1 .. Len(g)
        /\ f.fin => Endings(g) = Endings(frames) \cup {n + 1}
        /\ ~f.fin => Endings(g) = Endings(frames)
    BY <1>1, <1>2, <2>1, AcceptedGrow DEF FramesType, Assembling
  <2>3. /\ b \in Assemblers /\ b.open
        /\ Tells(g, b, Q, DataBytes(g, n + 1) - DataBytes(g, FirstPart(Q) - 1))
    BY <1>9, DataTells
  <2>4. /\ asm' = IF f.fin THEN Closed ELSE b
        /\ announced' = IF f.fin THEN Append(announced, Completed(b)) ELSE announced
        /\ UNCHANGED copying
    BY <1>4, <1>9 DEF Frame, IsData
  <2>5. Fragments(g, n) = Fragments(frames, n)
    BY <1>1, <1>2, ViewStays DEF FramesType
  <2>6. /\ f.fin => Fragments(g, n + 1) = {}
        /\ ~f.fin => Fragments(g, n + 1) = Q
    <3>1. /\ f.fin => Fragments(g, n + 1) = {}
          /\ ~f.fin => Fragments(g, n + 1) = Fragments(g, n) \cup {n + 1}
      <4> HIDE DEF g, n
      <4> QED
        BY <1>2, <1>9, FragmentsGrow
    <3> QED
      BY <2>5, <3>1
  <2>7. Parts(g, n + 1) = Q
        /\ Bytes(g, n + 1) = DataBytes(g, n + 1) - DataBytes(g, FirstPart(Q) - 1)
    <3>1. Parts(g, n + 1) = Q
      BY <1>2, <1>9, <2>5 DEF Parts
    <3> HIDE DEF Q
    <3> QED
      BY <1>2, <1>9, <3>1 DEF Bytes
  <2> DEFINE m == Completed(b)
  <2>8. m \in Announcements /\ Tells(g, m, Q, DataBytes(g, n + 1) - DataBytes(g, FirstPart(Q) - 1))
    <3> HIDE DEF b, Q, g, n
    <3>1. m = [op |-> b.op, kept |-> b.kept, size |-> b.size, frames |-> b.frames,
               truncated |-> b.truncated, compressed |-> b.compressed]
      BY DEF Completed
    <3>2. m \in Announcements
      BY <2>3, <3>1 DEF Announcements, Assemblers
    <3> HIDE DEF m
    <3>3. /\ m.op = b.op /\ m.size = b.size /\ m.frames = b.frames /\ m.kept = b.kept
          /\ m.truncated = b.truncated /\ m.compressed = b.compressed
      BY <3>1
    <3>4. (\A p : KeptBy(m, p) = KeptBy(b, p)) /\ KeptOf(m) = KeptOf(b)
      BY <3>3, SameKept
    <3>5. Tells(g, m, Q, DataBytes(g, n + 1) - DataBytes(g, FirstPart(Q) - 1))
      BY <2>3, <3>3, <3>4 DEF Tells, Carries
    <3> QED
      BY <3>2, <3>5
  <2> HIDE DEF b, m
  <2>9. CASE f.fin
    <3>1. Tells(g, m, Parts(g, n + 1), Bytes(g, n + 1))
      BY <2>7, <2>8
    <3>2. AreWhole(g, Append(announced, m))
      BY <1>1, <2>2, <2>8, <2>9, <3>1, WholeGrows DEF FramesType
    <3> HIDE DEF g, n, Q
    <3>3. Closed \in Assemblers /\ ~Closed.open
      <4>1. <<>> \in KeptParts
        BY EmptySeq DEF KeptParts
      <4> QED
        BY <4>1 DEF Closed, Assemblers, Opcodes, Data
    <3>4. asm' = Closed /\ announced' = Append(announced, m)
      BY <2>4, <2>9 DEF m
    <3>5. FramesType'
      <4>1. announced' \in Seq(Announcements)
        BY <1>1, <2>8, <3>4, AppendProperties DEF FramesType
      <4> QED
        BY <1>1, <1>2, <1>3, <2>4, <3>3, <3>4, <4>1 DEF FramesType
    <3>6. Fragments(g, Len(g)) = {}
      BY <1>2, <2>6, <2>9
    <3>7. ~asm'.open
      BY <3>3, <3>4
    <3>8. Assembling'
      <4>1. (Accepted(frames) = 1 .. Len(frames))'
        BY <1>3, <2>2
      <4>2. (Fragments(frames, Len(frames)) = {})'
        BY <1>3, <3>6
      <4> QED
        BY <3>7, <4>1, <4>2 DEF Assembling
    <3>9. (AreWhole(frames, announced))'
      BY <1>3, <3>2, <3>4
    <3> QED
      BY <1>9, <2>4, <3>5, <3>8, <3>9 DEF FramesInvariant
  <2>10. CASE ~f.fin
    <3>1. AreWhole(g, announced)
      BY <1>1, <2>2, <2>10, WholeStays DEF FramesType
    <3>2. Q # {}
      OBVIOUS
    <3> HIDE DEF g, n, Q
    <3>3. asm' = b /\ announced' = announced
      BY <2>4, <2>10
    <3>4. FramesType'
      BY <1>1, <1>2, <1>3, <2>3, <2>4, <3>3 DEF FramesType
    <3>5. Fragments(g, Len(g)) = Q
      BY <1>2, <2>6, <2>10
    <3>6. Tells(g, b, Q, DataBytes(g, Len(g)) - DataBytes(g, FirstPart(Q) - 1))
      BY <1>2, <2>3
    <3>7. Assembling'
      <4>1. (Accepted(frames) = 1 .. Len(frames))'
        BY <1>3, <2>2
      <4>2. (asm.open <=> Fragments(frames, Len(frames)) # {})'
        BY <1>3, <2>3, <3>2, <3>3, <3>5
      <4>3. (Tells(frames, asm, Fragments(frames, Len(frames)),
                   DataBytes(frames, Len(frames))
                      - DataBytes(frames, FirstPart(Fragments(frames, Len(frames))) - 1)))'
        BY <1>3, <3>3, <3>5, <3>6
      <4> QED
        BY <4>1, <4>2, <4>3 DEF Assembling
    <3>8. (AreWhole(frames, announced))'
      BY <1>3, <3>1, <3>3
    <3> QED
      BY <1>9, <2>4, <3>4, <3>7, <3>8 DEF FramesInvariant
  <2> QED
    BY <2>9, <2>10
<1> QED
  BY <1>6, <1>7, <1>8, <1>9

\* The messages a WebSocket announces are those of the frames a receiver accepts: each
\* with the frame that ends it, in their order, whole, of one opcode, and cut only where the
\* configured length is over, for frames of any lengths (internal/core/wsframe).
THEOREM FramesAreWhole ==
    ASSUME FramesAssumption
    PROVE  FramesSpec => []MessagesAreWhole
<1>1. ASSUME FramesInit PROVE FramesInvariant
  BY <1>1, FramesBegin
<1>2. ASSUME FramesInvariant, [FramesNext]_framesVars PROVE FramesInvariant'
  <2>1. CASE FramesNext
    <3>1. PICK f \in Sent : Frame(f)
      BY <2>1 DEF FramesNext
    <3> QED
      BY <1>2, <3>1, FrameKeeps
  <2>2. CASE UNCHANGED framesVars
    <3>1. frames' = frames /\ asm' = asm /\ copying' = copying /\ announced' = announced
      BY <2>2 DEF framesVars
    <3> QED
      BY <1>2, <3>1 DEF FramesInvariant, FramesType, Assembling
  <2> QED
    BY <1>2, <2>1, <2>2
<1>3. ASSUME FramesInvariant PROVE MessagesAreWhole
  <2>1. AreWhole(frames, announced)
    BY <1>3 DEF FramesInvariant
  <2>2. \A f \in Sent : ReadLength(Encode(f.bytes)) = f.bytes
    BY FrameIs, LengthIsRead
  <2> QED
    BY <2>1, <2>2 DEF MessagesAreWhole, AreWhole, Nth
<1> QED
  BY <1>1, <1>2, <1>3, PTL DEF FramesSpec

-----------------------------------------------------------------------------
(* The rules of a project.                                                 *)

-----------------------------------------------------------------------------
(* The first and the last of some rules.                                   *)

\* The first of some numbers is no more than any of them.
LEMMA EarliestIs ==
    ASSUME NEW S \in SUBSET Nat, S # {}
    PROVE  Earliest(S) \in S /\ \A j \in S : Earliest(S) <= j
BY LeastOf DEF Earliest

\* Of some numbers up to n there is a last one.
LEMMA LatestIs ==
    ASSUME NEW n \in Nat, NEW S \in SUBSET (1 .. n), S # {}
    PROVE  Latest(S) \in S /\ \A j \in S : Latest(S) >= j
<1> DEFINE T == {k \in Nat : \A j \in S : k >= j}
<1>1. n \in T /\ T \in SUBSET Nat
  OBVIOUS
<1>2. PICK k \in T : \A y \in T : k <= y
  <2> HIDE DEF T
  <2> QED
    BY <1>1, LeastOf
<1>3. k \in Nat /\ \A j \in S : k >= j /\ j \in Nat /\ j > 0
  OBVIOUS
<1>4. k \in S
  <2>1. SUFFICES ASSUME k \notin S PROVE FALSE
    OBVIOUS
  <2>2. \A j \in S : k - 1 >= j
    BY <1>3, <2>1
  <2>3. k - 1 \in Nat
    <3>1. PICK j \in S : TRUE
      OBVIOUS
    <3>2. k - 1 >= j /\ j \in Nat /\ j > 0
      BY <1>3, <2>2
    <3> QED
      BY <1>3, <3>2
  <2>4. k - 1 \in T
    BY <2>2, <2>3
  <2> QED
    BY <1>2, <1>3, <2>4
<1>5. \E i \in S : \A j \in S : i >= j
  BY <1>3, <1>4
<1> QED
  BY <1>5 DEF Latest

\* They are the only ones of which that is true.
LEMMA OnlyOne ==
    ASSUME NEW n \in Nat, NEW S \in SUBSET (1 .. n), NEW x \in S
    PROVE  /\ (\A j \in S : x <= j) => Earliest(S) = x
           /\ (\A j \in S : x >= j) => Latest(S) = x
<1>1. S \in SUBSET Nat /\ S # {}
  OBVIOUS
<1>2. Earliest(S) \in S /\ \A j \in S : Earliest(S) <= j
  BY <1>1, EarliestIs
<1>3. Latest(S) \in S /\ \A j \in S : Latest(S) >= j
  BY <1>1, LatestIs
<1>4. ASSUME \A j \in S : x <= j PROVE Earliest(S) = x
  <2>1. Earliest(S) <= x /\ x <= Earliest(S) /\ Earliest(S) \in Nat /\ x \in Nat
    BY <1>1, <1>2, <1>4
  <2> QED
    BY <2>1
<1>5. ASSUME \A j \in S : x >= j PROVE Latest(S) = x
  <2>1. Latest(S) >= x /\ x >= Latest(S) /\ Latest(S) \in Nat /\ x \in Nat
    BY <1>1, <1>3, <1>5
  <2> QED
    BY <2>1
<1> QED
  BY <1>4, <1>5

(* Rule i is one of n, and comes behind those of S.                        *)
Behind(S, i, n) ==
    n \in Nat /\ S \in SUBSET (1 .. n) /\ i \in 1 .. n /\ i \notin S /\ \A j \in S : j < i

\* One rule more, behind the others of S: whether it is of the types, and where it
\* stands among those that are.
RuleAdds(rs, S, i, types) ==
    IF rs[i].action.type \in types
    THEN /\ OfTypes(rs, S \cup {i}, types) = OfTypes(rs, S, types) \cup {i}
         /\ OfTypes(rs, S \cup {i}, types) # {}
         /\ Latest(OfTypes(rs, S \cup {i}, types)) = i
    ELSE OfTypes(rs, S \cup {i}, types) = OfTypes(rs, S, types)

\* It is so for every rule behind the others.
LEMMA OneRuleMore ==
    ASSUME NEW rs, NEW n, NEW S, NEW i, Behind(S, i, n), NEW types
    PROVE  RuleAdds(rs, S, i, types)
<1>1. rs[i].action.type \notin types => OfTypes(rs, S \cup {i}, types) = OfTypes(rs, S, types)
  BY DEF OfTypes
<1>2. ASSUME rs[i].action.type \in types
      PROVE  /\ OfTypes(rs, S \cup {i}, types) = OfTypes(rs, S, types) \cup {i}
             /\ OfTypes(rs, S \cup {i}, types) # {}
             /\ Latest(OfTypes(rs, S \cup {i}, types)) = i
  <2> DEFINE T == OfTypes(rs, S \cup {i}, types)
  <2> USE DEF Behind
  <2>1. T = OfTypes(rs, S, types) \cup {i}
    BY <1>2 DEF OfTypes
  <2>2. OfTypes(rs, S, types) \subseteq S
    BY DEF OfTypes
  <2>3. T \in SUBSET (1 .. n) /\ i \in T
    BY <2>1, <2>2
  <2>4. \A j \in T : i >= j
    <3>1. i >= i /\ \A j \in S : i >= j
      OBVIOUS
    <3> HIDE DEF T
    <3> QED
      BY <2>1, <2>2, <3>1
  <2> HIDE DEF T
  <2>5. Latest(T) = i
    BY <2>3, <2>4, OnlyOne
  <2> QED
    BY <2>1, <2>3, <2>5 DEF T
<1> QED
  BY <1>1, <1>2 DEF RuleAdds

\* What the header is after one rule more.
LEMMA HeaderMore ==
    ASSUME NEW rs, NEW n, NEW S, NEW i, Behind(S, i, n)
    PROVE  \A set, remove, before : Header(rs, S \cup {i}, set, remove, before)
              = IF rs[i].action.type = remove THEN None
                ELSE IF rs[i].action.type = set THEN Last(rs[i].action.list)
                ELSE Header(rs, S, set, remove, before)
<1> TAKE set, remove, before
<1> DEFINE types == {set, remove}
           more == OfTypes(rs, S \cup {i}, types)
<1>1. Header(rs, S \cup {i}, set, remove, before)
         = IF more = {} THEN before
           ELSE IF rs[Latest(more)].action.type = remove THEN None
           ELSE Last(rs[Latest(more)].action.list)
  BY DEF Header
<1>2. Header(rs, S, set, remove, before)
         = IF OfTypes(rs, S, types) = {} THEN before
           ELSE IF rs[Latest(OfTypes(rs, S, types))].action.type = remove THEN None
           ELSE Last(rs[Latest(OfTypes(rs, S, types))].action.list)
  BY DEF Header
<1>3. /\ rs[i].action.type \in types => more # {} /\ Latest(more) = i
      /\ rs[i].action.type \notin types => more = OfTypes(rs, S, types)
  <2>1. RuleAdds(rs, S, i, types)
    BY OneRuleMore
  <2> HIDE DEF types
  <2> QED
    BY <2>1 DEF RuleAdds
<1> HIDE DEF more
<1> QED
  BY <1>1, <1>2, <1>3

\* No rule, no change and no answer.
LEMMA NoRuleYet ==
    ASSUME NEW rs
    PROVE  /\ \A types : OfTypes(rs, {}, types) = {}
           /\ \A set, remove, before : Header(rs, {}, set, remove, before) = before
           /\ \A method : Answering(rs, {}, method) = {}
<1>1. \A types : OfTypes(rs, {}, types) = {}
  BY DEF OfTypes
<1> QED
  BY <1>1 DEF Header, Answering

(* Whether a rule of this type answers a request of this method.           *)
Replies(type, method) == type \in AnswerTypes \/ (method = "OPTIONS" /\ type = "allow_cors")

\* The rules that answer, and what they answer.
LEMMA AnsweringMore ==
    ASSUME NEW rs, NEW S, NEW i, NEW method
    PROVE  Answering(rs, S \cup {i}, method)
              = Answering(rs, S, method)
                   \cup (IF Replies(rs[i].action.type, method) THEN {i} ELSE {})
<1>1. \A types : OfTypes(rs, S \cup {i}, types)
                    = OfTypes(rs, S, types) \cup (IF rs[i].action.type \in types THEN {i} ELSE {})
  BY DEF OfTypes
<1>2. OfTypes(rs, S \cup {i}, AnswerTypes)
         = OfTypes(rs, S, AnswerTypes) \cup (IF rs[i].action.type \in AnswerTypes THEN {i} ELSE {})
  BY <1>1
<1>3. OfTypes(rs, S \cup {i}, {"allow_cors"})
         = OfTypes(rs, S, {"allow_cors"})
              \cup (IF rs[i].action.type = "allow_cors" THEN {i} ELSE {})
  BY <1>1
<1>4. CASE method = "OPTIONS"
  BY <1>2, <1>3, <1>4 DEF Answering, Replies
<1>5. CASE method # "OPTIONS"
  BY <1>2, <1>5 DEF Answering, Replies
<1> QED
  BY <1>4, <1>5

IsAnswer(s) ==
    /\ s = [status |-> s.status, header |-> s.header, body |-> s.body, kind |-> s.kind]
    /\ s.kind \in {"whole", "cut", "streamed"}

\* A rule answers when it is one of those that do, and then with something.
LEMMA AnswerIs ==
    ASSUME NEW r, NEW q
    PROVE  /\ Replies(r.action.type, q.method)
                 => LocalAnswer(r, q) # NoAnswer /\ IsAnswer(LocalAnswer(r, q))
           /\ ~Replies(r.action.type, q.method) => LocalAnswer(r, q) = NoAnswer
           /\ r.action.type = "mock" =>
                 LocalAnswer(r, q) = Local(IF r.action.status = 0 THEN 200 ELSE r.action.status,
                                           r.action.value)
           /\ r.action.type = "block" => LocalAnswer(r, q) = BlockResponse(r.action)
<1> DEFINE t == r.action.type
<1>1. \A status, body : Local(status, body) # NoAnswer /\ IsAnswer(Local(status, body))
  BY DEF Local, NoAnswer, IsAnswer
<1>2. CASE t = "mock"
  <2>1. LocalAnswer(r, q) = Local(IF r.action.status = 0 THEN 200 ELSE r.action.status,
                                  r.action.value)
    BY <1>2 DEF LocalAnswer
  <2> QED
    BY <1>1, <1>2, <2>1 DEF AnswerTypes, Replies
<1>3. CASE t = "block"
  <2>1. LocalAnswer(r, q) = BlockResponse(r.action)
    BY <1>3 DEF LocalAnswer
  <2>2. BlockResponse(r.action) # NoAnswer /\ IsAnswer(BlockResponse(r.action))
    BY <1>1 DEF BlockResponse
  <2> QED
    BY <1>3, <2>1, <2>2 DEF AnswerTypes, Replies
<1>4. CASE t = "map_local"
  <2>1. LocalAnswer(r, q) = LocalFile(r.action.value)
    BY <1>4 DEF LocalAnswer
  <2>2. LocalFile(r.action.value) # NoAnswer /\ IsAnswer(LocalFile(r.action.value))
    BY <1>1 DEF LocalFile
  <2> QED
    BY <1>4, <2>1, <2>2 DEF AnswerTypes, Replies
<1>5. CASE t = "allow_cors" /\ q.method = "OPTIONS"
  <2>1. LocalAnswer(r, q) = Local(204, None)
    BY <1>5 DEF LocalAnswer
  <2> QED
    BY <1>1, <1>5, <2>1 DEF AnswerTypes, Replies
<1>6. CASE ~Replies(t, q.method)
  <2>1. t # "mock" /\ t # "block" /\ t # "map_local"
    BY <1>6 DEF AnswerTypes, Replies
  <2>2. ~(t = "allow_cors" /\ q.method = "OPTIONS")
    BY <1>6 DEF Replies
  <2>3. LocalAnswer(r, q) = NoAnswer
    BY <2>1, <2>2 DEF LocalAnswer
  <2> QED
    BY <1>6, <2>1, <2>3
<1>7. Replies(t, q.method) =>
         t = "mock" \/ t = "block" \/ t = "map_local" \/ (t = "allow_cors" /\ q.method = "OPTIONS")
  BY DEF AnswerTypes, Replies
<1> QED
  BY <1>2, <1>3, <1>4, <1>5, <1>6, <1>7

-----------------------------------------------------------------------------
(* The inductive invariant: the rules whose turn is over have done what    *)
(* they mean, one behind the other.                                        *)

IsRequest(q) ==
    q = [method |-> q.method, url |-> q.url, header |-> q.header, body |-> q.body, cut |-> q.cut]
Listed(rs) ==
    /\ \E n \in Nat : DOMAIN rs = 1 .. n
    /\ \A i \in DOMAIN rs : rs[i].action.type = "rewrite_url" => rs[i].pattern # None
RequestIsMeant(rs, S, w, q, a) ==
    /\ IsRequest(q) /\ q.method = w.method /\ q.cut = w.cut
    /\ q.header = Header(rs, S, "set_request_header", "remove_request_header", w.header)
    /\ w.cut => q.body = w.body
    /\ Answering(rs, S, w.method) = {} => a = NoAnswer
    /\ Answering(rs, S, w.method) # {} =>
          /\ a = LocalAnswer(rs[Earliest(Answering(rs, S, w.method))], w)
          /\ a # NoAnswer /\ IsAnswer(a)
ResponseIsMeant(rs, S, g, s) ==
    /\ IsAnswer(s) /\ s.kind = g.kind
    /\ s.header = Header(rs, S, "set_response_header", "remove_response_header", g.header)
    /\ s.status = IF OfTypes(rs, S, {"set_status"}) = {} \/ g.kind = "streamed" THEN g.status
                  ELSE rs[Latest(OfTypes(rs, S, {"set_status"}))].action.status
    /\ g.kind # "whole" => s.body = g.body
RulesInvariant ==
    /\ Listed(rules) /\ Listed(moment.rules)
    /\ stage \in {"idle", "request", "response", "done", "failed"}
    /\ stage = "idle" => reply = NoAnswer
    /\ stage # "idle" =>
          /\ matched = Applying /\ left \subseteq matched
          /\ \A i \in matched \ left : \A j \in left : i < j
    /\ stage = "request" => RequestIsMeant(moment.rules, matched \ left, moment.req, req, reply)
    /\ stage \in {"response", "done"} =>
          /\ RequestIsMeant(moment.rules, matched, moment.req, req, reply)
          /\ reply # NoAnswer => given = reply
          /\ ResponseIsMeant(moment.rules, matched \ left, given, res)
    /\ stage = "done" => left = {}

\* One rule of a request keeps it what the rules mean.
LEMMA RequestStep ==
    ASSUME NEW rs, NEW n, NEW S, NEW i, Behind(S, i, n),
           NEW w, NEW q, NEW a, RequestIsMeant(rs, S, w, q, a)
    PROVE  RequestIsMeant(rs, S \cup {i}, w, EditedRequest(rs[i], q),
                          IF a = NoAnswer THEN LocalAnswer(rs[i], q) ELSE a)
<1> DEFINE b == IF a = NoAnswer THEN LocalAnswer(rs[i], q) ELSE a
           t == rs[i].action.type
           set == "set_request_header"
           remove == "remove_request_header"
           more == EditedRequest(rs[i], q)
           H(T) == Header(rs, T, set, remove, w.header)
<1>1. IsRequest(q) /\ q.method = w.method /\ q.cut = w.cut /\ q.header = H(S)
      /\ (w.cut => q.body = w.body)
  BY DEF RequestIsMeant
<1>2. /\ t = set => H(S \cup {i}) = Last(rs[i].action.list)
      /\ t = remove => H(S \cup {i}) = None
      /\ t \notin {set, remove} => H(S \cup {i}) = H(S)
  <2>1. \A s, r, f : Header(rs, S \cup {i}, s, r, f)
                        = IF rs[i].action.type = r THEN None
                          ELSE IF rs[i].action.type = s THEN Last(rs[i].action.list)
                          ELSE Header(rs, S, s, r, f)
    BY HeaderMore
  <2>2. H(S \cup {i}) = IF t = remove THEN None
                        ELSE IF t = set THEN Last(rs[i].action.list) ELSE H(S)
    BY <2>1
  <2> HIDE DEF H, t
  <2> QED
    BY <2>1, <2>2
<1>3. \A h : LET m == [q EXCEPT !.header = h] IN
         IsRequest(m) /\ m.method = q.method /\ m.cut = q.cut /\ m.header = h /\ m.body = q.body
  BY <1>1 DEF IsRequest
<1>4. LET m == ReplaceRequestBody(rs[i], q) IN
         IsRequest(m) /\ m.method = q.method /\ m.cut = q.cut /\ m.header = q.header
         /\ (q.cut => m.body = q.body)
  <2>1. CASE q.cut
    BY <1>1, <2>1 DEF ReplaceRequestBody
  <2>2. CASE ~q.cut
    <3>1. \A x : LET m == [q EXCEPT !.body = x] IN
             IsRequest(m) /\ m.method = q.method /\ m.cut = q.cut /\ m.header = q.header
      BY <1>1 DEF IsRequest
    <3>2. ReplaceRequestBody(rs[i], q)
             = [q EXCEPT !.body = Substitute(rs[i].action.list, q.body)]
      BY <2>2 DEF ReplaceRequestBody
    <3> QED
      BY <2>2, <3>1, <3>2
  <2> QED
    BY <2>1, <2>2
<1>5. LET m == RewriteURL(rs[i], q) IN
         IsRequest(m) /\ m.method = q.method /\ m.cut = q.cut /\ m.header = q.header
         /\ m.body = q.body
  <2>1. \A x : LET m == [q EXCEPT !.url = x] IN
           IsRequest(m) /\ m.method = q.method /\ m.cut = q.cut /\ m.header = q.header
           /\ m.body = q.body
    BY <1>1 DEF IsRequest
  <2> QED
    BY <1>1, <2>1 DEF RewriteURL
<1>6. /\ IsRequest(more) /\ more.method = w.method /\ more.cut = w.cut
      /\ more.header = H(S \cup {i})
      /\ w.cut => more.body = w.body
  <2>1. CASE t = set
    <3>1. more = [q EXCEPT !.header = Last(rs[i].action.list)]
      BY <2>1 DEF EditedRequest
    <3> HIDE DEF more, H
    <3> QED
      BY <1>1, <1>2, <1>3, <2>1, <3>1
  <2>2. CASE t = remove
    <3>1. more = [q EXCEPT !.header = None]
      BY <2>2 DEF EditedRequest
    <3> HIDE DEF more, H
    <3> QED
      BY <1>1, <1>2, <1>3, <2>2, <3>1
  <2>3. CASE t \notin {set, remove}
    <3>1. more \in {q, ReplaceRequestBody(rs[i], q), RewriteURL(rs[i], q)}
      BY <2>3 DEF EditedRequest
    <3> HIDE DEF more, H, t
    <3> QED
      BY <1>1, <1>2, <1>4, <1>5, <2>3, <3>1
  <2> QED
    BY <2>1, <2>2, <2>3
<1> DEFINE A(T) == Answering(rs, T, w.method)
           answers == Replies(t, w.method)
<1>7. A(S \cup {i}) = A(S) \cup (IF answers THEN {i} ELSE {})
  BY AnsweringMore
<1>8. /\ A(S) \subseteq S
      /\ n \in Nat /\ S \in SUBSET (1 .. n) /\ i \in 1 .. n /\ i \notin S
      /\ \A j \in S : j < i
  BY DEF Answering, OfTypes, Behind
<1>9. /\ A(S) = {} => a = NoAnswer
      /\ A(S) # {} => a = LocalAnswer(rs[Earliest(A(S))], w) /\ a # NoAnswer /\ IsAnswer(a)
  BY DEF RequestIsMeant
<1>10. LocalAnswer(rs[i], q) = LocalAnswer(rs[i], w)
  BY <1>1 DEF LocalAnswer
<1>11. /\ answers => LocalAnswer(rs[i], w) # NoAnswer /\ IsAnswer(LocalAnswer(rs[i], w))
       /\ ~answers => LocalAnswer(rs[i], w) = NoAnswer
  BY AnswerIs
<1> HIDE DEF A, answers, H
<1>12. /\ A(S \cup {i}) = {} => b = NoAnswer
       /\ A(S \cup {i}) # {} =>
             b = LocalAnswer(rs[Earliest(A(S \cup {i}))], w) /\ b # NoAnswer /\ IsAnswer(b)
  <2>1. CASE A(S) # {}
    <3>1. A(S) \in SUBSET (1 .. n) /\ A(S \cup {i}) \in SUBSET (1 .. n) /\ A(S) \in SUBSET Nat
          /\ A(S \cup {i}) # {}
      <4>1. A(S) \subseteq A(S \cup {i}) /\ A(S \cup {i}) \subseteq A(S) \cup {i}
        BY <1>7
      <4>2. A(S) \in SUBSET (1 .. n)
        BY <1>8
      <4>3. A(S) \cup {i} \in SUBSET (1 .. n)
        BY <1>8, <4>2
      <4>4. A(S \cup {i}) \in SUBSET (1 .. n)
        BY <4>1, <4>3
      <4>5. 1 .. n \in SUBSET Nat
        BY <1>8
      <4> QED
        BY <2>1, <4>1, <4>2, <4>4, <4>5
    <3>2. Earliest(A(S)) \in A(S) /\ \A j \in A(S) : Earliest(A(S)) <= j
      BY <2>1, <3>1, EarliestIs
    <3>3. Earliest(A(S)) \in A(S \cup {i}) /\ \A j \in A(S \cup {i}) : Earliest(A(S)) <= j
      <4>1. Earliest(A(S)) \in S /\ Earliest(A(S)) < i /\ Earliest(A(S)) \in Nat
        BY <1>8, <3>1, <3>2
      <4>2. Earliest(A(S)) <= i
        BY <1>8, <4>1
      <4> QED
        BY <1>7, <3>2, <4>2
    <3>4. Earliest(A(S \cup {i})) = Earliest(A(S))
      BY <1>8, <3>1, <3>3, OnlyOne
    <3>5. b = a
      BY <1>9, <2>1
    <3> QED
      BY <1>9, <2>1, <3>1, <3>4, <3>5
  <2>2. CASE A(S) = {} /\ answers
    <3>1. A(S \cup {i}) = {i}
      BY <1>7, <2>2
    <3>2. Earliest({i}) = i
      <4>1. {i} \in SUBSET (1 .. n) /\ i \in {i} /\ \A j \in {i} : i <= j
        BY <1>8
      <4> QED
        BY <1>8, <4>1, OnlyOne
    <3>3. b = LocalAnswer(rs[i], w)
      BY <1>9, <1>10, <2>2
    <3> QED
      BY <1>11, <2>2, <3>1, <3>2, <3>3
  <2>3. CASE A(S) = {} /\ ~answers
    <3>1. A(S \cup {i}) = {} /\ b = NoAnswer
      BY <1>7, <1>9, <1>10, <1>11, <2>3
    <3> QED
      BY <3>1
  <2> QED
    BY <2>1, <2>2, <2>3
<1> HIDE DEF b, more
<1>13. RequestIsMeant(rs, S \cup {i}, w, more, b)
  BY <1>6, <1>12 DEF RequestIsMeant, A, H
<1> QED
  BY <1>13 DEF b, more

\* What the status is after one rule more.
LEMMA StatusMore ==
    ASSUME NEW rs, NEW n, NEW S, NEW i, Behind(S, i, n)
    PROVE  IF rs[i].action.type = "set_status"
           THEN /\ OfTypes(rs, S \cup {i}, {"set_status"}) # {}
                /\ Latest(OfTypes(rs, S \cup {i}, {"set_status"})) = i
           ELSE OfTypes(rs, S \cup {i}, {"set_status"}) = OfTypes(rs, S, {"set_status"})
<1>1. RuleAdds(rs, S, i, {"set_status"})
  BY OneRuleMore
<1> QED
  BY <1>1 DEF RuleAdds

\* One rule of a response keeps it what the rules mean.
LEMMA ResponseStep ==
    ASSUME NEW rs, NEW n, NEW S, NEW i, Behind(S, i, n),
           NEW g, NEW s, NEW more, ResponseIsMeant(rs, S, g, s),
           IF s.kind = "streamed" /\ rs[i].action.type \in {"set_status", "replace_body"}
           THEN more = s
           ELSE /\ ~(rs[i].action.type = "replace_body" /\ s.kind = "cut")
                /\ more = EditedResponse(rs[i], s)
    PROVE  ResponseIsMeant(rs, S \cup {i}, g, more)
<1> DEFINE t == rs[i].action.type
           set == "set_response_header"
           remove == "remove_response_header"
           H(T) == Header(rs, T, set, remove, g.header)
           C(T) == OfTypes(rs, T, {"set_status"})
           Code(T) == IF C(T) = {} \/ g.kind = "streamed" THEN g.status
                      ELSE rs[Latest(C(T))].action.status
<1>1. /\ IsAnswer(s) /\ s.kind = g.kind /\ s.header = H(S) /\ s.status = Code(S)
      /\ (g.kind # "whole" => s.body = g.body)
  BY DEF ResponseIsMeant
<1>2. /\ t = set => H(S \cup {i}) = Last(rs[i].action.list)
      /\ t = remove => H(S \cup {i}) = None
      /\ t \notin {set, remove} => H(S \cup {i}) = H(S)
  <2>1. \A st, r, b : Header(rs, S \cup {i}, st, r, b)
                        = IF rs[i].action.type = r THEN None
                          ELSE IF rs[i].action.type = st THEN Last(rs[i].action.list)
                          ELSE Header(rs, S, st, r, b)
    BY HeaderMore
  <2>2. H(S \cup {i}) = IF t = remove THEN None
                        ELSE IF t = set THEN Last(rs[i].action.list) ELSE H(S)
    BY <2>1
  <2> HIDE DEF H, t
  <2> QED
    BY <2>2
<1>3. /\ t = "set_status" => Code(S \cup {i}) = IF g.kind = "streamed" THEN g.status
                                                ELSE rs[i].action.status
      /\ t # "set_status" => Code(S \cup {i}) = Code(S)
  <2>1. IF t = "set_status" THEN C(S \cup {i}) # {} /\ Latest(C(S \cup {i})) = i
                            ELSE C(S \cup {i}) = C(S)
    BY StatusMore
  <2> HIDE DEF C, t
  <2> QED
    BY <2>1
<1> HIDE DEF H, Code
<1>4. /\ IsAnswer(more) /\ more.kind = g.kind
      /\ more.header = H(S \cup {i})
      /\ more.status = Code(S \cup {i})
      /\ g.kind # "whole" => more.body = g.body
  <2>1. CASE t = set
    <3>1. more = [s EXCEPT !.header = Last(rs[i].action.list)]
      BY <2>1 DEF EditedResponse
    <3> QED
      BY <1>1, <1>2, <1>3, <2>1, <3>1 DEF IsAnswer
  <2>2. CASE t = remove
    <3>1. more = [s EXCEPT !.header = None]
      BY <2>2 DEF EditedResponse
    <3> QED
      BY <1>1, <1>2, <1>3, <2>2, <3>1 DEF IsAnswer
  <2>3. CASE t = "set_status" /\ g.kind = "streamed"
    <3>1. more = s
      BY <1>1, <2>3
    <3>2. Code(S) = g.status
      BY <2>3 DEF Code
    <3> QED
      BY <1>1, <1>2, <1>3, <2>3, <3>1, <3>2
  <2>4. CASE t = "set_status" /\ g.kind # "streamed"
    <3>1. more = [s EXCEPT !.status = rs[i].action.status]
      BY <1>1, <2>4 DEF EditedResponse, SetStatus
    <3> QED
      BY <1>1, <1>2, <1>3, <2>4, <3>1 DEF IsAnswer
  <2>5. CASE t = "replace_body" /\ g.kind = "whole"
    <3>1. more = [s EXCEPT !.body = Substitute(rs[i].action.list, s.body)]
      BY <1>1, <2>5 DEF EditedResponse, ReplaceBody
    <3> QED
      BY <1>1, <1>2, <1>3, <2>5, <3>1 DEF IsAnswer
  <2>6. CASE t = "replace_body" /\ g.kind # "whole"
    <3>1. s.kind = "cut" \/ s.kind = "streamed"
      BY <1>1, <2>6 DEF IsAnswer
    <3>2. more = s
      BY <2>6, <3>1
    <3> QED
      BY <1>1, <1>2, <1>3, <2>6, <3>2
  <2>7. CASE t \notin {set, remove, "set_status", "replace_body"}
    <3>1. more = EditedResponse(rs[i], s)
      BY <2>7
    <3>2. EditedResponse(rs[i], s) = s
      <4>1. t # set /\ t # remove /\ t # "set_status" /\ t # "replace_body"
        BY <2>7
      <4> QED
        BY <4>1 DEF EditedResponse
    <3> QED
      BY <1>1, <1>2, <1>3, <2>7, <3>1, <3>2
  <2> QED
    BY <2>1, <2>2, <2>3, <2>4, <2>5, <2>6, <2>7
<1> QED
  BY <1>4 DEF ResponseIsMeant, H, Code

\* The rule whose turn it is comes behind those whose turn is over.
LEMMA TurnIs ==
    ASSUME RulesInvariant, stage # "idle", Turn
    PROVE  /\ Earliest(left) \in left /\ Earliest(left) \in DOMAIN moment.rules
           /\ \E n : Behind(matched \ left, Earliest(left), n)
           /\ matched \ (left \ {Earliest(left)}) = (matched \ left) \cup {Earliest(left)}
           /\ \A i \in matched \ (left \ {Earliest(left)}) :
                 \A j \in left \ {Earliest(left)} : i < j
<1> DEFINE e == Earliest(left)
<1>1. /\ matched = Applying /\ left \subseteq matched
      /\ \A i \in matched \ left : \A j \in left : i < j
  BY DEF RulesInvariant
<1>2. PICK n \in Nat : DOMAIN moment.rules = 1 .. n
  BY DEF RulesInvariant, Listed
<1>3. matched \subseteq 1 .. n
  BY <1>1, <1>2 DEF Applying
<1>4. left \in SUBSET Nat /\ left # {}
  BY <1>1, <1>3 DEF Turn
<1>5. e \in left /\ \A j \in left : e <= j
  BY <1>4, EarliestIs
<1> HIDE DEF e
<1>6. Behind(matched \ left, e, n)
  <2>1. matched \ left \in SUBSET (1 .. n) /\ e \in 1 .. n /\ e \notin matched \ left
    BY <1>1, <1>3, <1>5
  <2>2. \A j \in matched \ left : j < e
    BY <1>1, <1>5
  <2> QED
    BY <2>1, <2>2 DEF Behind
<1>7. matched \ (left \ {e}) = (matched \ left) \cup {e}
  BY <1>1, <1>5
<1>8. ASSUME NEW i \in matched \ (left \ {e}), NEW j \in left \ {e} PROVE i < j
  <2>1. CASE i = e
    <3>1. e <= j /\ e # j /\ e \in Nat /\ j \in Nat
      BY <1>4, <1>5
    <3> QED
      BY <2>1, <3>1
  <2>2. CASE i # e
    BY <1>1, <2>2
  <2> QED
    BY <2>1, <2>2
<1>9. e \in DOMAIN moment.rules
  BY <1>1, <1>2, <1>3, <1>5
<1> QED
  BY <1>5, <1>6, <1>7, <1>8, <1>9 DEF e

\* Rules that compile are listed.
LEMMA CompiledIsListed ==
    ASSUME RulesAssumption, NEW list \in RuleLists, \A i \in DOMAIN list : Compilable(list[i])
    PROVE  Listed([i \in DOMAIN list |-> CompileOne(list[i])])
<1> DEFINE rs == [i \in DOMAIN list |-> CompileOne(list[i])]
<1>1. Len(list) \in Nat /\ DOMAIN list = 1 .. Len(list)
  BY DEF RulesAssumption
<1>2. DOMAIN rs = DOMAIN list
  OBVIOUS
<1>3. ASSUME NEW i \in DOMAIN list, rs[i].action.type = "rewrite_url"
      PROVE  rs[i].pattern # None
  <2> DEFINE r == list[i]
             a == Normalize(r.action)
  <2>1. rs[i] = CompileOne(r) /\ Compilable(r)
    OBVIOUS
  <2> HIDE DEF rs, r
  <2>2. rs[i].action = a
        /\ rs[i].pattern = IF a.type = "rewrite_url" /\ a.pattern = None THEN r.url ELSE a.pattern
    <3> HIDE DEF a
    <3> QED
      BY <2>1 DEF CompileOne, a
  <2>3. a.type = "rewrite_url" => a.pattern # None \/ r.url # None
    BY <2>1 DEF Compilable
  <2> HIDE DEF a
  <2> QED
    BY <1>3, <2>2, <2>3
<1> HIDE DEF rs
<1>4. Listed(rs)
  BY <1>1, <1>2, <1>3 DEF Listed
<1> QED
  BY <1>4 DEF rs

\* Each step keeps the invariant.
LEMMA RulesStep ==
    ASSUME RulesAssumption, RulesInvariant, RulesNext
    PROVE  RulesInvariant'
<1> DEFINE e == Earliest(left)
<1>1. ASSUME NEW list \in RuleLists, Save(list) PROVE RulesInvariant'
  <2>1. rules' = [i \in DOMAIN list |-> CompileOne(list[i])]
        /\ UNCHANGED <<moment, stage, matched, left, req, reply, given, res>>
    BY <1>1 DEF Save
  <2>2. Listed(rules')
    BY <1>1, <2>1, CompiledIsListed DEF Save
  <2>3. Applying' = Applying
    BY <2>1 DEF Applying
  <2>4. (Listed(rules))' /\ (Listed(moment.rules))'
    BY <2>1, <2>2 DEF RulesInvariant
  <2> QED
    BY <2>1, <2>3, <2>4 DEF RulesInvariant
<1>2. ASSUME NEW q \in Requests, MatchRules(q) PROVE RulesInvariant'
  <2>1. /\ stage = "idle" /\ req' = q /\ moment' = [req |-> q, rules |-> rules]
        /\ matched' = {i \in DOMAIN rules : Matches(rules[i], q)} /\ left' = matched'
        /\ stage' = "request" /\ rules' = rules /\ reply' = reply
    BY <1>2 DEF MatchRules
  <2>2. moment'.req = q /\ moment'.rules = rules
    BY <2>1
  <2>3. Listed(rules) /\ reply = NoAnswer
    BY <2>1 DEF RulesInvariant
  <2>4. (matched = Applying)'
    <3>1. Applying' = {i \in DOMAIN rules :
             LET r == rules[i] IN
             /\ r.on
             /\ r.method \in {None, q.method}
             /\ r.url # None => q.url \in r.url
             /\ r.filter # None => q.header \in r.filter}
      BY <2>2 DEF Applying
    <3> QED
      BY <2>1, <3>1 DEF Matches
  <2>5. IsRequest(q)
    BY DEF RulesAssumption, IsRequest
  <2>6. matched' \ left' = {}
    BY <2>1
  <2>7. RequestIsMeant(rules, {}, q, q, NoAnswer)
    BY <2>5, NoRuleYet DEF RequestIsMeant
  <2>8. (RequestIsMeant(moment.rules, matched \ left, moment.req, req, reply))'
    BY <2>1, <2>2, <2>3, <2>6, <2>7
  <2>9. (Listed(rules) /\ Listed(moment.rules))'
    BY <2>1, <2>2, <2>3
  <2>10. (\A i \in matched \ left : \A j \in left : i < j)'
    BY <2>6
  <2> QED
    BY <2>1, <2>4, <2>8, <2>9, <2>10 DEF RulesInvariant
<1>3. ASSUME RuleOnRequest PROVE RulesInvariant'
  <2>1. /\ stage = "request" /\ Turn /\ left' = left \ {e}
        /\ req' = EditedRequest(Rule, req)
        /\ reply' = IF reply = NoAnswer THEN LocalAnswer(Rule, req) ELSE reply
        /\ stage' = IF Type = "rewrite_url" /\ Rule.pattern = None THEN "panic" ELSE "request"
        /\ UNCHANGED <<rules, moment, matched, given, res>>
    BY <1>3 DEF RuleOnRequest, Taken
  <2>2. /\ e \in left /\ e \in DOMAIN moment.rules
        /\ matched \ (left \ {e}) = (matched \ left) \cup {e}
        /\ \A i \in matched \ (left \ {e}) : \A j \in left \ {e} : i < j
    BY <2>1, TurnIs
  <2>3. PICK n : Behind(matched \ left, e, n)
    BY <2>1, TurnIs
  <2>4. Rule = moment.rules[e]
    BY DEF Rule
  <2> HIDE DEF e
  <2>5. stage' = "request"
    BY <2>1, <2>2, <2>4 DEF RulesInvariant, Listed, Type
  <2>6. RequestIsMeant(moment.rules, matched \ left, moment.req, req, reply)
    BY <2>1 DEF RulesInvariant
  <2>7. RequestIsMeant(moment.rules, (matched \ left) \cup {e}, moment.req,
                       EditedRequest(moment.rules[e], req),
                       IF reply = NoAnswer THEN LocalAnswer(moment.rules[e], req) ELSE reply)
    BY <2>3, <2>6, RequestStep
  <2>8. (RequestIsMeant(moment.rules, matched \ left, moment.req, req, reply))'
    BY <2>1, <2>2, <2>4, <2>7
  <2>9. (\A i \in matched \ left : \A j \in left : i < j)'
    BY <2>1, <2>2
  <2>10. Applying' = Applying
    BY <2>1 DEF Applying
  <2>11. matched' = Applying' /\ left' \subseteq matched'
    BY <2>1, <2>10 DEF RulesInvariant
  <2> QED
    BY <2>1, <2>5, <2>8, <2>9, <2>11 DEF RulesInvariant
<1>4. ASSUME GoneWhileDelayed PROVE RulesInvariant'
  <2>1. stage # "idle" /\ stage' = "failed"
        /\ UNCHANGED <<rules, moment, matched, left, req, reply, given, res>>
    BY <1>4 DEF GoneWhileDelayed
  <2>2. Applying' = Applying
    BY <2>1 DEF Applying
  <2> QED
    BY <2>1, <2>2 DEF RulesInvariant
<1>5. ASSUME NEW r \in Responses \cup {reply}, Respond(r) PROVE RulesInvariant'
  <2>1. /\ stage = "request" /\ left = {} /\ stage' = "response" /\ left' = matched
        /\ given' = r /\ res' = r
        /\ UNCHANGED <<rules, moment, matched, req, reply>>
        /\ IF reply # NoAnswer THEN r = reply ELSE r \in Responses
    BY <1>5 DEF Respond, Turn
  <2>2. RequestIsMeant(moment.rules, matched, moment.req, req, reply)
    <3>1. matched \ left = matched
      BY <2>1
    <3> QED
      BY <2>1, <3>1 DEF RulesInvariant
  <2>3. IsAnswer(r)
    <3>1. CASE reply # NoAnswer
      BY <2>1, <2>2, <3>1 DEF RequestIsMeant
    <3>2. CASE reply = NoAnswer
      BY <2>1, <3>2 DEF RulesAssumption, IsAnswer
    <3> QED
      BY <3>1, <3>2
  <2>4. ResponseIsMeant(moment.rules, {}, r, r)
    BY <2>3, NoRuleYet DEF ResponseIsMeant
  <2>5. matched' \ left' = {}
    BY <2>1
  <2>6. (ResponseIsMeant(moment.rules, matched \ left, given, res))'
    BY <2>1, <2>4, <2>5
  <2>7. (RequestIsMeant(moment.rules, matched, moment.req, req, reply))'
    BY <2>1, <2>2
  <2>8. Applying' = Applying
    BY <2>1 DEF Applying
  <2>9. matched' = Applying' /\ left' \subseteq matched'
    BY <2>1, <2>8 DEF RulesInvariant
  <2>10. (\A i \in matched \ left : \A j \in left : i < j)'
    BY <2>5
  <2> QED
    BY <2>1, <2>6, <2>7, <2>9, <2>10 DEF RulesInvariant
<1>6. ASSUME RuleOnResponse PROVE RulesInvariant'
  <2>1. /\ stage = "response" /\ Turn /\ left' = left \ {e}
        /\ IF Skipped THEN UNCHANGED <<res, stage>>
           ELSE IF Type = "replace_body" /\ res.kind = "cut"
           THEN stage' = "failed" /\ UNCHANGED res
           ELSE res' = EditedResponse(Rule, res) /\ UNCHANGED stage
        /\ UNCHANGED <<rules, moment, matched, req, reply, given>>
    BY <1>6 DEF RuleOnResponse, Taken
  <2>2. /\ e \in left
        /\ matched \ (left \ {e}) = (matched \ left) \cup {e}
        /\ \A i \in matched \ (left \ {e}) : \A j \in left \ {e} : i < j
    BY <2>1, TurnIs
  <2>3. PICK n : Behind(matched \ left, e, n)
    BY <2>1, TurnIs
  <2>4. Rule = moment.rules[e]
    BY DEF Rule
  <2> HIDE DEF e
  <2>5. /\ RequestIsMeant(moment.rules, matched, moment.req, req, reply)
        /\ reply # NoAnswer => given = reply
        /\ ResponseIsMeant(moment.rules, matched \ left, given, res)
    BY <2>1 DEF RulesInvariant
  <2>6. (\A i \in matched \ left : \A j \in left : i < j)'
    BY <2>1, <2>2
  <2>7. Applying' = Applying
    BY <2>1 DEF Applying
  <2>8. matched' = Applying' /\ left' \subseteq matched'
    BY <2>1, <2>7 DEF RulesInvariant
  <2>9. CASE stage' = "failed"
    BY <2>1, <2>6, <2>8, <2>9 DEF RulesInvariant
  <2>10. CASE stage' # "failed"
    <3>1. IF res.kind = "streamed" /\ moment.rules[e].action.type \in {"set_status", "replace_body"}
          THEN res' = res
          ELSE /\ ~(moment.rules[e].action.type = "replace_body" /\ res.kind = "cut")
               /\ res' = EditedResponse(moment.rules[e], res)
      BY <2>1, <2>4, <2>10 DEF Skipped, Type
    <3>2. stage' = "response"
      BY <2>1, <2>10
    <3>3. ResponseIsMeant(moment.rules, (matched \ left) \cup {e}, given, res')
      BY <2>3, <2>5, <3>1, ResponseStep
    <3>4. (ResponseIsMeant(moment.rules, matched \ left, given, res))'
      BY <2>1, <2>2, <3>3
    <3>5. (RequestIsMeant(moment.rules, matched, moment.req, req, reply))'
      BY <2>1, <2>5
    <3> QED
      BY <2>1, <2>5, <2>6, <2>8, <3>2, <3>4, <3>5 DEF RulesInvariant
  <2> QED
    BY <2>9, <2>10
<1>7. ASSUME Deliver PROVE RulesInvariant'
  <2>1. stage = "response" /\ left = {} /\ stage' = "done"
        /\ UNCHANGED <<rules, moment, matched, left, req, reply, given, res>>
    BY <1>7 DEF Deliver, Turn
  <2>2. Applying' = Applying
    BY <2>1 DEF Applying
  <2> QED
    BY <2>1, <2>2 DEF RulesInvariant
<1> QED
  BY <1>1, <1>2, <1>3, <1>4, <1>5, <1>6, <1>7 DEF RulesNext

\* What the invariant means.
LEMMA InvariantMeans ==
    ASSUME RulesInvariant
    PROVE  RulesAreMeant
<1> DEFINE rs == moment.rules
           method == moment.req.method
<1>1. stage # "panic"
  BY DEF RulesInvariant
<1>2. ASSUME stage \in {"response", "done"}
      PROVE  /\ req.header = Header(rs, Applying, "set_request_header",
                                    "remove_request_header", moment.req.header)
             /\ moment.req.cut => req.body = moment.req.body
             /\ Answering(rs, Applying, method) = {} <=> reply = NoAnswer
             /\ Answering(rs, Applying, method) # {} =>
                   LET a == rs[Earliest(Answering(rs, Applying, method))].action IN
                   /\ a.type = "mock" =>
                         given.status = (IF a.status = 0 THEN 200 ELSE a.status)
                   /\ a.type = "mock" => given.body = a.value
                   /\ a.type = "block" =>
                         given.status = (IF a.status = 0 THEN 502 ELSE a.status)
  <2>1. RequestIsMeant(rs, Applying, moment.req, req, reply) /\ (reply # NoAnswer => given = reply)
    BY <1>2 DEF RulesInvariant
  <2> DEFINE A == Answering(rs, Applying, method)
             r == rs[Earliest(A)]
  <2>2. /\ A = {} => reply = NoAnswer
        /\ A # {} => reply = LocalAnswer(r, moment.req) /\ reply # NoAnswer
    BY <2>1 DEF RequestIsMeant
  <2>3. ASSUME A # {}
        PROVE  /\ r.action.type = "mock" =>
                     given.status = (IF r.action.status = 0 THEN 200 ELSE r.action.status)
               /\ r.action.type = "mock" => given.body = r.action.value
               /\ r.action.type = "block" =>
                     given.status = (IF r.action.status = 0 THEN 502 ELSE r.action.status)
    <3> HIDE DEF A, r
    <3>1. given = LocalAnswer(r, moment.req)
      BY <2>1, <2>2, <2>3
    <3>2. r.action.type = "mock" =>
             given = Local(IF r.action.status = 0 THEN 200 ELSE r.action.status, r.action.value)
      BY <3>1, AnswerIs
    <3>3. r.action.type = "block" => given = BlockResponse(r.action)
      BY <3>1, AnswerIs
    <3> QED
      BY <3>2, <3>3 DEF Local, BlockResponse
  <2>4. /\ req.header = Header(rs, Applying, "set_request_header", "remove_request_header",
                               moment.req.header)
        /\ moment.req.cut => req.body = moment.req.body
    BY <2>1 DEF RequestIsMeant
  <2> QED
    BY <2>2, <2>3, <2>4
<1>3. ASSUME stage = "done"
      PROVE  /\ res.header = Header(rs, Applying, "set_response_header",
                                    "remove_response_header", given.header)
             /\ res.status = IF \/ OfTypes(rs, Applying, {"set_status"}) = {}
                                \/ given.kind = "streamed" THEN given.status
                             ELSE rs[Latest(OfTypes(rs, Applying, {"set_status"}))].action.status
             /\ given.kind # "whole" => res.body = given.body
  <2>1. left = {} /\ matched = Applying /\ ResponseIsMeant(rs, matched \ left, given, res)
    BY <1>3 DEF RulesInvariant
  <2>2. ResponseIsMeant(rs, Applying, given, res)
    <3>1. matched \ left = Applying
      BY <2>1
    <3> QED
      BY <2>1, <3>1
  <2> QED
    BY <2>2 DEF ResponseIsMeant
<1> QED
  BY <1>1, <1>2, <1>3 DEF RulesAreMeant

\* What leaves for the server and what the client gets is what the rules of one moment say
\* of the request as it came, for any lists of rules, requests and responses, whatever is
\* saved while an exchange is under way (internal/domain/rules).
THEOREM RulesStayMeant ==
    ASSUME RulesAssumption
    PROVE  RulesSpec => []RulesAreMeant
<1>1. ASSUME RulesInit PROVE RulesInvariant
  <2>1. /\ rules = <<>> /\ stage = "idle" /\ moment = [req |-> None, rules |-> <<>>]
        /\ reply = NoAnswer
    BY <1>1 DEF RulesInit
  <2>2. Listed(<<>>)
    <3>1. DOMAIN <<>> = 1 .. 0 /\ 1 .. 0 = {} /\ 0 \in Nat
      OBVIOUS
    <3> QED
      BY <3>1 DEF Listed
  <2> QED
    BY <2>1, <2>2 DEF RulesInvariant
<1>2. ASSUME RulesInvariant, [RulesNext]_rulesVars PROVE RulesInvariant'
  <2>1. CASE RulesNext
    BY <1>2, <2>1, RulesStep
  <2>2. CASE UNCHANGED rulesVars
    BY <1>2, <2>2 DEF RulesInvariant, rulesVars, Applying
  <2> QED
    BY <1>2, <2>1, <2>2
<1>3. ASSUME RulesInvariant PROVE RulesAreMeant
  BY <1>3, InvariantMeans
<1> QED
  BY <1>1, <1>2, <1>3, PTL DEF RulesSpec

=============================================================================
