---------------------------- MODULE ProjectProofs ----------------------------
(***************************************************************************)
(* What Project guarantees for any number of projects, callers and         *)
(* settings.                                                               *)
(***************************************************************************)
EXTENDS OneCall, TLAPS

Announcing == {"notify", "notifyOnly"}

\* An announcement is under way exactly while a call is telling the watchers.
NoticeIsTheCallers ==
    /\ \A c \in Callers : call[c].at \in Announcing => notice.busy = TRUE
    /\ (\A c \in Callers : call[c].at \notin Announcing) => notice = Feed!Quiet

\* Nothing in memory outlives the process.
StoppedIsEmpty ==
    ~running => /\ active = None
                /\ notice = Feed!Quiet
                /\ mu = None
                /\ \A c \in Callers : call[c] = Idle

USE SettingsAssumption, DistinctAssumption

\* The variables keep their types.
THEOREM TypeCorrect == Spec => []TypeOK
<1>1. Init => TypeOK
  BY DEF Init, TypeOK, Feed!Quiet, Feed!Notices, Feed!Opening, Idle, Calls
<1>2. TypeOK /\ [Next]_vars => TypeOK'
  <2> SUFFICES ASSUME TypeOK, [Next]_vars PROVE TypeOK'
    OBVIOUS
  <2> USE DEF TypeOK, Snapshots, Calls, Feed!Notices, Feed!Opening,
              Feed!Quiet, Feed!Announce, Move, Return, Idle
  <2>1. ASSUME NEW p \in Projects, Create(p) PROVE TypeOK'
    BY <2>1 DEF Create
  <2>2. ASSUME NEW p \in Projects, NEW s \in Settings, Import(p, s) PROVE TypeOK'
    BY <2>2 DEF Import
  <2>3. ASSUME NEW c \in Callers, NEW p \in Projects, OpenRead(c, p) PROVE TypeOK'
    BY <2>3 DEF OpenRead
  <2>4. ASSUME NEW c \in Callers, NEW p \in Projects, DeleteCheck(c, p) PROVE TypeOK'
    BY <2>4 DEF DeleteCheck
  <2>5. ASSUME NEW c \in Callers, OpenSwap(c) PROVE TypeOK'
    BY <2>5 DEF OpenSwap, LockAndSwap
  <2>6. ASSUME NEW c \in Callers, CloseSwap(c) PROVE TypeOK'
    BY <2>6 DEF CloseSwap, LockAndSwap
  <2>7. ASSUME NEW c \in Callers, Remember(c) PROVE TypeOK'
    BY <2>7 DEF Remember
  <2>8. ASSUME NEW c \in Callers, DeleteRow(c) PROVE TypeOK'
    BY <2>8 DEF DeleteRow
  <2>9. ASSUME NEW c \in Callers, NEW s \in Settings, UpdateRow(c, s) PROVE TypeOK'
    BY <2>9 DEF UpdateRow
  <2>10. ASSUME NEW c \in Callers, Activate(c) PROVE TypeOK'
    BY <2>10 DEF Activate
  <2>11. ASSUME NEW c \in Callers, Notified(c) PROVE TypeOK'
    BY <2>11 DEF Notified
  <2>12. CASE Crash
    BY <2>12 DEF Crash
  <2>13. CASE RestoreOpens
    BY <2>13 DEF RestoreOpens, Remembers
  <2>14. CASE RestoreForgets
    BY <2>14 DEF RestoreForgets
  <2>15. CASE UNCHANGED vars
    BY <2>15 DEF vars
  <2> QED
    BY <2>1, <2>2, <2>3, <2>4, <2>5, <2>6, <2>7, <2>8, <2>9, <2>10, <2>11,
       <2>12, <2>13, <2>14, <2>15 DEF Next, CallStep
<1> QED
  BY <1>1, <1>2, PTL DEF Spec

\* What is stored compiles, whoever wrote it, so Restore can open it.
THEOREM StoredCompiles == Spec => []StoredSettingsCompile
<1>1. Init => StoredSettingsCompile
  BY DEF Init, StoredSettingsCompile, Stored
<1>2. TypeOK /\ StoredSettingsCompile /\ [Next]_vars => StoredSettingsCompile'
  <2> SUFFICES ASSUME TypeOK, StoredSettingsCompile, [Next]_vars
               PROVE  StoredSettingsCompile'
    OBVIOUS
  <2>1. ASSUME UNCHANGED rows PROVE StoredSettingsCompile'
    BY <2>1 DEF StoredSettingsCompile, Stored
  <2>2. ASSUME NEW p \in Projects, NEW v \in Compiling \cup {Gone},
               rows' = [rows EXCEPT ![p] = v]
        PROVE  StoredSettingsCompile'
    BY <2>2 DEF StoredSettingsCompile, Stored, TypeOK
  <2>3. ASSUME NEW c \in Callers, NEW s \in Settings, UpdateRow(c, s)
        PROVE  StoredSettingsCompile'
    <3>1. active.id \in Projects
      BY <2>3 DEF UpdateRow, TypeOK, Snapshots
    <3> QED
      BY <2>2, <2>3, <3>1 DEF UpdateRow
  <2>4. ASSUME NEW c \in Callers, DeleteRow(c) PROVE StoredSettingsCompile'
    <3>1. call[c].id \in Projects
      BY <2>4 DEF DeleteRow, TypeOK, Calls, Idle
    <3> QED
      BY <2>2, <2>4, <3>1 DEF DeleteRow
  <2>5. ASSUME NEW p \in Projects, Create(p) \/ \E s \in Settings : Import(p, s)
        PROVE  StoredSettingsCompile'
    BY <2>2, <2>5 DEF Create, Import
  <2> QED
    BY <2>1, <2>3, <2>4, <2>5
    DEF Next, CallStep, OpenRead, DeleteCheck, OpenSwap, CloseSwap, Remember,
        Activate, Notified, Crash, RestoreOpens, RestoreForgets, vars
<1> QED
  BY <1>1, <1>2, TypeCorrect, PTL DEF Spec

\* No update and no restart brings a deleted project back.
THEOREM NothingComesBack == Spec => DeletedStaysDeleted
<1>1. TypeOK /\ [Next]_vars
        => [\A p \in Projects : rows[p] = Gone => rows'[p] = Gone]_vars
  <2> SUFFICES ASSUME TypeOK, [Next]_vars, NEW p \in Projects, rows[p] = Gone
               PROVE  rows'[p] = Gone
    BY DEF vars
  <2>1. CASE UNCHANGED rows
    BY <2>1
  <2>2. ASSUME NEW q \in Projects, Create(q) \/ \E s \in Settings : Import(q, s)
        PROVE  rows'[p] = Gone
    BY <2>2 DEF Create, Import, TypeOK
  <2>3. ASSUME NEW c \in Callers, NEW s \in Settings, UpdateRow(c, s)
        PROVE  rows'[p] = Gone
    BY <2>3 DEF UpdateRow, TypeOK, Stored
  <2>4. ASSUME NEW c \in Callers, DeleteRow(c) PROVE rows'[p] = Gone
    BY <2>4 DEF DeleteRow, TypeOK
  <2> QED
    BY <2>1, <2>2, <2>3, <2>4
    DEF Next, CallStep, OpenRead, DeleteCheck, OpenSwap, CloseSwap, Remember,
        Activate, Notified, Crash, RestoreOpens, RestoreForgets, vars
<1> QED
  BY <1>1, TypeCorrect, PTL DEF Spec, DeletedStaysDeleted

-----------------------------------------------------------------------------
(* The announcements.                                                      *)

\* The lock, the points of the calls and the announcement agree.
LEMMA LockInductive == Spec => [](AnnouncedUnderLock /\ NoticeIsTheCallers /\ StoppedIsEmpty)
<1> DEFINE I == AnnouncedUnderLock /\ NoticeIsTheCallers /\ StoppedIsEmpty
<1>1. Init => I
  BY DEF Init, AnnouncedUnderLock, NoticeIsTheCallers, StoppedIsEmpty, Announcing,
         Idle
<1>2. TypeOK /\ I /\ [Next]_vars => I'
  <2> SUFFICES ASSUME TypeOK, I, [Next]_vars PROVE I'
    OBVIOUS
  <2> USE DEF AnnouncedUnderLock, NoticeIsTheCallers, StoppedIsEmpty, Announcing,
              Feed!Quiet, Feed!Announce, Move, Return, Idle
  <2>1. ASSUME NEW c \in Callers, OpenSwap(c) PROVE I'
    BY <2>1 DEF OpenSwap, LockAndSwap, TypeOK
  <2>2. ASSUME NEW c \in Callers, CloseSwap(c) PROVE I'
    BY <2>2 DEF CloseSwap, LockAndSwap, TypeOK
  <2>3. ASSUME NEW c \in Callers, NEW s \in Settings, UpdateRow(c, s) PROVE I'
    BY <2>3 DEF UpdateRow, TypeOK
  <2>4. ASSUME NEW c \in Callers, Activate(c) PROVE I'
    BY <2>4 DEF Activate, TypeOK
  <2>5. ASSUME NEW c \in Callers, Notified(c) PROVE I'
    BY <2>5 DEF Notified, TypeOK
  <2>6. ASSUME NEW c \in Callers, Remember(c) \/ DeleteRow(c) PROVE I'
    BY <2>6 DEF Remember, DeleteRow, TypeOK
  <2>7. ASSUME NEW c \in Callers, NEW p \in Projects, OpenRead(c, p) \/ DeleteCheck(c, p)
        PROVE  I'
    BY <2>7 DEF OpenRead, DeleteCheck, TypeOK
  <2>8. CASE Crash
    BY <2>8 DEF Crash
  <2>9. CASE RestoreOpens \/ RestoreForgets
    BY <2>9 DEF RestoreOpens, RestoreForgets
  <2>10. ASSUME NEW p \in Projects, Create(p) \/ \E s \in Settings : Import(p, s)
         PROVE  I'
    BY <2>10 DEF Create, Import
  <2>11. CASE UNCHANGED vars
    BY <2>11 DEF vars
  <2> QED
    BY <2>1, <2>2, <2>3, <2>4, <2>5, <2>6, <2>7, <2>8, <2>9, <2>10, <2>11
    DEF Next, CallStep
<1> QED
  BY <1>1, <1>2, TypeCorrect, PTL DEF Spec

\* Announcements are made by the call that holds the lock.
THEOREM UnderLock == Spec => []AnnouncedUnderLock
  BY LockInductive, PTL

\* While the lock is free no announcement is under way.
LEMMA NobodyAnnouncesWhenFree ==
    AnnouncedUnderLock /\ NoticeIsTheCallers /\ mu = None => notice = Feed!Quiet
<1> SUFFICES ASSUME AnnouncedUnderLock, NoticeIsTheCallers, mu = None
             PROVE  notice = Feed!Quiet
  OBVIOUS
<1>1. ASSUME NEW c \in Callers PROVE call[c].at \notin Announcing
  BY <1>1 DEF AnnouncedUnderLock, Announcing
<1> QED
  BY <1>1 DEF NoticeIsTheCallers

\* The project service is the feed the rest of the program relies on: every
\* step is a step of ActiveFeed or leaves what the watchers see alone.
THEOREM ImplementsFeed == Spec => WatchersSeeEveryChange
<1>1. Init => Feed!FeedInit
  BY DEF Init, Feed!FeedInit
<1>2. TypeOK /\ AnnouncedUnderLock /\ NoticeIsTheCallers /\ StoppedIsEmpty
        /\ [Next]_vars => [Feed!FeedNext]_(Feed!feedVars)
  <2> SUFFICES ASSUME TypeOK, AnnouncedUnderLock, NoticeIsTheCallers,
                      StoppedIsEmpty, [Next]_vars
               PROVE  [Feed!FeedNext]_(Feed!feedVars)
    OBVIOUS
  <2>1. ASSUME NEW c \in Callers, NEW next \in Feed!Opening, running,
               LockAndSwap(c, next), UNCHANGED running
        PROVE  Feed!Publish(next)
    BY <2>1, NobodyAnnouncesWhenFree DEF LockAndSwap, Feed!Publish
  <2>2. ASSUME NEW c \in Callers, OpenSwap(c) PROVE Feed!FeedNext
    <3>1. [id |-> call[c].id, settings |-> call[c].settings] \in Feed!Opening
      BY <2>2 DEF OpenSwap, TypeOK, Calls, Idle, Feed!Opening, Snapshots
    <3> QED
      BY <2>1, <2>2, <3>1 DEF OpenSwap, Feed!FeedNext
  <2>3. ASSUME NEW c \in Callers, CloseSwap(c) PROVE Feed!FeedNext
    <3>1. None \in Feed!Opening
      BY DEF Feed!Opening
    <3> QED
      BY <2>1, <2>3, <3>1 DEF CloseSwap, Feed!FeedNext
  <2>4. ASSUME NEW c \in Callers, Activate(c) PROVE Feed!FeedNext
    <3>1. mu = c
      BY <2>4 DEF Activate, AnnouncedUnderLock
    <3>2. notice = Feed!Quiet
      <4>1. ASSUME NEW d \in Callers PROVE call[d].at \notin Announcing
        BY <2>4, <3>1, <4>1 DEF Activate, AnnouncedUnderLock, Announcing
      <4> QED
        BY <4>1 DEF NoticeIsTheCallers
    <3>3. active' \in Feed!Opening
      BY <2>4 DEF Activate, TypeOK, Calls, Idle, Feed!Opening, Snapshots
    <3> QED
      BY <2>4, <3>2, <3>3 DEF Activate, Feed!FeedNext, Feed!Publish
  <2>5. ASSUME NEW c \in Callers, Notified(c) PROVE Feed!FeedNext
    <3>1. notice # Feed!Quiet
      BY <2>5 DEF Notified, NoticeIsTheCallers, Announcing, Feed!Quiet
    <3> QED
      BY <2>5, <3>1 DEF Notified, Feed!FeedNext, Feed!Settle
  <2>6. CASE Crash
    BY <2>6 DEF Crash, Feed!FeedNext, Feed!Halt
  <2>7. CASE RestoreOpens \/ RestoreForgets
    <3>1. active' \in Feed!Opening
      BY <2>7 DEF RestoreOpens, RestoreForgets, Remembers, TypeOK, Feed!Opening,
                  Snapshots
    <3>2. notice' = Feed!Quiet /\ active = None
      BY <2>7 DEF RestoreOpens, RestoreForgets, StoppedIsEmpty
    <3>3. Feed!Boot(active')
      BY <2>7, <3>2 DEF RestoreOpens, RestoreForgets, Feed!Boot
    <3> QED
      BY <3>1, <3>3 DEF Feed!FeedNext
  <2> QED
    BY <2>2, <2>3, <2>4, <2>5, <2>6, <2>7
    DEF Next, CallStep, Create, Import, OpenRead, DeleteCheck, Remember,
        DeleteRow, UpdateRow, Feed!feedVars, vars
<1> QED
  BY <1>1, <1>2, TypeCorrect, LockInductive, PTL
  DEF Spec, WatchersSeeEveryChange, Feed!FeedSpec
-----------------------------------------------------------------------------
(***************************************************************************)
(* One call at a time.  What a call has in hand is then what is stored:    *)
(* the row an Open read is still the row, the id a Delete compared is      *)
(* still not the open one, and the id remembered is behind the open one    *)
(* only while the call that changed it is on its way to remember it.       *)
(***************************************************************************)

Alone == \A c, d \in Callers : call[c] # Idle /\ call[d] # Idle => c = d

\* What the call has in hand, by the point at which it stands.
InHand(c) ==
    /\ call[c].at = "swap" => rows[call[c].id] = call[c].settings
    /\ call[c].at = "delete" => call[c].id # ActiveID
    /\ call[c].at = "activate" => call[c].id = ActiveID /\ rows[call[c].id] = call[c].settings
    /\ call[c].at \in {"notify", "remember"} => call[c].id = ActiveID

OpenIsStored ==
    active # None =>
        /\ Stored(active.id)
        /\ (\A c \in Callers : call[c].at # "activate") => active.settings = rows[active.id]

RememberedIsOpen ==
    running /\ (\A c \in Callers : call[c].at \notin {"notify", "remember"})
        => remembered = ActiveID

Tidy == Alone /\ OpenIsStored /\ RememberedIsOpen /\ \A c \in Callers : InHand(c)

\* A call that begins while calls come one at a time finds all others idle, and
\* one that goes on has been alone.
LEMMA OthersIdle ==
    ASSUME TypeOK, apart => Tidy, OneCallNext, apart', NEW c \in Callers,
           call[c] # Idle \/ call'[c] # Idle,
           \A d \in Callers : d # c => call'[d] = call[d]
    PROVE  Tidy /\ \A d \in Callers : d # c => call[d] = Idle /\ call'[d] = Idle
<1>1. Tidy /\ \A d, e \in Callers : call'[d] # Idle /\ call'[e] # Idle => d = e
  BY DEF OneCallNext, UnderWay
<1>2. \A d \in Callers : call[c] # Idle /\ call[d] # Idle => c = d
  BY <1>1 DEF Tidy, Alone
<1> QED
  BY <1>1, <1>2

\* Whoever calls, the project service is what it is.
LEMMA OneCallIsSpec == OneCallSpec => Spec
<1>1. OneCallInit => Init
  BY DEF OneCallInit
<1>2. [OneCallNext]_OneCallVars => [Next]_vars
  BY DEF OneCallNext, OneCallVars
<1> QED
  BY <1>1, <1>2, PTL DEF OneCallSpec, Spec

\* Calls one at a time leave everything in agreement (Open, Close, Delete,
\* UpdateSettings, Restore).
LEMMA OneCallIsTidy == OneCallSpec => [](apart => Tidy)
<1>1. OneCallInit => (apart => Tidy)
  BY DEF OneCallInit, Init, Tidy, Alone, OpenIsStored, RememberedIsOpen, InHand, ActiveID, Idle
<1>2. TypeOK /\ AnnouncedUnderLock /\ StoppedIsEmpty /\ (apart => Tidy)
        /\ [OneCallNext]_OneCallVars => (apart' => Tidy')
  <2> SUFFICES ASSUME TypeOK, AnnouncedUnderLock, StoppedIsEmpty, apart => Tidy,
                      [OneCallNext]_OneCallVars, apart'
               PROVE  Tidy'
    OBVIOUS
  <2>1. CASE UNCHANGED OneCallVars
    BY <2>1 DEF OneCallVars, vars, Tidy, Alone, OpenIsStored, RememberedIsOpen, InHand,
                ActiveID, Stored
  <2>2. CASE OneCallNext
    <3>1. Tidy /\ Next /\ ~RememberFails
      BY <2>2 DEF OneCallNext
    <3>2. ASSUME NEW c \in Callers, CallStep(c)
          PROVE  \A d \in Callers : d # c => call'[d] = call[d]
      BY <3>2 DEF CallStep, OpenRead, DeleteCheck, OpenSwap, CloseSwap, Remember, DeleteRow,
                  UpdateRow, Activate, Notified, Move, Return, LockAndSwap, TypeOK
    <3>3. ASSUME NEW c \in Callers, CallStep(c)
          PROVE  call[c] # Idle \/ call'[c] # Idle
      BY <3>3 DEF CallStep, OpenRead, DeleteCheck, OpenSwap, CloseSwap, Remember, DeleteRow,
                  UpdateRow, Activate, Notified, Move, Return, LockAndSwap, TypeOK, Idle
    <3>4. ASSUME NEW c \in Callers, CallStep(c)
          PROVE  /\ \A d \in Callers : d # c => call[d] = Idle /\ call'[d] = Idle
                 /\ Alone'
      <4>1. \A d \in Callers : d # c => call[d] = Idle /\ call'[d] = Idle
        BY <2>2, <3>2, <3>3, <3>4, OthersIdle
      <4> QED
        BY <4>1 DEF Alone
    <3> USE DEF Tidy, OpenIsStored, RememberedIsOpen, InHand, ActiveID, Stored, TypeOK, Calls,
                Idle, Snapshots
    <3>5. ASSUME NEW p \in Projects, Create(p) \/ \E s \in Settings : Import(p, s) PROVE Tidy'
      <4>1. \A q \in Projects : rows[q] # Unborn => rows'[q] = rows[q]
        BY <3>5 DEF Create, Import
      <4> QED
        BY <3>1, <3>5, <4>1 DEF Create, Import, Alone
    <3>6. ASSUME NEW c \in Callers, NEW p \in Projects, OpenRead(c, p) PROVE Tidy'
      <4>1. Alone' /\ \A d \in Callers : d # c => call[d] = Idle /\ call'[d] = Idle
        BY <3>4, <3>6 DEF CallStep
      <4>2. /\ call[c] = Idle /\ call'[c] = [at |-> "swap", id |-> p, settings |-> rows[p]]
            /\ UNCHANGED <<rows, remembered, running, active>>
        BY <3>6 DEF OpenRead, Move
      <4> QED
        BY <3>1, <4>1, <4>2
    <3>7. ASSUME NEW c \in Callers, NEW p \in Projects, DeleteCheck(c, p) PROVE Tidy'
      <4>1. Alone' /\ \A d \in Callers : d # c => call[d] = Idle /\ call'[d] = Idle
        BY <3>4, <3>7 DEF CallStep
      <4>2. /\ call[c] = Idle /\ call'[c] = [at |-> "delete", id |-> p, settings |-> None]
            /\ UNCHANGED <<rows, remembered, running, active>> /\ p # ActiveID
        BY <3>7 DEF DeleteCheck, Move
      <4> QED
        BY <3>1, <4>1, <4>2
    <3>8. ASSUME NEW c \in Callers, OpenSwap(c) PROVE Tidy'
      <4>1. Alone' /\ \A d \in Callers : d # c => call[d] = Idle /\ call'[d] = Idle
        BY <3>4, <3>8 DEF CallStep
      <4>2. /\ call[c].at = "swap" /\ UNCHANGED <<rows, remembered, running>>
            /\ active' = [id |-> call[c].id, settings |-> call[c].settings]
            /\ call'[c] = [at |-> "notify", id |-> call[c].id, settings |-> None]
        BY <3>8 DEF OpenSwap, LockAndSwap, Move
      <4>3. /\ call[c].id \in Projects /\ call[c].settings \in Compiling
            /\ rows[call[c].id] = call[c].settings
        BY <3>1, <4>2
      <4> QED
        BY <3>1, <4>1, <4>2, <4>3
    <3>9. ASSUME NEW c \in Callers, CloseSwap(c) PROVE Tidy'
      <4>1. Alone' /\ \A d \in Callers : d # c => call[d] = Idle /\ call'[d] = Idle
        BY <3>4, <3>9 DEF CallStep
      <4>2. /\ call[c] = Idle /\ active' = None /\ UNCHANGED <<rows, remembered, running>>
            /\ call'[c] = [at |-> IF active = None THEN "notifyOnly" ELSE "notify",
                           id |-> None, settings |-> None]
        BY <3>9 DEF CloseSwap, LockAndSwap, Move
      <4> QED
        BY <3>1, <4>1, <4>2
    <3>10. ASSUME NEW c \in Callers, Remember(c) PROVE Tidy'
      <4>1. Alone' /\ \A d \in Callers : d # c => call[d] = Idle /\ call'[d] = Idle
        BY <3>4, <3>10 DEF CallStep
      <4>2. /\ running /\ call[c].at = "remember" /\ call'[c] = Idle
            /\ UNCHANGED <<rows, running, active>>
        BY <3>10 DEF Remember, Return
      <4>3. remembered' = call[c].id
        BY <3>1, <4>2 DEF RememberFails
      <4> QED
        BY <3>1, <4>1, <4>2, <4>3
    <3>11. ASSUME NEW c \in Callers, DeleteRow(c) PROVE Tidy'
      <4>1. Alone' /\ \A d \in Callers : d # c => call[d] = Idle /\ call'[d] = Idle
        BY <3>4, <3>11 DEF CallStep
      <4>2. /\ call[c].at = "delete" /\ call'[c] = Idle
            /\ UNCHANGED <<remembered, running, active>>
            /\ \A q \in Projects : q # call[c].id => rows'[q] = rows[q]
        BY <3>11 DEF DeleteRow, Return
      <4>3. call[c].id # ActiveID
        BY <3>1, <4>2
      <4> QED
        BY <3>1, <4>1, <4>2, <4>3
    <3>12. ASSUME NEW c \in Callers, NEW s \in Settings, UpdateRow(c, s) PROVE Tidy'
      <4>1. Alone' /\ \A d \in Callers : d # c => call[d] = Idle /\ call'[d] = Idle
        BY <3>4, <3>12 DEF CallStep
      <4>2. /\ call[c] = Idle /\ UNCHANGED <<remembered, running, active>> /\ active # None
            /\ call'[c] = [at |-> "activate", id |-> active.id, settings |-> s]
            /\ rows' = [rows EXCEPT ![active.id] = s]
        BY <3>12 DEF UpdateRow, Move
      <4> QED
        BY <3>1, <4>1, <4>2
    <3>13. ASSUME NEW c \in Callers, Activate(c) PROVE Tidy'
      <4>1. Alone' /\ \A d \in Callers : d # c => call[d] = Idle /\ call'[d] = Idle
        BY <3>4, <3>13 DEF CallStep
      <4>2. /\ call[c].at = "activate" /\ UNCHANGED <<rows, remembered, running>>
            /\ active' = [id |-> call[c].id, settings |-> call[c].settings]
            /\ call'[c] = [at |-> "notifyOnly", id |-> call[c].id, settings |-> None]
        BY <3>13 DEF Activate, Move
      <4>3. /\ call[c].id \in Projects /\ call[c].settings \in Compiling
            /\ rows[call[c].id] = call[c].settings /\ call[c].id = ActiveID
        BY <3>1, <4>2
      <4> QED
        BY <3>1, <4>1, <4>2, <4>3
    <3>14. ASSUME NEW c \in Callers, Notified(c) PROVE Tidy'
      <4>1. Alone' /\ \A d \in Callers : d # c => call[d] = Idle /\ call'[d] = Idle
        BY <3>4, <3>14 DEF CallStep
      <4>2. /\ call[c].at \in {"notify", "notifyOnly"}
            /\ UNCHANGED <<rows, remembered, running, active>>
            /\ call'[c] = IF call[c].at = "notify"
                            THEN [at |-> "remember", id |-> call[c].id, settings |-> None]
                            ELSE Idle
        BY <3>14 DEF Notified, Move, Return
      <4> QED
        BY <3>1, <4>1, <4>2
    <3>15. CASE Crash
      BY <3>15 DEF Crash, Alone
    <3>16. CASE RestoreOpens
      <4>1. /\ ~running /\ running' /\ rows[remembered] \in Compiling /\ remembered \in Projects
            /\ active' = [id |-> remembered, settings |-> rows[remembered]]
            /\ UNCHANGED <<rows, remembered, call>>
        BY <3>16 DEF RestoreOpens, Remembers
      <4>2. \A c \in Callers : call[c] = Idle
        BY <4>1 DEF StoppedIsEmpty
      <4> QED
        BY <4>1, <4>2 DEF Alone
    <3>17. CASE RestoreForgets
      <4>1. /\ ~running /\ running' /\ ~Remembers /\ UNCHANGED <<rows, active, call>>
            /\ remembered' \in {None, remembered}
        BY <3>17 DEF RestoreForgets
      <4>2. active = None /\ \A c \in Callers : call[c] = Idle
        BY <4>1 DEF StoppedIsEmpty
      <4>3. remembered' = None
        BY <3>1, <4>1 DEF RememberFails
      <4> QED
        BY <4>1, <4>2, <4>3 DEF Alone
    <3> HIDE DEF Tidy
    <3> QED
      BY <3>1, <3>5, <3>6, <3>7, <3>8, <3>9, <3>10, <3>11, <3>12, <3>13, <3>14, <3>15, <3>16,
         <3>17 DEF Next, CallStep
  <2> QED
    BY <2>1, <2>2
<1> QED
  BY <1>1, <1>2, OneCallIsSpec, TypeCorrect, LockInductive, PTL DEF OneCallSpec

\* Calls one at a time leave the open project one of the list, with the settings
\* that are stored, and the one a restart reopens, wherever the process stops.
THEOREM OneCallAtRest == OneCallSpec => []AtRestAsStored
<1>1. TypeOK /\ (apart => Tidy) => AtRestAsStored
  BY DEF AtRestAsStored, Tidy, OpenIsStored, RememberedIsOpen, OpenProjectExists,
         RestartReopensTheSame, OpenSettingsAreStored, Quiescent, Idle
<1>2. OneCallSpec => Spec
  BY OneCallIsSpec
<1> QED
  BY <1>1, <1>2, TypeCorrect, OneCallIsTidy, PTL

\* Calls one at a time rewrite settings only from what was stored.
THEOREM UpdatesSurvive == OneCallSpec => NoUpdateIsLost
<1>1. TypeOK /\ AnnouncedUnderLock /\ (apart => Tidy) /\ [OneCallNext]_OneCallVars
        => [apart => RewrittenFromStored]_OneCallVars
  <2> SUFFICES ASSUME TypeOK, AnnouncedUnderLock, Tidy, Next,
                      NEW p \in Projects, Stored(p), rows'[p] \in Settings, rows'[p] # rows[p]
               PROVE  active # None /\ active.id = p /\ active.settings = rows[p]
    BY DEF OneCallNext, RewrittenFromStored
  <2>1. ASSUME NEW q \in Projects, Create(q) \/ \E s \in Settings : Import(q, s) PROVE FALSE
    BY <2>1 DEF Create, Import, TypeOK, Stored
  <2>2. ASSUME NEW c \in Callers, DeleteRow(c) PROVE FALSE
    BY <2>2 DEF DeleteRow, TypeOK
  <2>3. PICK c \in Callers, s \in Settings : UpdateRow(c, s)
    BY <2>1, <2>2
    DEF Next, CallStep, OpenRead, DeleteCheck, OpenSwap, CloseSwap, Remember, Activate,
        Notified, Crash, RestoreOpens, RestoreForgets
  <2>4. active # None /\ active.id = p
    BY <2>3 DEF UpdateRow, TypeOK
  <2>5. \A d \in Callers : call[d].at # "activate"
    BY <2>3 DEF UpdateRow, AnnouncedUnderLock
  <2> QED
    BY <2>4, <2>5 DEF Tidy, OpenIsStored
<1>2. OneCallSpec => Spec
  BY OneCallIsSpec
<1> QED
  BY <1>1, <1>2, TypeCorrect, LockInductive, OneCallIsTidy, PTL DEF OneCallSpec, NoUpdateIsLost
=============================================================================
