------------------------------- MODULE Project -------------------------------
(***************************************************************************)
(* internal/domain/project: the list of projects in the database, the one  *)
(* that is open, and the calls the console makes on them.  A call is a     *)
(* goroutine of the console server; it is split where it touches the       *)
(* database, the lock or the active pointer, so two calls interleave here  *)
(* as they do in the program.                                              *)
(***************************************************************************)

CONSTANTS
    Projects,    \* project ids; ids.New never repeats one
    Settings,    \* settings a caller may ask for
    Compiling,   \* those that Compile accepts
    Fresh,       \* the settings of a project nobody has changed
    Callers,     \* console requests that may be in flight together
    DiskFaults,  \* TRUE: remembering the open project may fail
    None,        \* no project, a nil *Active, or nobody
    Unborn,      \* no project has that id yet
    Gone         \* the project of that id was deleted

ASSUME SettingsAssumption ==
    /\ Compiling \subseteq Settings
    /\ Fresh \in Compiling
    /\ DiskFaults \in BOOLEAN

ASSUME DistinctAssumption ==
    /\ None \notin Projects \cup Settings \cup Callers
    /\ None \notin [id : Projects, settings : Compiling]
    /\ Unborn \notin Settings
    /\ Gone \notin Settings
    /\ Unborn # Gone

VARIABLES
    rows,        \* bucket "projects": settings of each project
    remembered,  \* bucket "meta", key "active_project"
    running,     \* the process is up
    active,      \* Service.active
    notice,      \* the announcement notify is making, see ActiveFeed
    mu,          \* who holds Service.mu
    call         \* where each console call stands

vars == <<rows, remembered, running, active, notice, mu, call>>

Snapshots == [id : Projects, settings : Compiling]

Feed == INSTANCE ActiveFeed

Idle == [at |-> "idle", id |-> None, settings |-> None]

\* What a call has in hand between two of its steps.
Calls ==
    {Idle}
    \cup [at : {"swap", "activate"}, id : Projects, settings : Compiling]
    \cup [at : {"delete"}, id : Projects, settings : {None}]
    \cup [at : {"notify", "notifyOnly", "remember"},
          id : Projects \cup {None}, settings : {None}]

ActiveID == IF active = None THEN None ELSE active.id

Stored(p) == rows[p] \in Settings

\* Call c goes on to point at, with the project and settings it has in hand.
Move(c, at, id, settings) ==
    call' = [call EXCEPT ![c] = [at |-> at, id |-> id, settings |-> settings]]

Return(c) == call' = [call EXCEPT ![c] = Idle]

Init ==
    /\ rows = [p \in Projects |-> Unborn]
    /\ remembered = None
    /\ running = TRUE
    /\ active = None
    /\ notice = Feed!Quiet
    /\ mu = None
    /\ call = [c \in Callers |-> Idle]

-----------------------------------------------------------------------------
(* Create and Import insert a row in one transaction; neither opens it.    *)

Create(p) ==
    /\ running
    /\ rows[p] = Unborn
    /\ rows' = [rows EXCEPT ![p] = Fresh]
    /\ UNCHANGED <<remembered, running, active, notice, mu, call>>

Import(p, s) ==
    /\ running
    /\ rows[p] = Unborn
    /\ s \in Compiling
    /\ rows' = [rows EXCEPT ![p] = s]
    /\ UNCHANGED <<remembered, running, active, notice, mu, call>>

-----------------------------------------------------------------------------
(* The lock: take it and replace the pointer, give it up when the watchers *)
(* have been told.                                                         *)

LockAndSwap(c, next) ==
    /\ mu = None
    /\ mu' = c
    /\ active' = next
    /\ notice' = Feed!Announce(active, next)

\* Broken: the path that remembers nothing returns with the lock held.
NotifiedKeepsLock(c) ==
    /\ running
    /\ call[c].at \in {"notify", "notifyOnly"}
    /\ mu' = IF call[c].at = "notify" THEN None ELSE mu
    /\ notice' = Feed!Quiet
    /\ IF call[c].at = "notify" THEN Move(c, "remember", call[c].id, None)
                                ELSE Return(c)
    /\ UNCHANGED <<rows, remembered, running, active>>

Notified(c) ==
    /\ running
    /\ call[c].at \in {"notify", "notifyOnly"}
    /\ mu' = None
    /\ notice' = Feed!Quiet
    /\ IF call[c].at = "notify" THEN Move(c, "remember", call[c].id, None)
                                ELSE Return(c)
    /\ UNCHANGED <<rows, remembered, running, active>>

-----------------------------------------------------------------------------
(* Open: read the row, compile it, swap the pointer, remember the id.  The *)
(* row is read before the lock is taken and the id is remembered after it  *)
(* is given up.  Close swaps in nothing and then forgets; when nothing was *)
(* open there is nothing to forget.                                        *)

OpenRead(c, p) ==
    /\ running
    /\ call[c] = Idle
    /\ rows[p] \in Compiling
    /\ Move(c, "swap", p, rows[p])
    /\ UNCHANGED <<rows, remembered, running, active, notice, mu>>

OpenSwap(c) ==
    /\ running
    /\ call[c].at = "swap"
    /\ LockAndSwap(c, [id |-> call[c].id, settings |-> call[c].settings])
    /\ Move(c, "notify", call[c].id, None)
    /\ UNCHANGED <<rows, remembered, running>>

\* Broken: closing does not forget the project.
CloseRemembers(c) ==
    /\ running
    /\ call[c] = Idle
    /\ LockAndSwap(c, None)
    /\ Move(c, "notifyOnly", None, None)
    /\ UNCHANGED <<rows, remembered, running>>

CloseSwap(c) ==
    /\ running
    /\ call[c] = Idle
    /\ LockAndSwap(c, None)
    /\ Move(c, IF active = None THEN "notifyOnly" ELSE "notify", None, None)
    /\ UNCHANGED <<rows, remembered, running>>

\* SetActiveID: a failure is logged and otherwise ignored.
Remember(c) ==
    /\ running
    /\ call[c].at = "remember"
    /\ \/ remembered' = call[c].id
       \/ DiskFaults /\ UNCHANGED remembered
    /\ Return(c)
    /\ UNCHANGED <<rows, running, active, notice, mu>>

-----------------------------------------------------------------------------
(* Delete compares the id with the open one and then deletes, without the  *)
(* lock.                                                                   *)

\* Broken: the open project is not refused.
DeleteUnchecked(c, p) ==
    /\ running
    /\ call[c] = Idle
    /\ rows[p] # Unborn
    /\ Move(c, "delete", p, None)
    /\ UNCHANGED <<rows, remembered, running, active, notice, mu>>

DeleteCheck(c, p) ==
    /\ running
    /\ call[c] = Idle
    /\ rows[p] # Unborn
    /\ p # ActiveID
    /\ Move(c, "delete", p, None)
    /\ UNCHANGED <<rows, remembered, running, active, notice, mu>>

DeleteRow(c) ==
    /\ running
    /\ call[c].at = "delete"
    /\ rows' = [rows EXCEPT ![call[c].id] = Gone]
    /\ Return(c)
    /\ UNCHANGED <<remembered, running, active, notice, mu>>

-----------------------------------------------------------------------------
(* UpdateSettings holds the lock from the first line to the last: change,  *)
(* compile, rewrite the row, swap, notify.  A change that does not compile *)
(* and a project whose row is gone return an error and change nothing.     *)

\* Broken: the row is put back when the project was deleted meanwhile.
UpdateRowBlindly(c, s) ==
    /\ running
    /\ call[c] = Idle
    /\ mu = None
    /\ active # None
    /\ s \in Compiling
    /\ rows' = [rows EXCEPT ![active.id] = s]
    /\ mu' = c
    /\ Move(c, "activate", active.id, s)
    /\ UNCHANGED <<remembered, running, active, notice>>

UpdateRow(c, s) ==
    /\ running
    /\ call[c] = Idle
    /\ mu = None
    /\ active # None
    /\ s \in Compiling
    /\ Stored(active.id)
    /\ rows' = [rows EXCEPT ![active.id] = s]
    /\ mu' = c
    /\ Move(c, "activate", active.id, s)
    /\ UNCHANGED <<remembered, running, active, notice>>

\* Broken: stored and announced, but the old snapshot stays in force.
ActivateOld(c) ==
    /\ running
    /\ call[c].at = "activate"
    /\ notice' = Feed!Announce(active, active)
    /\ Move(c, "notifyOnly", call[c].id, None)
    /\ UNCHANGED <<rows, remembered, running, active, mu>>

\* Broken: the watchers are not told.
ActivateSilently(c) ==
    /\ running
    /\ call[c].at = "activate"
    /\ active' = [id |-> call[c].id, settings |-> call[c].settings]
    /\ Move(c, "notifyOnly", call[c].id, None)
    /\ UNCHANGED <<rows, remembered, running, notice, mu>>

Activate(c) ==
    /\ running
    /\ call[c].at = "activate"
    /\ active' = [id |-> call[c].id, settings |-> call[c].settings]
    /\ notice' = Feed!Announce(active, active')
    /\ Move(c, "notifyOnly", call[c].id, None)
    /\ UNCHANGED <<rows, remembered, running, mu>>

-----------------------------------------------------------------------------
(* The process ends at any point and what is in memory is lost.  Restore   *)
(* runs at the next start, before either server listens.                   *)

Crash ==
    /\ running
    /\ running' = FALSE
    /\ active' = None
    /\ notice' = Feed!Quiet
    /\ mu' = None
    /\ call' = [c \in Callers |-> Idle]
    /\ UNCHANGED <<rows, remembered>>

Remembers == remembered # None /\ Stored(remembered)

RestoreOpens ==
    /\ ~running
    /\ Remembers
    /\ rows[remembered] \in Compiling
    /\ active' = [id |-> remembered, settings |-> rows[remembered]]
    /\ running' = TRUE
    /\ UNCHANGED <<rows, remembered, notice, mu, call>>

\* Nothing is remembered, or the remembered project has been deleted since,
\* and then it is forgotten.
RestoreForgets ==
    /\ ~running
    /\ ~Remembers
    /\ \/ remembered' = None
       \/ DiskFaults /\ UNCHANGED remembered
    /\ running' = TRUE
    /\ UNCHANGED <<rows, active, notice, mu, call>>

-----------------------------------------------------------------------------

CallStep(c) ==
    \/ \E p \in Projects : OpenRead(c, p) \/ DeleteCheck(c, p)
    \/ OpenSwap(c)
    \/ CloseSwap(c)
    \/ Remember(c)
    \/ DeleteRow(c)
    \/ \E s \in Settings : UpdateRow(c, s)
    \/ Activate(c)
    \/ Notified(c)

Next ==
    \/ \E p \in Projects : Create(p) \/ \E s \in Settings : Import(p, s)
    \/ \E c \in Callers : CallStep(c)
    \/ Crash
    \/ RestoreOpens
    \/ RestoreForgets

(***************************************************************************)
(* A call that has begun goes on: its goroutine is scheduled, and a Go     *)
(* mutex hands itself to whoever has waited longest, hence SF for the step *)
(* that takes the lock.  That a watcher returns is shown in Intercept.     *)
(***************************************************************************)
Fairness ==
    \A c \in Callers :
        /\ SF_vars(OpenSwap(c))
        /\ WF_vars(Remember(c) \/ DeleteRow(c) \/ Activate(c) \/ Notified(c))

Spec == Init /\ [][Next]_vars

FairSpec == Spec /\ Fairness

-----------------------------------------------------------------------------

TypeOK ==
    /\ rows \in [Projects -> Settings \cup {Unborn, Gone}]
    /\ remembered \in Projects \cup {None}
    /\ running \in BOOLEAN
    /\ active \in Snapshots \cup {None}
    /\ notice \in Feed!Notices
    /\ mu \in Callers \cup {None}
    /\ call \in [Callers -> Calls]

Quiescent == running /\ \A c \in Callers : call[c] = Idle

\* What Compile refused never reaches the database, so a project in the list
\* can be opened, after a restart as well (Import, UpdateSettings, Restore).
StoredSettingsCompile ==
    \A p \in Projects : Stored(p) => rows[p] \in Compiling

\* An announcement is made by the call that holds the lock and by no other,
\* so the watchers never run twice at once (swap, UpdateSettings).
AnnouncedUnderLock ==
    \A c \in Callers :
        mu = c <=> call[c].at \in {"activate", "notify", "notifyOnly"}

\* The pointer and the announcements are what the watchers are promised:
\* one at a time, in order, none left out (Watcher, swap, notify).
WatchersSeeEveryChange == Feed!FeedSpec

\* A deleted project stays deleted: no settings update that was in flight,
\* and no restart, brings its row back (store.UpdateSettings).
DeletedStaysDeleted ==
    [][\A p \in Projects : rows[p] = Gone => rows'[p] = Gone]_vars

\* The open project is one the list still has (the comment on Delete).
OpenProjectExists == active # None => Stored(active.id)

\* At rest, the id a restart would reopen is the id of the open project
\* (the comment in Open, docs/projects.md "a restart puts you back where
\* you were").
RestartReopensTheSame == Quiescent => remembered = ActiveID

\* At rest, the settings in force are the settings that are stored.
OpenSettingsAreStored ==
    Quiescent /\ active # None /\ Stored(active.id)
        => active.settings = rows[active.id]

\* Settings are rewritten only from what was stored.
RewrittenFromStored ==
    \A p \in Projects :
        Stored(p) /\ rows'[p] \in Settings /\ rows'[p] # rows[p]
            => active # None /\ active.id = p /\ active.settings = rows[p]

\* Every call returns: the lock and the watchers are no place to hang
\* (Open, Close, Delete, UpdateSettings).
CallsReturn ==
    \A c \in Callers : call[c] # Idle ~> call[c] = Idle
=============================================================================
