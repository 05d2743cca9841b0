----------------------------- MODULE ActiveFeed -----------------------------
(***************************************************************************)
(* What internal/domain/project promises the rest of the program about the *)
(* open project: there is one snapshot at a time, it is replaced whole,    *)
(* and every replacement is announced to the watchers with the snapshot    *)
(* before and the snapshot after, one announcement at a time.  Nothing is  *)
(* skipped: the snapshot "before" of an announcement is the snapshot       *)
(* "after" of the previous one.                                            *)
(***************************************************************************)

CONSTANTS
    Snapshots,   \* the compiled projects a service can hold (project.Active)
    None         \* no project is open (a nil *Active)

ASSUME NoneAssumption == None \notin Snapshots

VARIABLES
    running,     \* the process is up
    active,      \* Service.active, the atomic pointer
    notice       \* the announcement watchers are being called with

feedVars == <<running, active, notice>>

Opening == Snapshots \cup {None}

Quiet == [busy |-> FALSE, prev |-> None, next |-> None]

Announce(prev, next) == [busy |-> TRUE, prev |-> prev, next |-> next]

Notices == [busy : BOOLEAN, prev : Opening, next : Opening]

FeedTypeOK ==
    /\ running \in BOOLEAN
    /\ active \in Opening
    /\ notice \in Notices

FeedInit ==
    /\ running = TRUE
    /\ active = None
    /\ notice = Quiet

\* The pointer is stored and the watchers are called, under the lock.
Publish(next) ==
    /\ running
    /\ notice = Quiet
    /\ active' = next
    /\ notice' = Announce(active, next)
    /\ UNCHANGED running

\* The last watcher has returned and the lock is given up.
Settle ==
    /\ running
    /\ notice # Quiet
    /\ notice' = Quiet
    /\ UNCHANGED <<running, active>>

\* The process ends, by a crash or by its user.
Halt ==
    /\ running
    /\ running' = FALSE
    /\ active' = None
    /\ notice' = Quiet

\* The process starts and reopens the remembered project, if it can, before
\* anything listens.
Boot(next) ==
    /\ ~running
    /\ running' = TRUE
    /\ active' = next
    /\ notice' = Quiet

FeedNext ==
    \/ \E next \in Opening : Publish(next)
    \/ Settle
    \/ Halt
    \/ \E next \in Opening : Boot(next)

FeedSpec == FeedInit /\ [][FeedNext]_feedVars
=============================================================================
