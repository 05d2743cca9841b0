------------------------------- MODULE OneCall -------------------------------
(***************************************************************************)
(* Project, and whether its calls have come one at a time and remembering  *)
(* has not failed: what a call reads before it takes the lock may be stale *)
(* when two run together, and then some promises are not kept.             *)
(***************************************************************************)
EXTENDS Project

VARIABLE apart  \* history: no two calls were under way together, no write failed

OneCallVars == <<vars, apart>>

UnderWay == {c \in Callers : call[c] # Idle}

\* The write of the id to reopen failed, after a call or at the start.
RememberFails ==
    \/ \E c \in Callers : /\ running' /\ call[c].at = "remember" /\ call'[c] = Idle
                         /\ remembered' # call[c].id
    \/ ~running /\ running' /\ ~Remembers /\ remembered' # None

OneCallInit == Init /\ apart = TRUE

OneCallNext ==
    /\ Next
    /\ apart' = (apart /\ (\A c, d \in UnderWay' : c = d) /\ ~RememberFails)

OneCallSpec == OneCallInit /\ [][OneCallNext]_OneCallVars

FairOneCallSpec == OneCallSpec /\ Fairness

\* With one call at a time the open project is one the list has, with the
\* settings that are stored, and the one a restart reopens, wherever the process
\* stopped in between (Open, Close, Delete, UpdateSettings, Restore).
AtRestAsStored ==
    apart => OpenProjectExists /\ RestartReopensTheSame /\ OpenSettingsAreStored

\* With one call at a time an update of the settings never replaces a change it
\* has not seen (UpdateSettings copies prev.Project).
NoUpdateIsLost == [][apart => RewrittenFromStored]_OneCallVars
=============================================================================
