------------------------------ MODULE SelfUpdate ------------------------------
(***************************************************************************)
(* `ihttp update` (internal/cli/update.go, pkg/update): the latest release *)
(* is looked up, downloaded, checked against the release's checksums,      *)
(* unpacked, written beside the binary and swapped in by two renames.  Any *)
(* call may fail, and the machine may stop between any two.                *)
(***************************************************************************)
EXTENDS Integers

CONSTANTS
    MaxVersion,
    Damaged,     \* a file that is not the release's: cut short, or changed
    None

UpdateAssumption ==
    /\ MaxVersion \in Nat
    /\ None \notin 0 .. MaxVersion /\ Damaged \notin 0 .. MaxVersion /\ Damaged # None

\* Releases are numbered in the order of CompareVersions; 0 is a build whose
\* version says nothing (IsDevBuild).
Releases == 1 .. MaxVersion

Binaries == 0 .. MaxVersion

VARIABLES
    exe, new, old,  \* the files exePath, exePath.new and exePath.old
    at,             \* DownloadAndReplace
    current,        \* the version of the program that updates
    latest,         \* the release it was told of
    archive         \* what it has downloaded

updateVars == <<exe, new, old, at, current, latest, archive>>

UpdateInit ==
    /\ exe \in Binaries
    /\ new = None /\ old = None
    /\ at = "idle"
    /\ current = 0 /\ latest = 0 /\ archive = None

-----------------------------------------------------------------------------
\* A program can be started that is there.
StartUpdate ==
    /\ at = "idle" /\ exe # None
    /\ current' = exe
    /\ at' = "fetch"
    /\ UNCHANGED <<exe, new, old, latest, archive>>

\* Nothing is to be done when the latest release is not later; a build without
\* a version takes any.
FetchRelease ==
    /\ at = "fetch"
    /\ \E v \in Releases :
          /\ latest' = v
          /\ at' = IF current = 0 \/ v > current THEN "download" ELSE "idle"
    /\ UNCHANGED <<exe, new, old, current, archive>>

Download ==
    /\ at = "download"
    /\ archive' \in {latest, Damaged}
    /\ at' = "verify"
    /\ UNCHANGED <<exe, new, old, current, latest>>

\* Broken: a release without a checksum for the archive is let through.
VerifyChecksumIfAny ==
    /\ at = "verify"
    /\ at' = "write"
    /\ UNCHANGED <<exe, new, old, current, latest, archive>>

VerifyChecksum ==
    /\ at = "verify" /\ archive = latest
    /\ at' = "write"
    /\ UNCHANGED <<exe, new, old, current, latest, archive>>

\* The release cannot be fetched, has no asset for this machine, does not arrive,
\* does not match its checksum, has no binary in it.
GiveUp ==
    /\ at \in {"fetch", "download", "verify", "write"}
    /\ at' = "idle"
    /\ UNCHANGED <<exe, new, old, current, latest, archive>>

-----------------------------------------------------------------------------
(* atomicReplace.                                                          *)

BeginWrite ==
    /\ at = "write" /\ exe # None
    /\ new' = Damaged
    /\ at' = "writing"
    /\ UNCHANGED <<exe, old, current, latest, archive>>

EndWrite ==
    /\ at = "writing"
    /\ new' = archive
    /\ at' = "moveOld"
    /\ UNCHANGED <<exe, old, current, latest, archive>>

\* A write that fails leaves what it has written.
WriteFails ==
    /\ at = "writing"
    /\ at' = "idle"
    /\ UNCHANGED <<exe, new, old, current, latest, archive>>

\* Broken: the binary is removed to make room for the new one.
MoveOldRemoves ==
    /\ at = "moveOld"
    /\ exe' = None
    /\ at' = "moveNew"
    /\ UNCHANGED <<new, old, current, latest, archive>>

MoveOld ==
    /\ at = "moveOld"
    /\ old' = exe /\ exe' = None
    /\ at' = "moveNew"
    /\ UNCHANGED <<new, current, latest, archive>>

\* The mode cannot be set, or the binary not be moved.
MoveOldFails ==
    /\ at = "moveOld"
    /\ new' = None
    /\ at' = "idle"
    /\ UNCHANGED <<exe, old, current, latest, archive>>

MoveNew ==
    /\ at = "moveNew"
    /\ exe' = new /\ new' = None
    /\ at' = "removeOld"
    /\ UNCHANGED <<old, current, latest, archive>>

\* The old binary is put back, if that can be done.
MoveNewFails ==
    /\ at = "moveNew"
    /\ \/ exe' = old /\ old' = None
       \/ UNCHANGED <<exe, old>>
    /\ at' = "idle"
    /\ UNCHANGED <<new, current, latest, archive>>

\* Best effort.
RemoveOld ==
    /\ at = "removeOld"
    /\ old' \in {None, old}
    /\ at' = "idle"
    /\ UNCHANGED <<exe, new, current, latest, archive>>

-----------------------------------------------------------------------------
Crash ==
    /\ at # "idle"
    /\ at' = "idle"
    /\ UNCHANGED <<exe, new, old, current, latest, archive>>

\* Where a crash has left the binary under its other name, a person moves it.
MoveBack ==
    /\ at = "idle" /\ exe = None /\ old # None
    /\ exe' = old /\ old' = None
    /\ UNCHANGED <<new, at, current, latest, archive>>

UpdateNext ==
    \/ StartUpdate \/ FetchRelease \/ Download \/ VerifyChecksum \/ GiveUp
    \/ BeginWrite \/ EndWrite \/ WriteFails \/ MoveOld \/ MoveOldFails
    \/ MoveNew \/ MoveNewFails \/ RemoveOld \/ Crash \/ MoveBack

UpdateSpec == UpdateInit /\ [][UpdateNext]_updateVars

-----------------------------------------------------------------------------
(* Properties.                                                             *)

\* The binary a person can run, or can put back by one rename.
Binary == IF exe # None THEN exe ELSE old

\* DownloadAndReplace installs what is later, and anything on a build without a
\* version.
LaterThan(v, w) == v > w

Replaced == INSTANCE AtomicFile WITH
               Versions <- Binaries, Later <- LaterThan, content <- Binary

\* "A failed update leaves the working one in place", and so does one that stops
\* half way: seen through Binary, an update is the exchange of a whole binary for
\* a later one in one step, whichever call fails (DownloadAndReplace,
\* atomicReplace).
UpdateIsAtomic == Replaced!FileSpec
=============================================================================
