----------------------------- MODULE AtomicFile -----------------------------
(***************************************************************************)
(* What replacing the program promises (the comment of newUpdateCmd in     *)
(* internal/cli/update.go): there is always a whole binary, and it is only *)
(* ever exchanged for a later release.                                     *)
(***************************************************************************)
CONSTANTS Versions, Later(_, _)

VARIABLE content

FileInit == content \in Versions

Exchange(v) == Later(v, content) /\ content' = v

FileSpec == FileInit /\ [][\E v \in Versions : Exchange(v)]_content
=============================================================================
