---------------------------- MODULE MCLogService ----------------------------
(***************************************************************************)
(* An instance of LogService for TLC.                                      *)
(***************************************************************************)
EXTENDS LogService, TLC

MCCap == [p \in Projects |-> 1]

Interchangeable == Permutations(Projects)
=============================================================================
