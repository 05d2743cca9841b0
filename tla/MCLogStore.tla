----------------------------- MODULE MCLogStore -----------------------------
(***************************************************************************)
(* LogStore on small instances.                                            *)
(***************************************************************************)
EXTENDS LogStore, TLC

Interchangeable == Permutations(Callers) \cup Permutations(Entries)
                   \cup Permutations(Projects)
=============================================================================
