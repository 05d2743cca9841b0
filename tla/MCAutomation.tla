---------------------------- MODULE MCAutomation ----------------------------
(***************************************************************************)
(* Automation on small instances: every job belongs to the one project.    *)
(***************************************************************************)
EXTENDS Automation, TLC

CONSTANT p

Home1 == [j \in Jobs |-> p]

Interchangeable == Permutations(Callers) \cup Permutations(Workers)
                   \cup Permutations(Jobs) \cup Permutations(Templates)
                   \cup Permutations(Runs)
=============================================================================
