----------------------------- MODULE MCIntercept -----------------------------
(***************************************************************************)
(* Intercept on small instances: projects a and b, with holding on or off. *)
(***************************************************************************)
EXTENDS Intercept, TLC

CONSTANTS a, b

BothOn == [id |-> a, on |-> Sides]

BothOff == [id |-> a, on |-> {}]

OtherOn == [id |-> b, on |-> Sides]

\* Enough for every kind of change: switched on or off, opened, closed,
\* another one opened.
Changes == {BothOn, BothOff, OtherOn}

Interchangeable == Permutations(Users) \cup Permutations(Exchanges)
=============================================================================
