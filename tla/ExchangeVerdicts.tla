-------------------------- MODULE ExchangeVerdicts --------------------------
(***************************************************************************)
(* What internal/domain/intercept promises for one exchange, whoever       *)
(* answers and whenever: its request gets one verdict, its response gets   *)
(* one verdict and only after a request that was let through, and a        *)
(* verdict is never taken back.                                            *)
(***************************************************************************)

CONSTANT Exchanges

VARIABLE verdict

Sides == {"request", "response"}

\* "passed" was never held, "sent" went on as its item or as an edited copy,
\* "emptied" went on with its body already read by somebody else.
Onward == {"passed", "sent", "emptied"}

Refusals == {"dropped", "gaveup", "failed"}

Undecided == "none"

Verdicts == Onward \cup Refusals \cup {Undecided}

NoVerdicts == [s \in Sides |-> [x \in Exchanges |-> Undecided]]

Decided(s, x) == verdict[s][x] # Undecided

LetThrough(x) == verdict["request"][x] \in Onward

Decide(s, x, v) ==
    /\ ~Decided(s, x)
    /\ s = "response" => LetThrough(x)
    /\ verdict' = [verdict EXCEPT ![s][x] = v]

VerdictInit == verdict = NoVerdicts

VerdictNext ==
    \E s \in Sides, x \in Exchanges, v \in Onward \cup Refusals : Decide(s, x, v)

VerdictSpec == VerdictInit /\ [][VerdictNext]_verdict
=============================================================================
