------------------------------ MODULE Exchange ------------------------------
(***************************************************************************)
(* hookedTransport.RoundTrip (internal/proxy/proxy.go) with the three hooks*)
(* cli/serve.go registers: rules, intercept, log, in this order for both   *)
(* halves.  Several exchanges run at once and share the open project and   *)
(* the values that rules have captured (internal/domain/rules).            *)
(***************************************************************************)
EXTENDS Integers, FiniteSets

CONSTANTS
    Exchanges,
    Projects,
    RuleSets,    \* sets of actions the matching rules of a project may have
    MaxSwitches, \* changes of the open project
    None

Actions == {"useValue", "replaceRequest", "delay", "mock", "replaceResponse", "capture"}

ExchangeAssumption == RuleSets \subseteq SUBSET Actions /\ MaxSwitches \in Nat

VARIABLES
    openProject, \* the snapshot the rules are read from
    clearing,    \* a change was swapped in and ClearVariables not yet called
    switches,
    captured,    \* rules.vars: the project whose traffic the value is of
    ex,          \* the exchanges, and what is under way in each
    entry,       \* what the log was told of each
    upstream,    \* the request the upstream got
    client,      \* the response the client got
    overtaken,   \* history: the project changed while this exchange ran
    late         \* history: a value was captured for a project not open then

exchangeVars == <<openProject, clearing, switches, captured, ex, entry,
                  upstream, client, overtaken, late>>

\* A message as the hooks have it: the part that was buffered, whether more
\* follows behind it that they do not see, whether it is relayed live.
Message(part, more, live) == [part |-> part, more |-> more, live |-> live]

New == [at |-> "idle", project |-> None, matched |-> {}, used |-> None,
        req |-> None, res |-> None, outcome |-> None]

ExchangeInit ==
    /\ openProject \in Projects
    /\ clearing = FALSE /\ switches = 0
    /\ captured = None
    /\ ex = [x \in Exchanges |-> New]
    /\ entry = [x \in Exchanges |-> [req |-> None, res |-> None]]
    /\ upstream = [x \in Exchanges |-> None]
    /\ client = [x \in Exchanges |-> None]
    /\ overtaken = [x \in Exchanges |-> FALSE]
    /\ late = FALSE

Running(x) == ex[x].at \notin {"idle", "over"}

Moves(x, at) == ex' = [ex EXCEPT ![x].at = at]

\* RoundTrip returns an error: "dropped" and "failed" are answered with a 502,
\* "gone" is a client that nobody answers (errorHandler).
Fail(x, outcome) ==
    ex' = [ex EXCEPT ![x].at = "over", ![x].outcome = outcome]

-----------------------------------------------------------------------------
(* The open project.                                                       *)

Switch(p) ==
    /\ ~clearing /\ switches < MaxSwitches /\ p # openProject
    /\ openProject' = p
    /\ clearing' = TRUE
    /\ switches' = switches + 1
    /\ overtaken' = [x \in Exchanges |-> overtaken[x] \/ Running(x)]
    /\ UNCHANGED <<captured, ex, entry, upstream, client, late>>

\* Broken: a project that is opened finds the values of the one before.
ClearVariablesLate ==
    /\ clearing
    /\ clearing' = FALSE
    /\ overtaken' = [x \in Exchanges |-> overtaken[x] \/ Running(x)]
    /\ UNCHANGED <<openProject, switches, captured, ex, entry, upstream, client, late>>

ClearVariables ==
    /\ clearing
    /\ captured' = None
    /\ clearing' = FALSE
    /\ overtaken' = [x \in Exchanges |-> overtaken[x] \/ Running(x)]
    /\ UNCHANGED <<openProject, switches, ex, entry, upstream, client, late>>

-----------------------------------------------------------------------------
(* The request half.                                                       *)

\* The body is buffered up to MaxBody.
Begin(x) ==
    /\ ex[x].at = "idle"
    /\ \E more \in BOOLEAN :
          ex' = [ex EXCEPT ![x].at = "match",
                           ![x].req = Message("sent", more, FALSE)]
    /\ UNCHANGED <<openProject, clearing, switches, captured, entry, upstream,
                   client, overtaken, late>>

\* The rules of the open project that match stay with the exchange, for both
\* halves.
Match(x) ==
    /\ ex[x].at = "match"
    /\ \E matched \in IF openProject = None THEN {{}} ELSE RuleSets :
          ex' = [ex EXCEPT ![x].at = "rules", ![x].project = openProject,
                           ![x].matched = matched]
    /\ UNCHANGED <<openProject, clearing, switches, captured, entry, upstream,
                   client, overtaken, late>>

\* A body that was cut is left alone.
Rewritten(x) ==
    IF "replaceRequest" \in ex[x].matched /\ ~ex[x].req.more
    THEN [ex[x].req EXCEPT !.part = "replaced"] ELSE ex[x].req

ApplyToRequest(x) ==
    /\ ex[x].at = "rules"
    /\ ex' = [ex EXCEPT ![x].at = "hold", ![x].req = Rewritten(x),
                        ![x].used = IF "useValue" \in ex[x].matched
                                    THEN captured ELSE None]
    /\ UNCHANGED <<openProject, clearing, switches, captured, entry, upstream,
                   client, overtaken, late>>

\* The client leaves during a delay, of either half, or while it is held.
ClientLeaves(x) ==
    /\ \/ ex[x].at \in {"rules", "rulesBack"} /\ "delay" \in ex[x].matched
       \/ ex[x].at = "hold" /\ ~ex[x].req.more
       \/ ex[x].at = "holdBack" /\ ~ex[x].res.more /\ ~ex[x].res.live
    /\ Fail(x, "gone")
    /\ UNCHANGED <<openProject, clearing, switches, captured, entry, upstream,
                   client, overtaken, late>>

\* Broken: the hooks of the request half end with the log's before the console
\* has had it.
LogRequestFirst(x) ==
    /\ ex[x].at = "hold"
    /\ entry' = [entry EXCEPT ![x].req = ex[x].req]
    /\ \/ Moves(x, "send")
       \/ ~ex[x].req.more /\ ex' = [ex EXCEPT ![x].at = "send", ![x].req.part = "edited"]
    /\ UNCHANGED <<openProject, clearing, switches, captured, upstream, client,
                   overtaken, late>>

\* The console forwards a held request, as it was or edited, or drops it; one
\* that was cut is not held.
InterceptRequest(x) ==
    /\ ex[x].at = "hold"
    /\ \/ Moves(x, "log")
       \/ /\ ~ex[x].req.more
          /\ \/ ex' = [ex EXCEPT ![x].at = "log", ![x].req.part = "edited"]
             \/ Fail(x, "dropped")
    /\ UNCHANGED <<openProject, clearing, switches, captured, entry, upstream,
                   client, overtaken, late>>

\* The log takes the request, or the project does not want it.
LogRequest(x) ==
    /\ ex[x].at = "log"
    /\ Moves(x, "send")
    /\ \E taken \in BOOLEAN :
          entry' = IF taken THEN [entry EXCEPT ![x].req = ex[x].req] ELSE entry
    /\ UNCHANGED <<openProject, clearing, switches, captured, upstream, client,
                   overtaken, late>>

-----------------------------------------------------------------------------
(* The answer.                                                             *)

\* A rule answers, and the upstream is not asked.
AnswerLocally(x) ==
    /\ ex[x].at = "send" /\ "mock" \in ex[x].matched
    /\ ex' = [ex EXCEPT ![x].at = "rulesBack",
                        ![x].res = Message("mock", FALSE, FALSE)]
    /\ UNCHANGED <<openProject, clearing, switches, captured, entry, upstream,
                   client, overtaken, late>>

\* captureResponse: buffered whole, cut at MaxBody, known to be larger and not
\* read at all, or live.
Answers == {Message("answer", FALSE, FALSE), Message("answer", TRUE, FALSE),
            Message("nothing", TRUE, FALSE), Message("nothing", FALSE, TRUE)}

Ask(x) ==
    /\ ex[x].at = "send" /\ "mock" \notin ex[x].matched
    /\ upstream' = [upstream EXCEPT ![x] = ex[x].req]
    /\ \/ \E res \in Answers :
             ex' = [ex EXCEPT ![x].at = "rulesBack", ![x].res = res]
       \/ Fail(x, "failed")
    /\ UNCHANGED <<openProject, clearing, switches, captured, entry, client,
                   overtaken, late>>

\* Values are read before or after a replacement, as the rules are listed, and
\* not out of a live body.
Capture(x) ==
    /\ ex[x].at = "rulesBack" /\ "capture" \in ex[x].matched /\ ~ex[x].res.live
    /\ captured' = ex[x].project
    /\ late' = (late \/ ex[x].project # openProject)
    /\ ex' = [ex EXCEPT ![x].matched = @ \ {"capture"}]
    /\ UNCHANGED <<openProject, clearing, switches, entry, upstream, client, overtaken>>

\* A replacement is skipped on a live body.  On one that was cut it is an
\* error, and the exchange ends with it.
ApplyToResponse(x) ==
    /\ ex[x].at = "rulesBack"
    /\ IF "replaceResponse" \notin ex[x].matched \/ ex[x].res.live
       THEN Moves(x, "holdBack")
       ELSE IF ex[x].res.more
       THEN Fail(x, "failed")
       ELSE ex' = [ex EXCEPT ![x].at = "holdBack", ![x].res.part = "replaced"]
    /\ UNCHANGED <<openProject, clearing, switches, captured, entry, upstream,
                   client, overtaken, late>>

InterceptResponse(x) ==
    /\ ex[x].at = "holdBack"
    /\ \/ Moves(x, "logBack")
       \/ /\ ~ex[x].res.more /\ ~ex[x].res.live
          /\ \/ ex' = [ex EXCEPT ![x].at = "logBack", ![x].res.part = "edited"]
             \/ Fail(x, "dropped")
    /\ UNCHANGED <<openProject, clearing, switches, captured, entry, upstream,
                   client, overtaken, late>>

\* Only what the request half took; what was not captured is put back then,
\* and the client has its answer.
LogResponse(x) ==
    /\ ex[x].at = "logBack"
    /\ ex' = [ex EXCEPT ![x].at = "over", ![x].outcome = "delivered"]
    /\ entry' = IF entry[x].req = None THEN entry
                ELSE [entry EXCEPT ![x].res = ex[x].res]
    /\ client' = [client EXCEPT ![x] = ex[x].res]
    /\ UNCHANGED <<openProject, clearing, switches, captured, upstream, overtaken, late>>

-----------------------------------------------------------------------------
ExchangeNext ==
    \/ \E p \in Projects \cup {None} : Switch(p)
    \/ ClearVariables
    \/ \E x \in Exchanges :
          \/ Begin(x) \/ Match(x) \/ ApplyToRequest(x) \/ ClientLeaves(x)
          \/ InterceptRequest(x) \/ LogRequest(x) \/ AnswerLocally(x) \/ Ask(x)
          \/ Capture(x) \/ ApplyToResponse(x) \/ InterceptResponse(x)
          \/ LogResponse(x)

ExchangeSpec == ExchangeInit /\ [][ExchangeNext]_exchangeVars

-----------------------------------------------------------------------------
(* Properties.                                                             *)

Messages ==
    [part : {"sent", "replaced", "edited", "mock", "answer", "nothing"},
     more : BOOLEAN, live : BOOLEAN]

Exchanging ==
    [at : {"idle", "match", "rules", "hold", "log", "send", "rulesBack", "holdBack",
           "logBack", "over"},
     project : Projects \cup {None}, matched : SUBSET Actions,
     used : Projects \cup {None}, req : Messages \cup {None}, res : Messages \cup {None},
     outcome : {None, "delivered", "dropped", "failed", "gone"}]

ExchangeTypeOK ==
    /\ openProject \in Projects \cup {None}
    /\ captured \in Projects \cup {None}
    /\ clearing \in BOOLEAN /\ late \in BOOLEAN
    /\ switches \in 0 .. MaxSwitches
    /\ ex \in [Exchanges -> Exchanging]
    /\ entry \in [Exchanges -> [req : Messages \cup {None}, res : Messages \cup {None}]]
    /\ upstream \in [Exchanges -> Messages \cup {None}]
    /\ client \in [Exchanges -> Messages \cup {None}]
    /\ overtaken \in [Exchanges -> BOOLEAN]
    /\ \A x \in Exchanges :
          /\ ex[x].at # "idle" => ex[x].req \in Messages
          /\ ex[x].at \in {"rulesBack", "holdBack", "logBack"} => ex[x].res \in Messages

\* "The log records what was actually sent - the request as a person edited it,
\* and the response they let through" (cli/serve.go, the order of the hooks):
\* an entry and the wire never differ, whatever rules and console did, and every
\* answer the client gets is told to the log, none that it does not get.
LogIsWhatWasSent ==
    \A x \in Exchanges : entry[x].req # None =>
       /\ upstream[x] \in {None, entry[x].req}
       /\ entry[x].res = client[x]

\* A value captured in one project is put into a request of another one only if
\* the exchange was under way while the project changed, before the change has
\* cleared the values, or when a capture came late (Service.expand,
\* ClearVariables, capture).
ValuesStayHome ==
    [][\A x \in Exchanges :
          ex'[x].used # ex[x].used =>
             ex'[x].used = ex[x].project \/ overtaken[x] \/ clearing \/ late
      ]_exchangeVars

\* "A body too large to be buffered is on its way to the client already and is
\* left alone."
LargeBodiesArrive ==
    \A x \in Exchanges : ex[x].at = "over" /\ ex[x].res # None /\ ex[x].res.more
                            => ex[x].outcome \in {"delivered", "gone"}
=============================================================================
