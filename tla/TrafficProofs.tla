---------------------------- MODULE TrafficProofs ----------------------------
(***************************************************************************)
(* What holds of the traffic for any number of exchanges, hosts, tunnels   *)
(* and calls: what the log has of an exchange, the values that rules       *)
(* capture, the root that clients trust, the tunnels, what goes through an *)
(* upgraded connection, the end of the program and the way a request       *)
(* takes.  They share nothing: each has its own specification, and a       *)
(* theorem rests on the assumption of its own part.                        *)
(***************************************************************************)
EXTENDS SequenceTheorems, FiniteSetTheorems, SequencesExt, TLAPS

CONSTANTS
    None,
    Exchanges, Projects, RuleSets, MaxSwitches,
    Streams, Calls, Window,
    Hosts, Handshakes, MaxCached, MaxRoots,
    Tunnels, LogProjects, MaxPieces,
    MaxFrames, QueueSize, MaxMessages, BatchSize, ProgressEvery,
    Addresses, Upstream, Requests, Settings, MaxOverrides, MaxEdits

VARIABLES
    openProject, clearing, switches, captured, ex, entry, upstream, client,
    overtaken, late,
    phase, spent, server, failed, streams, call, early, browser, profile, launcher,
    certFile, keyFile, minted, boot, root, trusted, cached, order, shake, tampered,
    tun, wire, copies, logged, kept, project,
    given, hungUp, pump, delivered, closed, emitted,
    connection, mark, stamp, rec, queue, drain, upgraded, rows, lost,
    current, edits, notified, closing, way, conn, crossed

INSTANCE Exchange
INSTANCE Serve
INSTANCE Certificates
INSTANCE Tunnels WITH pump <- copies
INSTANCE WebSocketLog WITH phase <- connection, entry <- upgraded
INSTANCE WaysOut

-----------------------------------------------------------------------------
(* Exchanges.                                                              *)

Back == {"rulesBack", "holdBack", "logBack", "over"}

\* Where an exchange has to be for the log, the upstream and the client to have
\* what they have of it.
Told(x) ==
    /\ entry[x].req # None => ex[x].at \in {"send"} \cup Back
    /\ entry[x].req # None /\ ex[x].at = "send" => entry[x].req = ex[x].req
    /\ entry[x].req # None => upstream[x] \in {None, entry[x].req}
    /\ entry[x].req # None => entry[x].res = client[x]
    /\ entry[x].req = None => entry[x].res = None
    /\ upstream[x] # None => ex[x].at \in Back
    /\ client[x] # None => ex[x].at = "over"

\* The project an exchange took its rules from is open while it runs and is not
\* overtaken, and no value is used before the rules are applied.
AtHome(x) ==
    /\ ~overtaken[x] /\ ex[x].at \notin {"idle", "match", "over"}
          => ex[x].project = openProject
    /\ ex[x].at \in {"idle", "match", "rules"} => ex[x].used = None

\* The values that are there are of the open project.
CapturedHere == ~clearing /\ ~late => captured \in {None, openProject}

ExchangeInv ==
    /\ ExchangeTypeOK
    /\ \A x \in Exchanges : Told(x) /\ AtHome(x)
    /\ CapturedHere

\* The messages that the request half begins with and a console or a rule makes
\* of one.
LEMMA AreMessages ==
    /\ \A part \in {"sent", "replaced", "edited", "mock", "answer", "nothing"} :
          \A more, live \in BOOLEAN : Message(part, more, live) \in Messages
    /\ \A m \in Messages : \A part \in {"replaced", "edited"} :
          [m EXCEPT !.part = part] \in Messages
    /\ Answers \subseteq Messages
BY DEF Message, Messages, Answers

\* What the steps of an exchange make of it.
LEMMA Exchanged ==
    ASSUME NEW e \in Exchanging
    PROVE  /\ \A at \in {"hold", "log", "send", "holdBack", "logBack"} :
                 [e EXCEPT !.at = at] \in Exchanging
           /\ \A m \in Messages :
                 /\ [e EXCEPT !.at = "match", !.req = m] \in Exchanging
                 /\ [e EXCEPT !.at = "rulesBack", !.res = m] \in Exchanging
                 /\ \A at \in {"log", "send"} : [e EXCEPT !.at = at, !.req = m] \in Exchanging
                 /\ \A at \in {"holdBack", "logBack"} :
                       [e EXCEPT !.at = at, !.res = m] \in Exchanging
                 /\ \A v \in Projects \cup {None} :
                       [e EXCEPT !.at = "hold", !.req = m, !.used = v] \in Exchanging
           /\ \A p \in Projects \cup {None} : \A matched \in SUBSET Actions :
                 [e EXCEPT !.at = "rules", !.project = p, !.matched = matched] \in Exchanging
           /\ [e EXCEPT !.matched = @ \ {"capture"}] \in Exchanging
           /\ \A outcome \in {"delivered", "dropped", "failed", "gone"} :
                 [e EXCEPT !.at = "over", !.outcome = outcome] \in Exchanging
<1>1. ASSUME NEW at \in {"hold", "log", "send", "holdBack", "logBack"}
      PROVE  [e EXCEPT !.at = at] \in Exchanging
  BY DEF Exchanging
<1>2. ASSUME NEW m \in Messages, NEW at \in {"match", "log", "send"}
      PROVE  [e EXCEPT !.at = at, !.req = m] \in Exchanging
  BY DEF Exchanging
<1>3. ASSUME NEW m \in Messages, NEW at \in {"rulesBack", "holdBack", "logBack"}
      PROVE  [e EXCEPT !.at = at, !.res = m] \in Exchanging
  BY DEF Exchanging
<1>4. ASSUME NEW m \in Messages, NEW v \in Projects \cup {None}
      PROVE  [e EXCEPT !.at = "hold", !.req = m, !.used = v] \in Exchanging
  BY DEF Exchanging
<1>5. ASSUME NEW p \in Projects \cup {None}, NEW matched \in SUBSET Actions
      PROVE  [e EXCEPT !.at = "rules", !.project = p, !.matched = matched] \in Exchanging
  BY DEF Exchanging
<1>6. [e EXCEPT !.matched = @ \ {"capture"}] \in Exchanging
  BY DEF Exchanging
<1>7. ASSUME NEW outcome \in {"delivered", "dropped", "failed", "gone"}
      PROVE  [e EXCEPT !.at = "over", !.outcome = outcome] \in Exchanging
  BY DEF Exchanging
<1> QED
  BY <1>1, <1>2, <1>3, <1>4, <1>5, <1>6, <1>7

\* A step of one exchange that leaves the open project alone.
LEMMA ExchangeStep ==
    ASSUME ExchangeInv, NEW x \in Exchanges, NEW m \in Exchanging,
           ex' = [ex EXCEPT ![x] = m],
           UNCHANGED <<openProject, clearing, switches, overtaken>>,
           captured' \in Projects \cup {None}, late' \in BOOLEAN, CapturedHere',
           entry' \in [Exchanges -> [req : Messages \cup {None}, res : Messages \cup {None}]],
           upstream' \in [Exchanges -> Messages \cup {None}],
           client' \in [Exchanges -> Messages \cup {None}],
           \A y \in Exchanges \ {x} : /\ entry'[y] = entry[y]
                                      /\ upstream'[y] = upstream[y]
                                      /\ client'[y] = client[y],
           m.at # "idle", m.req \in Messages,
           m.at \in {"rulesBack", "holdBack", "logBack"} => m.res \in Messages,
           Told(x)', AtHome(x)'
    PROVE  ExchangeInv'
<1> USE DEF ExchangeInv
<1>1. /\ ex'[x] = m
      /\ \A y \in Exchanges \ {x} : ex'[y] = ex[y]
  BY DEF ExchangeTypeOK
<1>2. \A y \in Exchanges : Told(y)' /\ AtHome(y)'
  <2> SUFFICES ASSUME NEW y \in Exchanges \ {x} PROVE Told(y)' /\ AtHome(y)'
    OBVIOUS
  <2> QED
    BY <1>1 DEF Told, AtHome
<1>3. ExchangeTypeOK'
  BY <1>1 DEF ExchangeTypeOK
<1> QED
  BY <1>2, <1>3

\* The steps of an exchange that tell the log, the upstream and the client nothing.
Onward(from, to) ==
    \/ <<from, to>> \in { <<"idle", "match">>, <<"match", "rules">>, <<"rules", "hold">>,
                          <<"hold", "log">>, <<"send", "rulesBack">>,
                          <<"rulesBack", "holdBack">>, <<"holdBack", "logBack">> }
    \/ from # "idle" /\ to = "over"

\* Such a step keeps everything that is known of the exchange.
LEMMA QuietStep ==
    ASSUME ExchangeInv, NEW x \in Exchanges, NEW m \in Exchanging,
           ex' = [ex EXCEPT ![x] = m],
           UNCHANGED <<openProject, clearing, switches, overtaken, captured, late,
                       entry, upstream, client>>,
           Onward(ex[x].at, m.at), m.req \in Messages,
           m.at \in {"rulesBack", "holdBack", "logBack"} => m.res \in Messages,
           m.project = IF m.at = "rules" THEN openProject ELSE ex[x].project,
           m.used = ex[x].used \/ m.at = "hold"
    PROVE  ExchangeInv'
<1>1. /\ captured' \in Projects \cup {None} /\ late' \in BOOLEAN /\ CapturedHere'
      /\ entry' \in [Exchanges -> [req : Messages \cup {None}, res : Messages \cup {None}]]
      /\ upstream' \in [Exchanges -> Messages \cup {None}]
      /\ client' \in [Exchanges -> Messages \cup {None}]
      /\ ex'[x] = m /\ Told(x) /\ AtHome(x)
  BY DEF ExchangeInv, ExchangeTypeOK, CapturedHere
<1>2. m.at # "idle" /\ m.at # "send"
  BY DEF Onward
<1>3. Told(x)'
  BY <1>1, <1>2 DEF Told, Onward, Back
<1>4. AtHome(x)'
  <2>1. m.at \in {"match", "rules"} => ex[x].at \in {"idle", "match"}
    BY DEF Onward
  <2>2. m.at \notin {"match", "rules", "over"} => ex[x].at \notin {"idle", "match", "over"}
    BY DEF Onward
  <2> QED
    BY <1>1, <1>2, <2>1, <2>2 DEF AtHome
<1> QED
  BY <1>1, <1>2, <1>3, <1>4, ExchangeStep

\* An exchange that moves on as it is, one whose message is written anew, and one
\* that ends.
LEMMA Carried ==
    ASSUME NEW e \in Exchanging, e.req \in Messages,
           NEW n \in Messages
    PROVE  /\ \A at \in {"hold", "log", "send", "holdBack", "logBack"} :
                 LET m == [e EXCEPT !.at = at] IN
                 m.at = at /\ m.project = e.project /\ m.used = e.used /\ m.req = e.req
                 /\ m.res = e.res
           /\ \A outcome : LET m == [e EXCEPT !.at = "over", !.outcome = outcome] IN
                 m.at = "over" /\ m.project = e.project /\ m.used = e.used /\ m.req = e.req
           /\ \A at \in {"log", "send"} :
                 LET m == [e EXCEPT !.at = at, !.req = n] IN
                 m.at = at /\ m.project = e.project /\ m.used = e.used /\ m.req = n
           /\ \A at \in {"rulesBack", "holdBack", "logBack"} :
                 LET m == [e EXCEPT !.at = at, !.res = n] IN
                 m.at = at /\ m.project = e.project /\ m.used = e.used /\ m.req = e.req
                 /\ m.res = n
BY DEF Exchanging

\* What is known of an exchange before it takes a step.
LEMMA BeforeStep ==
    ASSUME ExchangeInv, NEW x \in Exchanges
    PROVE  /\ ex[x] \in Exchanging /\ Told(x) /\ AtHome(x)
           /\ ex[x].at # "idle" => ex[x].req \in Messages
           /\ ex[x].at \in {"rulesBack", "holdBack", "logBack"} => ex[x].res \in Messages
           /\ captured \in Projects \cup {None} /\ openProject \in Projects \cup {None}
           /\ ex[x].used \in Projects \cup {None}
           /\ entry[x] \in [req : Messages \cup {None}, res : Messages \cup {None}]
BY DEF ExchangeInv, ExchangeTypeOK, Exchanging

\* A hook or the upstream ends an exchange that runs.
LEMMA EndStep ==
    ASSUME ExchangeInv, NEW x \in Exchanges, NEW outcome \in {"dropped", "failed", "gone"},
           ex[x].at # "idle", Fail(x, outcome),
           UNCHANGED <<openProject, clearing, switches, overtaken, captured, late,
                       entry, upstream, client>>
    PROVE  ExchangeInv'
<1> DEFINE m == [ex[x] EXCEPT !.at = "over", !.outcome = outcome]
<1>1. m \in Exchanging
  BY BeforeStep, Exchanged
<1>2. ex' = [ex EXCEPT ![x] = m]
  BY DEF Fail
<1>3. m.at = "over" /\ m.project = ex[x].project /\ m.used = ex[x].used /\ m.req \in Messages
  BY BeforeStep, Carried
<1> HIDE DEF m
<1> QED
  BY <1>1, <1>2, <1>3, QuietStep DEF Onward

\* An exchange goes on with what it has.
LEMMA MoveStep ==
    ASSUME ExchangeInv, NEW x \in Exchanges, NEW at \in {"log", "holdBack", "logBack"},
           Onward(ex[x].at, at), Moves(x, at),
           UNCHANGED <<openProject, clearing, switches, overtaken, captured, late,
                       entry, upstream, client>>
    PROVE  ExchangeInv'
<1> DEFINE m == [ex[x] EXCEPT !.at = at]
<1>0. /\ ex[x].req \in Messages
      /\ at # "log" => ex[x].res \in Messages
  BY BeforeStep DEF Onward
<1>1. m \in Exchanging
  BY BeforeStep, Exchanged
<1>2. ex' = [ex EXCEPT ![x] = m]
  BY DEF Moves
<1>3. /\ m.at = at /\ m.project = ex[x].project /\ m.used = ex[x].used
      /\ m.req = ex[x].req /\ m.res = ex[x].res
  BY <1>0, BeforeStep, Carried
<1> HIDE DEF m
<1> QED
  BY <1>0, <1>1, <1>2, <1>3, QuietStep

\* An answer, or a response that is written anew.
LEMMA AnswerStep ==
    ASSUME ExchangeInv, NEW x \in Exchanges, NEW n \in Messages,
           NEW at \in {"rulesBack", "holdBack", "logBack"},
           Onward(ex[x].at, at),
           ex' = [ex EXCEPT ![x].at = at, ![x].res = n],
           UNCHANGED <<openProject, clearing, switches, overtaken, captured, late,
                       entry, upstream, client>>
    PROVE  ExchangeInv'
<1> DEFINE m == [ex[x] EXCEPT !.at = at, !.res = n]
<1>0. ex[x].req \in Messages
  BY BeforeStep DEF Onward
<1>1. m \in Exchanging
  BY BeforeStep, Exchanged
<1>2. ex' = [ex EXCEPT ![x] = m]
  OBVIOUS
<1>3. /\ m.at = at /\ m.project = ex[x].project /\ m.used = ex[x].used
      /\ m.req = ex[x].req /\ m.res = n
  BY <1>0, BeforeStep, Carried
<1> HIDE DEF m
<1> QED
  BY <1>0, <1>1, <1>2, <1>3, QuietStep

\* The way of a request, up to the transport, and a client that leaves.
LEMMA RequestSteps ==
    ASSUME ExchangeAssumption, ExchangeInv, NEW x \in Exchanges,
           Begin(x) \/ Match(x) \/ ApplyToRequest(x) \/ ClientLeaves(x)
             \/ InterceptRequest(x) \/ LogRequest(x)
    PROVE  ExchangeInv'
<1> DEFINE e == ex[x]
<1>1. CASE Begin(x)
  <2>1. PICK more \in BOOLEAN :
           ex' = [ex EXCEPT ![x].at = "match", ![x].req = Message("sent", more, FALSE)]
    BY <1>1 DEF Begin
  <2> DEFINE n == Message("sent", more, FALSE)
             m == [e EXCEPT !.at = "match", !.req = n]
  <2>2. n \in Messages
    BY AreMessages
  <2>3. ex' = [ex EXCEPT ![x] = m]
    BY <2>1
  <2> HIDE DEF n
  <2>4. m \in Exchanging
    BY <2>2, BeforeStep, Exchanged
  <2>5. m.at = "match" /\ m.req = n /\ m.used = e.used /\ m.project = e.project
    BY BeforeStep DEF Exchanging
  <2> HIDE DEF m
  <2> QED
    BY <1>1, <2>2, <2>3, <2>4, <2>5, QuietStep DEF Begin, Onward
<1>2. CASE Match(x)
  <2>1. PICK matched \in SUBSET Actions :
           ex' = [ex EXCEPT ![x].at = "rules", ![x].project = openProject,
                            ![x].matched = matched]
    BY <1>2 DEF Match, ExchangeAssumption
  <2> DEFINE m == [e EXCEPT !.at = "rules", !.project = openProject, !.matched = matched]
  <2>3. ex' = [ex EXCEPT ![x] = m]
    BY <2>1
  <2>4. m \in Exchanging
    BY BeforeStep, Exchanged
  <2>5. m.at = "rules" /\ m.req = e.req /\ m.used = e.used /\ m.project = openProject
    BY BeforeStep DEF Exchanging
  <2> HIDE DEF m
  <2> QED
    BY <1>2, <2>3, <2>4, <2>5, BeforeStep, QuietStep DEF Match, Onward
<1>3. CASE ApplyToRequest(x)
  <2> DEFINE n == Rewritten(x)
             v == IF "useValue" \in e.matched THEN captured ELSE None
             m == [e EXCEPT !.at = "hold", !.req = n, !.used = v]
  <2>1. n \in Messages /\ v \in Projects \cup {None}
    BY <1>3, BeforeStep, AreMessages DEF ApplyToRequest, Rewritten
  <2>2. ex' = [ex EXCEPT ![x] = m]
    BY <1>3 DEF ApplyToRequest
  <2> HIDE DEF n, v
  <2>3. m \in Exchanging
    BY <2>1, BeforeStep, Exchanged
  <2>4. m.at = "hold" /\ m.req = n /\ m.project = e.project
    BY BeforeStep DEF Exchanging
  <2> HIDE DEF m
  <2> QED
    BY <1>3, <2>1, <2>2, <2>3, <2>4, QuietStep DEF ApplyToRequest, Onward
<1>4. CASE ClientLeaves(x)
  BY <1>4, EndStep DEF ClientLeaves
<1>5. CASE InterceptRequest(x)
  <2>1. CASE Moves(x, "log")
    BY <1>5, <2>1, MoveStep DEF InterceptRequest, Onward
  <2>2. CASE ex' = [ex EXCEPT ![x].at = "log", ![x].req.part = "edited"]
    <3> DEFINE n == [e.req EXCEPT !.part = "edited"]
               m == [e EXCEPT !.at = "log", !.req = n]
    <3>1. n \in Messages
      BY <1>5, BeforeStep, AreMessages DEF InterceptRequest
    <3>2. ex' = [ex EXCEPT ![x] = m]
      BY <2>2
    <3> HIDE DEF n
    <3>3. m \in Exchanging
      BY <3>1, BeforeStep, Exchanged
    <3>4. m.at = "log" /\ m.req = n /\ m.project = e.project /\ m.used = e.used
      BY BeforeStep DEF Exchanging
    <3> HIDE DEF m
    <3> QED
      BY <1>5, <3>1, <3>2, <3>3, <3>4, QuietStep DEF InterceptRequest, Onward
  <2>3. CASE Fail(x, "dropped")
    BY <1>5, <2>3, EndStep DEF InterceptRequest
  <2> QED
    BY <1>5, <2>1, <2>2, <2>3 DEF InterceptRequest
<1>6. CASE LogRequest(x)
  <2> DEFINE m == [e EXCEPT !.at = "send"]
  <2>0. e.req \in Messages /\ e.at = "log"
    BY <1>6, BeforeStep DEF LogRequest
  <2>1. ex' = [ex EXCEPT ![x] = m]
    BY <1>6 DEF LogRequest, Moves
  <2>2. m \in Exchanging
    BY BeforeStep, Exchanged
  <2>3. m.at = "send" /\ m.req = e.req /\ m.project = e.project /\ m.used = e.used
    BY <2>0, BeforeStep, Carried
  <2> HIDE DEF m
  <2>4. ex'[x] = m
    BY <2>1 DEF ExchangeInv, ExchangeTypeOK
  <2>5. /\ entry' \in [Exchanges -> [req : Messages \cup {None}, res : Messages \cup {None}]]
        /\ \A y \in Exchanges \ {x} : entry'[y] = entry[y]
        /\ entry'[x].res = entry[x].res
        /\ entry'[x].req \in {entry[x].req, e.req}
    <3>1. CASE entry' = entry
      BY <3>1 DEF ExchangeInv, ExchangeTypeOK
    <3>2. CASE entry' = [entry EXCEPT ![x].req = e.req]
      <4>1. [entry[x] EXCEPT !.req = e.req] \in
               [req : Messages \cup {None}, res : Messages \cup {None}]
        BY <2>0, BeforeStep
      <4> QED
        BY <2>0, <3>2, <4>1 DEF ExchangeInv, ExchangeTypeOK
    <3> QED
      BY <1>6, <3>1, <3>2 DEF LogRequest
  <2>6. Told(x)'
    BY <1>6, <2>0, <2>3, <2>4, <2>5, BeforeStep DEF LogRequest, Told, Back
  <2>7. AtHome(x)'
    BY <1>6, <2>0, <2>3, <2>4, BeforeStep DEF LogRequest, AtHome
  <2>8. /\ captured' \in Projects \cup {None} /\ late' \in BOOLEAN /\ CapturedHere'
        /\ upstream' \in [Exchanges -> Messages \cup {None}]
        /\ client' \in [Exchanges -> Messages \cup {None}]
    BY <1>6 DEF LogRequest, ExchangeInv, ExchangeTypeOK, CapturedHere
  <2> QED
    BY <1>6, <2>0, <2>1, <2>2, <2>3, <2>5, <2>6, <2>7, <2>8, ExchangeStep DEF LogRequest
<1> QED
  BY <1>1, <1>2, <1>3, <1>4, <1>5, <1>6
\* The answer, made here or fetched, on its way back through the hooks.
LEMMA ResponseSteps ==
    ASSUME ExchangeInv, NEW x \in Exchanges,
           AnswerLocally(x) \/ Ask(x) \/ Capture(x) \/ ApplyToResponse(x)
             \/ InterceptResponse(x) \/ LogResponse(x)
    PROVE  ExchangeInv'
<1> DEFINE e == ex[x]
<1>1. CASE AnswerLocally(x)
  BY <1>1, AreMessages, AnswerStep DEF AnswerLocally, Onward
<1>2. CASE Ask(x)
  <2> DEFINE Asked(m) == /\ m \in Exchanging
                         /\ ex' = [ex EXCEPT ![x] = m]
                         /\ m.at \in {"rulesBack", "over"}
                         /\ m.at = "rulesBack" => m.res \in Messages
                         /\ m.req = e.req /\ m.project = e.project /\ m.used = e.used
  <2>0. e.req \in Messages /\ e.at = "send" /\ e \in Exchanging
    BY <1>2, BeforeStep DEF Ask
  <2>1. ASSUME \E res \in Answers : ex' = [ex EXCEPT ![x].at = "rulesBack", ![x].res = res]
        PROVE  \E m : Asked(m)
    <3>1. PICK res \in Messages : ex' = [ex EXCEPT ![x].at = "rulesBack", ![x].res = res]
      BY <2>1, AreMessages
    <3> DEFINE m == [e EXCEPT !.at = "rulesBack", !.res = res]
    <3>2. m \in Exchanging
      BY <2>0, Exchanged
    <3>3. ex' = [ex EXCEPT ![x] = m]
      BY <3>1
    <3>4. /\ m.at = "rulesBack" /\ m.res = res
          /\ m.req = e.req /\ m.project = e.project /\ m.used = e.used
      BY <2>0, Carried
    <3> HIDE DEF m
    <3>5. Asked(m)
      BY <3>2, <3>3, <3>4
    <3> QED
      BY <3>5
  <2>2. ASSUME Fail(x, "failed") PROVE \E m : Asked(m)
    <3> DEFINE m == [e EXCEPT !.at = "over", !.outcome = "failed"]
    <3>2. m \in Exchanging
      BY <2>0, Exchanged
    <3>3. ex' = [ex EXCEPT ![x] = m]
      BY <2>2 DEF Fail
    <3>4. /\ m.at = "over"
          /\ m.req = e.req /\ m.project = e.project /\ m.used = e.used
      BY <2>0, Carried
    <3> HIDE DEF m
    <3>5. Asked(m)
      BY <3>2, <3>3, <3>4
    <3> QED
      BY <3>5
  <2>3. PICK m : Asked(m)
    BY <1>2, <2>1, <2>2 DEF Ask
  <2> HIDE DEF Asked
  <2>4. /\ m \in Exchanging
        /\ ex' = [ex EXCEPT ![x] = m]
        /\ m.at \in {"rulesBack", "over"}
        /\ m.at = "rulesBack" => m.res \in Messages
        /\ m.req = e.req /\ m.project = e.project /\ m.used = e.used
    BY <2>3 DEF Asked
  <2>5. ex'[x] = m
    BY <2>4 DEF ExchangeInv, ExchangeTypeOK
  <2>6. /\ upstream'[x] = e.req
        /\ upstream' \in [Exchanges -> Messages \cup {None}]
        /\ \A y \in Exchanges \ {x} : upstream'[y] = upstream[y]
    BY <1>2, <2>0 DEF Ask, ExchangeInv, ExchangeTypeOK
  <2>7. Told(x)'
    BY <1>2, <2>0, <2>4, <2>5, <2>6, BeforeStep DEF Ask, Told, Back
  <2>8. AtHome(x)'
    BY <1>2, <2>0, <2>4, <2>5, BeforeStep DEF Ask, AtHome
  <2>9. /\ captured' \in Projects \cup {None} /\ late' \in BOOLEAN /\ CapturedHere'
        /\ entry' \in [Exchanges -> [req : Messages \cup {None}, res : Messages \cup {None}]]
        /\ client' \in [Exchanges -> Messages \cup {None}]
    BY <1>2 DEF Ask, ExchangeInv, ExchangeTypeOK, CapturedHere
  <2> QED
    BY <1>2, <2>0, <2>4, <2>6, <2>7, <2>8, <2>9, ExchangeStep DEF Ask
<1>3. CASE Capture(x)
  <2> DEFINE m == [e EXCEPT !.matched = @ \ {"capture"}]
  <2>0. e.req \in Messages /\ e.res \in Messages /\ e.at = "rulesBack"
    BY <1>3, BeforeStep DEF Capture
  <2>1. ex' = [ex EXCEPT ![x] = m]
    BY <1>3 DEF Capture
  <2>2. m \in Exchanging
    BY BeforeStep, Exchanged
  <2>3. /\ m.at = "rulesBack" /\ m.project = e.project /\ m.used = e.used
        /\ m.req = e.req /\ m.res = e.res
    BY <2>0, BeforeStep DEF Exchanging
  <2> HIDE DEF m
  <2>4. ex'[x] = m
    BY <2>1 DEF ExchangeInv, ExchangeTypeOK
  <2>5. Told(x)' /\ AtHome(x)'
    BY <1>3, <2>0, <2>3, <2>4, BeforeStep DEF Capture, Told, AtHome, Back
  <2>6. e.project \in Projects \cup {None}
    BY BeforeStep DEF Exchanging
  <2>7. captured' \in Projects \cup {None} /\ late' \in BOOLEAN /\ CapturedHere'
    BY <1>3, <2>6 DEF Capture, ExchangeInv, ExchangeTypeOK, CapturedHere
  <2>8. /\ entry' \in [Exchanges -> [req : Messages \cup {None}, res : Messages \cup {None}]]
        /\ upstream' \in [Exchanges -> Messages \cup {None}]
        /\ client' \in [Exchanges -> Messages \cup {None}]
    BY <1>3 DEF Capture, ExchangeInv, ExchangeTypeOK
  <2> QED
    BY <1>3, <2>0, <2>1, <2>2, <2>3, <2>5, <2>7, <2>8, ExchangeStep DEF Capture
<1>4. CASE ApplyToResponse(x)
  <2>0. e.at = "rulesBack" /\ e.res \in Messages
    BY <1>4, BeforeStep DEF ApplyToResponse
  <2>1. CASE Moves(x, "holdBack")
    BY <1>4, <2>0, <2>1, MoveStep DEF ApplyToResponse, Onward
  <2>2. CASE Fail(x, "failed")
    BY <1>4, <2>0, <2>2, EndStep DEF ApplyToResponse
  <2>3. CASE ex' = [ex EXCEPT ![x].at = "holdBack", ![x].res.part = "replaced"]
    <3> DEFINE n == [e.res EXCEPT !.part = "replaced"]
    <3>1. n \in Messages
      BY <2>0, AreMessages
    <3>2. ex' = [ex EXCEPT ![x].at = "holdBack", ![x].res = n]
      BY <2>3
    <3> HIDE DEF n
    <3> QED
      BY <1>4, <2>0, <3>1, <3>2, AnswerStep DEF ApplyToResponse, Onward
  <2> QED
    BY <1>4, <2>1, <2>2, <2>3 DEF ApplyToResponse
<1>5. CASE InterceptResponse(x)
  <2>0. e.at = "holdBack" /\ e.res \in Messages
    BY <1>5, BeforeStep DEF InterceptResponse
  <2>1. CASE Moves(x, "logBack")
    BY <1>5, <2>0, <2>1, MoveStep DEF InterceptResponse, Onward
  <2>2. CASE Fail(x, "dropped")
    BY <1>5, <2>0, <2>2, EndStep DEF InterceptResponse
  <2>3. CASE ex' = [ex EXCEPT ![x].at = "logBack", ![x].res.part = "edited"]
    <3> DEFINE n == [e.res EXCEPT !.part = "edited"]
    <3>1. n \in Messages
      BY <2>0, AreMessages
    <3>2. ex' = [ex EXCEPT ![x].at = "logBack", ![x].res = n]
      BY <2>3
    <3> HIDE DEF n
    <3> QED
      BY <1>5, <2>0, <3>1, <3>2, AnswerStep DEF InterceptResponse, Onward
  <2> QED
    BY <1>5, <2>1, <2>2, <2>3 DEF InterceptResponse
<1>6. CASE LogResponse(x)
  <2> DEFINE m == [e EXCEPT !.at = "over", !.outcome = "delivered"]
  <2>0. e.req \in Messages /\ e.res \in Messages /\ e.at = "logBack"
    BY <1>6, BeforeStep DEF LogResponse
  <2>1. ex' = [ex EXCEPT ![x] = m]
    BY <1>6 DEF LogResponse
  <2>2. m \in Exchanging
    BY BeforeStep, Exchanged
  <2>3. m.at = "over" /\ m.project = e.project /\ m.used = e.used /\ m.req = e.req
    BY <2>0, BeforeStep, Carried
  <2> HIDE DEF m
  <2>4. ex'[x] = m
    BY <2>1 DEF ExchangeInv, ExchangeTypeOK
  <2>5. /\ entry' \in [Exchanges -> [req : Messages \cup {None}, res : Messages \cup {None}]]
        /\ \A y \in Exchanges \ {x} : entry'[y] = entry[y]
        /\ entry'[x].req = entry[x].req
        /\ entry'[x].res = IF entry[x].req = None THEN entry[x].res ELSE e.res
    <3>1. CASE entry[x].req = None
      BY <1>6, <3>1 DEF LogResponse, ExchangeInv, ExchangeTypeOK
    <3>2. CASE entry[x].req # None
      <4>1. [entry[x] EXCEPT !.res = e.res] \in
               [req : Messages \cup {None}, res : Messages \cup {None}]
        BY <2>0, BeforeStep
      <4> QED
        BY <1>6, <2>0, <3>2, <4>1 DEF LogResponse, ExchangeInv, ExchangeTypeOK
    <3> QED
      BY <3>1, <3>2
  <2>6. /\ client'[x] = e.res
        /\ client' \in [Exchanges -> Messages \cup {None}]
        /\ \A y \in Exchanges \ {x} : client'[y] = client[y]
    BY <1>6, <2>0 DEF LogResponse, ExchangeInv, ExchangeTypeOK
  <2>7. Told(x)'
    BY <1>6, <2>0, <2>3, <2>4, <2>5, <2>6, BeforeStep DEF LogResponse, Told, Back
  <2>8. AtHome(x)'
    BY <2>3, <2>4 DEF AtHome
  <2>9. /\ captured' \in Projects \cup {None} /\ late' \in BOOLEAN /\ CapturedHere'
        /\ upstream' \in [Exchanges -> Messages \cup {None}]
    BY <1>6 DEF LogResponse, ExchangeInv, ExchangeTypeOK, CapturedHere
  <2> QED
    BY <1>6, <2>0, <2>1, <2>2, <2>3, <2>5, <2>6, <2>7, <2>8, <2>9, ExchangeStep
    DEF LogResponse
<1> QED
  BY <1>1, <1>2, <1>3, <1>4, <1>5, <1>6

\* The open project changes, and the values are cleared with it.
LEMMA ProjectSteps ==
    ASSUME ExchangeAssumption, ExchangeInv,
           (\E p \in Projects \cup {None} : Switch(p)) \/ ClearVariables
    PROVE  ExchangeInv'
<1> USE DEF ExchangeInv
<1>1. /\ UNCHANGED <<ex, entry, upstream, client, late>>
      /\ overtaken' = [x \in Exchanges |-> overtaken[x] \/ Running(x)]
      /\ captured' \in {captured, None}
      /\ clearing' \in BOOLEAN
      /\ openProject' \in Projects \cup {None}
      /\ openProject' = openProject \/ clearing'
      /\ clearing' \/ captured' = None
  BY DEF Switch, ClearVariables, ExchangeTypeOK
<1>2. switches' \in 0 .. MaxSwitches
  BY DEF Switch, ClearVariables, ExchangeTypeOK, ExchangeAssumption
<1>3. overtaken' \in [Exchanges -> BOOLEAN]
  BY <1>1 DEF ExchangeTypeOK, Running
<1>4. ExchangeTypeOK'
  BY <1>1, <1>2, <1>3 DEF ExchangeTypeOK
<1>5. CapturedHere'
  BY <1>1 DEF CapturedHere
<1>6. ASSUME NEW x \in Exchanges PROVE Told(x)' /\ AtHome(x)'
  <2>1. ~overtaken'[x] => ~overtaken[x] /\ ex[x].at \in {"idle", "over"}
    BY <1>1, <1>3 DEF ExchangeTypeOK, Running
  <2> QED
    BY <1>1, <2>1 DEF Told, AtHome
<1> QED
  BY <1>4, <1>5, <1>6

\* What is known of the exchanges holds from the beginning on.
LEMMA ExchangesAreSound ==
    ASSUME ExchangeAssumption
    PROVE  ExchangeSpec => []ExchangeInv
<1>1. ExchangeInit => ExchangeInv
  <2> SUFFICES ASSUME ExchangeInit PROVE ExchangeInv
    OBVIOUS
  <2>1. New \in Exchanging /\ New.at = "idle"
    BY DEF New, Exchanging
  <2>2. ExchangeTypeOK
    <3>1. 0 \in 0 .. MaxSwitches
      BY DEF ExchangeAssumption
    <3>2. [req |-> None, res |-> None] \in [req : Messages \cup {None}, res : Messages \cup {None}]
      OBVIOUS
    <3>3. \A x \in Exchanges : ex[x].at = "idle"
      BY <2>1 DEF ExchangeInit
    <3> QED
      BY <2>1, <3>1, <3>2, <3>3 DEF ExchangeInit, ExchangeTypeOK
  <2>3. CapturedHere /\ \A x \in Exchanges : Told(x) /\ AtHome(x)
    BY DEF ExchangeInit, CapturedHere, Told, AtHome, New
  <2> QED
    BY <2>2, <2>3 DEF ExchangeInv
<1>2. ExchangeInv /\ [ExchangeNext]_exchangeVars => ExchangeInv'
  <2> SUFFICES ASSUME ExchangeInv, [ExchangeNext]_exchangeVars PROVE ExchangeInv'
    OBVIOUS
  <2>1. CASE (\E p \in Projects \cup {None} : Switch(p)) \/ ClearVariables
    BY <2>1, ProjectSteps
  <2>2. CASE \E x \in Exchanges :
                Begin(x) \/ Match(x) \/ ApplyToRequest(x) \/ ClientLeaves(x)
                  \/ InterceptRequest(x) \/ LogRequest(x)
    BY <2>2, RequestSteps
  <2>3. CASE \E x \in Exchanges :
                AnswerLocally(x) \/ Ask(x) \/ Capture(x) \/ ApplyToResponse(x)
                  \/ InterceptResponse(x) \/ LogResponse(x)
    BY <2>3, ResponseSteps
  <2>4. CASE UNCHANGED exchangeVars
    BY <2>4 DEF exchangeVars, ExchangeInv, ExchangeTypeOK, CapturedHere, Told, AtHome
  <2> QED
    BY <2>1, <2>2, <2>3, <2>4 DEF ExchangeNext
<1> QED
  BY <1>1, <1>2, PTL DEF ExchangeSpec

\* What the log has of an exchange is what went out and what the client got, for
\* any number of exchanges, rules and changes of the project.
THEOREM LogTellsTheTruth ==
    ASSUME ExchangeAssumption
    PROVE  ExchangeSpec => []LogIsWhatWasSent
<1>1. ExchangeInv => LogIsWhatWasSent
  BY DEF ExchangeInv, Told, LogIsWhatWasSent
<1> QED
  BY <1>1, ExchangesAreSound, PTL

\* A value captured in one project is not used in another, unless the exchange was
\* overtaken by a change of the project or a capture was.
THEOREM ValuesAreHome ==
    ASSUME ExchangeAssumption
    PROVE  ExchangeSpec => ValuesStayHome
<1> DEFINE Home == \A x \in Exchanges :
                      ex'[x].used # ex[x].used =>
                         ex'[x].used = ex[x].project \/ overtaken[x] \/ clearing \/ late
<1>1. ExchangeInv /\ [ExchangeNext]_exchangeVars => [Home]_exchangeVars
  <2> SUFFICES ASSUME ExchangeInv, ExchangeNext, NEW x \in Exchanges,
                      ex'[x].used # ex[x].used,
                      ~overtaken[x], ~clearing, ~late
               PROVE  ex'[x].used = ex[x].project
    OBVIOUS
  <2>1. ex \in [Exchanges -> Exchanging]
    BY DEF ExchangeInv, ExchangeTypeOK
  <2>2. ApplyToRequest(x)
    <3>1. ex' # ex
      OBVIOUS
    <3>2. PICK y \in Exchanges :
             \/ Begin(y) \/ Match(y) \/ ApplyToRequest(y) \/ ClientLeaves(y)
             \/ InterceptRequest(y) \/ LogRequest(y) \/ AnswerLocally(y) \/ Ask(y)
             \/ Capture(y) \/ ApplyToResponse(y) \/ InterceptResponse(y) \/ LogResponse(y)
      BY <3>1 DEF ExchangeNext, Switch, ClearVariables
    <3>3. ApplyToRequest(y)
      <4> SUFFICES ASSUME ~ApplyToRequest(y) PROVE FALSE
        OBVIOUS
      <4>1. ~Begin(y)
        <5>1. Begin(y) => \E m : ex' = [ex EXCEPT ![y].at = "match", ![y].req = m]
          BY DEF Begin
        <5> QED
          BY <2>1, <5>1 DEF Exchanging
      <4>9. ~Match(y)
        BY <2>1 DEF Match, Exchanging
      <4>2. ~ClientLeaves(y) /\ ~LogRequest(y)
        BY <2>1 DEF ClientLeaves, Fail, Moves, LogRequest, Exchanging
      <4>3. ~InterceptRequest(y)
        BY <2>1 DEF InterceptRequest, Fail, Moves, Exchanging
      <4>4. ~AnswerLocally(y)
        <5>1. AnswerLocally(y) => \E m : ex' = [ex EXCEPT ![y].at = "rulesBack", ![y].res = m]
          BY DEF AnswerLocally
        <5> QED
          BY <2>1, <5>1 DEF Exchanging
      <4>10. ~Capture(y)
        BY <2>1 DEF Capture, Exchanging
      <4>5. ~Ask(y)
        BY <2>1 DEF Ask, Fail, Exchanging
      <4>6. ~ApplyToResponse(y)
        BY <2>1 DEF ApplyToResponse, Fail, Moves, Exchanging
      <4>7. ~InterceptResponse(y)
        BY <2>1 DEF InterceptResponse, Fail, Moves, Exchanging
      <4>8. ~LogResponse(y)
        BY <2>1 DEF LogResponse, Exchanging
      <4> QED
        BY <3>2, <4>1, <4>2, <4>3, <4>4, <4>5, <4>6, <4>7, <4>8, <4>9, <4>10
    <3>4. y = x
      BY <2>1, <3>3 DEF ApplyToRequest
    <3> QED
      BY <3>3, <3>4
  <2>3. ex[x].at = "rules" /\ ex[x].used = None /\ ex[x].project = openProject
    BY <2>2 DEF ApplyToRequest, ExchangeInv, AtHome
  <2>4. captured \in {None, openProject}
    BY DEF ExchangeInv, CapturedHere
  <2>5. ex'[x].used \in {None, captured}
    BY <2>1, <2>2 DEF ApplyToRequest, Exchanging
  <2> QED
    BY <2>3, <2>4, <2>5
<1> QED
  BY <1>1, ExchangesAreSound, PTL DEF ExchangeSpec, ValuesStayHome

-----------------------------------------------------------------------------
(* The end of the program.                                                 *)

\* A call that was under way when the stop began has begun, is not cut, and needs
\* no more than is left of the window while it may use it; before the stop nothing
\* of the window is spent.  Who launched the browser is there to remove what it
\* left, until the program ends.
ServeInv ==
    /\ ServeTypeOK
    /\ \A c \in Calls : call[c].at = "works" => call[c].left >= 1
    /\ \A c \in early :
          /\ call[c].at \in {"works", "done"}
          /\ call[c].at = "works" => /\ phase \in {"console", "proxy"}
                                     /\ call[c].left <= Window - spent
    /\ phase \in {"start", "serving"} => early = {} /\ spent = 0
    /\ profile => launcher
    /\ phase = "exit" /\ profile => spent = Window \/ failed

\* A working call takes a step, and ends with its last.
LEMMA CallsPass ==
    ASSUME ServeAssumption, ServeInv, TimePasses, NEW c \in Calls
    PROVE  /\ call'[c] \in [at : {"none", "works", "done", "cut"}, left : 0 .. Window]
           /\ call[c].at # "works" => call'[c] = call[c]
           /\ call[c].at = "works" => /\ call'[c].at \in {"works", "done"}
                                      /\ call'[c].left = call[c].left - 1
           /\ call'[c].at = "works" => call'[c].left >= 1
<1>1. call[c] \in [at : {"none", "works", "done", "cut"}, left : 0 .. Window]
  BY DEF ServeInv, ServeTypeOK
<1>2. call'[c] = IF call[c].at # "works" THEN call[c]
                 ELSE [at |-> IF call[c].left = 1 THEN "done" ELSE "works",
                       left |-> call[c].left - 1]
  BY DEF TimePasses, Working
<1>3. CASE call[c].at # "works"
  BY <1>1, <1>2, <1>3
<1>4. CASE call[c].at = "works"
  <2>1. call[c].left \in 1 .. Window
    BY <1>1, <1>4 DEF ServeInv, ServeAssumption
  <2> QED
    BY <1>2, <1>4, <2>1 DEF ServeAssumption
<1> QED
  BY <1>3, <1>4

\* What cuts the calls that work leaves the others alone.
LEMMA CallsCut ==
    ASSUME ServeInv, NEW c \in Calls, call' = Cut
    PROVE  /\ call'[c] \in [at : {"none", "done", "cut"}, left : 0 .. Window]
           /\ call[c].at # "works" => call'[c] = call[c]
<1>1. call[c] \in [at : {"none", "works", "done", "cut"}, left : 0 .. Window]
  BY DEF ServeInv, ServeTypeOK
<1>2. call'[c] = IF call[c].at = "works" THEN [call[c] EXCEPT !.at = "cut"] ELSE call[c]
  BY DEF Cut, Working
<1> QED
  BY <1>1, <1>2

\* The program ends in order, for any number of calls and any window.
THEOREM StopsInOrder ==
    ASSUME ServeAssumption
    PROVE  ServeSpec => []StopIsOrderly
<1> USE DEF ServeInv, ServeTypeOK
<1>1. ServeInit => ServeInv
  <2> SUFFICES ASSUME ServeInit PROVE ServeInv
    OBVIOUS
  <2>1. /\ \A c \in Calls : call[c] = [at |-> "none", left |-> 0]
        /\ call \in [Calls -> [at : {"none", "works", "done", "cut"}, left : 0 .. Window]]
    BY DEF ServeInit, ServeAssumption
  <2>2. \A c \in Calls : call[c].at = "none"
    BY <2>1
  <2>3. server \in [Servers -> {"starting", "up", "down"}] /\ spent \in 0 .. Window
    BY DEF ServeInit, ServeAssumption
  <2> QED
    BY <2>1, <2>2, <2>3 DEF ServeInit
<1>2. ServeInv /\ [ServeNext]_serveVars => ServeInv'
  <2> SUFFICES ASSUME ServeInv, [ServeNext]_serveVars PROVE ServeInv'
    OBVIOUS
  <2>1. ASSUME NEW s \in Servers, Listen(s) \/ ServerFails(s) PROVE ServeInv'
    <3>1. CASE Listen(s)
      BY <2>1, <3>1 DEF Listen
    <3>2. CASE ServerFails(s)
      BY <2>1, <3>2 DEF ServerFails
    <3> QED
      BY <2>1, <3>1, <3>2
  <2>2. CASE Launch \/ NoBrowser \/ BrowserExits \/ RemoveProfile
    <3>1. CASE Launch
      BY <3>1 DEF Launch
    <3>2. CASE NoBrowser
      BY <3>2 DEF NoBrowser
    <3>3. CASE BrowserExits
      BY <3>3 DEF BrowserExits
    <3>4. CASE RemoveProfile
      BY <3>4 DEF RemoveProfile, Up
    <3> QED
      BY <2>2, <3>1, <3>2, <3>3, <3>4
  <2>3. ASSUME NEW t \in Streams, OpenStream(t) \/ CloseStream(t) PROVE ServeInv'
    BY <2>3 DEF OpenStream, CloseStream
  <2>4. ASSUME NEW c \in Calls, NEW n \in 1 .. Window, BeginCall(c, n) PROVE ServeInv'
    BY <2>4 DEF BeginCall, ServeAssumption
  <2>5. CASE TimePasses
    <3>1. /\ UNCHANGED <<phase, server, failed, streams, early, browser, profile, launcher>>
          /\ \/ phase = "serving" /\ spent' = spent
             \/ /\ phase \in {"console", "proxy", "browser"}
                /\ spent < Window /\ spent' = spent + 1
      BY <2>5 DEF TimePasses, Waits
    <3>2. call' \in [Calls -> [at : {"none", "works", "done", "cut"}, left : 0 .. Window]]
      BY <2>5, CallsPass DEF TimePasses
    <3>3. spent' \in 0 .. Window
      BY <3>1 DEF ServeAssumption
    <3>4. \A c \in early : /\ call'[c].at \in {"works", "done"}
                            /\ call'[c].at = "works" => /\ phase' \in {"console", "proxy"}
                                                        /\ call'[c].left <= Window - spent'
      <4> SUFFICES ASSUME NEW c \in early
                   PROVE  /\ call'[c].at \in {"works", "done"}
                          /\ call'[c].at = "works" => /\ phase' \in {"console", "proxy"}
                                                      /\ call'[c].left <= Window - spent'
        OBVIOUS
      <4> QED
        BY <2>5, <3>1, <3>2, CallsPass DEF ServeAssumption
    <3> QED
      BY <2>5, <3>1, <3>2, <3>3, <3>4, CallsPass
  <2>6. CASE Signal
    BY <2>6 DEF Signal, Working, ServeAssumption
  <2>7. CASE ConsoleStops
    BY <2>7 DEF ConsoleStops
  <2>8. CASE ProxyStops
    <3>1. \A c \in early : call[c].at # "works"
      BY <2>8 DEF ProxyStops, Working, ServeAssumption
    <3>2. call' \in [Calls -> [at : {"none", "works", "done", "cut"}, left : 0 .. Window]]
      BY <2>8, CallsCut DEF ProxyStops, Cut
    <3> QED
      BY <2>8, <3>1, <3>2, CallsCut DEF ProxyStops
  <2>9. CASE Exits
    BY <2>9 DEF Exits
  <2>10. CASE ExitsFailed
    <3>1. call' \in [Calls -> [at : {"none", "works", "done", "cut"}, left : 0 .. Window]]
      BY <2>10, CallsCut DEF ExitsFailed, Cut
    <3> QED
      BY <2>10, <3>1, CallsCut DEF ExitsFailed
  <2>11. CASE UNCHANGED serveVars
    BY <2>11 DEF serveVars
  <2> QED
    BY <2>1, <2>2, <2>3, <2>4, <2>5, <2>6, <2>7, <2>8, <2>9, <2>10, <2>11 DEF ServeNext
<1>3. ServeInv => StopIsOrderly
  BY DEF StopIsOrderly
<1> QED
  BY <1>1, <1>2, <1>3, PTL DEF ServeSpec
-----------------------------------------------------------------------------
(* Certificates.                                                           *)

\* The root that is being written, runs or is trusted is the one in the file,
\* and what handshakes are answered with is of the root that runs.
RootsAgree ==
    /\ boot.at = "writeCert" => certFile = None /\ keyFile = None
    /\ boot.at = "certOpen" => certFile = 0
    /\ boot.at \in {"writeKey", "keyOpen", "ready"} => certFile = boot.root
    /\ root # None => root = certFile /\ boot.at = "off"
    /\ trusted # None /\ ~tampered => trusted = certFile
    /\ \A c \in Handshakes : shake[c].at # "idle" => shake[c].leaf.root = root
    /\ root # None => \A h \in Hosts : cached[h] # None => cached[h].root = root

\* CacheIsOrdered, also while the program does not run.
OrderIsOfCache ==
    /\ ToSet(order) = {h \in Hosts : cached[h] # None}
    /\ IsInjective(order)
    /\ Len(order) <= MaxCached

CertificatesInv == CertificatesTypeOK /\ RootsAgree /\ OrderIsOfCache

\* The start, the two files, and what people do with them.
LEMMA RootSteps ==
    ASSUME CertificatesAssumption, CertificatesInv,
           LoadCA \/ MintCA \/ BeginFile \/ EndFile \/ NewAuthority \/ Stop \/ Install \/ TakeAway
    PROVE  CertificatesInv'
<1> USE DEF CertificatesInv, CertificatesTypeOK, RootsAgree, CertificatesAssumption
<1>0. UNCHANGED <<cached, order>> => OrderIsOfCache'
  BY DEF OrderIsOfCache
<1>1. CASE LoadCA
  BY <1>0, <1>1 DEF LoadCA, Stopped, NotBooting
<1>2. CASE MintCA
  BY <1>0, <1>2 DEF MintCA, Stopped, NotBooting
<1>3. CASE BeginFile
  BY <1>0, <1>3 DEF BeginFile, NotBooting
<1>4. CASE EndFile
  BY <1>0, <1>4 DEF EndFile, NotBooting
<1>5. CASE NewAuthority
  <2>1. OrderIsOfCache'
    BY <1>5 DEF NewAuthority, OrderIsOfCache, ToSet, IsInjective
  <2>2. root = None
    BY <1>5 DEF NewAuthority
  <2>3. \A c \in Handshakes : shake[c].at = "idle"
    BY <2>2 DEF Shaking, Leaves
  <2>4. cached' = [h \in Hosts |-> None] /\ cached' \in [Hosts -> {None} \cup Leaves]
    BY <1>5 DEF NewAuthority
  <2>5. boot.root \in 1 .. MaxRoots
    BY <1>5 DEF NewAuthority, NotBooting
  <2> QED
    BY <1>5, <2>1, <2>3, <2>4, <2>5 DEF NewAuthority, NotBooting
<1>6. CASE Stop
  BY <1>0, <1>6 DEF Stop, NotBooting, Calm, Shaking
<1>7. CASE Install
  BY <1>0, <1>7 DEF Install, NotBooting
<1>8. CASE TakeAway
  BY <1>0, <1>8 DEF TakeAway, Stopped, NotBooting
<1> QED
  BY <1>1, <1>2, <1>3, <1>4, <1>5, <1>6, <1>7, <1>8

\* An element that moves to the front leaves the same elements in the list.
LEMMA MovedToFront ==
    ASSUME NEW S, NEW list \in Seq(S), NEW at \in 1 .. Len(list)
    PROVE  /\ MoveToFront(list, at) \in Seq(S)
           /\ Len(MoveToFront(list, at)) = Len(list)
           /\ ToSet(MoveToFront(list, at)) = ToSet(list)
           /\ IsInjective(list) => IsInjective(MoveToFront(list, at))
<1> DEFINE new == MoveToFront(list, at)
           n == Len(list)
<1>1. /\ n \in Nat /\ DOMAIN list = 1 .. n
      /\ \A i \in 1 .. n : list[i] \in S
  OBVIOUS
<1>2. /\ DOMAIN new = 1 .. n
      /\ \A i \in 1 .. n : new[i] = IF i = 1 THEN list[at]
                                    ELSE IF i <= at THEN list[i - 1] ELSE list[i]
  BY DEF MoveToFront
<1>3. new \in [1 .. n -> S]
  BY <1>1, <1>2 DEF MoveToFront
<1>4. new \in Seq(S) /\ Len(new) = n
  BY <1>1, <1>3
<1> HIDE DEF new, n
<1>5. ToSet(new) = ToSet(list)
  <2>0. ToSet(new) = {new[i] : i \in 1 .. n} /\ ToSet(list) = {list[i] : i \in 1 .. n}
    BY <1>1, <1>2 DEF ToSet
  <2>1. ASSUME NEW i \in 1 .. n PROVE \E j \in 1 .. n : new[i] = list[j]
    <3>1. CASE i = 1
      BY <1>2, <3>1 DEF n
    <3>2. CASE i # 1 /\ i <= at
      BY <1>1, <1>2, <3>2
    <3>3. CASE i # 1 /\ i > at
      BY <1>1, <1>2, <3>3
    <3> QED
      BY <1>1, <3>1, <3>2, <3>3
  <2>2. ASSUME NEW i \in 1 .. n PROVE \E j \in 1 .. n : new[j] = list[i]
    <3>1. CASE i = at
      BY <1>1, <1>2, <3>1
    <3>2. CASE i < at
      <4>1. i + 1 \in 1 .. n /\ i + 1 # 1 /\ i + 1 <= at /\ (i + 1) - 1 = i
        BY <1>1, <3>2 DEF n
      <4> QED
        BY <1>2, <4>1
    <3>3. CASE i > at
      BY <1>1, <1>2, <3>3
    <3> QED
      BY <1>1, <3>1, <3>2, <3>3
  <2>3. \A i \in 1 .. n : new[i] \in ToSet(list) /\ list[i] \in ToSet(new)
    BY <2>0, <2>1, <2>2
  <2> QED
    BY <2>0, <2>3
<1>6. ASSUME IsInjective(list) PROVE IsInjective(new)
  <2> SUFFICES ASSUME NEW i \in 1 .. n, NEW j \in 1 .. n, new[i] = new[j] PROVE i = j
    BY <1>2 DEF IsInjective
  <2> DEFINE From(k) == IF k = 1 THEN at ELSE IF k <= at THEN k - 1 ELSE k
  <2>1. \A k \in 1 .. n : From(k) \in 1 .. n /\ new[k] = list[From(k)]
    BY <1>1, <1>2 DEF n
  <2> HIDE DEF From
  <2>2. list[From(i)] = list[From(j)] /\ From(i) \in 1 .. n /\ From(j) \in 1 .. n
    BY <2>1
  <2>3. From(i) = From(j)
    BY <1>1, <1>6, <2>2 DEF IsInjective
  <2> QED
    BY <1>1, <2>3 DEF From
<1> QED
  BY <1>4, <1>5, <1>6 DEF new, n

\* A host that is shown is at the front, and the others stay where they are.
LEMMA ShownToFront ==
    ASSUME CertificatesAssumption, CertificatesInv, NEW h \in Hosts
    PROVE  /\ ToFront(h) \in Seq(Hosts)
           /\ Len(ToFront(h)) = IF cached[h] = None THEN Len(order) + 1 ELSE Len(order)
           /\ ToSet(ToFront(h)) = ToSet(order) \cup {h}
           /\ IsInjective(ToFront(h))
           /\ ToFront(h)[1] = h
<1>0. /\ order \in Seq(Hosts) /\ IsInjective(order)
      /\ DOMAIN order = 1 .. Len(order) /\ Len(order) \in Nat
      /\ ToSet(order) = {order[i] : i \in 1 .. Len(order)}
      /\ h \in ToSet(order) <=> cached[h] # None
  BY DEF CertificatesInv, CertificatesTypeOK, OrderIsOfCache, ToSet
<1>1. CASE cached[h] # None
  <2> DEFINE at == CHOOSE n \in 1 .. Len(order) : order[n] = h
  <2>1. at \in 1 .. Len(order) /\ order[at] = h
    BY <1>0, <1>1
  <2>2. ToFront(h) = MoveToFront(order, at)
    BY <1>1 DEF ToFront
  <2> HIDE DEF at
  <2>3. MoveToFront(order, at)[1] = h
    BY <1>0, <2>1 DEF MoveToFront
  <2> QED
    BY <1>0, <1>1, <2>1, <2>2, <2>3, MovedToFront
<1>2. CASE cached[h] = None
  <2> DEFINE new == <<h>> \o order
  <2>1. ToFront(h) = new
    BY <1>2 DEF ToFront
  <2>2. <<h>> \in Seq(Hosts) /\ Len(<<h>>) = 1 /\ <<h>>[1] = h
    OBVIOUS
  <2>3. /\ new \in Seq(Hosts) /\ Len(new) = Len(order) + 1
        /\ \A i \in 1 .. Len(order) + 1 : new[i] = IF i <= 1 THEN <<h>>[i] ELSE order[i - 1]
    BY <1>0, <2>2, ConcatProperties
  <2> HIDE DEF new
  <2>4. /\ DOMAIN new = 1 .. Len(order) + 1
        /\ new[1] = h
        /\ \A i \in 1 .. Len(order) : new[i + 1] = order[i]
        /\ \A i \in 1 .. Len(order) + 1 : i = 1 \/ (i - 1 \in 1 .. Len(order) /\ new[i] = order[i - 1])
    BY <1>0, <2>2, <2>3
  <2>5. ToSet(new) = ToSet(order) \cup {h}
    <3>1. ToSet(new) \subseteq ToSet(order) \cup {h}
      BY <1>0, <2>4 DEF ToSet
    <3>2. h \in ToSet(new)
      BY <1>0, <2>4 DEF ToSet
    <3>3. ASSUME NEW i \in 1 .. Len(order) PROVE order[i] \in ToSet(new)
      <4>1. i + 1 \in DOMAIN new
        BY <1>0, <2>4
      <4> QED
        BY <2>4, <4>1 DEF ToSet
    <3> QED
      BY <1>0, <3>1, <3>2, <3>3
  <2>6. IsInjective(new)
    <3> SUFFICES ASSUME NEW i \in 1 .. Len(order) + 1, NEW j \in 1 .. Len(order) + 1,
                        new[i] = new[j]
                 PROVE  i = j
      BY <2>4 DEF IsInjective
    <3>1. \A k \in 1 .. Len(order) : order[k] # h
      BY <1>0, <1>2
    <3>2. CASE i = 1 \/ j = 1
      BY <2>4, <3>1, <3>2
    <3>3. CASE i # 1 /\ j # 1
      <4>1. /\ i - 1 \in 1 .. Len(order) /\ j - 1 \in 1 .. Len(order)
            /\ order[i - 1] = order[j - 1]
        BY <2>4, <3>3
      <4>2. i - 1 = j - 1
        BY <1>0, <4>1 DEF IsInjective
      <4> QED
        BY <1>0, <4>2
    <3> QED
      BY <3>2, <3>3
  <2> QED
    BY <1>2, <2>1, <2>3, <2>4, <2>5, <2>6
<1> QED
  BY <1>1, <1>2

\* The last element leaves a list.
LEMMA LastLeaves ==
    ASSUME NEW S, NEW list \in Seq(S), Len(list) > 0, IsInjective(list)
    PROVE  /\ Front(list) \in Seq(S)
           /\ Len(Front(list)) = Len(list) - 1
           /\ ToSet(Front(list)) = ToSet(list) \ {Last(list)}
           /\ IsInjective(Front(list))
           /\ Last(list) \in ToSet(list)
<1> DEFINE n == Len(list)
           new == Front(list)
<1>1. n \in Nat /\ DOMAIN list = 1 .. n /\ n > 0 /\ \A i \in 1 .. n : list[i] \in S
  OBVIOUS
<1>2. /\ new \in Seq(S) /\ Len(new) = n - 1
      /\ \A i \in 1 .. n - 1 : new[i] = list[i]
  <2>1. /\ SubSeq(list, 1, n - 1) \in Seq(S)
        /\ Len(SubSeq(list, 1, n - 1)) = IF 1 <= n - 1 THEN (n - 1) - 1 + 1 ELSE 0
        /\ \A i \in 1 .. (n - 1) - 1 + 1 : SubSeq(list, 1, n - 1)[i] = list[1 + i - 1]
    BY <1>1, SubSeqProperties
  <2> QED
    BY <1>1, <2>1 DEF Front
<1>3. Last(list) = list[n]
  BY DEF Last
<1> HIDE DEF new, n
<1>4. DOMAIN new = 1 .. n - 1
  BY <1>1, <1>2
<1>5. IsInjective(new)
  BY <1>1, <1>2, <1>4 DEF IsInjective
<1>6. ToSet(new) = ToSet(list) \ {list[n]}
  <2>1. ASSUME NEW i \in 1 .. n - 1 PROVE new[i] \in ToSet(list) \ {list[n]}
    BY <1>1, <1>2 DEF ToSet, IsInjective
  <2>2. ASSUME NEW i \in 1 .. n, list[i] # list[n] PROVE list[i] \in ToSet(new)
    <3>1. i \in 1 .. n - 1
      BY <1>1, <2>2
    <3> QED
      BY <1>2, <1>4, <3>1 DEF ToSet
  <2> QED
    BY <1>1, <1>4, <2>1, <2>2 DEF ToSet
<1>7. list[n] \in ToSet(list)
  BY <1>1 DEF ToSet
<1> QED
  BY <1>2, <1>3, <1>5, <1>6, <1>7 DEF new, n
\* A host that has a leaf is in the cache.
LEMMA LeafIsThere ==
    ASSUME CertificatesAssumption
    PROVE  None \notin Leaves
<1> SUFFICES ASSUME None \in Leaves PROVE None \in [root : Nat, live : BOOLEAN]
  BY DEF CertificatesAssumption
<1> QED
  BY DEF Leaves, CertificatesAssumption

\* A leaf expires where it is.
LEMMA ExpireStep ==
    ASSUME CertificatesAssumption, CertificatesInv, NEW h \in Hosts, Expire(h)
    PROVE  CertificatesInv'
<1> USE DEF CertificatesInv, CertificatesTypeOK, RootsAgree, CertificatesAssumption
<1> DEFINE leaf == [cached[h] EXCEPT !.live = FALSE]
<1>1. leaf \in Leaves /\ leaf.root = cached[h].root
  BY DEF Expire, Leaves
<1>2. leaf # None
  BY <1>1, LeafIsThere
<1>3. cached' = [cached EXCEPT ![h] = leaf]
  BY DEF Expire
<1> HIDE DEF leaf
<1>4. \A g \in Hosts : cached'[g] = IF g = h THEN leaf ELSE cached[g]
  BY <1>3
<1>5. OrderIsOfCache'
  BY <1>2, <1>4 DEF Expire, OrderIsOfCache
<1> QED
  BY <1>1, <1>3, <1>4, <1>5 DEF Expire

\* A handshake looks at the cache.
LEMMA LookSteps ==
    ASSUME CertificatesAssumption, CertificatesInv, NEW c \in Handshakes,
           (\E h \in Hosts : LookUpLeaf(c, h)) \/ Served(c)
    PROVE  CertificatesInv'
<1> USE DEF CertificatesInv, CertificatesTypeOK, RootsAgree, CertificatesAssumption
<1>0. ToSet(order) = {g \in Hosts : cached[g] # None}
  BY DEF OrderIsOfCache
<1>2. ASSUME NEW h \in Hosts, LookUpLeaf(c, h) PROVE CertificatesInv'
  <2>1. root \in 1 .. MaxRoots
    BY <1>2 DEF LookUpLeaf
  <2>2. CASE cached[h] # None /\ cached[h].live
    <3> DEFINE m == [at |-> "served", host |-> h, leaf |-> cached[h]]
    <3>1. m \in Shaking /\ m.leaf.root = root
      BY <1>2, <2>2 DEF LookUpLeaf, Shaking
    <3>2. shake' = [shake EXCEPT ![c] = m] /\ order' = ToFront(h)
      BY <1>2, <2>2 DEF LookUpLeaf
    <3> HIDE DEF m
    <3>3. order' \in Seq(Hosts) /\ OrderIsOfCache'
      BY <1>0, <1>2, <2>2, <3>2, ShownToFront DEF LookUpLeaf, OrderIsOfCache
    <3> QED
      BY <1>2, <3>1, <3>2, <3>3 DEF LookUpLeaf
  <2>3. CASE ~(cached[h] # None /\ cached[h].live)
    <3> DEFINE m == [at |-> "mint", host |-> h, leaf |-> Leaf(root)]
    <3>1. m \in Shaking /\ m.leaf.root = root
      BY <2>1 DEF Shaking, Leaf, Leaves
    <3>2. shake' = [shake EXCEPT ![c] = m] /\ order' = order
      BY <1>2, <2>3 DEF LookUpLeaf
    <3> HIDE DEF m
    <3>3. OrderIsOfCache'
      BY <1>2, <3>2 DEF LookUpLeaf, OrderIsOfCache
    <3> QED
      BY <1>2, <3>1, <3>2, <3>3 DEF LookUpLeaf
  <2> QED
    BY <2>2, <2>3
<1>3. CASE Served(c)
  <2>1. OrderIsOfCache'
    BY <1>3 DEF Served, OrderIsOfCache
  <2> QED
    BY <1>3, <2>1 DEF Served, Calm, Shaking
<1> QED
  BY <1>2, <1>3

\* What the cache is after a leaf has been stored.
LEMMA CacheAfter ==
    ASSUME CertificatesAssumption, CertificatesInv, NEW c \in Handshakes, StoreLeaf(c),
           ~(cached[shake[c].host] # None /\ cached[shake[c].host].live)
    PROVE  /\ OrderIsOfCache' /\ order' \in Seq(Hosts)
           /\ cached' \in [Hosts -> {None} \cup Leaves]
           /\ \A g \in Hosts : cached'[g] \in {None, shake[c].leaf, cached[g]}
<1> USE DEF CertificatesInv, CertificatesTypeOK, CertificatesAssumption
<1> DEFINE h == shake[c].host
           leaf == shake[c].leaf
           inFront == ToFront(h)
           out == IF Len(inFront) > MaxCached THEN Last(inFront) ELSE None
<1>1. h \in Hosts /\ leaf \in Leaves
  BY DEF StoreLeaf, Shaking
<1>2. leaf # None
  BY <1>1, LeafIsThere
<1>3. /\ order' = IF out = None THEN inFront ELSE Front(inFront)
      /\ cached' = [g \in Hosts |-> IF g = out THEN None ELSE IF g = h THEN leaf ELSE cached[g]]
  BY DEF StoreLeaf
<1>4. /\ inFront \in Seq(Hosts) /\ IsInjective(inFront) /\ Len(inFront) \in Nat
      /\ ToSet(inFront) = ToSet(order) \cup {h}
      /\ Len(inFront) = IF cached[h] = None THEN Len(order) + 1 ELSE Len(order)
      /\ DOMAIN inFront = 1 .. Len(inFront)
  BY <1>1, ShownToFront
<1>5. Len(order) \in Nat /\ Len(order) <= MaxCached
  BY DEF OrderIsOfCache
<1>6. ToSet(order) = {g \in Hosts : cached[g] # None}
  BY DEF OrderIsOfCache
<1>7. inFront[1] = h
  BY <1>1, ShownToFront
<1> HIDE DEF inFront, leaf, h
<1>8. CASE out = None
  <2>1. Len(inFront) <= MaxCached
    <3> SUFFICES ASSUME Len(inFront) > MaxCached PROVE FALSE
      BY <1>4
    <3>1. Len(inFront) > 0
      BY <1>4
    <3>2. Last(inFront) \in Hosts
      BY <1>4, <3>1 DEF Last
    <3> QED
      BY <1>8, <3>2
  <2>2. out \notin Hosts
    BY <1>8
  <2> HIDE DEF out
  <2>3. \A g \in Hosts : cached'[g] = IF g = h THEN leaf ELSE cached[g]
    BY <1>3, <2>2
  <2>4. ToSet(inFront) = {g \in Hosts : cached'[g] # None}
    BY <1>1, <1>2, <1>4, <1>6, <2>3
  <2> QED
    BY <1>1, <1>3, <1>4, <1>8, <2>1, <2>3, <2>4 DEF OrderIsOfCache, leaf
<1>9. CASE out # None
  <2>1. out = Last(inFront) /\ Len(inFront) > MaxCached
    BY <1>9
  <2>2. Len(inFront) = MaxCached + 1 /\ Len(inFront) > 1
    BY <1>4, <1>5, <2>1
  <2>3. /\ Front(inFront) \in Seq(Hosts)
        /\ Len(Front(inFront)) = MaxCached
        /\ ToSet(Front(inFront)) = ToSet(inFront) \ {out}
        /\ IsInjective(Front(inFront))
        /\ out \in ToSet(inFront)
    BY <1>4, <2>1, <2>2, LastLeaves
  <2>4. out # h
    <3>1. inFront[Len(inFront)] = out
      BY <2>1 DEF Last
    <3>2. 1 \in DOMAIN inFront /\ Len(inFront) \in DOMAIN inFront /\ Len(inFront) # 1
      <4>1. Len(inFront) \in Nat /\ DOMAIN inFront = 1 .. Len(inFront)
        BY <1>4
      <4> QED
        BY ONLY <2>2, <4>1
    <3>3. inFront[1] # inFront[Len(inFront)]
      <4>1. IsInjective(inFront)
        BY <1>4
      <4> QED
        BY ONLY <3>2, <4>1 DEF IsInjective
    <3> QED
      BY <1>7, <3>1, <3>3
  <2> HIDE DEF out
  <2>5. \A g \in Hosts : cached'[g] = IF g = out THEN None
                                      ELSE IF g = h THEN leaf ELSE cached[g]
    BY <1>3
  <2>6. ToSet(Front(inFront)) = {g \in Hosts : cached'[g] # None}
    BY <1>1, <1>2, <1>4, <1>6, <2>3, <2>4, <2>5
  <2>7. order' = Front(inFront)
    BY <1>3, <1>9
  <2>8. OrderIsOfCache'
    BY <2>3, <2>6, <2>7 DEF OrderIsOfCache
  <2>9. cached' \in [Hosts -> {None} \cup Leaves]
    BY <1>1, <1>3
  <2> QED
    BY <2>3, <2>5, <2>7, <2>8, <2>9 DEF leaf
<1> QED
  BY <1>8, <1>9

\* A minted leaf is stored, or the one found there is shown.
LEMMA StoreStep ==
    ASSUME CertificatesAssumption, CertificatesInv, NEW c \in Handshakes, StoreLeaf(c)
    PROVE  CertificatesInv'
<1> DEFINE h == shake[c].host
<1>4. ASSUME ~(cached[h] # None /\ cached[h].live)
      PROVE  /\ OrderIsOfCache' /\ order' \in Seq(Hosts)
             /\ cached' \in [Hosts -> {None} \cup Leaves]
             /\ \A g \in Hosts : cached'[g] \in {None, shake[c].leaf, cached[g]}
  BY <1>4, CacheAfter
<1> USE DEF CertificatesInv, CertificatesTypeOK, RootsAgree, CertificatesAssumption
<1>5. shake[c] \in [at : {"mint", "served"}, host : Hosts, leaf : Leaves]
  BY DEF StoreLeaf, Shaking
<1>0. h \in Hosts /\ shake[c].leaf \in Leaves /\ shake[c].leaf.root = root
  BY DEF StoreLeaf, Shaking
<1>1. root \in 1 .. MaxRoots
  BY <1>0 DEF Leaves
<1>2. CASE cached[h] # None /\ cached[h].live
  <2> DEFINE m == [shake[c] EXCEPT !.at = "served", !.leaf = cached[h]]
  <2>0. cached[h] \in Leaves /\ cached[h].root = root
    BY <1>0, <1>1, <1>2
  <2>1. m \in Shaking /\ m.leaf.root = root
    BY <2>0, <1>5 DEF Shaking
  <2>2. shake' = [shake EXCEPT ![c] = m] /\ order' = ToFront(h) /\ cached' = cached
    BY <1>2 DEF StoreLeaf
  <2> HIDE DEF m
  <2>3. ToSet(order) = {g \in Hosts : cached[g] # None}
    BY DEF OrderIsOfCache
  <2>4. order' \in Seq(Hosts) /\ OrderIsOfCache'
    BY <1>0, <1>2, <2>2, <2>3, ShownToFront DEF OrderIsOfCache
  <2> QED
    BY <2>1, <2>2, <2>4 DEF StoreLeaf
<1>3. CASE ~(cached[h] # None /\ cached[h].live)
  <2> DEFINE m == [shake[c] EXCEPT !.at = "served"]
  <2>1. m \in Shaking /\ m.leaf.root = root
    BY <1>0, <1>5 DEF Shaking
  <2>2. shake' = [shake EXCEPT ![c] = m]
    BY <1>3 DEF StoreLeaf
  <2> HIDE DEF m
  <2> QED
    BY <1>0, <1>3, <1>4, <2>1, <2>2 DEF StoreLeaf
<1> QED
  BY <1>2, <1>3

\* What is known of the root and the cache holds from the beginning on.
LEMMA CertificatesAreSound ==
    ASSUME CertificatesAssumption
    PROVE  CertificatesSpec => []CertificatesInv
<1>1. CertificatesInit => CertificatesInv
  <2> SUFFICES ASSUME CertificatesInit PROVE CertificatesInv
    OBVIOUS
  <2>1. Calm \in Shaking /\ Calm.at = "idle"
    BY DEF Calm, Shaking
  <2>2. CertificatesTypeOK
    <3>1. 0 \in 0 .. MaxRoots /\ <<>> \in Seq(Hosts)
      BY DEF CertificatesAssumption
    <3>2. cached \in [Hosts -> {None} \cup Leaves] /\ shake \in [Handshakes -> Shaking]
      BY <2>1 DEF CertificatesInit
    <3> QED
      BY <3>1, <3>2 DEF CertificatesInit, CertificatesTypeOK
  <2>3. RootsAgree
    BY <2>1 DEF CertificatesInit, RootsAgree, NotBooting
  <2>4. OrderIsOfCache
    BY DEF CertificatesInit, OrderIsOfCache, CertificatesAssumption, ToSet, IsInjective
  <2> QED
    BY <2>2, <2>3, <2>4 DEF CertificatesInv
<1>2. CertificatesInv /\ [CertificatesNext]_certVars => CertificatesInv'
  <2> SUFFICES ASSUME CertificatesInv, [CertificatesNext]_certVars PROVE CertificatesInv'
    OBVIOUS
  <2>1. CASE LoadCA \/ MintCA \/ BeginFile \/ EndFile \/ NewAuthority \/ Stop
               \/ Install \/ TakeAway
    BY <2>1, RootSteps
  <2>2. CASE \E g \in Hosts : Expire(g)
    BY <2>2, ExpireStep
  <2>3. CASE \E c \in Handshakes : (\E g \in Hosts : LookUpLeaf(c, g)) \/ Served(c)
    BY <2>3, LookSteps
  <2>4. CASE \E c \in Handshakes : StoreLeaf(c)
    BY <2>4, StoreStep
  <2>5. CASE UNCHANGED certVars
    BY <2>5 DEF certVars, CertificatesInv, CertificatesTypeOK, RootsAgree, OrderIsOfCache
  <2> QED
    BY <2>1, <2>2, <2>3, <2>4, <2>5 DEF CertificatesNext
<1> QED
  BY <1>1, <1>2, PTL DEF CertificatesSpec

\* Whatever start or stop was cut short, a client that trusts the root is shown
\* leaves of it, and the cache and its order are of the same hosts: for any
\* number of hosts, handshakes and roots, and any size of the cache.
THEOREM LeavesStaySound ==
    ASSUME CertificatesAssumption
    PROVE  CertificatesSpec => []LeavesAreSound
<1>1. CertificatesInv => TrustIsKept
  BY DEF CertificatesInv, CertificatesTypeOK, RootsAgree, TrustIsKept, Shaking, Leaves,
         CertificatesAssumption
<1>2. CertificatesInv => CacheIsOrdered
  BY DEF CertificatesInv, OrderIsOfCache, CacheIsOrdered
<1>3. CertificatesInv => LeavesAreSound
  BY <1>1, <1>2 DEF LeavesAreSound
<1> QED
  BY <1>3, CertificatesAreSound, PTL
-----------------------------------------------------------------------------
(* Tunnels.                                                                *)

Wires == [sent : [Sides -> 0 .. MaxPieces], lost : 0 .. MaxPieces,
          gone : SUBSET Sides, open : SUBSET Sides]

Places == {"idle", "dial", "ask", "greet", "stand", "relay", "relayed",
           "greetServed", "peek", "served", "upgraded", "over"}

\* A tunnel has no entry before it is relayed, one that is open while it is, in the
\* project that is remembered, and nothing open when it is over.
Accounted(t) ==
    /\ tun[t] \notin {"relay", "relayed", "over"} =>
          logged[t] = None /\ \A p \in LogProjects : kept[<<p, t>>] = None
    /\ tun[t] \in {"relay", "relayed"} =>
          \A p \in LogProjects : kept[<<p, t>>] # None =>
                                    p = logged[t] /\ kept[<<p, t>>] = Pending
    /\ \A s \in Sides : copies[t][s].at = "done" => wire[t].open = {}
                                                  /\ tun[t] \in {"relay", "relayed", "over"}
    /\ tun[t] = "relayed" => wire[t].open = {}
    /\ tun[t] = "over" =>
          /\ wire[t].open = {}
          /\ logged[t] = None
          /\ \A p \in LogProjects : kept[<<p, t>>] \in {None, Figures(t)}

TunnelsInv == TunnelsTypeOK /\ \A t \in Tunnels : Accounted(t)

\* A step of one tunnel before it is relayed, or of its wires while it is.
LEMMA WireStep ==
    ASSUME TunnelsInv, NEW t \in Tunnels, NEW w \in Wires,
           wire' = [wire EXCEPT ![t] = w],
           UNCHANGED <<copies, logged, kept, project>>,
           tun' \in [Tunnels -> Places],
           \A u \in Tunnels \ {t} : tun'[u] = tun[u],
           w.open = {} \/ tun[t] \in {"idle", "dial"} \/ w.open = wire[t].open,
           \/ tun'[t] = tun[t]
           \/ tun[t] \notin {"relay", "relayed", "over"}
              /\ tun'[t] \notin {"relay", "relayed"}
              /\ (tun'[t] = "over" => w.open = {})
    PROVE  TunnelsInv'
<1> USE DEF TunnelsInv, TunnelsTypeOK
<1>1. wire'[t] = w /\ \A u \in Tunnels \ {t} : wire'[u] = wire[u]
  OBVIOUS
<1>2. TunnelsTypeOK'
  BY DEF Wires, Places
<1>3. ASSUME NEW u \in Tunnels PROVE Accounted(u)'
  <2>1. Figures(u)' = Figures(u)
    BY DEF Figures
  <2>2. CASE u # t
    BY <1>1, <2>1, <2>2 DEF Accounted
  <2>3. CASE u = t
    BY <1>1, <2>1, <2>3 DEF Accounted
  <2> QED
    BY <2>2, <2>3
<1> QED
  BY <1>2, <1>3
\* The goroutine of a CONNECT goes on.
LEMMA AtStep ==
    ASSUME TunnelsInv, NEW t \in Tunnels, NEW from, NEW to \in Places, At(t, from, to)
    PROVE  /\ tun' \in [Tunnels -> Places]
           /\ \A u \in Tunnels \ {t} : tun'[u] = tun[u]
           /\ tun[t] = from /\ tun'[t] = to
BY DEF TunnelsInv, TunnelsTypeOK, At, Places

\* What becomes of the connections of a tunnel.
LEMMA WiresAre ==
    ASSUME TunnelsInv, NEW t \in Tunnels
    PROVE  /\ wire[t] \in Wires
           /\ wire' = wire => wire' = [wire EXCEPT ![t] = wire[t]]
           /\ \A side \in Sides :
                 /\ Opened(t, side) => wire' = [wire EXCEPT ![t] = [wire[t] EXCEPT !.open = @ \cup {side}]]
                 /\ [wire[t] EXCEPT !.open = @ \cup {side}] \in Wires
           /\ Hung(t) => wire' = [wire EXCEPT ![t] = [wire[t] EXCEPT !.open = {}]]
           /\ [wire[t] EXCEPT !.open = {}] \in Wires
           /\ [wire[t] EXCEPT !.open = {}].open = {}
<1> USE DEF TunnelsInv, TunnelsTypeOK
<1>1. wire[t] \in Wires
  BY DEF Wires
<1>2. [wire[t] EXCEPT !.open = {}] \in Wires /\ [wire[t] EXCEPT !.open = {}].open = {}
  BY <1>1 DEF Wires
<1>3. ASSUME NEW side \in Sides PROVE [wire[t] EXCEPT !.open = @ \cup {side}] \in Wires
  BY <1>1 DEF Wires
<1> QED
  BY <1>1, <1>2, <1>3 DEF Opened, Hung

\* A CONNECT up to its relay, or as the proxy serves it itself.
LEMMA ConnectSteps ==
    ASSUME TunnelsInv, NEW t \in Tunnels,
           \/ Connect(t) \/ Dial(t) \/ DialFails(t) \/ Greet(t) \/ GreetFails(t)
           \/ GreetServed(t) \/ Peek(t) \/ ServeFails(t) \/ Upgrade(t) \/ ServerCloses(t)
           \/ AcceptReturns(t)
    PROVE  TunnelsInv'
<1> DEFINE shut == [wire[t] EXCEPT !.open = {}]
<1>1. \A to \in Places : \A from : At(t, from, to) =>
          /\ tun' \in [Tunnels -> Places]
          /\ \A u \in Tunnels \ {t} : tun'[u] = tun[u]
          /\ tun[t] = from /\ tun'[t] = to
  BY AtStep
<1>2. /\ wire[t] \in Wires
      /\ wire' = wire => wire' = [wire EXCEPT ![t] = wire[t]]
      /\ Hung(t) => wire' = [wire EXCEPT ![t] = shut]
      /\ shut \in Wires /\ shut.open = {}
  BY WiresAre
<1> HIDE DEF shut
<1>3. CASE Connect(t) \/ Dial(t)
  <2>1. PICK side \in Sides : Opened(t, side)
    BY <1>3 DEF Connect, Dial, Sides
  <2> DEFINE w == [wire[t] EXCEPT !.open = @ \cup {side}]
  <2>2. w \in Wires /\ wire' = [wire EXCEPT ![t] = w]
    BY <2>1, WiresAre
  <2> HIDE DEF w
  <2> QED
    BY <1>1, <1>3, <2>2, WireStep DEF Connect, Dial, Places
<1>4. CASE DialFails(t) \/ GreetFails(t)
  BY <1>1, <1>2, <1>4, WireStep DEF DialFails, GreetFails, Places
<1>5. CASE Greet(t) \/ GreetServed(t) \/ Peek(t) \/ Upgrade(t)
  BY <1>1, <1>2, <1>5, WireStep DEF Greet, GreetServed, Peek, Upgrade, Places
<1>6. CASE ServeFails(t)
  BY <1>1, <1>2, <1>6, WireStep DEF ServeFails, Places
<1>7. CASE ServerCloses(t)
  <2>1. tun' \in [Tunnels -> Places] /\ tun' = tun
    BY <1>7 DEF ServerCloses, TunnelsInv, TunnelsTypeOK, Places
  <2> QED
    BY <1>2, <1>7, <2>1, WireStep DEF ServerCloses
<1>8. CASE AcceptReturns(t)
  BY <1>1, <1>2, <1>8, WireStep DEF AcceptReturns, Places
<1> QED
  BY <1>3, <1>4, <1>5, <1>6, <1>7, <1>8

\* The peers send and hang up, and the upstream proxy answers.
LEMMA PeerSteps ==
    ASSUME TunnelsAssumption, TunnelsInv, NEW t \in Tunnels,
           \/ ConnectThrough(t)
           \/ \E side \in Sides : PeerSends(t, side) \/ PeerHangsUp(t, side)
    PROVE  TunnelsInv'
<1>1. wire[t] \in Wires
  BY WiresAre
<1>2. tun \in [Tunnels -> Places]
  BY DEF TunnelsInv, TunnelsTypeOK, Places
<1>3. CASE ConnectThrough(t)
  <2>1. PICK n \in 0 .. wire[t].sent["target"] : wire' = [wire EXCEPT ![t].lost = n]
    BY <1>3 DEF ConnectThrough
  <2> DEFINE w == [wire[t] EXCEPT !.lost = n]
  <2>2. n \in 0 .. MaxPieces
    BY <1>1, <2>1 DEF Wires, Sides, TunnelsAssumption
  <2>3. w \in Wires /\ w.open = wire[t].open
    BY <1>1, <2>2 DEF Wires
  <2>4. wire' = [wire EXCEPT ![t] = w]
    BY <2>1
  <2> HIDE DEF w
  <2>5. /\ tun' \in [Tunnels -> Places]
        /\ \A u \in Tunnels \ {t} : tun'[u] = tun[u]
        /\ tun[t] = "ask" /\ tun'[t] = "greet"
    BY <1>3, AtStep DEF ConnectThrough, Places
  <2> QED
    BY <1>3, <2>3, <2>4, <2>5, WireStep DEF ConnectThrough
<1>4. ASSUME NEW side \in Sides, PeerSends(t, side) PROVE TunnelsInv'
  <2> DEFINE w == [wire[t] EXCEPT !.sent = [wire[t].sent EXCEPT ![side] = @ + 1]]
  <2>1. [wire[t].sent EXCEPT ![side] = @ + 1] \in [Sides -> 0 .. MaxPieces]
    BY <1>1, <1>4 DEF PeerSends, Wires, TunnelsAssumption
  <2>2. w \in Wires /\ w.open = wire[t].open
    BY <1>1, <2>1 DEF Wires
  <2>3. wire' = [wire EXCEPT ![t] = w]
    BY <1>4 DEF PeerSends
  <2> HIDE DEF w
  <2> QED
    BY <1>2, <1>4, <2>2, <2>3, WireStep DEF PeerSends
<1>5. ASSUME NEW side \in Sides, PeerHangsUp(t, side) PROVE TunnelsInv'
  <2> DEFINE w == [wire[t] EXCEPT !.gone = @ \cup {side}]
  <2>1. w \in Wires /\ w.open = wire[t].open
    BY <1>1 DEF Wires
  <2>2. wire' = [wire EXCEPT ![t] = w]
    BY <1>5 DEF PeerHangsUp
  <2> HIDE DEF w
  <2> QED
    BY <1>2, <1>5, <2>1, <2>2, WireStep DEF PeerHangsUp
<1> QED
  BY <1>3, <1>4, <1>5

\* The relay from its entry in the log to the figures it is closed with.
LEMMA RelaySteps ==
    ASSUME TunnelsAssumption, TunnelsInv, NEW t \in Tunnels,
           TunnelOpened(t) \/ RelayEnds(t) \/ TunnelClosed(t)
             \/ (\E s \in Sides : Copy(t, s) \/ CopyEndsTunnel(t, s))
    PROVE  TunnelsInv'
<1> USE DEF TunnelsInv, TunnelsTypeOK
<1>1. CASE TunnelOpened(t)
  <2>1. /\ tun' \in [Tunnels -> Places]
        /\ \A u \in Tunnels \ {t} : tun'[u] = tun[u]
        /\ tun[t] = "stand" /\ tun'[t] = "relay"
    BY <1>1, AtStep DEF TunnelOpened, Places
  <2>2. /\ logged' \in [Tunnels -> LogProjects \cup {None}]
        /\ kept' \in [LogProjects \X Tunnels -> {None, Pending} \cup [Sides -> Nat]]
        /\ \A p \in LogProjects : \A u \in Tunnels :
              kept'[<<p, u>>] = kept[<<p, u>>] \/ (u = t /\ p = logged'[t] /\ kept'[<<p, u>>] = Pending)
        /\ \A u \in Tunnels \ {t} : logged'[u] = logged[u]
    <3>1. CASE UNCHANGED <<logged, kept>>
      BY <3>1
    <3>2. CASE ~UNCHANGED <<logged, kept>>
      <4>1. /\ kept' = [kept EXCEPT ![<<project, t>>] = Pending]
            /\ logged' = [logged EXCEPT ![t] = project]
        BY <1>1, <3>2 DEF TunnelOpened
      <4> QED
        BY <4>1
    <3> QED
      BY <3>1, <3>2
  <2>3. UNCHANGED <<wire, copies, project>> /\ \A u \in Tunnels : Figures(u)' = Figures(u)
    BY <1>1 DEF TunnelOpened, Figures
  <2>4. ASSUME NEW u \in Tunnels PROVE Accounted(u)'
    <3>1. CASE u = t
      <4>1. \A p \in LogProjects : kept[<<p, t>>] = None
        BY <2>1 DEF Accounted
      <4>2. \A p \in LogProjects : kept'[<<p, t>>] # None => p = logged'[t]
        BY <2>2, <4>1
      <4>3. \A s \in Sides : copies[t][s].at = "done" => wire[t].open = {}
        BY <2>1 DEF Accounted
      <4>4. \A p \in LogProjects : kept'[<<p, t>>] # None =>
                                      p = logged'[t] /\ kept'[<<p, t>>] = Pending
        BY <2>2, <4>1, <4>2
      <4> QED
        BY <2>1, <2>3, <3>1, <4>3, <4>4 DEF Accounted
    <3>2. CASE u # t
      BY <2>1, <2>2, <2>3, <3>2 DEF Accounted
    <3> QED
      BY <3>1, <3>2
  <2> QED
    BY <2>1, <2>2, <2>3, <2>4 DEF Places
<1>2. CASE RelayEnds(t)
  <2>1. /\ tun' \in [Tunnels -> Places]
        /\ \A u \in Tunnels \ {t} : tun'[u] = tun[u]
        /\ tun[t] = "relay" /\ tun'[t] = "relayed"
    BY <1>2, AtStep DEF RelayEnds, Places
  <2>2. UNCHANGED <<wire, copies, logged, kept, project>>
        /\ \A u \in Tunnels : Figures(u)' = Figures(u)
    BY <1>2 DEF RelayEnds, Figures
  <2>3. wire[t].open = {}
    BY <1>2 DEF RelayEnds, Accounted, Sides
  <2>4. ASSUME NEW u \in Tunnels PROVE Accounted(u)'
    BY <2>1, <2>2, <2>3 DEF Accounted
  <2> QED
    BY <2>1, <2>2, <2>4 DEF Places
<1>3. CASE TunnelClosed(t)
  <2>1. /\ tun' \in [Tunnels -> Places]
        /\ \A u \in Tunnels \ {t} : tun'[u] = tun[u]
        /\ tun[t] = "relayed" /\ tun'[t] = "over"
    BY <1>3, AtStep DEF TunnelClosed, Places
  <2>2. Figures(t) \in [Sides -> Nat]
    BY DEF Figures
  <2>3. /\ UNCHANGED <<wire, copies, project>>
        /\ \A u \in Tunnels : Figures(u)' = Figures(u)
        /\ logged' \in [Tunnels -> LogProjects \cup {None}]
        /\ logged'[t] = None
        /\ \A u \in Tunnels \ {t} : logged'[u] = logged[u]
    BY <1>3 DEF TunnelClosed, Figures
  <2>4. kept' \in [LogProjects \X Tunnels -> {None, Pending} \cup [Sides -> Nat]]
    BY <1>3, <2>2 DEF TunnelClosed
  <2>5. \A p \in LogProjects : \A u \in Tunnels :
           kept'[<<p, u>>] = kept[<<p, u>>] \/ (u = t /\ kept'[<<p, u>>] = Figures(t))
    BY <1>3 DEF TunnelClosed
  <2>6. \A p \in LogProjects : kept'[<<p, t>>] \in {None, Figures(t)}
    <3> SUFFICES ASSUME NEW p \in LogProjects, kept[<<p, t>>] # None
                 PROVE  kept'[<<p, t>>] = Figures(t)
      BY <2>5
    <3>1. logged[t] = p /\ logged[t] # None
      BY <2>1 DEF Accounted, TunnelsAssumption
    <3>2. kept' = [kept EXCEPT ![<<logged[t], t>>] = Figures(t)]
      BY <1>3, <3>1 DEF TunnelClosed
    <3> QED
      BY <3>1, <3>2
  <2>7. ASSUME NEW u \in Tunnels PROVE Accounted(u)'
    <3>1. CASE u = t
      BY <2>1, <2>3, <2>6, <3>1 DEF Accounted
    <3>2. CASE u # t
      BY <2>1, <2>3, <2>5, <3>2 DEF Accounted
    <3> QED
      BY <3>1, <3>2
  <2> QED
    BY <2>1, <2>3, <2>4, <2>7 DEF Places
<1>4. ASSUME NEW s \in Sides, Copy(t, s) PROVE TunnelsInv'
  <2>1. /\ UNCHANGED <<tun, wire, logged, kept, project>>
        /\ copies' \in [Tunnels -> [Sides -> [at : {"copy", "done"}, passed : Nat]]]
        /\ \A u \in Tunnels \ {t} : copies'[u] = copies[u]
        /\ \A r \in Sides : copies'[t][r].at = copies[t][r].at
        /\ tun[t] = "relay"
    <3> DEFINE one == [copies[t][s] EXCEPT !.passed = @ + 1]
               both == [copies[t] EXCEPT ![s] = one]
    <3>1. copies[t] \in [Sides -> [at : {"copy", "done"}, passed : Nat]]
      BY DEF TunnelsInv, TunnelsTypeOK
    <3>2. one \in [at : {"copy", "done"}, passed : Nat] /\ one.at = copies[t][s].at
      <4>1. \A c \in [at : {"copy", "done"}, passed : Nat] :
               /\ [c EXCEPT !.passed = @ + 1] \in [at : {"copy", "done"}, passed : Nat]
               /\ [c EXCEPT !.passed = @ + 1].at = c.at
        <5> TAKE c \in [at : {"copy", "done"}, passed : Nat]
        <5>1. c.passed + 1 \in Nat /\ c.at \in {"copy", "done"}
          OBVIOUS
        <5>2. [c EXCEPT !.passed = @ + 1] = [at |-> c.at, passed |-> c.passed + 1]
          OBVIOUS
        <5> QED
          BY <5>1, <5>2
      <4> QED
        BY <1>4, <3>1, <4>1
    <3>3. copies' = [copies EXCEPT ![t] = both]
      BY <1>4 DEF Copy
    <3> HIDE DEF one
    <3>4. /\ both \in [Sides -> [at : {"copy", "done"}, passed : Nat]]
          /\ \A r \in Sides : both[r].at = copies[t][r].at
      BY <3>1, <3>2
    <3> HIDE DEF both
    <3> QED
      BY <1>4, <3>3, <3>4 DEF Copy
  <2>2. ASSUME NEW u \in Tunnels PROVE Accounted(u)'
    <3>1. CASE u = t
      BY <2>1, <3>1 DEF Accounted
    <3>2. CASE u # t
      BY <2>1, <3>2 DEF Accounted, Figures
    <3> QED
      BY <3>1, <3>2
  <2> QED
    BY <2>1, <2>2
<1>5. ASSUME NEW s \in Sides, CopyEndsTunnel(t, s) PROVE TunnelsInv'
  <2> DEFINE shut == [wire[t] EXCEPT !.open = {}]
  <2>1. shut \in Wires /\ shut.open = {} /\ wire' = [wire EXCEPT ![t] = shut]
    BY <1>5, WiresAre DEF CopyEndsTunnel
  <2> HIDE DEF shut
  <2>2. /\ UNCHANGED <<tun, logged, kept, project>>
        /\ copies' \in [Tunnels -> [Sides -> [at : {"copy", "done"}, passed : Nat]]]
        /\ \A u \in Tunnels \ {t} : copies'[u] = copies[u]
        /\ tun[t] = "relay"
    <3> DEFINE one == [copies[t][s] EXCEPT !.at = "done"]
               both == [copies[t] EXCEPT ![s] = one]
    <3>1. copies[t] \in [Sides -> [at : {"copy", "done"}, passed : Nat]]
      BY DEF TunnelsInv, TunnelsTypeOK
    <3>2. one \in [at : {"copy", "done"}, passed : Nat]
      BY <1>5, <3>1
    <3>3. copies' = [copies EXCEPT ![t] = both]
      BY <1>5 DEF CopyEndsTunnel
    <3> HIDE DEF one
    <3>4. both \in [Sides -> [at : {"copy", "done"}, passed : Nat]]
      BY <3>1, <3>2
    <3> HIDE DEF both
    <3>5. copies' \in [Tunnels -> [Sides -> [at : {"copy", "done"}, passed : Nat]]]
      BY <3>3, <3>4
    <3>6. \A u \in Tunnels \ {t} : copies'[u] = copies[u]
      BY <3>3
    <3> QED
      BY <1>5, <3>5, <3>6 DEF CopyEndsTunnel, CanEnd
  <2>3. /\ wire' \in [Tunnels -> Wires] /\ wire'[t].open = {}
        /\ \A u \in Tunnels \ {t} : wire'[u] = wire[u]
    BY <2>1 DEF Wires
  <2>4. ASSUME NEW u \in Tunnels PROVE Accounted(u)'
    <3>1. CASE u = t
      BY <2>2, <2>3, <3>1 DEF Accounted
    <3>2. CASE u # t
      BY <2>2, <2>3, <3>2 DEF Accounted, Figures
    <3> QED
      BY <3>1, <3>2
  <2> QED
    BY <2>2, <2>3, <2>4 DEF Wires
<1> QED
  BY <1>1, <1>2, <1>3, <1>4, <1>5

\* Nothing is left of a CONNECT that is over, for any number of tunnels, projects
\* and pieces.
THEOREM TunnelsAreClosed ==
    ASSUME TunnelsAssumption
    PROVE  TunnelsSpec => []NothingLeftOpen
<1>1. TunnelsInit => TunnelsInv
  <2> SUFFICES ASSUME TunnelsInit PROVE TunnelsInv
    OBVIOUS
  <2>1. Quiet \in Wires /\ Copying \in [at : {"copy", "done"}, passed : Nat] /\ Copying.at = "copy"
    BY DEF Quiet, Wires, Copying, TunnelsAssumption
  <2>2. TunnelsTypeOK
    BY <2>1 DEF TunnelsInit, TunnelsTypeOK, Wires
  <2>3. \A t \in Tunnels : Accounted(t)
    BY <2>1 DEF TunnelsInit, Accounted
  <2> QED
    BY <2>2, <2>3 DEF TunnelsInv
<1>2. TunnelsInv /\ [TunnelsNext]_tunnelsVars => TunnelsInv'
  <2> SUFFICES ASSUME TunnelsInv, [TunnelsNext]_tunnelsVars PROVE TunnelsInv'
    OBVIOUS
  <2>1. ASSUME NEW t \in Tunnels,
               \/ Connect(t) \/ TunnelStep(t) \/ Upgrade(t) \/ ServerCloses(t)
               \/ \E s \in Sides : PeerSends(t, s) \/ PeerHangsUp(t, s)
        PROVE  TunnelsInv'
    BY <2>1, ConnectSteps, PeerSteps, RelaySteps DEF TunnelStep
  <2>2. CASE \E p \in LogProjects : OpenOther(p)
    BY <2>2 DEF OpenOther, TunnelsInv, TunnelsTypeOK, Accounted, Figures
  <2>3. ASSUME NEW k \in LogProjects \X Tunnels, DeleteTunnel(k) PROVE TunnelsInv'
    <3>1. /\ UNCHANGED <<tun, wire, copies, logged, project>>
          /\ kept' \in [LogProjects \X Tunnels -> {None, Pending} \cup [Sides -> Nat]]
          /\ \A j \in LogProjects \X Tunnels : kept'[j] \in {None, kept[j]}
      BY <2>3 DEF DeleteTunnel, TunnelsInv, TunnelsTypeOK
    <3>2. \A t \in Tunnels : \A p \in LogProjects :
             kept'[<<p, t>>] \in {None, kept[<<p, t>>]} /\ Figures(t)' = Figures(t)
      BY <3>1 DEF Figures
    <3>3. ASSUME NEW t \in Tunnels PROVE Accounted(t)'
      BY <3>1, <3>2 DEF TunnelsInv, Accounted
    <3> QED
      BY <3>1, <3>3 DEF TunnelsInv, TunnelsTypeOK
  <2>4. CASE UNCHANGED tunnelsVars
    BY <2>4 DEF tunnelsVars, TunnelsInv, TunnelsTypeOK, Accounted, Figures
  <2> QED
    BY <2>1, <2>2, <2>3, <2>4 DEF TunnelsNext
<1>3. TunnelsInv => NothingLeftOpen
  BY DEF TunnelsInv, Accounted, NothingLeftOpen
<1> QED
  BY <1>1, <1>2, <1>3, PTL DEF TunnelsSpec

-----------------------------------------------------------------------------
(* Upgraded connections.                                                   *)

\* Every header that a peer has sent so far is one the parser takes.
Judged(d) == \A n \in 1 .. Len(given[d]) : given[d][n] # "refused"

\* The frames that have left the pump.
Passed(d) == IF pump[d].at = "emit" THEN pump[d].n ELSE pump[d].n - 1

PieceAt(k) == <<(k + 1) \div 2, IF k % 2 = 1 THEN "header" ELSE "payload">>

\* Where a pump stands tells how much it has delivered.
InStep(d) ==
    /\ pump[d].n - 1 <= Len(given[d])
    /\ pump[d].at \in {"forward", "emit", "copyPayload"} => pump[d].n <= Len(given[d])
    /\ pump[d].at = "forward" => given[d][pump[d].n] # "refused"
    /\ pump[d].at = "copyPayload" => given[d][pump[d].n] = "refused"
    /\ Judged(d) => /\ Len(delivered[d]) = 2 * Passed(d)
                    /\ \A k \in 1 .. Len(delivered[d]) : delivered[d][k] = PieceAt(k)

\* Every message is counted once: in the queue, in the batch, in the store, or lost.
Accounts ==
    /\ rec.open => emitted = rec.count + rec.dropped
    /\ rec.count = queue + drain.batch + drain.stored + lost
    /\ drain.at # "put" => drain.batch = 0
    /\ upgraded.there => rows = drain.stored

\* What the figures are closed with, and who is done by then.
Closing ==
    /\ rec.open <=> drain.at # "off"
    /\ connection \in {"response", "upgrade"} =>
          ~rec.open /\ emitted = 0 /\ rec.count = 0 /\ rec.dropped = 0
    /\ connection \in {"waiting", "stored"} => rec.open
    /\ rec.queueClosed => /\ connection \notin {"response", "upgrade", "open"}
                          /\ \A d \in Dirs : pump[d].at = "ended"
    /\ drain.at = "done" => queue = 0 /\ rec.stored = drain.stored /\ rec.queueClosed
    /\ connection = "stored" =>
          /\ drain.at = "done"
          /\ upgraded.there => upgraded.messages = rec.stored /\ upgraded.dropped = rec.dropped
    /\ stamp = "stamped" /\ upgraded.there => upgraded.subprotocol

RelayInv == RelayTypeOK /\ \A d \in Dirs : InStep(d)

WebSocketLogInv == WebSocketLogTypeOK /\ RelayInv /\ Accounts /\ Closing

\* Two pieces more at the end.
LEMMA TwoMore ==
    ASSUME NEW s \in Seq(Piece), NEW a \in Piece, NEW b \in Piece
    PROVE  /\ s \o <<a, b>> \in Seq(Piece)
           /\ Len(s \o <<a, b>>) = Len(s) + 2
           /\ \A k \in 1 .. Len(s) : (s \o <<a, b>>)[k] = s[k]
           /\ (s \o <<a, b>>)[Len(s) + 1] = a
           /\ (s \o <<a, b>>)[Len(s) + 2] = b
<1>1. /\ <<a, b>> \in Seq(Piece) /\ Len(<<a, b>>) = 2
      /\ <<a, b>>[1] = a /\ <<a, b>>[2] = b /\ Len(s) \in Nat
  OBVIOUS
<1> QED
  BY <1>1, ConcatProperties

\* The pieces of a frame, by their places.
LEMMA PiecesOf ==
    ASSUME NEW n \in Nat \ {0}
    PROVE  PieceAt(2 * n - 1) = <<n, "header">> /\ PieceAt(2 * n) = <<n, "payload">>
<1>1. (2 * n - 1 + 1) \div 2 = n /\ (2 * n - 1) % 2 = 1
  OBVIOUS
<1>2. (2 * n + 1) \div 2 = n /\ (2 * n) % 2 = 0
  OBVIOUS
<1>3. PieceAt(2 * n - 1) = <<n, "header">>
  BY <1>1, Zenon DEF PieceAt
<1>4. 0 # 1 /\ PieceAt(2 * n) = <<(2 * n + 1) \div 2, IF (2 * n) % 2 = 1 THEN "header" ELSE "payload">>
  BY DEF PieceAt
<1> QED
  BY <1>2, <1>3, <1>4, Zenon

\* A pump that goes to another step, with the frame it stands at or the next.
LEMMA PumpGoes ==
    ASSUME NEW b \in Pumps, NEW at \in PumpSteps
    PROVE  /\ [b EXCEPT !.at = at] \in Pumps
           /\ [b EXCEPT !.at = at].at = at
           /\ [b EXCEPT !.at = at].n = b.n
BY DEF Pumps

LEMMA PumpMovesOn ==
    ASSUME NEW b \in Pumps, NEW at \in PumpSteps
    PROVE  /\ [b EXCEPT !.at = at, !.n = b.n + 1] \in Pumps
           /\ [b EXCEPT !.at = at, !.n = b.n + 1].at = at
           /\ [b EXCEPT !.at = at, !.n = b.n + 1].n = b.n + 1
<1>1. b.n + 1 \in Nat \ {0}
  BY DEF Pumps
<1> QED
  BY <1>1 DEF Pumps

\* A pump that refuses a frame or drops it.
LEMMA PumpErrs ==
    ASSUME NEW b \in Pumps
    PROVE  /\ [b EXCEPT !.at = "copyPayload", !.err = TRUE] \in Pumps
           /\ [b EXCEPT !.at = "copyPayload", !.err = TRUE].at = "copyPayload"
           /\ [b EXCEPT !.at = "copyPayload", !.err = TRUE].n = b.n
           /\ [at |-> "copy", n |-> b.n + 1, err |-> TRUE] \in Pumps
<1>1. b.n + 1 \in Nat \ {0}
  BY DEF Pumps
<1>2. [b EXCEPT !.at = "copyPayload", !.err = TRUE] \in Pumps
  BY DEF Pumps, PumpSteps
<1>3. [at |-> "copy", n |-> b.n + 1, err |-> TRUE] \in Pumps
  BY <1>1 DEF Pumps, PumpSteps
<1> QED
  BY <1>2, <1>3 DEF Pumps

\* A step of one pump that delivers nothing.
LEMMA PumpStep ==
    ASSUME RelayInv, NEW d \in Dirs, NEW m \in Pumps,
           pump' = [pump EXCEPT ![d] = m],
           UNCHANGED <<given, hungUp, delivered>>,
           closed' \in BOOLEAN, emitted' \in Nat, InStep(d)'
    PROVE  RelayInv'
<1>1. /\ pump' \in [Dirs -> Pumps] /\ pump'[d] = m
      /\ \A e \in Dirs \ {d} : pump'[e] = pump[e]
  BY DEF RelayInv, RelayTypeOK
<1>2. \A e \in Dirs : InStep(e)'
  BY <1>1 DEF RelayInv, InStep, Judged, Passed
<1> QED
  BY <1>1, <1>2 DEF RelayInv, RelayTypeOK

\* A pump that passes on the frame it stands at.
LEMMA FrameStep ==
    ASSUME RelayInv, NEW d \in Dirs, NEW m \in Pumps,
           pump[d].at \in {"forward", "copy"}, pump[d].n <= Len(given[d]),
           pump' = [pump EXCEPT ![d] = m],
           delivered' = [delivered EXCEPT ![d] =
              @ \o <<<<pump[d].n, "header">>, <<pump[d].n, "payload">>>>],
           UNCHANGED <<given, hungUp, closed, emitted>>,
           \/ m.at = "emit" /\ m.n = pump[d].n
           \/ m.at \in {"read", "copy"} /\ m.n = pump[d].n + 1
    PROVE  RelayInv'
<1> DEFINE s == delivered[d]
           n == pump[d].n
           t == s \o <<<<n, "header">>, <<n, "payload">>>>
<1>0. /\ s \in Seq(Piece) /\ n \in Nat \ {0} /\ Len(given[d]) \in Nat
      /\ <<n, "header">> \in Piece /\ <<n, "payload">> \in Piece
      /\ Len(s) \in Nat /\ pump[d] \in Pumps /\ InStep(d)
  <2>1. s \in Seq(Piece) /\ pump[d] \in Pumps /\ given[d] \in Seq(Kinds) /\ InStep(d)
    BY DEF RelayInv, RelayTypeOK
  <2>2. n \in Nat \ {0}
    BY <2>1 DEF Pumps
  <2> QED
    BY <2>1, <2>2 DEF Piece
<1>1. /\ t \in Seq(Piece)
      /\ Len(t) = Len(s) + 2
      /\ \A k \in 1 .. Len(s) : t[k] = s[k]
      /\ t[Len(s) + 1] = <<n, "header">>
      /\ t[Len(s) + 2] = <<n, "payload">>
  BY <1>0, TwoMore
<1>2. delivered' = [delivered EXCEPT ![d] = t]
  OBVIOUS
<1> HIDE DEF t
<1>3. /\ delivered' \in [Dirs -> Seq(Piece)] /\ delivered'[d] = t
      /\ \A e \in Dirs \ {d} : delivered'[e] = delivered[e]
  BY <1>1, <1>2 DEF RelayInv, RelayTypeOK, Piece
<1>4. /\ pump' \in [Dirs -> Pumps] /\ pump'[d] = m
      /\ \A e \in Dirs \ {d} : pump'[e] = pump[e]
  BY DEF RelayInv, RelayTypeOK
<1>5. ASSUME Judged(d) PROVE Len(t) = 2 * n /\ \A k \in 1 .. Len(t) : t[k] = PieceAt(k)
  <2>1. Len(s) = 2 * (n - 1) /\ \A k \in 1 .. Len(s) : s[k] = PieceAt(k)
    BY <1>5 DEF RelayInv, InStep, Passed
  <2>2. PieceAt(2 * n - 1) = <<n, "header">> /\ PieceAt(2 * n) = <<n, "payload">>
    BY <1>0, PiecesOf
  <2>3. Len(t) = 2 * n
    BY <1>0, <1>1, <2>1
  <2> SUFFICES ASSUME NEW k \in 1 .. Len(t) PROVE t[k] = PieceAt(k)
    BY <2>3
  <2>4. k \in 1 .. Len(s) \/ k = Len(s) + 1 \/ k = Len(s) + 2
    <3>1. Len(s) \in Nat /\ k \in 1 .. Len(s) + 2
      BY <1>0, <1>1
    <3> QED
      BY <3>1
  <2>5. Len(s) + 1 = 2 * n - 1 /\ Len(s) + 2 = 2 * n
    BY <1>0, <2>1
  <2> QED
    BY <1>1, <2>1, <2>2, <2>4, <2>5
<1>6. InStep(d)'
  <2>1. Judged(d)' <=> Judged(d)
    BY DEF Judged
  <2>2. Passed(d)' = n
    BY <1>0, <1>4 DEF Passed, Pumps
  <2> QED
    <3>1. Judged(d)' => /\ Len(delivered'[d]) = 2 * Passed(d)'
                         /\ \A k \in 1 .. Len(delivered'[d]) : delivered'[d][k] = PieceAt(k)
      BY <1>3, <1>5, <2>1, <2>2
    <3>2. /\ m.n - 1 <= Len(given[d])
          /\ m.at \in {"forward", "emit", "copyPayload"} => m.n <= Len(given[d])
          /\ m.at \notin {"forward", "copyPayload"}
      BY <1>0
    <3> QED
      BY <1>4, <3>1, <3>2 DEF InStep
<1>7. \A e \in Dirs : InStep(e)'
  <2> SUFFICES ASSUME NEW e \in Dirs \ {d} PROVE InStep(e)'
    BY <1>6
  <2>1. InStep(e)
    BY DEF RelayInv
  <2> QED
    BY <1>3, <1>4, <2>1 DEF InStep, Judged, Passed
<1> QED
  BY <1>3, <1>4, <1>7 DEF RelayInv, RelayTypeOK

\* The two pumps and their peers.
LEMMA PumpsStayInStep ==
    ASSUME RelayInv, NEW d \in Dirs, Peer(d) \/ Pump(d) \/ Emit(d)
    PROVE  RelayInv'
<1> DEFINE b == pump[d]
<1>0. /\ b \in Pumps /\ b.n \in Nat \ {0} /\ InStep(d) /\ given[d] \in Seq(Kinds) /\ Len(given[d]) \in Nat
      /\ delivered[d] \in Seq(Piece) /\ Len(delivered[d]) \in Nat
      /\ closed \in BOOLEAN /\ emitted \in Nat
  BY DEF RelayInv, RelayTypeOK, Pumps
<1>1. CASE HangUp(d)
  BY <1>1 DEF HangUp, RelayInv, RelayTypeOK, InStep, Judged, Passed
<1>2. ASSUME NEW kind \in Kinds, SendFrame(d, kind) PROVE RelayInv'
  <2> DEFINE more == Append(given[d], kind)
  <2>1. /\ more \in Seq(Kinds) /\ Len(more) = Len(given[d]) + 1
        /\ \A n \in 1 .. Len(given[d]) : more[n] = given[d][n]
    BY <1>0
  <2>2. given' = [given EXCEPT ![d] = more]
    BY <1>2 DEF SendFrame
  <2> HIDE DEF more
  <2>3. /\ given' \in [Dirs -> Seq(Kinds)] /\ given'[d] = more
        /\ \A e \in Dirs \ {d} : given'[e] = given[e]
    BY <2>1, <2>2 DEF RelayInv, RelayTypeOK
  <2>4. UNCHANGED <<hungUp, pump, delivered, closed, emitted>>
    BY <1>2 DEF SendFrame
  <2>5. ASSUME Judged(d)' PROVE Judged(d)
    <3>1. \A n \in 1 .. Len(more) : more[n] # "refused"
      BY <2>3, <2>5 DEF Judged
    <3>2. ASSUME NEW n \in 1 .. Len(given[d]) PROVE given[d][n] # "refused"
      <4>1. n \in 1 .. Len(more)
        BY <1>0, <2>1
      <4> QED
        BY <2>1, <3>1, <4>1
    <3> QED
      BY <3>2 DEF Judged
  <2>6. InStep(d)'
    <3>1. /\ pump'[d] = b /\ delivered'[d] = delivered[d] /\ given'[d] = more
          /\ Passed(d)' = Passed(d)
      <4>1. UNCHANGED pump /\ UNCHANGED delivered
        BY <2>4
      <4> QED
        BY <2>3, <4>1 DEF Passed
    <3>2. b.at \in {"forward", "copyPayload"} => more[b.n] = given[d][b.n]
      BY <1>0, <2>1 DEF InStep
    <3>3. Len(given'[d]) >= Len(given[d]) /\ Passed(d) = Passed(d)'
      BY <2>1, <3>1
    <3>4. /\ b.n - 1 <= Len(given'[d])
          /\ b.at \in {"forward", "emit", "copyPayload"} => b.n <= Len(given'[d])
      BY <1>0, <3>3 DEF InStep
    <3> QED
      BY <1>0, <2>5, <3>1, <3>2, <3>4 DEF InStep
  <2>7. ASSUME NEW e \in Dirs \ {d} PROVE InStep(e)'
    <3>1. InStep(e)
      BY DEF RelayInv
    <3> QED
      BY <2>3, <2>4, <3>1 DEF InStep, Judged, Passed
  <2> QED
    BY <2>3, <2>4, <2>6, <2>7 DEF RelayInv, RelayTypeOK
<1>3. CASE ReadHeader(d)
  <2>1. b.n <= Len(given[d]) /\ b.at = "read"
    BY <1>3 DEF ReadHeader, Has
  <2>2. CASE Kind(d) = "refused"
    <3> DEFINE m == [b EXCEPT !.at = "copyPayload", !.err = TRUE]
    <3>1. m \in Pumps /\ m.at = "copyPayload" /\ m.n = b.n
      BY <1>0, PumpErrs
    <3>2. pump' = [pump EXCEPT ![d] = m]
      BY <1>3, <2>2 DEF ReadHeader
    <3> HIDE DEF m
    <3>3. pump'[d] = m
      BY <3>2 DEF RelayInv, RelayTypeOK
    <3>4. UNCHANGED <<given, hungUp, delivered, closed, emitted>>
      BY <1>3 DEF ReadHeader
    <3>5. InStep(d)'
      BY <1>0, <2>1, <2>2, <3>1, <3>3, <3>4 DEF InStep, Judged, Passed, Kind, Pumps
    <3> QED
      BY <1>0, <3>1, <3>2, <3>4, <3>5, PumpStep
  <2>3. CASE Kind(d) # "refused"
    <3> DEFINE m == [b EXCEPT !.at = "forward"]
    <3>1. m \in Pumps /\ m.at = "forward" /\ m.n = b.n
      BY <1>0, PumpGoes DEF PumpSteps
    <3>2. pump' = [pump EXCEPT ![d] = m]
      BY <1>3, <2>3 DEF ReadHeader, Goto
    <3> HIDE DEF m
    <3>3. pump'[d] = m
      BY <3>2 DEF RelayInv, RelayTypeOK
    <3>4. UNCHANGED <<given, hungUp, delivered, closed, emitted>>
      BY <1>3 DEF ReadHeader
    <3>5. InStep(d)'
      BY <1>0, <2>1, <2>3, <3>1, <3>3, <3>4 DEF InStep, Judged, Passed, Kind
    <3> QED
      BY <1>0, <3>1, <3>2, <3>4, <3>5, PumpStep
  <2> QED
    BY <2>2, <2>3
<1>4. CASE ReadEnds(d) \/ WriteFails(d) \/ CopyEnds(d) \/ Leave(d)
  <2>1. PICK at \in {"leave", "ended"} :
           /\ Goto(d, at) /\ UNCHANGED <<given, hungUp, delivered, emitted>>
           /\ closed' \in BOOLEAN
           /\ b.at # "emit"
    BY <1>0, <1>4 DEF ReadEnds, WriteFails, CopyEnds, Leave
  <2> DEFINE m == [b EXCEPT !.at = at]
  <2>2. m \in Pumps /\ m.at = at /\ m.n = b.n
    <3>1. at \in PumpSteps
      BY DEF PumpSteps
    <3> QED
      BY <1>0, <3>1, PumpGoes
  <2>3. pump' = [pump EXCEPT ![d] = m]
    BY <2>1 DEF Goto
  <2> HIDE DEF m
  <2>4. pump'[d] = m
    BY <2>3 DEF RelayInv, RelayTypeOK
  <2>5. InStep(d)'
    BY <1>0, <2>1, <2>2, <2>4 DEF InStep, Judged, Passed, Pumps
  <2> QED
    BY <1>0, <2>1, <2>2, <2>3, <2>5, PumpStep
<1>5. CASE Forward(d)
  <2>1. b.at = "forward" /\ b.n <= Len(given[d])
    BY <1>0, <1>5 DEF Forward, InStep
  <2>2. \E m \in Pumps : /\ pump' = [pump EXCEPT ![d] = m]
                         /\ \/ m.at = "emit" /\ m.n = b.n
                            \/ m.at \in {"read", "copy"} /\ m.n = b.n + 1
    <3>1. CASE Kind(d) = "message"
      <4> DEFINE m == [b EXCEPT !.at = "emit"]
      <4>1. m \in Pumps /\ m.at = "emit" /\ m.n = b.n
        BY <1>0, PumpGoes DEF PumpSteps
      <4> QED
        BY <1>5, <3>1, <4>1 DEF Forward, Goto
    <3>2. CASE Kind(d) = "part"
      <4> DEFINE m == [b EXCEPT !.at = "read", !.n = b.n + 1]
      <4>1. m \in Pumps /\ m.at = "read" /\ m.n = b.n + 1
        BY <1>0, PumpMovesOn DEF PumpSteps
      <4>2. pump' = [pump EXCEPT ![d] = m]
        BY <1>5, <3>2 DEF Forward, Advance
      <4> QED
        BY <4>1, <4>2
    <3>3. CASE Kind(d) = "disorder"
      <4> DEFINE m == [at |-> "copy", n |-> b.n + 1, err |-> TRUE]
      <4>1. m \in Pumps /\ m.at = "copy" /\ m.n = b.n + 1
        BY <1>0, PumpErrs
      <4>2. pump' = [pump EXCEPT ![d] = m]
        BY <1>5, <3>3 DEF Forward
      <4> QED
        BY <4>1, <4>2
    <3>4. Kind(d) \in Kinds /\ Kind(d) # "refused"
      BY <1>0, <2>1, ElementOfSeq DEF Kind, InStep
    <3> QED
      BY <3>1, <3>2, <3>3, <3>4 DEF Kinds
  <2> QED
    BY <1>5, <2>1, <2>2, FrameStep DEF Forward
<1>6. CASE CopyFrame(d)
  <2> DEFINE m == [b EXCEPT !.at = "copy", !.n = b.n + 1]
  <2>1. m \in Pumps /\ m.at = "copy" /\ m.n = b.n + 1
    BY <1>0, PumpMovesOn DEF PumpSteps
  <2>2. pump' = [pump EXCEPT ![d] = m]
    BY <1>6 DEF CopyFrame, Advance
  <2> HIDE DEF m
  <2> QED
    BY <1>6, <2>1, <2>2, FrameStep DEF CopyFrame, Has
<1>7. CASE CopyPayload(d)
  <2> DEFINE m == [b EXCEPT !.at = "copy", !.n = b.n + 1]
             more == Append(delivered[d], <<b.n, "payload">>)
  <2>1. m \in Pumps /\ m.at = "copy" /\ m.n = b.n + 1
    BY <1>0, PumpMovesOn DEF PumpSteps
  <2>2. pump' = [pump EXCEPT ![d] = m]
    BY <1>7 DEF CopyPayload, Advance
  <2>3. more \in Seq(Piece) /\ delivered' = [delivered EXCEPT ![d] = more]
    BY <1>0, <1>7 DEF CopyPayload, Piece, Pumps
  <2> HIDE DEF m, more
  <2>4. /\ pump' \in [Dirs -> Pumps] /\ pump'[d] = m
        /\ \A e \in Dirs \ {d} : pump'[e] = pump[e] /\ delivered'[e] = delivered[e]
        /\ delivered' \in [Dirs -> Seq(Piece)]
    BY <2>1, <2>2, <2>3 DEF RelayInv, RelayTypeOK
  <2>5. UNCHANGED <<given, hungUp, closed, emitted>>
    BY <1>7 DEF CopyPayload
  <2>6. ~Judged(d)' /\ b.n <= Len(given[d])
    BY <1>0, <1>7, <2>5 DEF CopyPayload, InStep, Judged, Pumps
  <2>7. InStep(d)'
    BY <1>0, <2>1, <2>4, <2>5, <2>6 DEF InStep, Pumps
  <2>8. \A e \in Dirs : InStep(e)'
    <3> SUFFICES ASSUME NEW e \in Dirs \ {d} PROVE InStep(e)'
      BY <2>7
    <3> QED
      BY <2>4, <2>5 DEF RelayInv, InStep, Judged, Passed
  <2> QED
    BY <2>4, <2>5, <2>8 DEF RelayInv, RelayTypeOK
<1>8. CASE Emit(d)
  <2> DEFINE m == [b EXCEPT !.at = "read", !.n = b.n + 1]
  <2>1. m \in Pumps /\ m.at = "read" /\ m.n = b.n + 1
    BY <1>0, PumpMovesOn DEF PumpSteps
  <2>2. pump' = [pump EXCEPT ![d] = m]
    BY <1>8 DEF Emit, Advance
  <2> HIDE DEF m
  <2>3. pump'[d] = m
    BY <2>2 DEF RelayInv, RelayTypeOK
  <2>4. UNCHANGED <<given, hungUp, delivered, closed>> /\ emitted' \in Nat /\ b.at = "emit"
    BY <1>0, <1>8 DEF Emit
  <2>5. InStep(d)'
    BY <1>0, <2>1, <2>3, <2>4 DEF InStep, Judged, Passed, Pumps
  <2> QED
    BY <1>0, <2>1, <2>2, <2>4, <2>5, PumpStep
<1> QED
  BY <1>1, <1>2, <1>3, <1>4, <1>5, <1>6, <1>7, <1>8 DEF Peer, Pump

\* The steps of the relay, and of the recorder when it is told of a message.
LEMMA RelaysAndTells ==
    ASSUME WebSocketLogInv, NEW d \in Dirs, Peers(d) \/ Relays(d) \/ Tell(d)
    PROVE  WebSocketLogInv'
<1>1. RelayInv'
  BY PumpsStayInStep DEF WebSocketLogInv, Peers, Relays, Tell
<1>2. connection = "open" /\ connection' = connection
  BY DEF Peers, Relays, Tell, logVars
<1>3. ~rec.queueClosed
  BY <1>2 DEF WebSocketLogInv, Closing
<1>4. CASE Peers(d) \/ Relays(d)
  <2>1. UNCHANGED <<connection, mark, stamp, rec, queue, drain, upgraded, rows, lost>>
    BY <1>4 DEF Peers, Relays, logVars
  <2>2. emitted' = emitted
    BY <1>4 DEF Peers, Relays, Peer, Pump, HangUp, SendFrame, ReadHeader, ReadEnds, Forward,
                WriteFails, CopyPayload, CopyFrame, CopyEnds, Leave
  <2> QED
    BY <1>1, <1>2, <1>3, <2>1, <2>2
       DEF WebSocketLogInv, WebSocketLogTypeOK, RelayInv, Accounts, Closing
<1>5. CASE Tell(d)
  <2>1. /\ UNCHANGED <<connection, mark, stamp, drain, upgraded, rows, lost>>
        /\ emitted' = emitted + 1 /\ WSMessage
    BY <1>5 DEF Tell, Emit
  <2>2. /\ rec'.open = rec.open /\ rec'.queueClosed = rec.queueClosed
        /\ rec'.stored = rec.stored
        /\ rec' \in [open : BOOLEAN, count : Nat, dropped : Nat, stored : Nat,
                     queueClosed : BOOLEAN]
        /\ queue' \in Nat
        /\ rec.open => rec'.count + rec'.dropped = rec.count + rec.dropped + 1
        /\ rec'.count - rec.count = queue' - queue
    BY <2>1 DEF WSMessage, WebSocketLogInv, WebSocketLogTypeOK
  <2>3. emitted \in Nat /\ rec.count \in Nat /\ rec.dropped \in Nat /\ queue \in Nat
        /\ rec'.count \in Nat /\ rec'.dropped \in Nat /\ drain.batch \in Nat
        /\ drain.stored \in Nat /\ lost \in Nat
    BY <2>2 DEF WebSocketLogInv, WebSocketLogTypeOK, RelayTypeOK
  <2>4. Accounts'
    <3>1. Accounts
      BY DEF WebSocketLogInv
    <3>2. rec'.open => emitted' = rec'.count + rec'.dropped
      BY <2>1, <2>2, <2>3, <3>1 DEF Accounts
    <3>3. rec'.count = queue' + drain'.batch + drain'.stored + lost'
      <4>1. rec'.count = queue' + drain.batch + drain.stored + lost
        BY <2>2, <2>3, <3>1 DEF Accounts
      <4> QED
        BY <2>1, <4>1
    <3> QED
      BY <2>1, <3>1, <3>2, <3>3 DEF Accounts
  <2>5. Closing'
    BY <1>2, <1>3, <2>1, <2>2 DEF WebSocketLogInv, Closing
  <2> QED
    BY <1>1, <2>1, <2>2, <2>4, <2>5 DEF WebSocketLogInv, WebSocketLogTypeOK, RelayInv
<1> QED
  BY <1>4, <1>5

\* The handshake, the goroutine that stamps, and a delete.
LEMMA HandshakeSteps ==
    ASSUME WebSocketLogInv,
           MarkUpgrade \/ NotLogged \/ Stamp \/ MarkExpires \/ UpgradeFails \/ WSOpened
             \/ DeleteEntry
    PROVE  WebSocketLogInv'
<1>1. UNCHANGED relayVars /\ UNCHANGED <<queue, lost>>
  BY DEF MarkUpgrade, NotLogged, Stamp, MarkExpires, UpgradeFails, WSOpened, DeleteEntry
<1>2. RelayInv' /\ RelayTypeOK' /\ UNCHANGED <<emitted, pump>>
  <2>1. UNCHANGED <<given, hungUp, pump, delivered, closed, emitted>>
    BY <1>1 DEF relayVars
  <2>2. RelayTypeOK'
    BY <2>1 DEF WebSocketLogInv, RelayInv, RelayTypeOK
  <2>3. ASSUME NEW d \in Dirs PROVE InStep(d)'
    <3>1. InStep(d)
      BY DEF WebSocketLogInv, RelayInv
    <3> QED
      BY <2>1, <3>1 DEF InStep, Judged, Passed
  <2> QED
    BY <2>1, <2>2, <2>3 DEF RelayInv
<1> USE DEF WebSocketLogInv, WebSocketLogTypeOK
<1>3. CASE MarkUpgrade \/ NotLogged \/ MarkExpires \/ UpgradeFails
  <2>1. CASE MarkUpgrade
    BY <1>1, <1>2, <2>1 DEF MarkUpgrade, Accounts, Closing
  <2>2. CASE NotLogged
    BY <1>1, <1>2, <2>2 DEF NotLogged, Accounts, Closing
  <2>3. CASE MarkExpires
    <3>1. mark' = FALSE /\ UNCHANGED <<connection, stamp, rec, queue, drain, upgraded, rows, lost>>
      BY <2>3 DEF MarkExpires
    <3>2. Accounts' /\ Closing'
      <4>1. Accounts /\ Closing /\ mark \in BOOLEAN
        OBVIOUS
      <4> HIDE DEF WebSocketLogInv, WebSocketLogTypeOK
      <4>2. Accounts'
        BY <1>2, <3>1, <4>1 DEF Accounts
      <4>3. Closing'
        BY <1>2, <3>1, <4>1 DEF Closing
      <4> QED
        BY <4>2, <4>3
    <3>3. mark' \in BOOLEAN
      BY <3>1, Zenon
    <3>4. /\ connection' = connection /\ stamp' = stamp /\ rec' = rec /\ queue' = queue
          /\ drain' = drain /\ upgraded' = upgraded /\ rows' = rows /\ lost' = lost
      BY <3>1
    <3>5. WebSocketLogTypeOK
      OBVIOUS
    <3> HIDE DEF WebSocketLogInv
    <3>6. WebSocketLogTypeOK'
      BY <1>2, <3>3, <3>4, <3>5
    <3> QED
      BY <1>2, <3>2, <3>6 DEF WebSocketLogInv
  <2>4. CASE UpgradeFails
    BY <1>1, <1>2, <2>4 DEF UpgradeFails, Accounts, Closing
  <2> QED
    BY <1>3, <2>1, <2>2, <2>3, <2>4
<1>4. CASE Stamp
  BY <1>1, <1>2, <1>4 DEF Stamp, Accounts, Closing
<1>5. CASE WSOpened
  <2>1. /\ connection = "upgrade" /\ connection' = "open" /\ mark' = FALSE
        /\ UNCHANGED <<stamp, upgraded, rows>>
        /\ rec' = [rec EXCEPT !.open = mark]
        /\ drain' = [drain EXCEPT !.at = IF mark THEN "select" ELSE "off"]
    BY <1>5 DEF WSOpened
  <2>2. /\ rec' \in [open : BOOLEAN, count : Nat, dropped : Nat, stored : Nat,
                     queueClosed : BOOLEAN]
        /\ rec'.open = mark /\ rec'.count = rec.count /\ rec'.dropped = rec.dropped
        /\ rec'.stored = rec.stored /\ rec'.queueClosed = rec.queueClosed
    BY <2>1
  <2>3. /\ drain' \in [at : {"off", "select", "put", "persist", "done"}, batch : Nat,
                       stored : Nat, written : Nat]
        /\ drain'.at = IF mark THEN "select" ELSE "off"
        /\ drain'.batch = drain.batch /\ drain'.stored = drain.stored
    BY <2>1
  <2>4. ~rec.open /\ drain.at = "off" /\ emitted = 0 /\ rec.count = 0 /\ rec.dropped = 0
        /\ ~rec.queueClosed
    BY <2>1 DEF Closing
  <2>5. Accounts'
    BY <1>1, <1>2, <2>1, <2>2, <2>3, <2>4 DEF Accounts
  <2>6. Closing'
    BY <1>1, <1>2, <2>1, <2>2, <2>3, <2>4 DEF Closing
  <2> QED
    BY <1>1, <1>2, <2>1, <2>2, <2>3, <2>5, <2>6
<1>6. CASE DeleteEntry
  <2>1. /\ UNCHANGED <<connection, mark, stamp, rec, queue, drain, lost>>
        /\ upgraded' = [upgraded EXCEPT !.there = FALSE] /\ rows' = 0
    BY <1>6 DEF DeleteEntry
  <2>2. ~upgraded'.there
    BY <2>1
  <2>3. Accounts' /\ Closing'
    <3>1. Accounts /\ Closing
      OBVIOUS
    <3> HIDE DEF WebSocketLogInv, WebSocketLogTypeOK
    <3> QED
      BY <1>2, <2>1, <2>2, <3>1 DEF Accounts, Closing
  <2> QED
    BY <1>2, <2>1, <2>3
<1> QED
  BY <1>3, <1>4, <1>5, <1>6

\* The queue is drained, and the connection ends.
LEMMA DrainSteps ==
    ASSUME WebSocketLogInv, Drains \/ Tick \/ Ends
    PROVE  WebSocketLogInv'
<1>1. UNCHANGED relayVars
  BY DEF Drains, TakeBatch, PutMessages, PutMessagesFails, SetWSCount, DrainEnds, Tick, Ends,
         WSClosed, StoreClose
<1>2. RelayInv' /\ RelayTypeOK' /\ UNCHANGED <<emitted, pump>>
  BY <1>1 DEF WebSocketLogInv, RelayInv, relayVars, RelayTypeOK, InStep, Judged, Passed
<1> USE DEF WebSocketLogInv, WebSocketLogTypeOK
<1>3. CASE TakeBatch
  <2>1. PICK n \in 1 .. queue :
           /\ queue' = queue - n
           /\ drain' = [drain EXCEPT !.at = "put", !.batch = n]
    BY <1>3 DEF TakeBatch
  <2>2. /\ drain.at = "select" /\ drain.batch = 0
        /\ UNCHANGED <<connection, mark, stamp, rec, upgraded, rows, lost>>
    BY <1>3 DEF TakeBatch, Accounts
  <2>3. queue \in Nat /\ n \in Nat /\ queue' \in Nat /\ queue' + n = queue
    BY <2>1
  <2>4. /\ drain' \in [at : {"off", "select", "put", "persist", "done"}, batch : Nat,
                       stored : Nat, written : Nat]
        /\ drain'.at = "put" /\ drain'.batch = n /\ drain'.stored = drain.stored
    BY <2>1, <2>3
  <2>5. rec.count \in Nat /\ drain.stored \in Nat /\ lost \in Nat
    OBVIOUS
  <2>6. Accounts'
    <3>1. rec.count = queue + drain.stored + lost
      BY <2>2, <2>5 DEF Accounts
    <3>2. rec'.count = queue' + drain'.batch + drain'.stored + lost'
      BY <2>2, <2>3, <2>4, <2>5, <3>1
    <3> QED
      BY <1>2, <2>2, <2>4, <3>2 DEF Accounts
  <2>7. Closing'
    BY <1>2, <2>2, <2>4 DEF Closing
  <2> QED
    BY <1>2, <2>2, <2>3, <2>4, <2>6, <2>7
<1>4. CASE PutMessages
  <2>1. /\ drain.at = "put" /\ rows' = rows + drain.batch
        /\ AfterBatch(drain.stored + drain.batch)
        /\ UNCHANGED <<connection, mark, stamp, rec, queue, upgraded, lost>>
    BY <1>4 DEF PutMessages
  <2>2. drain.stored + drain.batch \in Nat /\ rows' \in Nat
    BY <2>1
  <2>3. /\ drain' \in [at : {"off", "select", "put", "persist", "done"}, batch : Nat,
                       stored : Nat, written : Nat]
        /\ drain'.at \in {"persist", "select"} /\ drain'.batch = 0
        /\ drain'.stored = drain.stored + drain.batch
    BY <2>1, <2>2 DEF AfterBatch
  <2> QED
    BY <1>2, <2>1, <2>2, <2>3 DEF Accounts, Closing
<1>5. CASE PutMessagesFails
  <2>1. /\ drain.at = "put" /\ lost' = lost + drain.batch
        /\ AfterBatch(drain.stored)
        /\ UNCHANGED <<connection, mark, stamp, rec, queue, upgraded, rows>>
    BY <1>5 DEF PutMessagesFails
  <2>2. /\ drain' \in [at : {"off", "select", "put", "persist", "done"}, batch : Nat,
                       stored : Nat, written : Nat]
        /\ drain'.at \in {"persist", "select"} /\ drain'.batch = 0
        /\ drain'.stored = drain.stored
    BY <2>1 DEF AfterBatch
  <2> QED
    BY <1>2, <2>1, <2>2 DEF Accounts, Closing
<1>6. CASE SetWSCount \/ Tick
  <2>1. /\ UNCHANGED <<connection, mark, stamp, rec, queue, rows, lost>>
        /\ drain.at \in {"persist", "select"}
    BY <1>6 DEF SetWSCount, Tick
  <2>2. /\ drain' \in [at : {"off", "select", "put", "persist", "done"}, batch : Nat,
                       stored : Nat, written : Nat]
        /\ drain'.at \in {"persist", "select"} /\ drain'.batch = drain.batch
        /\ drain'.stored = drain.stored
    BY <1>6 DEF SetWSCount, Tick
  <2>3. /\ upgraded' \in [there : BOOLEAN, messages : Nat, dropped : Nat, over : BOOLEAN,
                          subprotocol : BOOLEAN]
        /\ upgraded'.there = upgraded.there /\ upgraded'.subprotocol = upgraded.subprotocol
    BY <1>6 DEF SetWSCount, Tick
  <2>4. connection # "stored"
    BY <2>1 DEF Closing
  <2>5. Accounts'
    BY <1>2, <2>1, <2>2, <2>3 DEF Accounts
  <2>6. Closing'
    BY <1>2, <2>1, <2>2, <2>3, <2>4 DEF Closing
  <2> QED
    BY <1>2, <2>1, <2>2, <2>3, <2>5, <2>6
<1>7. CASE DrainEnds
  <2>1. /\ drain.at = "select" /\ rec.queueClosed /\ queue = 0
        /\ UNCHANGED <<connection, mark, stamp, queue, upgraded, rows, lost>>
        /\ rec' = [rec EXCEPT !.stored = drain.stored]
        /\ drain' = [drain EXCEPT !.at = "done"]
    BY <1>7 DEF DrainEnds
  <2>2. /\ rec' \in [open : BOOLEAN, count : Nat, dropped : Nat, stored : Nat,
                     queueClosed : BOOLEAN]
        /\ rec'.open = rec.open /\ rec'.count = rec.count /\ rec'.dropped = rec.dropped
        /\ rec'.stored = drain.stored /\ rec'.queueClosed
    BY <2>1
  <2>3. /\ drain' \in [at : {"off", "select", "put", "persist", "done"}, batch : Nat,
                       stored : Nat, written : Nat]
        /\ drain'.at = "done" /\ drain'.batch = drain.batch /\ drain'.stored = drain.stored
    BY <2>1
  <2>4. Accounts'
    BY <1>2, <2>1, <2>2, <2>3 DEF Accounts
  <2>5. Closing'
    BY <1>2, <2>1, <2>2, <2>3 DEF Closing
  <2> QED
    BY <1>2, <2>1, <2>2, <2>3, <2>4, <2>5
<1>8. CASE WSClosed
  <2>1. /\ connection = "open" /\ \A d \in Dirs : pump[d].at = "ended"
        /\ connection' = IF rec.open THEN "waiting" ELSE "over"
        /\ rec' = [rec EXCEPT !.queueClosed = rec.open]
        /\ UNCHANGED <<mark, stamp, queue, drain, upgraded, rows, lost>>
    BY <1>8 DEF WSClosed, Returned
  <2>2. /\ rec' \in [open : BOOLEAN, count : Nat, dropped : Nat, stored : Nat,
                     queueClosed : BOOLEAN]
        /\ rec'.open = rec.open /\ rec'.count = rec.count /\ rec'.dropped = rec.dropped
        /\ rec'.stored = rec.stored /\ rec'.queueClosed = rec.open
    BY <2>1
  <2>3. Accounts'
    BY <1>2, <2>1, <2>2 DEF Accounts
  <2>4. Closing'
    BY <1>2, <2>1, <2>2 DEF Closing
  <2> QED
    BY <1>2, <2>1, <2>2, <2>3, <2>4
<1>9. CASE StoreClose
  <2>1. /\ connection = "waiting" /\ drain.at = "done"
        /\ connection' = IF upgraded.there THEN "stored" ELSE "over"
        /\ UNCHANGED <<mark, stamp, rec, queue, drain, rows, lost>>
    BY <1>9 DEF StoreClose
  <2>2. /\ upgraded' \in [there : BOOLEAN, messages : Nat, dropped : Nat, over : BOOLEAN,
                          subprotocol : BOOLEAN]
        /\ upgraded'.there = upgraded.there /\ upgraded'.subprotocol = upgraded.subprotocol
        /\ upgraded.there => /\ upgraded'.messages = rec.stored
                             /\ upgraded'.dropped = rec.dropped
    BY <1>9 DEF StoreClose
  <2>3. Accounts'
    BY <1>2, <2>1, <2>2 DEF Accounts
  <2>4. Closing'
    BY <1>2, <2>1, <2>2 DEF Closing
  <2> QED
    BY <1>2, <2>1, <2>2, <2>3, <2>4
<1> QED
  BY <1>3, <1>4, <1>5, <1>6, <1>7, <1>8, <1>9 DEF Drains, Ends

\* The peers of an upgraded connection get what was sent, in order and without a
\* gap, its entry is closed with figures that account for every message, and no
\* send meets a closed queue, for any number of frames, any queue and any cap.
THEOREM ConnectionsStayLogged ==
    Spec => []ConnectionsAreLogged
<1>1. Init => WebSocketLogInv
  <2> SUFFICES ASSUME Init PROVE WebSocketLogInv
    OBVIOUS
  <2>1. RelayTypeOK
    <3>1. /\ [at |-> "read", n |-> 1, err |-> FALSE] \in Pumps
          /\ <<>> \in Seq(Kinds) /\ <<>> \in Seq(Piece)
      BY DEF Pumps, PumpSteps
    <3> QED
      BY <3>1 DEF Init, RelayInit, RelayTypeOK
  <2>2. \A d \in Dirs : InStep(d)
    BY DEF Init, RelayInit, InStep, Judged, Passed
  <2>3. WebSocketLogTypeOK
    BY <2>1 DEF Init, WebSocketLogTypeOK, NoRecorder, AtRest
  <2>4. Accounts /\ Closing
    BY DEF Init, RelayInit, Accounts, Closing, NoRecorder, AtRest
  <2> QED
    BY <2>1, <2>2, <2>3, <2>4 DEF WebSocketLogInv, RelayInv
<1>2. WebSocketLogInv /\ [Next]_vars => WebSocketLogInv'
  <2> SUFFICES ASSUME WebSocketLogInv, [Next]_vars PROVE WebSocketLogInv'
    OBVIOUS
  <2>1. CASE Next
    <3>1. CASE \E d \in Dirs : Peers(d) \/ Relays(d) \/ Tell(d)
      BY <3>1, RelaysAndTells
    <3>2. CASE ~\E d \in Dirs : Peers(d) \/ Relays(d) \/ Tell(d)
      BY <2>1, <3>2, HandshakeSteps, DrainSteps DEF Next
    <3> QED
      BY <3>1, <3>2
  <2>2. CASE UNCHANGED vars
    <3>1. UNCHANGED relayVars /\ UNCHANGED logVars
      BY <2>2 DEF vars
    <3>2. RelayInv'
      BY <3>1 DEF relayVars, WebSocketLogInv, RelayInv, RelayTypeOK, InStep, Judged, Passed
    <3> QED
      BY <3>1, <3>2 DEF relayVars, logVars, WebSocketLogInv, WebSocketLogTypeOK, RelayInv,
                        Accounts, Closing
  <2> QED
    BY <2>1, <2>2
<1>3. WebSocketLogInv => ConnectionsAreLogged
  <2> SUFFICES ASSUME WebSocketLogInv PROVE ConnectionsAreLogged
    OBVIOUS
  <2>1. ASSUME NEW d \in Dirs, Judged(d) PROVE IsPrefix(delivered[d], Pieces(given[d]))
    <3> DEFINE s == delivered[d]
               t == Pieces(given[d])
    <3>1. /\ s \in Seq(Piece) /\ Len(s) \in Nat /\ given[d] \in Seq(Kinds)
          /\ Len(given[d]) \in Nat /\ pump[d].n \in Nat
      BY DEF WebSocketLogInv, RelayInv, RelayTypeOK, Pumps
    <3>2. /\ Len(s) <= 2 * Len(given[d])
          /\ \A k \in 1 .. Len(s) : s[k] = PieceAt(k)
      <4>1. InStep(d)
        BY DEF WebSocketLogInv, RelayInv
      <4>2. Passed(d) \in Int /\ Passed(d) <= Len(given[d])
        BY <3>1, <4>1 DEF InStep, Passed
      <4>3. Len(s) = 2 * Passed(d) /\ \A k \in 1 .. Len(s) : s[k] = PieceAt(k)
        BY <2>1, <4>1 DEF InStep
      <4>4. Len(s) <= 2 * Len(given[d])
        BY <3>1, <4>2, <4>3
      <4> QED
        BY <4>3, <4>4
    <3>3. /\ t \in Seq(Piece) /\ Len(t) = 2 * Len(given[d])
          /\ \A k \in 1 .. Len(t) : t[k] = PieceAt(k)
      BY <3>1 DEF Pieces, PieceAt, Piece
    <3> HIDE DEF s, t
    <3>4. SubSeq(s, 1, Len(s)) = s
      BY <3>1, SubSeqFull
    <3>5. /\ SubSeq(t, 1, Len(s)) \in Seq(Piece)
          /\ Len(SubSeq(t, 1, Len(s))) = Len(s)
          /\ \A k \in 1 .. Len(s) : SubSeq(t, 1, Len(s))[k] = t[k]
      BY <3>1, <3>2, <3>3, SubSeqProperties
    <3>6. SubSeq(t, 1, Len(s)) = s
      BY <3>1, <3>2, <3>3, <3>5, SeqEqual
    <3> QED
      BY <3>1, <3>2, <3>3, <3>4, <3>6 DEF IsPrefix, s, t
  <2>2. RelayIsFaithful
    BY <2>1 DEF RelayIsFaithful, Judged
  <2>3. FiguresAddUp
    BY DEF WebSocketLogInv, WebSocketLogTypeOK, Accounts, Closing, FiguresAddUp
  <2>4. NoSendOnClosedQueue
    BY DEF WebSocketLogInv, Closing, NoSendOnClosedQueue
  <2> QED
    BY <2>2, <2>3, <2>4 DEF ConnectionsAreLogged
<1> QED
  BY <1>1, <1>2, <1>3, PTL DEF Spec

-----------------------------------------------------------------------------
(* The way out.                                                            *)

\* Overrides have a first one.
LEMMA Least ==
    ASSUME NEW S \in SUBSET Nat, S # {}
    PROVE  \E x \in S : \A y \in S : x <= y
<1> DEFINE T == {0 .. x : x \in S}
<1>0. T # {}
  OBVIOUS
<1>1. T \subseteq FiniteSubsetsOf(Nat)
  <2>1. ASSUME NEW x \in S PROVE 0 .. x \in FiniteSubsetsOf(Nat)
    <3>1. x \in Int /\ 0 \in Int /\ 0 .. x \in SUBSET Nat
      OBVIOUS
    <3>2. IsFiniteSet(0 .. x)
      BY <3>1, FS_Interval
    <3> QED
      BY <3>1, <3>2 DEF FiniteSubsetsOf
  <2> QED
    BY <2>1
<1>2. PICK X \in T : \A Y \in T : <<Y, X>> \notin StrictSubsetOrdering(Nat)
  <2>1. IsWellFoundedOn(StrictSubsetOrdering(Nat), FiniteSubsetsOf(Nat))
    BY FS_StrictSubsetOrderingWellFounded
  <2> HIDE DEF T
  <2> QED
    BY <1>0, <1>1, <2>1, WFMin
<1>3. PICK x \in S : X = 0 .. x
  OBVIOUS
<1>4. ASSUME NEW y \in S, y < x PROVE FALSE
  <2>1. 0 .. y \in T
    OBVIOUS
  <2>2. 0 .. y \subseteq 0 .. x /\ 0 .. y # 0 .. x
    BY <1>4
  <2> QED
    BY <1>1, <1>2, <1>3, <2>1, <2>2 DEF StrictSubsetOrdering, FiniteSubsetsOf
<1> QED
  BY <1>4

\* Settings that may be in force.
InForce(s) == s \in ProjectSettings /\ Compiles(s)

\* Those of no project may.
LEMMA NoProjectInForce ==
    ASSUME WaysAssumption
    PROVE  InForce(NoProject)
<1>1. NoProject \in ProjectSettings
  BY DEF NoProject, ProjectSettings
<1> QED
  BY <1>1 DEF InForce, Compiles, NoProject, WaysAssumption

\* The entry of a host is the first override that is on and covers it.
LEMMA FirstEntry ==
    ASSUME WaysAssumption, NEW s, InForce(s), NEW h \in Hosts,
           NEW n \in 1 .. Len(s.overrides), s.overrides[n].on, h \in s.overrides[n].covers
    PROVE  \E m \in 1 .. Len(s.overrides) :
              /\ s.overrides[m].on /\ h \in s.overrides[m].covers
              /\ \A j \in 1 .. Len(s.overrides) :
                    s.overrides[j].on /\ h \in s.overrides[j].covers => m <= j
              /\ EntryOf(s, h) = s.overrides[m]
<1> DEFINE at == {i \in 1 .. Len(s.overrides) :
                     s.overrides[i].on /\ h \in s.overrides[i].covers}
<1>1. at \in SUBSET Nat /\ at # {}
  OBVIOUS
<1>2. \E x \in at : \A y \in at : x <= y
  <2> HIDE DEF at
  <2> QED
    BY <1>1, Least
<1>3. Min(at) \in at /\ \A y \in at : Min(at) <= y
  BY <1>2 DEF Min
<1>4. EntryOf(s, h) = s.overrides[Min(at)]
  BY <1>1 DEF EntryOf
<1> QED
  BY <1>3, <1>4

\* The three answers the transport is given, each asked for on its own, are together
\* what the settings mean.
LEMMA EntryIs ==
    ASSUME WaysAssumption, NEW s, InForce(s), NEW h \in Hosts
    PROVE  /\ EntryOf(s, h) \in Overrides \cup {None}
           /\ Means(s, h) = [scheme |-> SchemeOf(s, h, "https"), via |-> Via(s, h),
                             to |-> Dialled(s, h, Via(s, h))]
<1> DEFINE Covers(i) == s.overrides[i].on /\ h \in s.overrides[i].covers
           first == {i \in 1 .. Len(s.overrides) :
                        Covers(i) /\ \A j \in 1 .. (i - 1) : ~Covers(j)}
<1>1. s.overrides \in Seq(Overrides)
  BY DEF InForce, ProjectSettings
<1>2. CASE \E n \in 1 .. Len(s.overrides) : Covers(n)
  <2>1. PICK m \in 1 .. Len(s.overrides) :
           /\ Covers(m)
           /\ \A j \in 1 .. Len(s.overrides) : Covers(j) => m <= j
           /\ EntryOf(s, h) = s.overrides[m]
    BY <1>2, FirstEntry
  <2>2. s.overrides[m] \in Overrides /\ s.overrides[m] # None
    BY <1>1 DEF WaysAssumption
  <2>3. first = {m}
    <3>1. ASSUME NEW i \in first PROVE i = m
      <4>1. i \in 1 .. Len(s.overrides) /\ m <= i /\ (m < i => m \in 1 .. (i - 1))
        BY <2>1
      <4> QED
        BY <2>1, <4>1
    <3>2. m \in first
      <4>1. ASSUME NEW j \in 1 .. (m - 1), Covers(j) PROVE FALSE
        <5>1. j \in 1 .. Len(s.overrides) /\ ~(m <= j)
          OBVIOUS
        <5> QED
          BY <2>1, <4>1, <5>1
      <4> QED
        BY <2>1, <4>1
    <3> QED
      BY <3>1, <3>2
  <2>4. (CHOOSE i \in first : TRUE) = m
    BY <2>3
  <2>5. Means(s, h) = [scheme |-> IF s.overrides[m].scheme = None THEN "https"
                                  ELSE s.overrides[m].scheme,
                       via |-> None, to |-> s.overrides[m].address]
    BY <2>3, <2>4 DEF Means
  <2> QED
    BY <2>1, <2>2, <2>5 DEF SchemeOf, Via, Dialled
<1>3. CASE ~\E n \in 1 .. Len(s.overrides) : Covers(n)
  <2>1. EntryOf(s, h) = None
    BY <1>3 DEF EntryOf
  <2>2. first = {}
    BY <1>3
  <2>3. Means(s, h) = IF s.upstream # None /\ h \notin s.bypass
                      THEN [scheme |-> "https", via |-> s.upstream, to |-> s.upstream]
                      ELSE [scheme |-> "https", via |-> None, to |-> h]
    BY <2>2 DEF Means
  <2> QED
    BY <2>1, <2>3 DEF SchemeOf, Via, Dialled
<1> QED
  BY <1>2, <1>3

\* Where a request stands, and the connection it has.
Sending ==
    [at : {"idle", "scheme", "via", "conn", "dial", "use", "done"},
     host : {None} \cup Hosts, tunnel : BOOLEAN, scheme : {None} \cup Schemes,
     via : {None, Upstream}, conn : {None} \cup Requests]

WaysTypeOK ==
    /\ InForce(current)
    /\ notified \in BOOLEAN
    /\ way \in [Requests -> Sending]
    /\ conn \in [Requests -> {None} \cup Connections]
    /\ crossed \subseteq Requests

\* What a request that no change has met was told so far is what holds still.
OnCourse(r) ==
    /\ way[r].at # "idle" => way[r].host \in Hosts
    /\ way[r].at \notin {"idle", "done"} =>
          /\ way[r].scheme \in Schemes
          /\ way[r].tunnel => way[r].at \in {"via", "dial", "use"}
          /\ r \notin crossed =>
                /\ notified
                /\ way[r].tunnel => Passes(current, way[r].host)
                /\ way[r].at = "scheme" => way[r].scheme = "https"
                /\ way[r].at # "scheme" /\ ~way[r].tunnel =>
                      way[r].scheme = SchemeOf(current, way[r].host, "https")
                /\ way[r].at \in {"conn", "dial", "use"} =>
                      way[r].via = Via(current, way[r].host)

\* The connection of a request goes where the request goes, and is nobody
\* else's if it is a tunnel.
Holds(r) ==
    way[r].at = "use" =>
        /\ way[r].conn \in Requests /\ conn[way[r].conn] # None
        /\ r \in conn[way[r].conn].users
        /\ conn[way[r].conn].host = way[r].host
        /\ conn[way[r].conn].via = way[r].via
        /\ way[r].tunnel => ~conn[way[r].conn].shared

\* A connection is under the request that dialled it, is one request's at a time
\* unless it is shared, and goes to where the settings have its host.
Placed(c) ==
    conn[c] # None =>
        /\ way[c].at \in {"use", "done"}
        /\ ~conn[c].shared => \A x, y \in conn[c].users : x = y
        /\ c \notin crossed /\ notified =>
              conn[c].to = Dialled(current, conn[c].host, conn[c].via)

WaysInv ==
    /\ WaysTypeOK
    /\ \A r \in Requests : OnCourse(r) /\ Holds(r) /\ Placed(r)

\* Whatever is in use when the settings are swapped has been in use across it.
LEMMA EditStep ==
    ASSUME WaysAssumption, WaysInv, NEW s \in Settings, Edit(s)
    PROVE  WaysInv'
<1>1. WaysTypeOK'
  <2>1. InForce(s)
    BY DEF Edit, InForce, WaysAssumption
  <2> QED
    BY <2>1 DEF Edit, WaysInv, WaysTypeOK, InUse, UnderWay, InForce, Compiles, ProjectSettings
<1>2. \A r \in Requests : way[r].at \notin {"idle", "done"} => r \in crossed'
  BY DEF Edit, InUse, UnderWay
<1>3. ASSUME NEW r \in Requests PROVE OnCourse(r)' /\ Holds(r)' /\ Placed(r)'
  <2>1. OnCourse(r)'
    BY <1>2 DEF Edit, WaysInv, OnCourse
  <2>2. Holds(r)'
    BY DEF Edit, WaysInv, Holds
  <2>3. Placed(r)'
    BY DEF Edit, WaysInv, Placed
  <2> QED
    BY <2>1, <2>2, <2>3
<1> QED
  BY <1>1, <1>3 DEF WaysInv

\* Connections that nobody uses are gone, and those in use are known to have
\* been in use across the change.
LEMMA NotifyStep ==
    ASSUME WaysAssumption, WaysInv, Notify
    PROVE  WaysInv'
<1> USE DEF Notify
<1>1. WaysTypeOK'
  BY DEF WaysInv, WaysTypeOK, InUse, UnderWay, InForce, Compiles
<1>2. \A r \in Requests : way[r].at \notin {"idle", "done"} => r \in crossed'
  BY DEF InUse, UnderWay
<1>3. \A c \in Requests : conn'[c] # None =>
         conn'[c] = conn[c] /\ conn[c].users # {} /\ c \in crossed'
  BY DEF InUse
<1>4. \A c \in Requests : conn[c] # None /\ conn[c].users # {} => conn'[c] = conn[c]
  OBVIOUS
<1>5. ASSUME NEW r \in Requests PROVE OnCourse(r)' /\ Holds(r)' /\ Placed(r)'
  <2>1. OnCourse(r)'
    BY <1>2 DEF WaysInv, OnCourse
  <2>2. Holds(r)'
    BY <1>4 DEF WaysInv, Holds
  <2>3. Placed(r)'
    BY <1>3 DEF WaysInv, Placed
  <2> QED
    BY <2>1, <2>2, <2>3
<1> QED
  BY <1>1, <1>5 DEF WaysInv

\* A step of a request that has no connection yet and gets none.
LEMMA WayStep ==
    ASSUME WaysInv, NEW r \in Requests, NEW m \in Sending,
           way' = [way EXCEPT ![r] = m], way[r].at \notin {"use", "done"},
           m.at # "use", UNCHANGED <<current, notified, conn>>,
           crossed' \in SUBSET Requests, crossed \subseteq crossed', OnCourse(r)'
    PROVE  WaysInv'
<1>1. WaysTypeOK'
  BY DEF WaysInv, WaysTypeOK, InForce, Compiles
<1>2. way \in [Requests -> Sending]
  BY DEF WaysInv, WaysTypeOK
<1>3. ASSUME NEW x \in Requests PROVE OnCourse(x)' /\ Holds(x)' /\ Placed(x)'
  <2>1. OnCourse(x)'
    <3>1. CASE x = r
      BY <3>1
    <3>2. CASE x # r
      <4>1. way'[x] = way[x]
        BY <1>2, <3>2
      <4> QED
        BY <4>1 DEF WaysInv, OnCourse
    <3> QED
      BY <3>1, <3>2
  <2>2. Holds(x)'
    <3>1. way'[x].at = "use" => x # r /\ way'[x] = way[x]
      BY <1>2
    <3> QED
      BY <3>1 DEF WaysInv, Holds
  <2>3. Placed(x)'
    <3>1. conn[x] # None => x # r
      BY DEF WaysInv, Placed
    <3>2. conn[x] # None => way'[x] = way[x]
      BY <1>2, <3>1
    <3> QED
      BY <3>2 DEF WaysInv, Placed
  <2> QED
    BY <2>1, <2>2, <2>3
<1> QED
  BY <1>1, <1>3 DEF WaysInv

\* What the three answers can be.
LEMMA ViaIs ==
    ASSUME WaysAssumption, NEW s, InForce(s), NEW h \in Hosts
    PROVE  /\ Via(s, h) \in {None, Upstream}
           /\ \A scheme \in Schemes : SchemeOf(s, h, scheme) \in Schemes
           /\ \A v \in {None, Upstream} :
                 Dialled(s, h, v) \in Hosts \cup Addresses \cup {None, Upstream}
<1>1. EntryOf(s, h) \in Overrides \cup {None}
  BY EntryIs
<1>2. s.upstream \in {None, Upstream}
  BY DEF InForce, ProjectSettings
<1> QED
  BY <1>1, <1>2 DEF Via, SchemeOf, Dialled, Overrides

\* A request sets out and asks for its scheme and its proxy.
LEMMA SetOutSteps ==
    ASSUME WaysAssumption, WaysInv, NEW r \in Requests,
           (\E h \in Hosts, connect \in BOOLEAN : SetOut(r, h, connect))
             \/ SwitchScheme(r) \/ AskProxy(r)
    PROVE  WaysInv'
<1>0. InForce(current) /\ way \in [Requests -> Sending] /\ crossed \subseteq Requests
      /\ notified \in BOOLEAN
  BY DEF WaysInv, WaysTypeOK
<1>1. CASE \E h \in Hosts, connect \in BOOLEAN : SetOut(r, h, connect)
  <2>1. PICK h \in Hosts, connect \in BOOLEAN : SetOut(r, h, connect)
    BY <1>1
  <2> DEFINE tunnel == connect /\ Passes(current, h)
             m == [Unsent EXCEPT !.at = IF tunnel THEN "via" ELSE "scheme", !.host = h,
                                 !.tunnel = tunnel, !.scheme = "https"]
  <2>2. tunnel \in BOOLEAN
    BY DEF Passes
  <2>3. m \in Sending
    BY <2>2 DEF Unsent, Sending, Schemes
  <2>4. /\ m.at = IF tunnel THEN "via" ELSE "scheme"
        /\ m.host = h /\ m.tunnel = tunnel /\ m.scheme = "https"
    BY DEF Unsent
  <2>5. way' = [way EXCEPT ![r] = m] /\ UNCHANGED <<current, notified, conn>>
    BY <2>1 DEF SetOut
  <2>6. way'[r] = m
    BY <1>0, <2>5
  <2>7. way[r].at = "idle" /\ crossed' = IF notified THEN crossed ELSE crossed \cup {r}
    BY <2>1 DEF SetOut
  <2> HIDE DEF m
  <2>8. OnCourse(r)'
    BY <1>0, <2>4, <2>5, <2>6, <2>7 DEF OnCourse, Schemes
  <2> QED
    BY <1>0, <2>3, <2>4, <2>5, <2>7, <2>8, WayStep
<1>2. CASE SwitchScheme(r)
  <2> DEFINE m == [way[r] EXCEPT !.scheme = SchemeOf(current, way[r].host, @), !.at = "via"]
  <2>1. /\ way[r].at = "scheme" /\ way[r] \in Sending /\ way[r].host \in Hosts
        /\ way[r].scheme \in Schemes
    BY <1>0, <1>2 DEF SwitchScheme, WaysInv, OnCourse
  <2>2. m \in Sending
    BY <1>0, <2>1, ViaIs DEF Sending
  <2>3. /\ m.at = "via" /\ m.scheme = SchemeOf(current, way[r].host, way[r].scheme)
        /\ m.host = way[r].host /\ m.tunnel = way[r].tunnel
    BY <2>1 DEF Sending
  <2>4. /\ way' = [way EXCEPT ![r] = m]
        /\ UNCHANGED <<current, notified, conn, crossed>>
    BY <1>2 DEF SwitchScheme
  <2>5. way'[r] = m
    BY <1>0, <2>4
  <2> HIDE DEF m
  <2>6. m.scheme \in Schemes
    <3>1. SchemeOf(current, way[r].host, way[r].scheme) \in Schemes
      BY <1>0, <2>1, ViaIs
    <3> QED
      BY <2>3, <3>1
  <2>7. OnCourse(r)'
    BY <2>1, <2>3, <2>4, <2>5, <2>6 DEF OnCourse, WaysInv
  <2> QED
    BY <1>0, <2>1, <2>2, <2>3, <2>4, <2>7, WayStep
<1>3. CASE AskProxy(r)
  <2> DEFINE m == [way[r] EXCEPT !.via = Via(current, way[r].host),
                                 !.at = IF way[r].tunnel THEN "dial" ELSE "conn"]
  <2>1. way[r].at = "via" /\ way[r] \in Sending /\ way[r].host \in Hosts
    BY <1>0, <1>3 DEF AskProxy, WaysInv, OnCourse
  <2>2. m \in Sending
    BY <1>0, <2>1, ViaIs DEF Sending
  <2>3. /\ m.at = (IF way[r].tunnel THEN "dial" ELSE "conn")
        /\ m.via = Via(current, way[r].host) /\ m.scheme = way[r].scheme
        /\ m.host = way[r].host /\ m.tunnel = way[r].tunnel
    BY <2>1 DEF Sending
  <2>4. /\ way' = [way EXCEPT ![r] = m]
        /\ UNCHANGED <<current, notified, conn, crossed>>
    BY <1>3 DEF AskProxy
  <2>5. way'[r] = m
    BY <1>0, <2>4
  <2> HIDE DEF m
  <2>6. OnCourse(r)'
    BY <2>1, <2>3, <2>4, <2>5 DEF OnCourse, WaysInv
  <2> QED
    BY <1>0, <2>1, <2>2, <2>3, <2>4, <2>6, WayStep
<1> QED
  BY <1>1, <1>2, <1>3

\* A request takes a connection, dials one and lets go of it.
LEMMA ConnSteps ==
    ASSUME WaysAssumption, WaysInv, NEW r \in Requests,
           GetConn(r) \/ DialOut(r) \/ Finish(r)
    PROVE  WaysInv'
<1>0. /\ InForce(current) /\ way \in [Requests -> Sending] /\ crossed \subseteq Requests
      /\ notified \in BOOLEAN /\ conn \in [Requests -> {None} \cup Connections]
  BY DEF WaysInv, WaysTypeOK
<1>1. UNCHANGED <<current, notified, crossed>>
  BY DEF GetConn, DialOut, Finish
<1>2. way[r] \in Sending /\ way[r].host \in Hosts /\ way[r].scheme \in Schemes
  BY <1>0 DEF GetConn, DialOut, Finish, WaysInv, OnCourse
<1>3. ASSUME NEW at \in {"dial", "done"}, way' = [way EXCEPT ![r].at = at]
      PROVE  /\ way' \in [Requests -> Sending]
             /\ way'[r].at = at /\ way'[r].host = way[r].host
             /\ way'[r].tunnel = way[r].tunnel /\ way'[r].scheme = way[r].scheme
             /\ way'[r].via = way[r].via /\ way'[r].conn = way[r].conn
             /\ \A x \in Requests \ {r} : way'[x] = way[x]
  BY <1>0, <1>2, <1>3 DEF Sending
<1>4. ASSUME NEW c \in Requests, way' = [way EXCEPT ![r].at = "use", ![r].conn = c]
      PROVE  /\ way' \in [Requests -> Sending]
             /\ way'[r].at = "use" /\ way'[r].host = way[r].host
             /\ way'[r].tunnel = way[r].tunnel /\ way'[r].scheme = way[r].scheme
             /\ way'[r].via = way[r].via /\ way'[r].conn = c
             /\ \A x \in Requests \ {r} : way'[x] = way[x]
  BY <1>0, <1>2, <1>4 DEF Sending
<1>5. CASE GetConn(r)
  <2>1. CASE \E c \in Requests : Fits(r, c)
    <3>1. PICK c \in Requests :
             /\ Fits(r, c)
             /\ way' = [way EXCEPT ![r].at = "use", ![r].conn = c]
             /\ conn' = [conn EXCEPT ![c].users = @ \cup {r}]
      BY <1>5, <2>1 DEF GetConn
    <3>2. conn[c] \in Connections /\ conn[c] # None
      BY <1>0, <3>1 DEF Fits
    <3> DEFINE k == [conn[c] EXCEPT !.users = @ \cup {r}]
    <3>3. /\ k \in Connections /\ k.users = conn[c].users \cup {r}
          /\ k.host = conn[c].host /\ k.via = conn[c].via /\ k.to = conn[c].to
          /\ k.shared = conn[c].shared
      BY <3>2 DEF Connections
    <3>4. conn'[c] = k /\ \A x \in Requests \ {c} : conn'[x] = conn[x]
      BY <1>0, <3>1
    <3>5. conn' \in [Requests -> {None} \cup Connections]
      BY <1>0, <3>1, <3>3
    <3>6. k # None
      BY <3>3 DEF WaysAssumption
    <3> HIDE DEF k
    <3>7. way[r].at = "conn" /\ ~way[r].tunnel
      BY <1>5 DEF GetConn, WaysInv, OnCourse
    <3>8. /\ way' \in [Requests -> Sending]
          /\ way'[r].at = "use" /\ way'[r].host = way[r].host
          /\ way'[r].tunnel = way[r].tunnel /\ way'[r].scheme = way[r].scheme
          /\ way'[r].via = way[r].via /\ way'[r].conn = c
          /\ \A x \in Requests \ {r} : way'[x] = way[x]
      BY <1>4, <3>1
    <3>9. WaysTypeOK'
      BY <1>0, <1>1, <3>8, <3>5 DEF WaysTypeOK, InForce, Compiles
    <3>10. ASSUME NEW x \in Requests PROVE OnCourse(x)' /\ Holds(x)' /\ Placed(x)'
      <4>1. OnCourse(x)'
        <5>1. CASE x = r
          BY <1>1, <3>7, <3>8, <5>1 DEF WaysInv, OnCourse
        <5>2. CASE x # r
          BY <1>1, <3>8, <5>2 DEF WaysInv, OnCourse
        <5> QED
          BY <5>1, <5>2
      <4>2. Holds(x)'
        <5>1. CASE x = r
          BY <3>1, <3>3, <3>4, <3>6, <3>7, <3>8, <5>1 DEF Fits, Holds
        <5>2. CASE x # r
          <6>1. way'[x] = way[x]
            BY <3>8, <5>2
          <6>2. CASE way[x].conn = c
            BY <3>3, <3>4, <3>6, <6>1, <6>2 DEF WaysInv, Holds
          <6>3. CASE way[x].conn # c
            BY <3>4, <6>1, <6>3 DEF WaysInv, Holds
          <6> QED
            BY <6>2, <6>3
        <5> QED
          BY <5>1, <5>2
      <4>3. Placed(x)'
        <5>1. conn[x] # None => way'[x].at \in {"use", "done"}
          BY <3>8 DEF WaysInv, Placed
        <5>2. CASE x = c
          BY <1>1, <3>1, <3>2, <3>3, <3>4, <5>1, <5>2 DEF Fits, WaysInv, Placed
        <5>3. CASE x # c
          BY <1>1, <3>4, <5>1, <5>3 DEF WaysInv, Placed
        <5> QED
          BY <5>2, <5>3
      <4> QED
        BY <4>1, <4>2, <4>3
    <3> QED
      BY <3>9, <3>10 DEF WaysInv
  <2>2. CASE ~\E c \in Requests : Fits(r, c)
    <3>1. way' = [way EXCEPT ![r].at = "dial"] /\ UNCHANGED conn /\ way[r].at = "conn"
      BY <1>5, <2>2 DEF GetConn
    <3> DEFINE m == [way[r] EXCEPT !.at = "dial"]
    <3>2. m \in Sending /\ m.at = "dial"
      BY <1>2 DEF Sending
    <3>3. way' = [way EXCEPT ![r] = m]
      BY <1>0, <3>1
    <3>4. OnCourse(r)'
      BY <1>1, <1>3, <3>1 DEF WaysInv, OnCourse
    <3> HIDE DEF m
    <3> QED
      BY <1>0, <1>1, <3>1, <3>2, <3>3, <3>4, WayStep
  <2> QED
    BY <2>1, <2>2
<1>6. CASE DialOut(r)
  <2>1. PICK shared \in BOOLEAN :
           /\ shared => ~way[r].tunnel /\ way[r].scheme = "https"
           /\ conn' = [conn EXCEPT ![r] =
                 [scheme |-> way[r].scheme, host |-> way[r].host, via |-> way[r].via,
                  to |-> Dialled(current, way[r].host, way[r].via),
                  users |-> {r}, shared |-> shared]]
    BY <1>6 DEF DialOut
  <2> DEFINE k == [scheme |-> way[r].scheme, host |-> way[r].host, via |-> way[r].via,
                   to |-> Dialled(current, way[r].host, way[r].via),
                   users |-> {r}, shared |-> shared]
  <2>2. way[r].at = "dial" /\ way' = [way EXCEPT ![r].at = "use", ![r].conn = r]
    BY <1>6 DEF DialOut
  <2>3. k \in Connections
    <3>1. way[r].via \in {None, Upstream}
      BY <1>2 DEF Sending
    <3>2. Dialled(current, way[r].host, way[r].via)
             \in Hosts \cup Addresses \cup {None, Upstream}
      BY <1>0, <1>2, <3>1, ViaIs
    <3> QED
      BY <1>2, <3>1, <3>2 DEF Connections
  <2>4. k # None
    BY <2>3 DEF WaysAssumption
  <2>5. /\ k.host = way[r].host /\ k.via = way[r].via /\ k.users = {r}
        /\ k.to = Dialled(current, k.host, k.via) /\ k.shared = shared
    OBVIOUS
  <2>6. /\ conn'[r] = k /\ \A x \in Requests \ {r} : conn'[x] = conn[x]
        /\ conn' \in [Requests -> {None} \cup Connections]
    BY <1>0, <2>1, <2>3
  <2> HIDE DEF k
  <2>7. conn[r] = None
    BY <2>2 DEF WaysInv, Placed
  <2>8. /\ way' \in [Requests -> Sending]
        /\ way'[r].at = "use" /\ way'[r].host = way[r].host
        /\ way'[r].tunnel = way[r].tunnel /\ way'[r].scheme = way[r].scheme
        /\ way'[r].via = way[r].via /\ way'[r].conn = r
        /\ \A x \in Requests \ {r} : way'[x] = way[x]
    BY <1>4, <2>2
  <2>9. WaysTypeOK'
    BY <1>0, <1>1, <2>8, <2>6 DEF WaysTypeOK, InForce, Compiles
  <2>10. ASSUME NEW x \in Requests PROVE OnCourse(x)' /\ Holds(x)' /\ Placed(x)'
    <3>1. OnCourse(x)'
      <4>1. CASE x = r
        BY <1>1, <2>2, <2>8, <4>1 DEF WaysInv, OnCourse
      <4>2. CASE x # r
        BY <1>1, <2>8, <4>2 DEF WaysInv, OnCourse
      <4> QED
        BY <4>1, <4>2
    <3>2. Holds(x)'
      <4>1. CASE x = r
        BY <2>1, <2>4, <2>5, <2>6, <2>8, <4>1 DEF Holds
      <4>2. CASE x # r
        <5>1. way'[x] = way[x]
          BY <2>8, <4>2
        <5>2. way[x].at = "use" => way[x].conn # r
          BY <2>7 DEF WaysInv, Holds
        <5> QED
          BY <2>6, <5>1, <5>2 DEF WaysInv, Holds
      <4> QED
        BY <4>1, <4>2
    <3>3. Placed(x)'
      <4>1. CASE x = r
        BY <1>1, <2>5, <2>6, <2>8, <4>1 DEF Placed
      <4>2. CASE x # r
        BY <1>1, <2>6, <2>8, <4>2 DEF WaysInv, Placed
      <4> QED
        BY <4>1, <4>2
    <3> QED
      BY <3>1, <3>2, <3>3
  <2> QED
    BY <2>9, <2>10 DEF WaysInv
<1>7. CASE Finish(r)
  <2> DEFINE c == way[r].conn
             ends == way[r].tunnel \/ (closing /\ ~conn[c].shared)
             k == [conn[c] EXCEPT !.users = @ \ {r}]
  <2>0. conn' = [conn EXCEPT ![c] = IF ends THEN None ELSE k]
    BY <1>7 DEF Finish
  <2>1. way[r].at = "use" /\ way' = [way EXCEPT ![r].at = "done"]
    BY <1>7 DEF Finish
  <2>2. /\ c \in Requests /\ conn[c] # None /\ r \in conn[c].users
        /\ way[r].tunnel => ~conn[c].shared
    BY <2>1 DEF WaysInv, Holds
  <2>3. conn[c] \in Connections
    BY <1>0, <2>2
  <2>4. /\ k \in Connections /\ k.users = conn[c].users \ {r}
        /\ k.host = conn[c].host /\ k.via = conn[c].via /\ k.to = conn[c].to
        /\ k.shared = conn[c].shared
    BY <2>3 DEF Connections
  <2>5. /\ conn'[c] = IF ends THEN None ELSE k
        /\ \A x \in Requests \ {c} : conn'[x] = conn[x]
        /\ conn' \in [Requests -> {None} \cup Connections]
    <3>1. c \in DOMAIN conn
      BY <1>0, <2>2
    <3>2. conn'[c] = IF ends THEN None ELSE k
      BY <2>0, <3>1
    <3>3. \A x \in Requests \ {c} : conn'[x] = conn[x]
      BY <1>0, <2>0
    <3>4. conn' = [x \in Requests |-> conn'[x]]
      BY <1>0, <2>0
    <3> HIDE DEF ends, k
    <3>5. \A x \in Requests : conn'[x] \in {None} \cup Connections
      BY <1>0, <2>4, <3>2, <3>3
    <3> QED
      BY <3>2, <3>3, <3>4, <3>5
  <2>6. k # None
    BY <2>4 DEF WaysAssumption
  <2>7. ends => conn[c].users = {r}
    <3>1. ends => ~conn[c].shared
      BY <2>2
    <3> QED
      BY <2>2, <3>1 DEF WaysInv, Placed
  <2> HIDE DEF k, ends
  <2>8. WaysTypeOK'
    BY <1>0, <1>1, <1>3, <2>1, <2>5 DEF WaysTypeOK, InForce, Compiles
  <2>9. ASSUME NEW x \in Requests PROVE OnCourse(x)' /\ Holds(x)' /\ Placed(x)'
    <3>1. OnCourse(x)'
      BY <1>1, <1>3, <2>1 DEF WaysInv, OnCourse
    <3>2. Holds(x)'
      <4>1. way'[x].at = "use" => x # r /\ way'[x] = way[x]
        BY <1>3, <2>1
      <4>2. way'[x].at = "use" /\ way[x].conn = c => ~ends
        BY <2>7, <4>1 DEF WaysInv, Holds
      <4> QED
        BY <2>4, <2>5, <2>6, <4>1, <4>2 DEF WaysInv, Holds
    <3>3. Placed(x)'
      <4>1. conn[x] # None => way'[x].at \in {"use", "done"}
        BY <1>3, <2>1 DEF WaysInv, Placed
      <4>2. CASE x = c
        BY <1>1, <2>2, <2>4, <2>5, <4>1, <4>2 DEF WaysInv, Placed
      <4>3. CASE x # c
        BY <1>1, <2>5, <4>1, <4>3 DEF WaysInv, Placed
      <4> QED
        BY <4>2, <4>3
    <3> QED
      BY <3>1, <3>2, <3>3
  <2> QED
    BY <2>8, <2>9 DEF WaysInv
<1> QED
  BY <1>5, <1>6, <1>7

\* The invariant holds from the start and through every step.
LEMMA WaysAreSound ==
    ASSUME WaysAssumption
    PROVE  WaysSpec => []WaysInv
<1>1. WaysInit => WaysInv
  <2> SUFFICES ASSUME WaysInit PROVE WaysInv
    OBVIOUS
  <2>1. InForce(current)
    BY NoProjectInForce DEF WaysInit, InForce, WaysAssumption
  <2>2. Unsent \in Sending /\ Unsent.at = "idle"
    BY DEF Unsent, Sending
  <2> QED
    BY <2>1, <2>2 DEF WaysInit, WaysInv, WaysTypeOK, OnCourse, Holds, Placed
<1>2. WaysInv /\ [WaysNext]_waysVars => WaysInv'
  <2> SUFFICES ASSUME WaysInv, [WaysNext]_waysVars PROVE WaysInv'
    OBVIOUS
  <2>1. CASE \E s \in Settings : Edit(s)
    BY <2>1, EditStep
  <2>2. CASE Notify
    BY <2>2, NotifyStep
  <2>3. CASE \E r \in Requests : Step(r)
    BY <2>3, SetOutSteps, ConnSteps DEF Step
  <2>4. CASE UNCHANGED waysVars
    BY <2>4 DEF waysVars, WaysInv, WaysTypeOK, OnCourse, Holds, Placed, InForce, Compiles
  <2> QED
    BY <2>1, <2>2, <2>3, <2>4 DEF WaysNext
<1> QED
  BY <1>1, <1>2, PTL DEF WaysSpec

\* A request goes the way the settings in force mean, over a new connection and
\* over a pooled one, for any number of requests, overrides and edits.
THEOREM WaysAreMeant ==
    ASSUME WaysAssumption
    PROVE  WaysSpec => []WayIsMeant
<1>1. WaysInv => WayIsMeant
  <2> SUFFICES ASSUME WaysInv, NEW r \in Requests, way[r].at = "use", r \notin crossed,
                      way[r].conn \notin crossed
               PROVE  /\ way[r].via = Means(current, way[r].host).via
                      /\ conn[way[r].conn].to = Means(current, way[r].host).to
                      /\ ~way[r].tunnel => way[r].scheme = Means(current, way[r].host).scheme
                      /\ way[r].tunnel => Passes(current, way[r].host)
    BY DEF WayIsMeant
  <2>1. /\ way[r].host \in Hosts /\ notified
        /\ way[r].tunnel => Passes(current, way[r].host)
        /\ ~way[r].tunnel => way[r].scheme = SchemeOf(current, way[r].host, "https")
        /\ way[r].via = Via(current, way[r].host)
    BY DEF WaysInv, OnCourse
  <2>2. conn[way[r].conn].to = Dialled(current, way[r].host, way[r].via)
    BY <2>1 DEF WaysInv, Holds, Placed
  <2>3. Means(current, way[r].host) =
           [scheme |-> SchemeOf(current, way[r].host, "https"),
            via |-> Via(current, way[r].host),
            to |-> Dialled(current, way[r].host, Via(current, way[r].host))]
    BY <2>1, EntryIs DEF WaysInv, WaysTypeOK
  <2> QED
    BY <2>1, <2>2, <2>3
<1> QED
  BY <1>1, WaysAreSound, PTL
=============================================================================
