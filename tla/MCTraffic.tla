------------------------------ MODULE MCTraffic ------------------------------
(***************************************************************************)
(* What an exchange meets on its way through the proxy, on small           *)
(* instances: the hooks, the rules, the way out, the filter language, the  *)
(* certificates, the frames of a connection and the start and stop of the  *)
(* program.  As in MCServices a behaviour is one of one of them.           *)
(***************************************************************************)
EXTENDS Integers, Sequences, FiniteSets, TLC

CONSTANTS x1, x2, x3, p, q, h1, h2, h3, a1, a2, t1, bad, Upstream, None

VARIABLES
    focus,                                                  \* what runs
    openProject, clearing, switches, captured, ex, entry, upstream, client,
    overtaken, late,
    rules, saves, was, at, matched, left, req, answer, given, res,
    current, edits, notified, closing, way, conn, crossed,
    query, alphabet,
    certFile, keyFile, minted, boot, root, trusted, cached, order, shake, tampered,
    frames, asm, copying, out,
    phase, spent, server, failed, streams, call, early, browser, profile, launcher,
    sent, hungUp, pump, delivered, closed, emitted,
    connection, mark, stamp, rec, queue, drain, upgraded, rows, lost

exchange == <<openProject, clearing, switches, captured, ex, entry, upstream,
              client, overtaken, late>>
rewriting == <<rules, saves, was, at, matched, left, req, answer, given, res>>
ways == <<current, edits, notified, closing, way, conn, crossed>>
filter == <<query, alphabet>>
certificates == <<certFile, keyFile, minted, boot, root, trusted, cached, order,
                  shake, tampered>>
socket == <<frames, asm, copying, out>>
program == <<phase, spent, server, failed, streams, call, early, browser,
             profile, launcher>>

relay == <<sent, hungUp, pump, delivered, closed, emitted,
           connection, mark, stamp, rec, queue, drain, upgraded, rows, lost>>

trafficVars == <<focus, exchange, rewriting, ways, filter, certificates, socket, program,
          relay>>

-----------------------------------------------------------------------------
INSTANCE Exchange WITH
    Exchanges <- {x1, x2}, Projects <- {p, q}, MaxSwitches <- 1,
    RuleSets <- {{"useValue", "replaceRequest", "replaceResponse", "capture"},
                 {"mock", "delay"}}

INSTANCE Serve WITH Streams <- {t1}, Calls <- {x1, x2}, Window <- 2

INSTANCE Certificates WITH
    Hosts <- {h1, h2, h3}, Handshakes <- {x1, x2}, MaxCached <- 2, MaxRoots <- 2

Filter == INSTANCE Filter WITH
    Words <- <<"1", "k">>, MaxTokens <- 5,
    Alphabets <- {{"k", "AND", "OR", "NOT", "(", ")"},
                  {"k", "1", "=", "in", "(", ",", ")"},
                  {"k", "1", "!=", ">", "exists", "OR"}}

(* Lists of rules that meet in one exchange.                               *)
Action(t) == [type |-> t, old |-> None, list |-> <<>>, status |-> 0, value |-> None,
           pattern |-> None]

Always(a) == [on |-> TRUE, method |-> None, url |-> None, filter |-> None, action |-> a]

OnURL(url, a) == [Always(a) EXCEPT !.url = url]

Sets(t, v) == [Action(t) EXCEPT !.list = <<v>>]

Replaces(t, from, to) == [Action(t) EXCEPT !.list = <<[pattern |-> {from}, value |-> to]>>]

Mocks == Always([Action("mock") EXCEPT !.value = "mocked"])

SetsStatus(n) == Always([Action("set_status") EXCEPT !.status = n])

Rewrites == [Action("rewrite_url") EXCEPT !.value = "b"]

RuleLists ==
    { << OnURL({"a"}, Rewrites), OnURL({"a"}, Sets("set_response_header", "h1")),
         [Always(Action("remove_response_header")) EXCEPT !.action.list = <<None>>, !.url = {"b"}] >>,
      << Always(Sets("set_request_header", "h1")),
         [Always(Action("block")) EXCEPT !.filter = {"h1"}], Mocks, SetsStatus(404) >>,
      << [Always([Action("block") EXCEPT !.status = 599]) EXCEPT !.on = FALSE, !.filter = {None}],
         Always([Replaces("replace_request_body", "x", "y")
                  EXCEPT !.old = [pattern |-> {"q"}, value |-> "x"]]),
         Always(Action("delay")), Always(Action("allow_cors")) >>,
      << Always(Replaces("replace_body", "x", "y")), Always(Action("delay_response")),
         SetsStatus(500), Always(Sets("set_response_header", "h2")) >>,
      << Always(Rewrites) >>,
      << [Always(Action("map_local")) EXCEPT !.method = "GET"],
         [Always(Sets("set_request_header", "h2")) EXCEPT !.filter = bad] >>,
      << [Always([Action("map_local") EXCEPT !.value = "x"]) EXCEPT !.filter = {None}], Mocks,
         Always([Sets("set_request_header", "h2") EXCEPT !.old = "h1"]),
         Always([Rewrites EXCEPT !.pattern = {"a", "b"}, !.value = bad]) >> }

INSTANCE Rules WITH
    RuleLists <- RuleLists, MaxSaves <- 2,
    Requests <- [method : {"GET", "OPTIONS"}, url : {"a", "b"}, header : {None, "h1"},
                 body : {"q"}, cut : BOOLEAN],
    Responses <- [status : {200}, header : {None}, body : {"x"},
                  kind : {"whole", "cut", "streamed"}]

(* Settings of a project that say where a request goes.                    *)
Override(covers, on, scheme, address) ==
    [covers |-> covers, on |-> on, scheme |-> scheme, address |-> address]

WaySettings(overrides, via, bypass, noDecrypt) ==
    [overrides |-> overrides, upstream |-> via, bypass |-> bypass, noDecrypt |-> noDecrypt]

SettingsOut ==
    { WaySettings(<<Override({h1}, FALSE, None, a2), Override({h1}, TRUE, "http", a1),
                    Override({h1}, TRUE, None, a2)>>, Upstream, {h2}, {{h1}}),
      WaySettings(<<Override({h2}, TRUE, None, a1)>>, Upstream, {}, {{h1}, {h2}}),
      WaySettings(<<Override({h2}, TRUE, None, None)>>, Upstream, {}, {}) }

INSTANCE WaysOut WITH
    Hosts <- {h1, h2}, Addresses <- {a1, a2}, Requests <- {x1, x2, x3},
    Settings <- SettingsOut, MaxOverrides <- 3, MaxEdits <- 1

(* Frames with lengths at the edges of their three forms.                  *)
F == INSTANCE Frames WITH Sent <- {}, Keep <- 126, MaxFrames <- 3

Sends(op, fin, rsv1, n, w) ==
    [op |-> op, fin |-> fin, rsv1 |-> rsv1, bytes |-> n, length |-> w]

FramesSent ==
    {Sends("text", fin, rsv1, n, F!Encode(n)) : fin, rsv1 \in BOOLEAN, n \in {0, 100, 126}}
    \cup {Sends("continuation", fin, FALSE, n, F!Encode(n)) :
             fin \in BOOLEAN, n \in {0, 100, 126}}
    \cup {Sends("ping", TRUE, FALSE, n, F!Encode(n)) : n \in {125, 126}}
    \cup {Sends("binary", TRUE, FALSE, 100, w) : w \in F!Forms(100)}
    \cup {Sends("text", TRUE, FALSE, 65536, F!Encode(65536)),
          Sends("close", FALSE, FALSE, 0, F!Encode(0)),
          Sends("reserved", TRUE, FALSE, 0, F!Encode(0))}

INSTANCE Frames WITH Sent <- FramesSent, Keep <- 126, MaxFrames <- 3

INSTANCE WebSocketLog WITH
    MaxFrames <- 3, QueueSize <- 1, MaxMessages <- 2, BatchSize <- 1, ProgressEvery <- 2,
    given <- sent, phase <- connection, entry <- upgraded

ASSUME ExchangeAssumption
ASSUME ServeAssumption
ASSUME CertificatesAssumption
ASSUME Filter!FilterAssumption
ASSUME FramesAssumption
ASSUME RulesAssumption
ASSUME WaysAssumption
ASSUME WebSocketLogAssumption

Interchangeable == Permutations({x1, x2}) \cup Permutations({p, q})

-----------------------------------------------------------------------------
TrafficInit ==
    /\ focus \in {"exchange", "rules", "ways", "filter", "certificates", "frames",
                  "program", "relay"}
    /\ ExchangeInit /\ (focus # "exchange" => openProject = p)
    /\ RulesInit
    /\ WaysInit /\ (focus # "ways" => current = NoProject)
    /\ Filter!FilterInit /\ (focus # "filter" => "AND" \in alphabet)
    /\ CertificatesInit
    /\ FramesInit
    /\ ServeInit
    /\ Init

Idle(f) ==
    /\ UNCHANGED focus
    /\ IF f = "exchange" THEN TRUE ELSE UNCHANGED exchange
    /\ IF f = "rules" THEN TRUE ELSE UNCHANGED rewriting
    /\ IF f = "ways" THEN TRUE ELSE UNCHANGED ways
    /\ IF f = "filter" THEN TRUE ELSE UNCHANGED filter
    /\ IF f = "certificates" THEN TRUE ELSE UNCHANGED certificates
    /\ IF f = "frames" THEN TRUE ELSE UNCHANGED socket
    /\ IF f = "program" THEN TRUE ELSE UNCHANGED program
    /\ IF f = "relay" THEN TRUE ELSE UNCHANGED relay

Runs(f) == focus = f /\ Idle(f)

TrafficNext ==
    \/ Runs("exchange") /\ ExchangeNext
    \/ Runs("rules") /\ RulesNext
    \/ Runs("ways") /\ WaysNext
    \/ Runs("filter") /\ Filter!FilterNext
    \/ Runs("certificates") /\ CertificatesNext
    \/ Runs("frames") /\ FramesNext
    \/ Runs("program") /\ ServeNext
    \/ Runs("relay") /\ Next

TrafficSpec == TrafficInit /\ [][TrafficNext]_trafficVars

-----------------------------------------------------------------------------
(* The other properties are the parts' own.                                *)

\* A query is read as its grammar has it, and matches what it means
\* (internal/core/filter).
QueriesMeanWhatTheySay == focus = "filter" => Filter!FilterMeansWhatItSays
=============================================================================
