-------------------------------- MODULE Rules --------------------------------
(*****************************************************************************)
(* The rules of a project: how settings are compiled, which rules match a    *)
(* request, and what each does to the request and to its response, one rule  *)
(* after the other, while the settings may be saved again in between.        *)
(*                                                                           *)
(* One header stands for them all.  A regular expression is the set of what  *)
(* it matches, and a replacement a value, or `bad` when it is no URL.        *)
(*****************************************************************************)
EXTENDS Integers, Sequences, SequencesExt

CONSTANTS
    RuleLists,  \* lists of rules that may be saved
    Requests,   \* what a client may send: method, url, header, body, cut
    Responses,  \* what a server may answer: status, header, body, kind
    MaxSaves,
    None,
    bad         \* an expression that does not compile, a text that is no URL

VARIABLES
    rules,      \* the compiled rules of the open project
    saves,
    was,        \* what the client sent and the rules at that moment
    at,         \* "idle", "request", "response", "done", "failed", "panic"
    matched,    \* the rules that apply, in the context of the request
    left,       \* of them, those whose turn is still to come
    req,
    answer,     \* what is answered in place of the server, or None
    given,      \* the response as it was before the rules
    res

rulesVars == <<rules, saves, was, at, matched, left, req, answer, given, res>>

-----------------------------------------------------------------------------
Headers == {"set_request_header", "remove_request_header",
            "set_response_header", "remove_response_header"}
Bodies == {"replace_body", "replace_request_body"}
AnswerTypes == {"mock", "block", "map_local"}

(* Normalize: the single header or replacement of an older rule is the first *)
(* of the list.                                                              *)
Normalize(a) ==
    IF a.type \in Headers \cup Bodies /\ a.old # None
    THEN [a EXCEPT !.list = <<a.old>> \o @, !.old = None] ELSE a

(* A rewrite without a pattern of its own replaces what selected the request.*)
CompileOne(r) ==
    LET a == Normalize(r.action) IN
    [on |-> r.on, method |-> r.method, url |-> r.url, filter |-> r.filter, action |-> a,
     pattern |-> IF a.type = "rewrite_url" /\ a.pattern = None THEN r.url ELSE a.pattern]

(* What compileOne lets pass.  A filter is given by the headers it matches;  *)
(* `bad` also stands for one that reads the response, which is not there yet.*)
Compilable(r) ==
    LET a == Normalize(r.action) IN
    /\ r.url # bad /\ r.filter # bad /\ a.pattern # bad
    /\ a.type = "rewrite_url" => a.pattern # None \/ r.url # None
    /\ a.type \in Headers \cup Bodies => a.list # <<>>
    /\ a.type \in Bodies => \A i \in 1 .. Len(a.list) : a.list[i].pattern # bad
    /\ a.type \in {"mock", "block"} => a.status = 0 \/ a.status \in 100 .. 599
    /\ a.type = "set_status" => a.status \in 100 .. 599

Earliest(S) == CHOOSE i \in S : \A j \in S : i <= j
Latest(S) == CHOOSE i \in S : \A j \in S : i >= j

Matches(r, q) ==
    /\ r.on
    /\ r.method = None \/ r.method = q.method
    /\ r.url = None \/ q.url \in r.url
    /\ r.filter = None \/ q.header \in r.filter

Substitute(list, body) ==
    FoldLeft(LAMBDA b, s : IF b \in s.pattern THEN s.value ELSE b, body, list)

RewriteURL(r, q) ==
    IF q.url \notin r.pattern \/ r.action.value = bad THEN q ELSE [q EXCEPT !.url = r.action.value]

(* A body that was cut by the buffer is left alone.                          *)
ReplaceRequestBody(r, q) ==
    IF q.cut THEN q ELSE [q EXCEPT !.body = Substitute(r.action.list, @)]

NoAnswer == [status |-> 0, header |-> None, body |-> None, kind |-> "none"]

(* mockResponse, blockResponse, localFileResponse, preflightResponse         *)
Local(status, body) == [status |-> status, header |-> None, body |-> body, kind |-> "whole"]
BlockResponse(a) == Local(IF a.status = 0 THEN 502 ELSE a.status, "blocked")
LocalFile(content) == IF content = None THEN Local(404, "error") ELSE Local(200, content)
LocalAnswer(r, q) ==
    LET a == r.action IN
    CASE a.type = "mock" -> Local(IF a.status = 0 THEN 200 ELSE a.status, a.value)
      [] a.type = "block" -> BlockResponse(a)
      [] a.type = "map_local" -> LocalFile(a.value)
      [] a.type = "allow_cors" /\ q.method = "OPTIONS" -> Local(204, None)
      [] OTHER -> NoAnswer

RulesAssumption ==
    /\ \A q \in Requests :
          q = [method |-> q.method, url |-> q.url, header |-> q.header, body |-> q.body,
               cut |-> q.cut]
    /\ \A r \in Responses :
          /\ r = [status |-> r.status, header |-> r.header, body |-> r.body, kind |-> r.kind]
          /\ r.kind \in {"whole", "cut", "streamed"}
    /\ \A list \in RuleLists : Len(list) \in Nat /\ DOMAIN list = 1 .. Len(list)

-----------------------------------------------------------------------------
RulesInit ==
    /\ rules = <<>>
    /\ saves = 0
    /\ at = "idle"
    /\ was = [req |-> None, rules |-> <<>>]
    /\ matched = {} /\ left = {}
    /\ req = None
    /\ answer = NoAnswer /\ given = NoAnswer /\ res = NoAnswer

(* The settings are saved, or another project is opened.                     *)
Save(list) ==
    /\ saves < MaxSaves
    /\ \A i \in DOMAIN list : Compilable(list[i])
    /\ rules' = [i \in DOMAIN list |-> CompileOne(list[i])]
    /\ saves' = saves + 1
    /\ UNCHANGED <<was, at, matched, left, req, answer, given, res>>

(* Every match is decided before the first rule applies.                     *)
MatchRules(q) ==
    /\ at = "idle"
    /\ req' = q
    /\ was' = [req |-> q, rules |-> rules]
    /\ matched' = {i \in DOMAIN rules : Matches(rules[i], q)}
    /\ left' = matched'
    /\ at' = "request"
    /\ UNCHANGED <<rules, saves, answer, given, res>>

Turn == left # {}
Rule == was.rules[Earliest(left)]
Type == Rule.action.type
Taken == left' = left \ {Earliest(left)}

EditedRequest(r, q) ==
    LET a == r.action IN
    CASE a.type = "set_request_header" -> [q EXCEPT !.header = Last(a.list)]
      [] a.type = "remove_request_header" -> [q EXCEPT !.header = None]
      [] a.type = "replace_request_body" -> ReplaceRequestBody(r, q)
      [] a.type = "rewrite_url" /\ r.pattern # None -> RewriteURL(r, q)
      [] OTHER -> q

(* Broken: the last rule that answers wins.                                  *)
RuleOnRequestLast ==
    /\ at = "request" /\ Turn
    /\ Taken
    /\ req' = EditedRequest(Rule, req)
    /\ answer' = IF LocalAnswer(Rule, req) # NoAnswer THEN LocalAnswer(Rule, req) ELSE answer
    /\ at' = IF Type = "rewrite_url" /\ Rule.pattern = None THEN "panic" ELSE "request"
    /\ UNCHANGED <<rules, saves, was, matched, given, res>>

(* A rule that answers does not end the chain, and the first of them wins.   *)
RuleOnRequest ==
    /\ at = "request" /\ Turn
    /\ Taken
    /\ req' = EditedRequest(Rule, req)
    /\ answer' = IF answer = NoAnswer THEN LocalAnswer(Rule, req) ELSE answer
    /\ at' = IF Type = "rewrite_url" /\ Rule.pattern = None THEN "panic" ELSE "request"
    /\ UNCHANGED <<rules, saves, was, matched, given, res>>

(* The client goes away while a rule delays.                                 *)
GoneWhileDelayed ==
    /\ at \in {"request", "response"} /\ Turn
    /\ Type = (IF at = "request" THEN "delay" ELSE "delay_response")
    /\ at' = "failed"
    /\ UNCHANGED <<rules, saves, was, matched, left, req, answer, given, res>>

Respond(r) ==
    /\ at = "request" /\ ~Turn
    /\ IF answer # NoAnswer THEN r = answer ELSE r \in Responses
    /\ given' = r /\ res' = r
    /\ at' = "response" /\ left' = matched
    /\ UNCHANGED <<rules, saves, was, matched, req, answer>>

(* What applies to a response: to one that is streamed, not its status or    *)
(* body; to one that was cut by the buffer, not its body, which is an error. *)
Skipped == res.kind = "streamed" /\ Type \in {"set_status", "replace_body"}

(* setStatus and replaceBody                                                 *)
SetStatus(s, status) == [s EXCEPT !.status = status]
ReplaceBody(s, list) == [s EXCEPT !.body = Substitute(list, @)]

EditedResponse(r, s) ==
    LET a == r.action IN
    CASE a.type = "set_response_header" -> [s EXCEPT !.header = Last(a.list)]
      [] a.type = "remove_response_header" -> [s EXCEPT !.header = None]
      [] a.type = "set_status" -> SetStatus(s, a.status)
      [] a.type = "replace_body" -> ReplaceBody(s, a.list)
      [] OTHER -> s

(* Broken: the rules are matched again, on the request that was sent.        *)
RuleOnResponseAgain ==
    /\ at = "response" /\ Turn
    /\ Taken
    /\ IF Skipped \/ ~Matches(Rule, req) THEN UNCHANGED <<res, at>>
       ELSE IF Type = "replace_body" /\ res.kind = "cut"
       THEN at' = "failed" /\ UNCHANGED res
       ELSE /\ res' = EditedResponse(Rule, res)
            /\ UNCHANGED at
    /\ UNCHANGED <<rules, saves, was, matched, req, answer, given>>

RuleOnResponse ==
    /\ at = "response" /\ Turn
    /\ Taken
    /\ IF Skipped THEN UNCHANGED <<res, at>>
       ELSE IF Type = "replace_body" /\ res.kind = "cut"
       THEN at' = "failed" /\ UNCHANGED res
       ELSE /\ res' = EditedResponse(Rule, res)
            /\ UNCHANGED at
    /\ UNCHANGED <<rules, saves, was, matched, req, answer, given>>

Deliver ==
    /\ at = "response" /\ ~Turn
    /\ at' = "done"
    /\ UNCHANGED <<rules, saves, was, matched, left, req, answer, given, res>>

RulesNext ==
    \/ \E list \in RuleLists : Save(list)
    \/ \E q \in Requests : MatchRules(q)
    \/ RuleOnRequest \/ GoneWhileDelayed
    \/ \E r \in Responses \cup {answer} : Respond(r)
    \/ RuleOnResponse \/ Deliver

RulesSpec == RulesInit /\ [][RulesNext]_rulesVars

-----------------------------------------------------------------------------
(* The rules that apply: those of the moment the request came, that cover it *)
(* as the client sent it.                                                    *)
Applying == {i \in DOMAIN was.rules :
    LET r == was.rules[i] IN
    /\ r.on
    /\ r.method \in {None, was.req.method}
    /\ r.url # None => was.req.url \in r.url
    /\ r.filter # None => was.req.header \in r.filter}

(* Of the rules rs in S: those of some types, the header after those that set*)
(* or remove it, the last of which decides, and those that answer.           *)
OfTypes(rs, S, types) == {i \in S : rs[i].action.type \in types}
Header(rs, S, set, remove, before) ==
    LET on == OfTypes(rs, S, {set, remove})
        a == rs[Latest(on)].action
    IN IF on = {} THEN before ELSE IF a.type = remove THEN None ELSE Last(a.list)
Answering(rs, S, method) ==
    OfTypes(rs, S, AnswerTypes) \cup (IF method = "OPTIONS" THEN OfTypes(rs, S, {"allow_cors"}) ELSE {})

(* What leaves for the server and what the client gets is what the settings  *)
(* of one moment say of the request as it came: whatever is saved meanwhile, *)
(* whatever the rules themselves make of the URL and the header they are     *)
(* matched by, with the first answer for an answer, and no body edited that  *)
(* the proxy does not hold all of.  No rule of a saved list panics.          *)
RulesAreMeant ==
    LET rs == was.rules
        answering == Answering(rs, Applying, was.req.method)
        status == OfTypes(rs, Applying, {"set_status"})
    IN
    /\ at # "panic"
    /\ at \in {"response", "done"} =>
          /\ req.header = Header(rs, Applying, "set_request_header", "remove_request_header",
                                 was.req.header)
          /\ was.req.cut => req.body = was.req.body
          /\ answering = {} <=> answer = NoAnswer
          /\ answering # {} =>
                LET a == rs[Earliest(answering)].action IN
                /\ a.type = "mock" => given.status = (IF a.status = 0 THEN 200 ELSE a.status)
                /\ a.type = "mock" => given.body = a.value
                /\ a.type = "block" => given.status = (IF a.status = 0 THEN 502 ELSE a.status)
    /\ at = "done" =>
          /\ res.header = Header(rs, Applying, "set_response_header", "remove_response_header",
                                 given.header)
          /\ res.status = IF status = {} \/ given.kind = "streamed" THEN given.status
                          ELSE rs[Latest(status)].action.status
          /\ given.kind # "whole" => res.body = given.body
=============================================================================
