-------------------------------- MODULE Filter --------------------------------
(******************************************************************************)
(* The filter language: a query is typed token by token, parsed, checked      *)
(* against the fields there are and matched against the subject.              *)
(*                                                                            *)
(* A token is an operator, a bracket, a comma or a word; words are the keys   *)
(* of the subject and the values alike.  Comparing text is comparing words.   *)
(******************************************************************************)
EXTENDS Integers, Sequences, SequencesExt

CONSTANTS
    Words,      \* tokens that are strings, in the order text compares
    Alphabets,  \* sets of tokens that are typed together
    MaxTokens

VARIABLES query, alphabet
filterVars == <<query, alphabet>>

Ops == {"AND", "OR", "NOT", "=", "!=", ">", "in", "exists"}
Tokens == ToSet(Words) \cup Ops \cup {"(", ")", ","}
FilterAssumption == Alphabets \subseteq SUBSET Tokens
Prec(op) == CASE op = "OR" -> 1 [] op = "AND" -> 2 [] op = "NOT" -> 4 [] OTHER -> 3

Text(w) == [is |-> "text", value |-> w]
Not(x) == [is |-> "not", x |-> x]
Logical(op, l, r) == [is |-> op, l |-> l, r |-> r]
Compare(op, k, vs) == [is |-> "compare", op |-> op, key |-> k, values |-> vs]

-----------------------------------------------------------------------------
(* The parser, over the tokens s from p on: what was read, and where it ends; *)
(* ok is FALSE on every error.                                                *)
Read(e, p) == [ok |-> TRUE, e |-> e, p |-> p]
Refuse == [ok |-> FALSE, e |-> Text(""), p |-> 0]
Cur(s, p) == IF p <= Len(s) THEN s[p] ELSE "EOF"

RECURSIVE ParseList(_, _, _)
ParseList(s, p, values) ==
    LET t == Cur(s, p) IN
    IF t \in ToSet(Words) THEN ParseList(s, p + 1, Append(values, t))
    ELSE IF t = "," THEN ParseList(s, p + 1, values)
    ELSE IF t = ")" /\ values # <<>> THEN [ok |-> TRUE, e |-> values, p |-> p + 1]
    ELSE Refuse

ParseTerm(s, p) ==
    LET key == s[p]
        op == Cur(s, p + 1)
    IN IF op \notin Ops \ {"AND", "OR", "NOT"} THEN Read(Text(key), p + 1)
       ELSE IF op = "exists" THEN Read(Compare(op, key, <<>>), p + 2)
       ELSE IF op = "in"
       THEN IF Cur(s, p + 2) # "(" THEN Refuse
            ELSE LET list == ParseList(s, p + 3, <<>>) IN
                 IF list.ok THEN Read(Compare(op, key, list.e), list.p) ELSE Refuse
       ELSE IF Cur(s, p + 2) \in ToSet(Words) THEN Read(Compare(op, key, <<s[p + 2]>>), p + 3)
       ELSE Refuse

RECURSIVE ParseExpr(_, _, _), ParsePrefix(_, _), Fold(_, _, _)
ParseExpr(s, p, floor) ==
    LET left == ParsePrefix(s, p) IN IF left.ok THEN Fold(s, left, floor) ELSE Refuse

ParsePrefix(s, p) ==
    LET t == Cur(s, p) IN
    IF t = "(" THEN
        LET inner == ParseExpr(s, p + 1, 0) IN
        IF inner.ok /\ Cur(s, inner.p) = ")" THEN Read(inner.e, inner.p + 1) ELSE Refuse
    ELSE IF t = "NOT" THEN
        LET x == ParseExpr(s, p + 1, Prec("NOT")) IN
        IF x.ok THEN Read(Not(x.e), x.p) ELSE Refuse
    ELSE IF t \in ToSet(Words) THEN ParseTerm(s, p)
    ELSE Refuse

(* Broken: an operator of the caller's own binding is folded into its right.  *)
FoldSame(s, left, floor) ==
    LET t == Cur(s, left.p)
        op == IF t \in {"AND", "OR"} THEN t
              ELSE IF t \in ToSet(Words) \cup {"(", "NOT"} THEN "AND" ELSE "none"
    IN IF op = "none" \/ Prec(op) < floor THEN left
       ELSE LET right == ParseExpr(s, IF t \in {"AND", "OR"} THEN left.p + 1 ELSE left.p, Prec(op))
            IN IF right.ok THEN Fold(s, Read(Logical(op, left.e, right.e), right.p), floor)
               ELSE Refuse

(* Folds operators that bind closer than the caller's; a term after a term is *)
(* an AND that is not written.                                                *)
Fold(s, left, floor) ==
    LET t == Cur(s, left.p)
        op == IF t \in {"AND", "OR"} THEN t
              ELSE IF t \in ToSet(Words) \cup {"(", "NOT"} THEN "AND" ELSE "none"
    IN IF op = "none" \/ Prec(op) <= floor THEN left
       ELSE LET right == ParseExpr(s, IF t \in {"AND", "OR"} THEN left.p + 1 ELSE left.p, Prec(op))
            IN IF right.ok THEN Fold(s, Read(Logical(op, left.e, right.e), right.p), floor)
               ELSE Refuse

Parse(s) ==
    LET read == ParseExpr(s, 1, 0) IN
    IF read.ok /\ read.p = Len(s) + 1 THEN read ELSE Refuse

-----------------------------------------------------------------------------
(* What a query is matched against: the key it names is a field of the        *)
(* request or of a response there may be, a list, the headers, or no key.     *)
Kinds == {"field", "response", "list", "headers", "unknown"}
Subjects ==
    [kind : Kinds, answered : BOOLEAN, field : {""} \cup ToSet(Words), many : SUBSET ToSet(Words)]

Truth(b) == IF b THEN "true" ELSE "false"
Rank(v) == IF v = "" THEN 0 ELSE CHOOSE i \in 1 .. Len(Words) : Words[i] = v

Field(u) == IF u.kind = "response" /\ ~u.answered THEN "" ELSE u.field
Exists(u) == IF u.kind \in {"list", "headers"} THEN u.many # {} ELSE Field(u) # ""
Known(u) == u.kind # "unknown"

(* Broken: a list differs from a value when one of its values does.           *)
MatchManyAny(c, u) ==
    LET hit == \E v \in u.many : (v \in ToSet(c.values)) = (c.op # "!=")
        defined == c.op \in {"=", "!="} \/ (c.op = "in" /\ u.kind = "list")
    IN IF u.many # {} /\ ~defined THEN "error" ELSE Truth(hit)

(* matchValues and matchHeaders: an operator that is not defined is an error  *)
(* as soon as there is a value, and a negated one asks that none fits.        *)
MatchMany(c, u) ==
    LET hit == \E v \in u.many : v \in ToSet(c.values)
        defined == c.op \in {"=", "!="} \/ (c.op = "in" /\ u.kind = "list")
    IN IF u.many # {} /\ ~defined THEN "error" ELSE Truth((c.op = "!=") # hit)

MatchCompare(c, u) ==
    IF ~Known(u) THEN "error"
    ELSE IF c.op = "exists" THEN Truth(Exists(u))
    ELSE IF u.kind \in {"list", "headers"} THEN MatchMany(c, u)
    ELSE CASE c.op \in {"=", "in"} -> Truth(Field(u) \in ToSet(c.values))
           [] c.op = "!=" -> Truth(Field(u) # c.values[1])
           [] c.op = ">" -> Truth(Rank(Field(u)) > Rank(c.values[1]))

RECURSIVE Match(_, _)
Match(e, u) ==
    CASE e.is = "not" -> (LET m == Match(e.x, u) IN
                          IF m = "error" THEN m ELSE Truth(m = "false"))
      [] e.is = "text" -> Truth(e.value \in {u.field} \cup u.many)
      [] e.is = "compare" -> MatchCompare(e, u)
      [] OTHER -> (LET l == Match(e.l, u) IN
                   IF l = "error" \/ l = (IF e.is = "AND" THEN "false" ELSE "true") THEN l
                   ELSE Match(e.r, u))

RECURSIVE Compares(_)
Compares(e) ==
    CASE e.is = "not" -> Compares(e.x)
      [] e.is = "text" -> {}
      [] e.is = "compare" -> {e}
      [] OTHER -> Compares(e.l) \cup Compares(e.r)

(* Every key is looked up, in a branch that a match would pass over too.      *)
Validate(e, u) == Compares(e) # {} => Known(u)

-----------------------------------------------------------------------------
FilterInit == query = <<>> /\ alphabet \in Alphabets

Type(t) ==
    /\ Len(query) < MaxTokens
    /\ query' = Append(query, t)
    /\ UNCHANGED alphabet

FilterNext == \E t \in alphabet : Type(t)

FilterSpec == FilterInit /\ [][FilterNext]_filterVars

(* String: a tree written as a query, all of it in brackets.  Quoting a word  *)
(* leaves it as it is, when it has neither a quote nor a backslash.           *)
RECURSIVE Render(_)
Render(e) ==
    CASE e.is = "text" -> <<e.value>>
      [] e.is = "not" -> <<"(", "NOT">> \o Render(e.x) \o <<")">>
      [] e.is = "compare" ->
            <<"(", e.key, e.op>>
                \o (CASE e.op = "exists" -> <<>>
                      [] e.op = "in" -> <<"(">> \o e.values \o <<")">>
                      [] OTHER -> e.values)
                \o <<")">>
      [] OTHER -> <<"(">> \o Render(e.l) \o <<e.is>> \o Render(e.r) \o <<")">>

-----------------------------------------------------------------------------
(* The grammar, as the set of trees a sequence of tokens may stand for: OR    *)
(* binds less than AND, written or not, AND less than NOT, a comparison most, *)
(* and both group from the left.                                              *)
Before(s, i) == SubSeq(s, 1, i)
After(s, i) == SubSeq(s, i + 1, Len(s))

Terms(s) ==
    LET n == Len(s) IN
    IF n = 0 \/ s[1] \notin ToSet(Words) THEN {}
    ELSE IF n = 1 THEN {Text(s[1])}
    ELSE IF n = 2 /\ s[2] = "exists" THEN {Compare("exists", s[1], <<>>)}
    ELSE IF n = 3 /\ s[2] \in {"=", "!=", ">"} /\ s[3] \in ToSet(Words)
    THEN {Compare(s[2], s[1], <<s[3]>>)}
    ELSE LET list == SelectSeq(s, LAMBDA t : t \in ToSet(Words)) IN
         IF /\ n > 4 /\ s[2] = "in" /\ s[3] = "(" /\ s[n] = ")" /\ Len(list) > 1
            /\ \A i \in 4 .. n - 1 : s[i] \in ToSet(Words) \cup {","}
         THEN {Compare("in", s[1], Tail(list))} ELSE {}

RECURSIVE Factors(_), Conjunctions(_), Queries(_)
Factors(s) ==
    LET n == Len(s) IN
    Terms(s)
        \cup (IF n > 1 /\ s[1] = "NOT" THEN {Not(x) : x \in Factors(Tail(s))} ELSE {})
        \cup (IF n > 2 /\ s[1] = "(" /\ s[n] = ")" THEN Queries(SubSeq(s, 2, n - 1)) ELSE {})

Conjunctions(s) ==
    Factors(s) \cup UNION {
        LET left == IF s[i] = "AND" THEN Before(s, i - 1) ELSE Before(s, i) IN
        {Logical("AND", p[1], p[2]) : p \in Conjunctions(left) \X Factors(After(s, i))}
        : i \in 1 .. Len(s) - 1}

Queries(s) ==
    Conjunctions(s) \cup UNION {
        {Logical("OR", p[1], p[2]) : p \in Queries(Before(s, i - 1)) \X Conjunctions(After(s, i))}
        : i \in {j \in 1 .. Len(s) : s[j] = "OR"}}

(* What a tree says of a subject, by the values the key has there.            *)
Held(u) == IF u.kind \in {"list", "headers"} THEN u.many ELSE {Field(u)}
RECURSIVE Means(_, _)
Means(e, u) ==
    CASE e.is = "not" -> ~Means(e.x, u)
      [] e.is = "text" -> e.value \in {u.field} \cup u.many
      [] e.is = "AND" -> Means(e.l, u) /\ Means(e.r, u)
      [] e.is = "OR" -> Means(e.l, u) \/ Means(e.r, u)
      [] e.op = "exists" -> Held(u) \ {""} # {}
      [] e.op \in {"=", "in"} -> Held(u) \cap ToSet(e.values) # {}
      [] e.op = "!=" -> e.values[1] \notin Held(u)
      [] e.op = ">" -> \E v \in Held(u) : Rank(v) > Rank(e.values[1])

(* A query is read as the grammar has it or refused, whatever was typed; what *)
(* was read and is written again is read the same; and a query that Validate  *)
(* lets pass matches exactly the subjects it means, unless it orders a list or*)
(* the headers, or looks for headers in a list.                               *)
FilterMeansWhatItSays ==
    LET read == Parse(query) IN
    /\ Queries(query) = IF read.ok THEN {read.e} ELSE {}
    /\ read.ok => Parse(Render(read.e)).e = read.e
    /\ read.ok =>
          \A u \in Subjects :
              LET defined == \A c \in Compares(read.e) :
                    /\ c.op = ">" => u.kind \in {"field", "response"}
                    /\ c.op = "in" => u.kind # "headers"
              IN Validate(read.e, u) /\ defined => Match(read.e, u) = Truth(Means(read.e, u))
=============================================================================
