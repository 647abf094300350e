------------------------------- MODULE Codegen -------------------------------
\* rules/src/fix: the edits that a finding may be healed with, and what they make
\* of a handler.  Two families have rules: the comparison in constant time and
\* the raw body.  Next to what RulePredicates reads, h has
\*   body      how its first line reads the parsed body: "member" (req.body),
\*             "input" (Input::all()) or "none"
EXTENDS Rules

None == 0

\* fix.codegen of the rules: no edit for the raw body of Postmark.
Codegens == [timing |-> Kinds.timing, rawBody |-> Kinds.rawBody \ {"postmark"}]

\* The comparisons a routine considers.  For JavaScript and Go those of the whole
\* handler, if there is just one; for Python and PHP the first of the line the
\* finding is at, which is the handler's first.
JsCandidates(h) == {i \in DOMAIN h.compares : h.compares[i].op = "=="}
GoCandidates(h) ==
  {i \in DOMAIN h.compares :
     \/ h.compares[i].op = "bytes.Equal"
     \/ h.compares[i].op = "==" /\ h.compares[i].of = "signature"}
LineCandidates(h) ==
  {i \in DOMAIN h.compares : h.compares[i].first /\ \A j \in 1..(i - 1) : ~h.compares[j].first}
Candidates(h) ==
  CASE h.dialect = "js" -> JsCandidates(h)
    [] h.dialect = "go" -> GoCandidates(h)
    [] OTHER -> LineCandidates(h)
Fixable == [js |-> {"=="}, py |-> {"=="}, php |-> {"==", "strcmp"}, go |-> {"==", "bytes.Equal"}]
Target(h) ==
  IF Cardinality(Candidates(h)) # 1 THEN None
  ELSE LET i == CHOOSE j \in Candidates(h) : TRUE
       IN IF h.compares[i].safe \/ h.compares[i].op \notin Fixable[h.dialect] THEN None ELSE i

\* Mutant: the call is written by its bare name and takes no bytes.
WithBareComparison(h) ==
  [h EXCEPT !.compares = RemoveAt(@, Target(h)),
            !.reach = @ \cup {[name |-> <<"timingSafeEqual">>, from |-> "crypto", hops |-> 1]}]

\* The comparison becomes a call: timingSafeEqual(Buffer.from(a), Buffer.from(b)),
\* compare_digest, hash_equals or hmac.Equal.  Buffer.from reads like a raw body.
WithSafeComparison(h) ==
  LET fixed == [h EXCEPT !.compares = RemoveAt(@, Target(h))]
      Reaching(name, module) == h.reach \cup {[name |-> name, from |-> module, hops |-> 1]}
  IN CASE h.dialect = "js" ->
            [fixed EXCEPT !.reach = Reaching(<<"crypto", "timingSafeEqual">>, "crypto"),
                          !.rawRead = TRUE]
       [] h.dialect = "py" -> [fixed EXCEPT !.reach = Reaching(<<"hmac", "compare_digest">>, "hmac")]
       [] h.dialect = "php" -> [fixed EXCEPT !.own = @ \cup {"hash_equals"}]
       [] h.dialect = "go" -> [fixed EXCEPT !.own = @ \cup {"hmac.Equal"}]

\* req.body becomes req.rawBody, and Input::all() becomes php://input; for Go
\* there is advice only, for Python nothing.
ReadsMember(h) == h.body = "member"
ReadsInput(h) == h.body = "input"
ReadsParsed(h) ==
  \/ h.dialect = "js" /\ ReadsMember(h)
  \/ h.dialect = "php" /\ ReadsInput(h)
WithRawBody(h) == [h EXCEPT !.body = "none", !.rawRead = TRUE]

Offers(kind, h, p) ==
  /\ kind \in DOMAIN Codegens /\ p \in Codegens[kind]
  /\ IF kind = "timing" THEN Target(h) # None ELSE ReadsParsed(h)
Fixed(kind, h) == IF kind = "timing" THEN WithSafeComparison(h) ELSE WithRawBody(h)
=============================================================================
