------------------------------- MODULE MCJudge -------------------------------
\* Instance of Judge: for every provider, handlers that name it in the usual ways
\* (path, import, environment variable, header), alone and together and beside a
\* trace of another provider, and that verify in one of the ways the rules know.
EXTENDS Judge

Blank == [
  dialect |-> "js", framework |-> "express", route |-> <<>>, webhookish |-> FALSE,
  nodeFile |-> FALSE, imports |-> {}, namespaces |-> {}, envs |-> {}, literals |-> {},
  headers |-> {}, rawRead |-> FALSE, reach |-> {}, uses |-> <<>>, args |-> <<>>,
  statics |-> {}, methods |-> {}, enqueues |-> <<>>, consumers |-> {}, statements |-> <<>>,
  own |-> {}, near |-> {}, compares |-> <<>>, passes |-> {}, windows |-> {},
  clock |-> FALSE, logs |-> {}, authentication |-> "none", body |-> "none", truth |-> "nothing"]

One(S) == IF S = {} THEN {} ELSE {CHOOSE x \in S : TRUE}

\* Ways of naming a provider.
CueSets == {{"path"}, {"env"}, {"header"}, {"import"}, {"path", "import"},
            {"header", "import"}, {"path", "import", "env", "header"}}
Named(p, cues, dialect) ==
  LET c == Catalog[p]
      path == IF "path" \in cues THEN One(c.paths) ELSE {}
  IN [route |-> IF path = {} THEN <<>> ELSE CHOOSE x \in path : TRUE,
      webhookish |-> path # {},
      imports |-> IF "import" \notin cues \/ dialect = "php" THEN {}
                  ELSE One(IF dialect = "go" THEN c.modules ELSE c.packages),
      namespaces |-> IF "import" \in cues /\ dialect = "php" THEN One(c.namespaces) ELSE {},
      envs |-> IF "env" \in cues THEN One(c.envs) ELSE {},
      headers |-> IF "header" \in cues THEN One(c.headers \ Generic) ELSE {},
      dialect |-> dialect,
      framework |-> CASE dialect = "js" -> "express" [] dialect = "py" -> "flask"
                      [] dialect = "php" -> "laravel" [] dialect = "go" -> "chi"]

Symbol(name, from, hops) == [name |-> name, from |-> from, hops |-> hops]
Compare(op, of) == [op |-> op, of |-> of, first |-> FALSE, safe |-> FALSE]
OnFirstLine(c) == [c EXCEPT !.first = TRUE]
Statement(calls) ==
  [test |-> {}, calls |-> calls, ends |-> "on", dev |-> FALSE, catch |-> "none"]
Effect == Statement(<<<<"db", "query">>>>)

\* Ways of verifying, by language.
OwnCalls(p) == One({v \in Catalog[p].verify : Last(v) \notin Primitives})
Sdk(p) ==
  UNION {{[reach |-> {Symbol(v, f, n)}, truth |-> "sdk", rawRead |-> raw,
           statements |-> IF late THEN <<Effect, Statement(<<v>>)>> ELSE <<Statement(<<v>>), Effect>>] :
            f \in {Nowhere} \cup One(Catalog[p].packages), n \in {1, 2},
            raw \in BOOLEAN, late \in BOOLEAN} : v \in OwnCalls(p)}
Inline(p) ==
  {[args |-> <<[name |-> <<>>, from |-> Nowhere, above |-> TRUE, calls |-> {v}, keepsRaw |-> FALSE]>>,
    truth |-> "sdk"] : v \in OwnCalls(p)}
Foreign(p) ==
  {[reach |-> {Symbol(<<Last(v)>>, "jsonwebtoken", 1)}, truth |-> "other"] : v \in Catalog[p].verify}
Queued(p) ==
  {[enqueues |-> <<[method |-> "add", receiver |-> "queue", passesBody |-> TRUE]>>,
    consumers |-> {[method |-> "Worker", receiver |-> "any", reach |-> {v}]},
    truth |-> "other"] : v \in OwnCalls(p)}
Delegated == {[reach |-> {Symbol(<<"handle">>, "./lib", 1)}, passes |-> {"handle"}, truth |-> "other"]}

Mac(dialect) ==
  IF dialect = "js" THEN Symbol(<<"crypto", "createHmac">>, "crypto", 1)
  ELSE Symbol(<<"hmac", "new">>, "hmac", 1)
Constant(dialect) ==
  IF dialect = "js" THEN {Symbol(<<"crypto", "timingSafeEqual">>, "crypto", 1),
                          Symbol(<<"timingSafeEqual">>, "crypto", 1)}
  ELSE {Symbol(<<"hmac", "compare_digest">>, "hmac", 1)}
Macs(dialect) ==
  {[reach |-> {Mac(dialect)}, truth |-> "nothing", body |-> "member"]}
  \cup {[reach |-> {Mac(dialect), s}, truth |-> "constant", rawRead |-> TRUE] : s \in Constant(dialect)}
  \cup {[reach |-> {Mac(dialect)}, truth |-> "leaky", compares |-> cs, body |-> "member"] :
          cs \in {<<Compare("==", "signature")>>, <<OnFirstLine(Compare("==", "signature"))>>,
                  <<Compare("!=", "signature"), Compare("==", "other")>>,
                  <<Compare("==", "signature"), Compare("==", "other")>>}}

Php(p) ==
  {[statics |-> {v}, truth |-> "sdk"] : v \in One(Catalog[p].statics)}
  \cup UNION {{[own |-> {"hash_hmac"}, near |-> n, truth |-> "nothing"],
               [own |-> {"hash_hmac", "hash_equals"}, near |-> n, truth |-> "constant"],
               [own |-> {"hash_hmac"}, near |-> n, truth |-> "leaky",
                compares |-> <<OnFirstLine(Compare("==", "signature"))>>],
               [near |-> n]} : n \in {{}, {"hash_hmac", "hash_equals"}, {"insecure"}}}
Go(p) ==
  {[methods |-> {Last(v)}, truth |-> "sdk"] : v \in {w \in Catalog[p].verify : Last(w) \in Exported}}
  \cup UNION {{[own |-> {"hmac.New", "hmac.Equal"}, near |-> n, truth |-> "constant"],
               [own |-> {"hmac.New"}, near |-> n, truth |-> "leaky",
                compares |-> <<Compare("bytes.Equal", "signature")>>],
               [near |-> n]} : n \in {{}, {"hmac.New", "hmac.Equal"}, {"insecure"}}}

Ways(p, dialect) ==
  CASE dialect = "php" -> Php(p)
    [] dialect = "go" -> Go(p)
    [] OTHER -> {[truth |-> "nothing", body |-> "member"]} \cup Sdk(p) \cup Foreign(p) \cup Delegated
                  \cup Macs(dialect) \cup (IF dialect = "js" THEN Inline(p) \cup Queued(p) ELSE {})

\* What may stand around a verification, and what single rules look for.
Verifying(p) ==
  {[reach |-> {Symbol(v, Nowhere, 1)}, truth |-> "sdk", rawRead |-> TRUE] : v \in OwnCalls(p)}
Window(bound, divided, unit) ==
  [kind |-> "compare", op |-> ">", call |-> <<>>, written |-> "number", bound |-> bound,
   divided |-> divided, unit |-> unit, here |-> TRUE]
Argument(call, bound) ==
  [Window(bound, FALSE, "s") EXCEPT !.kind = "argument", !.op = "none", !.call = call]
\* Six hundred seconds, in the ways a rule may overlook.
Overlooked(w) ==
  {[w EXCEPT !.op = "<="], [w EXCEPT !.written = "other"], [w EXCEPT !.written = "env"],
   [w EXCEPT !.here = FALSE]}
\* Only providers with a tolerance have a rule for them.
Windows(p) == IF Catalog[p].tolerance = 0 THEN {} ELSE
  {{Window(b, d, "s")} : b \in {300, 301, 999}, d \in BOOLEAN}
  \cup {{Window(b, FALSE, "ms")} : b \in {300000, 300001, 301000, 600000}}
  \cup {{[Window(600, FALSE, "s") EXCEPT !.op = ">=", !.written = "folded"]}}
  \cup UNION {{{w}, {w, Window(600, FALSE, "s")}} : w \in Overlooked(Window(600, FALSE, "s"))}
  \cup {{Argument(v, b)} : v \in OwnCalls(p) \cup {<<"other">>}, b \in {300, 600}}
  \cup UNION {{{[Argument(v, b) EXCEPT !.written = w]} : b \in {300, 600}, w \in {"folded", "other"}} :
                 v \in OwnCalls(p)}
Around(p) ==
  {[windows |-> ws, clock |-> TRUE] : ws \in Windows(p)}
  \cup {[own |-> {s}] : s \in {"emptySecret", "urlSecret", "postback", "rsa"}}
  \cup {[own |-> s, truth |-> "other"] : s \in {{"postback", "checksResult"}, {"ed25519"}}}
  \cup {[literals |-> HardcodedPrefixes]}
  \cup {[logs |-> {[joined |-> j, parts |-> <<[how |-> "slice", length |-> n], [how |-> s, length |-> 0]>>]}] :
           j \in {"+", "template"}, n \in {8, 9}, s \in {"name", "hash"}}
  \cup UNION {{[statements |-> <<[Statement(<<>>) EXCEPT !.dev = TRUE, !.ends = w], Statement(<<v>>), Effect>>],
               [statements |-> <<[Statement(<<v>>) EXCEPT !.catch = w], Effect>>],
               [statements |-> <<[Statement(<<>>) EXCEPT !.test = {v}, !.ends = w], Effect>>]} :
           w \in {"on", "throw", "answer", "refuse"}, v \in OwnCalls(p)}
  \cup {[statements |-> <<[Effect EXCEPT !.ends = w], Statement(<<v>>)>>] :
           w \in {"throw", "answer"}, v \in OwnCalls(p)}
  \cup {[reach |-> {Symbol(<<"sdk">> \o v, Nowhere, 1)}, truth |-> "sdk",
          statements |-> <<Statement(<<<<"sdk">>>>), Effect>>] : v \in OwnCalls(p)}
  \cup {[own |-> {"postback", "checksResult"}, statements |-> <<Effect>>, truth |-> "other"]}
  \cup {[uses |-> <<[name |-> <<"express", n>>, from |-> "express", above |-> a, calls |-> {}, keepsRaw |-> k]>>] :
           n \in {"json", "raw"}, a \in BOOLEAN, k \in BOOLEAN}
  \cup {[reach |-> {Symbol(<<n>>, Nowhere, 1)}, truth |-> "other"] : n \in {"basicAuth", "ip"}}
  \cup {[reach |-> {Symbol(<<"crypto", "createHash">>, "crypto", 1)}, truth |-> "leaky",
          compares |-> <<Compare("==", "signature")>>]}
Surrounded(p) ==
  {around @@ way @@ Named(p, {"path", "import"}, "js") @@ Blank :
     around \in Around(p), way \in {[truth |-> "nothing"]} \cup Verifying(p) \cup Queued(p)}
Workflows ==
  {[framework |-> "n8n-workflow", nodeFile |-> TRUE, authentication |-> a] @@ Blank : a \in {"none", "basic"}}

MCSources ==
  Workflows \cup UNION {Surrounded(p) : p \in Providers} \cup
  UNION {UNION {{way @@ Named(p, cues, d) @@ Blank : way \in Ways(p, d), cues \in CueSets} :
                  d \in {"js", "py", "php", "go"}} : p \in Providers}
=============================================================================
