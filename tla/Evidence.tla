------------------------------ MODULE Evidence ------------------------------
\* engine/src/model: what the engine records about a handler, and whose handler
\* it takes it for.  A handler h is a record of what its source says:
\*   dialect, framework, route    "js", "py", "php" or "go"; words of the route
\*   webhookish                   the route looks like one for webhooks
\*   nodeFile                     its file looks like an n8n node
\*   imports, namespaces, envs, literals, headers, rawRead    of file and text; headers
\*                                are names in either form, "-" or "_", wherever they
\*                                are, so also in the name of an environment variable
\*   reach                        symbols found by Reachability [name, from, hops]
\*   uses, args                   app.use(...) of the file, arguments of the route
\*                                [name, from, above, calls, keepsRaw]; a function
\*                                written in place has no name
\*   statics, methods             PHP X::f( and ->f(, Go .F( in its text
\*   enqueues, consumers          calls that queue the body, and who consumes
\*   statements                   its top-level statements [test, calls, ends]: where an
\*                                if leads ("on", "return", "throw", "answer", or
\*                                "refuse" for an answer with a status)
EXTENDS Catalog, FiniteSets, FiniteSetsExt, SequencesExt

Nowhere == "none"   \* import_source: null

\* String.includes, on words.
Includes(part, text) ==
  \E i \in 0..(Len(text) - Len(part)) : part = SubSeq(text, i + 1, i + Len(part))

\* q = v, or q ends in "." + v.
NamesCall(q, v) == IsSuffix(v, q)

Signals(kind, where, Matching(_)) ==
  UNION {{[kind |-> kind, provider |-> p, detail |-> d, where |-> where] : d \in Matching(p)}
         : p \in Providers}
Anonymous(kind, where) ==
  {[kind |-> kind, provider |-> "unknown", detail |-> "none", where |-> where]}

-----------------------------------------------------------------------------
\* computeEvidence: the signals A to F, read off the text of the handler.

PathMatches(h) ==
  Signals("path_pattern_match", "text", LAMBDA p : {c \in Catalog[p].paths : Includes(c, h.route)})

\* Namespaces and Go modules match by prefix (versions are left out of modules).
Imported(h, p) ==
  ((Catalog[p].packages \cup Catalog[p].modules) \cap h.imports)
    \cup {n \in Catalog[p].namespaces : \E i \in h.namespaces : IsPrefix(n, i)}
SdkImports(h) == Signals("sdk_import", "text", LAMBDA p : Imported(h, p))

EnvReferences(h) ==
  Signals("secret_env_var_reference", "text",
          LAMBDA p : {e \in Catalog[p].envs : \E t \in h.envs : Includes(e, t)})

LiteralMatches(h) ==
  Signals("secret_literal_match", "text", LAMBDA p : Catalog[p].literals \cap h.literals)

Generic == {<<"authorization">>}   \* of GENERIC_SIGNATURE_HEADERS, the one in the catalog

\* A header that several providers claim is for those other evidence speaks of,
\* or else for the first of them.
Owners(header, evidenced) ==
  LET claim == {p \in Providers : header \in Catalog[p].headers}
  IN IF Cardinality(claim) < 2 THEN claim
     ELSE IF claim \cap evidenced # {} THEN claim \cap evidenced
     ELSE {SelectSeq(Order, LAMBDA p : p \in claim)[1]}
HeaderReads(h, evidenced) ==
  {[e EXCEPT !.provider = IF e.detail \in Generic THEN "unknown" ELSE @] :
    e \in Signals("signature_header_read", "text", LAMBDA p :
            {d \in Catalog[p].headers : /\ p \in Owners(d, evidenced)
                                        /\ \E t \in h.headers : Includes(d, t)})}

RawBodyRead(h) == IF h.rawRead THEN Anonymous("body_as_bytes_or_buffer", "text") ELSE {}

TextEvidence(h) ==
  LET named == PathMatches(h) \cup SdkImports(h) \cup EnvReferences(h) \cup LiteralMatches(h)
  IN named \cup HeaderReads(h, {e.provider : e \in named}) \cup RawBodyRead(h)

\* Most evidence wins, a tie is "multiple", no evidence at all is the fallback.
MostCited(evidence, fallback) ==
  LET votes == [p \in {e.provider : e \in evidence} \ {"unknown"} |->
                  Cardinality({e \in evidence : e.provider = p})]
      top   == {p \in DOMAIN votes : \A q \in DOMAIN votes : votes[q] <= votes[p]}
  IN IF top = {} THEN fallback
     ELSE IF Cardinality(top) > 1 THEN "multiple" ELSE CHOOSE p \in top : TRUE
BaseProvider(h) == MostCited(TextEvidence(h), "unknown")

-----------------------------------------------------------------------------
\* The overlays of assembleHandler.

\* A bare name imported from a package that is not the provider's SDK.
OwnCode == {"./lib", "@/lib", "crypto"}
IsForeignBareCall(s, p) ==
  /\ s.from # Nowhere
  /\ Catalog[p].packages \cup Catalog[p].namespaces \cup Catalog[p].modules # {}
  /\ Len(s.name) = 1
  /\ s.from \notin OwnCode
  /\ s.from \notin Catalog[p].packages
SdkVerifyCalls(h) ==
  Signals("sdk_verify_call", "reach", LAMBDA p :
    {v \in Catalog[p].verify : \E s \in h.reach : NamesCall(s.name, v) /\ ~IsForeignBareCall(s, p)})

\* extractMiddlewareChain: every app.use above the handler, then the named
\* arguments of the route; those written in place have no name.
MiddlewareChain(h) ==
  IF h.dialect # "js" THEN <<>>
  ELSE SelectSeq(h.uses, LAMBDA m : m.above) \o SelectSeq(h.args, LAMBDA a : a.name # <<>>)
RawBodyMiddleware(h) ==
  IF \E i \in DOMAIN MiddlewareChain(h) :
       /\ MiddlewareChain(h)[i].name \in {<<"express", "raw">>, <<"raw">>}
       /\ MiddlewareChain(h)[i].from \in {"express", "body-parser"}
  THEN Anonymous("body_as_bytes_or_buffer", "middleware") ELSE {}

\* Functions written in place among the arguments: once for each argument.
InlineVerifyCalls(h) ==
  IF h.dialect # "js" THEN {}
  ELSE UNION {Signals("sdk_verify_call", i, LAMBDA p :
                {v \in Catalog[p].verify : \E c \in h.args[i].calls : NamesCall(c, v)})
              : i \in {j \in DOMAIN h.args : h.args[j].name = <<>>}}

\* The class's own name in the text, or ->method( with its class imported.
PhpVerifyCalls(h) ==
  IF h.dialect # "php" THEN {}
  ELSE Signals("sdk_verify_call", "php", LAMBDA p :
         {v \in Catalog[p].statics :
            \/ \E c \in h.statics : Includes(v, c)
            \/ /\ \E i \in h.namespaces : IsPrefix(Front(v), i)
               /\ Last(v) \in h.methods})

Exported == {"ConstructEvent", "ConstructEventWithTolerance",
             "ConstructEventIgnoringTolerance", "ValidatePayload", "ValidateSignature"}
\* Any .Func( counts once the provider's Go module is imported.
GoVerifyCalls(h) ==
  IF h.dialect # "go" THEN {}
  ELSE Signals("sdk_verify_call", "go", LAMBDA p :
         IF Catalog[p].modules \cap h.imports = {} THEN {}
         ELSE {v \in Catalog[p].verify : Len(v) > 1 /\ Last(v) \in Exported \cap h.methods}
              \cup {v \in {<<"Verify">>} : p = "standardwebhooks" /\ "Verify" \in h.methods})

\* queue-backends: method and kind of receiver, which may be any.
Enqueues == {<<"bullmq", "add", "queue">>, <<"sqs", "sendMessage", "any">>,
             <<"sqs", "sendMessageBatch", "any">>, <<"inngest", "send", "inngest">>,
             <<"kafka", "produce", "any">>, <<"kafka", "send", "producer">>}
Consumes == {<<"bullmq", "Worker", "any">>, <<"bullmq", "process", "queue">>,
             <<"sqs", "consume", "any">>, <<"sqs", "receiveMessage", "any">>,
             <<"inngest", "createFunction", "inngest">>,
             <<"kafka", "run", "consumer">>, <<"kafka", "subscribe", "consumer">>}
Backends(call, table) ==
  {t[1] : t \in {u \in table : u[2] = call.method /\ u[3] \in {"any", call.receiver}}}

\* The first call that queues the body decides on the backend; any consumer of
\* that backend in the project will do, and any provider's verification in it.
QueueVerification(h) ==
  LET queued == SelectSeq(h.enqueues, LAMBDA c : c.passesBody /\ Backends(c, Enqueues) # {})
  IN IF /\ h.dialect = "js" /\ queued # <<>>
        /\ \E c \in h.consumers :
             /\ Backends(c, Consumes) \cap Backends(queued[1], Enqueues) # {}
             /\ \E p \in Providers, n \in c.reach :
                  \E v \in Catalog[p].verify \cup Catalog[p].asymmetric : NamesCall(n, v)
     THEN Anonymous("queue_verification_reachable", "queue") ELSE {}

PreCfg(h) ==
  TextEvidence(h) \cup SdkVerifyCalls(h) \cup RawBodyMiddleware(h) \cup InlineVerifyCalls(h)
    \cup PhpVerifyCalls(h) \cup GoVerifyCalls(h) \cup QueueVerification(h)

-----------------------------------------------------------------------------
\* Attribution.

Primitives == {"createHmac", "timingSafeEqual", "compare_digest"}
\* Mutant: a primitive imported by name counts for its provider.
IsQualifiedPrimitive(e) == e.kind = "sdk_verify_call" /\ Len(e.detail) > 1 /\ Last(e.detail) \in Primitives
IsGenericPrimitive(e) == e.kind = "sdk_verify_call" /\ Last(e.detail) \in Primitives
RecomputeProvider(evidence, fallback) ==
  MostCited({e \in evidence : ~IsGenericPrimitive(e)}, fallback)

\* An import says that the package is used, not that webhooks arrive here.
Provider(h) ==
  LET evidence == PreCfg(h)
      p == RecomputeProvider(evidence, BaseProvider(h))
  IN IF h.nodeFile THEN "n8n"
     ELSE IF /\ ~h.webhookish
             /\ ~\E e \in evidence : e.provider = p /\ e.kind # "sdk_import"
     THEN "unknown" ELSE p

-----------------------------------------------------------------------------
\* handler-cfg and side-effect-classifier: what happens before verification.

VerificationSet(p, reach) ==
  Catalog[p].verify
    \cup {<<"this">> \o v : v \in {w \in Catalog[p].verify : Len(w) = 1}}
    \cup UNION {{q, SubSeq(q, 1, 1)} :
                q \in {r \in reach : \E v \in Catalog[p].verify : NamesCall(r, v)}}

Class(s, verify, sinks) ==
  LET effects == {i \in DOMAIN s.calls : s.calls[i] \in sinks.t1 \cup sinks.t2}
  IN IF s.test \cap verify # {} THEN [kind |-> "verification", call |-> <<>>]
     ELSE IF s.ends \in {"return", "answer", "refuse"} THEN [kind |-> "short_circuit", call |-> <<>>]
     ELSE IF ToSet(s.calls) \cap verify # {} THEN [kind |-> "verification", call |-> <<>>]
     ELSE IF effects # {} THEN [kind |-> "side_effect", call |-> s.calls[Min(effects)]]
     ELSE [kind |-> "neutral", call |-> <<>>]

\* Mutant: any verification covers any side effect.
VerifyOrderingUnordered(h, p) ==
  IF p \notin Providers \/ h.dialect # "js" THEN {}
  ELSE LET verify == VerificationSet(p, {s.name : s \in h.reach})
           class  == [i \in DOMAIN h.statements |-> Class(h.statements[i], verify, Catalog[p].sinks)]
       IN {[kind |-> "side_effect_before_verify", provider |-> p, detail |-> class[i].call, where |-> i] :
             i \in {j \in DOMAIN class : /\ class[j].kind = "side_effect"
                                         /\ \A k \in DOMAIN class : class[k].kind # "verification"}}
VerifyOrdering(h, p) ==
  IF p \notin Providers \/ h.dialect # "js" THEN {}
  ELSE LET verify == VerificationSet(p, {s.name : s \in h.reach})
           class  == [i \in DOMAIN h.statements |-> Class(h.statements[i], verify, Catalog[p].sinks)]
       IN {[kind |-> "side_effect_before_verify", provider |-> p,
            detail |-> class[i].call, where |-> i] :
             i \in {j \in DOMAIN class : /\ class[j].kind = "side_effect"
                                         /\ \A k \in 1..j : class[k].kind # "verification"}}

EvidenceOf(h) == PreCfg(h) \cup VerifyOrdering(h, Provider(h))
=============================================================================
