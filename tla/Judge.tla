-------------------------------- MODULE Judge --------------------------------
\* A handler is scanned, its source is changed, and it is scanned again.  A scan
\* is that of cli/src/pipeline.ts on one handler: the engine assembles the
\* evidence, attributes the handler to a provider, adds the order of
\* verification and side effects (engine/src/model/build.ts), and the rules bound
\* to the provider are evaluated (engine/src/evaluate.ts).  Between two scans the
\* source changes: hookwarden fix applies the edit of a finding, or a developer
\* takes the verification out.
\* What a handler really does, which the program does not read, is in h.truth:
\*   "nothing", "sdk" (the provider's own verification), "constant" (a MAC that
\*   is compared in constant time), "leaky" (a MAC that is not), "other"
\* and in the unit of each of h.windows, "s" or "ms".
EXTENDS Codegen

CONSTANTS Sources,   \* the handlers to begin with
          MaxScans

ASSUME MaxScansAssumption == MaxScans \in Nat \ {0}

\* What the modules below read of a handler, in one of the languages they know.
Fields == {"dialect", "framework", "route", "webhookish", "nodeFile", "imports", "namespaces",
           "envs", "literals", "headers", "rawRead", "reach", "uses", "args", "statics", "methods",
           "enqueues", "consumers", "statements", "own", "near", "compares", "passes", "windows",
           "clock", "logs", "authentication", "body", "truth"}
IsHandler(h) ==
  /\ h = [f \in Fields |-> h[f]]
  /\ h.dialect \in {"js", "py", "php", "go"}
  /\ h.statements \in Seq(Range(h.statements)) /\ h.args \in Seq(Range(h.args))
ASSUME HandlersAssumption == \A h \in Sources : IsHandler(h)

\* A handler that does not verify, or compares carelessly, calls nothing that is
\* named like a verification of any provider, but for the primitives, which three
\* of them list.
CallsNoSdk(h) ==
  LET calls == {s.name : s \in h.reach} \cup UNION {h.args[i].calls : i \in DOMAIN h.args}
  IN /\ \A p \in Providers : \A v \in Catalog[p].verify \cup Catalog[p].asymmetric :
          \A c \in calls : NamesCall(c, v) => Last(v) \in Primitives
     /\ \A p \in Providers : \A v \in Catalog[p].statics :
          Last(v) \notin h.methods /\ ~\E c \in h.statics : Includes(v, c)
     /\ h.methods \cap (Exported \cup {"Verify"}) = {}
     /\ "ed25519" \notin h.own /\ ~({"postback", "checksResult"} \subseteq h.own)
\* A handler that verifies with an SDK calls what p lists, from p's own package or
\* from wherever the engine could not tell.  The rule for timing knows neither an
\* SDK that is called in a middleware written in place, nor one in Go that is not
\* imported under its path: then there is no MAC besides.
CallsSdk(h, p) ==
  \/ \E s \in h.reach, v \in Catalog[p].verify :
       s.from \in Catalog[p].packages \cup {Nowhere} /\ NamesCall(s.name, v)
  \/ /\ h.dialect = "js" /\ ~Hmac(h)
     /\ \E i \in DOMAIN h.args : \E c \in h.args[i].calls, v \in Catalog[p].verify :
          h.args[i].name = <<>> /\ NamesCall(c, v)
  \/ /\ h.dialect = "php"
     /\ \E v \in Catalog[p].statics :
          \/ \E c \in h.statics : Includes(v, c)
          \/ Last(v) \in h.methods /\ \E i \in h.namespaces : IsPrefix(Front(v), i)
  \/ /\ h.dialect = "go"
     /\ \E v \in Catalog[p].verify : Len(v) > 1 /\ Last(v) \in Exported \cap h.methods
     /\ "hmac.New" \in h.own \cup h.near => Catalog[p].modules \cap h.imports # {}
\* One that compares a MAC in constant time does so with its language's library.
ComparesSafely(h) ==
  CASE h.dialect = "php" -> {"hash_hmac", "hash_equals"} \subseteq h.own
    [] h.dialect = "go" -> {"hmac.New", "hmac.Equal"} \subseteq h.own
    [] OTHER -> /\ Hmac(h)
                /\ \E s \in h.reach : Last(s.name) \in {"timingSafeEqual", "compare_digest"}
Truthful(h) ==
  /\ h.truth \in {"nothing", "leaky"} => CallsNoSdk(h)
  /\ h.truth = "sdk" /\ Provider(h) \in Providers => CallsSdk(h, Provider(h))
  /\ h.truth = "constant" => ComparesSafely(h)
ASSUME TruthAssumption == \A h \in Sources : Truthful(h)

VARIABLES source, evidence, provider,
          phase,     \* "read", "assembled", "ordered", "reported"
          change,    \* what was last done to the source
          scans      \* the scans so far, oldest first
vars == <<source, evidence, provider, phase, change, scans>>

Changes == {"written", "removed", "timing", "rawBody"}
Attributions == Providers \cup {"unknown", "multiple"}
Kinded == DOMAIN Kinds \cup {"hardcoded"}
TypeOK ==
  /\ phase \in {"read", "assembled", "ordered", "reported"}
  /\ change \in Changes
  /\ provider \in Attributions
  /\ \A e \in evidence : e.provider \in Attributions \ {"multiple"}
  /\ Len(scans) <= MaxScans
  /\ \A i \in DOMAIN scans :
       /\ scans[i].report.provider \in Attributions
       /\ scans[i].report.state \in Verdicts
       /\ scans[i].report.findings \subseteq [kind : Kinded, state : Verdicts]

Init ==
  /\ source \in Sources
  /\ evidence = {} /\ provider = "unknown" /\ phase = "read"
  /\ change = "written" /\ scans = <<>>

\* assembleHandler up to the attribution.
Assemble ==
  /\ phase = "read"
  /\ evidence' = PreCfg(source)
  /\ provider' = Provider(source)
  /\ phase' = "assembled"
  /\ UNCHANGED <<source, change, scans>>

\* The order is that of the calls of the provider it was attributed to.
OrderCalls ==
  /\ phase = "assembled"
  /\ evidence' = evidence \cup VerifyOrdering(source, provider)
  /\ phase' = "ordered"
  /\ UNCHANGED <<source, provider, change, scans>>

Evaluate ==
  /\ phase = "ordered"
  /\ scans' = Append(scans, [source |-> source, change |-> change,
                             report |-> Report(source, evidence, provider)])
  /\ phase' = "reported"
  /\ UNCHANGED <<source, evidence, provider, change>>

Rewrite(how, h) ==
  /\ phase = "reported" /\ Len(scans) < MaxScans
  /\ source' = h /\ change' = how
  /\ evidence' = {} /\ provider' = "unknown" /\ phase' = "read"
  /\ UNCHANGED scans

\* hookwarden fix, for one finding of the last scan.
Fix ==
  \E f \in Last(scans).report.findings :
    /\ Offers(f.kind, source, Last(scans).report.provider)
    /\ Rewrite(f.kind, Fixed(f.kind, source))

\* A developer deletes every call that verifies and leaves the rest.
WithoutCalls(a) ==
  [name |-> a.name, from |-> a.from, above |-> a.above, calls |-> {}, keepsRaw |-> a.keepsRaw]
OnlyEffects(s) ==
  [s EXCEPT !.test = {},
            !.calls = SelectSeq(@, LAMBDA c : c \in SharedSinks.t1 \cup SharedSinks.t2)]
Unverified(h) ==
  [h EXCEPT !.reach = {}, !.args = [i \in DOMAIN @ |-> WithoutCalls(@[i])],
            !.statics = {}, !.methods = {}, !.consumers = {}, !.passes = {},
            !.own = {}, !.compares = <<>>, !.truth = "nothing",
            !.statements = [i \in DOMAIN @ |-> OnlyEffects(@[i])]]
Unverify ==
  /\ phase = "reported" /\ source.truth # "nothing"
  /\ Rewrite("removed", Unverified(source))

Next == Assemble \/ OrderCalls \/ Evaluate \/ (scans # <<>> /\ Fix) \/ Unverify
Spec == Init /\ [][Next]_vars

-----------------------------------------------------------------------------
Latest == Last(scans)
First == scans[1]
Rescanned(how) == phase = "reported" /\ Len(scans) > 1 /\ change \in how
Finds(scan, kind, states) == \E f \in scan.report.findings : f.kind = kind /\ f.state \in states
Kind(scan) == {f.kind : f \in scan.report.findings}
Judges(scan, kind) ==
  /\ scan.report.provider \in Kinds[kind]
  /\ AppliesTo(kind, scan.report.provider, scan.source)
Alone(h) == h.near = {}   \* nothing else in the file

\* A handler that computes no MAC, or compares it carelessly, and calls no SDK is
\* never reported verified, whatever else its file holds.
NeverBlessed ==
  phase = "reported" /\ Latest.report.state = "verified"
    => Latest.source.truth \notin {"nothing", "leaky"}

\* Taking the verification out of a handler turns its report to not-verified, if
\* any provider is left that it is attributed to: no other trace of the provider,
\* an import or a header, passes for verification.  Reading the header is all the
\* rules ask of Notion.
RemovalIsNoticed ==
  (/\ Rescanned({"removed"})
   /\ Judges(Latest, "missing") /\ Alone(Latest.source)
   /\ ~(Latest.report.provider = "notion" /\ Latest.source.headers # {}))
    => Latest.report.state = "not-verified"

\* A handler that verifies with its provider's own SDK, or with a MAC compared in
\* constant time, is not told that verification is missing or careless.  (Three
\* providers do not sign with a MAC.  Three rules do accuse such handlers: those
\* of GitHub of any but a qualified timingSafeEqual, Notion's of its own SDK, and
\* Twilio's of a middleware written in place.)
KnownAccusations ==
  {<<"github", "timing">>, <<"notion", "missing">>, <<"twilio", "missing">>}
NotByMac == {"discord", "paypal", "postmark"}
SafeIsNotAccused ==
  (/\ phase = "reported"
   /\ \/ Latest.source.truth = "sdk"
      \/ Latest.source.truth = "constant" /\ Latest.report.provider \notin NotByMac)
    => \A kind \in {"missing", "timing"} :
         Finds(Latest, kind, {"not-verified"})
           => <<Latest.report.provider, kind>> \in KnownAccusations

\* Adding a verification never hands the handler to another provider, although
\* most providers verify under the same few names.
VerifyingKeepsTheName ==
  Rescanned({"removed"}) /\ {First.report.provider, Latest.report.provider} \subseteq Providers
    => First.report.provider = Latest.report.provider

\* A handler that acts on a message before it has verified it is never reported
\* verified without reservation, where the provider has a rule for it (Discord
\* has none, PayPal's postback is exempt).  The engine looks into no if that ends
\* the handler, and takes a call of the object that verifies for a verification.
Receivers(h, p) ==
  {SubSeq(s.name, 1, 1) :
     s \in {r \in h.reach : \E v \in Catalog[p].verify : NamesCall(r.name, v)}}
EarlyEffectsAreSeen ==
  LET h == Latest.source
      p == Latest.report.provider
      Called(i) == ToSet(h.statements[i].calls) \cup h.statements[i].test
  IN (/\ phase = "reported" /\ Latest.report.state = "verified" /\ Judges(Latest, "after")
      /\ ~(p = "paypal" /\ "postback" \in h.own))
     => \A i \in DOMAIN h.statements :
          \/ ToSet(h.statements[i].calls) \cap (SharedSinks.t1 \cup SharedSinks.t2) = {}
          \/ h.statements[i].ends \in {"return", "answer", "refuse"}
          \/ \E k \in 1..i : k \in VerifiesAt(h, p) \/ Called(k) \cap Receivers(h, p) # {}

\* Applying the edit of a finding makes that finding go away, raises no other one
\* and leaves the handler with its provider.  GitHub's rule for timing does not
\* know what the edit for Python inserts.
FixHeals ==
  Rescanned({"timing", "rawBody"})
    => LET before == scans[Len(scans) - 1]
       IN /\ \/ change \notin Kind(Latest)
             \/ /\ <<before.report.provider, change>> = <<"github", "timing">>
                /\ Latest.source.dialect = "py"
          /\ Kind(Latest) \subseteq Kind(before)
          /\ Latest.report.provider = before.report.provider

\* A window for replays that is wider than the provider's and at most 999 seconds
\* is reported, in whichever unit it is written and whatever other bounds there are;
\* for a review only, if a queue may lead to the verification.  It is in plain sight:
\* in the handler's own lines, in numbers without names, compared by > or >=, or the
\* fourth argument of the provider's verification.  The rule sees no other.
InPlainSight(w, p) ==
  /\ w.here /\ w.written \in {"number", "folded"}
  /\ \/ w.kind = "compare" /\ w.op \in {">", ">="}
     \/ w.kind = "argument" /\ \E v \in Catalog[p].verify : IsSuffix(v, w.call)
WideWindowsAreSeen ==
  phase = "reported" /\ Judges(Latest, "replay")
    => \A w \in Latest.source.windows :
         LET scale == IF w.unit = "ms" THEN 1000 ELSE 1
         IN (/\ InPlainSight(w, Latest.report.provider)
             /\ w.bound \in (Catalog[Latest.report.provider].tolerance * scale + 1)..(999 * scale))
              => Finds(Latest, "replay", {Downgrade("not-verified", QueueVerification(Latest.source))})
=============================================================================
