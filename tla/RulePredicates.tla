--------------------------- MODULE RulePredicates ---------------------------
\* rules/src/predicates: what each rule says of a handler h with evidence e, for
\* the provider p that it is bound to.  Next to what Evidence reads, h has
\*   own, near        shapes of its own lines and of the rest of its file, such
\*                    as a call of hash_equals
\*   compares         comparisons in its own lines [op, of, first, safe]: of the
\*                    signature or of something else, whether on its first line
\*                    (in PHP: and no operand or follower there of another operator),
\*                    and whether beside a constant-time one
\*   passes           calls it hands the raw request to
\*   windows          bounds on the age of a message: compared with it, under an
\*                    operator, or the fourth argument of a call [kind, op, call,
\*                    written, bound, divided, here]; written as a "number",
\*                    "folded" from numbers, from the environment or otherwise,
\*                    beside a division by 1000 or not, in its own lines or not
\*   clock            whether its file reads the clock
\*   authentication   of an n8n trigger
\*   logs             arguments of log calls and thrown errors of its file that hold
\*                    the secret [joined, parts]: parts [how, length] by "+" or not
\* Its statements also say whether their test is for development (dev) and what
\* the catch clause around them does, if there is one ("none", or as for ends).
EXTENDS Evidence

Silent == "silent"   \* null: no finding
Verdicts == {"verified", "manual-review", "not-verified"}

\* A rule that fires says not-verified, or asks for a review where something
\* may still excuse the handler.
Doubt(fires, excused) ==
  IF ~fires THEN Silent ELSE IF excused THEN "manual-review" ELSE "not-verified"
NotVerified(fires) == Doubt(fires, FALSE)
Review(fires) == Doubt(fires, TRUE)

Evidenced(e, kind, p) == \E x \in e : x.kind = kind /\ x.provider = p
HeaderRead(e) == \E x \in e : x.kind = "signature_header_read"
SdkEvidence(e, p) == Evidenced(e, "sdk_verify_call", p)

-----------------------------------------------------------------------------
\* _helpers: reachable symbols.

Calls(h, names) == \E s \in h.reach : Last(s.name) \in names
Hmac(h) == \E s \in h.reach : Last(s.name) = "createHmac" \/ NamesCall(s.name, <<"hmac", "new">>)
\* Mutant: a comparison that was imported by name is overlooked.
ConstantTimeMember(h) == \E s \in h.reach : Len(s.name) > 1 /\ Last(s.name) \in {"timingSafeEqual", "compare_digest"}
ConstantTime(h) == Calls(h, {"timingSafeEqual", "compare_digest"})
Recognized(h) == ConstantTime(h) \/ Calls(h, {"equals", "compare"})
ShapedLikeComparison == {"verifySig", "safeCompare"}   \* verify, valid, check, compare or equal in the name
Shaped(h) == Calls(h, ShapedLikeComparison)
ReadsClock(h) ==
  \E s \in h.reach : \E t \in {<<"Date", "now">>, <<"Date", "parse">>, <<"time", "time">>,
                               <<"datetime", "now">>, <<"datetime", "utcnow">>} : NamesCall(s.name, t)

SdkReached(h, p) ==
  \E s \in h.reach :
    /\ Catalog[p].packages = {} \/ s.from = Nowhere \/ s.from \in Catalog[p].packages
    /\ \E v \in Catalog[p].verify : NamesCall(s.name, v)

\* The raw request is handed to something imported.
Delegates(h) == \E s \in h.reach : s.from # Nowhere /\ Last(s.name) \in h.passes

\* The scope of the rules for PHP and Go.  Handlers are assembled without their
\* body's node, so that the rules fall back on the whole file.
Judged(h) == h.own \cup h.near

-----------------------------------------------------------------------------
\* Comparisons of the signature that leak its prefix through their timing.
LeakyOps == [js |-> {"==", "!="}, py |-> {}, php |-> {"==", "strcmp"},
             go |-> {"==", "!=", "bytes.Equal"}]
Leaks(c, dialect) == c.op \in LeakyOps[dialect] /\ (c.of = "signature" \/ c.op = "strcmp")
Insecure(h) ==
  \/ \E i \in DOMAIN h.compares : Leaks(h.compares[i], h.dialect)
  \/ h.dialect \in {"php", "go"} /\ "insecure" \in h.near

-----------------------------------------------------------------------------
\* missing-signature-verification and the predicates it hands custom formats to.

OwnPhpPath == {"standardwebhooks", "paypal"}
MissingInPhp(h, e, p) == NotVerified(~SdkEvidence(e, p) /\ "hash_hmac" \notin Judged(h))
\* Mutant: the import of an SDK counts as its use.
MissingUnlessImported(h, e, p) ==
  NotVerified(~SdkReached(h, p) /\ ~Hmac(h) /\ ~Evidenced(e, "sdk_import", p))
MissingByDefault(h, e, p) ==
  Doubt(~SdkReached(h, p) /\ ~Hmac(h) /\ ~SdkEvidence(e, p),
        Delegates(h) \/ (Calls(h, {"createHash"}) /\ h.compares # <<>>))

MissingTwilio(h) == NotVerified(~SdkReached(h, "twilio") /\ ~Hmac(h))
MissingHubspot(h, e) ==
  NotVerified(~SdkReached(h, "hubspot") /\ ~Hmac(h) /\ ~SdkEvidence(e, "hubspot"))
MissingNotion(h, e) == NotVerified(~Hmac(h) /\ ~HeaderRead(e))
MissingMailchimp(h, e) ==
  NotVerified("urlSecret" \notin h.own /\ ~Hmac(h) /\ ~SdkEvidence(e, "mailchimp"))
BasicAuth(h) == Calls(h, {"authorization", "basicAuth"})
IpRead(h) == Calls(h, {"ip", "getClientIp"})
MissingPostmark(h, e) == NotVerified(~SdkEvidence(e, "postmark") /\ ~BasicAuth(h) /\ ~IpRead(h))

\* A MAC that is computed is compared, perhaps compared, or forgotten.
MissingStandard(h, e) ==
  LET p == "standardwebhooks"
  IN IF SdkEvidence(e, p) THEN Silent
     ELSE IF h.dialect = "php"
     THEN Doubt("hash_hmac" \notin Judged(h) \/ ("hash_equals" \notin Judged(h) /\ ~Insecure(h)),
                {"hash_hmac", "shaped"} \subseteq Judged(h))
     ELSE Doubt(/\ ~SdkReached(h, p)
                /\ Hmac(h) => /\ ~Recognized(h)
                              /\ Shaped(h) \/ ~Insecure(h),
                Hmac(h) /\ Shaped(h))

\* PayPal's result has to be looked at: a postback or an SDK call is half of it.
PaypalClass(h, e) ==
  LET asked == \/ SdkEvidence(e, "paypal") \/ "postback" \in h.own
               \/ \E s \in h.reach : \E v \in Catalog["paypal"].verify : NamesCall(s.name, v)
  IN IF asked THEN IF "checksResult" \in h.own THEN "checked" ELSE "unchecked"
     ELSE IF "rsa" \in h.own \/ Judged(h) \cap {"postback", "rsa"} # {} THEN "indirect"
     ELSE "none"
MissingPaypal(h, e) ==
  Doubt(PaypalClass(h, e) # "checked", PaypalClass(h, e) # "none" \/ Delegates(h))

Ed25519(h, e) ==
  \/ \E s \in h.reach : \E v \in Catalog["discord"].asymmetric : NamesCall(s.name, v)
  \/ SdkEvidence(e, "discord") \/ "ed25519" \in h.own

MissingSignature(h, e, p) ==
  CASE p = "discord" -> NotVerified(~Ed25519(h, e))
    [] h.dialect = "php" /\ p \notin OwnPhpPath -> MissingInPhp(h, e, p)
    [] p = "standardwebhooks" -> MissingStandard(h, e)
    [] p = "paypal" -> MissingPaypal(h, e)
    [] p = "twilio" /\ h.dialect # "php" -> MissingTwilio(h)
    [] p = "hubspot" /\ h.dialect # "php" -> MissingHubspot(h, e)
    [] p = "notion" /\ h.dialect # "php" -> MissingNotion(h, e)
    [] p = "mailchimp" /\ h.dialect # "php" -> MissingMailchimp(h, e)
    [] p = "postmark" /\ h.dialect # "php" -> MissingPostmark(h, e)
    [] OTHER -> MissingByDefault(h, e, p)

\* The SDK's name is enough here, wherever it was imported from.
LibraryVerified(h, e, p) ==
  IF CASE p = "discord" -> Ed25519(h, e)
       [] p = "paypal" -> PaypalClass(h, e) = "checked"
       [] OTHER -> \/ SdkEvidence(e, p)
                   \/ \E s \in h.reach : \E v \in Catalog[p].verify : NamesCall(s.name, v)
  THEN "verified" ELSE Silent

Unreachable(h, e, p) ==
  Review(Evidenced(e, "sdk_import", p) /\ ~SdkReached(h, p) /\ ~SdkEvidence(e, p))

-----------------------------------------------------------------------------
\* How the signature is computed and compared.

TimingInGo(h) ==
  NotVerified(/\ "hmac.New" \in Judged(h) /\ "hmac.Equal" \notin Judged(h) /\ Insecure(h))
TimingInPhp(h, e, p) ==
  NotVerified(/\ ~SdkEvidence(e, p) /\ "hash_equals" \notin Judged(h)
              /\ "hash_hmac" \in Judged(h) /\ Insecure(h))
TimingByReach(h, p) == NotVerified(~SdkReached(h, p) /\ Hmac(h) /\ ~ConstantTime(h))
TimingUnsafe(h, e, p) ==
  CASE h.dialect = "php" -> TimingInPhp(h, e, p)
    [] h.dialect = "go" -> IF SdkEvidence(e, p) THEN Silent ELSE TimingInGo(h)
    [] OTHER -> TimingByReach(h, p)

Octokit == {"@octokit/webhooks", "@octokit/webhooks-methods"}
FromOctokit(h) == \E s \in h.reach : s.from \in Octokit
\* GitHub's own: timingSafeEqual only as a member, and no MAC is needed to fire.
TimingGithub(h, e) ==
  CASE h.dialect = "php" -> NotVerified(Insecure(h) /\ "hash_equals" \notin Judged(h))
    [] h.dialect = "go" -> IF SdkEvidence(e, "github") THEN Silent ELSE TimingInGo(h)
    [] OTHER -> NotVerified(/\ ~FromOctokit(h)
                            /\ ~\E s \in h.reach : /\ Len(s.name) > 1
                                                   /\ Last(s.name) = "timingSafeEqual")

RawBodyMisuse(h, e, p) ==
  LET reads == Evidenced(e, "signature_header_read", p)
      hops  == {s.hops : s \in {r \in h.reach : \E v \in Catalog[p].verify : NamesCall(r.name, v)}}
  IN Doubt(/\ ~\E x \in e : x.kind = "body_as_bytes_or_buffer"
           /\ reads \/ SdkEvidence(e, p),
           ~reads /\ hops # {} /\ \A n \in hops : n > 1)

MissingTimestamp(h, p) == Review(~SdkReached(h, p) /\ Hmac(h) /\ ~ReadsClock(h))

Algorithms == {"md5", "sha1", "sha256", "sha384", "sha512"}
WrongAlgorithm(h, p) ==
  LET used == {Last(s.name) : s \in h.reach} \cap Algorithms
      right == Catalog[p].algorithm \in used
      wrong == used \ {Catalog[p].algorithm} # {}
  IN Doubt(Hmac(h) /\ (wrong \/ ~right), right \/ ~wrong)

-----------------------------------------------------------------------------
\* What surrounds the verification; all but the first for JavaScript only.

VerifyAfter(h, e, p) ==
  Review(/\ Evidenced(e, "side_effect_before_verify", p)
         /\ ~(p = "paypal" /\ "postback" \in h.own))

VerifiesAt(h, p) ==
  {i \in DOMAIN h.statements :
     \E c \in ToSet(h.statements[i].calls) \cup h.statements[i].test :
       \E v \in Catalog[p].verify : NamesCall(c, v)}
\* A return counts as success whatever it returns, a response without a status.
Succeeds == {"return", "answer"}
TestModeBypass(h, p) ==
  NotVerified(\E i \in DOMAIN h.statements :
                /\ h.statements[i].dev /\ h.statements[i].ends \in Succeeds
                /\ \A j \in VerifiesAt(h, p) : i < j)
Terminates == {"return", "throw", "exit", "next", "refuse"}
ErrorSwallowed(h, p) ==
  NotVerified(\E i \in VerifiesAt(h, p) : h.statements[i].catch \notin {"none"} \cup Terminates)

\* How much of the secret a part of a logged argument shows: a hash, its length
\* or whether there is one show nothing.  "+" takes the worst of its parts, a
\* template the first that shows something.
Shown(part) ==
  CASE part.how \in {"name", "toString", "stringify"} -> "not-verified"
    [] part.how = "slice" -> IF part.length <= 8 THEN "manual-review" ELSE "not-verified"
    [] OTHER -> Silent
ArgumentShows(arg) ==
  LET shows == SelectSeq([i \in DOMAIN arg.parts |-> Shown(arg.parts[i])], LAMBDA v : v # Silent)
  IN IF shows = <<>> THEN Silent
     ELSE IF arg.joined = "+" /\ "not-verified" \in ToSet(shows) THEN "not-verified" ELSE shows[1]
SecretInLog(h) ==
  LET shows == {ArgumentShows(a) : a \in h.logs}
  IN Doubt(shows \cap Verdicts # {}, "not-verified" \notin shows)

Day == 86400
\* Mutant: every bound without a division is in milliseconds.
InMillisecondsUndivided(w) == w.kind = "compare" /\ ~w.divided
\* The unit of a bound that nothing divides by 1000 is guessed from its size.
InMilliseconds(w) ==
  w.kind = "compare" /\ ~w.divided /\ (w.bound > Day \/ (w.bound >= 1000 /\ w.bound % 1000 = 0))
\* What the rule looks at: > and >=, and the calls that verify for the provider.
LooksAt(w, p) ==
  /\ w.here
  /\ \/ w.kind = "compare" /\ w.op \in {">", ">="}
     \/ w.kind = "argument" /\ \E v \in Catalog[p].verify : NamesCall(w.call, v)
\* foldNumeric: numbers and arithmetic on numbers; a name is none.
Folds(w) == w.written \in {"number", "folded"}
TooWide(w, p) ==
  Folds(w) /\ w.bound > (IF InMilliseconds(w) THEN 1000 ELSE 1) * Catalog[p].tolerance
\* A bound that may be anything; an argument that is no plain number is one.
Unknown(w, p) ==
  IF w.kind = "compare" THEN w.written = "env" ELSE w.written # "number" /\ ~TooWide(w, p)
ReplayWindow(h, p) ==
  LET seen == {w \in h.windows : LooksAt(w, p)}
      wide == \E w \in seen : TooWide(w, p)
  IN IF Catalog[p].tolerance = 0 THEN Silent
     ELSE Doubt(wide \/ (h.clock /\ \E w \in seen : Unknown(w, p)), ~wide)

-----------------------------------------------------------------------------
\* Rules of one provider.

Parsing == {"split", "substring", "substr", "slice", "replace", "explode"}
Iteration == {"split", "forEach", "map", "some", "every", "find", "filter", "explode"}
PrefixKept(h, e) == Review(Hmac(h) /\ HeaderRead(e) /\ ~Calls(h, Parsing))
OneOfMany(h) == Review(Hmac(h) /\ ~Calls(h, Iteration))
HeaderOnly(h, e) == Review(HeaderRead(e) /\ ~Hmac(h))
HeaderConfusion(h, e) == Review(Hmac(h) /\ ~HeaderRead(e))
UnguardedParser(h) ==
  \E i \in DOMAIN MiddlewareChain(h) :
    /\ \/ MiddlewareChain(h)[i].name \in {<<"express", "json">>, <<"bodyParser", "json">>}
       \/ /\ MiddlewareChain(h)[i].name = <<"json">>
          /\ MiddlewareChain(h)[i].from \in {"express", "body-parser"}
    /\ ~MiddlewareChain(h)[i].keepsRaw
=============================================================================
