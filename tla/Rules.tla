------------------------------- MODULE Rules -------------------------------
\* The rule pack, rules/rules/*/*.yaml, and engine/src/evaluate.ts: which rules
\* there are, for whose handlers, and what a handler is reported as.
EXTENDS RulePredicates

\* The packs, in the order in which they are registered.
FirstPacks == {"stripe", "github", "shopify", "twilio", "slack", "square"}
SecondPacks == {"zendesk", "intercom", "linear", "docusign", "auth0", "hubspot",
                "mailchimp", "postmark", "sentry"}
ThirdPacks == {"pagerduty", "bitbucket", "notion", "calendly", "zoom", "standardwebhooks"}
Agents == {"n8n", "anthropic"}
OwnFormats == {"nmi", "braintree", "paypal"}
SdkPacks == FirstPacks \cup SecondPacks \cup ThirdPacks

\* The providers each factory of predicates is instantiated for.
MissingFor == SdkPacks
LibraryFor == FirstPacks \cup {"standardwebhooks"}
UnreachableFor == SdkPacks
TimingFor == SdkPacks
RawBodyFor == SdkPacks
TimestampFor == SdkPacks \ {"square", "notion", "mailchimp", "postmark"}
AlgorithmFor == SdkPacks \ {"mailchimp", "postmark"}
Swallowable == SdkPacks \cup OwnFormats
Bypassable == SdkPacks \cup OwnFormats
Loggable == SdkPacks \cup OwnFormats \cup Agents
Ordered == SdkPacks \cup OwnFormats \cup Agents
Replayable == {"stripe", "slack", "shopify", "standardwebhooks"}

\* ALL_PREDICATES: which kinds of rules are bound to which providers.
Kinds == [
  missing    |-> MissingFor \cup Agents \cup OwnFormats \cup {"discord"},
  library    |-> LibraryFor \cup {"discord", "braintree", "paypal"},
  unreachable |-> UnreachableFor \cup {"nmi"},
  timing     |-> TimingFor \cup Agents \cup {"nmi"},
  rawBody    |-> RawBodyFor \cup Agents \cup {"nmi"},
  timestamp  |-> TimestampFor \cup Agents,
  algorithm  |-> AlgorithmFor \cup {"nmi"},
  after      |-> Ordered,
  bypass     |-> Bypassable,
  swallowed  |-> Swallowable,
  inLog      |-> Loggable,
  replay     |-> Replayable,
  emptySecret |-> {"stripe"}, ordering |-> {"stripe"},
  headerOnly |-> {"zoom", "notion"}, prefix |-> {"bitbucket", "calendly"},
  rotation   |-> {"pagerduty", "standardwebhooks"}, confusion |-> {"sentry"},
  octokit    |-> {"intercom"}, urlSecret |-> {"mailchimp"},
  basicAuth  |-> {"postmark"}, ipList |-> {"postmark"}, trigger |-> {"n8n"}]

\* Hardcoded secrets, by prefix: the one rule that is not bound to the handler's
\* provider.
HardcodedPrefixes == {"whsec_", "ghs_", "n8n_api_", "sk-ant-"}

\* applies_to: JavaScript only, all but Go, or all.
OnlyJs == {"after", "bypass", "swallowed", "inLog", "replay", "emptySecret", "octokit"}
AlsoGo(kind, p) ==
  \/ kind = "library" /\ p \in {"github", "standardwebhooks", "stripe"}
  \/ kind = "timing" /\ p \in {"github", "stripe"}
AppliesTo(kind, p, h) ==
  IF kind = "trigger" THEN h.framework = "n8n-workflow"
  ELSE IF kind = "ordering" THEN h.framework = "express"
  ELSE /\ h.framework # "n8n-workflow"
       /\ kind \in OnlyJs \/ p \in Agents => h.dialect = "js"
       /\ h.dialect = "go" => AlsoGo(kind, p)

\* The predicate of each kind.
Verdict(kind, h, e, p) ==
  CASE kind = "missing" -> MissingSignature(h, e, p)
    [] kind = "library" -> LibraryVerified(h, e, p)
    [] kind = "unreachable" -> Unreachable(h, e, p)
    [] kind = "timing" -> IF p = "github" THEN TimingGithub(h, e) ELSE TimingUnsafe(h, e, p)
    [] kind = "rawBody" -> RawBodyMisuse(h, e, p)
    [] kind = "timestamp" -> MissingTimestamp(h, p)
    [] kind = "algorithm" -> WrongAlgorithm(h, p)
    [] kind = "after" -> VerifyAfter(h, e, p)
    [] kind = "bypass" -> TestModeBypass(h, p)
    [] kind = "swallowed" -> ErrorSwallowed(h, p)
    [] kind = "inLog" -> SecretInLog(h)
    [] kind = "replay" -> ReplayWindow(h, p)
    [] kind = "emptySecret" -> NotVerified("emptySecret" \in Judged(h))
    [] kind = "ordering" -> NotVerified(UnguardedParser(h))
    [] kind = "headerOnly" -> HeaderOnly(h, e)
    [] kind = "prefix" -> PrefixKept(h, e)
    [] kind = "rotation" -> OneOfMany(h)
    [] kind = "confusion" -> HeaderConfusion(h, e)
    [] kind = "octokit" -> NotVerified(FromOctokit(h))
    [] kind = "urlSecret" -> Review("urlSecret" \in h.own)
    [] kind = "basicAuth" -> Review(IpRead(h) /\ ~BasicAuth(h))
    [] kind = "ipList" -> Review(BasicAuth(h) /\ ~IpRead(h))
    [] kind = "trigger" -> NotVerified(h.authentication = "none")
    [] OTHER -> Silent

-----------------------------------------------------------------------------
\* evaluateRulesForHandler and evaluate.

\* The rules bound to the handler's provider, and those of hardcoded secrets.
FindingsOf(h, e, p) ==
  {[kind |-> k, state |-> Verdict(k, h, e, p)] :
     k \in {x \in DOMAIN Kinds : /\ p \in Kinds[x] /\ AppliesTo(x, p, h)
                                /\ Verdict(x, h, e, p) # Silent}}
  \cup {[kind |-> "hardcoded", state |-> "not-verified"] :
          d \in {x \in e : /\ x.kind = "secret_literal_match"
                          /\ x.detail \in HardcodedPrefixes /\ h.dialect # "go"}}

VerdictRank == [v \in Verdicts |->
  CASE v = "verified" -> 0 [] v = "manual-review" -> 1 [] v = "not-verified" -> 2]
Worst(states) == CHOOSE v \in states : \A w \in states : VerdictRank[w] <= VerdictRank[v]

Deferred(e) == \E x \in e : x.kind = "queue_verification_reachable"
Downgrade(v, e) == IF Deferred(e) /\ v = "not-verified" THEN "manual-review" ELSE v

\* Mutant: no finding counts as verified.
ReportSilenceAsVerified(h, e, p) ==
  LET found == FindingsOf(h, e, p)
      worst == IF found = {} THEN "verified" ELSE Worst({f.state : f \in found})
  IN [provider |-> p, state |-> Downgrade(worst, e),
      findings |-> {[f EXCEPT !.state = Downgrade(@, e)] : f \in found}]

\* With no finding at all, nothing was confirmed.
Report(h, e, p) ==
  LET found == FindingsOf(h, e, p)
      worst == IF found = {} THEN "manual-review" ELSE Worst({f.state : f \in found})
  IN [provider |-> p, state |-> Downgrade(worst, e),
      findings |-> {[f EXCEPT !.state = Downgrade(@, e)] : f \in found}]
=============================================================================
