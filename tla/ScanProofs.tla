----------------------------- MODULE ScanProofs -----------------------------
(***************************************************************************)
(* What a scan says of a handler, and what the gate makes of it.           *)
(*                                                                         *)
(* Judge, for any handlers.  The inductive invariant says of every report  *)
(* that it is that of its own handler, read anew, and of two consecutive   *)
(* scans that the second handler comes from the first by a change that the *)
(* program offers, or by taking the verification out.  The properties then *)
(* are facts about the evidence of a handler, and about that of two that a *)
(* change relates.  What they need of the catalog is proved entry by       *)
(* entry.                                                                  *)
(*                                                                         *)
(* ScanGate, for any handlers, files, scans and edits.  The inductive      *)
(* invariant says of every baseline, on disk or read, that it holds what   *)
(* its scan found, and of every scan how far it has come: from what it     *)
(* read to the exit code it gave.                                          *)
(***************************************************************************)
EXTENDS Judge, ScanGate, FiniteSetTheorems, TLAPS

-----------------------------------------------------------------------------
\* How a handler comes from one that was reported.
Changed(scan, how, h) ==
  \/ how = "removed" /\ scan.source.truth # "nothing" /\ h = Unverified(scan.source)
  \/ /\ \E f \in scan.report.findings : f.kind = how
     /\ Offers(how, scan.source, scan.report.provider)
     /\ h = Fixed(how, scan.source)

\* A report is that of the handler it is about: nothing of an earlier scan is in it.
Own(scan) ==
  scan.report = Report(scan.source, EvidenceOf(scan.source), Provider(scan.source))

History ==
  /\ scans \in Seq(Range(scans))
  /\ \A i \in DOMAIN scans : Own(scans[i]) /\ IsHandler(scans[i].source)
  /\ \A i \in DOMAIN scans : i > 1 => Changed(scans[i - 1], scans[i].change, scans[i].source)

Now ==
  /\ IsHandler(source)
  /\ phase \in {"read", "assembled", "ordered", "reported"}
  /\ phase = "assembled" => evidence = PreCfg(source) /\ provider = Provider(source)
  /\ phase = "ordered" => evidence = EvidenceOf(source) /\ provider = Provider(source)
  /\ phase = "reported" => scans # <<>> /\ Last(scans).source = source /\ Last(scans).change = change
  /\ phase # "reported" /\ scans # <<>> => Changed(Last(scans), change, source)

Inv == History /\ Now

\* Only two kinds of findings come with an edit.
LEMMA Offered ==
  ASSUME NEW kind, NEW h, NEW p, Offers(kind, h, p)
  PROVE  kind \in {"timing", "rawBody"}
BY DEF Offers, Codegens

\* Edits are offered for the handlers of a provider that has rules for them.
LEMMA OfferedTo ==
  ASSUME NEW kind, NEW h, NEW p, Offers(kind, h, p)
  PROVE  p \in Providers /\ p \notin {"unknown", "discord", "paypal", "braintree"}
<1>1. p \in Kinds.timing \cup Kinds.rawBody
  BY Offered DEF Offers, Codegens
<1>2. QED
  BY <1>1 DEF Kinds, TimingFor, RawBodyFor, SdkPacks, FirstPacks, SecondPacks, ThirdPacks, Agents,
     Providers, Catalog

\* What a change leaves is a handler.
LEMMA UnverifiedIsHandler == ASSUME NEW h, IsHandler(h) PROVE IsHandler(Unverified(h))
<1> DEFINE left == [i \in DOMAIN h.statements |-> OnlyEffects(h.statements[i])]
           rest == [i \in DOMAIN h.args |-> WithoutCalls(h.args[i])]
<1>1. Unverified(h).statements = left /\ Unverified(h).args = rest
  <2>1. h = [f \in Fields |-> h[f]] /\ {"statements", "args"} \subseteq Fields
    BY DEF IsHandler, Fields
  <2>2. QED
    BY <2>1 DEF Unverified
<1>2. left \in Seq(Range(left)) /\ rest \in Seq(Range(rest))
  <2>1. /\ DOMAIN h.statements = 1..Len(h.statements) /\ Len(h.statements) \in Nat
        /\ DOMAIN h.args = 1..Len(h.args) /\ Len(h.args) \in Nat
    BY DEF IsHandler
  <2>2. left \in Seq(Range(left))
    BY <2>1 DEF Range
  <2>3. rest \in Seq(Range(rest))
    BY <2>1 DEF Range
  <2>4. QED
    BY <2>2, <2>3
<1>3. /\ Unverified(h) = [f \in Fields |-> Unverified(h)[f]]
      /\ Unverified(h).dialect = h.dialect
  BY DEF IsHandler, Unverified, Fields
<1>4. QED
  <2> HIDE DEF left, rest
  <2>1. QED
    BY <1>1, <1>2, <1>3 DEF IsHandler

\* The call that stands for the comparison, by language.
Inserted(h) ==
  CASE h.dialect = "js" -> {[name |-> <<"crypto", "timingSafeEqual">>, from |-> "crypto", hops |-> 1]}
    [] h.dialect = "py" -> {[name |-> <<"hmac", "compare_digest">>, from |-> "hmac", hops |-> 1]}
    [] OTHER -> {}
InsertedOwn(h) ==
  CASE h.dialect = "php" -> {"hash_equals"} [] h.dialect = "go" -> {"hmac.Equal"} [] OTHER -> {}

\* What the edit of a comparison leaves of the handler.
LEMMA SafeComparison ==
  ASSUME NEW h, IsHandler(h), NEW g, g = WithSafeComparison(h)
  PROVE  /\ IsHandler(g)
         /\ \A f \in Fields \ {"compares", "reach", "rawRead", "own"} : g[f] = h[f]
         /\ g.reach = h.reach \cup Inserted(h)
         /\ g.own = h.own \cup InsertedOwn(h)
         /\ g.rawRead = (IF h.dialect = "js" THEN TRUE ELSE h.rawRead)
<1> DEFINE x == RemoveAt(h.compares, Target(h))
           fixed == [h EXCEPT !.compares = x]
<1>0. /\ h = [f \in Fields |-> h[f]] /\ h.dialect \in {"js", "py", "php", "go"}
      /\ fixed = [f \in Fields |-> IF f = "compares" THEN x ELSE h[f]]
  BY DEF IsHandler, Fields
<1>1. CASE h.dialect = "js"
  <2>1. g = [fixed EXCEPT !.reach = h.reach \cup Inserted(h), !.rawRead = TRUE]
    BY <1>1 DEF WithSafeComparison, Inserted
  <2>2. InsertedOwn(h) = {}
    BY <1>1 DEF InsertedOwn
  <2> HIDE DEF x
  <2>3. QED
    BY <1>0, <1>1, <2>1, <2>2 DEF IsHandler, Fields
<1>2. CASE h.dialect = "py"
  <2>1. g = [fixed EXCEPT !.reach = h.reach \cup Inserted(h)]
    BY <1>2 DEF WithSafeComparison, Inserted
  <2>2. InsertedOwn(h) = {}
    BY <1>2 DEF InsertedOwn
  <2> HIDE DEF x
  <2>3. QED
    BY <1>0, <1>2, <2>1, <2>2 DEF IsHandler, Fields
<1>3. CASE h.dialect = "php"
  <2>1. g = [fixed EXCEPT !.own = @ \cup InsertedOwn(h)]
    BY <1>3 DEF WithSafeComparison, InsertedOwn
  <2>2. Inserted(h) = {}
    BY <1>3 DEF Inserted
  <2> HIDE DEF x
  <2>3. QED
    BY <1>0, <1>3, <2>1, <2>2 DEF IsHandler, Fields
<1>4. CASE h.dialect = "go"
  <2>1. g = [fixed EXCEPT !.own = @ \cup InsertedOwn(h)]
    BY <1>4 DEF WithSafeComparison, InsertedOwn
  <2>2. Inserted(h) = {}
    BY <1>4 DEF Inserted
  <2> HIDE DEF x
  <2>3. QED
    BY <1>0, <1>4, <2>1, <2>2 DEF IsHandler, Fields
<1>5. QED
  BY <1>0, <1>1, <1>2, <1>3, <1>4

\* What the edit of the raw body leaves of it.
LEMMA RawBody ==
  ASSUME NEW h, IsHandler(h), NEW g, g = WithRawBody(h)
  PROVE  /\ IsHandler(g)
         /\ \A f \in Fields \ {"body", "rawRead"} : g[f] = h[f]
         /\ g.rawRead = TRUE
BY DEF IsHandler, WithRawBody, Fields

\* An edit leaves a handler.
LEMMA FixedIsHandler == ASSUME NEW h, NEW kind, IsHandler(h) PROVE IsHandler(Fixed(kind, h))
BY SafeComparison, RawBody DEF Fixed

-----------------------------------------------------------------------------
\* The history.

\* The first scan has no history.
LEMMA InitInv == Init => Inv
<1> SUFFICES ASSUME Init PROVE Inv
  OBVIOUS
<1>1. scans = <<>> /\ source \in Sources /\ phase = "read"
  BY DEF Init
<1>2. scans \in Seq(Range(scans)) /\ DOMAIN scans = {}
  BY <1>1
<1>3. IsHandler(source)
  BY <1>1, HandlersAssumption
<1>4. History
  BY <1>2 DEF History
<1>5. QED
  BY <1>1, <1>3, <1>4 DEF Inv, Now

\* The parts of a scan.
LEMMA AssembleStep == ASSUME Inv, Assemble PROVE Inv'
<1>1. History'
  BY DEF Inv, Assemble, History
<1>2. Now'
  BY DEF Inv, Now, Assemble
<1>3. QED
  BY <1>1, <1>2 DEF Inv

LEMMA OrderCallsStep == ASSUME Inv, OrderCalls PROVE Inv'
<1>1. History'
  BY DEF Inv, OrderCalls, History
<1>2. Now'
  BY DEF Inv, Now, OrderCalls, EvidenceOf
<1>3. QED
  BY <1>1, <1>2 DEF Inv

LEMMA EvaluateStep == ASSUME Inv, Evaluate PROVE Inv'
<1> DEFINE scan == [source |-> source, change |-> change, report |-> Report(source, evidence, provider)]
<1>1. scans' = Append(scans, scan) /\ phase' = "reported" /\ source' = source /\ change' = change
      /\ phase = "ordered"
  BY DEF Evaluate
<1>2. scan.source = source /\ scan.change = change /\ scan.report = Report(source, evidence, provider)
  OBVIOUS
<1> HIDE DEF scan
<1>3. scans \in Seq(Range(scans))
  BY DEF Inv, History
<1>4. /\ scans' # <<>> /\ Len(scans') = Len(scans) + 1 /\ scans'[Len(scans')] = scan
      /\ DOMAIN scans' = 1..Len(scans') /\ Len(scans) \in Nat /\ DOMAIN scans = 1..Len(scans)
      /\ \A i \in DOMAIN scans : scans'[i] = scans[i]
      /\ scans # <<>> <=> Len(scans) > 0
  BY <1>1, <1>3
<1>5. scans' \in Seq(Range(scans'))
  BY <1>1, <1>3, <1>4 DEF Range
<1>6. Own(scan) /\ IsHandler(scan.source)
  BY <1>1, <1>2 DEF Own, Inv, Now
<1>7. scans # <<>> => Changed(scans[Len(scans)], scan.change, scan.source)
  BY <1>1, <1>2 DEF Inv, Now, Last
<1>8. History'
  <2>1. \A i \in DOMAIN scans' : Own(scans'[i]) /\ IsHandler(scans'[i].source)
    BY <1>4, <1>6 DEF Inv, History
  <2>2. ASSUME NEW i \in DOMAIN scans', i > 1
        PROVE  Changed(scans'[i - 1], scans'[i].change, scans'[i].source)
    <3>1. CASE i = Len(scans')
      <4>1. i - 1 = Len(scans) /\ Len(scans) > 0 /\ i - 1 \in DOMAIN scans
        BY <1>4, <2>2, <3>1
      <4>2. QED
        BY <1>4, <1>7, <3>1, <4>1
    <3>2. CASE i # Len(scans')
      <4>1. i \in DOMAIN scans /\ i - 1 \in DOMAIN scans
        BY <1>4, <2>2, <3>2
      <4>2. QED
        BY <1>4, <2>2, <4>1 DEF Inv, History
    <3>3. QED
      BY <3>1, <3>2
  <2>3. QED
    BY <1>5, <2>1, <2>2 DEF History, Own
<1>9. Now'
  BY <1>1, <1>2, <1>4 DEF Inv, Now, Last
<1>10. QED
  BY <1>8, <1>9 DEF Inv

\* A change that the last report allows is the next entry's.
LEMMA RewriteStep ==
  ASSUME Inv, NEW how, NEW h, Rewrite(how, h), IsHandler(h), Changed(Last(scans), how, h)
  PROVE  Inv'
<1>1. History'
  BY DEF Inv, History, Rewrite
<1>2. Now'
  BY DEF Inv, Now, Rewrite
<1>3. QED
  BY <1>1, <1>2 DEF Inv

\* hookwarden fix is such a change.
LEMMA FixStep == ASSUME Inv, Fix PROVE Inv'
<1>1. PICK f \in Last(scans).report.findings :
        Offers(f.kind, source, Last(scans).report.provider) /\ Rewrite(f.kind, Fixed(f.kind, source))
  BY DEF Fix
<1>2. Last(scans).source = source /\ IsHandler(source)
  BY <1>1 DEF Inv, Now, Rewrite
<1>3. IsHandler(Fixed(f.kind, source))
  BY <1>2, FixedIsHandler
<1>4. Changed(Last(scans), f.kind, Fixed(f.kind, source))
  BY <1>1, <1>2 DEF Changed
<1>5. QED
  BY <1>1, <1>3, <1>4, RewriteStep

\* So is taking the verification out.
LEMMA UnverifyStep == ASSUME Inv, Unverify PROVE Inv'
<1>1. Last(scans).source = source /\ IsHandler(source) /\ source.truth # "nothing"
  BY DEF Inv, Now, Unverify
<1>2. Changed(Last(scans), "removed", Unverified(source))
  BY <1>1 DEF Changed
<1>3. QED
  BY <1>1, <1>2, UnverifiedIsHandler, RewriteStep DEF Unverify

\* Every report is that of its own handler, and every handler that is scanned
\* again comes from the one before by one change (cli/src/pipeline.ts).
THEOREM Invariance == Spec => []Inv
<1>1. Inv /\ [Next]_vars => Inv'
  <2> SUFFICES ASSUME Inv, [Next]_vars PROVE Inv'
    OBVIOUS
  <2>1. CASE UNCHANGED vars
    BY <2>1 DEF vars, Inv, History, Now
  <2>2. QED
    BY <2>1, AssembleStep, OrderCallsStep, EvaluateStep, FixStep, UnverifyStep DEF Next
<1>2. QED
  BY <1>1, InitInv, PTL DEF Spec

-----------------------------------------------------------------------------
\* What a report says.

\* The last report is that of the handler at hand.
LEMMA Reported ==
  ASSUME Inv, phase = "reported",
         NEW h, h = Latest.source, NEW e, e = EvidenceOf(h), NEW p, p = Provider(h)
  PROVE  /\ IsHandler(h) /\ Latest.report = Report(h, e, p)
         /\ Len(scans) \in DOMAIN scans /\ Latest = scans[Len(scans)] /\ Latest.change = change
<1>1. scans \in Seq(Range(scans)) /\ scans # <<>>
  BY DEF Inv, History, Now
<1>2. Len(scans) \in DOMAIN scans
  BY <1>1
<1>3. Latest = scans[Len(scans)]
  BY DEF Latest, Last
<1>4. Own(Latest) /\ IsHandler(Latest.source)
  BY <1>2, <1>3 DEF Inv, History
<1>5. Latest.change = change
  BY DEF Inv, Now, Latest
<1>6. QED
  BY <1>2, <1>3, <1>4, <1>5 DEF Own

Softened(f, e) == [f EXCEPT !.state = Downgrade(@, e)]

\* A report: the provider, the findings as they are softened, the worst of them.
LEMMA ReportFields ==
  ASSUME NEW h, NEW e, NEW p
  PROVE  /\ Report(h, e, p).provider = p
         /\ \A x : x \in Report(h, e, p).findings
                    <=> \E f \in FindingsOf(h, e, p) : x = Softened(f, e)
         /\ Report(h, e, p).state =
              Downgrade(IF FindingsOf(h, e, p) = {} THEN "manual-review"
                        ELSE Worst({f.state : f \in FindingsOf(h, e, p)}), e)
BY DEF Report, Softened

\* A rule that speaks is in the report.
LEMMA Found ==
  ASSUME NEW h, NEW e, NEW p, NEW kind \in DOMAIN Kinds,
         p \in Kinds[kind], AppliesTo(kind, p, h), Verdict(kind, h, e, p) # Silent
  PROVE  /\ [kind |-> kind, state |-> Verdict(kind, h, e, p)] \in FindingsOf(h, e, p)
         /\ [kind |-> kind, state |-> Downgrade(Verdict(kind, h, e, p), e)] \in Report(h, e, p).findings
<1> DEFINE f == [kind |-> kind, state |-> Verdict(kind, h, e, p)]
<1>1. f \in FindingsOf(h, e, p)
  BY DEF FindingsOf
<1>2. Softened(f, e) = [kind |-> kind, state |-> Downgrade(Verdict(kind, h, e, p), e)]
  BY DEF Softened
<1>3. Softened(f, e) \in Report(h, e, p).findings
  <2> HIDE DEF f
  <2>1. QED
    BY <1>1, ReportFields
<1>4. QED
  BY <1>1, <1>2, <1>3

\* A rule says a verdict or nothing.
LEMMA VerdictRange ==
  ASSUME NEW h, NEW e, NEW p, NEW kind \in DOMAIN Kinds
  PROVE  Verdict(kind, h, e, p) \in Verdicts \cup {Silent}
<1> DEFINE range == Verdicts \cup {Silent}
<1>1. /\ MissingInPhp(h, e, p) \in range /\ MissingByDefault(h, e, p) \in range
      /\ MissingTwilio(h) \in range /\ MissingHubspot(h, e) \in range
      /\ MissingNotion(h, e) \in range /\ MissingMailchimp(h, e) \in range
      /\ MissingPostmark(h, e) \in range /\ MissingPaypal(h, e) \in range
      /\ MissingStandard(h, e) \in range
  BY DEF MissingInPhp, MissingStandard, MissingPaypal, MissingTwilio, MissingHubspot,
         MissingNotion, MissingMailchimp, MissingPostmark, MissingByDefault,
         Verdicts, Silent, Doubt, NotVerified
<1>2. MissingSignature(h, e, p) \in range
  BY <1>1 DEF MissingSignature, Verdicts, Silent, Doubt, NotVerified
<1>3. LibraryVerified(h, e, p) \in range /\ Unreachable(h, e, p) \in range
  BY DEF LibraryVerified, Unreachable, Verdicts, Silent, Doubt, Review
<1>4. TimingGithub(h, e) \in range /\ TimingUnsafe(h, e, p) \in range
  BY DEF TimingGithub, TimingUnsafe, TimingInPhp, TimingInGo, TimingByReach,
         Verdicts, Silent, Doubt, NotVerified
<1>5. RawBodyMisuse(h, e, p) \in range /\ MissingTimestamp(h, p) \in range
  BY DEF RawBodyMisuse, MissingTimestamp, Verdicts, Silent, Doubt, Review
<1>6. WrongAlgorithm(h, p) \in range /\ VerifyAfter(h, e, p) \in range
  BY DEF WrongAlgorithm, VerifyAfter, Verdicts, Silent, Doubt, Review
<1>7. TestModeBypass(h, p) \in range /\ ErrorSwallowed(h, p) \in range
  BY DEF TestModeBypass, ErrorSwallowed, Verdicts, Silent, Doubt, NotVerified
<1>8. SecretInLog(h) \in range /\ ReplayWindow(h, p) \in range
  BY DEF SecretInLog, ReplayWindow, Verdicts, Silent, Doubt
<1>9. /\ HeaderOnly(h, e) \in range /\ PrefixKept(h, e) \in range /\ OneOfMany(h) \in range
      /\ HeaderConfusion(h, e) \in range
  BY DEF HeaderOnly, PrefixKept, OneOfMany, HeaderConfusion, Verdicts, Silent, Doubt, Review
<1> DEFINE plain == {"emptySecret", "ordering", "octokit", "urlSecret", "basicAuth", "ipList", "trigger"}
<1>10. CASE kind \in plain
  <2>1. CASE kind \in {"emptySecret", "ordering", "octokit", "trigger"}
    BY <2>1 DEF Verdict, Verdicts, Silent, Doubt, NotVerified
  <2>2. CASE kind \in {"urlSecret", "basicAuth", "ipList"}
    BY <2>2 DEF Verdict, Verdicts, Silent, Doubt, Review
  <2>3. QED
    BY <1>10, <2>1, <2>2
<1>11. CASE kind \notin plain
  <2> HIDE DEF range
  <2>0. kind \in {"missing", "library", "unreachable", "timing", "rawBody", "timestamp",
                  "algorithm", "after", "bypass", "swallowed", "inLog", "replay",
                  "headerOnly", "prefix", "rotation", "confusion"}
    BY <1>11 DEF Kinds
  <2>1. Verdict(kind, h, e, p) \in range
    BY <2>0, <1>2, <1>3, <1>4, <1>5, <1>6, <1>7, <1>8, <1>9 DEF Verdict
  <2>2. QED
    BY <2>1 DEF range
<1>12. QED
  BY <1>10, <1>11

\* A finding says a verdict.
LEMMA FoundRange ==
  ASSUME NEW h, NEW e, NEW p, NEW f \in FindingsOf(h, e, p)
  PROVE  f.state \in Verdicts
BY VerdictRange DEF FindingsOf, Verdicts, Silent

\* The order of the verdicts.
LEMMA RankRange == \A v \in Verdicts :
  /\ VerdictRank[v] \in 0..2
  /\ VerdictRank[v] = 0 <=> v = "verified"
  /\ VerdictRank[v] = 2 <=> v = "not-verified"
BY DEF VerdictRank, Verdicts

\* The worst of the findings is at least as bad as each of them.
LEMMA WorstIsWorst ==
  ASSUME NEW states \in SUBSET Verdicts, NEW v \in states
  PROVE  Worst(states) \in states /\ VerdictRank[v] <= VerdictRank[Worst(states)]
<1>1. \E w \in states : \A x \in states : VerdictRank[x] <= VerdictRank[w]
  <2>1. CASE "not-verified" \in states
    BY <2>1, RankRange
  <2>2. CASE "not-verified" \notin states /\ "manual-review" \in states
    BY <2>2, RankRange DEF Verdicts
  <2>3. CASE states \subseteq {"verified"}
    BY <2>3, RankRange
  <2>4. QED
    BY <2>1, <2>2, <2>3 DEF Verdicts
<1>2. QED
  BY <1>1 DEF Worst

\* One finding is enough for not-verified, unless a queue softens it.
LEMMA OneSaysNo ==
  ASSUME NEW h, NEW e, NEW p, ~Deferred(e),
         NEW f \in FindingsOf(h, e, p), f.state = "not-verified"
  PROVE  Report(h, e, p).state = "not-verified"
<1> DEFINE states == {g.state : g \in FindingsOf(h, e, p)}
<1>1. states \subseteq Verdicts /\ "not-verified" \in states
  BY FoundRange
<1>2. Worst(states) = "not-verified"
  <2> HIDE DEF states
  <2>1. QED
    BY <1>1, WorstIsWorst, RankRange
<1>3. QED
  BY <1>2, ReportFields DEF Downgrade

\* One doubt is enough not to be verified.
LEMMA OneDoubts ==
  ASSUME NEW h, NEW e, NEW p, NEW f \in FindingsOf(h, e, p), f.state # "verified"
  PROVE  Report(h, e, p).state # "verified"
<1> DEFINE states == {g.state : g \in FindingsOf(h, e, p)}
<1>1. states \subseteq Verdicts /\ f.state \in states
  BY FoundRange
<1>2. Worst(states) # "verified"
  <2> HIDE DEF states
  <2>1. QED
    BY <1>1, WorstIsWorst, RankRange
<1>3. QED
  BY <1>2, ReportFields DEF Downgrade

-----------------------------------------------------------------------------
\* Evidence, by kind.

\* Evidence that names nobody.
LEMMA AnonymousKind ==
  ASSUME NEW kind, NEW where
  PROVE  \A x \in Anonymous(kind, where) : x.kind = kind /\ x.provider = "unknown"
BY DEF Anonymous

\* Each part of the engine records evidence of one kind.
LEMMA KindsOfEvidence ==
  ASSUME NEW h, NEW p
  PROVE  /\ \A x \in PathMatches(h) : x.kind = "path_pattern_match"
         /\ \A x \in SdkImports(h) : x.kind = "sdk_import"
         /\ \A x \in EnvReferences(h) : x.kind = "secret_env_var_reference"
         /\ \A x \in LiteralMatches(h) : x.kind = "secret_literal_match"
         /\ \A ps : \A x \in HeaderReads(h, ps) : x.kind = "signature_header_read"
         /\ \A x \in RawBodyRead(h) : x.kind = "body_as_bytes_or_buffer" /\ x.provider = "unknown"
         /\ \A x \in RawBodyMiddleware(h) : x.kind = "body_as_bytes_or_buffer" /\ x.provider = "unknown"
         /\ \A x \in SdkVerifyCalls(h) \cup InlineVerifyCalls(h) \cup PhpVerifyCalls(h) \cup GoVerifyCalls(h) :
              x.kind = "sdk_verify_call"
         /\ \A x \in QueueVerification(h) : x.kind = "queue_verification_reachable" /\ x.provider = "unknown"
         /\ \A x \in VerifyOrdering(h, p) : x.kind = "side_effect_before_verify"
<1>1. \A x \in PathMatches(h) : x.kind = "path_pattern_match"
  BY DEF PathMatches, Signals
<1>2. \A x \in SdkImports(h) : x.kind = "sdk_import"
  BY DEF SdkImports, Signals
<1>3. \A x \in EnvReferences(h) : x.kind = "secret_env_var_reference"
  BY DEF EnvReferences, Signals
<1>4. \A x \in LiteralMatches(h) : x.kind = "secret_literal_match"
  BY DEF LiteralMatches, Signals
<1>5. \A ps : \A x \in HeaderReads(h, ps) : x.kind = "signature_header_read"
  <2> SUFFICES ASSUME NEW ps, NEW x \in HeaderReads(h, ps) PROVE x.kind = "signature_header_read"
    OBVIOUS
  <2> DEFINE all == Signals("signature_header_read", "text", LAMBDA q :
                       {d \in Catalog[q].headers : /\ q \in Owners(d, ps)
                                                   /\ \E t \in h.headers : Includes(d, t)})
  <2>1. \A y \in all : y = [kind |-> "signature_header_read", provider |-> y.provider,
                            detail |-> y.detail, where |-> "text"]
    BY DEF Signals
  <2>2. PICK y \in all : x = [y EXCEPT !.provider = IF y.detail \in Generic THEN "unknown" ELSE @]
    BY DEF HeaderReads
  <2>3. y.kind = "signature_header_read" /\ y = [kind |-> y.kind, provider |-> y.provider,
                            detail |-> y.detail, where |-> y.where]
    <3> HIDE DEF all
    <3>1. QED
      BY <2>1, <2>2
  <2>4. QED
    BY <2>2, <2>3
<1>6. \A x \in RawBodyRead(h) : x.kind = "body_as_bytes_or_buffer" /\ x.provider = "unknown"
  <2>1. RawBodyRead(h) = Anonymous("body_as_bytes_or_buffer", "text") \/ RawBodyRead(h) = {}
    BY DEF RawBodyRead
  <2>2. QED
    BY <2>1, AnonymousKind
<1>7. \A x \in RawBodyMiddleware(h) : x.kind = "body_as_bytes_or_buffer" /\ x.provider = "unknown"
  <2>1. RawBodyMiddleware(h) = Anonymous("body_as_bytes_or_buffer", "middleware") \/ RawBodyMiddleware(h) = {}
    BY DEF RawBodyMiddleware
  <2>2. QED
    BY <2>1, AnonymousKind
<1>8. \A x \in SdkVerifyCalls(h) : x.kind = "sdk_verify_call"
  BY DEF SdkVerifyCalls, Signals
<1>9. \A x \in InlineVerifyCalls(h) : x.kind = "sdk_verify_call"
  BY DEF InlineVerifyCalls, Signals
<1>10. \A x \in PhpVerifyCalls(h) : x.kind = "sdk_verify_call"
  BY DEF PhpVerifyCalls, Signals
<1>11. \A x \in GoVerifyCalls(h) : x.kind = "sdk_verify_call"
  BY DEF GoVerifyCalls, Signals
<1>12. \A x \in QueueVerification(h) : x.kind = "queue_verification_reachable" /\ x.provider = "unknown"
  <2>1. QueueVerification(h) = Anonymous("queue_verification_reachable", "queue") \/ QueueVerification(h) = {}
    BY DEF QueueVerification
  <2>2. QED
    BY <2>1, AnonymousKind
<1>13. \A x \in VerifyOrdering(h, p) : x.kind = "side_effect_before_verify"
  <2> SUFFICES ASSUME NEW x \in VerifyOrdering(h, p) PROVE x.kind = "side_effect_before_verify"
    OBVIOUS
  <2> DEFINE verify == VerificationSet(p, {s.name : s \in h.reach})
             class  == [i \in DOMAIN h.statements |-> Class(h.statements[i], verify, Catalog[p].sinks)]
             early  == {j \in DOMAIN class : /\ class[j].kind = "side_effect"
                                             /\ \A k \in 1..j : class[k].kind # "verification"}
  <2>1. VerifyOrdering(h, p) = {} \/ VerifyOrdering(h, p) =
          {[kind |-> "side_effect_before_verify", provider |-> p,
            detail |-> class[i].call, where |-> i] : i \in early}
    <3>1. CASE p \notin Providers \/ h.dialect # "js"
      BY <3>1 DEF VerifyOrdering
    <3>2. CASE ~(p \notin Providers \/ h.dialect # "js")
      BY <3>2, Zenon DEF VerifyOrdering
    <3>3. QED
      BY <3>1, <3>2
  <2>2. QED
    <3> HIDE DEF early, class
    <3>1. QED
      BY <2>1
<1>14. QED
  BY <1>1, <1>2, <1>3, <1>4, <1>5, <1>6, <1>7, <1>8, <1>9, <1>10, <1>11, <1>12, <1>13

\* Everything the rules read is of one of seven kinds, each from its own part of the engine.
VerifyCalls(h) == SdkVerifyCalls(h) \cup InlineVerifyCalls(h) \cup PhpVerifyCalls(h) \cup GoVerifyCalls(h)
Cited(h) == PathMatches(h) \cup SdkImports(h) \cup EnvReferences(h) \cup LiteralMatches(h)
Headers(h) == HeaderReads(h, {x.provider : x \in Cited(h)})

\* Of each kind the rules read, the evidence is what its part recorded.
LEMMA EvidenceByKind ==
  ASSUME NEW h
  PROVE  \A x :
    /\ x \in EvidenceOf(h) /\ x.kind = "sdk_verify_call" <=> x \in VerifyCalls(h)
    /\ x \in EvidenceOf(h) /\ x.kind = "signature_header_read" <=> x \in Headers(h)
    /\ x \in EvidenceOf(h) /\ x.kind = "sdk_import" <=> x \in SdkImports(h)
    /\ x \in EvidenceOf(h) /\ x.kind = "secret_literal_match" <=> x \in LiteralMatches(h)
    /\ x \in EvidenceOf(h) /\ x.kind = "body_as_bytes_or_buffer"
         <=> x \in RawBodyRead(h) \cup RawBodyMiddleware(h)
    /\ x \in EvidenceOf(h) /\ x.kind = "queue_verification_reachable" <=> x \in QueueVerification(h)
    /\ x \in EvidenceOf(h) /\ x.kind = "side_effect_before_verify" <=> x \in VerifyOrdering(h, Provider(h))
<1>1. EvidenceOf(h) = Cited(h) \cup Headers(h) \cup RawBodyRead(h) \cup VerifyCalls(h)
         \cup RawBodyMiddleware(h) \cup QueueVerification(h) \cup VerifyOrdering(h, Provider(h))
  BY DEF EvidenceOf, PreCfg, TextEvidence, Cited, Headers, VerifyCalls
<1>2. \A x \in Headers(h) : x.kind = "signature_header_read"
  BY KindsOfEvidence DEF Headers
<1>3. QED
  BY <1>1, <1>2, KindsOfEvidence DEF Cited, VerifyCalls

\* Only a queue defers.
LEMMA DeferredByQueue == ASSUME NEW h PROVE Deferred(EvidenceOf(h)) <=> Deferred(QueueVerification(h))
BY EvidenceByKind, KindsOfEvidence DEF Deferred

-----------------------------------------------------------------------------
\* Windows.

\* The rule for replays is bound to providers with a tolerance.
LEMMA Tolerances == \A p \in Replayable : Catalog[p].tolerance \in Nat \ {0}
<1>1. Catalog["stripe"].tolerance = 300
  BY DEF Catalog, Stripe, Plain
<1>2. Catalog["slack"].tolerance = 300
  BY DEF Catalog, Slack, Plain
<1>3. Catalog["shopify"].tolerance = 300
  BY DEF Catalog, Shopify, Plain
<1>4. Catalog["standardwebhooks"].tolerance = 300
  BY DEF Catalog, Standardwebhooks, Plain
<1>5. QED
  BY <1>1, <1>2, <1>3, <1>4 DEF Replayable

\* A window in plain sight that is wider than the tolerance fires the rule, whichever
\* unit it is guessed to be in.
LEMMA WideSaysNo ==
  ASSUME NEW h, NEW p \in Replayable, NEW w \in h.windows, InPlainSight(w, p),
         NEW scale \in {1, 1000}, w.bound \in (Catalog[p].tolerance * scale + 1)..(999 * scale)
  PROVE  ReplayWindow(h, p) = "not-verified"
<1> DEFINE tolerance == Catalog[p].tolerance
           watched == {v \in h.windows : LooksAt(v, p)}
           wide == \E v \in watched : TooWide(v, p)
<1>1. tolerance \in Nat \ {0}
  BY Tolerances
<1>2. w.bound \in Int /\ w.bound > 0 /\ w.bound > tolerance * scale /\ w.bound <= 999 * scale
  <2> HIDE DEF tolerance
  <2>1. w.bound \in (tolerance * scale + 1)..(999 * scale)
    BY DEF tolerance
  <2>2. CASE scale = 1
    BY <1>1, <2>1, <2>2
  <2>3. CASE scale = 1000
    BY <1>1, <2>1, <2>3
  <2>4. QED
    BY <2>2, <2>3
<1>3. w.bound > (IF InMilliseconds(w) THEN 1000 ELSE 1) * tolerance
  <2> HIDE DEF tolerance
  <2>1. CASE scale = 1
    <3>1. ~InMilliseconds(w)
      BY <1>2, <2>1 DEF InMilliseconds, Day
    <3>2. QED
      BY <1>1, <1>2, <2>1, <3>1
  <2>2. CASE scale = 1000
    BY <1>1, <1>2, <2>2
  <2>3. QED
    BY <2>1, <2>2
<1>4. wide
  <2>1. LooksAt(w, p) /\ Folds(w)
    BY DEF InPlainSight, LooksAt, Folds, NamesCall
  <2>2. TooWide(w, p)
    BY <1>3, <2>1 DEF TooWide
  <2>3. QED
    BY <2>1, <2>2
<1>5. tolerance # 0
  BY <1>1
<1>6. ReplayWindow(h, p) = Doubt(wide \/ (h.clock /\ \E v \in watched : Unknown(v, p)), ~wide)
  BY <1>5 DEF ReplayWindow
<1>7. QED
  <2> HIDE DEF wide
  <2>1. QED
    BY <1>4, <1>6 DEF Doubt

\* A window for replays that is wider than the provider's, and at most 999 seconds,
\* is reported in whichever unit it is written.
THEOREM Windows == Spec => []WideWindowsAreSeen
<1>1. Inv => WideWindowsAreSeen
  <2> SUFFICES ASSUME Inv, phase = "reported", Judges(Latest, "replay"),
                      NEW w \in Latest.source.windows, NEW scale,
                      InPlainSight(w, Latest.report.provider),
                      scale = (IF w.unit = "ms" THEN 1000 ELSE 1),
                      w.bound \in (Catalog[Latest.report.provider].tolerance * scale + 1)..(999 * scale)
               PROVE  Finds(Latest, "replay", {Downgrade("not-verified", QueueVerification(Latest.source))})
    BY DEF WideWindowsAreSeen
  <2>1. PICK h, e, p : h = Latest.source /\ e = EvidenceOf(h) /\ p = Provider(h)
    OBVIOUS
  <2>2. Latest.report = Report(h, e, p) /\ Latest.report.provider = p
    <3>1. Latest.report = Report(h, e, p)
      BY <2>1, Reported
    <3>2. QED
      BY <3>1 DEF Report
  <2>3. "replay" \in DOMAIN Kinds /\ Kinds["replay"] = Replayable
    BY DEF Kinds
  <2>4. p \in Kinds["replay"] /\ AppliesTo("replay", p, h)
    BY <2>1, <2>2 DEF Judges
  <2>5. ReplayWindow(h, p) = "not-verified"
    BY <2>1, <2>2, <2>3, <2>4, WideSaysNo
  <2>6. Verdict("replay", h, e, p) = "not-verified"
    BY <2>5 DEF Verdict
  <2>7. [kind |-> "replay", state |-> Downgrade("not-verified", e)] \in Report(h, e, p).findings
    BY <2>3, <2>4, <2>6, Found DEF Silent
  <2>8. Downgrade("not-verified", e) = Downgrade("not-verified", QueueVerification(h))
    BY <2>1, DeferredByQueue DEF Downgrade
  <2>9. QED
    BY <2>1, <2>2, <2>7, <2>8 DEF Finds
<1>2. QED
  BY <1>1, Invariance, PTL

-----------------------------------------------------------------------------
\* A handler without its verification.

\* Without its verification, a handler calls nothing that verifies.
LEMMA WhatIsLeft ==
  ASSUME NEW g, IsHandler(g), NEW h, h = Unverified(g)
  PROVE  /\ h.reach = {} /\ h.statics = {} /\ h.methods = {} /\ h.consumers = {}
         /\ h.passes = {} /\ h.own = {} /\ h.compares = <<>>
         /\ h.near = g.near /\ h.headers = g.headers /\ h.dialect = g.dialect
         /\ \A i \in DOMAIN h.args : h.args[i].calls = {}
BY DEF Unverified, IsHandler, Fields, WithoutCalls

\* Then there is no evidence of a verification.
LEMMA NothingVerifies ==
  ASSUME NEW g, IsHandler(g), NEW h, h = Unverified(g), NEW e, e = EvidenceOf(h)
  PROVE  (\A p : ~SdkEvidence(e, p)) /\ ~Deferred(e)
<1>1. SdkVerifyCalls(h) = {}
  BY WhatIsLeft DEF SdkVerifyCalls, Signals
<1>2. InlineVerifyCalls(h) = {}
  BY WhatIsLeft DEF InlineVerifyCalls, Signals
<1>3. PhpVerifyCalls(h) = {}
  BY WhatIsLeft DEF PhpVerifyCalls, Signals
<1>4. GoVerifyCalls(h) = {}
  BY WhatIsLeft DEF GoVerifyCalls, Signals
<1>5. QueueVerification(h) = {}
  BY WhatIsLeft DEF QueueVerification
<1>6. VerifyCalls(h) = {}
  BY <1>1, <1>2, <1>3, <1>4 DEF VerifyCalls
<1>7. \A x \in e : x.kind # "sdk_verify_call"
  BY <1>6, EvidenceByKind
<1>8. ~Deferred(e)
  BY <1>5, DeferredByQueue DEF Deferred
<1>9. QED
  BY <1>7, <1>8 DEF SdkEvidence, Evidenced

\* Without headers there is no evidence of one.
LEMMA NoHeaderRead ==
  ASSUME NEW h, h.headers = {} PROVE ~HeaderRead(EvidenceOf(h))
<1>1. Headers(h) = {}
  BY DEF Headers, HeaderReads, Signals
<1>2. QED
  BY <1>1, EvidenceByKind DEF HeaderRead

\* Then the rule for missing verification fires, for every provider.
LEMMA MissingSaysNo ==
  ASSUME NEW g, IsHandler(g), NEW h, h = Unverified(g), NEW e, e = EvidenceOf(h),
         NEW p, Alone(h), ~(p = "notion" /\ h.headers # {})
  PROVE  MissingSignature(h, e, p) = "not-verified"
<1>1. /\ h.reach = {} /\ h.own = {} /\ h.near = {} /\ h.compares = <<>> /\ h.passes = {}
      /\ \A q : ~SdkEvidence(e, q)
  BY WhatIsLeft, NothingVerifies DEF Alone
<1>2. /\ Judged(h) = {} /\ ~Hmac(h) /\ ~Delegates(h) /\ ~Shaped(h) /\ ~BasicAuth(h) /\ ~IpRead(h)
      /\ \A q : ~SdkReached(h, q)
      /\ \A names : ~Calls(h, names)
  BY <1>1 DEF Judged, Hmac, Delegates, Shaped, BasicAuth, IpRead, SdkReached, Calls
<1>3. MissingInPhp(h, e, p) = "not-verified" /\ MissingByDefault(h, e, p) = "not-verified"
  BY <1>1, <1>2 DEF MissingInPhp, MissingByDefault, NotVerified, Doubt
<1>4. MissingTwilio(h) = "not-verified" /\ MissingHubspot(h, e) = "not-verified"
  BY <1>1, <1>2 DEF MissingTwilio, MissingHubspot, NotVerified, Doubt
<1>5. MissingMailchimp(h, e) = "not-verified" /\ MissingPostmark(h, e) = "not-verified"
  BY <1>1, <1>2 DEF MissingMailchimp, MissingPostmark, NotVerified, Doubt
<1>6. MissingStandard(h, e) = "not-verified"
  BY <1>1, <1>2 DEF MissingStandard, Doubt
<1>7. PaypalClass(h, e) = "none"
  BY <1>1, <1>2 DEF PaypalClass
<1>8. MissingPaypal(h, e) = "not-verified"
  BY <1>2, <1>7 DEF MissingPaypal, Doubt
<1>9. ~Ed25519(h, e)
  BY <1>1 DEF Ed25519
<1>10. p = "notion" => MissingNotion(h, e) = "not-verified"
  BY <1>2, NoHeaderRead DEF MissingNotion, NotVerified, Doubt
<1>11. NotVerified(~Ed25519(h, e)) = "not-verified"
  BY <1>9 DEF NotVerified, Doubt
<1>12. QED
  BY <1>3, <1>4, <1>5, <1>6, <1>8, <1>10, <1>11 DEF MissingSignature

\* Taking the verification out of a handler turns its report to not-verified, for
\* every provider the handler may be attributed to.
THEOREM Removal == Spec => []RemovalIsNoticed
<1>1. Inv => RemovalIsNoticed
  <2> SUFFICES ASSUME Inv, Rescanned({"removed"}), Judges(Latest, "missing"), Alone(Latest.source),
                      ~(Latest.report.provider = "notion" /\ Latest.source.headers # {})
               PROVE  Latest.report.state = "not-verified"
    BY DEF RemovalIsNoticed
  <2>1. PICK h, e, p : h = Latest.source /\ e = EvidenceOf(h) /\ p = Provider(h)
    OBVIOUS
  <2>2. phase = "reported" /\ change = "removed" /\ Len(scans) > 1
    BY DEF Rescanned
  <2>3. /\ Latest.report = Report(h, e, p) /\ Latest = scans[Len(scans)] /\ Latest.change = "removed"
        /\ Len(scans) \in DOMAIN scans
    BY <2>1, <2>2, Reported
  <2>4. Latest.report.provider = p
    BY <2>3 DEF Report
  <2>5. PICK g : IsHandler(g) /\ h = Unverified(g)
    <3>1. Changed(scans[Len(scans) - 1], "removed", h)
      BY <2>1, <2>2, <2>3 DEF Inv, History
    <3>2. ~Offers("removed", scans[Len(scans) - 1].source, scans[Len(scans) - 1].report.provider)
      BY Offered
    <3>3. Len(scans) - 1 \in DOMAIN scans
      BY <2>2, <2>3 DEF Inv, History
    <3>4. IsHandler(scans[Len(scans) - 1].source)
      BY <3>3 DEF Inv, History
    <3>5. QED
      BY <3>1, <3>2, <3>4 DEF Changed
  <2>6. "missing" \in DOMAIN Kinds /\ p \in Kinds["missing"] /\ AppliesTo("missing", p, h)
    BY <2>1, <2>4 DEF Judges, Kinds
  <2>7. MissingSignature(h, e, p) = "not-verified"
    BY <2>1, <2>4, <2>5, MissingSaysNo
  <2>8. Verdict("missing", h, e, p) = "not-verified"
    BY <2>7 DEF Verdict
  <2>9. [kind |-> "missing", state |-> "not-verified"] \in FindingsOf(h, e, p)
    BY <2>6, <2>8, Found DEF Silent
  <2>10. ~Deferred(e)
    BY <2>1, <2>5, NothingVerifies
  <2>11. QED
    BY <2>3, <2>9, <2>10, OneSaysNo
<1>2. QED
  BY <1>1, Invariance, PTL

-----------------------------------------------------------------------------
\* The catalog.

\* The calls of an entry have names, none of them Python's own comparison.
Named(c) ==
  \A v \in c.verify :
    Len(v) \in 1..4 /\ (Len(v) = 1 => v = <<v[1]>>) /\ Last(v) # "compare_digest"
NoPrimitive(c) == \A v \in c.verify : Last(v) \notin {"timingSafeEqual", "createHmac"}

\* The catalog, entry by entry.
LEMMA NamedCalls ==
  \A p \in Providers :
    Named(Catalog[p]) /\ (p \notin {"n8n", "anthropic", "nmi"} => NoPrimitive(Catalog[p]))
<1>1. Named(Stripe) /\ NoPrimitive(Stripe)
  BY SMTT(30) DEF Named, NoPrimitive, Last, Stripe, Plain
<1>2. Named(Github) /\ NoPrimitive(Github)
  <2>1. Named(Github)
    BY SMTT(30) DEF Named, Last, Github, Plain
  <2>2. NoPrimitive(Github)
    BY SMTT(30) DEF NoPrimitive, Last, Github, Plain
  <2>3. QED
    BY <2>1, <2>2
<1>3. Named(N8n)
  BY SMTT(30) DEF Named, NoPrimitive, Last, N8n, Plain
<1>4. Named(Anthropic)
  BY SMTT(30) DEF Named, NoPrimitive, Last, Anthropic, Plain
<1>5. Named(Shopify) /\ NoPrimitive(Shopify)
  BY SMTT(30) DEF Named, NoPrimitive, Last, Shopify, Plain
<1>6. Named(Slack) /\ NoPrimitive(Slack)
  BY SMTT(30) DEF Named, NoPrimitive, Last, Slack, Plain
<1>7. Named(Square) /\ NoPrimitive(Square)
  <2>1. Named(Square)
    BY SMTT(30) DEF Named, Last, Square, Plain
  <2>2. NoPrimitive(Square)
    BY SMTT(30) DEF NoPrimitive, Last, Square, Plain
  <2>3. QED
    BY <2>1, <2>2
<1>8. Named(Twilio) /\ NoPrimitive(Twilio)
  BY SMTT(30) DEF Named, NoPrimitive, Last, Twilio, Plain
<1>9. Named(Standardwebhooks) /\ NoPrimitive(Standardwebhooks)
  BY SMTT(30) DEF Named, NoPrimitive, Last, Standardwebhooks, Plain
<1>10. Named(Postmark) /\ NoPrimitive(Postmark)
  BY SMTT(30) DEF Named, NoPrimitive, Last, Postmark, Plain
<1>11. Named(Mailchimp) /\ NoPrimitive(Mailchimp)
  BY SMTT(30) DEF Named, NoPrimitive, Last, Mailchimp, Plain
<1>12. Named(Hubspot) /\ NoPrimitive(Hubspot)
  BY SMTT(30) DEF Named, NoPrimitive, Last, Hubspot, Plain
<1>13. Named(Auth0) /\ NoPrimitive(Auth0)
  BY SMTT(30) DEF Named, NoPrimitive, Last, Auth0, Plain
<1>14. Named(Docusign) /\ NoPrimitive(Docusign)
  BY SMTT(30) DEF Named, NoPrimitive, Last, Docusign, Plain
<1>15. Named(Linear) /\ NoPrimitive(Linear)
  BY SMTT(30) DEF Named, NoPrimitive, Last, Linear, Plain
<1>16. Named(Intercom) /\ NoPrimitive(Intercom)
  BY SMTT(30) DEF Named, NoPrimitive, Last, Intercom, Plain
<1>17. Named(Zoom) /\ NoPrimitive(Zoom)
  BY SMTT(30) DEF Named, NoPrimitive, Last, Zoom, Plain
<1>18. Named(Calendly) /\ NoPrimitive(Calendly)
  BY SMTT(30) DEF Named, NoPrimitive, Last, Calendly, Plain
<1>19. Named(Notion) /\ NoPrimitive(Notion)
  BY SMTT(30) DEF Named, NoPrimitive, Last, Notion, Plain
<1>20. Named(Bitbucket) /\ NoPrimitive(Bitbucket)
  BY SMTT(30) DEF Named, NoPrimitive, Last, Bitbucket, Plain
<1>21. Named(Pagerduty) /\ NoPrimitive(Pagerduty)
  BY SMTT(30) DEF Named, NoPrimitive, Last, Pagerduty, Plain
<1>22. Named(Sentry) /\ NoPrimitive(Sentry)
  BY SMTT(30) DEF Named, NoPrimitive, Last, Sentry, Plain
<1>23. Named(Zendesk) /\ NoPrimitive(Zendesk)
  BY SMTT(30) DEF Named, NoPrimitive, Last, Zendesk, Plain
<1>24. Named(Discord) /\ NoPrimitive(Discord)
  <2>1. Discord.verify = {<<"verifyKey">>, <<"nacl", "sign", "detached", "verify">>, <<"VerifyKey", "verify">>}
    BY DEF Discord, Plain
  <2>2. \A v : v \in Discord.verify => v \in {<<"verifyKey">>, <<"VerifyKey", "verify">>}
                                         \/ v = <<"nacl", "sign", "detached", "verify">>
    BY <2>1
  <2>3. Len(<<"nacl", "sign", "detached", "verify">>) = 4
    OBVIOUS
  <2>4. <<"nacl", "sign", "detached", "verify">>[4] = "verify"
    OBVIOUS
  <2>5. \A v \in {<<"verifyKey">>, <<"VerifyKey", "verify">>} :
          /\ Len(v) \in 1..4 /\ (Len(v) = 1 => v = <<v[1]>>)
          /\ Last(v) \notin Primitives
    BY DEF Last, Primitives
  <2>6. \A v \in Discord.verify :
          /\ Len(v) \in 1..4 /\ (Len(v) = 1 => v = <<v[1]>>)
          /\ Last(v) \notin Primitives
    <3> SUFFICES ASSUME NEW v \in Discord.verify
                 PROVE  /\ Len(v) \in 1..4 /\ (Len(v) = 1 => v = <<v[1]>>)
                        /\ Last(v) \notin Primitives
      OBVIOUS
    <3>1. CASE v \in {<<"verifyKey">>, <<"VerifyKey", "verify">>}
      BY <2>5, <3>1
    <3>2. CASE v = <<"nacl", "sign", "detached", "verify">>
      BY <2>3, <2>4, <3>2 DEF Last, Primitives
    <3>3. QED
      BY <2>2, <3>1, <3>2
  <2>7. QED
    BY <2>6 DEF Named, NoPrimitive, Primitives
<1>25. Named(Nmi)
  BY SMTT(30) DEF Named, NoPrimitive, Last, Nmi, Plain
<1>26. Named(Braintree) /\ NoPrimitive(Braintree)
  BY SMTT(30) DEF Named, NoPrimitive, Last, Braintree, Plain
<1>27. Named(Paypal) /\ NoPrimitive(Paypal)
  BY SMTT(30) DEF Named, NoPrimitive, Last, Paypal, Plain
<1>28. QED
  BY <1>1, <1>2, <1>3, <1>4, <1>5, <1>6, <1>7, <1>8, <1>9, <1>10, <1>11, <1>12, <1>13, <1>14,
     <1>15, <1>16, <1>17, <1>18, <1>19, <1>20, <1>21, <1>22, <1>23, <1>24, <1>25, <1>26,
     <1>27 DEF Providers, Catalog

\* The providers whose rules ask for the order know every shared sink.
Effects == SharedSinks.t1 \cup SharedSinks.t2
SeesEffects(c) == Effects \subseteq c.sinks.t1 \cup c.sinks.t2

\* The catalog, entry by entry.
LEMMA EffectsAreSeen == \A p \in Ordered : p \in Providers /\ SeesEffects(Catalog[p])
<1>0. SeesEffects(Plain) /\ Effects \subseteq AgentSinks.t1 \cup AgentSinks.t2
  BY DEF SeesEffects, Effects, Plain, AgentSinks, SharedSinks
<1>1. SeesEffects(Stripe)
  BY <1>0 DEF SeesEffects, Stripe, Plain
<1>2. SeesEffects(Github)
  BY <1>0 DEF SeesEffects, Github, Plain
<1>3. SeesEffects(N8n)
  BY <1>0 DEF SeesEffects, N8n, Plain
<1>4. SeesEffects(Anthropic)
  BY <1>0 DEF SeesEffects, Anthropic, Plain
<1>5. SeesEffects(Shopify)
  BY <1>0 DEF SeesEffects, Shopify, Plain
<1>6. SeesEffects(Slack)
  BY <1>0 DEF SeesEffects, Slack, Plain
<1>7. SeesEffects(Square)
  BY <1>0 DEF SeesEffects, Square, Plain
<1>8. SeesEffects(Twilio)
  BY <1>0 DEF SeesEffects, Twilio, Plain
<1>9. SeesEffects(Standardwebhooks)
  BY <1>0 DEF SeesEffects, Standardwebhooks, Plain
<1>10. SeesEffects(Postmark)
  BY <1>0 DEF SeesEffects, Postmark, Plain
<1>11. SeesEffects(Mailchimp)
  BY <1>0 DEF SeesEffects, Mailchimp, Plain
<1>12. SeesEffects(Hubspot)
  BY <1>0 DEF SeesEffects, Hubspot, Plain
<1>13. SeesEffects(Auth0)
  BY <1>0 DEF SeesEffects, Auth0, Plain
<1>14. SeesEffects(Docusign)
  BY <1>0 DEF SeesEffects, Docusign, Plain
<1>15. SeesEffects(Linear)
  BY <1>0 DEF SeesEffects, Linear, Plain
<1>16. SeesEffects(Intercom)
  BY <1>0 DEF SeesEffects, Intercom, Plain
<1>17. SeesEffects(Zoom)
  BY <1>0 DEF SeesEffects, Zoom, Plain
<1>18. SeesEffects(Calendly)
  BY <1>0 DEF SeesEffects, Calendly, Plain
<1>19. SeesEffects(Notion)
  BY <1>0 DEF SeesEffects, Notion, Plain
<1>20. SeesEffects(Bitbucket)
  BY <1>0 DEF SeesEffects, Bitbucket, Plain
<1>21. SeesEffects(Pagerduty)
  BY <1>0 DEF SeesEffects, Pagerduty, Plain
<1>22. SeesEffects(Sentry)
  BY <1>0 DEF SeesEffects, Sentry, Plain
<1>23. SeesEffects(Zendesk)
  BY <1>0 DEF SeesEffects, Zendesk, Plain
<1>24. SeesEffects(Nmi)
  BY <1>0 DEF SeesEffects, Nmi, Plain
<1>25. SeesEffects(Braintree)
  BY <1>0 DEF SeesEffects, Braintree, Plain
<1>26. SeesEffects(Paypal)
  BY <1>0 DEF SeesEffects, Paypal, Plain
<1>27. QED
  BY <1>1, <1>2, <1>3, <1>4, <1>5, <1>6, <1>7, <1>8, <1>9, <1>10, <1>11, <1>12, <1>13, <1>14,
     <1>15, <1>16, <1>17, <1>18, <1>19, <1>20, <1>21, <1>22, <1>23, <1>24, <1>25, <1>26
     DEF Providers, Catalog, Ordered, SdkPacks, FirstPacks, SecondPacks, ThirdPacks, OwnFormats,
        Agents

-----------------------------------------------------------------------------
\* Effects before the verification.

Called(h, i) == ToSet(h.statements[i].calls) \cup h.statements[i].test

\* What counts as a verification is a call of the provider's or of the object
\* that has it.
LEMMA SelfNamed == ASSUME NEW v, Len(v) \in Nat PROVE NamesCall(v, v)
<1>1. Len(Reverse(v)) = Len(v)
  BY DEF Reverse
<1>2. QED
  BY <1>1 DEF NamesCall, IsSuffix, IsPrefix

\* A call of a member is named by the method.
LEMMA ThisNamed == ASSUME NEW x, NEW v, v = <<x>> PROVE NamesCall(<<"this">> \o v, v)
<1> DEFINE c == <<"this">> \o v
<1>1. <<"this">> \in Seq({"this", x}) /\ v \in Seq({"this", x})
  OBVIOUS
<1>2. c \in Seq({"this", x}) /\ Len(c) = 2 /\ c[2] = x
  BY <1>1
<1> HIDE DEF c
<1>3. /\ Reverse(c) \in Seq({"this", x}) /\ Len(Reverse(c)) = 2 /\ Reverse(c)[1] = x
      /\ Reverse(v) \in Seq({"this", x}) /\ Len(Reverse(v)) = 1 /\ Reverse(v)[1] = x
  BY <1>2 DEF Reverse
<1>4. \A s \in Seq({"this", x}) :
        Len(s) >= 1 => /\ SubSeq(s, 1, 1) \in Seq({"this", x})
                       /\ Len(SubSeq(s, 1, 1)) = 1 /\ SubSeq(s, 1, 1)[1] = s[1]
  OBVIOUS
<1>5. \A s, t \in Seq({"this", x}) : Len(s) = 1 /\ Len(t) = 1 /\ s[1] = t[1] => s = t
  OBVIOUS
<1>6. SubSeq(Reverse(v), 1, 1) = SubSeq(Reverse(c), 1, 1)
  BY <1>3, <1>4, <1>5
<1>7. QED
  BY <1>3, <1>6 DEF NamesCall, IsSuffix, IsPrefix, c

\* A statement that the engine takes for a verification calls one, or its receiver.
LEMMA VerificationsAreKnown ==
  ASSUME NEW h, NEW p \in Providers, NEW i \in DOMAIN h.statements,
         NEW c \in Called(h, i), c \in VerificationSet(p, {s.name : s \in h.reach})
  PROVE  i \in VerifiesAt(h, p) \/ c \in Receivers(h, p)
<1>1. CASE c \in Catalog[p].verify
  <2>1. NamesCall(c, c)
    BY <1>1, NamedCalls, SelfNamed DEF Named
  <2>2. QED
    BY <1>1, <2>1 DEF VerifiesAt, Called
<1>2. CASE c \in {<<"this">> \o v : v \in {w \in Catalog[p].verify : Len(w) = 1}}
  <2>1. PICK v \in Catalog[p].verify : Len(v) = 1 /\ c = <<"this">> \o v
    BY <1>2
  <2>2. v = <<v[1]>>
    BY <2>1, NamedCalls DEF Named
  <2>3. NamesCall(c, v)
    BY <2>1, <2>2, ThisNamed
  <2>4. QED
    BY <2>1, <2>3 DEF VerifiesAt, Called
<1>3. CASE c \in UNION {{q, SubSeq(q, 1, 1)} : q \in {r \in {s.name : s \in h.reach} :
                           \E v \in Catalog[p].verify : NamesCall(r, v)}}
  <2>1. PICK s \in h.reach : /\ \E v \in Catalog[p].verify : NamesCall(s.name, v)
                             /\ c \in {s.name, SubSeq(s.name, 1, 1)}
    BY <1>3
  <2>2. CASE c = s.name
    BY <2>1, <2>2 DEF VerifiesAt, Called
  <2>3. CASE c = SubSeq(s.name, 1, 1)
    BY <2>1, <2>3 DEF Receivers
  <2>4. QED
    BY <2>1, <2>2, <2>3
<1>4. QED
  BY <1>1, <1>2, <1>3 DEF VerificationSet

\* An effect before any verification is evidence.
LEMMA EarlyIsEvidence ==
  ASSUME NEW h, IsHandler(h), NEW p \in Ordered, h.dialect = "js",
         NEW i \in DOMAIN h.statements,
         ToSet(h.statements[i].calls) \cap Effects # {},
         h.statements[i].ends \notin {"return", "answer", "refuse"},
         \A k \in 1..i : k \notin VerifiesAt(h, p) /\ Called(h, k) \cap Receivers(h, p) = {}
  PROVE  \E x \in VerifyOrdering(h, p) : x.kind = "side_effect_before_verify" /\ x.provider = p
<1> DEFINE verify == VerificationSet(p, {s.name : s \in h.reach})
           class  == [j \in DOMAIN h.statements |-> Class(h.statements[j], verify, Catalog[p].sinks)]
           early  == {j \in DOMAIN class : /\ class[j].kind = "side_effect"
                                           /\ \A k \in 1..j : class[k].kind # "verification"}
<1>1. p \in Providers /\ Effects \subseteq Catalog[p].sinks.t1 \cup Catalog[p].sinks.t2
  BY EffectsAreSeen DEF SeesEffects
<1>2. DOMAIN h.statements = 1..Len(h.statements) /\ Len(h.statements) \in Nat
  BY DEF IsHandler
<1>3. 1..i \subseteq DOMAIN h.statements /\ i \in 1..i
  BY <1>2
<1>4. \A k \in 1..i : Called(h, k) \cap verify = {}
  <2> HIDE DEF verify
  <2>1. ASSUME NEW k \in 1..i, NEW c \in Called(h, k), c \in verify PROVE FALSE
    BY <1>1, <1>3, <2>1, VerificationsAreKnown DEF verify
  <2>2. QED
    BY <2>1
<1>5. \A k \in 1..i : class[k].kind # "verification"
  <2> HIDE DEF verify
  <2>1. ASSUME NEW k \in 1..i PROVE Class(h.statements[k], verify, Catalog[p].sinks).kind # "verification"
    BY <1>4 DEF Class, Called
  <2>2. QED
    BY <1>3, <2>1
<1>6. class[i].kind = "side_effect"
  <2> HIDE DEF verify
  <2>1. h.statements[i].test \cap verify = {} /\ ToSet(h.statements[i].calls) \cap verify = {}
    BY <1>3, <1>4 DEF Called
  <2>2. {j \in DOMAIN h.statements[i].calls :
          h.statements[i].calls[j] \in Catalog[p].sinks.t1 \cup Catalog[p].sinks.t2} # {}
    BY <1>1 DEF ToSet
  <2>3. QED
    BY <2>1, <2>2 DEF Class
<1>7. i \in early
  BY <1>5, <1>6
<1>8. VerifyOrdering(h, p) =
        {[kind |-> "side_effect_before_verify", provider |-> p,
          detail |-> class[j].call, where |-> j] : j \in early}
  BY <1>1, Zenon DEF VerifyOrdering
<1>9. QED
  <2> HIDE DEF early, class
  <2>1. QED
    BY <1>7, <1>8

\* A handler that acts on a message before it has verified it is not reported
\* verified without reservation.
THEOREM EarlyEffects == Spec => []EarlyEffectsAreSeen
<1>1. Inv => EarlyEffectsAreSeen
  <2> SUFFICES ASSUME Inv, NEW h, h = Latest.source, NEW p, p = Latest.report.provider,
                      phase = "reported", Latest.report.state = "verified", Judges(Latest, "after"),
                      ~(p = "paypal" /\ "postback" \in h.own),
                      NEW i \in DOMAIN h.statements,
                      ToSet(h.statements[i].calls) \cap Effects # {},
                      h.statements[i].ends \notin {"return", "answer", "refuse"},
                      \A k \in 1..i : k \notin VerifiesAt(h, p) /\ Called(h, k) \cap Receivers(h, p) = {}
               PROVE  FALSE
    BY DEF EarlyEffectsAreSeen, Effects, Called
  <2>1. PICK e : e = EvidenceOf(h)
    OBVIOUS
  <2>2. Latest.report = Report(h, e, Provider(h)) /\ IsHandler(h)
    BY <2>1, Reported
  <2>3. p = Provider(h)
    BY <2>2 DEF Report
  <2>4. "after" \in DOMAIN Kinds /\ Kinds["after"] = Ordered
    BY DEF Kinds
  <2>5. p \in Ordered /\ AppliesTo("after", p, h)
    BY <2>4 DEF Judges
  <2>6. h.dialect = "js"
    BY <2>5 DEF AppliesTo, OnlyJs
  <2>7. PICK x \in VerifyOrdering(h, p) : x.kind = "side_effect_before_verify" /\ x.provider = p
    BY <2>2, <2>5, <2>6, EarlyIsEvidence
  <2>8. x \in e
    BY <2>1, <2>3, <2>7 DEF EvidenceOf
  <2>9. VerifyAfter(h, e, p) = "manual-review"
    BY <2>7, <2>8 DEF VerifyAfter, Evidenced, Review, Doubt
  <2>10. Verdict("after", h, e, p) = "manual-review"
    BY <2>9 DEF Verdict
  <2>11. [kind |-> "after", state |-> "manual-review"] \in FindingsOf(h, e, p)
    BY <2>4, <2>5, <2>10, Found DEF Silent
  <2>12. Report(h, e, p).state # "verified"
    BY <2>11, OneDoubts
  <2>13. QED
    BY <2>2, <2>3, <2>12
<1>2. QED
  BY <1>1, Invariance, PTL

-----------------------------------------------------------------------------
\* What an edit adds to a handler.

\* A call of two words named by v ends as v does.
LEMMA LastNamed ==
  ASSUME NEW a, NEW b, NEW v, Len(v) \in 1..4, NamesCall(<<a, b>>, v)
  PROVE  Last(v) = b
<1> DEFINE q == <<a, b>>
<1>1. /\ Reverse(q) \in Seq({a, b}) /\ Len(Reverse(q)) = 2 /\ Reverse(q)[1] = b
  <2>1. q \in Seq({a, b}) /\ Len(q) = 2 /\ q[1] = a /\ q[2] = b
    OBVIOUS
  <2> HIDE DEF q
  <2>2. QED
    BY <2>1 DEF Reverse
<1>2. /\ Reverse(v) \in Seq(Range(Reverse(v))) /\ Len(Reverse(v)) = Len(v) /\ Reverse(v)[1] = v[Len(v)]
  <2>1. /\ Reverse(v) = [i \in 1..Len(v) |-> Reverse(v)[i]] /\ DOMAIN Reverse(v) = 1..Len(v)
        /\ Reverse(v)[1] = v[Len(v)]
    BY DEF Reverse
  <2>2. \A i \in 1..Len(v) : Reverse(v)[i] \in Range(Reverse(v))
    BY <2>1 DEF Range
  <2>3. Reverse(v) \in Seq(Range(Reverse(v)))
    BY <2>1, <2>2
  <2>4. QED
    BY <2>1, <2>3
<1>3. Len(v) <= 2 /\ SubSeq(Reverse(v), 1, Len(v)) = SubSeq(Reverse(q), 1, Len(v))
  BY <1>1, <1>2 DEF NamesCall, IsSuffix, IsPrefix
<1>4. \A S : \A s \in Seq(S) : \A n \in 1..Len(s) : SubSeq(s, 1, n)[1] = s[1]
  OBVIOUS
<1>5. Reverse(v)[1] = Reverse(q)[1]
  <2> HIDE DEF q
  <2>1. SubSeq(Reverse(v), 1, Len(v))[1] = Reverse(v)[1]
    BY <1>2, <1>4
  <2>2. SubSeq(Reverse(q), 1, Len(v))[1] = Reverse(q)[1]
    BY <1>1, <1>3, <1>4
  <2>3. QED
    BY <1>3, <2>1, <2>2
<1>6. QED
  BY <1>1, <1>2, <1>5 DEF Last

\* What the edit of a comparison inserts.
LEMMA InsertedNames ==
  ASSUME NEW h, NEW s \in Inserted(h)
  PROVE  \/ h.dialect = "js" /\ s.name = <<"crypto", "timingSafeEqual">> /\ s.from = "crypto"
         \/ h.dialect = "py" /\ s.name = <<"hmac", "compare_digest">> /\ s.from = "hmac"
BY DEF Inserted

\* It verifies for nobody but the three providers that name the primitive itself.
LEMMA InsertedVerifies ==
  ASSUME NEW h, NEW s \in Inserted(h), NEW p \in Providers, NEW v \in Catalog[p].verify, NamesCall(s.name, v)
  PROVE  h.dialect = "js" /\ p \in {"n8n", "anthropic", "nmi"} /\ Last(v) = "timingSafeEqual"
<1>1. Len(v) \in 1..4 /\ Last(v) # "compare_digest"
  BY NamedCalls DEF Named
<1>2. CASE h.dialect = "js" /\ s.name = <<"crypto", "timingSafeEqual">>
  <2>1. Last(v) = "timingSafeEqual"
    BY <1>1, <1>2, LastNamed
  <2>2. QED
    BY <1>2, <2>1, NamedCalls DEF NoPrimitive
<1>3. CASE h.dialect = "py" /\ s.name = <<"hmac", "compare_digest">>
  BY <1>1, <1>3, LastNamed
<1>4. QED
  BY <1>2, <1>3, InsertedNames

\* It is no MAC, and not from Octokit.
LEMMA InsertedIsNoMac ==
  ASSUME NEW h, NEW s \in Inserted(h)
  PROVE  /\ ~NamesCall(s.name, <<"hmac", "new">>)
         /\ Last(s.name) \in {"timingSafeEqual", "compare_digest"}
         /\ s.from \notin Octokit
<1>1. Len(<<"hmac", "new">>) \in 1..4 /\ Last(<<"hmac", "new">>) = "new"
  BY DEF Last
<1>2. CASE s.name = <<"crypto", "timingSafeEqual">>
  BY <1>1, <1>2, LastNamed, InsertedNames DEF Last, Octokit
<1>3. CASE s.name = <<"hmac", "compare_digest">>
  BY <1>1, <1>3, LastNamed, InsertedNames DEF Last, Octokit
<1>4. QED
  BY <1>2, <1>3, InsertedNames

\* What both edits leave alone, and what they may add.
Edited(h, g) ==
  /\ IsHandler(h) /\ IsHandler(g)
  /\ \A f \in Fields \ {"compares", "reach", "rawRead", "own", "body"} : g[f] = h[f]
  /\ \/ g.reach = h.reach /\ g.own = h.own /\ g.compares = h.compares
     \/ g.reach = h.reach \cup Inserted(h) /\ g.own = h.own \cup InsertedOwn(h)
  /\ h.dialect # "js" => g.reach = h.reach \/ h.dialect = "py"
  /\ h.rawRead => g.rawRead
  /\ g.reach # h.reach /\ h.dialect = "js" => g.rawRead

\* Both edits are such.
LEMMA FixEdits ==
  ASSUME NEW h, IsHandler(h), NEW kind, NEW g, g = Fixed(kind, h)
  PROVE  Edited(h, g)
<1>1. CASE kind = "timing"
  <2>1. g = WithSafeComparison(h)
    BY <1>1 DEF Fixed
  <2>2. h.dialect \notin {"js", "py"} => Inserted(h) = {}
    BY DEF Inserted
  <2>3. /\ IsHandler(g)
        /\ \A f \in Fields \ {"compares", "reach", "rawRead", "own"} : g[f] = h[f]
        /\ g.reach = h.reach \cup Inserted(h)
        /\ g.own = h.own \cup InsertedOwn(h)
        /\ g.rawRead = (IF h.dialect = "js" THEN TRUE ELSE h.rawRead)
    BY <2>1, SafeComparison
  <2>4. h.dialect # "js" => g.reach = h.reach \/ h.dialect = "py"
    BY <2>2, <2>3
  <2>5. QED
    BY <2>3, <2>4 DEF Edited
<1>2. CASE kind # "timing"
  <2>1. g = WithRawBody(h)
    BY <1>2 DEF Fixed
  <2>2. /\ IsHandler(g) /\ g.rawRead = TRUE
        /\ \A f \in Fields \ {"body", "rawRead"} : g[f] = h[f]
    BY <2>1, RawBody
  <2>3. g.reach = h.reach /\ g.own = h.own /\ g.compares = h.compares
    BY <2>2 DEF Fields
  <2>4. QED
    BY <2>2, <2>3 DEF Edited
<1>3. QED
  BY <1>1, <1>2

\* An edit leaves what the engine reads off the text, but for the raw body.
LEMMA SameCues ==
  ASSUME NEW h, NEW g, Edited(h, g)
  PROVE  /\ Cited(g) = Cited(h) /\ Headers(g) = Headers(h)
         /\ SdkImports(g) = SdkImports(h) /\ LiteralMatches(g) = LiteralMatches(h)
         /\ InlineVerifyCalls(g) = InlineVerifyCalls(h) /\ PhpVerifyCalls(g) = PhpVerifyCalls(h)
         /\ GoVerifyCalls(g) = GoVerifyCalls(h) /\ QueueVerification(g) = QueueVerification(h)
         /\ MiddlewareChain(g) = MiddlewareChain(h)
<1>1. /\ g.route = h.route /\ g.imports = h.imports /\ g.namespaces = h.namespaces
      /\ g.envs = h.envs /\ g.literals = h.literals /\ g.headers = h.headers
      /\ g.dialect = h.dialect /\ g.args = h.args /\ g.uses = h.uses /\ g.statics = h.statics
      /\ g.methods = h.methods /\ g.enqueues = h.enqueues /\ g.consumers = h.consumers
  BY DEF Edited, Fields
<1>2. PathMatches(g) = PathMatches(h) /\ EnvReferences(g) = EnvReferences(h)
  BY <1>1 DEF PathMatches, EnvReferences, Signals
<1>3. SdkImports(g) = SdkImports(h) /\ LiteralMatches(g) = LiteralMatches(h)
  BY <1>1 DEF SdkImports, Imported, LiteralMatches, Signals
<1>4. Cited(g) = Cited(h)
  BY <1>2, <1>3 DEF Cited
<1>5. Headers(g) = Headers(h)
  BY <1>1, <1>4 DEF Headers, HeaderReads, Signals
<1>6. InlineVerifyCalls(g) = InlineVerifyCalls(h)
  BY <1>1 DEF InlineVerifyCalls, Signals
<1>7. PhpVerifyCalls(g) = PhpVerifyCalls(h)
  BY <1>1 DEF PhpVerifyCalls, Signals
<1>8. GoVerifyCalls(g) = GoVerifyCalls(h)
  BY <1>1 DEF GoVerifyCalls, Signals
<1>9. QueueVerification(g) = QueueVerification(h)
  BY <1>1 DEF QueueVerification
<1>10. MiddlewareChain(g) = MiddlewareChain(h)
  BY <1>1 DEF MiddlewareChain
<1>11. QED
  BY <1>3, <1>4, <1>5, <1>6, <1>7, <1>8, <1>9, <1>10

\* The verifications that a handler reaches, one by one.
LEMMA SdkCallsAre ==
  ASSUME NEW h, NEW x
  PROVE  x \in SdkVerifyCalls(h) <=>
           \E p \in Providers : \E v \in Catalog[p].verify, s \in h.reach :
             /\ x = [kind |-> "sdk_verify_call", provider |-> p, detail |-> v, where |-> "reach"]
             /\ NamesCall(s.name, v) /\ ~IsForeignBareCall(s, p)
<1> DEFINE calls(q) == {w \in Catalog[q].verify :
                         \E t \in h.reach : NamesCall(t.name, w) /\ ~IsForeignBareCall(t, q)}
           signals(q) == {[kind |-> "sdk_verify_call", provider |-> q, detail |-> d, where |-> "reach"] :
                           d \in calls(q)}
<1>1. SdkVerifyCalls(h) = UNION {signals(q) : q \in Providers}
  BY DEF SdkVerifyCalls, Signals
<1>2. \A q : x \in signals(q) <=>
         \E d \in calls(q) : x = [kind |-> "sdk_verify_call", provider |-> q, detail |-> d, where |-> "reach"]
  <2> HIDE DEF calls
  <2>1. QED
    OBVIOUS
<1>3. x \in SdkVerifyCalls(h) <=> \E q \in Providers : x \in signals(q)
  <2> HIDE DEF signals
  <2>1. QED
    BY <1>1
<1>4. QED
  <2> HIDE DEF signals
  <2>1. QED
    BY <1>2, <1>3

\* New evidence of a verification is that of a primitive, and comes with bytes.
LEMMA NewVerifyCalls ==
  ASSUME NEW h, NEW g, Edited(h, g)
  PROVE  /\ SdkVerifyCalls(h) \subseteq SdkVerifyCalls(g)
         /\ \A x \in SdkVerifyCalls(g) \ SdkVerifyCalls(h) :
              /\ x.kind = "sdk_verify_call" /\ x.provider \in {"n8n", "anthropic", "nmi"}
              /\ Last(x.detail) = "timingSafeEqual" /\ g.rawRead
<1>1. h.reach \subseteq g.reach /\ g.reach \ h.reach \subseteq Inserted(h)
  BY DEF Edited
<1>2. SdkVerifyCalls(h) \subseteq SdkVerifyCalls(g)
  BY <1>1 DEF SdkVerifyCalls, Signals
<1>3. ASSUME NEW x \in SdkVerifyCalls(g), x \notin SdkVerifyCalls(h)
      PROVE  /\ x.kind = "sdk_verify_call" /\ x.provider \in {"n8n", "anthropic", "nmi"}
             /\ Last(x.detail) = "timingSafeEqual" /\ g.rawRead
  <2>1. PICK p \in Providers : \E v \in Catalog[p].verify, s \in g.reach :
          /\ x = [kind |-> "sdk_verify_call", provider |-> p, detail |-> v, where |-> "reach"]
          /\ NamesCall(s.name, v) /\ ~IsForeignBareCall(s, p)
    BY SdkCallsAre
  <2>2. PICK v \in Catalog[p].verify, s \in g.reach \ h.reach :
          /\ x = [kind |-> "sdk_verify_call", provider |-> p, detail |-> v, where |-> "reach"]
          /\ NamesCall(s.name, v)
    BY <1>3, <2>1, SdkCallsAre
  <2>3. s \in Inserted(h)
    BY <1>1, <2>2
  <2>4. h.dialect = "js" /\ p \in {"n8n", "anthropic", "nmi"} /\ Last(v) = "timingSafeEqual"
    BY <2>2, <2>3, InsertedVerifies
  <2>5. g.rawRead
    BY <2>2, <2>4 DEF Edited
  <2>6. QED
    BY <2>2, <2>4, <2>5
<1>4. QED
  BY <1>2, <1>3

\* Evidence by its sources.
LEMMA EvidenceParts ==
  ASSUME NEW h
  PROVE  /\ TextEvidence(h) = Cited(h) \cup Headers(h) \cup RawBodyRead(h)
         /\ PreCfg(h) = TextEvidence(h) \cup VerifyCalls(h) \cup RawBodyMiddleware(h) \cup QueueVerification(h)
BY DEF TextEvidence, PreCfg, Cited, Headers, VerifyCalls

\* Evidence before the order of calls: nothing goes, and what comes is of no use
\* to anybody's attribution.
LEMMA NewEvidence ==
  ASSUME NEW h, NEW g, Edited(h, g)
  PROVE  /\ PreCfg(h) \subseteq PreCfg(g)
         /\ \A x : x.provider # "unknown" => (x \in TextEvidence(g) <=> x \in TextEvidence(h))
         /\ \A x \in PreCfg(g) \ PreCfg(h) : x.provider = "unknown" \/ IsGenericPrimitive(x)
<1>1. RawBodyMiddleware(g) = RawBodyMiddleware(h)
  BY SameCues DEF RawBodyMiddleware
<1>2. RawBodyRead(h) \subseteq RawBodyRead(g)
  BY DEF RawBodyRead, Edited
<1>3. /\ VerifyCalls(h) \subseteq VerifyCalls(g)
      /\ VerifyCalls(g) \ VerifyCalls(h) \subseteq SdkVerifyCalls(g) \ SdkVerifyCalls(h)
  BY SameCues, NewVerifyCalls DEF VerifyCalls
<1>4. \A x \in RawBodyRead(g) : x.provider = "unknown"
  BY KindsOfEvidence
<1>5. PreCfg(h) \subseteq PreCfg(g)
  BY <1>1, <1>2, <1>3, SameCues, EvidenceParts
<1>6. \A x : x.provider # "unknown" => (x \in TextEvidence(g) <=> x \in TextEvidence(h))
  BY <1>2, <1>4, SameCues, EvidenceParts
<1>7. \A x \in PreCfg(g) \ PreCfg(h) : x.provider = "unknown" \/ IsGenericPrimitive(x)
  <2> SUFFICES ASSUME NEW x \in PreCfg(g), x \notin PreCfg(h)
               PROVE  x.provider = "unknown" \/ IsGenericPrimitive(x)
    OBVIOUS
  <2>1. x \in RawBodyRead(g) \/ x \in VerifyCalls(g) \ VerifyCalls(h)
    BY <1>1, SameCues, EvidenceParts
  <2>2. QED
    BY <1>3, <1>4, <2>1, NewVerifyCalls DEF IsGenericPrimitive, Primitives
<1>8. QED
  BY <1>5, <1>6, <1>7

\* Votes: primitives have none, and neither has what names nobody.
LEMMA SameVotes ==
  ASSUME NEW E, NEW F, NEW fallback,
         \A x : x.provider # "unknown" => (x \in E <=> x \in F)
  PROVE  MostCited(E, fallback) = MostCited(F, fallback)
<1> DEFINE Cast(X) == [p \in {e.provider : e \in X} \ {"unknown"} |->
                        Cardinality({e \in X : e.provider = p})]
<1>1. {e.provider : e \in E} \ {"unknown"} = {e.provider : e \in F} \ {"unknown"}
  OBVIOUS
<1>2. \A p : p # "unknown" => {e \in E : e.provider = p} = {e \in F : e.provider = p}
  OBVIOUS
<1>3. Cast(E) = Cast(F)
  BY <1>1, <1>2
<1>4. QED
  <2>1. \A X : MostCited(X, fallback) =
          LET top == {p \in DOMAIN Cast(X) : \A q \in DOMAIN Cast(X) : Cast(X)[q] <= Cast(X)[p]}
          IN IF top = {} THEN fallback
             ELSE IF Cardinality(top) > 1 THEN "multiple" ELSE CHOOSE p \in top : TRUE
    BY DEF MostCited
  <2> HIDE DEF Cast
  <2>2. QED
    BY <1>3, <2>1

\* So an edit leaves the handler with its provider.
LEMMA SameProvider ==
  ASSUME NEW h, NEW g, Edited(h, g), Provider(h) # "unknown"
  PROVE  Provider(g) = Provider(h)
<1> DEFINE p(k) == RecomputeProvider(PreCfg(k), BaseProvider(k))
<1>1. BaseProvider(g) = BaseProvider(h)
  BY NewEvidence, SameVotes DEF BaseProvider
<1>2. p(g) = p(h)
  <2> DEFINE E == {e \in PreCfg(g) : ~IsGenericPrimitive(e)}
             F == {e \in PreCfg(h) : ~IsGenericPrimitive(e)}
  <2>1. \A x : x.provider # "unknown" => (x \in E <=> x \in F)
    BY NewEvidence
  <2>2. RecomputeProvider(PreCfg(g), BaseProvider(g)) = MostCited(E, BaseProvider(g))
        /\ RecomputeProvider(PreCfg(h), BaseProvider(h)) = MostCited(F, BaseProvider(h))
    BY DEF RecomputeProvider
  <2> HIDE DEF E, F
  <2>3. QED
    BY <1>1, <2>1, <2>2, SameVotes
<1>3. g.nodeFile = h.nodeFile /\ g.webhookish = h.webhookish
  BY DEF Edited, Fields
<1>4. (\E e \in PreCfg(h) : e.provider = p(h) /\ e.kind # "sdk_import")
        => \E e \in PreCfg(g) : e.provider = p(h) /\ e.kind # "sdk_import"
  BY NewEvidence
<1>5. \A k : Provider(k) = IF k.nodeFile THEN "n8n"
                        ELSE IF /\ ~k.webhookish
                                /\ ~\E e \in PreCfg(k) : e.provider = p(k) /\ e.kind # "sdk_import"
                        THEN "unknown" ELSE p(k)
  BY DEF Provider
<1> HIDE DEF p
<1>6. QED
  BY <1>2, <1>3, <1>4, <1>5

\* A call more that verifies never uncovers an effect.
LEMMA ClassCovers ==
  ASSUME NEW s, NEW sinks, NEW few, NEW many, few \subseteq many
  PROVE  /\ Class(s, many, sinks).kind # "verification" => Class(s, few, sinks).kind # "verification"
         /\ Class(s, many, sinks).kind = "side_effect" => Class(s, few, sinks).kind = "side_effect"
BY DEF Class

\* With more verifications, a statement is covered as before or better.
LEMMA MoreVerify ==
  ASSUME NEW p, NEW few, NEW many, few \subseteq many
  PROVE  VerificationSet(p, few) \subseteq VerificationSet(p, many)
<1> DEFINE named(names) == {r \in names : \E v \in Catalog[p].verify : NamesCall(r, v)}
           receivers(names) == UNION {{q, SubSeq(q, 1, 1)} : q \in named(names)}
<1>1. named(few) \subseteq named(many)
  OBVIOUS
<1>2. receivers(few) \subseteq receivers(many)
  <2> HIDE DEF named
  <2>1. QED
    BY <1>1
<1>3. \A names : VerificationSet(p, names) = Catalog[p].verify
         \cup {<<"this">> \o v : v \in {w \in Catalog[p].verify : Len(w) = 1}} \cup receivers(names)
  BY DEF VerificationSet
<1>4. QED
  <2> HIDE DEF receivers
  <2>1. QED
    BY <1>2, <1>3

Classes(h, p) ==
  [i \in DOMAIN h.statements |->
     Class(h.statements[i], VerificationSet(p, {s.name : s \in h.reach}), Catalog[p].sinks)]
Early(h, p) ==
  {j \in DOMAIN Classes(h, p) : /\ Classes(h, p)[j].kind = "side_effect"
                               /\ \A k \in 1..j : Classes(h, p)[k].kind # "verification"}

OrdersBefore(h, p) == \E x \in VerifyOrdering(h, p) : x.provider = p

\* An effect before verification, one by one.
LEMMA OrderingOf ==
  ASSUME NEW h, NEW p
  PROVE  OrdersBefore(h, p)
           <=> p \in Providers /\ h.dialect = "js" /\ Early(h, p) # {}
<1>1. CASE p \notin Providers \/ h.dialect # "js"
  BY <1>1 DEF VerifyOrdering, OrdersBefore
<1>2. CASE ~(p \notin Providers \/ h.dialect # "js")
  <2>1. VerifyOrdering(h, p) =
          {[kind |-> "side_effect_before_verify", provider |-> p,
            detail |-> Classes(h, p)[j].call, where |-> j] :
             j \in Early(h, p)}
    <3> DEFINE verify == VerificationSet(p, {s.name : s \in h.reach})
               class  == [i \in DOMAIN h.statements |-> Class(h.statements[i], verify, Catalog[p].sinks)]
               early  == {j \in DOMAIN class : /\ class[j].kind = "side_effect"
                                               /\ \A k \in 1..j : class[k].kind # "verification"}
    <3>1. VerifyOrdering(h, p) =
            {[kind |-> "side_effect_before_verify", provider |-> p, detail |-> class[j].call, where |-> j] :
               j \in early}
      BY <1>2, Zenon DEF VerifyOrdering
    <3>2. class = Classes(h, p)
      BY DEF Classes
    <3> HIDE DEF class
    <3>3. early = Early(h, p)
      BY <3>2 DEF Early
    <3>4. QED
      BY <3>1, <3>2, <3>3
  <2> DEFINE found(j) == [kind |-> "side_effect_before_verify", provider |-> p,
                          detail |-> Classes(h, p)[j].call, where |-> j]
  <2>2. (\E x \in VerifyOrdering(h, p) : x.provider = p) <=> Early(h, p) # {}
    <3>1. VerifyOrdering(h, p) = {found(j) : j \in Early(h, p)} /\ \A j : found(j).provider = p
      BY <2>1
    <3> HIDE DEF found
    <3>2. QED
      BY <3>1
  <2>3. QED
    BY <1>2, <2>2 DEF OrdersBefore
<1>3. QED
  BY <1>1, <1>2

\* An edit brings none forward.
LEMMA LaterNotEarlier ==
  ASSUME NEW h, NEW g, Edited(h, g), NEW p, OrdersBefore(g, p)
  PROVE  OrdersBefore(h, p)
<1>1. p \in Providers /\ g.dialect = "js" /\ Early(g, p) # {}
  BY OrderingOf
<1>2. /\ g.statements = h.statements /\ g.dialect = h.dialect
      /\ DOMAIN h.statements = 1..Len(h.statements) /\ Len(h.statements) \in Nat
  <2>1. g.statements = h.statements /\ g.dialect = h.dialect
    BY DEF Edited, Fields
  <2>2. h.statements \in Seq(Range(h.statements))
    BY DEF Edited, IsHandler
  <2>3. QED
    BY <2>1, <2>2
<1>3. VerificationSet(p, {s.name : s \in h.reach}) \subseteq VerificationSet(p, {s.name : s \in g.reach})
  <2>1. {s.name : s \in h.reach} \subseteq {s.name : s \in g.reach}
    BY DEF Edited
  <2>2. QED
    BY <2>1, MoreVerify
<1>4. PICK j \in Early(g, p) : TRUE
  BY <1>1
<1>5. /\ j \in DOMAIN h.statements /\ Classes(g, p)[j].kind = "side_effect"
      /\ \A k \in 1..j : k \in DOMAIN h.statements /\ Classes(g, p)[k].kind # "verification"
  <2>1. j \in DOMAIN h.statements /\ Classes(g, p)[j].kind = "side_effect"
        /\ \A k \in 1..j : Classes(g, p)[k].kind # "verification"
    BY <1>2, <1>4 DEF Early, Classes
  <2>2. QED
    BY <1>2, <2>1
<1>6. /\ Classes(h, p)[j].kind = "side_effect"
      /\ \A k \in 1..j : Classes(h, p)[k].kind # "verification"
  <2>1. ASSUME NEW k \in DOMAIN h.statements
        PROVE  /\ Classes(g, p)[k].kind # "verification" => Classes(h, p)[k].kind # "verification"
               /\ Classes(g, p)[k].kind = "side_effect" => Classes(h, p)[k].kind = "side_effect"
    <3> DEFINE sinks == Catalog[p].sinks
               few == VerificationSet(p, {s.name : s \in h.reach})
               many == VerificationSet(p, {s.name : s \in g.reach})
    <3>1. /\ Classes(g, p)[k] = Class(h.statements[k], many, sinks)
          /\ Classes(h, p)[k] = Class(h.statements[k], few, sinks)
      BY <1>2 DEF Classes
    <3> HIDE DEF sinks, few, many
    <3>2. few \subseteq many
      BY <1>3 DEF few, many
    <3>3. QED
      BY <3>1, <3>2, ClassCovers
  <2>2. QED
    BY <1>5, <2>1
<1>7. j \in Early(h, p)
  BY <1>5, <1>6 DEF Early, Classes
<1>8. QED
  BY <1>1, <1>2, <1>7, OrderingOf

Bytes(e) == \E x \in e : x.kind = "body_as_bytes_or_buffer"
OfThree == {"n8n", "anthropic", "nmi"}

\* What the rules read of the evidence, before and after an edit.
Reads(e, d, p) ==
  /\ HeaderRead(d) <=> HeaderRead(e)
  /\ \A kind \in {"signature_header_read", "sdk_import"} :
       Evidenced(d, kind, p) <=> Evidenced(e, kind, p)
  /\ SdkEvidence(e, p) => SdkEvidence(d, p)
  /\ SdkEvidence(d, p) => SdkEvidence(e, p) \/ (p \in OfThree /\ Bytes(d))
  /\ Bytes(e) => Bytes(d)
  /\ Evidenced(d, "side_effect_before_verify", p) => Evidenced(e, "side_effect_before_verify", p)
  /\ \A x : x.kind = "secret_literal_match" => (x \in d <=> x \in e)

\* The raw body is evidence.
LEMMA EvidencedOf ==
  ASSUME NEW h, NEW p
  PROVE  /\ HeaderRead(EvidenceOf(h)) <=> Headers(h) # {}
         /\ Evidenced(EvidenceOf(h), "signature_header_read", p) <=> \E x \in Headers(h) : x.provider = p
         /\ Evidenced(EvidenceOf(h), "sdk_import", p) <=> \E x \in SdkImports(h) : x.provider = p
         /\ SdkEvidence(EvidenceOf(h), p) <=> \E x \in VerifyCalls(h) : x.provider = p
         /\ Bytes(EvidenceOf(h)) <=> RawBodyRead(h) \cup RawBodyMiddleware(h) # {}
         /\ Provider(h) = p => (Evidenced(EvidenceOf(h), "side_effect_before_verify", p) <=> OrdersBefore(h, p))
BY EvidenceByKind DEF HeaderRead, Evidenced, SdkEvidence, Bytes, OrdersBefore

\* What the rules read of the evidence, before and after.
LEMMA EditsRead ==
  ASSUME NEW h, NEW g, Edited(h, g), NEW p, Provider(h) = p, p # "unknown"
  PROVE  Reads(EvidenceOf(h), EvidenceOf(g), p)
<1>1. Provider(g) = p
  BY SameProvider
<1>2. /\ HeaderRead(EvidenceOf(g)) <=> HeaderRead(EvidenceOf(h))
      /\ \A kind \in {"signature_header_read", "sdk_import"} :
           Evidenced(EvidenceOf(g), kind, p) <=> Evidenced(EvidenceOf(h), kind, p)
  BY EvidencedOf, SameCues
<1>3. VerifyCalls(h) \subseteq VerifyCalls(g)
      /\ VerifyCalls(g) \ VerifyCalls(h) \subseteq SdkVerifyCalls(g) \ SdkVerifyCalls(h)
  BY SameCues, NewVerifyCalls DEF VerifyCalls
<1>4. RawBodyMiddleware(g) = RawBodyMiddleware(h) /\ RawBodyRead(h) \subseteq RawBodyRead(g)
  BY SameCues DEF RawBodyMiddleware, RawBodyRead, Edited
<1>5. g.rawRead => Bytes(EvidenceOf(g))
  BY EvidencedOf DEF RawBodyRead, Anonymous
<1>6. SdkEvidence(EvidenceOf(h), p) => SdkEvidence(EvidenceOf(g), p)
  BY <1>3, EvidencedOf
<1>7. SdkEvidence(EvidenceOf(g), p) =>
        SdkEvidence(EvidenceOf(h), p) \/ (p \in OfThree /\ Bytes(EvidenceOf(g)))
  <2> SUFFICES ASSUME NEW x \in VerifyCalls(g) \ VerifyCalls(h), x.provider = p
               PROVE  p \in OfThree /\ Bytes(EvidenceOf(g))
    BY EvidencedOf
  <2>1. x.provider \in OfThree /\ g.rawRead
    BY <1>3, NewVerifyCalls DEF OfThree
  <2>2. QED
    BY <1>5, <2>1
<1>8. Bytes(EvidenceOf(h)) => Bytes(EvidenceOf(g))
  BY <1>4, EvidencedOf
<1>9. Evidenced(EvidenceOf(g), "side_effect_before_verify", p)
        => Evidenced(EvidenceOf(h), "side_effect_before_verify", p)
  BY <1>1, EvidencedOf, LaterNotEarlier
<1>10. \A x : x.kind = "secret_literal_match" => (x \in EvidenceOf(g) <=> x \in EvidenceOf(h))
  BY EvidenceByKind, SameCues
<1>11. QED
  BY <1>2, <1>6, <1>7, <1>8, <1>9, <1>10 DEF Reads

\* What the rules read of the handler.
LEMMA EditsShow ==
  ASSUME NEW h, NEW g, Edited(h, g), NEW p \in Providers
  PROVE  /\ Hmac(g) <=> Hmac(h)
         /\ \A names : Calls(h, names) => Calls(g, names)
         /\ \A names : names \cap {"timingSafeEqual", "compare_digest"} = {}
                      => (Calls(g, names) <=> Calls(h, names))
         /\ ReadsClock(h) => ReadsClock(g)
         /\ SdkReached(h, p) => SdkReached(g, p)
         /\ FromOctokit(g) <=> FromOctokit(h)
         /\ {Last(s.name) : s \in g.reach} \cap Algorithms = {Last(s.name) : s \in h.reach} \cap Algorithms
         /\ p \notin OfThree => \A s \in g.reach \ h.reach : \A v \in Catalog[p].verify : ~NamesCall(s.name, v)
         /\ \A x : x \notin {"hash_equals", "hmac.Equal"} =>
                (x \in g.own <=> x \in h.own) /\ (x \in Judged(g) <=> x \in Judged(h))
         /\ h.own \subseteq g.own /\ Judged(h) \subseteq Judged(g)
<1>1. h.reach \subseteq g.reach /\ g.reach \ h.reach \subseteq Inserted(h)
  BY DEF Edited
<1>2. h.own \subseteq g.own /\ g.own \ h.own \subseteq {"hash_equals", "hmac.Equal"} /\ g.near = h.near
  <2>1. InsertedOwn(h) \subseteq {"hash_equals", "hmac.Equal"}
    BY DEF InsertedOwn, Edited, IsHandler
  <2>2. QED
    BY <2>1 DEF Edited, Fields
<1>3. \A s \in g.reach \ h.reach :
        /\ ~NamesCall(s.name, <<"hmac", "new">>)
        /\ Last(s.name) \in {"timingSafeEqual", "compare_digest"}
        /\ s.from \notin Octokit
  BY <1>1, InsertedIsNoMac
<1>4. Hmac(g) <=> Hmac(h)
  BY <1>1, <1>3 DEF Hmac
<1>5. \A names : Calls(h, names) => Calls(g, names)
  BY <1>1 DEF Calls
<1>6. \A names : names \cap {"timingSafeEqual", "compare_digest"} = {} => (Calls(g, names) <=> Calls(h, names))
  BY <1>1, <1>3 DEF Calls
<1>7. (ReadsClock(h) => ReadsClock(g)) /\ (SdkReached(h, p) => SdkReached(g, p))
  BY <1>1 DEF ReadsClock, SdkReached
<1>8. FromOctokit(g) <=> FromOctokit(h)
  BY <1>1, <1>3 DEF FromOctokit
<1>9. {Last(s.name) : s \in g.reach} \cap Algorithms = {Last(s.name) : s \in h.reach} \cap Algorithms
  BY <1>1, <1>3 DEF Algorithms
<1>10. p \notin OfThree => \A s \in g.reach \ h.reach : \A v \in Catalog[p].verify : ~NamesCall(s.name, v)
  BY <1>1, InsertedVerifies DEF OfThree
<1>11. Judged(h) \subseteq Judged(g) /\ \A x : x \notin {"hash_equals", "hmac.Equal"} =>
                (x \in g.own <=> x \in h.own) /\ (x \in Judged(g) <=> x \in Judged(h))
  BY <1>2 DEF Judged
<1>12. QED
  BY <1>2, <1>4, <1>5, <1>6, <1>7, <1>8, <1>9, <1>10, <1>11

-----------------------------------------------------------------------------
\* No rule that was silent speaks up after an edit.

Quiet(v) == v = Silent
\* When a rule says nothing.
LEMMA Doubts ==
  /\ \A fires \in BOOLEAN, excused \in BOOLEAN : Quiet(Doubt(fires, excused)) <=> ~fires
  /\ \A fires \in BOOLEAN : Quiet(NotVerified(fires)) <=> ~fires
  /\ \A fires \in BOOLEAN : Quiet(Review(fires)) <=> ~fires
BY DEF Quiet, Doubt, NotVerified, Review, Silent

\* Calls of the primitives, before and after.
LEMMA SameComparisons ==
  ASSUME NEW h, NEW g, Edited(h, g)
  PROVE  \/ /\ g.reach = h.reach /\ g.own = h.own
            /\ Insecure(g) <=> Insecure(h)
         \/ Inserted(h) \subseteq g.reach /\ InsertedOwn(h) \subseteq g.own
<1>1. g.dialect = h.dialect /\ g.near = h.near
  BY DEF Edited, Fields
<1>2. g.compares = h.compares => (Insecure(g) <=> Insecure(h))
  BY <1>1 DEF Insecure
<1>3. QED
  BY <1>2 DEF Edited

\* After the edit, the handler compares in constant time.
LEMMA ComparedInPlace ==
  ASSUME NEW h, IsHandler(h), NEW g, g.dialect = h.dialect, g.near = h.near,
         Inserted(h) \subseteq g.reach, InsertedOwn(h) \subseteq g.own
  PROVE  /\ h.dialect \in {"js", "py"} => ConstantTime(g) /\ Recognized(g)
         /\ h.dialect = "js" => \E s \in g.reach : Len(s.name) > 1 /\ Last(s.name) = "timingSafeEqual"
         /\ h.dialect = "php" => "hash_equals" \in Judged(g)
         /\ h.dialect = "go" => "hmac.Equal" \in Judged(g)
<1>1. h.dialect = "js" => /\ \E s \in g.reach : Len(s.name) > 1 /\ Last(s.name) = "timingSafeEqual"
                          /\ ConstantTime(g)
  BY DEF Inserted, ConstantTime, Calls, Last
<1>2. h.dialect = "py" => ConstantTime(g)
  BY DEF Inserted, ConstantTime, Calls, Last
<1>3. h.dialect = "php" => "hash_equals" \in Judged(g)
  BY DEF InsertedOwn, Judged
<1>4. h.dialect = "go" => "hmac.Equal" \in Judged(g)
  BY DEF InsertedOwn, Judged
<1>5. QED
  BY <1>1, <1>2, <1>3, <1>4 DEF Recognized

\* Each rule that said nothing says nothing still: missing verification.
LEMMA StillPresent ==
  ASSUME NEW h, NEW g, Edited(h, g), NEW p \in Providers, p \notin {"discord", "paypal"},
         NEW e, NEW d, Reads(e, d, p), h.dialect # "go", Quiet(MissingSignature(h, e, p))
  PROVE  Quiet(MissingSignature(g, d, p))
<1>0. g.dialect = h.dialect /\ g.near = h.near /\ h.dialect \in {"js", "py", "php"}
  BY DEF Edited, Fields, IsHandler
<1>1. Quiet(MissingInPhp(h, e, p)) => Quiet(MissingInPhp(g, d, p))
  BY EditsShow DEF Reads, MissingInPhp, Quiet, NotVerified, Doubt, Silent
<1>2. Quiet(MissingByDefault(h, e, p)) => Quiet(MissingByDefault(g, d, p))
  BY EditsShow DEF Reads, MissingByDefault, Quiet, Doubt, Silent
<1>3. p = "twilio" => (Quiet(MissingTwilio(h)) => Quiet(MissingTwilio(g)))
  BY EditsShow DEF MissingTwilio, Quiet, NotVerified, Doubt, Silent
<1>4. p = "hubspot" => (Quiet(MissingHubspot(h, e)) => Quiet(MissingHubspot(g, d)))
  BY EditsShow DEF Reads, MissingHubspot, Quiet, NotVerified, Doubt, Silent
<1>5. p = "notion" => (Quiet(MissingNotion(h, e)) => Quiet(MissingNotion(g, d)))
  BY EditsShow DEF Reads, MissingNotion, Quiet, NotVerified, Doubt, Silent
<1>6. p = "mailchimp" => (Quiet(MissingMailchimp(h, e)) => Quiet(MissingMailchimp(g, d)))
  BY EditsShow DEF Reads, MissingMailchimp, Quiet, NotVerified, Doubt, Silent
<1>7. p = "postmark" => (Quiet(MissingPostmark(h, e)) => Quiet(MissingPostmark(g, d)))
  BY EditsShow DEF Reads, MissingPostmark, BasicAuth, IpRead, Quiet, NotVerified, Doubt, Silent
<1>8. p = "standardwebhooks" => (Quiet(MissingStandard(h, e)) => Quiet(MissingStandard(g, d)))
  <2> SUFFICES ASSUME p = "standardwebhooks", Quiet(MissingStandard(h, e)), ~SdkEvidence(d, p)
               PROVE  Quiet(MissingStandard(g, d))
    BY DEF MissingStandard, Quiet
  <2>1. ~SdkEvidence(e, p)
    BY DEF Reads
  <2>2. CASE h.dialect = "php"
    <3>1. "hash_hmac" \in Judged(h) /\ ("hash_equals" \in Judged(h) \/ Insecure(h))
      BY <2>1, <2>2 DEF MissingStandard, Quiet, Doubt, Silent
    <3>2. "hash_hmac" \in Judged(g) /\ ("hash_equals" \in Judged(g) \/ Insecure(g))
      <4>1. "hash_hmac" \in Judged(g) /\ ("hash_equals" \in Judged(h) => "hash_equals" \in Judged(g))
        BY <3>1, EditsShow
      <4>2. QED
        BY <1>0, <2>2, <3>1, <4>1, SameComparisons, ComparedInPlace DEF Edited
    <3>3. QED
      BY <1>0, <2>2, <3>2 DEF MissingStandard, Quiet, Doubt, Silent
  <2>3. CASE h.dialect # "php"
    <3>1. SdkReached(h, p) \/ (Hmac(h) /\ (Recognized(h) \/ (~Shaped(h) /\ Insecure(h))))
      BY <2>1, <2>3 DEF MissingStandard, Quiet, Doubt, Silent
    <3>2. /\ SdkReached(h, p) => SdkReached(g, p)
          /\ Hmac(g) <=> Hmac(h)
          /\ Recognized(h) => Recognized(g)
          /\ Shaped(g) <=> Shaped(h)
      BY EditsShow DEF Recognized, ConstantTime, Shaped, ShapedLikeComparison
    <3>3. Recognized(g) \/ (Insecure(g) <=> Insecure(h))
      BY <1>0, <2>3, SameComparisons, ComparedInPlace DEF Edited
    <3>4. SdkReached(g, p) \/ (Hmac(g) /\ (Recognized(g) \/ (~Shaped(g) /\ Insecure(g))))
      BY <3>1, <3>2, <3>3
    <3>5. QED
      BY <1>0, <2>3, <3>4 DEF MissingStandard, Quiet, Doubt, Silent
  <2>4. QED
    BY <2>2, <2>3
<1>9. QED
  BY <1>0, <1>1, <1>2, <1>3, <1>4, <1>5, <1>6, <1>7, <1>8 DEF MissingSignature

\* Timing.
LEMMA StillTimed ==
  ASSUME NEW h, NEW g, Edited(h, g), NEW p \in Providers, NEW e, NEW d, Reads(e, d, p),
         Quiet(Verdict("timing", h, e, p))
  PROVE  Quiet(Verdict("timing", g, d, p))
<1>0. g.dialect = h.dialect /\ g.near = h.near /\ h.dialect \in {"js", "py", "php", "go"}
  BY DEF Edited, Fields, IsHandler
<1>1. h.dialect = "go" => (Quiet(TimingInGo(h)) => Quiet(TimingInGo(g)))
  <2> SUFFICES ASSUME h.dialect = "go", Quiet(TimingInGo(h)) PROVE Quiet(TimingInGo(g))
    OBVIOUS
  <2>1. "hmac.New" \in Judged(h) /\ "hmac.Equal" \notin Judged(h) => ~Insecure(h)
    BY DEF TimingInGo, Quiet, NotVerified, Doubt, Silent
  <2>2. /\ "hmac.New" \in Judged(g) <=> "hmac.New" \in Judged(h)
        /\ "hmac.Equal" \in Judged(h) => "hmac.Equal" \in Judged(g)
    BY EditsShow
  <2>3. "hmac.Equal" \in Judged(g) \/ (Insecure(g) <=> Insecure(h))
    BY <1>0, SameComparisons, ComparedInPlace DEF Edited
  <2>4. QED
    BY <2>1, <2>2, <2>3 DEF TimingInGo, Quiet, NotVerified, Doubt, Silent
<1>2. h.dialect = "php" => /\ "hash_hmac" \in Judged(g) <=> "hash_hmac" \in Judged(h)
                           /\ "hash_equals" \in Judged(h) => "hash_equals" \in Judged(g)
                           /\ "hash_equals" \in Judged(g) \/ (Insecure(g) <=> Insecure(h))
  <2>1. "hash_hmac" \in Judged(g) <=> "hash_hmac" \in Judged(h)
    BY EditsShow
  <2>2. "hash_equals" \in Judged(h) => "hash_equals" \in Judged(g)
    BY EditsShow
  <2>3. h.dialect = "php" => "hash_equals" \in Judged(g) \/ (Insecure(g) <=> Insecure(h))
    BY <1>0, SameComparisons, ComparedInPlace DEF Edited
  <2>4. QED
    BY <2>1, <2>2, <2>3
<1>3. CASE p = "github"
  <2>1. Quiet(TimingGithub(h, e)) => Quiet(TimingGithub(g, d))
    <3>1. CASE h.dialect = "php"
      BY <1>0, <1>2, <3>1 DEF TimingGithub, Quiet, NotVerified, Doubt, Silent
    <3>2. CASE h.dialect = "go"
      BY <1>0, <1>1, <1>3, <3>2 DEF TimingGithub, Quiet, Reads
    <3>3. CASE h.dialect \in {"js", "py"}
      <4>1. h.reach \subseteq g.reach /\ (FromOctokit(g) <=> FromOctokit(h))
        BY EditsShow DEF Edited
      <4>2. QED
        BY <1>0, <3>3, <4>1 DEF TimingGithub, Quiet, NotVerified, Doubt, Silent
    <3>4. QED
      BY <1>0, <3>1, <3>2, <3>3
  <2>2. QED
    BY <1>3, <2>1 DEF Verdict
<1>4. CASE p # "github"
  <2>1. Quiet(TimingUnsafe(h, e, p)) => Quiet(TimingUnsafe(g, d, p))
    <3>1. CASE h.dialect = "php"
      BY <1>0, <1>2, <3>1 DEF TimingUnsafe, TimingInPhp, Reads, Quiet, NotVerified, Doubt, Silent
    <3>2. CASE h.dialect = "go"
      BY <1>0, <1>1, <3>2 DEF TimingUnsafe, Quiet, Reads
    <3>3. CASE h.dialect \in {"js", "py"}
      BY <1>0, <3>3, EditsShow DEF TimingUnsafe, TimingByReach, ConstantTime, Quiet, NotVerified,
         Doubt, Silent
    <3>4. QED
      BY <1>0, <3>1, <3>2, <3>3
  <2>2. QED
    BY <1>4, <2>1 DEF Verdict
<1>5. QED
  BY <1>3, <1>4

\* The provider's own verification.
LEMMA StillLibrary ==
  ASSUME NEW h, NEW g, Edited(h, g), NEW p \in LibraryFor, p \in Providers, NEW e, NEW d, Reads(e, d, p),
         Quiet(LibraryVerified(h, e, p))
  PROVE  Quiet(LibraryVerified(g, d, p))
<1>1. p \notin OfThree /\ p \notin {"discord", "paypal"}
  BY DEF LibraryFor, FirstPacks, OfThree
<1>2. ~SdkEvidence(e, p) /\ ~\E s \in h.reach : \E v \in Catalog[p].verify : NamesCall(s.name, v)
  BY <1>1 DEF LibraryVerified, Quiet, Silent
<1>3. ~SdkEvidence(d, p)
  BY <1>1, <1>2 DEF Reads
<1>4. ~\E s \in g.reach : \E v \in Catalog[p].verify : NamesCall(s.name, v)
  BY <1>1, <1>2, EditsShow
<1>5. QED
  BY <1>1, <1>3, <1>4 DEF LibraryVerified, Quiet, Silent

\* All the others.
LEMMA StillOtherwise ==
  ASSUME NEW h, NEW g, Edited(h, g), NEW p \in Providers, NEW e, NEW d, Reads(e, d, p),
         NEW kind \in DOMAIN Kinds \ {"missing", "library", "timing"}, Quiet(Verdict(kind, h, e, p))
  PROVE  Quiet(Verdict(kind, g, d, p))
<1> USE Doubts DEF Quiet
<1>0. /\ g.dialect = h.dialect /\ g.statements = h.statements /\ g.logs = h.logs /\ g.windows = h.windows
      /\ g.clock = h.clock /\ g.authentication = h.authentication
  BY DEF Edited, Fields
<1>1. CASE kind = "unreachable"
  BY <1>1, EditsShow DEF Verdict, Unreachable, Reads, Review, Doubt, Silent
<1>2. CASE kind = "rawBody"
  BY <1>2 DEF Verdict, RawBodyMisuse, Reads, Bytes, Doubt, Silent
<1>3. CASE kind = "timestamp"
  BY <1>3, EditsShow DEF Verdict, MissingTimestamp, Review, Doubt, Silent
<1>4. CASE kind = "algorithm"
  BY <1>4, EditsShow DEF Verdict, WrongAlgorithm, Doubt, Silent
<1>5. CASE kind = "after"
  BY <1>5, EditsShow DEF Verdict, VerifyAfter, Reads, Review, Doubt, Silent
<1>6. CASE kind = "bypass"
  BY <1>0, <1>6 DEF Verdict, TestModeBypass, VerifiesAt, NotVerified, Doubt, Silent
<1>7. CASE kind = "swallowed"
  BY <1>0, <1>7 DEF Verdict, ErrorSwallowed, VerifiesAt, NotVerified, Doubt, Silent
<1>8. CASE kind = "inLog"
  BY <1>0, <1>8 DEF Verdict, SecretInLog
<1>9. CASE kind = "replay"
  BY <1>0, <1>9 DEF Verdict, ReplayWindow
<1>10. CASE kind = "emptySecret"
  BY <1>10, EditsShow DEF Verdict, NotVerified, Doubt, Silent
<1>11. CASE kind = "ordering"
  BY <1>11, SameCues DEF Verdict, UnguardedParser
<1>12. CASE kind = "headerOnly"
  BY <1>12, EditsShow DEF Verdict, HeaderOnly, Reads, Review, Doubt, Silent
<1>13. CASE kind = "prefix"
  BY <1>13, EditsShow DEF Verdict, PrefixKept, Reads, Review, Doubt, Silent
<1>14. CASE kind = "rotation"
  BY <1>14, EditsShow DEF Verdict, OneOfMany, Review, Doubt, Silent
<1>15. CASE kind = "confusion"
  BY <1>15, EditsShow DEF Verdict, HeaderConfusion, Reads, Review, Doubt, Silent
<1>16. CASE kind = "octokit"
  BY <1>16, EditsShow DEF Verdict, NotVerified, Doubt, Silent
<1>17. CASE kind = "urlSecret"
  BY <1>17, EditsShow DEF Verdict, Review, Doubt, Silent
<1>18. CASE kind = "basicAuth"
  BY <1>18, EditsShow DEF Verdict, BasicAuth, IpRead, Review, Doubt, Silent
<1>19. CASE kind = "ipList"
  BY <1>19, EditsShow DEF Verdict, BasicAuth, IpRead, Review, Doubt, Silent
<1>20. CASE kind = "trigger"
  BY <1>0, <1>20 DEF Verdict
<1>21. QED
  BY <1>1, <1>2, <1>3, <1>4, <1>5, <1>6, <1>7, <1>8, <1>9, <1>10, <1>11, <1>12, <1>13, <1>14, <1>15,
     <1>16, <1>17, <1>18, <1>19, <1>20 DEF Kinds

-----------------------------------------------------------------------------
\* An edit heals.

\* The rules that speak of a handler.
Speaks(kind, h, e, p) ==
  \/ /\ kind \in DOMAIN Kinds /\ p \in Kinds[kind] /\ AppliesTo(kind, p, h)
     /\ ~Quiet(Verdict(kind, h, e, p))
  \/ /\ kind = "hardcoded" /\ h.dialect # "go"
     /\ \E x \in e : x.kind = "secret_literal_match" /\ x.detail \in HardcodedPrefixes

\* The findings, rule by rule.
LEMMA RulesFound ==
  ASSUME NEW h, NEW e, NEW p, NEW kind
  PROVE  (\E f \in FindingsOf(h, e, p) : kind = f.kind)
         <=> Speaks(kind, h, e, p)
<1> DEFINE ruled == {x \in DOMAIN Kinds : /\ p \in Kinds[x] /\ AppliesTo(x, p, h)
                                         /\ Verdict(x, h, e, p) # Silent}
           literals == {d \in e : /\ d.kind = "secret_literal_match"
                                 /\ d.detail \in HardcodedPrefixes /\ h.dialect # "go"}
           found(k) == [kind |-> k, state |-> Verdict(k, h, e, p)]
           hard == [kind |-> "hardcoded", state |-> "not-verified"]
<1>1. \A f : f \in FindingsOf(h, e, p)
             <=> (\E k \in ruled : f = found(k)) \/ (\E d \in literals : f = hard)
  BY DEF FindingsOf
<1>2. (\A k : found(k).kind = k) /\ hard.kind = "hardcoded"
  OBVIOUS
<1>3. Speaks(kind, h, e, p) <=> kind \in ruled \/ (kind = "hardcoded" /\ \E d \in literals : TRUE)
  BY DEF Speaks, Quiet
<1> HIDE DEF ruled, literals, found, hard
<1>4. ASSUME NEW f \in FindingsOf(h, e, p), kind = f.kind PROVE Speaks(kind, h, e, p)
  BY <1>1, <1>2, <1>3, <1>4
<1>5. ASSUME kind \in ruled PROVE \E f \in FindingsOf(h, e, p) : kind = f.kind
  <2>1. found(kind) \in FindingsOf(h, e, p)
    BY <1>1, <1>5
  <2>2. QED
    BY <1>2, <2>1
<1>6. ASSUME kind = "hardcoded", NEW d \in literals PROVE \E f \in FindingsOf(h, e, p) : kind = f.kind
  <2>1. hard \in FindingsOf(h, e, p)
    BY <1>1, <1>6
  <2>2. QED
    BY <1>2, <1>6, <2>1
<1>7. QED
  BY <1>3, <1>4, <1>5, <1>6

\* And as they are reported.
LEMMA KindsReported ==
  ASSUME NEW scan, NEW h, NEW e, NEW p, scan.report = Report(h, e, p), NEW kind
  PROVE  kind \in Kind(scan)
         <=> Speaks(kind, h, e, p)
<1> DEFINE found == FindingsOf(h, e, p)
           shown == Report(h, e, p).findings
<1>1. \A f \in found : Softened(f, e).kind = f.kind
  <2>1. \A f \in found : f = [kind |-> f.kind, state |-> f.state]
    BY DEF FindingsOf
  <2>2. \A f : f = [kind |-> f.kind, state |-> f.state]
              => Softened(f, e).kind = f.kind
    BY DEF Softened
  <2>3. QED
    BY <2>1, <2>2
<1>2. kind \in Kind(scan) <=> \E x \in shown : kind = x.kind
  BY DEF Kind
<1>3. \A x : x \in shown <=> \E f \in found : x = Softened(f, e)
  BY DEF Report, Softened
<1>4. (\E f \in found : kind = f.kind) <=> Speaks(kind, h, e, p)
  BY RulesFound
<1> HIDE DEF found, shown
<1>5. (\E x \in shown : kind = x.kind) <=> \E f \in found : kind = f.kind
  BY <1>1, <1>3
<1>6. QED
  BY <1>2, <1>4, <1>5

\* After an edit, no rule speaks that was silent.
LEMMA NobodySpeaksUp ==
  ASSUME NEW h, NEW g, Edited(h, g), NEW p \in Providers, p \notin {"discord", "paypal", "braintree"},
         NEW e, NEW d, Reads(e, d, p), NEW kind, Speaks(kind, g, d, p)
  PROVE  Speaks(kind, h, e, p)
<1>1. g.dialect = h.dialect /\ g.framework = h.framework
  BY DEF Edited, Fields
<1>2. AppliesTo(kind, p, g) <=> AppliesTo(kind, p, h)
  BY <1>1 DEF AppliesTo
<1>3. CASE kind = "hardcoded"
  BY <1>1, <1>3 DEF Speaks, Reads, Kinds
<1>4. CASE kind # "hardcoded"
  <2>1. kind \in DOMAIN Kinds /\ p \in Kinds[kind] /\ AppliesTo(kind, p, h) /\ ~Quiet(Verdict(kind, g, d, p))
    BY <1>2, <1>4 DEF Speaks
  <2>2. ~Quiet(Verdict(kind, h, e, p))
    <3>1. CASE kind = "missing"
      <4>1. h.dialect # "go"
        BY <2>1, <3>1 DEF AppliesTo, AlsoGo
      <4>2. /\ Verdict(kind, g, d, p) = MissingSignature(g, d, p)
            /\ Verdict(kind, h, e, p) = MissingSignature(h, e, p)
        BY <3>1 DEF Verdict
      <4>3. QED
        BY <2>1, <3>1, <4>1, <4>2, StillPresent
    <3>2. CASE kind = "library"
      <4>1. p \in LibraryFor
        BY <2>1, <3>2 DEF Kinds, Speaks
      <4>2. /\ Verdict(kind, g, d, p) = LibraryVerified(g, d, p)
            /\ Verdict(kind, h, e, p) = LibraryVerified(h, e, p)
        BY <3>2 DEF Verdict
      <4>3. QED
        BY <2>1, <3>2, <4>1, <4>2, StillLibrary
    <3>3. CASE kind = "timing"
      BY <2>1, <3>3, StillTimed
    <3>4. CASE kind \notin {"missing", "library", "timing"}
      BY <2>1, <3>4, StillOtherwise
    <3>5. QED
      BY <3>1, <3>2, <3>3, <3>4
  <2>3. QED
    BY <2>1, <2>2 DEF Speaks
<1>5. QED
  BY <1>3, <1>4

\* The finding itself goes.
LEMMA TimingHeals ==
  ASSUME NEW h, IsHandler(h), NEW g, g = WithSafeComparison(h), NEW p, NEW d,
         ~(p = "github" /\ h.dialect = "py")
  PROVE  Quiet(Verdict("timing", g, d, p))
<1>0. /\ IsHandler(g)
      /\ \A f \in Fields \ {"compares", "reach", "rawRead", "own"} : g[f] = h[f]
      /\ g.reach = h.reach \cup Inserted(h)
      /\ g.own = h.own \cup InsertedOwn(h)
      /\ g.rawRead = (IF h.dialect = "js" THEN TRUE ELSE h.rawRead)
  BY IsHandler(h), g = WithSafeComparison(h), SafeComparison
<1>1. g.dialect = h.dialect /\ g.near = h.near /\ h.dialect \in {"js", "py", "php", "go"}
  BY <1>0 DEF Fields, IsHandler
<1>2. Inserted(h) \subseteq g.reach /\ InsertedOwn(h) \subseteq g.own
  BY <1>0
<1>3. /\ h.dialect \in {"js", "py"} => ConstantTime(g)
      /\ h.dialect = "js" => \E s \in g.reach : Len(s.name) > 1 /\ Last(s.name) = "timingSafeEqual"
      /\ h.dialect = "php" => "hash_equals" \in Judged(g)
      /\ h.dialect = "go" => "hmac.Equal" \in Judged(g)
  BY <1>1, <1>2, ComparedInPlace
<1>4. h.dialect = "go" => Quiet(TimingInGo(g))
  BY <1>3 DEF TimingInGo, Quiet, NotVerified, Doubt
<1>5. CASE p = "github"
  <2>1. Quiet(TimingGithub(g, d))
    BY <1>1, <1>3, <1>4, <1>5 DEF TimingGithub, Quiet, NotVerified, Doubt
  <2>2. QED
    BY <1>5, <2>1 DEF Verdict
<1>6. CASE p # "github"
  <2>1. Quiet(TimingUnsafe(g, d, p))
    BY <1>1, <1>3, <1>4, <1>6 DEF TimingUnsafe, TimingInPhp, TimingByReach, Quiet, NotVerified,
       Doubt
  <2>2. QED
    BY <1>6, <2>1 DEF Verdict
<1>7. QED
  BY <1>5, <1>6

\* The same for the raw body.
LEMMA RawBodyHeals ==
  ASSUME NEW h, IsHandler(h), NEW g, g = WithRawBody(h), NEW p
  PROVE  Quiet(Verdict("rawBody", g, EvidenceOf(g), p))
<1>1. g.rawRead
  BY RawBody
<1>2. Bytes(EvidenceOf(g))
  BY <1>1, EvidencedOf DEF RawBodyRead, Anonymous
<1>3. Quiet(RawBodyMisuse(g, EvidenceOf(g), p))
  BY <1>2 DEF RawBodyMisuse, Bytes, Quiet, Doubt
<1>4. QED
  BY <1>3 DEF Verdict

\* The edit of a finding takes the finding away, raises no other one and leaves the
\* handler with its provider.
THEOREM Healing == Spec => []FixHeals
<1>1. Inv => FixHeals
  <2> SUFFICES ASSUME Inv, Rescanned({"timing", "rawBody"}), NEW before, before = scans[Len(scans) - 1]
               PROVE  /\ \/ change \notin Kind(Latest)
                         \/ /\ <<before.report.provider, change>> = <<"github", "timing">>
                            /\ Latest.source.dialect = "py"
                      /\ Kind(Latest) \subseteq Kind(before)
                      /\ Latest.report.provider = before.report.provider
    BY DEF FixHeals
  <2>1. phase = "reported" /\ change \in {"timing", "rawBody"} /\ Len(scans) > 1
    BY DEF Rescanned
  <2>2. PICK g, d, h, e, p : /\ g = Latest.source /\ d = EvidenceOf(g)
                             /\ h = before.source /\ e = EvidenceOf(h) /\ p = Provider(h)
    OBVIOUS
  <2>3. /\ IsHandler(g) /\ Latest.report = Report(g, d, Provider(g))
        /\ Len(scans) \in DOMAIN scans /\ Latest = scans[Len(scans)] /\ Latest.change = change
    BY <2>1, <2>2, Reported
  <2>4. Len(scans) - 1 \in DOMAIN scans
    BY <2>1, <2>3 DEF Inv, History
  <2>5. IsHandler(h) /\ before.report = Report(h, e, p)
    BY <2>2, <2>4 DEF Inv, History, Own
  <2>6. before.report.provider = p
    BY <2>5 DEF Report
  <2>7. Changed(before, change, g)
    BY <2>1, <2>2, <2>3 DEF Inv, History
  <2>8. Offers(change, h, p) /\ g = Fixed(change, h)
    BY <2>1, <2>2, <2>6, <2>7 DEF Changed
  <2>9. p \in Providers /\ p \notin {"unknown", "discord", "paypal", "braintree"}
    BY <2>8, OfferedTo
  <2>10. Edited(h, g)
    BY <2>5, <2>8, FixEdits
  <2>11. Provider(g) = p
    BY <2>2, <2>9, <2>10, SameProvider
  <2>12. Reads(e, d, p)
    BY <2>2, <2>9, <2>10, EditsRead
  <2>13. Kind(Latest) \subseteq Kind(before)
    <3>1. ASSUME NEW kind \in Kind(Latest) PROVE kind \in Kind(before)
      <4>1. Speaks(kind, g, d, p)
        BY <2>3, <2>11, KindsReported
      <4>2. Speaks(kind, h, e, p)
        BY <2>9, <2>10, <2>12, <4>1, NobodySpeaksUp
      <4>3. QED
        BY <2>5, <4>2, KindsReported
    <3>2. QED
      BY <3>1
  <2>14. Latest.report.provider = p
    BY <2>3, <2>11 DEF Report
  <2>15. change \in Kind(Latest) => p = "github" /\ change = "timing" /\ g.dialect = "py"
    <3> SUFFICES ASSUME change \in Kind(Latest), ~(p = "github" /\ change = "timing" /\ g.dialect = "py")
                 PROVE  FALSE
      OBVIOUS
    <3>1. Speaks(change, g, d, p)
      BY <2>3, <2>11, KindsReported
    <3>2. ~Quiet(Verdict(change, g, d, p))
      BY <2>1, <3>1 DEF Speaks
    <3>3. CASE change = "timing"
      <4>1. g = WithSafeComparison(h) /\ g.dialect = h.dialect
        BY <2>8, <2>10, <3>3 DEF Fixed, Edited, Fields
      <4>2. QED
        BY <2>5, <3>2, <3>3, <4>1, TimingHeals
    <3>4. CASE change = "rawBody"
      <4>1. g = WithRawBody(h)
        BY <2>8, <3>4 DEF Fixed
      <4>2. QED
        BY <2>2, <2>5, <3>2, <3>4, <4>1, RawBodyHeals
    <3>5. QED
      BY <2>1, <3>3, <3>4
  <2>16. QED
    BY <2>2, <2>6, <2>13, <2>14, <2>15
<1>2. QED
  BY <1>1, Invariance, PTL

-----------------------------------------------------------------------------
\* Types.

\* Evidence speaks of a provider of the catalog, or of none.
LEMMA ProvidersOfEvidence ==
  ASSUME NEW h
  PROVE  \A x \in EvidenceOf(h) : x.provider \in Providers \cup {"unknown"}
<1> DEFINE known == Providers \cup {"unknown"}
<1>1. \A x \in PathMatches(h) : x.provider \in known
  BY DEF PathMatches, Signals
<1>2. \A x \in SdkImports(h) : x.provider \in known
  BY DEF SdkImports, Signals
<1>3. \A x \in EnvReferences(h) : x.provider \in known
  BY DEF EnvReferences, Signals
<1>4. \A x \in LiteralMatches(h) : x.provider \in known
  BY DEF LiteralMatches, Signals
<1>5. \A x \in Headers(h) : x.provider \in known
  <2> SUFFICES ASSUME NEW ps, NEW x \in HeaderReads(h, ps) PROVE x.provider \in known
    BY DEF Headers
  <2> DEFINE all == Signals("signature_header_read", "text", LAMBDA q :
                       {d \in Catalog[q].headers : /\ q \in Owners(d, ps)
                                                   /\ \E t \in h.headers : Includes(d, t)})
  <2>1. \A y \in all : /\ y = [kind |-> "signature_header_read", provider |-> y.provider,
                               detail |-> y.detail, where |-> "text"]
                       /\ y.provider \in Providers
    BY DEF Signals
  <2>2. PICK y \in all : x = [y EXCEPT !.provider = IF y.detail \in Generic THEN "unknown" ELSE @]
    BY DEF HeaderReads
  <2>3. /\ y = [kind |-> y.kind, provider |-> y.provider, detail |-> y.detail, where |-> y.where]
        /\ y.provider \in Providers
    <3> HIDE DEF all
    <3>1. QED
      BY <2>1, <2>2
  <2>4. QED
    BY <2>2, <2>3
<1>6. \A x \in RawBodyRead(h) \cup RawBodyMiddleware(h) \cup QueueVerification(h) : x.provider \in known
  BY KindsOfEvidence
<1>7. \A x \in SdkVerifyCalls(h) : x.provider \in known
  BY DEF SdkVerifyCalls, Signals
<1>8. \A x \in InlineVerifyCalls(h) : x.provider \in known
  BY DEF InlineVerifyCalls, Signals
<1>9. \A x \in PhpVerifyCalls(h) : x.provider \in known
  BY DEF PhpVerifyCalls, Signals
<1>10. \A x \in GoVerifyCalls(h) : x.provider \in known
  BY DEF GoVerifyCalls, Signals
<1>11. \A x \in VerifyOrdering(h, Provider(h)) : x.provider \in known
  <2> DEFINE p == Provider(h)
             verify == VerificationSet(p, {s.name : s \in h.reach})
             class  == [i \in DOMAIN h.statements |-> Class(h.statements[i], verify, Catalog[p].sinks)]
             early  == {j \in DOMAIN class : /\ class[j].kind = "side_effect"
                                             /\ \A k \in 1..j : class[k].kind # "verification"}
  <2>1. CASE p \notin Providers \/ h.dialect # "js"
    BY <2>1 DEF VerifyOrdering
  <2>2. CASE ~(p \notin Providers \/ h.dialect # "js")
    <3>1. VerifyOrdering(h, p) =
            {[kind |-> "side_effect_before_verify", provider |-> p, detail |-> class[i].call,
              where |-> i] : i \in early}
      BY <2>2, Zenon DEF VerifyOrdering
    <3> HIDE DEF early, class, p
    <3>2. \A x \in VerifyOrdering(h, p) : x.provider = p
      BY <3>1
    <3>3. QED
      BY <2>2, <3>2 DEF p
  <2>3. QED
    BY <2>1, <2>2
<1>12. EvidenceOf(h) = PathMatches(h) \cup SdkImports(h) \cup EnvReferences(h) \cup LiteralMatches(h)
         \cup Headers(h) \cup RawBodyRead(h) \cup RawBodyMiddleware(h) \cup QueueVerification(h)
         \cup SdkVerifyCalls(h) \cup InlineVerifyCalls(h) \cup PhpVerifyCalls(h) \cup GoVerifyCalls(h)
         \cup VerifyOrdering(h, Provider(h))
  BY DEF EvidenceOf, PreCfg, TextEvidence, Cited, Headers
<1> HIDE DEF known
<1>13. \A x \in EvidenceOf(h) : x.provider \in known
  BY <1>1, <1>2, <1>3, <1>4, <1>5, <1>6, <1>7, <1>8, <1>9, <1>10, <1>11, <1>12
<1>14. QED
  BY <1>13 DEF known

\* Most evidence is for a provider it speaks of, if not for several.
LEMMA MostCitedRange ==
  ASSUME NEW ev, NEW known, \A x \in ev : x.provider \in known, NEW fallback
  PROVE  MostCited(ev, fallback) \in known \cup {"multiple", fallback}
<1> DEFINE votes == [p \in {x.provider : x \in ev} \ {"unknown"} |->
                       Cardinality({x \in ev : x.provider = p})]
           top == {p \in DOMAIN votes : \A q \in DOMAIN votes : votes[q] <= votes[p]}
<1>1. MostCited(ev, fallback) = IF top = {} THEN fallback
        ELSE IF Cardinality(top) > 1 THEN "multiple" ELSE CHOOSE p \in top : TRUE
  BY DEF MostCited
<1>2. top \subseteq known
  OBVIOUS
<1> HIDE DEF top
<1>3. top # {} => (CHOOSE p \in top : TRUE) \in top
  OBVIOUS
<1>4. QED
  BY <1>1, <1>2, <1>3

\* A handler is attributed to a provider, to several or to none.
LEMMA ProviderRange == ASSUME NEW h PROVE Provider(h) \in Attributions
<1> DEFINE known == Providers \cup {"unknown"}
           ev == PreCfg(h)
           specific == {x \in ev : ~IsGenericPrimitive(x)}
<1>1. \A x \in EvidenceOf(h) : x.provider \in known
  BY ProvidersOfEvidence
<1>2. TextEvidence(h) \subseteq EvidenceOf(h) /\ specific \subseteq EvidenceOf(h)
  BY DEF EvidenceOf, PreCfg
<1>3. RecomputeProvider(ev, BaseProvider(h)) = MostCited(specific, BaseProvider(h))
  BY DEF RecomputeProvider
<1>4. BaseProvider(h) = MostCited(TextEvidence(h), "unknown")
  BY DEF BaseProvider
<1>5. Provider(h) \in {"n8n", "unknown", RecomputeProvider(ev, BaseProvider(h))}
  BY DEF Provider
<1> HIDE DEF ev, specific, known
<1>6. BaseProvider(h) \in known \cup {"multiple", "unknown"}
  BY <1>1, <1>2, <1>4, MostCitedRange
<1>7. RecomputeProvider(ev, BaseProvider(h)) \in known \cup {"multiple", BaseProvider(h)}
  BY <1>1, <1>2, <1>3, MostCitedRange
<1>8. "n8n" \in Providers
  BY DEF Providers, Catalog
<1>9. QED
  BY <1>5, <1>6, <1>7, <1>8 DEF known, Attributions

\* A report holds verdicts, on rules there are.
LEMMA ReportTypes ==
  ASSUME NEW h, NEW e, NEW p
  PROVE  /\ Report(h, e, p).state \in Verdicts
         /\ Report(h, e, p).findings \subseteq [kind : Kinded, state : Verdicts]
<1> DEFINE found == FindingsOf(h, e, p)
           states == {f.state : f \in found}
           shown == Report(h, e, p).findings
<1>1. \A v \in Verdicts : Downgrade(v, e) \in Verdicts
  BY DEF Downgrade, Verdicts
<1>2. states \subseteq Verdicts
  BY FoundRange
<1>3. Report(h, e, p).state \in Verdicts
  <2>1. Report(h, e, p).state =
          Downgrade(IF found = {} THEN "manual-review" ELSE Worst(states), e)
    BY ReportFields
  <2>2. found # {} => states # {}
    OBVIOUS
  <2> HIDE DEF found, states
  <2>3. found # {} => Worst(states) \in Verdicts
    BY <1>2, <2>2, WorstIsWorst
  <2>4. QED
    BY <1>1, <2>1, <2>3 DEF Verdicts
<1>4. \A f \in found : f = [kind |-> f.kind, state |-> f.state] /\ f.kind \in Kinded
  BY DEF FindingsOf, Kinded
<1>5. \A f \in found : f.state \in Verdicts
  BY FoundRange
<1>6. \A f : f = [kind |-> f.kind, state |-> f.state]
         => Softened(f, e) = [kind |-> f.kind, state |-> Downgrade(f.state, e)]
  BY DEF Softened
<1>7. \A x : x \in shown <=> \E f \in found : x = Softened(f, e)
  BY DEF Report, Softened
<1> HIDE DEF found, shown
<1>8. \A x \in shown : x \in [kind : Kinded, state : Verdicts]
  BY <1>1, <1>4, <1>5, <1>6, <1>7
<1>9. QED
  BY <1>3, <1>8 DEF shown

\* What the history does not tell.
Sorted ==
  /\ change \in Changes
  /\ provider \in Attributions
  /\ \A e \in evidence : e.provider \in Attributions \ {"multiple"}
  /\ Len(scans) <= MaxScans
  /\ phase # "reported" => Len(scans) < MaxScans

\* Every step keeps it.
LEMMA SortedStep == ASSUME Inv, Sorted, [Next]_vars PROVE Sorted'
<1>1. Providers \cup {"unknown"} \subseteq Attributions \ {"multiple"}
  BY DEF Attributions, Providers, Catalog
<1>2. scans \in Seq(Range(scans)) /\ Len(scans) \in Nat
  BY DEF Inv, History
<1>3. \A e \in EvidenceOf(source) : e.provider \in Attributions \ {"multiple"}
  BY <1>1, ProvidersOfEvidence
<1>4. CASE Assemble
  BY <1>3, <1>4, ProviderRange DEF Assemble, EvidenceOf, Sorted
<1>5. CASE OrderCalls
  <2>1. evidence' = EvidenceOf(source)
    BY <1>5 DEF OrderCalls, Inv, Now, EvidenceOf
  <2>2. QED
    BY <1>3, <1>5, <2>1 DEF OrderCalls, Sorted
<1>6. CASE Evaluate
  <2>1. Len(scans') = Len(scans) + 1
    BY <1>2, <1>6 DEF Evaluate
  <2>2. QED
    BY <1>2, <1>6, <2>1, MaxScansAssumption DEF Evaluate, Sorted
<1>7. ASSUME NEW how \in Changes, NEW h, Rewrite(how, h) PROVE Sorted'
  BY <1>7 DEF Rewrite, Sorted, Attributions
<1>8. CASE Fix
  <2>1. PICK f : Offers(f.kind, source, Last(scans).report.provider) /\ Rewrite(f.kind, Fixed(f.kind, source))
    BY <1>8 DEF Fix
  <2>2. f.kind \in Changes
    BY <2>1, Offered DEF Changes
  <2>3. QED
    BY <1>7, <2>1, <2>2
<1>9. CASE Unverify
  BY <1>7, <1>9 DEF Unverify, Changes
<1>10. CASE UNCHANGED vars
  BY <1>10 DEF vars, Sorted
<1>11. QED
  BY <1>4, <1>5, <1>6, <1>8, <1>9, <1>10 DEF Next

\* Every variable of a scan keeps its type.
THEOREM TypeCorrect == Spec => []TypeOK
<1>1. Init => Sorted
  BY MaxScansAssumption DEF Init, Sorted, Changes, Attributions
<1>2. Inv /\ Sorted => TypeOK
  <2> SUFFICES ASSUME Inv, Sorted PROVE TypeOK
    OBVIOUS
  <2>1. ASSUME NEW i \in DOMAIN scans
        PROVE  /\ scans[i].report.provider \in Attributions
               /\ scans[i].report.state \in Verdicts
               /\ scans[i].report.findings \subseteq [kind : Kinded, state : Verdicts]
    <3>1. PICK h, e, p : /\ h = scans[i].source /\ e = EvidenceOf(h) /\ p = Provider(h)
                         /\ scans[i].report = Report(h, e, p)
      BY DEF Inv, History, Own
    <3>2. Report(h, e, p).provider = p
      BY DEF Report
    <3>3. p \in Attributions
      BY <3>1, ProviderRange
    <3>4. QED
      BY <3>1, <3>2, <3>3, ReportTypes
  <2>2. QED
    BY <2>1 DEF Inv, Now, Sorted, TypeOK
<1>3. QED
  BY <1>1, <1>2, Invariance, SortedStep, PTL DEF Spec

-----------------------------------------------------------------------------
\* Nothing but a call blesses.

\* Only the rule for the provider's own verification says verified.
LEMMA OnlyLibrary ==
  ASSUME NEW h, NEW e, NEW p, NEW kind \in DOMAIN Kinds, Verdict(kind, h, e, p) = "verified"
  PROVE  kind = "library"
<1> DEFINE doubts == {"manual-review", "not-verified", Silent}
<1>1. /\ MissingInPhp(h, e, p) \in doubts /\ MissingByDefault(h, e, p) \in doubts
      /\ MissingTwilio(h) \in doubts /\ MissingHubspot(h, e) \in doubts
      /\ MissingNotion(h, e) \in doubts /\ MissingMailchimp(h, e) \in doubts
      /\ MissingPostmark(h, e) \in doubts /\ MissingPaypal(h, e) \in doubts
      /\ MissingStandard(h, e) \in doubts
  BY DEF MissingInPhp, MissingStandard, MissingPaypal, MissingTwilio, MissingHubspot,
         MissingNotion, MissingMailchimp, MissingPostmark, MissingByDefault, Doubt, NotVerified
<1>2. MissingSignature(h, e, p) \in doubts /\ Unreachable(h, e, p) \in doubts
  BY <1>1 DEF MissingSignature, Unreachable, Doubt, NotVerified, Review
<1>3. TimingGithub(h, e) \in doubts /\ TimingUnsafe(h, e, p) \in doubts
  BY DEF TimingGithub, TimingUnsafe, TimingInPhp, TimingInGo, TimingByReach, Doubt, NotVerified
<1>4. RawBodyMisuse(h, e, p) \in doubts /\ MissingTimestamp(h, p) \in doubts
  BY DEF RawBodyMisuse, MissingTimestamp, Doubt, Review
<1>5. WrongAlgorithm(h, p) \in doubts /\ VerifyAfter(h, e, p) \in doubts
  BY DEF WrongAlgorithm, VerifyAfter, Doubt, Review
<1>6. TestModeBypass(h, p) \in doubts /\ ErrorSwallowed(h, p) \in doubts
  BY DEF TestModeBypass, ErrorSwallowed, Doubt, NotVerified
<1>7. SecretInLog(h) \in doubts /\ ReplayWindow(h, p) \in doubts
  BY DEF SecretInLog, ReplayWindow, Doubt
<1>8. /\ HeaderOnly(h, e) \in doubts /\ PrefixKept(h, e) \in doubts /\ OneOfMany(h) \in doubts
      /\ HeaderConfusion(h, e) \in doubts
  BY DEF HeaderOnly, PrefixKept, OneOfMany, HeaderConfusion, Doubt, Review
<1>9. "verified" \notin doubts
  BY DEF Silent
<1>10. CASE kind \in {"emptySecret", "ordering", "octokit", "trigger"}
  BY <1>10 DEF Verdict, Silent, Doubt, NotVerified
<1>11. CASE kind \in {"urlSecret", "basicAuth", "ipList"}
  BY <1>11 DEF Verdict, Silent, Doubt, Review
<1>12. CASE kind \in {"missing", "unreachable", "timing", "rawBody", "timestamp", "algorithm",
                     "after", "bypass", "swallowed", "inLog", "replay",
                     "headerOnly", "prefix", "rotation", "confusion"}
  <2> HIDE DEF doubts
  <2>1. QED
    BY <1>12, <1>2, <1>3, <1>4, <1>5, <1>6, <1>7, <1>8, <1>9 DEF Verdict
<1>13. QED
  BY <1>10, <1>11, <1>12 DEF Kinds

\* So a report says verified only where that rule does.
LEMMA SomeSaysVerified ==
  ASSUME NEW h, NEW e, NEW p, Report(h, e, p).state = "verified"
  PROVE  p \in Kinds["library"] /\ LibraryVerified(h, e, p) = "verified"
<1> DEFINE found == FindingsOf(h, e, p)
           states == {f.state : f \in found}
<1>1. Report(h, e, p).state =
        Downgrade(IF found = {} THEN "manual-review" ELSE Worst(states), e)
  BY ReportFields
<1>2. states \subseteq Verdicts /\ (found # {} => states # {})
  BY FoundRange
<1>3. \A v : Downgrade(v, e) = "verified" => v = "verified"
  BY DEF Downgrade
<1>4. PICK f \in found : f.state = "verified"
  <2>1. \A v : v \in states <=> \E f \in found : v = f.state
    OBVIOUS
  <2> HIDE DEF found, states
  <2>2. found # {} /\ Worst(states) = "verified"
    BY <1>1, <1>3
  <2>3. "verified" \in states
    BY <1>2, <2>2, WorstIsWorst
  <2>4. QED
    BY <2>1, <2>3
<1>5. PICK kind \in DOMAIN Kinds : p \in Kinds[kind] /\ Verdict(kind, h, e, p) = "verified"
  BY <1>4 DEF FindingsOf
<1>6. kind = "library"
  BY <1>5, OnlyLibrary
<1>7. QED
  BY <1>5, <1>6 DEF Verdict

\* The other verifications, for the one provider that has some.
LEMMA AsymmetricNames ==
  \A p \in Providers : \A v \in Catalog[p].asymmetric :
    Len(v) \in 1..4 /\ Last(v) \notin Primitives
<1>1. \A v \in Discord.asymmetric : v \in Discord.verify \/ v = <<"sodium_crypto_sign_verify_detached">>
  BY DEF Discord, Plain
<1>2. \A v \in Discord.verify : Len(v) \in 1..4 /\ Last(v) \notin Primitives
  <2>1. Catalog["discord"] = Discord /\ "discord" \in Providers
    BY DEF Catalog, Providers
  <2>2. QED
    BY <2>1, NamedCalls DEF Named, NoPrimitive, Primitives
<1>3. ASSUME NEW v, v = <<"sodium_crypto_sign_verify_detached">>
      PROVE  Len(v) \in 1..4 /\ Last(v) \notin Primitives
  <2>1. Len(v) = 1 /\ v[1] = "sodium_crypto_sign_verify_detached"
    BY <1>3
  <2>2. QED
    BY <2>1 DEF Last, Primitives
<1>4. \A v \in Discord.asymmetric : Len(v) \in 1..4 /\ Last(v) \notin Primitives
  BY <1>1, <1>2, <1>3
<1>5. \A p \in Providers \ {"discord"} : Catalog[p].asymmetric = {}
  <2>1. /\ Stripe.asymmetric = {}
       /\ Github.asymmetric = {}
       /\ N8n.asymmetric = {}
       /\ Anthropic.asymmetric = {}
       /\ Shopify.asymmetric = {}
    BY DEF Plain, Stripe, Github, N8n, Anthropic, Shopify
  <2>2. /\ Slack.asymmetric = {}
       /\ Square.asymmetric = {}
       /\ Twilio.asymmetric = {}
       /\ Standardwebhooks.asymmetric = {}
       /\ Postmark.asymmetric = {}
    BY DEF Plain, Slack, Square, Twilio, Standardwebhooks, Postmark
  <2>3. /\ Mailchimp.asymmetric = {}
       /\ Hubspot.asymmetric = {}
       /\ Auth0.asymmetric = {}
       /\ Docusign.asymmetric = {}
       /\ Linear.asymmetric = {}
    BY DEF Plain, Mailchimp, Hubspot, Auth0, Docusign, Linear
  <2>4. /\ Intercom.asymmetric = {}
       /\ Zoom.asymmetric = {}
       /\ Calendly.asymmetric = {}
       /\ Notion.asymmetric = {}
       /\ Bitbucket.asymmetric = {}
    BY DEF Plain, Intercom, Zoom, Calendly, Notion, Bitbucket
  <2>5. /\ Pagerduty.asymmetric = {}
       /\ Sentry.asymmetric = {}
       /\ Zendesk.asymmetric = {}
       /\ Nmi.asymmetric = {}
       /\ Braintree.asymmetric = {}
    BY DEF Plain, Pagerduty, Sentry, Zendesk, Nmi, Braintree
  <2>6. /\ Paypal.asymmetric = {}
    BY DEF Plain, Paypal
  <2>7. QED
    BY <2>1, <2>2, <2>3, <2>4, <2>5, <2>6 DEF Providers, Catalog
<1>6. Catalog["discord"] = Discord
  BY DEF Catalog
<1>7. QED
  BY <1>4, <1>5, <1>6

\* What a handler that calls no SDK has evidence of.
LEMMA NoSdkCalls ==
  ASSUME NEW h, CallsNoSdk(h), NEW p \in Providers, NEW x \in VerifyCalls(h), x.provider = p
  PROVE  p \in {"n8n", "anthropic", "nmi"}
<1>1. \A v \in Catalog[p].verify : Last(v) \in Primitives => p \in {"n8n", "anthropic", "nmi"}
  BY NamedCalls DEF Named, NoPrimitive, Primitives
<1>2. CASE x \in SdkVerifyCalls(h)
  <2>1. PICK q \in Providers : \E v \in Catalog[q].verify, s \in h.reach :
          /\ x = [kind |-> "sdk_verify_call", provider |-> q, detail |-> v, where |-> "reach"]
          /\ NamesCall(s.name, v)
    BY <1>2, SdkCallsAre
  <2>2. \E v \in Catalog[p].verify, s \in h.reach : NamesCall(s.name, v)
    BY <2>1
  <2>3. QED
    BY <1>1, <2>2 DEF CallsNoSdk
<1>3. CASE x \in InlineVerifyCalls(h)
  <2> DEFINE calls(i, q) == {v \in Catalog[q].verify : \E c \in h.args[i].calls : NamesCall(c, v)}
             signals(i, q) == {[kind |-> "sdk_verify_call", provider |-> q, detail |-> d, where |-> i] :
                                 d \in calls(i, q)}
             inline == {j \in DOMAIN h.args : h.args[j].name = <<>>}
  <2>1. InlineVerifyCalls(h) = {} \/
          InlineVerifyCalls(h) = UNION {UNION {signals(i, q) : q \in Providers} : i \in inline}
    BY DEF InlineVerifyCalls, Signals
  <2>2. \A i, q : \A y \in signals(i, q) : y.provider = q /\ calls(i, q) # {}
    OBVIOUS
  <2>3. PICK i \in inline : calls(i, p) # {}
    <3> HIDE DEF signals, calls, inline
    <3>1. PICK i \in inline : \E q \in Providers : x \in signals(i, q)
      BY <1>3, <2>1
    <3>2. QED
      BY <2>2, <3>1
  <2>4. PICK v \in Catalog[p].verify : \E c \in h.args[i].calls : NamesCall(c, v)
    BY <2>3
  <2>5. i \in DOMAIN h.args
    OBVIOUS
  <2>6. QED
    BY <1>1, <2>4, <2>5 DEF CallsNoSdk
<1>4. CASE x \in PhpVerifyCalls(h)
  <2>1. \A q \in Providers : \A v \in Catalog[q].statics :
          /\ ~\E c \in h.statics : Includes(v, c)
          /\ Last(v) \notin h.methods
    BY DEF CallsNoSdk
  <2>2. PhpVerifyCalls(h) = {}
    BY <2>1 DEF PhpVerifyCalls, Signals
  <2>3. QED
    BY <1>4, <2>2
<1>5. CASE x \in GoVerifyCalls(h)
  <2>1. Exported \cap h.methods = {} /\ "Verify" \notin h.methods
    BY DEF CallsNoSdk
  <2>2. GoVerifyCalls(h) = {}
    BY <2>1 DEF GoVerifyCalls, Signals
  <2>3. QED
    BY <1>5, <2>2
<1>6. QED
  BY <1>2, <1>3, <1>4, <1>5 DEF VerifyCalls

\* So its rule does not say verified.
LEMMA NoCallNoBlessing ==
  ASSUME NEW h, CallsNoSdk(h), NEW p \in Kinds["library"]
  PROVE  LibraryVerified(h, EvidenceOf(h), p) # "verified"
<1>1. p \in Providers /\ p \notin {"n8n", "anthropic", "nmi"}
  BY DEF Kinds, LibraryFor, FirstPacks, Providers, Catalog
<1>2. ~SdkEvidence(EvidenceOf(h), p)
  <2>1. ~\E x \in VerifyCalls(h) : x.provider = p
    BY <1>1, NoSdkCalls
  <2>2. QED
    BY <2>1, EvidenceByKind DEF SdkEvidence, Evidenced
<1>3. ~\E s \in h.reach : \E v \in Catalog[p].verify : NamesCall(s.name, v)
  <2>1. \A v \in Catalog[p].verify : Last(v) \notin Primitives
    BY <1>1, NamedCalls DEF Named, NoPrimitive, Primitives
  <2>2. QED
    BY <1>1, <2>1 DEF CallsNoSdk
<1>4. p = "discord" => ~\E s \in h.reach : \E v \in Catalog["discord"].asymmetric : NamesCall(s.name, v)
  <2>1. \A v \in Catalog[p].asymmetric : Last(v) \notin Primitives
    BY <1>1, AsymmetricNames
  <2>2. QED
    BY <1>1, <2>1 DEF CallsNoSdk
<1>5. p = "discord" => ~Ed25519(h, EvidenceOf(h))
  BY <1>2, <1>4 DEF Ed25519, CallsNoSdk
<1>6. p = "paypal" => PaypalClass(h, EvidenceOf(h)) # "checked"
  BY <1>2, <1>3 DEF PaypalClass, CallsNoSdk
<1>7. QED
  BY <1>2, <1>3, <1>5, <1>6 DEF LibraryVerified, Silent

\* Without its verification, a handler does none.
LEMMA UnverifiedIsTruthful == ASSUME NEW h, IsHandler(h) PROVE Truthful(Unverified(h))
<1> DEFINE g == Unverified(h)
<1>1. /\ g.reach = {} /\ g.statics = {} /\ g.methods = {} /\ g.own = {}
      /\ \A i \in DOMAIN g.args : g.args[i].calls = {}
  BY WhatIsLeft
<1>2. g.truth = "nothing"
  BY DEF Unverified, IsHandler, Fields
<1> HIDE DEF g
<1>3. CallsNoSdk(g)
  BY <1>1 DEF CallsNoSdk
<1>4. QED
  BY <1>2, <1>3 DEF Truthful, g

\* An edit makes a handler no more of one that calls an SDK, and no less.
LEMMA EditedIsTruthful ==
  ASSUME NEW h, NEW g, Edited(h, g), Provider(h) \in Providers, Truthful(h)
  PROVE  Truthful(g)
<1> DEFINE p == Provider(h)
<1>1. /\ g.truth = h.truth /\ g.args = h.args /\ g.statics = h.statics /\ g.methods = h.methods
      /\ g.namespaces = h.namespaces /\ g.imports = h.imports /\ g.dialect = h.dialect
      /\ g.near = h.near
  BY DEF Edited, Fields
<1>2. /\ g.reach \subseteq h.reach \cup Inserted(h) /\ g.own \subseteq h.own \cup InsertedOwn(h)
      /\ h.reach \subseteq g.reach /\ h.own \subseteq g.own
  BY DEF Edited
<1>3. InsertedOwn(h) \subseteq {"hash_equals", "hmac.Equal"}
  BY DEF InsertedOwn
<1>4. ASSUME NEW s \in Inserted(h), NEW q \in Providers,
             NEW v \in Catalog[q].verify \cup Catalog[q].asymmetric, NamesCall(s.name, v)
      PROVE  Last(v) \in Primitives
  <2>1. Len(v) \in 1..4
    BY NamedCalls, AsymmetricNames DEF Named
  <2>2. s.name \in {<<"crypto", "timingSafeEqual">>, <<"hmac", "compare_digest">>}
    BY InsertedNames
  <2>3. QED
    BY <1>4, <2>1, <2>2, LastNamed DEF Primitives
<1>5. CallsNoSdk(h) => CallsNoSdk(g)
  BY <1>1, <1>2, <1>3, <1>4 DEF CallsNoSdk
<1>6. Provider(g) = p /\ p # "unknown"
  <2>1. p # "unknown"
    BY DEF Providers, Catalog
  <2>2. QED
    BY <2>1, SameProvider
<1>7. /\ Hmac(g) <=> Hmac(h)
      /\ "hmac.New" \in g.own \cup g.near <=> "hmac.New" \in h.own \cup h.near
  BY EditsShow DEF Judged
<1>8. CallsSdk(h, p) => CallsSdk(g, p)
  <2> SUFFICES ASSUME CallsSdk(h, p) PROVE CallsSdk(g, p)
    OBVIOUS
  <2> HIDE DEF p
  <2>1. QED
    BY <1>1, <1>2, <1>7 DEF CallsSdk
<1>9. ComparesSafely(h) => ComparesSafely(g)
  BY <1>1, <1>2, <1>7 DEF ComparesSafely
<1>10. QED
  BY <1>1, <1>5, <1>6, <1>8, <1>9 DEF Truthful

\* What changes a handler leaves the truth about it true.
LEMMA StillTruthful ==
  ASSUME NEW scan, NEW how, NEW g, Changed(scan, how, g),
         Own(scan), IsHandler(scan.source), Truthful(scan.source)
  PROVE  Truthful(g)
<1> DEFINE h == scan.source
<1>1. CASE g = Unverified(h)
  BY <1>1, UnverifiedIsTruthful
<1>2. CASE g = Fixed(how, h) /\ Offers(how, h, scan.report.provider)
  <2>1. Edited(h, g)
    BY <1>2, FixEdits
  <2>2. scan.report.provider = Provider(h)
    BY DEF Own, Report
  <2>3. Provider(h) \in Providers
    BY <1>2, <2>2, OfferedTo
  <2>4. QED
    BY <2>1, <2>3, EditedIsTruthful
<1>3. QED
  BY <1>1, <1>2 DEF Changed

\* Every handler that was scanned tells the truth.
Honest ==
  /\ Truthful(source)
  /\ \A i \in DOMAIN scans : Truthful(scans[i].source)

\* Every step keeps the truth.
LEMMA HonestStep == ASSUME Inv, Honest, [Next]_vars PROVE Honest'
<1>1. scans \in Seq(Range(scans))
  BY DEF Inv, History
<1>2. CASE Evaluate
  <2> DEFINE scan == [source |-> source, change |-> change, report |-> Report(source, evidence, provider)]
  <2>1. scans' = Append(scans, scan) /\ source' = source
    BY <1>2 DEF Evaluate
  <2>2. scan.source = source
    OBVIOUS
  <2> HIDE DEF scan
  <2>3. \A i \in DOMAIN scans' : scans'[i] = scan \/ (i \in DOMAIN scans /\ scans'[i] = scans[i])
    BY <1>1, <2>1
  <2>4. QED
    BY <2>1, <2>2, <2>3 DEF Honest
<1>3. ASSUME NEW how, NEW h, Rewrite(how, h), Changed(Last(scans), how, h) PROVE Honest'
  <2>1. Last(scans) = scans[Len(scans)] /\ Len(scans) \in DOMAIN scans
    BY <1>1, <1>3 DEF Rewrite, Inv, Now, Last
  <2>2. Truthful(h)
    BY <1>3, <2>1, StillTruthful DEF Inv, History, Honest
  <2>3. QED
    BY <1>3, <2>2 DEF Rewrite, Honest
<1>4. CASE Fix
  <2>1. PICK f \in Last(scans).report.findings :
          Offers(f.kind, source, Last(scans).report.provider) /\ Rewrite(f.kind, Fixed(f.kind, source))
    BY <1>4 DEF Fix
  <2>2. Last(scans).source = source
    BY <2>1 DEF Inv, Now, Rewrite
  <2>3. QED
    BY <1>3, <2>1, <2>2 DEF Changed
<1>5. CASE Unverify
  <2>1. /\ Last(scans).source = source /\ source.truth # "nothing"
        /\ Rewrite("removed", Unverified(source))
    BY <1>5 DEF Inv, Now, Unverify, Rewrite
  <2>2. QED
    BY <1>3, <2>1 DEF Changed
<1>6. CASE Assemble \/ OrderCalls \/ UNCHANGED vars
  BY <1>6 DEF Assemble, OrderCalls, vars, Honest
<1>7. QED
  BY <1>2, <1>4, <1>5, <1>6 DEF Next

\* Nothing but a call of a verification gets a handler the verdict "verified": no
\* path, import, variable, header or literal, no queue and no order of calls.
THEOREM Blessing == Spec => []NeverBlessed
<1>1. Init => Honest
  BY TruthAssumption DEF Init, Honest
<1>2. Inv /\ Honest => NeverBlessed
  <2> SUFFICES ASSUME Inv, Honest, phase = "reported", Latest.report.state = "verified",
                      Latest.source.truth \in {"nothing", "leaky"}
               PROVE  FALSE
    BY DEF NeverBlessed
  <2>1. PICK h, e, p : h = Latest.source /\ e = EvidenceOf(h) /\ p = Provider(h)
    OBVIOUS
  <2>2. /\ Latest.report = Report(h, e, p) /\ Latest = scans[Len(scans)]
        /\ Len(scans) \in DOMAIN scans
    BY <2>1, Reported
  <2>3. CallsNoSdk(h)
    BY <2>1, <2>2 DEF Honest, Truthful
  <2>4. p \in Kinds["library"] /\ LibraryVerified(h, e, p) = "verified"
    BY <2>2, SomeSaysVerified
  <2>5. QED
    BY <2>1, <2>3, <2>4, NoCallNoBlessing
<1>3. QED
  BY <1>1, <1>2, Invariance, HonestStep, PTL DEF Spec

-----------------------------------------------------------------------------
\* Whoever verifies is not accused.

\* A call of the provider's own, found by the engine in the handler's reach, is
\* known to the rules as one.
LEMMA ReachedIsKnown ==
  ASSUME NEW h, NEW p \in Providers, NEW s \in h.reach, NEW v \in Catalog[p].verify,
         s.from \in Catalog[p].packages \cup {Nowhere}, NamesCall(s.name, v)
  PROVE  SdkReached(h, p) /\ SdkEvidence(EvidenceOf(h), p)
<1> DEFINE x == [kind |-> "sdk_verify_call", provider |-> p, detail |-> v, where |-> "reach"]
<1>1. ~IsForeignBareCall(s, p)
  BY DEF IsForeignBareCall
<1>2. x \in SdkVerifyCalls(h)
  BY <1>1, SdkCallsAre
<1>3. x.provider = p
  OBVIOUS
<1> HIDE DEF x
<1>4. SdkEvidence(EvidenceOf(h), p)
  BY <1>2, <1>3, EvidencedOf DEF VerifyCalls
<1>5. QED
  BY <1>4 DEF SdkReached

\* So is one in a middleware written in place.
LEMMA InlineIsKnown ==
  ASSUME NEW h, h.dialect = "js", NEW p \in Providers, NEW i \in DOMAIN h.args, h.args[i].name = <<>>,
         NEW c \in h.args[i].calls, NEW v \in Catalog[p].verify, NamesCall(c, v)
  PROVE  SdkEvidence(EvidenceOf(h), p)
<1> DEFINE x == [kind |-> "sdk_verify_call", provider |-> p, detail |-> v, where |-> i]
           calls(j, q) == {w \in Catalog[q].verify : \E b \in h.args[j].calls : NamesCall(b, w)}
           signals(j, q) == {[kind |-> "sdk_verify_call", provider |-> q, detail |-> d, where |-> j] :
                               d \in calls(j, q)}
           inline == {j \in DOMAIN h.args : h.args[j].name = <<>>}
<1>1. InlineVerifyCalls(h) = UNION {UNION {signals(j, q) : q \in Providers} : j \in inline}
  BY DEF InlineVerifyCalls, Signals
<1>2. x \in signals(i, p) /\ i \in inline /\ x.provider = p
  OBVIOUS
<1> HIDE DEF signals, inline, x
<1>3. x \in InlineVerifyCalls(h)
  BY <1>1, <1>2
<1>4. QED
  BY <1>2, <1>3, EvidencedOf DEF VerifyCalls

\* So is one of a class in PHP.
LEMMA PhpIsKnown ==
  ASSUME NEW h, h.dialect = "php", NEW p \in Providers, NEW v \in Catalog[p].statics,
         \/ \E c \in h.statics : Includes(v, c)
         \/ Last(v) \in h.methods /\ \E i \in h.namespaces : IsPrefix(Front(v), i)
  PROVE  SdkEvidence(EvidenceOf(h), p)
<1> DEFINE x == [kind |-> "sdk_verify_call", provider |-> p, detail |-> v, where |-> "php"]
           calls(q) == {w \in Catalog[q].statics :
                          \/ \E c \in h.statics : Includes(w, c)
                          \/ /\ \E i \in h.namespaces : IsPrefix(Front(w), i)
                             /\ Last(w) \in h.methods}
           signals(q) == {[kind |-> "sdk_verify_call", provider |-> q, detail |-> d, where |-> "php"] :
                            d \in calls(q)}
<1>1. PhpVerifyCalls(h) = UNION {signals(q) : q \in Providers}
  BY DEF PhpVerifyCalls, Signals
<1>2. x \in signals(p) /\ x.provider = p
  OBVIOUS
<1> HIDE DEF signals, x
<1>3. x \in PhpVerifyCalls(h)
  BY <1>1, <1>2
<1>4. QED
  BY <1>2, <1>3, EvidencedOf DEF VerifyCalls

\* So is one of an imported module in Go.
LEMMA GoIsKnown ==
  ASSUME NEW h, h.dialect = "go", NEW p \in Providers, NEW v \in Catalog[p].verify,
         Len(v) > 1, Last(v) \in Exported \cap h.methods, Catalog[p].modules \cap h.imports # {}
  PROVE  SdkEvidence(EvidenceOf(h), p)
<1> DEFINE x == [kind |-> "sdk_verify_call", provider |-> p, detail |-> v, where |-> "go"]
           calls(q) == IF Catalog[q].modules \cap h.imports = {} THEN {}
                       ELSE {w \in Catalog[q].verify : Len(w) > 1 /\ Last(w) \in Exported \cap h.methods}
                              \cup {w \in {<<"Verify">>} : q = "standardwebhooks" /\ "Verify" \in h.methods}
           signals(q) == {[kind |-> "sdk_verify_call", provider |-> q, detail |-> d, where |-> "go"] :
                            d \in calls(q)}
<1>1. GoVerifyCalls(h) = UNION {signals(q) : q \in Providers}
  BY DEF GoVerifyCalls, Signals
<1>2. v \in calls(p)
  OBVIOUS
<1>3. x \in signals(p) /\ x.provider = p
  BY <1>2
<1> HIDE DEF signals, x
<1>4. x \in GoVerifyCalls(h)
  BY <1>1, <1>3
<1>5. QED
  BY <1>3, <1>4, EvidencedOf DEF VerifyCalls

\* What the rules know of a handler that calls its provider's SDK: the call, or
\* at least that there is no MAC.
LEMMA SdkIsKnown ==
  ASSUME NEW h, NEW p \in Providers, CallsSdk(h, p), NEW e, e = EvidenceOf(h)
  PROVE  \/ SdkReached(h, p) /\ SdkEvidence(e, p)
         \/ h.dialect = "js" /\ SdkEvidence(e, p) /\ ~Hmac(h)
         \/ h.dialect = "php" /\ SdkEvidence(e, p)
         \/ h.dialect = "go" /\ (SdkEvidence(e, p) \/ "hmac.New" \notin Judged(h))
<1>1. CASE \E s \in h.reach, v \in Catalog[p].verify :
             s.from \in Catalog[p].packages \cup {Nowhere} /\ NamesCall(s.name, v)
  BY <1>1, ReachedIsKnown
<1>2. CASE /\ h.dialect = "js" /\ ~Hmac(h)
           /\ \E i \in DOMAIN h.args : \E c \in h.args[i].calls, v \in Catalog[p].verify :
                h.args[i].name = <<>> /\ NamesCall(c, v)
  BY <1>2, InlineIsKnown
<1>3. CASE /\ h.dialect = "php"
           /\ \E v \in Catalog[p].statics :
                \/ \E c \in h.statics : Includes(v, c)
                \/ Last(v) \in h.methods /\ \E i \in h.namespaces : IsPrefix(Front(v), i)
  BY <1>3, PhpIsKnown
<1>4. CASE /\ h.dialect = "go"
           /\ \E v \in Catalog[p].verify : Len(v) > 1 /\ Last(v) \in Exported \cap h.methods
           /\ "hmac.New" \in h.own \cup h.near => Catalog[p].modules \cap h.imports # {}
  <2>1. CASE "hmac.New" \in h.own \cup h.near
    BY <1>4, <2>1, GoIsKnown
  <2>2. CASE "hmac.New" \notin h.own \cup h.near
    BY <1>4, <2>2 DEF Judged
  <2>3. QED
    BY <2>1, <2>2
<1>5. QED
  BY <1>1, <1>2, <1>3, <1>4 DEF CallsSdk

Accuses(v) == v = "not-verified"
\* Who is not accused.
LEMMA Accusations ==
  /\ \A fires \in BOOLEAN, excused \in BOOLEAN : Accuses(Doubt(fires, excused)) <=> fires /\ ~excused
  /\ \A fires \in BOOLEAN : Accuses(NotVerified(fires)) <=> fires
  /\ \A fires \in BOOLEAN : ~Accuses(Review(fires))
BY DEF Accuses, Doubt, NotVerified, Review, Silent

\* The rules for missing verification know every SDK, but for Notion's and, in
\* a middleware written in place, Twilio's.
LEMMA SdkIsNotMissed ==
  ASSUME NEW h, NEW e, NEW p, SdkEvidence(e, p), p \notin {"notion", "twilio"}
  PROVE  ~Accuses(MissingSignature(h, e, p))
<1>1. ~Accuses(MissingInPhp(h, e, p)) /\ ~Accuses(MissingByDefault(h, e, p))
  BY Accusations DEF MissingInPhp, MissingByDefault
<1>2. p = "hubspot" => ~Accuses(MissingHubspot(h, e))
  BY Accusations DEF MissingHubspot
<1>3. p = "mailchimp" => ~Accuses(MissingMailchimp(h, e))
  BY Accusations DEF MissingMailchimp
<1>4. p = "postmark" => ~Accuses(MissingPostmark(h, e))
  BY Accusations DEF MissingPostmark
<1>5. p = "standardwebhooks" => ~Accuses(MissingStandard(h, e))
  BY DEF MissingStandard, Accuses, Silent
<1>6. p = "discord" => ~Accuses(NotVerified(~Ed25519(h, e)))
  BY Accusations DEF Ed25519
<1>7. p = "paypal" => ~Accuses(MissingPaypal(h, e))
  <2>1. p = "paypal" => PaypalClass(h, e) \in {"checked", "unchecked"}
    BY DEF PaypalClass
  <2>2. QED
    BY <2>1, Accusations DEF MissingPaypal
<1>8. QED
  BY <1>1, <1>2, <1>3, <1>4, <1>5, <1>6, <1>7 DEF MissingSignature

\* They know every MAC that is compared in constant time, where a MAC will do.
LEMMA MacIsNotMissed ==
  ASSUME NEW h, h.dialect # "go", ComparesSafely(h), NEW e, NEW p, p \notin NotByMac
  PROVE  ~Accuses(MissingSignature(h, e, p))
<1>1. p \notin {"discord", "paypal", "postmark"}
  BY DEF NotByMac
<1>2. CASE h.dialect = "php"
  <2>1. {"hash_hmac", "hash_equals"} \subseteq Judged(h)
    BY <1>2 DEF ComparesSafely, Judged
  <2>2. ~Accuses(MissingInPhp(h, e, p))
    BY <2>1, Accusations DEF MissingInPhp
  <2>3. p = "standardwebhooks" => ~Accuses(MissingStandard(h, e))
    BY <1>2, <2>1, Accusations DEF MissingStandard, Accuses, Silent
  <2>4. QED
    BY <1>1, <1>2, <2>2, <2>3 DEF MissingSignature, OwnPhpPath
<1>3. CASE h.dialect # "php"
  <2>1. Hmac(h) /\ ConstantTime(h)
    BY <1>3 DEF ComparesSafely, ConstantTime, Calls
  <2>2. ~Accuses(MissingByDefault(h, e, p)) /\ ~Accuses(MissingTwilio(h)) /\ ~Accuses(MissingHubspot(h, e))
    BY <2>1, Accusations DEF MissingByDefault, MissingTwilio, MissingHubspot
  <2>3. ~Accuses(MissingNotion(h, e)) /\ ~Accuses(MissingMailchimp(h, e))
    BY <2>1, Accusations DEF MissingNotion, MissingMailchimp
  <2>4. ~Accuses(MissingStandard(h, e))
    BY <1>3, <2>1, Accusations DEF MissingStandard, Accuses, Silent, Recognized
  <2>5. QED
    BY <1>1, <1>3, <2>2, <2>3, <2>4 DEF MissingSignature
<1>4. QED
  BY <1>2, <1>3

\* The rules for timing, all but GitHub's, know both.
LEMMA SafeIsNotLeaky ==
  ASSUME NEW h, h.dialect \in {"js", "py", "php", "go"}, NEW e, NEW p,
         \/ SdkReached(h, p) /\ SdkEvidence(e, p)
         \/ h.dialect = "js" /\ ~Hmac(h)
         \/ h.dialect = "php" /\ SdkEvidence(e, p)
         \/ h.dialect = "go" /\ (SdkEvidence(e, p) \/ "hmac.New" \notin Judged(h))
         \/ ComparesSafely(h)
  PROVE  ~Accuses(TimingUnsafe(h, e, p))
<1>1. CASE h.dialect = "php"
  <2>1. SdkEvidence(e, p) \/ "hash_equals" \in Judged(h)
    BY <1>1 DEF ComparesSafely, Judged
  <2>2. ~Accuses(TimingInPhp(h, e, p))
    BY <2>1, Accusations DEF TimingInPhp
  <2>3. QED
    BY <1>1, <2>2 DEF TimingUnsafe
<1>2. CASE h.dialect = "go"
  <2>1. SdkEvidence(e, p) \/ "hmac.New" \notin Judged(h) \/ "hmac.Equal" \in Judged(h)
    BY <1>2 DEF ComparesSafely, Judged
  <2>2. SdkEvidence(e, p) \/ ~Accuses(TimingInGo(h))
    BY <2>1, Accusations DEF TimingInGo
  <2>3. QED
    BY <1>2, <2>2 DEF TimingUnsafe, Accuses, Silent
<1>3. CASE h.dialect \in {"js", "py"}
  <2>1. SdkReached(h, p) \/ ~Hmac(h) \/ ConstantTime(h)
    BY <1>3 DEF ComparesSafely, ConstantTime, Calls
  <2>2. ~Accuses(TimingByReach(h, p))
    BY <2>1, Accusations DEF TimingByReach
  <2>3. QED
    BY <1>3, <2>2 DEF TimingUnsafe
<1>4. QED
  BY <1>1, <1>2, <1>3

\* A finding that says not-verified is that of a rule that does.
LEMMA WhoAccuses ==
  ASSUME NEW h, NEW e, NEW p, NEW kind \in DOMAIN Kinds,
         NEW f \in Report(h, e, p).findings, f.kind = kind, f.state = "not-verified"
  PROVE  p \in Kinds[kind] /\ AppliesTo(kind, p, h) /\ Accuses(Verdict(kind, h, e, p))
<1>0. \A x : x \in Report(h, e, p).findings <=> \E g \in FindingsOf(h, e, p) : x = Softened(g, e)
  BY DEF Report, Softened
<1>1. PICK g \in FindingsOf(h, e, p) : f = Softened(g, e)
  BY <1>0
<1>2. \/ \E k \in DOMAIN Kinds : /\ g = [kind |-> k, state |-> Verdict(k, h, e, p)]
                                 /\ p \in Kinds[k] /\ AppliesTo(k, p, h)
      \/ g = [kind |-> "hardcoded", state |-> "not-verified"]
  BY DEF FindingsOf
<1>3. \A k, v : LET x == Softened([kind |-> k, state |-> v], e)
               IN x.kind = k /\ x.state = Downgrade(v, e)
  BY DEF Softened
<1>4. \A v : Downgrade(v, e) = "not-verified" => v = "not-verified"
  BY DEF Downgrade
<1>5. kind # "hardcoded"
  BY DEF Kinds
<1>6. PICK k \in DOMAIN Kinds : /\ g = [kind |-> k, state |-> Verdict(k, h, e, p)]
                                /\ p \in Kinds[k] /\ AppliesTo(k, p, h)
  BY <1>1, <1>2, <1>3, <1>5
<1>7. k = kind /\ Verdict(k, h, e, p) = "not-verified"
  BY <1>1, <1>3, <1>4, <1>6
<1>8. QED
  BY <1>6, <1>7 DEF Accuses

\* A handler that verifies with its provider's own SDK, or with a MAC compared in
\* constant time, is not told that verification is missing or careless, but by
\* the three rules that are known to accuse such handlers.
THEOREM NoFalseAccusation == Spec => []SafeIsNotAccused
<1>1. Init => Honest
  BY TruthAssumption DEF Init, Honest
<1>2. Inv /\ Honest => SafeIsNotAccused
  <2> SUFFICES ASSUME Inv, Honest, phase = "reported", NEW kind \in {"missing", "timing"},
                      NEW f \in Latest.report.findings, f.kind = kind, f.state = "not-verified",
                      \/ Latest.source.truth = "sdk"
                      \/ Latest.source.truth = "constant" /\ Latest.report.provider \notin NotByMac,
                      <<Latest.report.provider, kind>> \notin KnownAccusations
               PROVE  FALSE
    BY DEF SafeIsNotAccused, Finds
  <2>1. PICK h, e, p : h = Latest.source /\ e = EvidenceOf(h) /\ p = Provider(h)
    OBVIOUS
  <2>2. /\ Latest.report = Report(h, e, p) /\ Latest = scans[Len(scans)]
        /\ Len(scans) \in DOMAIN scans /\ IsHandler(h)
    BY <2>1, Reported
  <2>3. Latest.report.provider = p /\ kind \in DOMAIN Kinds
    <3>1. Latest.report.provider = p
      BY <2>2 DEF Report
    <3>2. kind \in DOMAIN Kinds
      BY DEF Kinds
    <3>3. QED
      BY <3>1, <3>2
  <2>4. p \in Kinds[kind] /\ AppliesTo(kind, p, h) /\ Accuses(Verdict(kind, h, e, p))
    BY <2>2, <2>3, WhoAccuses
  <2>5. p \in Providers
    BY <2>4 DEF Kinds, MissingFor, TimingFor, SdkPacks, FirstPacks, SecondPacks, ThirdPacks, Agents,
       OwnFormats, Providers, Catalog
  <2>6. \/ CallsSdk(h, p)
        \/ ComparesSafely(h) /\ p \notin NotByMac
    BY <2>1, <2>2, <2>3, <2>5 DEF Honest, Truthful
  <2>7. CASE kind = "missing"
    <3>1. p \notin {"notion", "twilio"} /\ h.dialect # "go"
      BY <2>3, <2>4, <2>7 DEF KnownAccusations, AppliesTo, AlsoGo
    <3>2. CallsSdk(h, p) => SdkEvidence(e, p)
      BY <2>1, <2>5, <3>1, SdkIsKnown
    <3>3. ~Accuses(MissingSignature(h, e, p))
      BY <2>6, <3>1, <3>2, SdkIsNotMissed, MacIsNotMissed
    <3>4. QED
      BY <2>4, <2>7, <3>3 DEF Verdict
  <2>8. CASE kind = "timing"
    <3>1. p # "github"
      BY <2>3, <2>8 DEF KnownAccusations
    <3>2. ~Accuses(TimingUnsafe(h, e, p))
      BY <2>1, <2>2, <2>5, <2>6, SdkIsKnown, SafeIsNotLeaky DEF IsHandler
    <3>3. QED
      BY <2>4, <2>8, <3>1, <3>2 DEF Verdict
  <2>9. QED
    BY <2>7, <2>8
<1>3. QED
  BY <1>1, <1>2, Invariance, HonestStep, PTL DEF Spec

-----------------------------------------------------------------------------
\* Whose handler it is, with its verification and without.

\* A set that has one element more than a finite one.
LEMMA OneMore ==
  \A S, T, x : IsFiniteSet(S) /\ (\A y : y \in T <=> y \in S \/ y = x) => IsFiniteSet(T)
<1> TAKE S, T, x
<1> HAVE IsFiniteSet(S) /\ (\A y : y \in T <=> y \in S \/ y = x)
<1>1. T = S \cup {x}
  OBVIOUS
<1>2. QED
  BY <1>1, FS_AddElement

\* Sets that are written out.
LEMMA FewAreFinite ==
  /\ IsFiniteSet({}) /\ \A a : IsFiniteSet({a})
  /\ \A a, b : IsFiniteSet({a, b})
  /\ \A a, b, c : IsFiniteSet({a, b, c})
  /\ \A a, b, c, d : IsFiniteSet({a, b, c, d})
  /\ \A a, b, c, d, e : IsFiniteSet({a, b, c, d, e})
  /\ \A a, b, c, d, e, f : IsFiniteSet({a, b, c, d, e, f})
  /\ \A a, b, c, d, e, f, g : IsFiniteSet({a, b, c, d, e, f, g})
  /\ \A a, b, c, d, e, f, g, h : IsFiniteSet({a, b, c, d, e, f, g, h})
<1>1. IsFiniteSet({}) /\ \A a : IsFiniteSet({a})
  BY FS_EmptySet, FS_Singleton
<1>2. \A a, b : IsFiniteSet({a, b})
  <2> TAKE a, b
  <2>1. IsFiniteSet({a}) /\ \A y : y \in {a, b} <=> y \in {a} \/ y = b
    BY <1>1
  <2>2. QED
    BY <2>1, OneMore
<1>3. \A a, b, c : IsFiniteSet({a, b, c})
  <2> TAKE a, b, c
  <2>1. IsFiniteSet({a, b}) /\ \A y : y \in {a, b, c} <=> y \in {a, b} \/ y = c
    BY <1>2
  <2>2. QED
    BY <2>1, OneMore
<1>4. \A a, b, c, d : IsFiniteSet({a, b, c, d})
  <2> TAKE a, b, c, d
  <2>1. IsFiniteSet({a, b, c}) /\ \A y : y \in {a, b, c, d} <=> y \in {a, b, c} \/ y = d
    BY <1>3
  <2>2. QED
    BY <2>1, OneMore
<1>5. \A a, b, c, d, e : IsFiniteSet({a, b, c, d, e})
  <2> TAKE a, b, c, d, e
  <2>1. IsFiniteSet({a, b, c, d}) /\ \A y : y \in {a, b, c, d, e} <=> y \in {a, b, c, d} \/ y = e
    BY <1>4
  <2>2. QED
    BY <2>1, OneMore
<1>6. \A a, b, c, d, e, f : IsFiniteSet({a, b, c, d, e, f})
  <2> TAKE a, b, c, d, e, f
  <2>1. IsFiniteSet({a, b, c, d, e}) /\ \A y : y \in {a, b, c, d, e, f} <=> y \in {a, b, c, d, e} \/ y = f
    BY <1>5
  <2>2. QED
    BY <2>1, OneMore
<1>7. \A a, b, c, d, e, f, g : IsFiniteSet({a, b, c, d, e, f, g})
  <2> TAKE a, b, c, d, e, f, g
  <2>1. IsFiniteSet({a, b, c, d, e, f}) /\ \A y : y \in {a, b, c, d, e, f, g} <=> y \in {a, b, c, d, e, f} \/ y = g
    BY <1>6
  <2>2. QED
    BY <2>1, OneMore
<1>8. \A a, b, c, d, e, f, g, h : IsFiniteSet({a, b, c, d, e, f, g, h})
  <2> TAKE a, b, c, d, e, f, g, h
  <2>1. IsFiniteSet({a, b, c, d, e, f, g}) /\ \A y : y \in {a, b, c, d, e, f, g, h} <=> y \in {a, b, c, d, e, f, g} \/ y = h
    BY <1>7
  <2>2. QED
    BY <2>1, OneMore
<1>9. QED
  BY <1>1, <1>2, <1>3, <1>4, <1>5, <1>6, <1>7, <1>8

\* What an entry of the catalog lists.
Listed(c) ==
  /\ IsFiniteSet(c.headers) /\ IsFiniteSet(c.packages) /\ IsFiniteSet(c.namespaces)
  /\ IsFiniteSet(c.modules) /\ IsFiniteSet(c.verify) /\ IsFiniteSet(c.statics)
  /\ IsFiniteSet(c.envs) /\ IsFiniteSet(c.literals) /\ IsFiniteSet(c.paths)

\* Every entry lists finitely many.
LEMMA FiniteCatalog == \A p \in Providers : Listed(Catalog[p])
<1>0. \A a, b, c, d, e, f : IsFiniteSet({a, b, c, d} \cup {e, f}) /\ IsFiniteSet({a, b, c, d} \cup {e})
  BY FewAreFinite, FS_Union
<1>1. Listed(Stripe)
  BY <1>0, FewAreFinite DEF Listed, Stripe, Plain, Usual
<1>2. Listed(Github)
  BY <1>0, FewAreFinite DEF Listed, Github, Plain, Usual
<1>3. Listed(N8n)
  BY <1>0, FewAreFinite DEF Listed, N8n, Plain, Usual
<1>4. Listed(Anthropic)
  BY <1>0, FewAreFinite DEF Listed, Anthropic, Plain, Usual
<1>5. Listed(Shopify)
  BY <1>0, FewAreFinite DEF Listed, Shopify, Plain, Usual
<1>6. Listed(Slack)
  BY <1>0, FewAreFinite DEF Listed, Slack, Plain, Usual
<1>7. Listed(Square)
  BY <1>0, FewAreFinite DEF Listed, Square, Plain, Usual
<1>8. Listed(Twilio)
  BY <1>0, FewAreFinite DEF Listed, Twilio, Plain, Usual
<1>9. Listed(Standardwebhooks)
  BY <1>0, FewAreFinite DEF Listed, Standardwebhooks, Plain, Usual
<1>10. Listed(Postmark)
  BY <1>0, FewAreFinite DEF Listed, Postmark, Plain, Usual
<1>11. Listed(Mailchimp)
  BY <1>0, FewAreFinite DEF Listed, Mailchimp, Plain, Usual
<1>12. Listed(Hubspot)
  BY <1>0, FewAreFinite DEF Listed, Hubspot, Plain, Usual
<1>13. Listed(Auth0)
  BY <1>0, FewAreFinite DEF Listed, Auth0, Plain, Usual
<1>14. Listed(Docusign)
  BY <1>0, FewAreFinite DEF Listed, Docusign, Plain, Usual
<1>15. Listed(Linear)
  BY <1>0, FewAreFinite DEF Listed, Linear, Plain, Usual
<1>16. Listed(Intercom)
  BY <1>0, FewAreFinite DEF Listed, Intercom, Plain, Usual
<1>17. Listed(Zoom)
  BY <1>0, FewAreFinite DEF Listed, Zoom, Plain, Usual
<1>18. Listed(Calendly)
  BY <1>0, FewAreFinite DEF Listed, Calendly, Plain, Usual
<1>19. Listed(Notion)
  BY <1>0, FewAreFinite DEF Listed, Notion, Plain, Usual
<1>20. Listed(Bitbucket)
  BY <1>0, FewAreFinite DEF Listed, Bitbucket, Plain, Usual
<1>21. Listed(Pagerduty)
  BY <1>0, FewAreFinite DEF Listed, Pagerduty, Plain, Usual
<1>22. Listed(Sentry)
  BY <1>0, FewAreFinite DEF Listed, Sentry, Plain, Usual
<1>23. Listed(Zendesk)
  BY <1>0, FewAreFinite DEF Listed, Zendesk, Plain, Usual
<1>24. Listed(Discord)
  BY <1>0, FewAreFinite DEF Listed, Discord, Plain, Usual
<1>25. Listed(Nmi)
  BY <1>0, FewAreFinite DEF Listed, Nmi, Plain, Usual
<1>26. Listed(Braintree)
  BY <1>0, FewAreFinite DEF Listed, Braintree, Plain, Usual
<1>27. Listed(Paypal)
  BY <1>0, FewAreFinite DEF Listed, Paypal, Plain, Usual
<1>28. QED
  BY <1>1, <1>2, <1>3, <1>4, <1>5, <1>6, <1>7, <1>8, <1>9, <1>10, <1>11, <1>12, <1>13, <1>14, <1>15, <1>16, <1>17, <1>18, <1>19, <1>20, <1>21, <1>22, <1>23, <1>24, <1>25, <1>26, <1>27 DEF Providers, Catalog


\* There are finitely many entries.
LEMMA FiniteProviders == IsFiniteSet(Providers)
<1> DEFINE A == {"stripe", "github", "n8n", "anthropic", "shopify", "slack", "square", "twilio"}
           B == {"standardwebhooks", "postmark", "mailchimp", "hubspot", "auth0", "docusign", "linear", "intercom"}
           C == {"zoom", "calendly", "notion", "bitbucket", "pagerduty", "sentry", "zendesk", "discord"}
           D == {"nmi", "braintree", "paypal"}
<1>1. Providers = (A \cup B) \cup (C \cup D)
  BY DEF Providers, Catalog
<1>2. IsFiniteSet(A) /\ IsFiniteSet(B) /\ IsFiniteSet(C) /\ IsFiniteSet(D)
  BY FewAreFinite
<1> HIDE DEF A, B, C, D
<1>3. IsFiniteSet(A \cup B) /\ IsFiniteSet(C \cup D)
  BY <1>2, FS_Union
<1>4. QED
  BY <1>1, <1>3, FS_Union

\* So the evidence of a handler is finite, whatever it says.
LEMMA FiniteEvidence == ASSUME NEW h, IsHandler(h) PROVE IsFiniteSet(PreCfg(h))
<1> DEFINE details(p) == (Catalog[p].headers \cup Catalog[p].packages \cup Catalog[p].namespaces)
                           \cup (Catalog[p].modules \cup Catalog[p].verify \cup Catalog[p].statics)
                           \cup (Catalog[p].envs \cup Catalog[p].literals \cup Catalog[p].paths)
           lists == {details(p) : p \in Providers}
           D == (UNION lists) \cup {"none", <<"Verify">>}
           K == {"path_pattern_match", "sdk_import", "secret_env_var_reference", "secret_literal_match",
                 "signature_header_read", "body_as_bytes_or_buffer", "sdk_verify_call",
                 "queue_verification_reachable"}
           P == Providers \cup {"unknown"}
           W == {"text", "middleware", "reach", "php", "go", "queue"} \cup DOMAIN h.args
           cells == (K \X P) \X (D \X W)
           item(c) == [kind |-> c[1][1], provider |-> c[1][2], detail |-> c[2][1], where |-> c[2][2]]
           items == {item(c) : c \in cells}
<1>1. \A S, T : IsFiniteSet(S) /\ IsFiniteSet(T) => IsFiniteSet(S \cup T) /\ IsFiniteSet(S \X T)
  BY FS_Union, FS_Product
<1>2. IsFiniteSet(D)
  <2>1. \A p \in Providers : IsFiniteSet(details(p))
    BY <1>1, FiniteCatalog DEF Listed
  <2>2. IsFiniteSet(lists)
    <3> DEFINE list == [p \in Providers |-> details(p)]
    <3> HIDE DEF details
    <3>1. list \in Surjection(Providers, lists)
      BY DEF Surjection
    <3>2. QED
      BY <3>1, FiniteProviders, FS_Surjection
  <2>3. \A T \in lists : IsFiniteSet(T)
    <3> HIDE DEF details
    <3>1. QED
      BY <2>1
  <2> HIDE DEF lists
  <2>4. IsFiniteSet(UNION lists)
    BY <2>2, <2>3, FS_UNION
  <2>5. QED
    BY <1>1, <2>4, FewAreFinite
<1>3. IsFiniteSet(K) /\ IsFiniteSet(P) /\ IsFiniteSet(W)
  <2>1. IsFiniteSet(DOMAIN h.args)
    <3>1. DOMAIN h.args = 1..Len(h.args) /\ Len(h.args) \in Nat
      BY DEF IsHandler
    <3>2. QED
      BY <3>1, FS_Interval
  <2>2. IsFiniteSet({"text", "middleware", "reach", "php", "go", "queue"})
    BY FewAreFinite
  <2>3. QED
    BY <1>1, <2>1, <2>2, FewAreFinite, FiniteProviders
<1>4. IsFiniteSet(items)
  <2>1. IsFiniteSet(cells)
    <3> HIDE DEF K, P, D, W
    <3>1. IsFiniteSet(K \X P) /\ IsFiniteSet(D \X W)
      BY <1>1, <1>2, <1>3
    <3>2. QED
      BY <1>1, <3>1
  <2> DEFINE all == [c \in cells |-> item(c)]
  <2> HIDE DEF cells, item
  <2>2. all \in Surjection(cells, items)
    BY DEF Surjection
  <2>3. QED
    BY <2>1, <2>2, FS_Surjection
<1>5. \A k \in K, p \in P, d \in D, w \in W : [kind |-> k, provider |-> p, detail |-> d, where |-> w] \in items
  <2> HIDE DEF K, P, D, W
  <2> TAKE k \in K, p \in P, d \in D, w \in W
  <2> DEFINE c == <<<<k, p>>, <<d, w>>>>
  <2>1. c \in cells /\ item(c) = [kind |-> k, provider |-> p, detail |-> d, where |-> w]
    OBVIOUS
  <2> HIDE DEF c, cells, item
  <2>2. QED
    BY <2>1
<1>6. \A p \in Providers : details(p) \subseteq D
  <2> HIDE DEF details
  <2>1. QED
    OBVIOUS
<1>7. \A k, w, x : x \in Anonymous(k, w) => x = [kind |-> k, provider |-> "unknown", detail |-> "none", where |-> w]
  BY DEF Anonymous
<1>8. \A x \in RawBodyRead(h) \cup RawBodyMiddleware(h) \cup QueueVerification(h) : x \in items
  <2>1. \A k \in K, w \in W : Anonymous(k, w) \subseteq items
    <3>1. "none" \in D /\ "unknown" \in P
      OBVIOUS
    <3> HIDE DEF D, P, K, W, items
    <3>2. QED
      BY <1>5, <1>7, <3>1
  <2>2. "text" \in W /\ "middleware" \in W /\ "queue" \in W /\ "body_as_bytes_or_buffer" \in K
        /\ "queue_verification_reachable" \in K
    OBVIOUS
  <2>3. /\ RawBodyRead(h) = {} \/ RawBodyRead(h) = Anonymous("body_as_bytes_or_buffer", "text")
        /\ RawBodyMiddleware(h) = {} \/ RawBodyMiddleware(h) = Anonymous("body_as_bytes_or_buffer", "middleware")
        /\ QueueVerification(h) = {} \/ QueueVerification(h) = Anonymous("queue_verification_reachable", "queue")
    BY DEF RawBodyRead, RawBodyMiddleware, QueueVerification
  <2> HIDE DEF D, P, K, W, items
  <2>4. QED
    BY <2>1, <2>2, <2>3
<1>9. \A x \in PreCfg(h) : \/ x \in RawBodyRead(h) \cup RawBodyMiddleware(h) \cup QueueVerification(h)
                           \/ \E k \in K, p \in P, d \in D, w \in W :
                                x = [kind |-> k, provider |-> p, detail |-> d, where |-> w]
  <2> SUFFICES ASSUME NEW x \in Cited(h) \cup Headers(h) \cup VerifyCalls(h)
               PROVE  \E k \in K, p \in P, d \in D, w \in W :
                        x = [kind |-> k, provider |-> p, detail |-> d, where |-> w]
    BY EvidenceParts
  <2>1. ASSUME NEW k \in K, NEW p \in P, NEW w \in W, NEW q \in Providers, NEW d, d \in details(q),
               x = [kind |-> k, provider |-> p, detail |-> d, where |-> w]
        PROVE  \E l \in K, r \in P, c \in D, v \in W :
                 x = [kind |-> l, provider |-> r, detail |-> c, where |-> v]
    <3> HIDE DEF K, P, D, W, details
    <3>1. d \in D
      BY <1>6, <2>1
    <3>2. QED
      BY <2>1, <3>1
  <2>2. ASSUME NEW k \in K, NEW w \in W, NEW q \in Providers, NEW d, d \in details(q),
               x = [kind |-> k, provider |-> q, detail |-> d, where |-> w]
        PROVE  \E l \in K, r \in P, c \in D, v \in W :
                 x = [kind |-> l, provider |-> r, detail |-> c, where |-> v]
    BY <2>1, <2>2
  <2>3. /\ x \in PathMatches(h) => \E q \in Providers : \E d \in Catalog[q].paths :
             x = [kind |-> "path_pattern_match", provider |-> q, detail |-> d, where |-> "text"]
        /\ x \in SdkImports(h) => \E q \in Providers :
             \E d \in Catalog[q].packages \cup Catalog[q].modules \cup Catalog[q].namespaces :
               x = [kind |-> "sdk_import", provider |-> q, detail |-> d, where |-> "text"]
        /\ x \in EnvReferences(h) => \E q \in Providers : \E d \in Catalog[q].envs :
             x = [kind |-> "secret_env_var_reference", provider |-> q, detail |-> d, where |-> "text"]
        /\ x \in LiteralMatches(h) => \E q \in Providers : \E d \in Catalog[q].literals :
             x = [kind |-> "secret_literal_match", provider |-> q, detail |-> d, where |-> "text"]
    <3>1. x \in PathMatches(h) => \E q \in Providers : \E d \in Catalog[q].paths :
             x = [kind |-> "path_pattern_match", provider |-> q, detail |-> d, where |-> "text"]
      BY DEF PathMatches, Signals
    <3>2. x \in SdkImports(h) => \E q \in Providers :
             \E d \in Catalog[q].packages \cup Catalog[q].modules \cup Catalog[q].namespaces :
               x = [kind |-> "sdk_import", provider |-> q, detail |-> d, where |-> "text"]
      BY DEF SdkImports, Signals, Imported
    <3>3. x \in EnvReferences(h) => \E q \in Providers : \E d \in Catalog[q].envs :
             x = [kind |-> "secret_env_var_reference", provider |-> q, detail |-> d, where |-> "text"]
      BY DEF EnvReferences, Signals
    <3>4. x \in LiteralMatches(h) => \E q \in Providers : \E d \in Catalog[q].literals :
             x = [kind |-> "secret_literal_match", provider |-> q, detail |-> d, where |-> "text"]
      BY DEF LiteralMatches, Signals
    <3>5. QED
      BY <3>1, <3>2, <3>3, <3>4
  <2>4. CASE x \in Cited(h)
    <3>1. \E k \in K, q \in Providers : \E d \in details(q) :
            x = [kind |-> k, provider |-> q, detail |-> d, where |-> "text"]
      BY <2>3, <2>4 DEF Cited
    <3>2. "text" \in W
      OBVIOUS
    <3> HIDE DEF K, P, D, W, details
    <3>3. QED
      BY <2>2, <3>1, <3>2
  <2>5. CASE x \in Headers(h)
    <3>1. PICK ps : x \in HeaderReads(h, ps)
      BY <2>5 DEF Headers
    <3> DEFINE found == Signals("signature_header_read", "text", LAMBDA q :
                          {d \in Catalog[q].headers : /\ q \in Owners(d, ps)
                                                      /\ \E t \in h.headers : Includes(d, t)})
    <3>2. \A y \in found : \E q \in Providers : \E d \in Catalog[q].headers :
            y = [kind |-> "signature_header_read", provider |-> q, detail |-> d, where |-> "text"]
      BY DEF Signals
    <3>3. PICK y \in found : x = [y EXCEPT !.provider = IF y.detail \in Generic THEN "unknown" ELSE @]
      BY <3>1 DEF HeaderReads
    <3>4. PICK q \in Providers : \E d \in Catalog[q].headers :
            y = [kind |-> "signature_header_read", provider |-> q, detail |-> d, where |-> "text"]
      <4> HIDE DEF found
      <4>1. QED
        BY <3>2
    <3>9. PICK d : d \in Catalog[q].headers
            /\ y = [kind |-> "signature_header_read", provider |-> q, detail |-> d, where |-> "text"]
      BY <3>4
    <3>5. \E p \in P : x = [kind |-> "signature_header_read", provider |-> p, detail |-> d, where |-> "text"]
      <4> HIDE DEF found
      <4>1. QED
        BY <3>3, <3>9
    <3>6. "text" \in W /\ "signature_header_read" \in K /\ d \in details(q)
      BY <3>9
    <3> HIDE DEF found, K, P, D, W, details
    <3>7. QED
      BY <2>1, <3>5, <3>6
  <2>6. CASE x \in VerifyCalls(h)
    <3>1. x \in SdkVerifyCalls(h) => \E q \in Providers : \E d \in Catalog[q].verify :
            x = [kind |-> "sdk_verify_call", provider |-> q, detail |-> d, where |-> "reach"]
      BY SdkCallsAre
    <3>2. x \in InlineVerifyCalls(h) => \E i \in DOMAIN h.args, q \in Providers : \E d \in Catalog[q].verify :
            x = [kind |-> "sdk_verify_call", provider |-> q, detail |-> d, where |-> i]
      BY DEF InlineVerifyCalls, Signals
    <3>3. x \in PhpVerifyCalls(h) => \E q \in Providers : \E d \in Catalog[q].statics :
            x = [kind |-> "sdk_verify_call", provider |-> q, detail |-> d, where |-> "php"]
      BY DEF PhpVerifyCalls, Signals
    <3>4. x \in GoVerifyCalls(h) => \E q \in Providers : \E d \in Catalog[q].verify \cup {<<"Verify">>} :
            x = [kind |-> "sdk_verify_call", provider |-> q, detail |-> d, where |-> "go"]
      BY DEF GoVerifyCalls, Signals
    <3>5. /\ "sdk_verify_call" \in K /\ <<"Verify">> \in D
          /\ {"reach", "php", "go"} \subseteq W /\ DOMAIN h.args \subseteq W /\ Providers \subseteq P
      OBVIOUS
    <3>6. \A q \in Providers : Catalog[q].verify \subseteq D /\ Catalog[q].statics \subseteq D
      <4>1. \A q : Catalog[q].verify \subseteq details(q) /\ Catalog[q].statics \subseteq details(q)
        OBVIOUS
      <4> HIDE DEF details, D
      <4>2. QED
        BY <1>6, <4>1
    <3> HIDE DEF K, P, D, W, details
    <3>7. QED
      BY <2>6, <3>1, <3>2, <3>3, <3>4, <3>5, <3>6 DEF VerifyCalls
  <2>7. QED
    BY <2>4, <2>5, <2>6
<1>10. PreCfg(h) \in SUBSET items
  <2> HIDE DEF K, P, D, W, items
  <2>1. QED
    BY <1>5, <1>8, <1>9
<1>11. QED
  <2> HIDE DEF items
  <2>1. QED
    BY <1>4, <1>10, FS_Subset

\* The votes for one provider.
VotesFor(E, p) == {e \in E : e.provider = p}

\* Two are more than one.
LEMMA TwoAreMore ==
  ASSUME NEW S, IsFiniteSet(S), NEW a \in S, NEW b \in S, a # b
  PROVE  Cardinality(S) > 1
<1>1. IsFiniteSet({a}) /\ Cardinality({a}) = 1
  BY FS_Singleton
<1>2. {a} \in SUBSET S /\ {a} # S
  OBVIOUS
<1>3. Cardinality({a}) <= Cardinality(S) /\ Cardinality(S) # Cardinality({a})
  BY <1>2, FS_Subset
<1>4. Cardinality(S) \in Nat
  BY FS_CardinalityType
<1>5. QED
  BY <1>1, <1>3, <1>4

\* Who is cited most is cited more often than anybody else.
LEMMA StrictlyMost ==
  ASSUME NEW E, IsFiniteSet(E), NEW p \in Providers, NEW fallback, p # fallback,
         MostCited(E, fallback) = p, NEW q, q \notin {p, "unknown"}
  PROVE  Cardinality(VotesFor(E, q)) < Cardinality(VotesFor(E, p))
<1> DEFINE named == {e.provider : e \in E} \ {"unknown"}
           votes == [r \in named |-> Cardinality(VotesFor(E, r))]
           top == {r \in named : \A s \in named : votes[s] <= votes[r]}
<1>1. MostCited(E, fallback) = IF top = {} THEN fallback
                               ELSE IF Cardinality(top) > 1 THEN "multiple" ELSE CHOOSE r \in top : TRUE
  BY DEF MostCited, VotesFor
<1>2. p # "multiple"
  BY DEF Providers, Catalog
<1>3. top # {} /\ ~(Cardinality(top) > 1) /\ p \in top
  <2> HIDE DEF top
  <2>1. QED
    BY <1>1, <1>2
<1>4. IsFiniteSet(top)
  <2> DEFINE all == {e.provider : e \in E}
             of == [e \in E |-> e.provider]
  <2>1. of \in Surjection(E, all)
    BY DEF Surjection
  <2>2. IsFiniteSet(all)
    BY <2>1, FS_Surjection
  <2>3. top \in SUBSET all
    OBVIOUS
  <2>4. QED
    BY <2>2, <2>3, FS_Subset
<1>5. \A r : IsFiniteSet(VotesFor(E, r)) /\ Cardinality(VotesFor(E, r)) \in Nat
  <2> TAKE r
  <2>1. VotesFor(E, r) \in SUBSET E
    BY DEF VotesFor
  <2>2. QED
    BY <2>1, FS_Subset, FS_CardinalityType
<1>6. p \in named /\ \A s \in named : Cardinality(VotesFor(E, s)) <= Cardinality(VotesFor(E, p))
  BY <1>3
<1>7. CASE q \in named
  <2>1. Cardinality(VotesFor(E, q)) # Cardinality(VotesFor(E, p))
    <3> SUFFICES ASSUME Cardinality(VotesFor(E, q)) = Cardinality(VotesFor(E, p)) PROVE FALSE
      OBVIOUS
    <3>1. q \in top
      BY <1>6, <1>7
    <3> HIDE DEF top
    <3>2. QED
      BY <1>3, <1>4, <3>1, TwoAreMore
  <2>2. QED
    BY <1>5, <1>6, <1>7, <2>1
<1>8. CASE q \notin named
  <2>1. VotesFor(E, q) = {} /\ VotesFor(E, p) # {}
    BY <1>6, <1>8 DEF VotesFor
  <2>2. QED
    BY <1>5, <2>1, FS_EmptySet
<1>9. QED
  BY <1>7, <1>8

\* The votes that calls give: all evidence of verifications, but of primitives.
CallVotes(h, p) == {x \in VerifyCalls(h) : x.provider = p /\ ~IsGenericPrimitive(x)}
\* The calls of a handler speak for no provider much more than for the one that
\* its text speaks for.
NotOutvoted(h) ==
  LET p == BaseProvider(h)
  IN p \in Providers => \A q \in Providers : Cardinality(CallVotes(h, q)) <= Cardinality(CallVotes(h, p)) + 1

\* Taking the verification out leaves the text.
LEMMA TextIsLeft ==
  ASSUME NEW h, IsHandler(h), NEW u, u = Unverified(h)
  PROVE  /\ TextEvidence(u) = TextEvidence(h) /\ VerifyCalls(u) = {}
         /\ BaseProvider(u) = BaseProvider(h) /\ u.nodeFile = h.nodeFile
<1>1. /\ u.route = h.route /\ u.imports = h.imports /\ u.namespaces = h.namespaces
      /\ u.envs = h.envs /\ u.literals = h.literals /\ u.headers = h.headers
      /\ u.rawRead = h.rawRead /\ u.nodeFile = h.nodeFile
  BY DEF Unverified, IsHandler, Fields
<1>2. PathMatches(u) = PathMatches(h) /\ EnvReferences(u) = EnvReferences(h)
  BY <1>1 DEF PathMatches, EnvReferences, Signals
<1>3. SdkImports(u) = SdkImports(h) /\ LiteralMatches(u) = LiteralMatches(h)
  BY <1>1 DEF SdkImports, Imported, LiteralMatches, Signals
<1>4. Cited(u) = Cited(h)
  BY <1>2, <1>3 DEF Cited
<1>5. Headers(u) = Headers(h) /\ RawBodyRead(u) = RawBodyRead(h)
  BY <1>1, <1>4 DEF Headers, HeaderReads, Signals, RawBodyRead
<1>6. TextEvidence(u) = TextEvidence(h)
  BY <1>4, <1>5, EvidenceParts
<1>7. /\ SdkVerifyCalls(u) = {} /\ InlineVerifyCalls(u) = {}
      /\ PhpVerifyCalls(u) = {} /\ GoVerifyCalls(u) = {}
  BY WhatIsLeft DEF SdkVerifyCalls, InlineVerifyCalls, PhpVerifyCalls, GoVerifyCalls, Signals
<1>8. QED
  BY <1>1, <1>6, <1>7 DEF VerifyCalls, BaseProvider

\* What the attribution counts: the text, and the calls of each provider.
LEMMA WhoIsCited ==
  ASSUME NEW h, NEW E, E = {x \in PreCfg(h) : ~IsGenericPrimitive(x)}, NEW p, p # "unknown"
  PROVE  /\ VotesFor(E, p) = VotesFor(TextEvidence(h), p) \cup CallVotes(h, p)
         /\ VotesFor(TextEvidence(h), p) \cap CallVotes(h, p) = {}
<1>1. \A x \in TextEvidence(h) : x.kind # "sdk_verify_call"
  <2>1. \A x \in Cited(h) \cup Headers(h) \cup RawBodyRead(h) : x.kind # "sdk_verify_call"
    BY KindsOfEvidence DEF Cited, Headers
  <2>2. QED
    BY <2>1, EvidenceParts
<1>2. \A x \in VerifyCalls(h) : x.kind = "sdk_verify_call"
  BY KindsOfEvidence DEF VerifyCalls
<1>3. \A x \in RawBodyMiddleware(h) \cup QueueVerification(h) : x.provider = "unknown"
  BY KindsOfEvidence
<1>4. \A x \in TextEvidence(h) : ~IsGenericPrimitive(x)
  BY <1>1 DEF IsGenericPrimitive
<1>5. PreCfg(h) = TextEvidence(h) \cup VerifyCalls(h) \cup RawBodyMiddleware(h) \cup QueueVerification(h)
  BY EvidenceParts
<1>6. QED
  BY <1>1, <1>2, <1>3, <1>4, <1>5 DEF VotesFor, CallVotes

\* A text's own provider is cited by whatever else there is that it is not.
LEMMA TextAlone ==
  ASSUME NEW h, NEW b \in Providers, MostCited(h, "unknown") = b
  PROVE  MostCited(h, b) = b
<1> DEFINE votes == [p \in {e.provider : e \in h} \ {"unknown"} |->
                       Cardinality({e \in h : e.provider = p})]
           top == {p \in DOMAIN votes : \A q \in DOMAIN votes : votes[q] <= votes[p]}
<1>1. \A f : MostCited(h, f) = IF top = {} THEN f
        ELSE IF Cardinality(top) > 1 THEN "multiple" ELSE CHOOSE p \in top : TRUE
  BY DEF MostCited
<1>2. QED
  <2> HIDE DEF top
  <2>1. QED
    BY <1>1

\* So the two are attributed to the same provider, if to any.
LEMMA SameWithout ==
  ASSUME NEW h, IsHandler(h), IsFiniteSet(PreCfg(h)), NotOutvoted(h),
         Provider(h) \in Providers, Provider(Unverified(h)) \in Providers
  PROVE  Provider(h) = Provider(Unverified(h))
<1> DEFINE u == Unverified(h)
           b == BaseProvider(h)
           Voting(k) == {x \in PreCfg(k) : ~IsGenericPrimitive(x)}
           p == MostCited(Voting(h), b)
<1>0. /\ TextEvidence(u) = TextEvidence(h) /\ VerifyCalls(u) = {}
      /\ BaseProvider(u) = b /\ u.nodeFile = h.nodeFile
  BY TextIsLeft
<1>1. \A k : Provider(k) = IF k.nodeFile THEN "n8n"
                           ELSE IF /\ ~k.webhookish
                                   /\ ~\E e \in PreCfg(k) : e.provider = RecomputeProvider(PreCfg(k), BaseProvider(k)) /\ e.kind # "sdk_import"
                           THEN "unknown" ELSE RecomputeProvider(PreCfg(k), BaseProvider(k))
  BY DEF Provider
<1>2. "unknown" \notin Providers
  BY DEF Providers, Catalog
<1>3. CASE h.nodeFile
  BY <1>0, <1>1, <1>3
<1>4. CASE ~h.nodeFile
  <2>1. \A k : RecomputeProvider(PreCfg(k), BaseProvider(k)) = MostCited(Voting(k), BaseProvider(k))
    BY DEF RecomputeProvider
  <2>2. Provider(h) = p /\ Provider(u) = MostCited(Voting(u), b)
    <3>1. /\ Provider(h) = RecomputeProvider(PreCfg(h), BaseProvider(h))
          /\ Provider(u) = RecomputeProvider(PreCfg(u), BaseProvider(u))
      BY <1>0, <1>1, <1>2, <1>4
    <3>2. QED
      BY <1>0, <2>1, <3>1
  <2>3. MostCited(Voting(u), b) = MostCited(TextEvidence(h), b)
    <3>1. CallVotes(u, "unknown") = {} /\ \A q : CallVotes(u, q) = {}
      BY <1>0 DEF CallVotes
    <3>2. \A x : x.provider # "unknown" => (x \in Voting(u) <=> x \in TextEvidence(u))
      <4> SUFFICES ASSUME NEW x, x.provider # "unknown"
                   PROVE  x \in Voting(u) <=> x \in TextEvidence(u)
        OBVIOUS
      <4> HIDE DEF Voting, u
      <4>1. VotesFor(Voting(u), x.provider) = VotesFor(TextEvidence(u), x.provider)
        BY <3>1, WhoIsCited DEF Voting
      <4>2. QED
        BY <4>1 DEF VotesFor
    <3> HIDE DEF Voting, u, b
    <3>3. QED
      BY <1>0, <3>2, SameVotes
  <2>4. b = MostCited(TextEvidence(h), "unknown")
    BY DEF BaseProvider
  <2>5. Provider(u) = b /\ b \in Providers
    <3>1. CASE b \in Providers
      <4> HIDE DEF b, u, Voting
      <4>1. MostCited(TextEvidence(h), b) = b
        BY <2>4, <3>1, TextAlone
      <4>2. QED
        BY <2>2, <2>3, <3>1, <4>1
    <3>2. CASE b \notin Providers
      <4>1. MostCited(TextEvidence(h), b) = b
        BY <2>4 DEF MostCited
      <4> HIDE DEF b, u, Voting
      <4>2. QED
        BY <2>2, <2>3, <3>2, <4>1 DEF u
    <3>3. QED
      BY <3>1, <3>2
  <2>6. ASSUME p # b PROVE FALSE
    <3>1. \A r : /\ IsFiniteSet(VotesFor(Voting(h), r)) /\ IsFiniteSet(VotesFor(TextEvidence(h), r))
                 /\ IsFiniteSet(CallVotes(h, r))
      <4> TAKE r
      <4>1. /\ VotesFor(Voting(h), r) \in SUBSET PreCfg(h) /\ CallVotes(h, r) \in SUBSET PreCfg(h)
            /\ VotesFor(TextEvidence(h), r) \in SUBSET PreCfg(h)
        BY EvidenceParts DEF VotesFor, CallVotes
      <4>2. QED
        BY <4>1, FS_Subset
    <3>2. IsFiniteSet(Voting(h)) /\ IsFiniteSet(TextEvidence(h))
      <4>1. Voting(h) \in SUBSET PreCfg(h) /\ TextEvidence(h) \in SUBSET PreCfg(h)
        BY EvidenceParts
      <4>2. QED
        BY <4>1, FS_Subset
    <3>3. p \in Providers /\ p # "unknown" /\ b # "unknown"
      BY <1>2, <2>2, <2>5
    <3>4. Cardinality(VotesFor(Voting(h), b)) < Cardinality(VotesFor(Voting(h), p))
      <4> HIDE DEF Voting, b
      <4>1. QED
        BY <2>6, <3>2, <3>3, StrictlyMost
    <3>5. Cardinality(VotesFor(TextEvidence(h), p)) < Cardinality(VotesFor(TextEvidence(h), b))
      <4> HIDE DEF Voting, b, p
      <4>1. QED
        BY <1>2, <2>4, <2>5, <2>6, <3>2, <3>3, StrictlyMost
    <3>6. \A r : r # "unknown" =>
            Cardinality(VotesFor(Voting(h), r)) = Cardinality(VotesFor(TextEvidence(h), r)) + Cardinality(CallVotes(h, r))
      <4> SUFFICES ASSUME NEW r, r # "unknown"
                   PROVE  Cardinality(VotesFor(Voting(h), r)) =
                            Cardinality(VotesFor(TextEvidence(h), r)) + Cardinality(CallVotes(h, r))
        OBVIOUS
      <4>1. /\ VotesFor(Voting(h), r) = VotesFor(TextEvidence(h), r) \cup CallVotes(h, r)
            /\ VotesFor(TextEvidence(h), r) \cap CallVotes(h, r) = {}
        BY WhoIsCited
      <4> HIDE DEF Voting
      <4>2. Cardinality(VotesFor(TextEvidence(h), r) \cup CallVotes(h, r)) =
              Cardinality(VotesFor(TextEvidence(h), r)) + Cardinality(CallVotes(h, r)) - Cardinality({})
        BY <3>1, <4>1, FS_Union
      <4>3. /\ Cardinality(VotesFor(TextEvidence(h), r)) \in Nat /\ Cardinality(CallVotes(h, r)) \in Nat
            /\ Cardinality({}) = 0
        BY <3>1, FS_CardinalityType, FS_EmptySet
      <4>4. QED
        BY <4>1, <4>2, <4>3
    <3>7. Cardinality(CallVotes(h, p)) <= Cardinality(CallVotes(h, b)) + 1
      BY <2>5, <3>3 DEF NotOutvoted
    <3>8. \A r : /\ Cardinality(VotesFor(TextEvidence(h), r)) \in Nat
                 /\ Cardinality(CallVotes(h, r)) \in Nat
      BY <3>1, FS_CardinalityType
    <3> HIDE DEF Voting, b, p
    <3>9. QED
      BY <3>3, <3>4, <3>5, <3>6, <3>7, <3>8
  <2>7. QED
    BY <2>2, <2>5, <2>6
<1>5. QED
  BY <1>3, <1>4

\* No change makes the calls speak up for another provider.
LEMMA StillNotOutvoted ==
  ASSUME NEW scan, IsHandler(scan.source), NotOutvoted(scan.source),
         NEW how, NEW h, Changed(scan, how, h)
  PROVE  NotOutvoted(h)
<1> DEFINE g == scan.source
<1>1. CASE h = Unverified(g)
  <2>1. \A q : CallVotes(h, q) = {}
    BY <1>1, TextIsLeft DEF CallVotes
  <2>2. Cardinality({}) = 0
    BY FS_EmptySet
  <2>3. QED
    BY <2>1, <2>2 DEF NotOutvoted
<1>2. CASE h = Fixed(how, g)
  <2>1. Edited(g, h)
    BY <1>2, FixEdits
  <2>2. BaseProvider(h) = BaseProvider(g)
    BY <2>1, NewEvidence, SameVotes DEF BaseProvider
  <2>3. /\ VerifyCalls(g) \subseteq VerifyCalls(h)
        /\ \A x \in VerifyCalls(h) \ VerifyCalls(g) : IsGenericPrimitive(x)
    BY <2>1, SameCues, NewVerifyCalls DEF VerifyCalls, IsGenericPrimitive, Primitives
  <2>4. \A q : CallVotes(h, q) = CallVotes(g, q)
    BY <2>3 DEF CallVotes
  <2>5. QED
    BY <2>2, <2>4 DEF NotOutvoted
<1>3. QED
  BY <1>1, <1>2 DEF Changed

\* As long as it verifies, a handler is whose it was when it was first scanned.
Kept ==
  /\ NotOutvoted(source)
  /\ \A i \in DOMAIN scans : NotOutvoted(scans[i].source)
  /\ phase # "reported" /\ scans # <<>> /\ source.truth # "nothing" => Provider(source) = Provider(scans[1].source)
  /\ \A i \in DOMAIN scans :
       scans[i].source.truth # "nothing" => Provider(scans[i].source) = Provider(scans[1].source)

\* Every step keeps it.
LEMMA KeptStep == ASSUME Inv, Kept, [Next]_vars PROVE Kept'
<1>1. scans \in Seq(Range(scans)) /\ IsHandler(source)
  BY DEF Inv, History, Now
<1>2. CASE Evaluate
  <2> DEFINE scan == [source |-> source, change |-> change, report |-> Report(source, evidence, provider)]
  <2>1. scans' = Append(scans, scan) /\ source' = source /\ phase' = "reported" /\ phase = "ordered"
    BY <1>2 DEF Evaluate
  <2>2. scan.source = source
    OBVIOUS
  <2> HIDE DEF scan
  <2>3. /\ \A i \in DOMAIN scans' : scans'[i] = scan \/ (i \in DOMAIN scans /\ scans'[i] = scans[i])
        /\ scans'[1] = (IF scans = <<>> THEN scan ELSE scans[1])
    BY <1>1, <2>1
  <2>4. ASSUME scans = <<>> PROVE \A i \in DOMAIN scans' : scans'[i] = scan
    BY <2>3, <2>4
  <2>5. CASE scans = <<>>
    BY <2>1, <2>2, <2>3, <2>4, <2>5 DEF Kept
  <2>6. CASE scans # <<>>
    BY <2>1, <2>2, <2>3, <2>6 DEF Kept
  <2>7. QED
    BY <2>5, <2>6
<1>3. ASSUME NEW how, NEW h, Rewrite(how, h), Changed(Last(scans), how, h) PROVE Kept'
  <2> DEFINE last == Last(scans)
  <2>1. /\ last = scans[Len(scans)] /\ Len(scans) \in DOMAIN scans /\ last.source = source
        /\ Own(last) /\ IsHandler(last.source)
    BY <1>1, <1>3 DEF Rewrite, Inv, Now, History, Last
  <2>2. NotOutvoted(h)
    BY <1>3, <2>1, StillNotOutvoted DEF Kept
  <2>3. ASSUME h.truth # "nothing" PROVE Provider(h) = Provider(scans[1].source)
    <3>1. h # Unverified(source)
      BY <1>1, <2>3 DEF Unverified, IsHandler, Fields
    <3>2. PICK f \in last.report.findings :
            Offers(how, source, last.report.provider) /\ h = Fixed(how, source)
      BY <1>3, <2>1, <3>1 DEF Changed
    <3>3. last.report.provider = Provider(source)
      BY <2>1 DEF Own, Report
    <3>4. Provider(source) # "unknown"
      BY <3>2, <3>3, OfferedTo
    <3>5. Edited(source, h)
      BY <1>1, <3>2, FixEdits
    <3>6. Provider(h) = Provider(source)
      BY <3>4, <3>5, SameProvider
    <3>7. h.truth = source.truth
      BY <3>5 DEF Edited, Fields
    <3>8. QED
      BY <2>1, <2>3, <3>6, <3>7 DEF Kept
  <2>4. QED
    BY <1>3, <2>2, <2>3 DEF Rewrite, Kept
<1>4. CASE Fix
  <2>1. PICK f \in Last(scans).report.findings :
          Offers(f.kind, source, Last(scans).report.provider) /\ Rewrite(f.kind, Fixed(f.kind, source))
    BY <1>4 DEF Fix
  <2>2. Last(scans).source = source
    BY <2>1 DEF Inv, Now, Rewrite
  <2>3. QED
    BY <1>3, <2>1, <2>2 DEF Changed
<1>5. CASE Unverify
  <2>1. /\ Last(scans).source = source /\ source.truth # "nothing"
        /\ Rewrite("removed", Unverified(source))
    BY <1>5 DEF Inv, Now, Unverify, Rewrite
  <2>2. QED
    BY <1>3, <2>1 DEF Changed
<1>6. CASE Assemble \/ OrderCalls \/ UNCHANGED vars
  BY <1>6 DEF Assemble, OrderCalls, vars, Kept
<1>7. QED
  BY <1>2, <1>4, <1>5, <1>6 DEF Next

\* Whoever takes the verification out of a handler leaves it with its provider.
\* That is so of the handlers whose calls do not outvote their text: one that calls
\* the verifications of another provider besides goes by the majority.
THEOREM NameIsKept ==
  ASSUME \A h \in Sources : NotOutvoted(h)
  PROVE  Spec => []VerifyingKeepsTheName
<1>1. Init => Kept
  BY DEF Init, Kept
<1>2. Inv /\ Kept => VerifyingKeepsTheName
  <2> SUFFICES ASSUME Inv, Kept, Rescanned({"removed"}),
                      {First.report.provider, Latest.report.provider} \subseteq Providers
               PROVE  First.report.provider = Latest.report.provider
    BY DEF VerifyingKeepsTheName
  <2> DEFINE n == Len(scans)
             before == scans[n - 1]
  <2>1. /\ n \in Nat /\ n > 1 /\ n \in DOMAIN scans /\ n - 1 \in DOMAIN scans /\ 1 \in DOMAIN scans
        /\ phase = "reported" /\ change = "removed"
    BY DEF Rescanned, Inv, History
  <2>2. Latest = scans[n] /\ Latest.change = "removed"
    BY <2>1 DEF Latest, Last, Inv, Now, History
  <2>3. Changed(before, "removed", Latest.source) /\ IsHandler(before.source)
    BY <2>1, <2>2 DEF Inv, History
  <2>4. before.source.truth # "nothing" /\ Latest.source = Unverified(before.source)
    BY <2>3, Offered DEF Changed
  <2>5. Provider(before.source) = Provider(First.source)
    BY <2>1, <2>4 DEF Kept, First
  <2>6. \A i \in DOMAIN scans : scans[i].report.provider = Provider(scans[i].source)
    <3>1. \A scan : Own(scan) => scan.report.provider = Provider(scan.source)
      BY DEF Own, Report
    <3>2. QED
      BY <3>1 DEF Inv, History
  <2>7. Provider(before.source) \in Providers /\ Provider(Unverified(before.source)) \in Providers
    BY <2>1, <2>2, <2>4, <2>5, <2>6 DEF First
  <2>8. IsFiniteSet(PreCfg(before.source)) /\ NotOutvoted(before.source)
    BY <2>1, <2>3, FiniteEvidence DEF Kept
  <2>9. Provider(before.source) = Provider(Latest.source)
    BY <2>3, <2>4, <2>7, <2>8, SameWithout
  <2>10. QED
    BY <2>1, <2>2, <2>5, <2>6, <2>9 DEF First
<1>3. QED
  BY <1>1, <1>2, Invariance, KeptStep, PTL DEF Spec

\* The evidence of a call is told apart by provider, name and place.
LEMMA CallsAre ==
  ASSUME NEW h, NEW x \in VerifyCalls(h)
  PROVE  x = [kind |-> "sdk_verify_call", provider |-> x.provider, detail |-> x.detail, where |-> x.where]
<1> DEFINE Told(y) == y = [kind |-> "sdk_verify_call", provider |-> y.provider, detail |-> y.detail,
                           where |-> y.where]
<1>1. \A y \in SdkVerifyCalls(h) : Told(y)
  BY DEF SdkVerifyCalls, Signals
<1>2. \A y \in InlineVerifyCalls(h) : Told(y)
  BY DEF InlineVerifyCalls, Signals
<1>3. \A y \in PhpVerifyCalls(h) : Told(y)
  BY DEF PhpVerifyCalls, Signals
<1>4. \A y \in GoVerifyCalls(h) : Told(y)
  BY DEF GoVerifyCalls, Signals
<1>5. Told(x)
  <2> HIDE DEF Told
  <2>1. QED
    BY <1>1, <1>2, <1>3, <1>4 DEF VerifyCalls
<1>6. QED
  BY <1>5

\* A name, word by word.
Words(v) == Len(v) \in 1..4 /\ v = [i \in 1..Len(v) |-> v[i]]

\* Two names for one call are of different lengths.
LEMMA OneOfEachLength ==
  ASSUME NEW n, NEW v, NEW w, Words(v), Words(w), Len(v) = Len(w), NamesCall(n, v), NamesCall(n, w)
  PROVE  v = w
<1> DEFINE k == Len(v)
<1>1. \A t : Words(t) => /\ DOMAIN Reverse(t) = 1..Len(t)
                         /\ \A i \in 1..Len(t) : Reverse(t)[i] = t[(Len(t) - i) + 1]
                         /\ Len(Reverse(t)) = Len(t)
  BY DEF Reverse, Words
<1>2. /\ SubSeq(Reverse(v), 1, k) = SubSeq(Reverse(n), 1, k)
      /\ SubSeq(Reverse(w), 1, k) = SubSeq(Reverse(n), 1, k)
  BY <1>1 DEF NamesCall, IsSuffix, IsPrefix
<1>3. \A S : \A s \in Seq(S) : \A m \in 1..Len(s) : \A i \in 1..m : SubSeq(s, 1, m)[i] = s[i]
  OBVIOUS
<1>4. \A t : Words(t) => Reverse(t) \in Seq(Range(Reverse(t)))
  <2> SUFFICES ASSUME NEW t, Words(t) PROVE Reverse(t) \in Seq(Range(Reverse(t)))
    OBVIOUS
  <2>1. Reverse(t) = [i \in 1..Len(t) |-> Reverse(t)[i]] /\ Len(t) \in Nat
    BY DEF Reverse, Words
  <2>2. \A i \in 1..Len(t) : Reverse(t)[i] \in Range(Reverse(t))
    BY <2>1 DEF Range
  <2>3. QED
    BY <2>1, <2>2
<1>5. \A i \in 1..k : Reverse(v)[i] = Reverse(w)[i]
  BY <1>1, <1>2, <1>3, <1>4 DEF Words
<1>6. \A i \in 1..k : v[i] = w[i]
  <2> TAKE i \in 1..k
  <2>1. PICK j \in 1..k : (k - j) + 1 = i
    <3>1. (k - i) + 1 \in 1..k /\ (k - ((k - i) + 1)) + 1 = i
      BY DEF Words
    <3>2. QED
      BY <3>1
  <2>2. Reverse(v)[j] = v[i] /\ Reverse(w)[j] = w[i]
    BY <1>1, <2>1
  <2>3. QED
    BY <1>5, <2>1, <2>2
<1>7. QED
  BY <1>6 DEF Words

\* Their last words are the same.
LEMMA SameLastWord ==
  ASSUME NEW n, NEW v, NEW w, Words(v), Words(w), NamesCall(n, v), NamesCall(n, w)
  PROVE  Last(v) = Last(w)
<1>1. \A t : Words(t) /\ NamesCall(n, t) => Last(t) = Reverse(n)[1]
  <2> SUFFICES ASSUME NEW t, Words(t), NamesCall(n, t) PROVE Last(t) = Reverse(n)[1]
    OBVIOUS
  <2>1. /\ DOMAIN Reverse(t) = 1..Len(t) /\ Len(Reverse(t)) = Len(t) /\ Len(t) \in 1..4
        /\ Reverse(t)[1] = t[Len(t)]
    BY DEF Reverse, Words
  <2>2. SubSeq(Reverse(t), 1, Len(t)) = SubSeq(Reverse(n), 1, Len(t))
    BY <2>1 DEF NamesCall, IsSuffix, IsPrefix
  <2>3. \A s, m : m \in 1..4 => SubSeq(s, 1, m)[1] = s[1]
    OBVIOUS
  <2>4. QED
    BY <2>1, <2>2, <2>3 DEF Last
<1>2. QED
  BY <1>1

\* A provider lists at most two names for one call.
Twice(c) == \A n : \E a, b : \A v \in c.verify : NamesCall(n, v) => v = a \/ v = b
\* Most list names of one or two words.
Short(c) == \A v \in c.verify : (\E a : v = <<a>>) \/ (\E a, b : v = <<a, b>>)

\* Such names suffice.
LEMMA ShortIsTwice == ASSUME NEW c, Short(c) PROVE Twice(c)
<1> SUFFICES ASSUME NEW n
             PROVE  \E a, b : \A v \in c.verify : NamesCall(n, v) => v = a \/ v = b
  BY DEF Twice
<1>1. \A v \in c.verify : Words(v) /\ Len(v) \in {1, 2}
  BY DEF Short, Words
<1> DEFINE named(k) == {v \in c.verify : NamesCall(n, v) /\ Len(v) = k}
           name(k) == CHOOSE v \in named(k) : TRUE
<1>2. \A k : \A v \in named(k) : v = name(k)
  BY <1>1, OneOfEachLength
<1>3. \A v \in c.verify : NamesCall(n, v) => v \in named(1) \/ v \in named(2)
  BY <1>1
<1>4. \A v \in c.verify : NamesCall(n, v) => v = name(1) \/ v = name(2)
  BY <1>2, <1>3
<1>5. QED
  BY <1>4

\* So does every provider.
LEMMA NamedTwice == \A p \in Providers : Twice(Catalog[p])
<1>1. Short(Stripe)
  BY DEF Short, Stripe, Plain
<1>2. Short(Github)
  BY DEF Short, Github, Plain
<1>3. Short(N8n)
  BY DEF Short, N8n, Plain
<1>4. Short(Anthropic)
  BY DEF Short, Anthropic, Plain
<1>5. Short(Slack)
  BY DEF Short, Slack, Plain
<1>6. Short(Square)
  BY DEF Short, Square, Plain
<1>7. Short(Twilio)
  BY DEF Short, Twilio, Plain
<1>8. Short(Standardwebhooks)
  BY DEF Short, Standardwebhooks, Plain
<1>9. Short(Postmark)
  BY DEF Short, Postmark, Plain
<1>10. Short(Mailchimp)
  BY DEF Short, Mailchimp, Plain
<1>11. Short(Hubspot)
  BY DEF Short, Hubspot, Plain
<1>12. Short(Auth0)
  BY DEF Short, Auth0, Plain
<1>13. Short(Docusign)
  BY DEF Short, Docusign, Plain
<1>14. Short(Linear)
  BY DEF Short, Linear, Plain
<1>15. Short(Intercom)
  BY DEF Short, Intercom, Plain
<1>16. Short(Zoom)
  BY DEF Short, Zoom, Plain
<1>17. Short(Calendly)
  BY DEF Short, Calendly, Plain
<1>18. Short(Notion)
  BY DEF Short, Notion, Plain
<1>19. Short(Bitbucket)
  BY DEF Short, Bitbucket, Plain
<1>20. Short(Pagerduty)
  BY DEF Short, Pagerduty, Plain
<1>21. Short(Sentry)
  BY DEF Short, Sentry, Plain
<1>22. Short(Zendesk)
  BY DEF Short, Zendesk, Plain
<1>23. Short(Nmi)
  BY DEF Short, Nmi, Plain
<1>24. Short(Braintree)
  BY DEF Short, Braintree, Plain
<1>25. Short(Paypal)
  BY DEF Short, Paypal, Plain
<1>26. Twice(Shopify)
  <2> SUFFICES ASSUME NEW n
               PROVE  \E a, b : \A v \in Shopify.verify : NamesCall(n, v) => v = a \/ v = b
    BY DEF Twice
  <2>1. Shopify.verify = {<<"verifyHmac">>, <<"webhookRegistry", "process">>,
                          <<"shopify", "webhooks", "validate">>, <<"verify">>}
    BY DEF Shopify, Plain
  <2>2. \A v \in Shopify.verify : Words(v)
    BY <2>1 DEF Words
  <2>3. \A v, w \in Shopify.verify : Last(v) = Last(w) => v = w
    <3>1. /\ Last(<<"verifyHmac">>) = "verifyHmac" /\ Last(<<"webhookRegistry", "process">>) = "process"
          /\ Last(<<"shopify", "webhooks", "validate">>) = "validate" /\ Last(<<"verify">>) = "verify"
      BY DEF Last
    <3>2. QED
      BY <2>1, <3>1
  <2>4. \A v, w \in Shopify.verify : NamesCall(n, v) /\ NamesCall(n, w) => v = w
    BY <2>2, <2>3, SameLastWord
  <2>5. QED
    BY <2>4
<1>27. Twice(Discord)
  <2> SUFFICES ASSUME NEW n
               PROVE  \E a, b : \A v \in Discord.verify : NamesCall(n, v) => v = a \/ v = b
    BY DEF Twice
  <2>1. Discord.verify = {<<"verifyKey">>, <<"nacl", "sign", "detached", "verify">>,
                          <<"VerifyKey", "verify">>}
    BY DEF Discord, Plain
  <2>2. \A v \in Discord.verify : Words(v)
    BY <2>1 DEF Words
  <2>3. Last(<<"verifyKey">>) # Last(<<"VerifyKey", "verify">>)
        /\ Last(<<"verifyKey">>) # Last(<<"nacl", "sign", "detached", "verify">>)
    BY DEF Last
  <2>4. \A v, w \in Discord.verify : NamesCall(n, v) /\ NamesCall(n, w) => Last(v) = Last(w)
    BY <2>2, SameLastWord
  <2>5. CASE NamesCall(n, <<"verifyKey">>)
    <3>1. \A v \in Discord.verify : NamesCall(n, v) => v = <<"verifyKey">>
      BY <2>1, <2>3, <2>4, <2>5
    <3>2. QED
      BY <3>1
  <2>6. CASE ~NamesCall(n, <<"verifyKey">>)
    <3>1. \A v \in Discord.verify : NamesCall(n, v) =>
            v = <<"VerifyKey", "verify">> \/ v = <<"nacl", "sign", "detached", "verify">>
      BY <2>1, <2>6
    <3>2. QED
      BY <3>1
  <2>7. QED
    BY <2>5, <2>6
<1>28. QED
  BY <1>1, <1>2, <1>3, <1>4, <1>5, <1>6, <1>7, <1>8, <1>9, <1>10, <1>11, <1>12, <1>13, <1>14, <1>15, <1>16, <1>17, <1>18, <1>19, <1>20, <1>21, <1>22, <1>23, <1>24, <1>25, <1>26, <1>27, ShortIsTwice DEF Providers, Catalog

\* All calls of a handler that verify are one, under whatever names it is listed.
OneCall(h) ==
  \E n, place : \A x \in VerifyCalls(h) :
    ~IsGenericPrimitive(x) =>
      x.detail \in Catalog[x.provider].verify /\ NamesCall(n, x.detail) /\ x.where = place

\* Such a call outvotes nobody, if it verifies for the provider that the text speaks
\* of, or for none at all.
THEOREM OneCallOutvotesNobody ==
  ASSUME NEW h, IsHandler(h), OneCall(h),
         CallVotes(h, BaseProvider(h)) # {} \/ \A q : CallVotes(h, q) = {}
  PROVE  NotOutvoted(h)
<1>1. PICK n, place : \A x \in VerifyCalls(h) :
        ~IsGenericPrimitive(x) =>
          x.detail \in Catalog[x.provider].verify /\ NamesCall(n, x.detail) /\ x.where = place
  BY DEF OneCall
<1>2. \A q : IsFiniteSet(CallVotes(h, q)) /\ Cardinality(CallVotes(h, q)) \in Nat
  <2> TAKE q
  <2>1. CallVotes(h, q) \in SUBSET PreCfg(h)
    BY EvidenceParts DEF CallVotes
  <2>2. QED
    BY <2>1, FiniteEvidence, FS_Subset, FS_CardinalityType
<1>3. \A q \in Providers : Cardinality(CallVotes(h, q)) <= 2
  <2> TAKE q \in Providers
  <2>1. PICK a, b : \A v \in Catalog[q].verify : NamesCall(n, v) => v = a \/ v = b
    BY NamedTwice DEF Twice
  <2> DEFINE vote(v) == [kind |-> "sdk_verify_call", provider |-> q, detail |-> v, where |-> place]
  <2>2. \A x \in CallVotes(h, q) : x = vote(a) \/ x = vote(b)
    BY <1>1, <2>1, CallsAre DEF CallVotes
  <2> HIDE DEF vote
  <2>3. CallVotes(h, q) \in SUBSET ({vote(a)} \cup {vote(b)})
    BY <2>2
  <2>4. /\ IsFiniteSet({vote(a)} \cup {vote(b)})
        /\ Cardinality({vote(a)} \cup {vote(b)}) <= 2
    <3>1. IsFiniteSet({vote(a)}) /\ Cardinality({vote(a)}) = 1
      BY FS_Singleton
    <3>2. QED
      BY <3>1, FS_AddElement
  <2>5. /\ Cardinality(CallVotes(h, q)) <= Cardinality({vote(a)} \cup {vote(b)})
        /\ Cardinality({vote(a)} \cup {vote(b)}) \in Nat
    BY <2>3, <2>4, FS_Subset, FS_CardinalityType
  <2>6. QED
    BY <1>2, <2>4, <2>5
<1>4. CASE CallVotes(h, BaseProvider(h)) # {}
  <2>1. Cardinality(CallVotes(h, BaseProvider(h))) >= 1
    BY <1>2, <1>4, FS_EmptySet
  <2>2. QED
    BY <1>2, <1>3, <2>1 DEF NotOutvoted
<1>5. CASE \A q : CallVotes(h, q) = {}
  <2>1. Cardinality({}) = 0
    BY FS_EmptySet
  <2>2. QED
    BY <1>5, <2>1 DEF NotOutvoted
<1>6. QED
  BY <1>4, <1>5

-----------------------------------------------------------------------------
\* The gate.

\* Findings as the engine makes them: a broken file, or a handler by its line.
Genuine(findings) ==
  \A f \in findings :
    \/ f.rule = "engine/parse-error" /\ f.about = f.file
    \/ /\ f.rule # "engine/parse-error"
       /\ f.about \in Handlers /\ f.line = Line[f.about]

\* A baseline holds all that was found when it was written.
Capture(b) == b.findings = b.of /\ Genuine(b.of)

Underway(s) == pc[s] \in {"write", "writing", "judge"}

ScanInv(s) ==
  /\ Genuine(seen[s].findings)
  /\ Capture(loaded[s].baseline)
  /\ Underway(s) \/ Decided(s) => loaded[s].baseline.state # "torn"
  /\ Ended(s) /\ exit[s] = 0 => Counted(s) = {}
  /\ Ended(s) /\ exit[s] = 1 => Counted(s) # {} \/ (opts[s].strict /\ AnyStale(s))

\* seen and loaded are functions on the scans, whatever they hold.
Functional ==
  /\ seen = [s \in Scans |-> seen[s]]
  /\ loaded = [s \in Scans |-> [ignored |-> loaded[s].ignored, baseline |-> loaded[s].baseline]]

GateInv == GateTypeOK /\ Functional /\ Capture(baseline) /\ \A s \in Scans : ScanInv(s)

-----------------------------------------------------------------------------
\* The engine makes genuine findings.
LEMMA EngineIsGenuine == ASSUME NEW F PROVE Genuine(FindingsIn(F))
BY DEF Genuine, FindingsIn, VerdictOn, ParseError

\* The gate begins so.
LEMMA GateStarts == GateInit => GateInv
<1> SUFFICES ASSUME GateInit PROVE GateInv
  OBVIOUS
<1> USE DEF GateInit, NoBaseline, NothingSeen, NothingLoaded, NoOption
<1>1. GateTypeOK
  BY DEF GateTypeOK, Comment
<1>2. Functional /\ Capture(baseline)
  BY DEF Functional, Capture, Genuine
<1>3. ASSUME NEW s \in Scans PROVE ScanInv(s)
  BY DEF ScanInv, Genuine, Capture, Underway, Decided, Ended
<1> QED
  BY <1>1, <1>2, <1>3 DEF GateInv

\* What a scan knows and where it is.
Still(s) ==
  /\ pc'[s] = pc[s] /\ opts'[s] = opts[s] /\ exit'[s] = exit[s]
  /\ seen'[s] = seen[s] /\ loaded'[s] = loaded[s]

\* A scan that a step leaves alone keeps its part of the invariant.
LEMMA StillKeeps == ASSUME NEW s, ScanInv(s), Still(s) PROVE ScanInv(s)'
BY DEF Still, ScanInv, Capture, Underway, Decided, Ended, Counted, AnyStale, Stale,
       EntryMatched, Suppressed, ByComment, ByIgnore, ByBaseline

-----------------------------------------------------------------------------
\* The developer touches the tree only.
LEMMA DeveloperStep == ASSUME GateInv, Developer PROVE GateInv'
<1> USE DEF GateInv
<1>1. UNCHANGED <<baseline, pc, opts, seen, loaded, exit>>
  BY DEF Developer, ChangeHandler, MoveHandler, BreakOrRepair,
     SuppressByHand, Prune, Merge, Edit
<1>2. edits' \in Nat
  BY DEF Developer, ChangeHandler, MoveHandler, BreakOrRepair,
     SuppressByHand, Prune, Merge, Edit, GateTypeOK
<1>3. /\ code' \in [Handlers -> States \cup {"absent"}]
      /\ at' \in [Handlers -> Files]
      /\ broken' \in SUBSET Files
      /\ comments' \in SUBSET Comment
      /\ ignored' \in SUBSET Pattern
      /\ changed' \in SUBSET Files
  <2> USE DEF GateTypeOK
  <2>1. CASE \E h \in Handlers, v \in States \cup {"absent"} : ChangeHandler(h, v)
    BY <2>1 DEF ChangeHandler
  <2>2. CASE \E h \in Handlers, f \in Files : MoveHandler(h, f)
    BY <2>2 DEF MoveHandler
  <2>3. CASE \E f \in Files : BreakOrRepair(f)
    BY <2>3 DEF BreakOrRepair
  <2>4. CASE SuppressByHand
    BY <2>4 DEF SuppressByHand, Comment, Pattern
  <2>5. CASE \E s \in Scans : Prune(s)
    BY <2>5 DEF Prune, Comment
  <2>6. CASE Merge
    BY <2>6 DEF Merge, treeVars
  <2> QED
    BY <2>1, <2>2, <2>3, <2>4, <2>5, <2>6 DEF Developer
<1>4. GateTypeOK'
  BY <1>1, <1>2, <1>3 DEF GateTypeOK
<1>5. Functional' /\ Capture(baseline)'
  BY <1>1 DEF Functional, Capture
<1>6. ASSUME NEW s \in Scans PROVE ScanInv(s)'
  BY <1>1, StillKeeps DEF Still
<1> QED
  BY <1>4, <1>5, <1>6

\* A step of one scan: the tree stays, and so do the other scans.
LEMMA OtherScans ==
  ASSUME GateInv, NEW s \in Scans, ScanStep(s)
  PROVE  /\ UNCHANGED <<treeVars, changed, edits>>
         /\ \A t \in Scans \ {s} : ScanInv(t)'
<1>1. UNCHANGED <<treeVars, changed, edits>>
  BY DEF ScanStep, Parse, EngineFails, LoadIgnore, Load, LoadFails,
     WriteTruncate, WriteBaseline, Judge, Kill
<1>2. ASSUME NEW t \in Scans \ {s} PROVE Still(t)
  BY DEF ScanStep, Parse, EngineFails, LoadIgnore, Load, LoadFails,
     WriteTruncate, WriteBaseline, Judge,
         Kill, Goto, Still, GateInv, GateTypeOK, Functional
<1> QED
  BY <1>1, <1>2, StillKeeps DEF GateInv

\* What is read replaces one of the two things a scan has loaded.
LEMMA LoadedAnew ==
  ASSUME Functional, NEW s \in Scans, NEW b
  PROVE  /\ [loaded EXCEPT ![s].baseline = b]
              = [loaded EXCEPT ![s] = [ignored |-> loaded[s].ignored, baseline |-> b]]
         /\ [loaded EXCEPT ![s].ignored = b]
              = [loaded EXCEPT ![s] = [ignored |-> b, baseline |-> loaded[s].baseline]]
<1>1. loaded[s] = [ignored |-> loaded[s].ignored, baseline |-> loaded[s].baseline]
  BY DEF Functional
<1>2. /\ [loaded[s] EXCEPT !.baseline = b] = [ignored |-> loaded[s].ignored, baseline |-> b]
      /\ [loaded[s] EXCEPT !.ignored = b] = [ignored |-> b, baseline |-> loaded[s].baseline]
  BY <1>1
<1> QED
  BY <1>2

\* A step of one scan keeps the types and what is said of the baseline.
LEMMA ScanTypes ==
  ASSUME GateInv, NEW s \in Scans, ScanStep(s)
  PROVE  GateTypeOK' /\ Functional' /\ Capture(baseline)'
<1> USE DEF GateInv, Goto
<1>1. UNCHANGED <<code, at, broken, comments, ignored, changed, edits>>
  BY OtherScans DEF treeVars
<1>2. CASE \E o \in Options : Parse(s, o)
  <2> PICK o \in Options : Parse(s, o)
    BY <1>2
  <2>1. \A t \in Scans : /\ seen'[t].unparsed \subseteq seen'[t].files
                          /\ seen'[t].comments \subseteq Comment
    BY DEF Parse, GateTypeOK, Functional
  <2> QED
    BY <1>1, <2>1 DEF Parse, GateTypeOK, Functional, Capture
<1>3. CASE EngineFails(s)
  BY <1>1, <1>3 DEF EngineFails, NoOption, NothingSeen, GateTypeOK, Functional, Capture
<1>10. CASE LoadIgnore(s)
  <2>1. \A t \in Scans : /\ loaded'[t].baseline = loaded[t].baseline
                          /\ loaded'[t] = [ignored |-> loaded'[t].ignored,
                                           baseline |-> loaded'[t].baseline]
    BY <1>10 DEF LoadIgnore, Functional
  <2>2. loaded' = [t \in Scans |-> loaded'[t]]
    BY <1>10 DEF LoadIgnore, Functional
  <2>3. Functional'
    BY <1>10, <2>1, <2>2 DEF LoadIgnore, Functional
  <2> QED
    BY <1>1, <1>10, <2>1, <2>3 DEF LoadIgnore, GateTypeOK, Capture
<1>4. CASE Load(s)
  <2> DEFINE b == IF opts[s].read THEN baseline ELSE NoBaseline
  <2>1. loaded' = [loaded EXCEPT ![s] = [ignored |-> loaded[s].ignored, baseline |-> b]]
    BY <1>4, LoadedAnew DEF Load
  <2>2. b.state \in {"absent", "torn", "whole"}
    BY DEF NoBaseline, GateTypeOK
  <2> HIDE DEF b
  <2>3. Functional' /\ \A t \in Scans : loaded'[t].baseline.state \in {"absent", "torn", "whole"}
    BY <1>4, <2>1, <2>2 DEF Load, GateTypeOK, Functional
  <2> QED
    BY <1>1, <1>4, <2>3 DEF Load, GateTypeOK, Capture
<1>5. CASE LoadFails(s)
  BY <1>1, <1>5 DEF LoadFails, GateTypeOK, Functional, Capture
<1>6. CASE WriteTruncate(s)
  BY <1>1, <1>6 DEF WriteTruncate, TornBaseline, GateTypeOK, Functional, Capture, Genuine
<1>7. CASE WriteBaseline(s)
  <2>1. Genuine(seen[s].findings)
    BY DEF ScanInv
  <2>2. Capture(baseline)' /\ baseline'.state \in {"absent", "torn", "whole"}
    BY <1>7, <2>1 DEF WriteBaseline, Captured, TornBaseline, Capture, Genuine
  <2> QED
    BY <1>1, <1>7, <2>2 DEF WriteBaseline, GateTypeOK, Functional
<1>8. CASE Judge(s)
  BY <1>1, <1>8 DEF Judge, GateTypeOK, Functional, Capture
<1>9. CASE Kill(s)
  BY <1>1, <1>9 DEF Kill, NoOption, NothingSeen, NothingLoaded,
     NoBaseline, GateTypeOK, Functional, Capture
<1> QED
  BY <1>2, <1>3, <1>4, <1>5, <1>6, <1>7, <1>8, <1>9, <1>10 DEF ScanStep

\* A step of one scan keeps what is said of this scan.
LEMMA ScanOwn == ASSUME GateInv, NEW s \in Scans, ScanStep(s) PROVE ScanInv(s)'
<1> USE DEF GateInv, Goto
<1>0. ScanInv(s) /\ s \in DOMAIN pc /\ s \in DOMAIN exit /\ s \in DOMAIN opts
      /\ s \in DOMAIN seen /\ s \in DOMAIN loaded
  BY DEF GateTypeOK, Functional
<1>1. CASE \E o \in Options : Parse(s, o)
  <2> PICK o \in Options : Parse(s, o)
    BY <1>1
  <2>1. /\ pc'[s] = "parsed" /\ opts'[s] = o /\ loaded'[s] = loaded[s]
        /\ \E F : seen'[s].findings = FindingsIn(F)
    BY <1>0 DEF Parse
  <2> QED
    BY <1>0, <2>1, EngineIsGenuine DEF ScanInv, Capture, Underway, Decided, Ended
<1>2. CASE EngineFails(s)
  <2>1. pc'[s] = "ended" /\ exit'[s] = 2 /\ seen'[s] = NothingSeen /\ loaded' = loaded
    BY <1>0, <1>2 DEF EngineFails
  <2> QED
    BY <1>0, <2>1 DEF ScanInv, Capture, Genuine, NothingSeen, Underway, Decided, Ended
<1>8. CASE LoadIgnore(s)
  <2>0. loaded' = [loaded EXCEPT ![s] = [ignored |-> ignored, baseline |-> loaded[s].baseline]]
    BY <1>8, LoadedAnew DEF LoadIgnore
  <2>1. /\ pc'[s] = "ignoring" /\ opts' = opts /\ seen' = seen
        /\ loaded'[s].baseline = loaded[s].baseline
    BY <1>0, <1>8, <2>0 DEF LoadIgnore
  <2> QED
    BY <1>0, <2>1 DEF ScanInv, Capture, Underway, Decided, Ended
<1>3. CASE Load(s)
  <2> DEFINE b == IF opts[s].read THEN baseline ELSE NoBaseline
  <2>0. loaded' = [loaded EXCEPT ![s] = [ignored |-> loaded[s].ignored, baseline |-> b]]
    BY <1>3, LoadedAnew DEF Load
  <2>1. /\ pc'[s] \in {"write", "judge"} /\ opts' = opts /\ seen' = seen
        /\ loaded'[s].baseline = IF opts[s].read THEN baseline ELSE NoBaseline
        /\ opts[s].read => baseline.state # "torn"
    BY <1>0, <1>3, <2>0 DEF Load
  <2>2. Capture(loaded'[s].baseline) /\ loaded'[s].baseline.state # "torn"
    BY <2>1 DEF Capture, Genuine, NoBaseline
  <2> QED
    BY <1>0, <2>1, <2>2 DEF ScanInv, Capture, Underway, Decided, Ended
<1>4. CASE LoadFails(s)
  <2>1. pc'[s] = "ended" /\ exit'[s] = 2 /\ opts' = opts /\ seen' = seen /\ loaded' = loaded
    BY <1>0, <1>4 DEF LoadFails
  <2> QED
    BY <1>0, <2>1 DEF ScanInv, Capture, Underway, Decided, Ended
<1>5. CASE WriteTruncate(s) \/ WriteBaseline(s)
  <2>1. /\ pc[s] \in {"write", "writing"} /\ pc'[s] \in {"writing", "judge"}
        /\ opts' = opts /\ seen' = seen /\ loaded' = loaded /\ exit' = exit
    BY <1>0, <1>5 DEF WriteTruncate, WriteBaseline
  <2> QED
    BY <1>0, <2>1 DEF ScanInv, Capture, Underway, Decided, Ended
<1>6. CASE Judge(s)
  <2>1. /\ pc[s] = "judge" /\ pc'[s] = "ended"
        /\ opts' = opts /\ seen' = seen /\ loaded' = loaded
        /\ exit'[s] = 0 => Counted(s) = {}
        /\ exit'[s] = 1 => Counted(s) # {} \/ (opts[s].strict /\ AnyStale(s))
    BY <1>0, <1>6 DEF Judge
  <2>2. Counted(s)' = Counted(s) /\ AnyStale(s)' = AnyStale(s)
    BY <2>1 DEF Counted, AnyStale, Stale, EntryMatched, Suppressed, ByComment, ByIgnore,
       ByBaseline
  <2> QED
    BY <1>0, <2>1, <2>2 DEF ScanInv, Capture, Underway, Decided, Ended
<1>7. CASE Kill(s)
  <2>1. /\ pc'[s] = "killed" /\ opts'[s] = NoOption /\ seen'[s] = NothingSeen
        /\ loaded'[s] = NothingLoaded
    BY <1>0, <1>7 DEF Kill
  <2>2. ~Underway(s)' /\ ~Ended(s)' /\ ~Decided(s)'
    BY <2>1 DEF Underway, Ended, Decided
  <2>3. Genuine(seen'[s].findings)
    BY <2>1 DEF Genuine, NothingSeen
  <2>4. Capture(loaded'[s].baseline)
    BY <2>1 DEF Capture, Genuine, NothingLoaded, NoBaseline
  <2> QED
    BY <2>2, <2>3, <2>4 DEF ScanInv
<1> QED
  BY <1>1, <1>2, <1>3, <1>4, <1>5, <1>6, <1>7, <1>8 DEF ScanStep

\* Every step keeps it.
LEMMA GateStep == GateInv /\ [GateNext]_gateVars => GateInv'
<1> SUFFICES ASSUME GateInv, [GateNext]_gateVars PROVE GateInv'
  OBVIOUS
<1>1. CASE Developer
  BY <1>1, DeveloperStep
<1>2. CASE \E s \in Scans : ScanStep(s)
  <2> PICK s \in Scans : ScanStep(s)
    BY <1>2
  <2>1. \A t \in Scans : ScanInv(t)'
    BY OtherScans, ScanOwn
  <2> QED
    BY <2>1, ScanTypes DEF GateInv
<1>3. CASE UNCHANGED gateVars
  <2>1. \A t \in Scans : ScanInv(t)'
    BY <1>3, StillKeeps DEF gateVars, Still, GateInv
  <2> QED
    BY <1>3, <2>1 DEF gateVars, treeVars, GateInv, GateTypeOK, Functional, Capture, Genuine
<1> QED
  BY <1>1, <1>2, <1>3 DEF GateNext

\* The inductive invariant of the gate: a baseline is what its scan found, and an
\* exit code is what its scan knew.
THEOREM GateInvariance == GateSpec => []GateInv
BY GateStarts, GateStep, PTL DEF GateSpec

\* Every variable of the gate keeps its type.
THEOREM GateTypes == GateSpec => []GateTypeOK
<1>1. GateInv => GateTypeOK
  BY DEF GateInv
<1> QED
  BY <1>1, GateInvariance, PTL

-----------------------------------------------------------------------------
\* First lines tell the handlers apart.
OwnLines == \A g, h \in Handlers : Line[g] = Line[h] => g = h

\* Where first lines tell the handlers apart, a finding that a baseline
\* suppresses is about a handler of the same rule in it.
LEMMA KeyTells ==
  ASSUME OwnLines, NEW F, NEW G, Genuine(F), Genuine(G),
         NEW f \in F, NEW b \in G, Key(b) = Key(f)
  PROVE  b.rule = f.rule /\ b.about = f.about
BY DEF OwnLines, Genuine, Key

\* A green scan hides nothing but what a comment, .hookwardenignore or a baseline
\* with this very handler accepts (cli/src/pipeline.ts, baseline/match.ts), where
\* first lines tell the handlers apart.
THEOREM NothingNew == ASSUME OwnLines PROVE GateSpec => []NothingNewPasses
<1>1. GateInv => NothingNewPasses
  <2> SUFFICES ASSUME GateInv, NEW s \in Scans, Ended(s), exit[s] = 0,
                      NEW f \in seen[s].findings, Gates(f, opts[s].failOn),
                      ~ByComment(s, f), ~ByIgnore(s, f)
               PROVE  \E b \in loaded[s].baseline.of : b.rule = f.rule /\ b.about = f.about
    BY DEF NothingNewPasses
  <2>1. ScanInv(s)
    BY DEF GateInv
  <2>2. Suppressed(s, f)
    BY <2>1 DEF ScanInv, Counted
  <2>3. PICK b \in loaded[s].baseline.findings : Key(b) = Key(f)
    BY <2>2 DEF Suppressed, ByBaseline
  <2>4. /\ b \in loaded[s].baseline.of
        /\ Genuine(loaded[s].baseline.of) /\ Genuine(seen[s].findings)
    BY <2>1 DEF ScanInv, Capture
  <2> QED
    BY <2>3, <2>4, KeyTells
<1> QED
  BY <1>1, GateInvariance, PTL

\* A tree that was captured as it is does not fail (cli/src/pipeline.ts).
THEOREM CapturedIsQuiet == GateSpec => []BaselineSilences
<1>1. GateInv => BaselineSilences
  <2> SUFFICES ASSUME GateInv, NEW s \in Scans, Ended(s), exit[s] = 1, ~opts[s].strict
               PROVE  loaded[s].baseline.of # seen[s].findings
    BY DEF BaselineSilences
  <2>1. ScanInv(s)
    BY DEF GateInv
  <2>2. PICK f \in seen[s].findings : ~Suppressed(s, f)
    BY <2>1 DEF ScanInv, Counted
  <2>3. f \notin loaded[s].baseline.findings
    BY <2>2 DEF Suppressed, ByBaseline
  <2> QED
    BY <2>1, <2>3 DEF ScanInv, Capture
<1> QED
  BY <1>1, GateInvariance, PTL

\* No scan judges by a torn baseline (cli/src/baseline/read.ts).
THEOREM Loud == GateSpec => []TornIsLoud
<1>1. GateInv => TornIsLoud
  BY DEF GateInv, ScanInv, TornIsLoud, Decided
<1> QED
  BY <1>1, GateInvariance, PTL

\* A finding that a scan lets pass is let pass by the next one, unless a block
\* comment was what suppressed it.
LEMMA StillSuppressed ==
  ASSUME NEW s \in Scans, NEW t \in Scans, AfterPruning(s, t), GateInv,
         NEW f \in seen[s].findings, Suppressed(s, f), ~Suppressed(t, f)
  PROVE  \E c \in Stale(s).comments : c.form = "block" /\ Names(c, f)
<1>1. ~ByIgnore(s, f)
  <2> SUFFICES ASSUME ByIgnore(s, f) PROVE FALSE
    OBVIOUS
  <2>1. PICK p \in loaded[s].ignored :
          /\ ~p.negated /\ f.file \in p.files
          /\ ~ \E q \in loaded[s].ignored : q.negated /\ f.file \in q.files /\ q.line > p.line
    BY DEF ByIgnore, Hides
  <2>2. p \notin Stale(s).ignored
    BY <2>1 DEF Stale
  <2>3. p \in loaded[t].ignored /\ loaded[t].ignored \subseteq loaded[s].ignored
    BY <2>2 DEF AfterPruning
  <2>4. Hides(loaded[t].ignored, f.file)
    BY <2>1, <2>3 DEF Hides
  <2> QED
    BY <2>4 DEF Suppressed, ByIgnore
<1>2. ~ByBaseline(s, f)
  BY DEF ByBaseline, AfterPruning, Suppressed
<1>3. PICK c \in seen[s].comments : Names(c, f)
  BY <1>1, <1>2 DEF Suppressed, ByComment
<1>4. c \in Stale(s).comments
  BY <1>3 DEF AfterPruning, Suppressed, ByComment
<1>5. c.form \in {"line", "block"}
  BY FormsAssumption DEF GateInv, GateTypeOK, Comment
<1> QED
  BY <1>3, <1>4, <1>5 DEF Stale, EntryMatched

\* What is left after pruning is in use: whatever patterns were removed, each of
\* the others still hides the file of a finding, and each line comment names one.
LEMMA NothingStaleLeft ==
  ASSUME NEW s \in Scans, NEW t \in Scans, AfterPruning(s, t)
  PROVE  Stale(t).comments = {} /\ Stale(t).ignored = {} /\ Stale(t).baseline = Stale(s).baseline
<1>1. Stale(t).comments = {}
  BY DEF AfterPruning, Stale, EntryMatched
<1>2. ASSUME NEW p \in Stale(t).ignored PROVE FALSE
  <2>1. p \in loaded[s].ignored /\ ~p.negated /\ p \notin Stale(s).ignored
    BY DEF AfterPruning, Stale
  <2>2. PICK f \in seen[s].findings : f.file \in p.files /\ ByIgnore(s, f)
    BY <2>1 DEF Stale
  <2>3. PICK r \in loaded[s].ignored :
          /\ ~r.negated /\ f.file \in r.files
          /\ ~ \E q \in loaded[s].ignored : q.negated /\ f.file \in q.files /\ q.line > r.line
    BY <2>2 DEF ByIgnore, Hides
  <2>4. r \in loaded[t].ignored /\ loaded[t].ignored \subseteq loaded[s].ignored
    BY <2>2, <2>3 DEF AfterPruning, Stale
  <2>5. ByIgnore(t, f)
    BY <2>3, <2>4 DEF ByIgnore, Hides
  <2> QED
    BY <2>2, <2>5 DEF AfterPruning, Stale
<1>3. Stale(t).baseline = Stale(s).baseline
  BY DEF AfterPruning, Stale
<1> QED
  BY <1>1, <1>2, <1>3

\* Whoever removes the comments and the patterns that a scan reported as stale is
\* not punished by the next scan of the same code (cli/src/suppress/stale.ts,
\* cli/src/suppress/ignore-file.ts, annotateOne in cli/src/pipeline.ts).
THEOREM Pruning == GateSpec => []PruningIsSafe
<1>1. GateInv => PruningIsSafe
  <2> SUFFICES ASSUME GateInv, NEW s \in Scans, NEW t \in Scans, Decided(t), exit[t] = 1,
                      AfterPruning(s, t), opts[t].failOn = opts[s].failOn,
                      Counted(s) = {}, ~(opts[t].strict /\ Stale(s).baseline # {})
               PROVE  \E f \in seen[s].findings, c \in Stale(s).comments :
                        c.form = "block" /\ Names(c, f)
    BY DEF PruningIsSafe
  <2>1. Counted(t) # {} \/ (opts[t].strict /\ AnyStale(t))
    BY DEF GateInv, ScanInv, Decided
  <2>2. PICK f \in Counted(t) : TRUE
    BY <2>1, NothingStaleLeft DEF AnyStale
  <2>3. f \in seen[s].findings /\ Gates(f, opts[s].failOn) /\ ~Suppressed(t, f)
    BY <2>2 DEF Counted, AfterPruning
  <2>4. Suppressed(s, f)
    BY <2>3 DEF Counted
  <2> QED
    BY <2>3, <2>4, StillSuppressed
<1> QED
  BY <1>1, GateInvariance, PTL
=============================================================================
