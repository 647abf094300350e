----------------------------- MODULE McpServer -----------------------------
\* mcp/src/server.ts and tools: one process that answers calls on its standard
\* input.  Calls overlap wherever a handler awaits: the drift gate (hashing), the
\* runtime of a language and the rule set, which are loaded once by whoever needs
\* them first and kept in variables of the module.  The audit tool awaits nothing.
EXTENDS AuditChain

CONSTANTS Calls,      \* ids of requests
          Languages,  \* those whose parser has to be loaded
          KnownProviders,
          Inputs,     \* arguments of scan_handler [code, files, language, provider]
          Packs,      \* arguments of verify_audit_chain
          Releases,   \* versions of engine and rules and a hash of the rules
          Manifests   \* what build-manifest.json may hold: a release or Absent

ASSUME InputsAssumption == Inputs \cap Packs = {}
ASSUME FilesAssumption == \A args \in Inputs : args.files \in Seq({args.files[i] : i \in DOMAIN args.files})
ASSUME PacksAssumption == \A pack \in Packs : pack.object => Shaped(pack) /\ Unforged(pack)

VARIABLES loaded,     \* the release this process has in memory
          pinned,     \* what its manifest says
          server,     \* "off", "up", "refused", "closed"
          readable,   \* languages whose grammar can be read from disk
          runtime,    \* "none", "loading", "ready" or "failed", by language
          ruleSet,    \* {} until it is loaded, then the providers it has rules for
          call
vars == <<loaded, pinned, server, readable, runtime, ruleSet, call>>

Idle == [at |-> "idle"]
Answered(c) == call[c].at = "answered"
Pending(c) == call[c].at \notin {"idle", "answered"}
Answer(c, args, result) == call' = [call EXCEPT ![c] = [at |-> "answered", args |-> args, result |-> result]]

Init ==
  /\ loaded \in Releases /\ pinned \in Manifests
  /\ server = "off" /\ readable \in SUBSET Languages
  /\ runtime = [l \in Languages |-> "none"] /\ ruleSet = {}
  /\ call = [c \in Calls |-> Idle]

-----------------------------------------------------------------------------
\* Mutant: the gate leaves out the text of the rules.
DriftOfVersions ==
  IF loaded.engine # pinned.engine THEN "engine_drift"
  ELSE IF loaded.rules # pinned.rules THEN "rules_drift" ELSE "none"
\* The gate compares what is in memory with the manifest that was read at boot.
Drift ==
  IF loaded.engine # pinned.engine THEN "engine_drift"
  ELSE IF loaded.rules # pinned.rules \/ loaded.hash # pinned.hash THEN "rules_drift" ELSE "none"

Boot ==
  /\ server = "off"
  /\ server' = IF pinned = Absent THEN "refused" ELSE IF Drift # "none" THEN "refused" ELSE "up"
  /\ UNCHANGED <<loaded, pinned, readable, runtime, ruleSet, call>>

\* Standard input ends: the process exits with its calls unanswered.
Close ==
  /\ server = "up" /\ server' = "closed"
  /\ UNCHANGED <<loaded, pinned, readable, runtime, ruleSet, call>>

\* An installation in place takes the grammars away and brings them back.
Reinstall ==
  /\ server = "up" /\ \E l \in Languages : readable' = IF l \in readable THEN readable \ {l} ELSE readable \cup {l}
  /\ UNCHANGED <<loaded, pinned, server, runtime, ruleSet, call>>

-----------------------------------------------------------------------------
\* scan_handler, from one await to the next.

Request(c) ==
  /\ server = "up" /\ call[c] = Idle
  /\ \E args \in Inputs : call' = [call EXCEPT ![c] = [at |-> "gate", args |-> args]]
  /\ UNCHANGED <<loaded, pinned, server, readable, runtime, ruleSet>>

InputError(args) ==
  IF ~args.code /\ args.files = <<>> THEN "empty_input"
  ELSE IF args.code /\ args.files # <<>> THEN "exclusive_input_modes"
  ELSE IF args.provider \notin KnownProviders \cup {Absent} THEN "unknown_provider"
  ELSE "none"
\* A given language holds for all files; a blob without one is TypeScript.
Sources(args) ==
  LET files == IF args.code THEN <<[language |-> "ts", parses |-> TRUE]>> ELSE args.files
  IN [i \in DOMAIN files |->
        IF args.language = Absent THEN files[i] ELSE [files[i] EXCEPT !.language = args.language]]

Gate(c) ==
  /\ server = "up" /\ call[c].at = "gate"
  /\ LET args == call[c].args
         wrong == IF Drift # "none" THEN Drift ELSE InputError(args)
     IN IF wrong # "none" THEN Answer(c, args, [error |-> wrong])
        ELSE call' = [call EXCEPT ![c] = [at |-> "parse", args |-> args, next |-> 1]]
  /\ UNCHANGED <<loaded, pinned, server, readable, runtime, ruleSet>>

\* parseSource: the files in turn, each as soon as its runtime is there.  Whoever
\* finds no runtime starts to load it; a load that failed fails everybody.
Parse(c) ==
  /\ server = "up" /\ call[c].at = "parse"
  /\ LET files == Sources(call[c].args)
         language == files[call[c].next].language
     IN /\ call[c].next <= Len(files)
        /\ \/ /\ language \in Languages => runtime[language] = "ready"
              /\ call' = [call EXCEPT ![c] = [at |-> "parse", args |-> @.args, next |-> @.next + 1]]
              /\ UNCHANGED runtime
           \/ /\ language \in Languages /\ runtime[language] = "failed"
              /\ Answer(c, call[c].args, [error |-> "internal_error"])
              /\ UNCHANGED runtime
           \/ /\ language \in Languages /\ runtime[language] = "none"
              /\ runtime' = [runtime EXCEPT ![language] = "loading"]
              /\ UNCHANGED call
  /\ UNCHANGED <<loaded, pinned, server, readable, ruleSet>>

\* Mutant: a grammar that cannot be read leaves its promise open.
LoadNever(l) ==
  /\ server = "up" /\ runtime[l] = "loading" /\ l \in readable
  /\ runtime' = [runtime EXCEPT ![l] = "ready"]
  /\ UNCHANGED <<loaded, pinned, server, readable, ruleSet, call>>
\* readWasm and initRuntime.
Load(l) ==
  /\ server = "up" /\ runtime[l] = "loading"
  /\ runtime' = [runtime EXCEPT ![l] = IF l \in readable THEN "ready" ELSE "failed"]
  /\ UNCHANGED <<loaded, pinned, server, readable, ruleSet, call>>

AwaitRules(c) ==
  /\ server = "up" /\ call[c].at = "parse" /\ call[c].next > Len(Sources(call[c].args))
  /\ ruleSet' = IF ruleSet = {} THEN KnownProviders ELSE ruleSet
  /\ call' = [call EXCEPT ![c] = [at |-> "evaluate", args |-> call[c].args]]
  /\ UNCHANGED <<loaded, pinned, server, readable, runtime>>

\* A file that does not parse is a finding; the others are judged by the rules of
\* the call's provider, or of all.
Findings(args, rules) ==
  LET mine == IF args.provider = Absent THEN rules ELSE rules \cap {args.provider}
  IN {<<i, "parse-error">> : i \in {j \in DOMAIN Sources(args) : ~Sources(args)[j].parses}}
       \cup {i \in DOMAIN Sources(args) : Sources(args)[i].parses} \X mine
\* Mutant: the filter for one call's provider stays on the shared rules.
EvaluateShared(c) ==
  /\ server = "up" /\ call[c].at = "evaluate"
  /\ ruleSet' = IF call[c].args.provider = Absent THEN ruleSet ELSE ruleSet \cap {call[c].args.provider}
  /\ Answer(c, call[c].args, [error |-> "none", findings |-> Findings(call[c].args, ruleSet'), pin |-> pinned])
  /\ UNCHANGED <<loaded, pinned, server, readable, runtime>>
Evaluate(c) ==
  /\ server = "up" /\ call[c].at = "evaluate"
  /\ Answer(c, call[c].args, [error |-> "none", findings |-> Findings(call[c].args, ruleSet), pin |-> pinned])
  /\ UNCHANGED <<loaded, pinned, server, readable, runtime, ruleSet>>

\* verify_audit_chain.
Verify(c) ==
  /\ server = "up" /\ call[c] = Idle
  /\ \E pack \in Packs : Answer(c, pack, AuditVerdict(pack))
  /\ UNCHANGED <<loaded, pinned, server, readable, runtime, ruleSet>>

Step(c) == Gate(c) \/ Parse(c) \/ AwaitRules(c) \/ Evaluate(c)
Next ==
  \/ Boot \/ Close \/ Reinstall
  \/ \E c \in Calls : Request(c) \/ Step(c) \/ Verify(c)
  \/ \E l \in Languages : Load(l)
Spec ==
  /\ Init /\ [][Next]_vars
  /\ WF_vars(Boot) /\ \A c \in Calls : WF_vars(Step(c)) /\ \A l \in Languages : WF_vars(Load(l))

-----------------------------------------------------------------------------
Scanned(c) == Answered(c) /\ call[c].args \in Inputs
Needs(args) == {Sources(args)[i].language : i \in DOMAIN Sources(args)} \cap Languages
Own(args, result) ==
  /\ result.error = "none" => InputError(args) = "none" /\ result.findings = Findings(args, KnownProviders)
  /\ result.error = "internal_error" =>
       InputError(args) = "none" /\ \E l \in Needs(args) : runtime[l] = "failed"
  /\ result.error \notin {"none", "internal_error"} => result.error = InputError(args)
Pinned(pin) == pin.engine = loaded.engine /\ pin.rules = loaded.rules /\ pin.hash = loaded.hash

\* Whatever other calls run in between, a scan is answered as it would be alone:
\* with its own error, with the findings of its own files under the rules of its
\* own provider, or with internal_error because one of its own languages could not
\* be loaded.
OwnAnswers == \A c \in Calls : Scanned(c) => Own(call[c].args, call[c].result)

\* Findings are reported under a pinned release, and it is the one in memory, in
\* the versions and in the text of the rules.
PinnedAnswers ==
  \A c \in Calls : Scanned(c) /\ call[c].result.error = "none" => Pinned(call[c].result.pin)

\* verify_audit_chain: what it says of a pack is what became of the pack.
ChainVerdictIsExact ==
  \A c \in Calls : Answered(c) /\ call[c].args \in Packs => VerdictIsExact(call[c].args, call[c].result)

\* Every call is answered, or the input of the server has ended: a load that is
\* shared ends for all that wait for it, with or without a runtime.
CallsAreAnswered == \A c \in Calls : Pending(c) ~> Answered(c) \/ server = "closed"

-----------------------------------------------------------------------------
\* The inductive invariant of McpServerProofs: what holds of a call at each place
\* it can be in.
TypeOK ==
  /\ server \in {"off", "up", "refused", "closed"}
  /\ runtime \in [Languages -> {"none", "loading", "ready", "failed"}]
  /\ ruleSet \in {{}, KnownProviders}
  /\ call = [c \in Calls |-> call[c]]
CallInv(c) ==
  /\ call[c].at \in {"idle", "gate", "parse", "evaluate", "answered"}
  /\ call[c].at \in {"gate", "parse", "evaluate"} => call[c].args \in Inputs
  /\ call[c].at \in {"parse", "evaluate"} => InputError(call[c].args) = "none"
  /\ call[c].at = "parse" => call[c].next \in Nat \ {0}
  /\ call[c].at = "evaluate" => ruleSet = KnownProviders
  /\ Scanned(c) => Own(call[c].args, call[c].result)
  /\ Scanned(c) /\ call[c].result.error = "none" => Pinned(call[c].result.pin)
Inv == TypeOK /\ (server = "up" => Drift = "none") /\ \A c \in Calls : CallInv(c)
=============================================================================
