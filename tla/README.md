# Hookwarden in TLA+

Hookwarden scans source trees for webhook handlers that do not verify who
calls them. Around that scan it rewrites files (`hookwarden fix`), serves a
local page that does the same (`hookwarden ui`), gates builds (baseline,
suppressions, exit codes), comments on pull requests (the GitHub Action),
answers an agent over stdio (`hookwarden-mcp`), installs itself into the
configuration of other programs (`hookwarden-mcp init`), and downloads itself
(the Python package). This directory models the parts of it that change
something, or decide something, over several steps: TLA+ modules, small
instances for TLC, and proofs for TLAPS.

Contents: [the system](#the-system), [the modules](#the-modules),
[the runs](#the-runs), [fairness](#fairness), [the proofs](#the-proofs),
[where code and documentation differ](#where-code-and-documentation-differ),
[what is not modelled](#what-is-not-modelled), [the plan](#the-plan).
Paths without a prefix are relative to `packages/`, those of the Python
package to `python-packages/hookwarden/src/hookwarden/`.

## The system

One scan is a pipeline without shared state: walk the tree, parse every file,
find handlers, evaluate the rules on each, annotate the findings with
suppressions, render. Inside it, what is hard is that many small judgements
(evidence, attribution to a provider, order of calls, one predicate per rule,
the verdict of all rules) add up to one word, "verified". Around it, several
processes work on one tree, file writes happen in several steps, calls fail,
and a decision is made from something read earlier.

| component | state it keeps | operations | talks to | what is hard | correct when |
|---|---|---|---|---|---|
| fix: `cli/src/commands/fix.ts`, `fix/src/staging.ts` | source files, `.gitignore`, `.hookwarden-fix-staging/<run-id>/` | scan, plan, dry run or write, stage, rename, clean up | the pipeline (scan), the codegen routines of the rules, the walker through `.gitignore` | three reads of each file; several runs and an editor; a throw or a kill between any two steps; a batch of renames | no file is seen half-written; nothing planned is lost after the first rename; exit code 0 means everything is in place; unsafe rewrites need consent |
| fix planning: `fix/src/index.ts`, `import-inserter.ts`, `conflict-resolver.ts` | none between commands; the findings left in the tree | select, rewrite, insert imports, resolve conflicts, splice, suggest | fix, codegen routines | the order of edits, touching and empty ranges, what a user does with a suggestion | applied edits are disjoint; splicing is simultaneous; all or nothing; following the advice helps |
| ui: `ui/src/server.ts`, `cli/src/commands/ui.ts` | a queue of requests, the server | scan, preview, apply, shutdown | fix and the pipeline, a browser | concurrent requests, slow bodies, throws, Ctrl+C | one apply or scan at a time; success means done; everybody is answered |
| gate: `cli/src/pipeline.ts`, `baseline/`, `suppress/`, `severity-threshold.ts`, `commands/scan.ts` | the baseline file; comments and `.hookwardenignore` in the tree | scan, capture, judge | engine, git (for `--diff-only`), CI | the tree changes between capture and gate; fingerprints; the baseline is rewritten while others read it | nothing new passes; what was accepted stays quiet; a broken baseline is an error; what is reported stale can be removed |
| Action: `github-action/src/` | the workspace of a run; the comments and analyses at GitHub | scan base, scan head, SARIF, comment, upload, conclude | CLI as a subprocess, git, GitHub's API | overlapping runs, failing calls, two scans of different extent | new is exactly new; green is safe; one summary, the newest |
| init: `mcp/src/init.ts`, `client-config/` | the configurations of MCP clients, `.bak` and `.tmp` beside them | read, merge, back up, write, rename | Claude Desktop, Cursor, Continue, which write the same files | two inits, an application that saves, a kill between steps | never an unreadable configuration; no server lost; a backup of what was replaced |
| reachability: `engine/src/model/reachability.ts` | visited names, frontier | breadth-first search over calls and imports | evidence, queue overlay, rules | cycles, equal names in several files, depth and cap | what is found is reachable and nearest; what is missed is missed for a reason |
| project model: `engine/src/model/` (evidence, attribution, order of calls, queues) | none | assemble a handler's evidence, attribute it to a provider, order its calls | parsers, reachability, the catalog | 27 providers that verify under the same few names; evidence from imports, headers, routes and environment that disagrees | a handler keeps its provider when verification is added |
| rules and evaluation: `rules/src/`, `engine/src/evaluate.ts`, `evaluator/` | the rule pack | bind rules to providers, predicates, verdict of a handler, edits of the codegen routines | model, fix | a predicate per rule over evidence of several sources; verdicts that are not ordered by strength; four languages | what does not verify is never blessed; a removal is noticed; what verifies is not accused; a fix heals what it is for |
| handler discovery: `engine/src/adapters/`, `model/build.ts` | none | find handlers | parsers | recognising frameworks | every route is found once |
| parsers: `engine/src/parsers/` | WASM runtimes | parse | Babel, tree-sitter | files that do not parse | a failure is a finding |
| walker, configuration, command line: `cli/src/walker/`, `config/`, `index.ts` | none | list files, resolve keys, parse flags | pipeline | ignore files, unreadable files | every source file is a candidate |
| diff, history: `cli/src/diff/`, `history/` | none | changed files, old blobs | git | names relative to different directories, several versions of a path | findings belong to the commit they are given |
| liveness: `cli/src/liveness/` | none | probe a key | providers | the file may have changed since the scan | nothing but an API key is sent |
| MCP server: `mcp/src/server.ts`, `tools/`, `drift-check.ts` | lazily loaded runtimes and rules, the manifest read at boot | boot gate, scan_handler, verify_audit_chain | an agent over stdio | concurrent calls share loads; a load that fails; an installation in place | a call is answered as if it were alone; findings come from the pinned release; the verdict on an evidence pack is exact; every call is answered |
| launcher: `__main__.py`, `_cache.py`, `_fetch.py`, `_exec.py` | the cached binary, its file lock | lock, check the hash, download and retry, replace, chmod, execv | GitHub releases, the user's other launches | many launches at once, two kinds of machine over one home directory, kills, bad downloads | nobody runs what was not checked; nobody downloads what is there; every launch ends |
| pr-renderer, ui report, render, typo-shims, apps, scripts, e2e | none | formatting, packaging, tests | | | |

`ui` and `fix` share code and files: an apply of the ui is a `planFixes` and
`writeFixes` of the fix command, so `UiServer` extends `FixCommit`. The gate
and the Action are joined by the exit code and the JSON report of the CLI;
`ActionRun` models a scan by what it reports. `Reachability` computes what
`Judge` takes as `h.reach`, the symbols a handler reaches; `Judge` computes the
findings that `ScanGate` takes as the state of a handler and `ActionRun` as
"verifies on the spot" or "imports its verification". `FixPlan` orders the edits
whose content is in `Codegen`. `McpServer` applies the same rules to the code an
agent sends.

## The modules

`FixPromise` is the abstract specification of a fix run: it works unseen,
commits to a set of files, replaces each at most once by a complete text, and
says "applied" only when none is left. It has no staging directory.

`FixCommit` is the detailed one. State: `disk`, `gitignore`, and for each run
its place `pc`, its command line `opts`, what its scan `seen`, its `plan`, its
staging `dir` and `staged` copies, and the files it has `committed`. Actions
follow the code's awaits: `Scan`, `Plan` or `Refuse` (planFixes: a conflict, a
dry run, nothing to do), `IgnoreRead`, `IgnoreTruncate`, `IgnoreWrite`
(ensureGitignoreEntry; fs.writeFile truncates, then writes),
`CreateStagingRun`, `StageRead`, `StageWrite` (the splice and stageFile),
`CommitStaging`, `Rename`, `RemoveStaging`; `Throw` and `Kill` at any of them;
`UserSave` and `UserIgnores` for an editor. A text is its version, the class
of the finding in it, and whether it is sound (not spliced at foreign offsets)
and whole (not half-written). `Promise` is the refinement mapping.
`FixGitignore` adds the history variable `overtaken`: somebody wrote
`.gitignore` between a run's read of it and its write.

`FixPlan` is about the edits of one command: `Invoke` with any `--only` and
mode, `Orchestrate` (selection, rewrites, imports), `ApplyEdit` and
`RejectEdit` for resolveConflicts edit by edit, `Suggest`, `Accept`, `Write`;
and the user who runs the suggestion line by line (`TakeAdvice`, `RunAdvice`,
`DropAdvice`). A finding's range is empty where the routine inserts a line (the
guards for null and for a missing secret), at byte 0 on the first line; `Top`
says where the imports of a file go. `Swallows` is an insertion that comes before
a replacement with the same offset in the list, and so in the splice. `InPlace` is applyEditsInPlace, a recursive function over the
edits from the bottom up; `Simultaneous` is its reference definition, an order
of the bytes that stay and the texts that come in.

`UiServer` extends `FixCommit` with the HTTP server: `Arrive` chains a request
on the promise, `Start` is `queue.then`, `BodyRead` and `BodyBad` readJson and
fixTarget, `ScanEnds`, `ApplyStep` (a step of FixCommit), `ApplyEnds`,
`Fail`, `Respond`, `Shutdown`.

`ScanGate` has a developer who writes, moves, breaks and suppresses handlers and
removes what a scan reported as stale (`Prune`), and scans: `Parse` (walk, parse,
evaluate) or `EngineFails` (nothing reported, exit 2), `LoadIgnore`, `Load` or
`LoadFails` (the baseline), `WriteTruncate` and `WriteBaseline` (two that write
at once may leave the end of the longer text behind the shorter), `Judge` (exit
code), `Kill`. A finding is a rule, a file, a handler and a state; `Key` is
the fingerprint; `Hides` is the order of the patterns and negations of
`.hookwardenignore`.

`ActionRun` has pushes to the base branch and to a pull request, each starting
a workflow run: `Fetch`, `ScanBase`, `ScanHead`, `ScanAll`, `EmitSarif`,
`ListComments`, `PostComment`, `Upload`, `Finish`, every call possibly failing
as index.ts handles it; and people who comment and delete. A file is its path from
the root of the repository. A scan has the files below `WorkDir` (`Scanned`), each
under its name from there (`NameInScan`); `Changed` are the names git prints, from
the root; `Candidates` is where the two are compared. A finding is its fingerprint:
rule, file and first line of the handler, which a "reworded" handler changes.

`Judge` is the verdict on one handler, scan by scan. It is built on a chain of
modules, one per step of the program:

- `Catalog`: the providers, their cues and the calls by which they verify
  (`rules/src/catalog.ts`, `engine/src/model/catalog.ts`), a record each.
- `Evidence`: the handler as the parsers describe it (a record `h`: imports,
  routes, headers, calls reached, statements, comparisons, windows) and what
  the engine makes of it: `PreCfg`, `Provider`, `VerifyOrdering`, the queue
  overlay.
- `RulePredicates`: a predicate per rule, by language.
- `Rules`: which rule is bound to which provider (`Kinds`, `AppliesTo`), and
  `Report`, the verdict of a handler from its findings.
- `Codegen`: `Offers` and `Fixed`, the edits of the codegen routines.

`Judge` puts them in sequence: `Assemble`, `OrderCalls`, `Evaluate`, and between
two scans `Fix` (an edit of a finding) or `Unverify` (a developer takes the
verification out). What a handler really does is in `h.truth`, which no operator
of the program reads: the properties compare the report with it. `Truthful`
ties it to the source, once and for all providers: a handler said to verify
nothing calls nothing that is named like a verification. `MCJudge` enumerates the
handlers.

`AuditChain` is verify-audit-chain.ts as operators on an evidence pack. Hashes
and signatures are terms, equal only if they are made of equal things. A text
that the code decodes before it compares (seq, hash, prev, root, signature) is a
value under a spelling, `Decoded` takes the value and `Hex` is the one
spelling the code writes; `extra` of a row and `rest` of a pack are what only
the manifest hash covers. `RowHolds`, `Walked` and `Throws` follow the walk over the rows,
`AuditVerdict` the result. `VerdictIsExact` says from the other end what the
result must be for a pack that was, or was not, changed since it was exported.

`McpServer` extends it with the process: `Boot` (the gate over the manifest),
`Request`, `Gate`, `Parse`, `Load`, `AwaitRules`, `Evaluate` for scan_handler
from one await to the next, `Verify` for the audit tool, `Close` when standard
input ends, and `Reinstall` for an installation in place, which takes grammars
away and brings them back. `runtime` and `ruleSet` are the promises the module
keeps for all calls.

`McpInit` has processes that visit the clients in turn: `Run`, `Read`,
`OpenBak`, `FillBak`, `OpenTmp`, `FillTmp`, `Rename`, `Die`, and applications
that `Save`. A process that opened `.tmp` keeps writing to that file when
another process renames it.

`Reachability` is computeReachableSymbols as a state machine: `ExpandNext` and
`Record` or `Drop` are the two loops, `NextHop` and `Return` the end of a hop.
`NamesWithin` is the reference definition, a recursive function over hops.

`Launcher` is the Python entry point: `Acquire` or `LockTimeout`, `Check`,
`Download`, `Write`, `Replace`, `Chmod`, `Exec`; `Retry` is the exception
handler around the middle four, which takes every OSError for a network error.
`Kill` ends a launch anywhere and the system drops its lock; `Spoil` damages
or removes the cached file. `stale` is a history variable: whose file has
changed since it was written or checked.

`FixProofs` (of `FixCommit`, `FixGitignore` and `UiServer`), `FixPlanProofs`,
`ScanProofs` (of `Judge` and `ScanGate`), `ActionRunProofs`, `McpInitProofs`,
`McpServerProofs`, `ReachabilityProofs` and `LauncherProofs` hold the theorems.
`MC*` modules give the sets that a configuration cannot write down.

`overlap` in `ActionRun` and `McpInit` is a history variable: properties that
hold only as long as two actors do not work on one thing at once are stated
with it, so one run explores both the quiet and the overlapping behaviours.
Definitions commented "Mutant" are the bugs each property was tried against;
no specification uses them.

## The runs

| run | question | size |
|---|---|---|
| `fix` | two runs at once, writing or not, `--mode all` with and without consent, and an editor on two files, throws and kills anywhere: does the protocol implement `FixPromise` (`KeepsPromise`, in which every file is whole at every moment); does what was planned survive (`StagedCopiesSurvive`) and exit code 0 mean done (`DoneMeansCommitted`); does `.gitignore` cover the copies and keep its lines (`StagingIsIgnored`, `IgnoreLinesKept`)? | 1.7 M states |
| `plan_resolve` | every subset of eight findings (insertions at byte 0, beside an import and at both ends of the order with a replacement), every `--only`, both modes: `AppliedAreDisjoint`, `SpliceIsSimultaneous`, `AllOrNothing`, `AdviceHelps` | 0.45 M |
| `ui` | two applies and a scan, good and bad bodies, throws, Ctrl+C: `InstalledTextIsSound`, `ScansSeeASettledTree`, and `RequestsAreAnswered` under fairness | 1.2 M |
| `gate` | two scans at once, capturing, strict, of a diff, while handlers change: `NothingNewPasses`, `BaselineSilences`, `TornIsLoud`, `PruningIsSafe` | 5.5 M |
| `action` | two runs at the root of the repository, people writing: `NewIsExact`, `GreenIsSafe`, `OneSticky`, `StickyIsLatest` | 5.9 M |
| `action_monorepo` | violation: with the input `working-directory` set to a package, a pull request that adds an unverified handler gets a green check (`GreenIsSafe`) | |
| `judge` | every provider and language, every way of naming the provider and of verifying, scanned, edited and scanned again: `NeverBlessed`, `RemovalIsNoticed`, `SafeIsNotAccused`, `VerifyingKeepsTheName`, `EarlyEffectsAreSeen`, `WideWindowsAreSeen`, `FixHeals` | 0.12 M |
| `serve` | two calls of one server in every order of their awaits, grammars that come and go, four manifests, the end of input: `OwnAnswers`, `PinnedAnswers`, `CallsAreAnswered` under fairness; and what the audit tool says of 64 edited packs: `ChainVerdictIsExact` | 0.19 M |
| `init_race` | two inits, two clients, saving applications, kills: `NeverCorruptsAlone`, `MergeIsAtomic`, `BackupIsTheOriginal`, `EndedMeansRegistered` | 1.0 M |
| `reach` | every project of two files and three names: `HopsAreLeast`, `MissesOnlyAtTheCap`, `CallChain` | 3.0 M |
| `launch` | three launches on two kinds of machine, failing downloads, kills, damage: `RunsWhatItChecked`, and `EveryLaunchEnds` under fairness | 0.14 M |
| `launch_killed` | violation: a launch killed before chmod leaves a binary that passes the check and never runs | |

No run lists a type invariant: those of the modules are theorems (`TypeCorrect`,
`GateTypes`) or parts of an inductive invariant (`UiServer`, `McpServer`), for
every value of the constants.

### Bounds

- Two files, two runs. Interference in the fix protocol is between two runs
  over one file, and the batch property needs a second file to be left over.
  The proofs lift both bounds.
- `MaxSaves = 1` (`fix`, `ui`), `2` (`init_race`): one save between two reads
  is what makes an offset stale; a second one adds nothing for one file. In
  `init_race` the second lets a server come and go.
- Eight findings in `plan_resolve` are two files, two findings that need the
  same import, guards inserted at the beginning of a comparison and of a file, a
  body access inside a comparison, touching ranges, equal
  ranges, and one unsafe rewrite; every subset of them is an initial state.
- `MaxEdits = 2` in `gate`: one edit before a capture and one after it, by
  symmetry of the scans in any order; or a suppression and its removal. A pattern
  matches one file (`OneFile`), and two of them may be about the same one.
- `MinCoverage = 95`, the default, so that one file in two that does not parse
  fails the build. `OwnLine`: first lines tell handlers apart.
- One handler in `action` and `action_monorepo`, in a package of a monorepo: absent,
  open, muted, reworded or verifying. The files git says changed are those whose
  handler differs and any others (`touched`), whose names may or may not be those of a
  scan. The proofs lift the number of handlers, the paths and the styles.
- `PerPage = 2` and `MaxComments = 2`: the first page is never left. With
  more than one page of comments (100 in the code) a run misses its own
  summary, as comment.ts says.
- `OneOrTwo` in `reach`: the handler calls `a`, or `a` and then `b`; nothing
  tells the names apart before, so other lists are these under other names.
- `Caps = {2, 5}` in `reach`: three names, so 2 is reached and 5 never is.
  `MaxDepth = 3` is one hop longer than an acyclic chain through the names
  needs and lets cycles come round.
- `MaxRetries = 2` in `launch` (3 in the code): a first try and a last one.
  Three launches: one at work, one that waits or has let the lock go, and one
  of the other target.
- 27 providers in four languages in `judge`; `CueSets` are the ways of naming
  one, alone and together; `Ways` the ways of verifying, with the provider's
  SDK in a first or second hop, inline, behind a queue, by a MAC, or not at all;
  `Around` what single rules look for. `MaxScans = 2`: a property compares a
  scan with the one before it.
- Two calls and two languages in `serve`: interference is between two calls
  over one load, and the second language makes a call wait twice. Inputs cover
  each error of the arguments and both kinds of file.
- 64 packs in `serve`: 21 edits (none; of rows, batches, workspace and
  signature; of how a decoded text is spelt; of what only the manifest hash covers),
  each with the old manifest hash, and with a new one with and without the key.
- Deadlock is not checked where runs simply end; in `plan_resolve` it is.

## Fairness

Three runs need it. In `ui`, `FairUiSpec` has weak fairness of each request's handling
(the event loop runs what is ready, and the awaited file operations settle)
and of the reading of its body (it ends, or Node's request timeout ends it).
There is none on arrivals, on the editor or on Ctrl+C. In `launch` every
process goes on (downloads have a timeout of 60 s, and the lock of a process
that is gone is dropped by the system); weak fairness is enough to get the
lock, as every launch asks for it once. There is none on kills, on damage or
on the timeout of the lock. In `serve` the boot, the continuation of each call
and the end of each load are weakly fair (the event loop, and a read of a file
that ends one way or the other); requests, the end of input and installations
are not.

## The proofs

TLAPS checks, for every value of the constants:

- `FixProofs`, the protocol. `IInv` is the inductive invariant: types, `NothingTorn`,
  and for each run what is true at each place: nothing is staged before the
  directory exists; while files are staged at most the one being written is
  incomplete; from `CommitStaging` on, also after a stop inside it, every
  planned file not yet renamed is staged and complete; a run that ended
  elsewhere has renamed nothing; a run that writes was allowed to. Neither
  `NothingTorn` nor `StagedCopiesSurvive` is inductive by itself: a rename
  keeps a file whole only because the copy it installs is complete, which is
  the clause about commits, which in turn needs the one about staging. A step
  of one run leaves the state of the others alone (`Still`), so each action is
  proved for its own run and `OtherRun` does the rest. From `Invariance`
  follow `NeverTorn`, `InspectionContract`, `SuccessIsComplete`,
  `WritesNeedConsent`, and step by step `Implements`: `Spec => Promise!Spec`.
  `RunsRunDown` counts steps: with N files, `StepsLeft` of a run is at most
  3N + 8, each step of its own uses some of it up, and nothing another run or
  the user does adds to it; and until a run ends it finds what its next step
  needs (`NoDeadEnd`: a file to rename is staged, a copy to write is open).
- `FixProofs`, `.gitignore`. `GitInv`: until a run is overtaken, the file holds the
  lines of the user whenever nobody is inside fs.writeFile; a run about to
  truncate it has read what is there; one about to write has read the lines of
  the user; and one past it, or with a copy staged, finds its entry there.
  Hence `CopiesAreIgnored` and `LinesAreKept`.
- `FixProofs`, the server. `QueueInv`: the requests let in and not yet answered
  are those of the queue, each once, and only the first is in hand (`Chained`).
  Hence no file is renamed while a scan or a preview is handled (`Settled`).
  Every step of the server is a step of `FixCommit` on the tree or none
  (`AppliesLikeFix`), so what is shown of the protocol holds under the server
  (`UiKeepsPromise`). And as only the head of the queue changes the tree, what it
  has planned stays up to date (`SoundInv`): under `EditsOnly` (the editor keeps
  still while an apply is handled, no explanations in place of edits) no edit
  lands in a text it was not made for (`FitsWhereItGoes`). `AnswersInOrder`: when
  the first request of the queue leaves it, it is answered and the others move up
  in their order; and by `Work` the first one is at most 3N + 11 steps of its own
  away from its answer, whatever arrives, is saved or is thrown meanwhile.
- `FixPlanProofs`. Applied edits never overlap (`Disjoint`), whatever the
  report; every rejected one overlaps an applied one and both rules are named
  (`Explained`). `Complete` says that from `Orchestrate` on there is an edit for
  each selected finding, and in phase "accepted" all of them are applied; so a
  write leaves nothing of the selection out. `Provided` says the same of imports:
  a rewrite that needs one has the insertion beside it in the plan, applied with
  it. Both make `NothingIsLeftOut`: no selected finding is left open, and no text
  is rewritten without the import it needs. `Reported` (plans hold findings of the
  report, suggestions hold commands) carries `TypeCorrect`. `Hopeful` follows
  a user line by line through the suggestion: while nothing has changed, a
  rule already tried could not be run alone; so who has run every line and
  fixed nothing had no rule that could (`FollowingHelps`). `SplicesAtOnce` has
  two directions. If no insertion is swallowed, the text after n splices holds, in
  the order of `Place`, the bytes and texts that belong there (`MadeSoFar`), and a
  finite set with distinct places has one such enumeration, the one
  `Simultaneous` chooses. If one is (`Loses`), up to the first of them the text is
  still what it should be, so the insertion stands right behind the bytes before
  it; the next splice cuts there, and none puts it back. Induction is by the
  least counterexample.
- `ScanProofs`, the verdict on a handler. `Inv` says that every report is that of
  its own handler, read anew, and that of two consecutive scans the second
  handler comes from the first by an edit the program offers or by `Unverify`.
  All else is about the evidence of one handler, or of two so related. What is
  needed of the catalog is shown entry by entry: no verification of a library
  provider is a primitive; whoever has a rule on the order of calls knows the
  shared sinks. `Windows` and `EarlyEffects` go from the source through the
  predicate to the finding; `Removal` shows that none of the ways to count as
  verified is left. `Healing`: the edit adds calls of primitives and reads of
  bytes and takes one comparison out; attribution sees neither, the finding's
  predicate turns quiet and no quiet one speaks up. `Blessing`: only the rule on
  missing signatures says "verified", and only for a call or a read that
  a `Truthful` source does not contain. `TypeCorrect` for the types.
- `ScanProofs`, accusations and names. `NoFalseAccusation`: who accuses a handler
  of a missing or a careless verification is one of a few predicates; what a
  source that verifies must contain (`Truthful`) is what each of them asks for,
  language by language, or the rule is one of the three of `KnownAccusations`.
  `NameIsKept`: attribution counts votes of the text and of the calls. Taking the
  verification out leaves the text (`TextIsLeft`), and its vote prevails with and
  without the calls as long as these are not two ahead for another provider
  (`NotOutvoted`): a handler that calls the verifications of a second provider
  besides goes by the majority, so without this premise the statement is false.
  `OneCallOutvotesNobody` shows that the ordinary handler meets it: its
  verification is one call at one place, however many providers list that name,
  for the provider of its text or for none (16,793 of the 16,854 handlers of the
  instance; the others meet `NotOutvoted` too).
- `ScanProofs`, the gate. The inductive invariant says that every baseline, on disk
  or read, is what some scan found in a tree (or is torn), and that every exit
  code is what its scan knew (`GateInvariance`, `GateTypes`). Then `NothingNew`: a
  key that silences a finding came from an accepted handler, and if first lines
  tell handlers apart (`OwnLines`, the only theorem that needs it) it is this
  handler; and `CapturedIsQuiet`, `Loud`. `Pruning` rests on two lemmas about the
  removal: `StillSuppressed` (no finding loses what suppressed it, since a pattern
  that is credited with a finding stays, and pruning adds no negation behind it)
  and `NothingStaleLeft` (what stays still has its use).
- `ActionRunProofs`. `ScanInv` holds whatever the trees and the working directory
  are: what a run calls new is new, for every handler that does not import its
  verification; at the root of the repository (`AtTheRoot`, where git's names are
  the scan's) it is all that is new, and a green check lets no other in. The
  properties follow where no handler imports (`OnTheSpot`), both being premises of
  the instance: `NewFindings`, `GreenChecks`. `Blind` is the other side: where no
  name in the scan is one that git may print (`Apart`), nothing is ever new and the
  check is green. `StartedInv`: unless
  runs overlap, the one at work is the last one started. With comments that fit
  one call of listComments (`OnePage`, the limit that
  `github-action/src/comment.ts:49` states), `SummaryInv` adds that what it
  found when it listed them is still the only summary when it writes. Hence
  `OneSummary` and `SummaryIsNewest`.
- `McpInitProofs`. The invariant has a part that always holds and a part that
  holds while nothing overlaps: one process at work, the configuration is still
  what it read, the backup is that too, and `.tmp` is empty or the merge of it.
  From the second follow `NeverCorrupts`, `MergesAtOnce`, `BackedUpFirst`; from
  the first `Registers`.
- `McpServerProofs`. `CallInv` says what holds of a call at each place it can
  be in; the rules are either not loaded or those of all providers; and a
  server that is up has passed the gate. Hence `AnswersAreOwn` and
  `AnswersArePinned`, for any number of calls, languages and releases.
  `VerdictsAreExact` is about any exported pack and any pack made from it: the
  walk holds up to the first row of which something hashed was changed and breaks
  there (least counterexample again); equal manifest hashes are of equal texts,
  field by field (`SameFields`), and signatures verify exactly where nothing was
  changed under them.
  `CallsRunDown`: a call is at most files + 3 steps from its answer, each step of
  its own brings it nearer or starts the load of a language, which happens once
  per language; its arguments are never exchanged and an answer stays.
- `ReachabilityProofs`. The search keeps to depth, names and files
  (`TypeCorrect`); no name is reported twice and no more than the cap
  (`OnceEach`); every symbol reported has a chain of calls from the handler
  (`Sound`), which needs the frontier and the list of symbols to come with
  their callers. `Search` adds the other direction: whatever is nearer than a
  symbol reported has been visited, and below the cap every call of what was
  expanded is visited or still to be recorded. Hence, for names of one meaning,
  `LeastHops` and `MissesNothingElse`.
- `LauncherProofs`. `Inv` adds to the types that the lock has one owner, the
  launch at work; that work has begun with a first try; and that the file of a
  launch at chmod or execv is its binary or the launch is stale. With the lock
  a replacement meets no other launch at work, only those already on their way
  to execv: the same target finds an equal file, another becomes stale. Hence
  `RunsChecked`, `MissesOnly`, `Exclusion` and `TypeCorrect`. `LaunchesRunDown`: each
  try is four steps and a failure uses up a try, so a launch takes at most
  4 * MaxRetries + 3 steps; and while one waits for the lock, its owner is at work.

The assumptions are those of the modules on their constants: command lines
are command lines, classes are classes, the bound on saves is a number, calls
are sequences of names, every launch is on one of the targets, the servers of
a user are not called what hookwarden calls its own entry, the arguments of
the two tools are told apart, the files of a call are a sequence
(`FilesAssumption`) and so are the arguments in the record of a handler. That the
files are finitely many is a hypothesis of `RunsRunDown` and `AnswersInOrder`
only. Three assumptions say more than a type:

- `TruthAssumption` (`Judge`): what a handler is said to verify agrees with what
  it calls. It is about `h.truth`, which the code does not have. In one direction,
  who verifies nothing calls nothing named like a verification; in the other, who
  verifies with an SDK calls what the catalog lists for its provider (`CallsSdk`),
  and who compares a MAC in constant time uses the library of its language
  (`ComparesSafely`). `CallsSdk` leaves out two kinds of handler that the
  timing rule does accuse: one with an SDK in an inline middleware and a MAC of
  its own besides, and one in Go with a MAC besides whose SDK is not imported
  under its path. They are outside `SafeIsNotAccused`, in the run as in the theorem.
- `ExportedAssumption` (`AuditChain`): the writer numbers and chains the rows
  and signs with one key, as the reader expects.
- `PacksAssumption` (`McpServer`): nobody else signs with that key, and a key
  inside a pack is that key: the code takes the key from the pack it verifies
  (`mcp/src/tools/verify-audit-chain.ts:189`) and compares it with no other.
  Hashes are terms, so collisions are left out.

Model-checked only are the three liveness properties, `RequestsAreAnswered`,
`EveryLaunchEnds` and `CallsAreAnswered`, since fairness and ENABLED are out of
the prover's reach. What they say without fairness is proved: `AnswersInOrder`,
`RunsRunDown`, `LaunchesRunDown` and `CallsRunDown` say that whoever is
not done has steps left, only so many, and uses them up. That a step can be taken,
beyond what `NoDeadEnd` and `Bounded` say of it, and is taken, is left to TLC.

## Where code and documentation differ

Shown by a run:

- `action_monorepo`: `git diff --name-only` prints names relative to the root of the
  repository (`cli/src/diff/git.ts:48`), and the scan of the head keeps the files
  whose name relative to the scanned directory is one of them
  (`cli/src/pipeline.ts:268`). With `working-directory` set to a package, no file of
  the pull request is looked at and the check is green, against
  `github-action/README.md:3` ("failed check on threshold breach") and `:54` ("Set
  this for monorepo packages.").
- `launch_killed`: the binary takes its place before chmod (`_fetch.py:59`);
  a kill in between leaves it valid and not executable for good, against the
  pipeline `__main__.py:3` describes.

Premises of the passing properties, where the code promises less than a reader
may expect. Each of them was reached by TLC with the premise taken away:

- `InstalledTextIsSound` (`ui`) needs `Patient`: writeFixes
  (`cli/src/commands/fix.ts:206`) re-reads each file and splices offsets of an
  earlier read; rescanFiles is never called, though `cli/README.md:250` says
  that a re-scan comes before the renames.
- `AdviceHelps` holds if the suggestion names the rule of a finding. Two
  rewrites of one file that need the same import collide at byte 0
  (`fix/src/import-inserter.ts:19`), and the suggestion then names
  `@import-inserter` only, against the recipe of `cli/README.md:252`.
- `SpliceIsSimultaneous` and `AllOrNothing` say what happens to an insertion
  listed before a replacement that begins at its offset: rangesOverlap lets the
  pair through (`fix/src/conflict-resolver.ts:63`), the sort is stable
  (`cli/src/commands/fix.ts:271`), and the replacement cuts the inserted text off,
  which is what the comment at `conflict-resolver.ts:57` says is surfaced for two
  insertions. A guard inserted at the beginning of a line that begins with the
  rewritten expression is such a pair, and so is an import above one. What the
  mangled rest of the insertion does to the next parse is not modelled: its
  finding stays open, its import missing.
- A file that imports anything from the module of a rewrite gets no import
  (`typescript-replace-binary-equality.ts:96`), under whatever name it was
  imported: "no text lacks its import" means an import of that module.
- applyEditsInPlace (`cli/src/commands/fix.ts:267`) is never told of forbidden
  ranges, against `cli/README.md:251`.
- `IgnoreLinesKept` and `StagingIsIgnored` hold until a run is `overtaken`:
  ensureGitignoreEntry (`fix/src/staging.ts:79`) writes back what it read.
- `PruningIsSafe` excepts findings inside a block comment (a block is looked up
  under its opening line, `cli/src/suppress/stale.ts:36`, so that every block is
  reported and a strict scan fails for it), and compares scans with the same
  findings: what a scan with `--diff-only` calls stale
  (`cli/src/pipeline.ts:479`), among it every pattern and every entry for an
  unchanged file, may be removed without harm to that scan only.
- `NothingNewPasses` needs distinct first lines (`OwnLine`): two handlers of a
  file whose first lines are equal once redacted share a baseline entry
  (`engine/src/evaluator/visit.ts:126`), against `cli/README.md:580` ("new
  findings still fail"). It speaks of rule and
  handler: a handler whose verdict gets worse under the same rule stays
  accepted, as the key (`cli/src/baseline/match.ts:40`) has no verdict. A
  renamed file loses its entries (`engine/src/findings/fingerprint.ts:26`).
- `NewIsExact` and `GreenIsSafe` need the working directory to be the root of the
  repository (above), and handlers that verify on the spot: an edited handler with
  an unchanged helper is reported as new (`github-action/src/scan.ts:165`), and a
  broken helper of unchanged handlers gets a green check.
  New findings are not filtered by state, so a handler that verifies counts as
  one (`:168`), and a run may fail for "0 new finding(s)" (`index.ts:64`).
- `OneSticky` and `StickyIsLatest` need runs that do not overlap: listing and
  creating are two calls (`github-action/src/comment.ts:51`); and their theorems
  need comments that fit one page.
- `NeverCorruptsAlone` and `MergeIsAtomic` need inits one after the other and
  no save between read and rename (`claude-desktop.ts:99`, `:101`): two inits
  share `<config>.tmp`, against the comment at `claude-desktop.ts:2`.
- `RunsWhatItChecked` excepts launches whose file another target replaced: the
  cache is per version only (`_cache.py:24`).
- `MissesOnlyAtTheCap` and `HopsAreLeast` need names with one meaning
  (`reachability.ts:65` keys visited by name) and default imports that keep
  their name (`reachability.ts:337`); `CallChain` needs the latter only. All three
  are relative to how the code looks names up: `Bindings` has functions
  of a file and imports by name or default, and a call leads one import
  further. Namespace imports, re-exports (barrels) and the methods of JavaScript
  classes lead nowhere in the code's lookup and are no part of the reference
  `Meaning` either: what is only reached through them is missed by the code and by
  the reference alike.
- `RemovalIsNoticed` excepts Notion, of which the rules ask no more than that
  the header is read, and needs a file without a second handler (`Alone`): in
  PHP and Go the predicates judge the whole file, as handlers carry no body
  node (`rules/src/predicates/missing-signature-verification.ts:165`).
- `SafeIsNotAccused` excepts three rules (`KnownAccusations`): those of GitHub
  know only a qualified `.timingSafeEqual`
  (`rules/src/predicates/github-timing-safe-equal.ts:55`), so Python's
  `hmac.compare_digest` and a named import are accused, although the message of
  the rule names both; Notion's of its own SDK; Twilio's of a middleware in
  place. In the last two a verified and a not-verified finding stand together.
  It is about handlers that do what they are said to: see `TruthAssumption` above
  for two kinds that the timing rule accuses and that are no part of it.
- `NeverBlessed` is about handlers that call nothing named like a verification: a
  call of that name counts whatever it does, for GitHub any `.verify`.
- `WideWindowsAreSeen` is about bounds in plain sight (`InPlainSight`). The rule
  looks at `>` and `>=` in the handler's own lines only
  (`rules/src/predicates/replay-window-too-permissive.ts:105`) and folds numbers,
  not names (`:233`): a window of 600 seconds written `age <= 600`, by a named
  constant or in a helper is never reported, one read from the environment for a
  review at most. The run has handlers with each of these, alone and beside a bound
  that is seen. The property is told of a review only where a queue may lead to the
  verification, and it stops at 999 seconds: a bound that is a multiple of
  1000, or larger than a day, is read as milliseconds. The comment at
  `rules/src/predicates/replay-window-too-permissive.ts:163` speaks of
  suppressing what has no `Date.now`; the code returns not-verified.
- `EarlyEffectsAreSeen` is about the shared sinks and the providers with a rule
  for the order of calls: Discord has none, and PayPal's postback is exempt. The
  engine looks into no if that ends the handler, and a call of the object that
  verifies counts as a verification. Of several calls in one statement
  the first counts, although the comment at
  `engine/src/evaluator/side-effect-classifier.ts:83` says that tier 1 prevails
  over tier 2.
- `FixHeals` speaks of what the rules report. For GitHub in Python the fix for
  timing leaves its finding: the rule knows no `hmac.compare_digest`
  (`rules/src/predicates/github-timing-safe-equal.ts:55`). The fix for timing inserts
  `Buffer.from`, which counts as a read of the raw body
  (`engine/src/model/evidence.ts:218`), so that the raw-body finding of the same
  handler disappears too.
- `VerifyingKeepsTheName` starts from a handler that has a provider: two
  providers named by equally strong cues give "multiple", of which no rule
  speaks.
- `ChainVerdictIsExact` takes the roots of the batches as given: they are not
  computed from the rows, only their signatures are checked. Of a pack without
  a key whose manifest hash was computed anew it promises no more than the
  code keeps. `prevHashHex` is compared after `Buffer.from(…, "hex")`
  (`mcp/src/tools/verify-audit-chain.ts:156`), which takes either case and drops what
  is not hexadecimal at the end, so that it can be respelled; and `createdAt`, the
  batches and the rest of the pack are not hashed into the chain, so that they
  can be anything. Such a pack is valid, with no broken row, and different from
  what was exported. A `seq` that is no number is reported as null, as if no
  row were broken.

Noticed while modelling, and not shown by a listed run:

- In mode manual-only-explain, prose becomes an edit at byte 0 and `--write`
  commits it (`fix/src/index.ts:133`), against `cli/README.md:246`.
- Of a JavaScript handler that rejects with `expected !== signature` and has one
  `===` elsewhere, the fix rewrites the `===`
  (`rules/src/fix/typescript-replace-binary-equality.ts:44`), against the comment at
  `:42`, "a safe fixer never guesses which comparison is the signature check". The
  finding disappears with the edit, as `FixHeals` has it.
- The rule of Anthropic on hardcoded prefixes can never fire. Postmark's basic
  authentication is looked for among calls, and a property read is none.
- Secrets in logs are found as bare identifiers only, and in the whole file.
- The fixers for Python and PHP look at the line of the finding only; the one
  for the raw body never fires on `$_POST`, which counts as a raw body read.
- After a grammar that could not be read once, the language stays failed until
  the server is restarted (`mcp/src/tools/scan-handler.ts:54`). The gate before
  each call compares what the gate at boot compared (`drift-check.ts:3`), and
  the grammars are read later without one. Calls at work when the input ends
  are dropped.

## What is not modelled

- Parsing, and how syntax trees become the record `h` of `Evidence`: handler
  discovery, the adapters of the frameworks, the tree matchers under the
  predicates. They are functions on trees, decided by examples, with no state.
- The YAML loader and schema of the rule pack, and path severity overrides.
- Rewriters, re-scan, type check and forbidden ranges of the fix package: no
  command reaches them.
- Walker, configuration and command line: listing, precedence and flags, one
  pass and no state. A file that cannot be read drops out of the tree a scan
  sees, which `ScanGate` has as a file that is not there.
- The history walk beyond the names of the diff: one pass over the output of
  git, from findings to commits by path.
- The liveness facet: one read-only request to a provider per leaked key.
- Rendering, banners, the update notice, the report page, packaging, docs.
- The guards of the ui server are one choice between refusing and going on.
- In ScanGate: flag validation, `--files`, the drift note of the rule pack.
- In Evidence, names are sets of words, and `headers` holds a header's name in
  either form wherever the text has it, as in the code; that an environment
  variable contains one (`engine/src/model/evidence.ts:172`) is for whoever gives the
  handler, and no variable of the catalog does.
- In Codegen, a comparison is `first` if the fixer would find it on its line; in PHP
  an operator of any kind before or around it hides it
  (`rules/src/fix/php-replace-binary-equality-or-strcmp.ts:105`), which again is for
  whoever gives the handler. Definitions for all languages are mapped to the
  dispatcher that chooses among them, those of one to its routine.
- In McpInit: where the files are, `--clients`, the table that is printed.
- In McpServer: the protocol on the wire, which the SDK does; the texts of
  errors.
- In Launcher: the Windows path (subprocess in place of execv), names and
  URLs, a temporary file left behind.

## The plan

Done: FixPromise, FixCommit, FixPlan, UiServer (composes FixCommit), ScanGate,
ActionRun, McpInit, Reachability, Launcher, then Catalog, Evidence,
RulePredicates, Rules, Codegen and Judge, and AuditChain and McpServer; a theorem
for every safety and action property that a passing run checks.

Left, most important first:

1. `HistoryWalk` and the liveness facet; precedence of the configuration.
2. Handler discovery: adapters as operators on a routing table, against a
   reference of what each framework mounts.
3. A `ScanGate` whose handlers are judged by `Rules` in place of a given state.
