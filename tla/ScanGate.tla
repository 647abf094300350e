------------------------------ MODULE ScanGate ------------------------------
(***************************************************************************)
(* `hookwarden scan` as a gate in CI: the findings of a tree, the three    *)
(* ways to suppress one (an inline comment, .hookwardenignore, the         *)
(* baseline), the stale suppressions and the exit code; and what becomes   *)
(* of them while the code is edited, files are renamed, baselines are      *)
(* rewritten by other scans and scans are killed.                          *)
(*                                                                         *)
(* Abstractions.  One rule judges each handler, and one other rule reports *)
(* a verified one; both have the severity "high".  The redacted first line *)
(* of a handler, which is all its fingerprint knows of it, is Line[h].  A  *)
(* comment stays beside its handler.  The files of one scan are parsed     *)
(* together, before the suppressions are read.  A pattern of               *)
(* .hookwardenignore is the set of files it matches; directories, which    *)
(* hide their files from a later negation, are left out.                   *)
(***************************************************************************)
EXTENDS Naturals, FiniteSets

CONSTANTS
  Files,
  Handlers,
  Line,         \* the redacted first line of each handler
  Scans,
  Options,      \* the command lines tried
  Forms,        \* the forms of inline comments the developer uses
  Globs,        \* what the patterns of .hookwardenignore tried match
  MinCoverage,  \* parse_coverage_min, in percent
  MaxEdits      \* bound on the developer's edits

Option == [write : BOOLEAN, read : BOOLEAN, diff : BOOLEAN, strict : BOOLEAN,
           failOn : {"critical", "high", "low"}]

ASSUME OptionsAssumption == Options \subseteq Option
ASSUME FormsAssumption == Forms \subseteq {"line", "block"}
ASSUME GlobsAssumption == Globs \subseteq SUBSET Files
ASSUME CoverageAssumption == MinCoverage \in 0 .. 100
ASSUME MaxEditsAssumption == MaxEdits \in Nat

States == {"verified", "manual-review", "not-verified"}
Comment == [form : Forms, about : Handlers]
Pattern == [line : Nat, files : Globs, negated : BOOLEAN]

VARIABLES
  code,      \* what the engine would say of each handler, or "absent"
  at,        \* the file each handler is in
  broken,    \* the files that do not parse
  comments,  \* the inline comments
  ignored,   \* the patterns of .hookwardenignore
  changed,   \* the files that differ from the diff base
  edits,     \* how often the developer edited something
  baseline,  \* the baseline file
  pc,        \* where each scan is
  opts,      \* its command line
  seen,      \* what it parsed
  loaded,    \* the suppressions it read
  exit       \* its exit code

treeVars == <<code, at, broken, comments, ignored>>
gateVars == <<treeVars, changed, edits, baseline, pc, opts, seen, loaded, exit>>

NoBaseline == [state |-> "absent", findings |-> {}, of |-> {}]
TornBaseline == [state |-> "torn", findings |-> {}, of |-> {}]
NothingSeen == [findings |-> {}, comments |-> {}, files |-> {}, unparsed |-> {}]
NothingLoaded == [ignored |-> {}, baseline |-> NoBaseline]
NoOption == [write |-> FALSE, read |-> TRUE, diff |-> FALSE, strict |-> FALSE,
             failOn |-> "critical"]

Goto(s, l) == pc' = [pc EXCEPT ![s] = l]

GateInit ==
  /\ code \in [Handlers -> States \cup {"absent"}]
  /\ at \in [Handlers -> Files]
  /\ broken = {}
  /\ comments = {}
  /\ ignored = {}
  /\ changed = {}
  /\ edits = 0
  /\ baseline = NoBaseline
  /\ pc = [s \in Scans |-> "idle"]
  /\ opts = [s \in Scans |-> NoOption]
  /\ seen = [s \in Scans |-> NothingSeen]
  /\ loaded = [s \in Scans |-> NothingLoaded]
  /\ exit = [s \in Scans |-> 0]

----------------------------------------------------------------------------
(* The developer.                                                          *)

Edit ==
  /\ edits < MaxEdits
  /\ edits' = edits + 1
  /\ UNCHANGED <<baseline, pc, opts, seen, loaded, exit>>

\* A handler is written, fixed, made worse or removed.
ChangeHandler(h, v) ==
  /\ Edit
  /\ v # code[h]
  /\ code' = [code EXCEPT ![h] = v]
  /\ changed' = changed \cup {at[h]}
  /\ UNCHANGED <<at, broken, comments, ignored>>

\* A handler is moved, by renaming its file or otherwise.
MoveHandler(h, f) ==
  /\ Edit
  /\ f # at[h]
  /\ at' = [at EXCEPT ![h] = f]
  /\ changed' = changed \cup {at[h], f}
  /\ UNCHANGED <<code, broken, comments, ignored>>

\* A file gets a syntax error, or loses it.
BreakOrRepair(f) ==
  /\ Edit
  /\ broken' = (broken \ {f}) \cup ({f} \ broken)
  /\ changed' = changed \cup {f}
  /\ UNCHANGED <<code, at, comments, ignored>>

\* The developer suppresses a finding by a comment, or its file by another line
\* at the end of .hookwardenignore, which may also take files out of it again.
SuppressByHand ==
  /\ Edit
  /\ \/ \E c \in Comment \ comments :
          /\ comments' = comments \cup {c}
          /\ changed' = changed \cup {at[c.about]}
          /\ ignored' = ignored
     \/ \E F \in Globs, not \in BOOLEAN :
          /\ ignored' = ignored
               \cup {[line |-> edits + 1, files |-> F, negated |-> not]}
          /\ UNCHANGED <<comments, changed>>
  /\ UNCHANGED <<code, at, broken>>

\* The branch is merged: the next diff starts here.
Merge ==
  /\ Edit
  /\ changed' = {}
  /\ UNCHANGED treeVars

----------------------------------------------------------------------------
(* The engine: one finding for each handler, or one for a broken file.     *)

VerdictOn(h) ==
  [rule  |-> IF code[h] = "verified" THEN "library-verified"
             ELSE "missing-signature-verification",
   state |-> code[h], file |-> at[h], line |-> Line[h], about |-> h]

ParseError(f) ==
  [rule |-> "engine/parse-error", state |-> "manual-review", file |-> f,
   line |-> "unparsed", about |-> f]

FindingsIn(F) ==
  {VerdictOn(h) : h \in {g \in Handlers : /\ code[g] # "absent"
                                          /\ at[g] \in F \ broken}}
    \cup {ParseError(f) : f \in F \cap broken}

\* Mutant: the fingerprint does not know the line.
KeyOfFile(f) == <<f.rule, f.file>>

\* rule_id|primary_location_line_hash; the hash is one of the rule, the file
\* path and the line.
Key(f) == <<f.rule, f.file, f.line>>

Names(c, f) == f.about = c.about /\ f.rule = "missing-signature-verification"

----------------------------------------------------------------------------
(* runScan.                                                                *)

\* Every file in scope is read and parsed.
Parse(s, o) ==
  /\ pc[s] = "idle"
  /\ LET scope == IF o.diff THEN changed ELSE Files
     IN seen' = [seen EXCEPT ![s] =
          [findings |-> FindingsIn(scope),
           comments |-> {c \in comments : at[c.about] \in scope \ broken},
           files |-> scope, unparsed |-> scope \cap broken]]
  /\ opts' = [opts EXCEPT ![s] = o]
  /\ Goto(s, "parsed")
  /\ UNCHANGED <<treeVars, changed, edits, baseline, loaded, exit>>

\* The parser, the rules or the engine throws, or .hookwardenignore cannot be
\* read: the scan reports nothing at all and exits 2, before it reads or writes a
\* baseline.
EngineFails(s) ==
  /\ pc[s] \in {"idle", "parsed"}
  /\ exit' = [exit EXCEPT ![s] = 2]
  /\ Goto(s, "ended")
  /\ opts' = [opts EXCEPT ![s] = NoOption]
  /\ seen' = [seen EXCEPT ![s] = NothingSeen]
  /\ UNCHANGED <<treeVars, changed, edits, baseline, loaded>>

\* .hookwardenignore is read.
LoadIgnore(s) ==
  /\ pc[s] = "parsed"
  /\ loaded' = [loaded EXCEPT ![s].ignored = ignored]
  /\ Goto(s, "ignoring")
  /\ UNCHANGED <<treeVars, changed, edits, baseline, opts, seen, exit>>

\* Mutant: a baseline that cannot be read is taken for none.
LoadLenient(s) ==
  /\ pc[s] = "ignoring"
  /\ loaded' = [loaded EXCEPT ![s].baseline =
       IF opts[s].read THEN baseline ELSE NoBaseline]
  /\ Goto(s, IF opts[s].write THEN "write" ELSE "judge")
  /\ UNCHANGED <<treeVars, changed, edits, baseline, opts, seen, exit>>

\* The baseline is read.
Load(s) ==
  /\ pc[s] = "ignoring"
  /\ opts[s].read => baseline.state # "torn"
  /\ loaded' = [loaded EXCEPT ![s].baseline =
       IF opts[s].read THEN baseline ELSE NoBaseline]
  /\ Goto(s, IF opts[s].write THEN "write" ELSE "judge")
  /\ UNCHANGED <<treeVars, changed, edits, baseline, opts, seen, exit>>

\* A baseline that is no JSON throws; the command exits 2.
LoadFails(s) ==
  /\ pc[s] = "ignoring"
  /\ opts[s].read /\ baseline.state = "torn"
  /\ exit' = [exit EXCEPT ![s] = 2]
  /\ Goto(s, "ended")
  /\ UNCHANGED <<treeVars, changed, edits, baseline, opts, seen, loaded>>

\* annotateOne: what suppresses a finding.
ByComment(s, f) == \E c \in seen[s].comments : Names(c, f)

\* In .hookwardenignore the last pattern that matches decides.
Hides(patterns, file) ==
  \E p \in patterns :
    /\ ~p.negated /\ file \in p.files
    /\ ~ \E q \in patterns : q.negated /\ file \in q.files /\ q.line > p.line

ByIgnore(s, f) == Hides(loaded[s].ignored, f.file)
ByBaseline(s, f) ==
  Key(f) \in {Key(b) : b \in loaded[s].baseline.findings}

Suppressed(s, f) == ByComment(s, f) \/ ByIgnore(s, f) \/ ByBaseline(s, f)

\* fs.writeFile truncates the baseline.
WriteTruncate(s) ==
  /\ pc[s] = "write"
  /\ baseline' = TornBaseline
  /\ Goto(s, "writing")
  /\ UNCHANGED <<treeVars, changed, edits, opts, seen, loaded, exit>>

\* Mutant: only what is not suppressed already is captured.
CapturedActive(s) == {f \in seen[s].findings : ~Suppressed(s, f)}

\* Everything the scan found is captured, the suppressed findings too.
Captured(s) == seen[s].findings

\* Its text replaces what the file holds from the start on.  A longer text that
\* another scan wrote in the meantime sticks out behind it.
WriteBaseline(s) ==
  /\ pc[s] = "writing"
  /\ \/ baseline' = [state |-> "whole", findings |-> Captured(s),
                     of |-> seen[s].findings]
     \/ /\ baseline.state = "whole" /\ baseline.findings # Captured(s)
        /\ baseline' = TornBaseline
  /\ Goto(s, "judge")
  /\ UNCHANGED <<treeVars, changed, edits, opts, seen, loaded, exit>>

----------------------------------------------------------------------------
(* detectStale and the exit code.                                          *)

\* The line an inline entry is looked up under is the handler's own for a
\* disable-line or disable-next-line comment, and that of the comment which
\* opens it for a block.
EntryMatched(s, c) ==
  c.form = "line" /\ \E f \in seen[s].findings : Names(c, f)

\* Mutant: suppressed findings are no longer there to be matched.
StaleAmongActive(s) ==
  LET active == {f \in seen[s].findings : ~Suppressed(s, f)}
  IN [comments |-> {c \in seen[s].comments :
                      ~ \E f \in active : Names(c, f)},
      ignored  |-> {p \in loaded[s].ignored :
                      ~p.negated /\ ~ \E f \in active : f.file \in p.files},
      baseline |-> {Key(b) : b \in loaded[s].baseline.findings}
                     \ {Key(f) : f \in active}]

\* A negation is never stale; of the others each that matches the file of a
\* finding has its use, unless a negation took the file out.
Stale(s) ==
  [comments |-> {c \in seen[s].comments : ~EntryMatched(s, c)},
   ignored  |-> {p \in loaded[s].ignored :
                   /\ ~p.negated
                   /\ ~ \E f \in seen[s].findings : f.file \in p.files /\ ByIgnore(s, f)},
   baseline |-> {Key(b) : b \in loaded[s].baseline.findings}
                  \ {Key(f) : f \in seen[s].findings}]

AnyStale(s) ==
  Stale(s).comments # {} \/ Stale(s).ignored # {} \/ Stale(s).baseline # {}

\* findingGatesAtThreshold: a verified handler never counts, one for manual
\* review counts from "low" on, a file that does not parse by its severity.
Gates(f, failOn) ==
  CASE f.state = "verified"          -> FALSE
    [] f.rule = "engine/parse-error" -> failOn # "critical"
    [] f.state = "manual-review"     -> failOn = "low"
    [] OTHER                         -> failOn # "critical"

Counted(s) ==
  {f \in seen[s].findings : Gates(f, opts[s].failOn) /\ ~Suppressed(s, f)}

BelowCoverage(s) ==
  100 * Cardinality(seen[s].files \ seen[s].unparsed)
    < MinCoverage * Cardinality(seen[s].files)

Judge(s) ==
  /\ pc[s] = "judge"
  /\ exit' = [exit EXCEPT ![s] =
       IF BelowCoverage(s) THEN 4
       ELSE IF Counted(s) # {} \/ (opts[s].strict /\ AnyStale(s)) THEN 1
       ELSE 0]
  /\ Goto(s, "ended")
  /\ UNCHANGED <<treeVars, changed, edits, baseline, opts, seen, loaded>>

\* The scan dies, and with it all it knew.
Kill(s) ==
  /\ pc[s] \in {"parsed", "ignoring", "write", "writing", "judge"}
  /\ Goto(s, "killed")
  /\ opts' = [opts EXCEPT ![s] = NoOption]
  /\ seen' = [seen EXCEPT ![s] = NothingSeen]
  /\ loaded' = [loaded EXCEPT ![s] = NothingLoaded]
  /\ UNCHANGED <<treeVars, changed, edits, baseline, exit>>

Ended(s) == pc[s] = "ended"
Decided(s) == Ended(s) /\ exit[s] # 2

\* The developer removes the comments and the patterns that a scan reported as
\* stale.
Prune(s) ==
  /\ Edit
  /\ Decided(s)
  /\ Stale(s).comments # {} \/ Stale(s).ignored # {}
  /\ comments' = comments \ Stale(s).comments
  /\ ignored' = ignored \ Stale(s).ignored
  /\ changed' = changed \cup {at[c.about] : c \in comments \cap Stale(s).comments}
  /\ UNCHANGED <<code, at, broken>>

----------------------------------------------------------------------------
Developer ==
  \/ \E h \in Handlers, v \in States \cup {"absent"} : ChangeHandler(h, v)
  \/ \E h \in Handlers, f \in Files : MoveHandler(h, f)
  \/ \E f \in Files : BreakOrRepair(f)
  \/ SuppressByHand
  \/ \E s \in Scans : Prune(s)
  \/ Merge

ScanStep(s) ==
  \/ \E o \in Options : Parse(s, o)
  \/ EngineFails(s)
  \/ LoadIgnore(s) \/ Load(s) \/ LoadFails(s)
  \/ WriteTruncate(s) \/ WriteBaseline(s)
  \/ Judge(s)
  \/ Kill(s)

GateNext == Developer \/ \E s \in Scans : ScanStep(s)

GateSpec == GateInit /\ [][GateNext]_gateVars

----------------------------------------------------------------------------
GateTypeOK ==
  /\ code \in [Handlers -> States \cup {"absent"}]
  /\ at \in [Handlers -> Files]
  /\ broken \in SUBSET Files
  /\ comments \in SUBSET Comment
  /\ ignored \in SUBSET Pattern
  /\ changed \in SUBSET Files
  /\ edits \in Nat
  /\ baseline.state \in {"absent", "torn", "whole"}
  /\ pc \in [Scans -> {"idle", "parsed", "ignoring", "write", "writing", "judge",
                       "ended", "killed"}]
  /\ opts \in [Scans -> Options \cup {NoOption}]
  /\ \A s \in Scans : seen[s].comments \subseteq Comment
  /\ \A s \in Scans : seen[s].unparsed \subseteq seen[s].files
  /\ \A s \in Scans : loaded[s].baseline.state \in {"absent", "torn", "whole"}
  /\ exit \in [Scans -> {0, 1, 2, 4}]

\* A green scan means that everything that counts was accepted by somebody:
\* by a comment on the handler, by its file in .hookwardenignore, or by a
\* baseline in which this very handler was reported for the same rule.  It
\* takes first lines that tell the handlers of a file apart.
NothingNewPasses ==
  \A s \in Scans : Ended(s) /\ exit[s] = 0 =>
    \A f \in seen[s].findings : Gates(f, opts[s].failOn) =>
      \/ ByComment(s, f)
      \/ ByIgnore(s, f)
      \/ \E b \in loaded[s].baseline.of : b.rule = f.rule /\ b.about = f.about

\* A tree that has just been captured does not fail, however many baselines
\* were written before, and whatever was suppressed at the time.
BaselineSilences ==
  \A s \in Scans : Ended(s) /\ exit[s] = 1 /\ ~opts[s].strict =>
    \/ loaded[s].baseline.state = "absent"
    \/ loaded[s].baseline.of # seen[s].findings

\* A baseline that another scan is writing, or died writing, is an engine
\* error and never read as an empty one, which would fail the build for the
\* findings it had accepted.
TornIsLoud ==
  \A s \in Scans : Ended(s) /\ exit[s] \in {0, 1, 4} =>
    loaded[s].baseline.state # "torn"

\* Scan t has met the code and the baseline that s met, without the comments and
\* the patterns that s reported as stale.
AfterPruning(s, t) ==
  /\ seen[t].findings = seen[s].findings
  /\ seen[t].comments = seen[s].comments \ Stale(s).comments
  /\ loaded[t].ignored = loaded[s].ignored \ Stale(s).ignored
  /\ loaded[t].baseline = loaded[s].baseline

\* Whoever removes what a scan reported as stale, and nothing else, is not
\* punished for it: the next scan of the same code fails for nothing that the
\* earlier one let pass, however many suppressions a finding had and whatever
\* patterns follow each other.  The exceptions are a finding inside a block
\* comment, since detectStale looks for one on the line that opens the block and
\* so reports every block, and, for a strict scan, entries of the baseline, which
\* pruning does not reach.
PruningIsSafe ==
  \A s, t \in Scans :
    /\ Decided(s) /\ Decided(t) /\ exit[t] = 1
    /\ AfterPruning(s, t) /\ opts[t].failOn = opts[s].failOn
    => \/ Counted(s) # {}
       \/ \E f \in seen[s].findings, c \in Stale(s).comments :
            c.form = "block" /\ Names(c, f)
       \/ opts[t].strict /\ Stale(s).baseline # {}
=============================================================================
