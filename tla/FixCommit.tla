----------------------------- MODULE FixCommit ------------------------------
(***************************************************************************)
(* `hookwarden fix`: plan from a scan, stage every rewritten file under    *)
(* .hookwarden-fix-staging/<run-id>/, then rename the staged copies over   *)
(* the originals.  Several runs (terminals, a `hookwarden ui` server) and  *)
(* the user's editor work on the same tree; a run can be killed, and an    *)
(* I/O call can throw, between any two steps.                              *)
(*                                                                         *)
(* A file is read three times by one run, and the model keeps the three    *)
(* reads apart: by the scan (Scan), by the re-parse the edits' byte        *)
(* offsets come from (Plan), and just before the edits are spliced into it *)
(* (StageRead).                                                            *)
(*                                                                         *)
(* Abstractions.  A text is its version, the class of the fixable finding  *)
(* it holds, and whether it is intact.  The files of one run are read      *)
(* together by Scan and by Plan (no property relates the reads of two      *)
(* files), staged and renamed in any order (the code follows the order of  *)
(* the findings).  Run ids are distinct: a run owns its staging directory. *)
(***************************************************************************)
EXTENDS Naturals, FiniteSets

CONSTANTS
  Files,      \* repository-relative paths
  Runs,       \* invocations of planFixes + writeFixes
  Options,    \* the command lines tried
  Classes,    \* the classes of findings the files may hold
  MaxSaves    \* bound on the user's saves, of the files and of .gitignore

Option == [write : BOOLEAN, json : BOOLEAN,
           mode : {"safe", "all", "manual-only-explain"},
           tty : BOOLEAN, acceptUnsafe : BOOLEAN]

ASSUME OptionsAssumption == Options \subseteq Option
ASSUME MaxSavesAssumption == MaxSaves \in Nat

\* The safety class of the rule that reports the finding.  Rules of the class
\* "manual-only" have no codegen: nobody knows a safe mechanical rewrite.
Class == {"none", "safe", "unsafe", "manual-only"}

ASSUME ClassesAssumption == Classes \subseteq Class

Text == [ver : Nat, finding : Class, sound : BOOLEAN, whole : BOOLEAN]

NoText == [ver |-> 0, finding |-> "none", sound |-> TRUE, whole |-> TRUE]

NoEdit == [ver |-> 0, class |-> "none", exact |-> FALSE]

VARIABLES
  disk,       \* Files -> Text, what the tree holds
  gitignore,  \* [lines, entry, whole]: the user's lines, the staging entry
  userLines,  \* how many lines the user ever added to .gitignore
  saves,      \* how often the user saved something
  pc,         \* where each run is
  opts,       \* the command line of each run
  seen,       \* what the scan of a run read of each file
  plan,       \* the edit planned for a file: the version its offsets are for
  ignoreRead, \* the .gitignore a run read before rewriting it
  dir,        \* whether the staging directory of a run exists
  staged,     \* the copy of a file in the staging directory of a run
  committed,  \* the files a run has renamed into place
  stoppedAt   \* where a run was when it threw or was killed

treeVars == <<disk, gitignore>>
userVars == <<userLines, saves>>
planVars == <<opts, seen, plan>>
stageVars == <<dir, staged>>
vars == <<disk, gitignore, userLines, saves, pc, opts, seen, plan,
          ignoreRead, dir, staged, committed, stoppedAt>>

Ended == {"done", "usageError", "engineError", "killed"}
Active(r) == pc[r] \notin Ended \cup {"idle"}

Goto(r, l) == pc' = [pc EXCEPT ![r] = l]

Planned(r) == {f \in Files : plan[r][f].ver # 0}

\* --format json forces a dry run, whatever --write says.
DryRun(o) == ~o.write \/ o.json

\* applyFixes refuses; dryRunFixes never does.
Refused(o) ==
  ~DryRun(o) /\ o.mode = "all" /\ ~o.tty /\ ~o.acceptUnsafe

Allowed(mode) ==
  CASE mode = "all"                 -> {"safe", "unsafe"}
    [] mode = "manual-only-explain" -> {"manual-only"}
    [] OTHER                        -> {"safe"}

Init ==
  /\ disk \in [Files -> [ver : {1}, finding : Classes,
                         sound : {TRUE}, whole : {TRUE}]]
  /\ gitignore \in [lines : {0}, entry : BOOLEAN, whole : {TRUE}]
  /\ userLines = 0
  /\ saves = 0
  /\ pc = [r \in Runs |-> "idle"]
  /\ opts \in [Runs -> Options]
  /\ seen = [r \in Runs |-> [f \in Files |-> NoText]]
  /\ plan = [r \in Runs |-> [f \in Files |-> NoEdit]]
  /\ ignoreRead = [r \in Runs |-> 0]
  /\ dir = [r \in Runs |-> FALSE]
  /\ staged = [r \in Runs |-> [f \in Files |->
                 [present |-> FALSE, text |-> NoText]]]
  /\ committed = [r \in Runs |-> {}]
  /\ stoppedAt = [r \in Runs |-> "idle"]

----------------------------------------------------------------------------
(* The user.                                                               *)

\* An editor saves a complete text.
UserSave(f) ==
  /\ saves < MaxSaves
  /\ \E c \in Classes :
       disk' = [disk EXCEPT ![f] = [ver |-> @.ver + 1, finding |-> c,
                                    sound |-> TRUE, whole |-> TRUE]]
  /\ saves' = saves + 1
  /\ UNCHANGED <<gitignore, userLines, pc, planVars, ignoreRead, stageVars,
                 committed, stoppedAt>>

\* The user appends a line to .gitignore and leaves the other lines alone.
UserIgnores ==
  /\ saves < MaxSaves
  /\ gitignore.whole
  /\ gitignore' = [gitignore EXCEPT !.lines = @ + 1]
  /\ userLines' = userLines + 1
  /\ saves' = saves + 1
  /\ UNCHANGED <<disk, pc, planVars, ignoreRead, stageVars, committed,
                 stoppedAt>>

----------------------------------------------------------------------------
(* planFixes.                                                              *)

\* runScan reads every file.
Scan(r) ==
  /\ pc[r] = "idle"
  /\ seen' = [seen EXCEPT ![r] = disk]
  /\ Goto(r, "scanned")
  /\ UNCHANGED <<treeVars, userVars, opts, plan, ignoreRead, stageVars,
                 committed, stoppedAt>>

\* A codegen routine may produce an edit when the scan reported a finding of
\* an allowed class and the text it re-reads still holds one of that class.
\* It declines (returns null) when its target is ambiguous.  A manual-only
\* finding always yields its explanation, in the form of an edit.
Explained(r) ==
  {f \in Files : /\ seen[r][f].finding = "manual-only"
                 /\ opts[r].mode = "manual-only-explain"}

Editable(r) ==
  {f \in Files : /\ seen[r][f].finding \in Allowed(opts[r].mode)
                 /\ f \notin Explained(r) =>
                      disk[f].finding = seen[r][f].finding}

\* Its byte offsets are those of the text now read; its target was located in
\* the text the scan read.
EditOf(r, f) ==
  [ver |-> disk[f].ver, class |-> seen[r][f].finding,
   exact |-> disk[f].ver = seen[r][f].ver]

\* The re-parse, applyFixes or dryRunFixes, the conflict check, the dry run.
Plan(r) ==
  /\ pc[r] = "scanned"
  /\ ~Refused(opts[r])
  /\ \E S \in SUBSET Editable(r), conflict \in BOOLEAN :
       /\ plan' = [plan EXCEPT ![r] =
                     [f \in Files |-> IF f \in S THEN EditOf(r, f) ELSE NoEdit]]
       /\ Explained(r) \subseteq S
       /\ conflict => S # {}
       /\ Goto(r, IF conflict THEN "usageError"
                  ELSE IF DryRun(opts[r]) \/ S = {} THEN "done"
                  ELSE "ignore")
  /\ UNCHANGED <<treeVars, userVars, opts, seen, ignoreRead, stageVars,
                 committed, stoppedAt>>

Refuse(r) ==
  /\ pc[r] = "scanned"
  /\ Refused(opts[r])
  /\ Goto(r, "usageError")
  /\ UNCHANGED <<treeVars, userVars, planVars, ignoreRead, stageVars,
                 committed, stoppedAt>>

----------------------------------------------------------------------------
(* writeFixes: .gitignore, staging, commit.                                *)

\* Mutant: an absent entry is taken for a present one.
IgnoreReadUntested(r) ==
  /\ pc[r] = "ignore"
  /\ ignoreRead' = [ignoreRead EXCEPT ![r] = gitignore.lines]
  /\ Goto(r, "mkdir")
  /\ UNCHANGED <<treeVars, userVars, planVars, stageVars, committed,
                 stoppedAt>>

\* ensureGitignoreEntry reads .gitignore and returns when the entry is there.
IgnoreRead(r) ==
  /\ pc[r] = "ignore"
  /\ ignoreRead' = [ignoreRead EXCEPT ![r] = gitignore.lines]
  /\ Goto(r, IF gitignore.entry THEN "mkdir" ELSE "ignoreAbsent")
  /\ UNCHANGED <<treeVars, userVars, planVars, stageVars, committed,
                 stoppedAt>>

\* fs.writeFile truncates the file before it writes.
IgnoreTruncate(r) ==
  /\ pc[r] = "ignoreAbsent"
  /\ gitignore' = [lines |-> 0, entry |-> FALSE, whole |-> FALSE]
  /\ Goto(r, "ignoreWriting")
  /\ UNCHANGED <<disk, userVars, planVars, ignoreRead, stageVars, committed,
                 stoppedAt>>

\* Mutant: the entry is written without what was there before.
IgnoreWriteAlone(r) ==
  /\ pc[r] = "ignoreWriting"
  /\ gitignore' = [lines |-> 0, entry |-> TRUE, whole |-> TRUE]
  /\ Goto(r, "mkdir")
  /\ UNCHANGED <<disk, userVars, planVars, ignoreRead, stageVars, committed,
                 stoppedAt>>

\* What was read is written back, with the entry appended.
IgnoreWrite(r) ==
  /\ pc[r] = "ignoreWriting"
  /\ gitignore' = [lines |-> ignoreRead[r], entry |-> TRUE, whole |-> TRUE]
  /\ Goto(r, "mkdir")
  /\ UNCHANGED <<disk, userVars, planVars, ignoreRead, stageVars, committed,
                 stoppedAt>>

CreateStagingRun(r) ==
  /\ pc[r] = "mkdir"
  /\ dir' = [dir EXCEPT ![r] = TRUE]
  /\ Goto(r, "stage")
  /\ UNCHANGED <<treeVars, userVars, planVars, ignoreRead, staged, committed,
                 stoppedAt>>

\* The original is read once more, and the staged copy is opened.
StageRead(r, f) ==
  /\ pc[r] = "stage"
  /\ f \in Planned(r)
  /\ ~staged[r][f].present
  /\ staged' = [staged EXCEPT ![r][f] =
                  [present |-> TRUE, text |-> [disk[f] EXCEPT !.whole = FALSE]]]
  /\ Goto(r, "writing")
  /\ UNCHANGED <<treeVars, userVars, planVars, ignoreRead, dir, committed,
                 stoppedAt>>

\* applyEditsInPlace splices at the planned offsets, whatever the text is.
\* On the planned version the finding the plan aimed at goes away; on another
\* version, or with a target located in an older scan, it may stay, and text
\* cut at foreign offsets may be damaged.  An explanation is prose, put
\* before the first byte of the file.
Patched(base, edit) ==
  [ver     : {base.ver},
   finding : IF edit.class = "manual-only" THEN {base.finding}
             ELSE IF base.ver = edit.ver /\ edit.exact THEN {"none"}
             ELSE {"none", base.finding},
   sound   : IF edit.class = "manual-only" THEN {FALSE}
             ELSE IF base.ver = edit.ver THEN {base.sound}
             ELSE {FALSE, base.sound},
   whole   : {TRUE}]

StageWrite(r, f) ==
  /\ pc[r] = "writing"
  /\ staged[r][f].present
  /\ ~staged[r][f].text.whole
  /\ \E t \in Patched(staged[r][f].text, plan[r][f]) :
       staged' = [staged EXCEPT ![r][f].text = t]
  /\ Goto(r, "stage")
  /\ UNCHANGED <<treeVars, userVars, planVars, ignoreRead, dir, committed,
                 stoppedAt>>

\* Mutant: the last stageFile is not awaited.
CommitStagingNotAwaited(r) ==
  /\ pc[r] \in {"stage", "writing"}
  /\ \A f \in Planned(r) : staged[r][f].present
  /\ Goto(r, "commit")
  /\ UNCHANGED <<treeVars, userVars, planVars, ignoreRead, stageVars,
                 committed, stoppedAt>>

\* commitStaging is called once every file is staged.
CommitStaging(r) ==
  /\ pc[r] = "stage"
  /\ \A f \in Planned(r) : staged[r][f].present
  /\ Goto(r, "commit")
  /\ UNCHANGED <<treeVars, userVars, planVars, ignoreRead, stageVars,
                 committed, stoppedAt>>

\* One fs.rename: the staged copy becomes the file.
Rename(r, f) ==
  /\ pc[r] = "commit"
  /\ f \in Planned(r) \ committed[r]
  /\ disk' = [disk EXCEPT ![f] =
                [staged[r][f].text EXCEPT !.ver = disk[f].ver + 1]]
  /\ staged' = [staged EXCEPT ![r][f] = [present |-> FALSE, text |-> NoText]]
  /\ committed' = [committed EXCEPT ![r] = @ \cup {f}]
  /\ UNCHANGED <<gitignore, userVars, pc, planVars, ignoreRead, dir,
                 stoppedAt>>

\* Mutant: a rename that failed is skipped.
RemoveStagingAnyway(r) ==
  /\ pc[r] = "commit"
  /\ dir' = [dir EXCEPT ![r] = FALSE]
  /\ Goto(r, "done")
  /\ UNCHANGED <<treeVars, userVars, planVars, ignoreRead, staged, committed,
                 stoppedAt>>

\* Every rename succeeded: the staging directory goes, the command exits 0.
RemoveStaging(r) ==
  /\ pc[r] = "commit"
  /\ committed[r] = Planned(r)
  /\ dir' = [dir EXCEPT ![r] = FALSE]
  /\ Goto(r, "done")
  /\ UNCHANGED <<treeVars, userVars, planVars, ignoreRead, staged, committed,
                 stoppedAt>>

\* Mutant: the staging directory is removed in a finally block.
ThrowCleansUp(r) ==
  /\ Active(r)
  /\ stoppedAt' = [stoppedAt EXCEPT ![r] = pc[r]]
  /\ Goto(r, "engineError")
  /\ dir' = [dir EXCEPT ![r] = FALSE]
  /\ staged' = [staged EXCEPT ![r] =
                  [f \in Files |-> [present |-> FALSE, text |-> NoText]]]
  /\ UNCHANGED <<treeVars, userVars, planVars, ignoreRead, committed>>

\* An awaited call throws: nothing is undone, the command exits 2.
Throw(r) ==
  /\ Active(r)
  /\ stoppedAt' = [stoppedAt EXCEPT ![r] = pc[r]]
  /\ Goto(r, "engineError")
  /\ UNCHANGED <<treeVars, userVars, planVars, ignoreRead, stageVars,
                 committed>>

\* The process dies.
Kill(r) ==
  /\ Active(r)
  /\ stoppedAt' = [stoppedAt EXCEPT ![r] = pc[r]]
  /\ Goto(r, "killed")
  /\ UNCHANGED <<treeVars, userVars, planVars, ignoreRead, stageVars,
                 committed>>

----------------------------------------------------------------------------
PlanStep(r) == Scan(r) \/ Plan(r) \/ Refuse(r)

StageStep(r) ==
  \/ IgnoreRead(r) \/ IgnoreTruncate(r) \/ IgnoreWrite(r)
  \/ CreateStagingRun(r)
  \/ \E f \in Files : StageRead(r, f) \/ StageWrite(r, f)

CommitStep(r) ==
  \/ CommitStaging(r)
  \/ \E f \in Files : Rename(r, f)
  \/ RemoveStaging(r)

RunStep(r) == PlanStep(r) \/ StageStep(r) \/ CommitStep(r)

Next ==
  \/ \E f \in Files : UserSave(f)
  \/ UserIgnores
  \/ \E r \in Runs : RunStep(r) \/ Throw(r) \/ Kill(r)

Spec == Init /\ [][Next]_vars

----------------------------------------------------------------------------
TypeOK ==
  /\ disk \in [Files -> Text]
  /\ gitignore \in [lines : Nat, entry : BOOLEAN, whole : BOOLEAN]
  /\ userLines \in Nat
  /\ saves \in Nat
  /\ pc \in [Runs -> Ended \cup
               {"idle", "scanned", "ignore", "ignoreAbsent", "ignoreWriting",
                "mkdir", "stage", "writing", "commit"}]
  /\ opts \in [Runs -> Options]
  /\ seen \in [Runs -> [Files -> Text]]
  /\ plan \in [Runs -> [Files -> [ver : Nat, class : Class,
                                  exact : BOOLEAN]]]
  /\ ignoreRead \in [Runs -> Nat]
  /\ dir \in [Runs -> BOOLEAN]
  /\ staged \in [Runs -> [Files -> [present : BOOLEAN, text : Text]]]
  /\ committed \in [Runs -> SUBSET Files]
  /\ stoppedAt \in [Runs -> {"idle", "scanned", "ignore", "ignoreAbsent",
                             "ignoreWriting", "mkdir", "stage", "writing",
                             "commit"}]

\* A reader of the tree never finds a half-written source file, although the
\* copies are written piecemeal: they are written where nobody reads them.
NothingTorn == \A f \in Files : disk[f].whole

\* Once a run has replaced a file, every other file it meant to replace is
\* replaced too or waits, complete, in the staging directory (the "inspection
\* contract" of commitStaging), whatever throws or dies in between.
StagedCopiesSurvive ==
  \A r \in Runs : committed[r] # {} =>
    \A f \in Planned(r) \ committed[r] :
      dir[r] /\ staged[r][f].present /\ staged[r][f].text.whole

\* Exit code 0 says that everything planned is in place and that nothing is
\* left in the staging directory, or that nothing was to be written.
DoneMeansCommitted ==
  \A r \in Runs : pc[r] = "done" =>
    /\ committed[r] = IF DryRun(opts[r]) THEN {} ELSE Planned(r)
    /\ ~dir[r]

\* A rewrite of the unsafe class reaches the tree only with --mode all and a
\* user who is there to see it or who said --accept-unsafe; a dry run, and
\* --format json is one, writes nothing at all.
OnlyConsentedWrites ==
  \A r \in Runs : \A f \in committed[r] :
    /\ opts[r].write /\ ~opts[r].json
    /\ plan[r][f].class = "unsafe" =>
         opts[r].mode = "all" /\ (opts[r].tty \/ opts[r].acceptUnsafe)

\* No file holds a text into which edits were spliced at offsets meant for
\* another text; a re-scan of the staged copy would report such a text as a
\* parse error, a finding the original did not have.
InstalledTextIsSound == \A f \in Files : disk[f].sound

----------------------------------------------------------------------------
(* The inductive invariant of FixProofs: what holds of one run at each     *)
(* place it can be in.                                                     *)

Planning == {"idle", "scanned"}
Preparing == {"ignore", "ignoreAbsent", "ignoreWriting", "mkdir"}
Staging == {"stage", "writing"}

\* Until the staging directory exists nothing is staged.
NotYetStaged(r) ==
  pc[r] \in Planning \cup Preparing =>
    ~dir[r] /\ committed[r] = {} /\ \A f \in Files : ~staged[r][f].present

\* While files are staged, at most the one being written is incomplete.
StagingInProgress(r) ==
  pc[r] \in Staging =>
    /\ dir[r] /\ committed[r] = {}
    /\ \A f, g \in Files :
         (/\ staged[r][f].present /\ ~staged[r][f].text.whole
          /\ staged[r][g].present /\ ~staged[r][g].text.whole) => f = g
    /\ pc[r] = "stage" => \A f \in Files : staged[r][f].present =>
                                             staged[r][f].text.whole

\* From commitStaging on, also after a stop inside it, what is not renamed
\* is staged and complete.
CommitInProgress(r) ==
  "commit" \in {pc[r], stoppedAt[r]} =>
    /\ dir[r] /\ committed[r] \subseteq Planned(r)
    /\ \A f \in Planned(r) \ committed[r] :
         staged[r][f].present /\ staged[r][f].text.whole

\* A run that ended otherwise than inside commitStaging and otherwise than
\* with success has renamed nothing.
EndedRun(r) ==
  /\ pc[r] \in {"usageError", "engineError", "killed"} =>
       stoppedAt[r] = "commit" \/ committed[r] = {}
  /\ pc[r] = "done" => /\ ~dir[r]
                       /\ committed[r] = IF DryRun(opts[r]) THEN {}
                                         ELSE Planned(r)
  /\ pc[r] \notin {"engineError", "killed"} => stoppedAt[r] = "idle"

\* A run that gets to write was not refused, and plans edits of the allowed
\* classes only.
Consented(r) ==
  /\ pc[r] \in Preparing \cup Staging \cup {"commit"} \/ committed[r] # {} =>
       ~DryRun(opts[r]) /\ ~Refused(opts[r])
  /\ \A f \in Planned(r) : plan[r][f].class \in Allowed(opts[r].mode)

RunInv(r) ==
  /\ NotYetStaged(r)
  /\ StagingInProgress(r)
  /\ CommitInProgress(r)
  /\ EndedRun(r)
  /\ Consented(r)

IInv == TypeOK /\ NothingTorn /\ \A r \in Runs : RunInv(r)

----------------------------------------------------------------------------
(* The run as FixPromise sees it: the staging directory is invisible, and  *)
(* a run starts to apply when it enters commitStaging.                     *)

AbstractPhase(r) ==
  CASE pc[r] = "commit" -> "applying"
    [] pc[r] = "done" /\ committed[r] # {} -> "applied"
    [] pc[r] \in Ended /\ ~(pc[r] = "done" /\ committed[r] # {}) -> "stopped"
    [] OTHER -> "open"

AbstractTodo(r) ==
  IF "commit" \in {pc[r], stoppedAt[r]} THEN Planned(r) \ committed[r] ELSE {}

Promise == INSTANCE FixPromise WITH
  Texts <- [ver : Nat, finding : Class, sound : BOOLEAN, whole : {TRUE}],
  text  <- disk,
  phase <- [r \in Runs |-> AbstractPhase(r)],
  todo  <- [r \in Runs |-> AbstractTodo(r)]

KeepsPromise == Promise!Spec
=============================================================================
