------------------------------ MODULE ActionRun ------------------------------
(***************************************************************************)
(* The GitHub Action (packages/github-action).  Every push starts a        *)
(* workflow run.  A run on a pull request checks out the base branch and   *)
(* scans all of it, checks out the pull request's head and scans the files *)
(* that differ (--diff-only), takes for new what the second scan reports   *)
(* and the first does not, scans the head again for the SARIF report,      *)
(* writes or updates one comment on the pull request, uploads the report,  *)
(* and fails when the head scan failed.  A run on a push to the base       *)
(* branch scans the whole tree and leaves the comments alone.              *)
(*                                                                         *)
(* A workspace belongs to one run; what runs share are the comments of the *)
(* pull request.  The comments, the analyses and git are services outside  *)
(* the repository, modelled by what the Action relies on.                  *)
(*                                                                         *)
(* A tree has one handler per handler file, and one helper file some       *)
(* handlers import their verification from (and hand their body to, so     *)
(* that nothing else can vouch for it).  The scanner follows an import     *)
(* only into a file it was given to parse (model/reachability.ts).         *)
(*                                                                         *)
(* Files are paths from the root of the repository.  The Action scans what *)
(* lies below its working directory, and a scan names a file by its path   *)
(* from there; git diff names it by its path from the root.                *)
(***************************************************************************)
EXTENDS Integers, Sequences, SequencesExt

CONSTANTS
  Runs,        \* workflow runs, one per push
  Handlers,    \* handler files
  Helper,      \* the file the verification may be imported from
  WorkDir,     \* the input working-directory, a path; << >> is the root
  Styles,      \* the ways a handler may be written, see Style
  PerPage,     \* comments one call of listComments returns (100 in the code)
  MaxComments  \* bound on the comments of the pull request

Style == {"absent", "open", "reworded", "muted", "inline", "imports"}

ASSUME StylesAssumption == Styles \subseteq Style
ASSUME PageAssumption == PerPage \in Nat \ {0} /\ MaxComments \in Nat
ASSUME FilesAssumption ==
  /\ Helper \notin Handlers
  /\ WorkDir \in Seq(STRING) /\ Handlers \cup {Helper} \subseteq Seq(STRING)

VARIABLES
  base,      \* the tree at the tip of the base branch
  head,      \* the tree at the tip of the pull request
  fork,      \* whether the pull request comes from a fork
  run,       \* the state of every workflow run
  started,   \* the runs in the order of their pushes
  comments,  \* the comments of the pull request, oldest first
  posted,    \* comments ever posted, the source of their ids
  analyses,  \* the SARIF reports uploaded: which run, which findings
  overlap    \* whether two runs were ever at work at once, which a workflow
             \* with a concurrency group prevents

vars == <<base, head, fork, run, started, comments, posted, analyses, overlap>>

-----------------------------------------------------------------------------
(* Trees and what one scan reports.                                        *)

Files == Handlers \cup {Helper}

(* The files below the working directory, and their names in a scan.       *)
Scanned == {f \in Files : IsPrefix(WorkDir, f)}
NameInScan(f) == SubSeq(f, Len(WorkDir) + 1, Len(f))

(* What every handler does, and whether the helper really verifies.  A     *)
(* "muted" handler is an open one under a suppression comment, and a       *)
(* "reworded" one an open one with another first line.                     *)
Tree == [style : [Handlers -> Styles],
         verifies : IF "imports" \in Styles THEN BOOLEAN ELSE {TRUE}]

Verified(t, h, parsed) ==
  \/ t.style[h] = "inline"
  \/ t.style[h] = "imports" /\ t.verifies /\ Helper \in parsed

(* A finding as baseHashes and the comment know it, by its fingerprint: the *)
(* rule, the file and the first line of the handler.                       *)
Rules == {"library-verified", "missing-signature-verification"}
Lines == {"first", "other"}
Finding == [rule : Rules, file : Handlers, line : Lines]

FindingsOf(t, parsed) ==
  {f \in Finding :
     /\ f.file \in parsed
     /\ t.style[f.file] # "absent"
     /\ f.line = IF t.style[f.file] = "reworded" THEN "other" ELSE "first"
     /\ f.rule = IF Verified(t, f.file, parsed)
                   THEN "library-verified" ELSE "missing-signature-verification"}

Active(t, parsed) == {f \in FindingsOf(t, parsed) : t.style[f.file] # "muted"}

(* countActiveAtOrAbove: a verified verdict never gates.                   *)
Exit1(findings) == \E f \in findings : f.rule = "missing-signature-verification"

(* Mutant of Changed: the filter forgets added files.                      *)
ChangedButAdded(from, to) ==
  {h \in Handlers : /\ to.style[h] # "absent" /\ from.style[h] # "absent"
                    /\ to.style[h] # from.style[h]}

(* git diff base..HEAD with the filter ACMR: files added or modified, all  *)
(* over the repository.                                                    *)
Changed(from, to) ==
  {h \in Handlers : to.style[h] # "absent" /\ to.style[h] # from.style[h]}
    \cup (IF to.verifies # from.verifies THEN {Helper} ELSE {})

(* What --diff-only leaves of a scan: the files whose name is one of git's. *)
Candidates(differ) == {f \in Scanned : NameInScan(f) \in differ}

-----------------------------------------------------------------------------
(* Runs and comments.                                                      *)

Steps == {"idle", "fetch", "base", "head", "full", "sarif",
          "list", "post", "upload", "finish", "done"}

Run == [at : Steps, event : {"pull_request", "push"},
        tree : Tree,                 \* the commit the run was started for
        remote : Tree,               \* origin/<base> in the run's workspace
        workspace : Tree,            \* what is checked out
        baseHashes : SUBSET Finding, newFindings : SUBSET Finding,
        sarif : SUBSET Finding,      \* what hookwarden.sarif says
        failed : BOOLEAN,            \* the head scan exited 1
        existing : Nat,              \* id of the sticky comment found, or 0
        told : BOOLEAN,              \* the comment step ended without warning
        conclusion : {"none", "success", "failure"}]

Comment == [id : Nat \ {0}, author : {"bot", "human"}, marked : BOOLEAN,
            body : SUBSET Finding]   \* {} for CLEAN_BODY and for free text

IsSticky(c) == c.marked /\ c.author = "bot"

TypeOK ==
  /\ base \in Tree /\ head \in Tree /\ fork \in BOOLEAN
  /\ run \in [Runs -> Run]
  /\ started \in Seq(Runs)
  /\ comments \in Seq(Comment) /\ posted \in Nat
  /\ analyses \subseteq [run : Runs, findings : SUBSET Finding] /\ overlap \in BOOLEAN

Idle(t) ==
  [at |-> "idle", event |-> "push", tree |-> t, remote |-> t, workspace |-> t,
   baseHashes |-> {}, newFindings |-> {}, sarif |-> {}, failed |-> FALSE,
   existing |-> 0, told |-> FALSE, conclusion |-> "none"]

Init ==
  /\ base \in Tree
  /\ head = base
  /\ fork \in BOOLEAN
  /\ run = [r \in Runs |-> Idle(base)]
  /\ started = <<>> /\ comments = <<>> /\ posted = 0 /\ analyses = {}
  /\ overlap = FALSE

Ended(r) == run[r].at \in {"idle", "done"}
MayStart(r) == run[r].at = "idle"

(* actions/checkout leaves the pushed commit in the workspace and every    *)
(* branch of the remote as it is at that moment.                           *)
Start(r, event, t, step, remote) ==
  /\ started' = Append(started, r)
  /\ run' = [run EXCEPT ![r] = [Idle(t) EXCEPT !.at = step, !.event = event,
                                               !.remote = remote]]
  /\ overlap' = (overlap \/ \E q \in Runs : ~Ended(q))
  /\ UNCHANGED <<fork, comments, posted, analyses>>

PushHead(r, t) ==
  /\ MayStart(r)
  /\ head' = t /\ UNCHANGED base
  /\ Start(r, "pull_request", t, "fetch", base)

PushBase(r, t) ==
  /\ MayStart(r)
  /\ base' = t /\ UNCHANGED head
  /\ Start(r, "push", t, "full", t)

-----------------------------------------------------------------------------
(* runActionScan.                                                          *)

Private == UNCHANGED <<base, head, fork, started, comments, posted, analyses, overlap>>

Advance(r, to) == run' = [run EXCEPT ![r].at = to]

(* An exception anywhere before the comment: core.setFailed, and the       *)
(* workspace stays as the steps before left it.                            *)
Throw(r, workspace) ==
  run' = [run EXCEPT ![r].at = "done", ![r].conclusion = "failure",
                     ![r].workspace = workspace]

(* gitFetch only warns when it fails: the run goes on with the old ref.    *)
Fetch(r) ==
  /\ run[r].at = "fetch"
  /\ \E remote \in {base, run[r].remote} :
       run' = [run EXCEPT ![r].at = "base", ![r].remote = remote]
  /\ Private

(* The findings of a whole tree that nothing suppresses; mutant: all.      *)
BaseHashesUnfiltered(t) == FindingsOf(t, Scanned)
BaseHashes(t) == Active(t, Scanned)

(* git checkout may fail, the scan may end with a hard error (2, 3 or 4),  *)
(* or it reports the active findings of the whole base.                    *)
ScanBase(r) ==
  /\ run[r].at = "base"
  /\ LET t == run[r].remote IN
       \/ Throw(r, run[r].workspace)
       \/ Throw(r, t)
       \/ run' = [run EXCEPT ![r].at = "head", ![r].workspace = t,
                             ![r].baseHashes = BaseHashes(t)]
  /\ Private

(* git checkout of the head and the --diff-only scan of what it left in    *)
(* the workspace.  Some files differ in ways no rule looks at.             *)
CheckoutHead(r) == run[r].tree

ScanHead(r) ==
  /\ run[r].at = "head"
  /\ LET t == CheckoutHead(r) IN
       \/ Throw(r, run[r].workspace)
       \/ Throw(r, t)
       \/ \E touched \in SUBSET Files :
            LET found == Active(t, Candidates(touched \cup Changed(run[r].remote, t))) IN
              run' = [run EXCEPT ![r].at = "sarif", ![r].workspace = t,
                                 ![r].newFindings = found \ run[r].baseHashes,
                                 ![r].failed = Exit1(found)]
  /\ Private

(* The path of every event but pull_request: one scan of the whole tree.   *)
ScanAll(r) ==
  /\ run[r].at = "full"
  /\ \/ Throw(r, run[r].workspace)
     \/ run' = [run EXCEPT ![r].at = "sarif",
                           ![r].failed = Exit1(Active(run[r].workspace, Scanned))]
  /\ Private

(* The scan for the report is never --diff-only.  run() goes on to the     *)
(* comment for a pull request that is not from a fork.                     *)
EmitSarif(r) ==
  /\ run[r].at = "sarif"
  /\ \/ Throw(r, run[r].workspace)
     \/ run' = [run EXCEPT ![r].sarif = Active(run[r].workspace, Scanned),
                           ![r].at = IF run[r].event = "pull_request" /\ ~fork
                                       THEN "list" ELSE "upload"]
  /\ Private

-----------------------------------------------------------------------------
(* postOrUpdateStickyComment.                                              *)

FirstPage == {i \in DOMAIN comments : i <= PerPage}

(* The id of the first of these comments, or what stands for none.         *)
FirstOf(found, none) ==
  IF found = {} THEN none
    ELSE comments[CHOOSE i \in found : \A j \in found : i <= j].id

(* Mutant of FindSticky: a login without its "[bot]", which no comment has. *)
FindByLogin ==
  FirstOf({i \in FirstPage : comments[i].marked /\ comments[i].author = "github-actions"}, 0)

(* The first comment of the first page with the marker and the bot's name. *)
FindSticky == FirstOf({i \in FirstPage : IsSticky(comments[i])}, 0)

Warn(r) == Advance(r, "upload") /\ UNCHANGED <<comments, posted>>

(* No token, or the call fails: a warning, and no comment.                 *)
ListComments(r) ==
  /\ run[r].at = "list"
  /\ \/ Warn(r)
     \/ /\ run' = [run EXCEPT ![r].at = "post", ![r].existing = FindSticky]
        /\ UNCHANGED <<comments, posted>>
  /\ UNCHANGED <<base, head, fork, started, analyses, overlap>>

Tell(r) == run' = [run EXCEPT ![r].at = "upload", ![r].told = TRUE]

(* updateComment fails when the comment is gone.                           *)
UpdateComment(r) ==
  /\ \E i \in DOMAIN comments :
       /\ comments[i].id = run[r].existing
       /\ comments' = [comments EXCEPT ![i].body = run[r].newFindings]
  /\ Tell(r) /\ UNCHANGED posted

CreateComment(r) ==
  /\ Len(comments) < MaxComments
  /\ comments' = Append(comments, [id |-> posted + 1, author |-> "bot",
                                   marked |-> TRUE, body |-> run[r].newFindings])
  /\ posted' = posted + 1
  /\ Tell(r)

(* Mutant of PostComment: a clean run never writes.                        *)
PostUnlessClean(r) ==
  /\ run[r].at = "post"
  /\ \/ Warn(r)
     \/ run[r].existing # 0 /\ run[r].newFindings # {} /\ UpdateComment(r)
     \/ run[r].existing = 0 /\ run[r].newFindings # {} /\ CreateComment(r)
     \/ run[r].newFindings = {} /\ Tell(r) /\ UNCHANGED <<comments, posted>>
  /\ UNCHANGED <<base, head, fork, started, analyses, overlap>>

PostComment(r) ==
  /\ run[r].at = "post"
  /\ \/ Warn(r)
     \/ run[r].existing # 0 /\ UpdateComment(r)
     \/ run[r].existing = 0 /\ run[r].newFindings # {} /\ CreateComment(r)
     \/ run[r].existing = 0 /\ run[r].newFindings = {} /\ Tell(r)
          /\ UNCHANGED <<comments, posted>>
  /\ UNCHANGED <<base, head, fork, started, analyses, overlap>>

-----------------------------------------------------------------------------
(* uploadSarif and the conclusion of the run.                              *)

(* Skipped on a fork; any failure is a warning.                            *)
Upload(r) ==
  /\ run[r].at = "upload"
  /\ \/ UNCHANGED analyses
     \/ /\ ~(fork /\ run[r].event = "pull_request")
        /\ analyses' = analyses \cup {[run |-> r, findings |-> run[r].sarif]}
  /\ Advance(r, "finish")
  /\ UNCHANGED <<base, head, fork, started, comments, posted, overlap>>

Finish(r) ==
  /\ run[r].at = "finish"
  /\ run' = [run EXCEPT ![r].at = "done",
               ![r].conclusion = IF run[r].failed THEN "failure" ELSE "success"]
  /\ Private

(* People write on the pull request, some of them quoting the marker, and  *)
(* delete comments.                                                        *)
HumanComments ==
  /\ Len(comments) < MaxComments
  /\ \E marked \in BOOLEAN :
       comments' = Append(comments, [id |-> posted + 1, author |-> "human",
                                     marked |-> marked, body |-> {}])
  /\ posted' = posted + 1 /\ posted <= MaxComments
  /\ UNCHANGED <<base, head, fork, run, started, analyses, overlap>>

HumanDeletes ==
  /\ \E i \in DOMAIN comments : comments' = RemoveAt(comments, i)
  /\ UNCHANGED <<base, head, fork, run, started, posted, analyses, overlap>>

RunStep(r) ==
  \/ Fetch(r) \/ ScanBase(r) \/ ScanHead(r) \/ ScanAll(r) \/ EmitSarif(r)
  \/ ListComments(r) \/ PostComment(r) \/ Upload(r) \/ Finish(r)

Next ==
  \/ \E r \in Runs, t \in Tree : PushHead(r, t) \/ PushBase(r, t)
  \/ \E r \in Runs : RunStep(r)
  \/ HumanComments \/ HumanDeletes

Spec == Init /\ [][Next]_vars

-----------------------------------------------------------------------------
(* What the Action promises.                                               *)

(* The runs that got past the scan of the head.                            *)
Compared(r) ==
  /\ run[r].event = "pull_request"
  /\ run[r].at \in {"sarif", "list", "post", "upload", "finish"}

(* The findings a run calls new are those of the head below the working    *)
(* directory that the base does not have there (README, "Outputs"),        *)
(* although the head was only scanned where it differs.                    *)
NewIsExact ==
  \A r \in Runs :
    Compared(r) =>
      run[r].newFindings = Active(run[r].tree, Scanned) \ Active(run[r].remote, Scanned)

(* A pull request that leaves a handler below the working directory        *)
(* unverified which the base did not have unverified never gets a green    *)
(* check.                                                                  *)
GreenIsSafe ==
  \A r \in Runs :
    run[r].event = "pull_request" /\ run[r].conclusion = "success" =>
      ~Exit1(Active(run[r].tree, Scanned) \ Active(run[r].remote, Scanned))

(* Unless runs overlap, a pull request carries at most one summary of the  *)
(* Action, whatever people write, quote or delete.                         *)
OneSticky ==
  ~overlap => \A i, j \in DOMAIN comments :
    IsSticky(comments[i]) /\ IsSticky(comments[j]) => i = j

(* Unless runs overlap, once the newest run on the pull request has        *)
(* written its comment no summary says anything else than what it found.   *)
StickyIsLatest ==
  LET onHead == {i \in DOMAIN started : run[started[i]].event = "pull_request"} IN
    ~overlap /\ onHead # {} =>
      LET r == started[CHOOSE i \in onHead : \A j \in onHead : j <= i] IN
        run[r].told =>
          \A i \in DOMAIN comments :
            IsSticky(comments[i]) => comments[i].body = run[r].newFindings

=============================================================================
