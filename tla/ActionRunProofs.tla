--------------------------- MODULE ActionRunProofs ---------------------------
(***************************************************************************)
(* The workflow runs of ActionRun, for any number of pushes, handlers and  *)
(* comments.                                                               *)
(*                                                                         *)
(* What a run calls new is new, for every handler that does not import its *)
(* verification and any working directory (ScanInv needs no assumption).   *)
(* It is all that is new if the working directory is the root: then git's  *)
(* names are those of the scan.  Else they need not have one in common,    *)
(* and no handler is looked at (Blind).                                    *)
(*                                                                         *)
(* What the pull request carries is right as long as runs do not overlap   *)
(* and its comments fit one call of listComments, the premise the code     *)
(* states (comment.ts, findStickyComment).  StartedInv and SummaryInv say   *)
(* why: one run at a time is at work, it is the last one started, and what *)
(* it found when it listed the comments is still the only summary when it  *)
(* writes.                                                                 *)
(***************************************************************************)
EXTENDS ActionRun, WellFoundedInduction, TLAPS

----------------------------------------------------------------------------
(* The inductive invariant.                                                *)

\* No handler takes its verification from the helper.
OnTheSpot == "imports" \notin Styles
\* The Action scans the whole repository.
AtTheRoot == WorkDir = <<>>
\* No name in a scan is one that git may print.
Apart == \A f \in Scanned : NameInScan(f) \notin Files
\* Every comment is on the first page.
OnePage == MaxComments <= PerPage

\* What the base has not, as far as one scan of the whole head can tell.
Added(r) == Active(run[r].tree, Scanned) \ Active(run[r].remote, Scanned)

\* The steps a run on a pull request, and one on a push, can be at.
Places(r) ==
  /\ run[r].at \in {"fetch", "base", "head", "list", "post"} =>
       run[r].event = "pull_request"
  /\ run[r].at = "full" => run[r].event = "push"
  /\ run[r].conclusion # "none" => run[r].at = "done"
  /\ run[r].told => run[r].at \in {"upload", "finish", "done"}

\* A green check, given or about to be.
Green(r) ==
  \/ Compared(r) /\ ~run[r].failed
  \/ run[r].event = "pull_request" /\ run[r].conclusion = "success"

\* What a run knows of the handlers that do not import their verification.
Knows(r) ==
  /\ run[r].at = "head" => run[r].baseHashes = Active(run[r].remote, Scanned)
  /\ Compared(r) => \A f \in Finding :
       run[r].tree.style[f.file] # "imports" =>
         /\ f \in run[r].newFindings => f \in Added(r)
         /\ AtTheRoot /\ f \in Added(r) => f \in run[r].newFindings
  /\ Compared(r) /\ Apart => run[r].newFindings = {} /\ ~run[r].failed
  /\ Green(r) /\ AtTheRoot => \A f \in Added(r) :
       run[r].tree.style[f.file] # "imports" =>
         f.rule # "missing-signature-verification"

ScanInv == \A r \in Runs : Places(r) /\ Knows(r)

\* The runs are started once each, and one of the head is the newest.
OfHead(i) == run[started[i]].event = "pull_request"
Newest(i) ==
  /\ i \in DOMAIN started /\ OfHead(i)
  /\ \A j \in DOMAIN started : OfHead(j) => j <= i
StartedInv ==
  /\ \A i \in DOMAIN started : run[started[i]].at # "idle"
  /\ (\E i \in DOMAIN started : OfHead(i)) => \E i \in DOMAIN started : Newest(i)
  /\ ~overlap =>
       /\ \A q, r \in Runs : ~Ended(q) /\ ~Ended(r) => q = r
       /\ \A r \in Runs : ~Ended(r) =>
            started # <<>> /\ started[Len(started)] = r

\* The comments fit the page and have ids of their own.
IdsInv ==
  /\ Len(comments) <= MaxComments
  /\ \A i \in DOMAIN comments : comments[i].id <= posted
  /\ \A i, j \in DOMAIN comments : comments[i].id = comments[j].id => i = j

\* The summaries of the Action.
SummaryInv ==
  ~overlap =>
    /\ \A i, j \in DOMAIN comments :
         IsSticky(comments[i]) /\ IsSticky(comments[j]) => i = j
    /\ \A r \in Runs : run[r].at = "post" =>
         \A i \in DOMAIN comments :
           IsSticky(comments[i]) => comments[i].id = run[r].existing
    /\ \A k \in DOMAIN started : Newest(k) /\ run[started[k]].told =>
         \A i \in DOMAIN comments :
           IsSticky(comments[i]) => comments[i].body = run[started[k]].newFindings

----------------------------------------------------------------------------
(* Types.                                                                  *)

\* What a scan reports are findings, and what is active among them.
LEMMA ScanReports ==
  ASSUME NEW t, NEW parsed
  PROVE  FindingsOf(t, parsed) \subseteq Finding /\ Active(t, parsed) \subseteq Finding
BY DEF FindingsOf, Active

\* An exit code is one or the other.
LEMMA ExitsOneOrNot == ASSUME NEW s PROVE Exit1(s) \in BOOLEAN
BY Zenon DEF Exit1

\* A run with a field changed within its type is a run.
LEMMA RunWith ==
  ASSUME NEW x \in Run
  PROVE  /\ \A v \in Steps : [x EXCEPT !.at = v] \in Run
         /\ \A v \in Tree : [x EXCEPT !.remote = v] \in Run
         /\ \A v \in Tree : [x EXCEPT !.workspace = v] \in Run
         /\ \A v \in SUBSET Finding : [x EXCEPT !.baseHashes = v] \in Run
         /\ \A v \in SUBSET Finding : [x EXCEPT !.newFindings = v] \in Run
         /\ \A v \in SUBSET Finding : [x EXCEPT !.sarif = v] \in Run
         /\ \A v \in BOOLEAN : [x EXCEPT !.failed = v] \in Run
         /\ \A v \in Nat : [x EXCEPT !.existing = v] \in Run
         /\ \A v \in BOOLEAN : [x EXCEPT !.told = v] \in Run
         /\ \A v \in {"none", "success", "failure"} :
              [x EXCEPT !.conclusion = v] \in Run
BY DEF Run

\* A run before its push, and one that has just started, are runs.
LEMMA IdleIsRun ==
  ASSUME NEW t \in Tree
  PROVE  /\ Idle(t) \in Run
         /\ \A s \in Steps, e \in {"pull_request", "push"}, u \in Tree :
              [Idle(t) EXCEPT !.at = s, !.event = e, !.remote = u] \in Run
BY DEF Idle, Run, Steps
----------------------------------------------------------------------------
(* What the steps of a run leave as it was.                                *)

\* The other runs.
Others(r) == run' \in [Runs -> Run] /\ \A q \in Runs : q # r => run'[q] = run[q]

\* What the run was started for.
Keeps(r) == run'[r].event = run[r].event /\ run'[r].tree = run[r].tree

\* What it has found.
KeepsFound(r) ==
  /\ run'[r].newFindings = run[r].newFindings /\ run'[r].failed = run[r].failed
  /\ run'[r].remote = run[r].remote

KeepsTold(r) == run'[r].told = run[r].told

LEMMA Throws ==
  ASSUME TypeOK, NEW r \in Runs, NEW w \in Tree, Throw(r, w)
  PROVE  /\ Others(r) /\ Keeps(r) /\ KeepsFound(r) /\ KeepsTold(r)
         /\ run'[r].at = "done" /\ run'[r].conclusion = "failure"
<1> DEFINE x == [run[r] EXCEPT !.at = "done", !.conclusion = "failure",
                               !.workspace = w]
<1>1. x \in Run
  BY RunWith DEF TypeOK, Steps
<1>2. run' = [run EXCEPT ![r] = x]
  BY DEF Throw, TypeOK
<1>3. run[r] \in Run
  BY DEF TypeOK
<1> QED
  BY <1>1, <1>2, <1>3 DEF TypeOK, Others, Keeps, KeepsFound, KeepsTold, Run

LEMMA Advances ==
  ASSUME TypeOK, NEW r \in Runs, NEW to \in Steps, Advance(r, to)
  PROVE  /\ Others(r) /\ Keeps(r) /\ KeepsFound(r) /\ KeepsTold(r)
         /\ run'[r].at = to /\ run'[r].conclusion = run[r].conclusion
         /\ run'[r].existing = run[r].existing
<1> DEFINE x == [run[r] EXCEPT !.at = to]
<1>1. x \in Run
  BY RunWith DEF TypeOK
<1>2. run' = [run EXCEPT ![r] = x]
  BY DEF Advance, TypeOK
<1>3. run[r] \in Run
  BY DEF TypeOK
<1> QED
  BY <1>1, <1>2, <1>3 DEF TypeOK, Others, Keeps, KeepsFound, KeepsTold, Run

\* The fetch settles what the head will be compared with.
LEMMA Fetches ==
  ASSUME TypeOK, NEW r \in Runs, Fetch(r)
  PROVE  /\ Others(r) /\ Keeps(r) /\ KeepsTold(r)
         /\ run'[r].at = "base" /\ run'[r].conclusion = run[r].conclusion
<1>1. PICK remote \in {base, run[r].remote} :
        run' = [run EXCEPT ![r].at = "base", ![r].remote = remote]
  BY DEF Fetch
<1> DEFINE x == [run[r] EXCEPT !.at = "base", !.remote = remote]
<1>2. run[r] \in Run /\ remote \in Tree
  BY DEF TypeOK, Run
<1>3. x \in Run
  BY <1>2, RunWith DEF Steps
<1>4. run' = [run EXCEPT ![r] = x]
  BY <1>1 DEF TypeOK
<1> QED
  BY <1>2, <1>3, <1>4 DEF TypeOK, Others, Keeps, KeepsTold, Run

LEMMA ScansBase ==
  ASSUME TypeOK, NEW r \in Runs, ScanBase(r)
  PROVE  /\ Others(r) /\ Keeps(r) /\ KeepsFound(r) /\ KeepsTold(r)
         /\ \/ run'[r].at = "done" /\ run'[r].conclusion = "failure"
            \/ /\ run'[r].at = "head" /\ run'[r].conclusion = run[r].conclusion
               /\ run'[r].baseHashes = Active(run[r].remote, Scanned)
<1> DEFINE t == run[r].remote
           x == [run[r] EXCEPT !.at = "head", !.workspace = t,
                               !.baseHashes = Active(t, Scanned)]
<1>1. run[r] \in Run /\ t \in Tree /\ run[r].workspace \in Tree
  BY DEF TypeOK, Run
<1>2. CASE Throw(r, run[r].workspace)
  BY <1>1, <1>2, Throws
<1>3. CASE Throw(r, t)
  BY <1>1, <1>3, Throws
<1>4. CASE run' = [run EXCEPT ![r].at = "head", ![r].workspace = t,
                              ![r].baseHashes = BaseHashes(t)]
  <2>1. x \in Run
    BY <1>1, RunWith, ScanReports DEF Steps
  <2>2. run' = [run EXCEPT ![r] = x]
    BY <1>4 DEF TypeOK, BaseHashes
  <2> QED
    BY <1>1, <2>1, <2>2 DEF TypeOK, Others, Keeps, KeepsFound, KeepsTold, Run
<1> QED
  BY <1>2, <1>3, <1>4 DEF ScanBase

LEMMA ScansHead ==
  ASSUME TypeOK, NEW r \in Runs, ScanHead(r)
  PROVE  /\ Others(r) /\ Keeps(r) /\ KeepsTold(r)
         /\ run'[r].remote = run[r].remote
         /\ \/ run'[r].at = "done" /\ run'[r].conclusion = "failure"
            \/ /\ run'[r].at = "sarif" /\ run'[r].conclusion = run[r].conclusion
               /\ \E touched \in SUBSET Files :
                    LET t == run[r].tree
                        found == Active(t, Candidates(touched \cup Changed(run[r].remote, t))) IN
                      /\ run'[r].newFindings = found \ run[r].baseHashes
                      /\ run'[r].failed = Exit1(found)
<1> DEFINE t == run[r].tree
<1>1. run[r] \in Run /\ t \in Tree /\ run[r].workspace \in Tree
  BY DEF TypeOK, Run
<1>2. CASE Throw(r, run[r].workspace)
  BY <1>1, <1>2, Throws DEF KeepsFound
<1>3. CASE Throw(r, t)
  BY <1>1, <1>3, Throws DEF KeepsFound
<1>4. ASSUME NEW touched \in SUBSET Files,
             LET found == Active(t, Candidates(touched \cup Changed(run[r].remote, t))) IN
               run' = [run EXCEPT ![r].at = "sarif", ![r].workspace = t,
                                  ![r].newFindings = found \ run[r].baseHashes,
                                  ![r].failed = Exit1(found)]
      PROVE  /\ Others(r) /\ Keeps(r) /\ KeepsTold(r)
             /\ run'[r].remote = run[r].remote
             /\ run'[r].at = "sarif" /\ run'[r].conclusion = run[r].conclusion
             /\ LET found == Active(t, Candidates(touched \cup Changed(run[r].remote, t))) IN
                  /\ run'[r].newFindings = found \ run[r].baseHashes
                  /\ run'[r].failed = Exit1(found)
  <2> DEFINE found == Active(t, Candidates(touched \cup Changed(run[r].remote, t)))
             red == Exit1(found)
             x == [run[r] EXCEPT !.at = "sarif", !.workspace = t,
                                 !.newFindings = found \ run[r].baseHashes,
                                 !.failed = red]
  <2>1. found \subseteq Finding
    BY ScanReports
  <2>2. red \in BOOLEAN
    BY ExitsOneOrNot
  <2>3. run' = [run EXCEPT ![r] = x]
    BY <1>4 DEF TypeOK
  <2> HIDE DEF found, red
  <2>4. x \in Run
    BY <1>1, <2>1, <2>2, RunWith DEF Steps
  <2>5. /\ x.event = run[r].event /\ x.tree = t /\ x.told = run[r].told
        /\ x.remote = run[r].remote /\ x.at = "sarif"
        /\ x.conclusion = run[r].conclusion
        /\ x.newFindings = found \ run[r].baseHashes
        /\ x.failed = red
    BY <1>1 DEF Run
  <2>6. run'[r] = x /\ Others(r)
    BY <2>3, <2>4 DEF TypeOK, Others
  <2> QED
    BY <2>5, <2>6, Zenon DEF Keeps, KeepsTold, found, red
<1> QED
  BY <1>2, <1>3, <1>4 DEF ScanHead, CheckoutHead
LEMMA ScansAll ==
  ASSUME TypeOK, NEW r \in Runs, ScanAll(r)
  PROVE  /\ Others(r) /\ Keeps(r) /\ KeepsTold(r)
         /\ run'[r].newFindings = run[r].newFindings
         /\ run'[r].remote = run[r].remote
         /\ \/ run'[r].at = "done" /\ run'[r].conclusion = "failure"
            \/ run'[r].at = "sarif" /\ run'[r].conclusion = run[r].conclusion
<1> DEFINE red == Exit1(Active(run[r].workspace, Scanned))
           x == [run[r] EXCEPT !.at = "sarif", !.failed = red]
<1>1. run[r] \in Run /\ run[r].workspace \in Tree
  BY DEF TypeOK, Run
<1>2. CASE Throw(r, run[r].workspace)
  BY <1>1, <1>2, Throws DEF KeepsFound
<1>3. CASE run' = [run EXCEPT ![r].at = "sarif", ![r].failed = red]
  <2>1. red \in BOOLEAN
    BY ExitsOneOrNot
  <2>2. run' = [run EXCEPT ![r] = x]
    BY <1>3 DEF TypeOK
  <2> HIDE DEF red
  <2>3. x \in Run
    BY <1>1, <2>1, RunWith DEF Steps
  <2> QED
    BY <1>1, <2>2, <2>3 DEF TypeOK, Others, Keeps, KeepsTold, Run
<1> QED
  BY <1>2, <1>3 DEF ScanAll

LEMMA Emits ==
  ASSUME TypeOK, NEW r \in Runs, EmitSarif(r)
  PROVE  /\ Others(r) /\ Keeps(r) /\ KeepsFound(r) /\ KeepsTold(r)
         /\ \/ run'[r].at = "done" /\ run'[r].conclusion = "failure"
            \/ /\ run'[r].at \in {"list", "upload"}
               /\ run'[r].at = "list" => run[r].event = "pull_request"
               /\ run'[r].conclusion = run[r].conclusion
<1> DEFINE to == IF run[r].event = "pull_request" /\ ~fork THEN "list" ELSE "upload"
           x == [run[r] EXCEPT !.sarif = Active(run[r].workspace, Scanned), !.at = to]
<1>1. run[r] \in Run /\ run[r].workspace \in Tree
  BY DEF TypeOK, Run
<1>2. CASE Throw(r, run[r].workspace)
  BY <1>1, <1>2, Throws
<1>3. CASE run' = [run EXCEPT ![r].sarif = Active(run[r].workspace, Scanned),
                              ![r].at = to]
  <2>1. to \in {"list", "upload"} /\ (to = "list" => run[r].event = "pull_request")
    OBVIOUS
  <2>2. run' = [run EXCEPT ![r] = x]
    BY <1>3 DEF TypeOK
  <2> HIDE DEF to
  <2>3. x \in Run
    BY <1>1, <2>1, RunWith, ScanReports DEF Steps
  <2> QED
    BY <1>1, <2>1, <2>2, <2>3
    DEF TypeOK, Others, Keeps, KeepsFound, KeepsTold, Run
<1> QED
  BY <1>2, <1>3 DEF EmitSarif

\* A set of numbers has a least one.
LEMMA LeastNumber ==
  ASSUME NEW S, S \subseteq Nat, S # {}
  PROVE  \E x \in S : \A y \in S : x <= y
<1> DEFINE R == OpToRel(<, Nat)
<1>1. IsWellFoundedOn(R, Nat)
  BY NatLessThanWellFounded
<1>2. \A x, y \in Nat : x < y => <<x, y>> \in R
  BY DEF OpToRel
<1> HIDE DEF R
<1>3. PICK x \in S : \A y \in S : ~(<<y, x>> \in R)
  BY <1>1, WFMin, Zenon
<1>4. ASSUME NEW y \in S PROVE x <= y
  <2>1. x \in Nat /\ y \in Nat /\ ~(y < x)
    BY <1>2, <1>3
  <2> QED
    BY <2>1
<1> QED
  BY <1>4

\* The comment found is the first with the mark and the name of the bot.
LEMMA FindsTheFirst ==
  ASSUME TypeOK,
         NEW found, found = {i \in FirstPage : IsSticky(comments[i])}
  PROVE  \/ found = {} /\ FindSticky = 0
         \/ \E i \in found : FindSticky = comments[i].id
<1> DEFINE least == CHOOSE i \in found : \A j \in found : i <= j
<1>1. CASE found = {}
  BY <1>1 DEF FindSticky, FirstOf
<1>2. CASE found # {}
  <2>1. found \subseteq Nat
    BY DEF FirstPage, TypeOK
  <2>2. \E i \in found : \A j \in found : i <= j
    BY <1>2, <2>1, LeastNumber
  <2>3. least \in found
    BY <2>2
  <2> QED
    BY <1>2, <2>3 DEF FindSticky, FirstOf
<1> QED
  BY <1>1, <1>2

LEMMA FindsAnId == ASSUME TypeOK PROVE FindSticky \in Nat
<1> DEFINE found == {i \in FirstPage : IsSticky(comments[i])}
<1>1. ASSUME NEW i \in found PROVE comments[i].id \in Nat
  <2>1. comments[i] \in Comment
    BY DEF TypeOK, FirstPage
  <2> QED
    BY <2>1 DEF Comment
<1>2. \/ found = {} /\ FindSticky = 0
      \/ \E i \in found : FindSticky = comments[i].id
  BY FindsTheFirst
<1> QED
  BY <1>1, <1>2

LEMMA Lists ==
  ASSUME TypeOK, NEW r \in Runs, ListComments(r)
  PROVE  /\ Others(r) /\ Keeps(r) /\ KeepsFound(r) /\ KeepsTold(r)
         /\ run'[r].conclusion = run[r].conclusion
         /\ comments' = comments /\ posted' = posted
         /\ \/ run'[r].at = "upload"
            \/ run'[r].at = "post" /\ run'[r].existing = FindSticky
<1>1. CASE Warn(r)
  BY <1>1, Advances DEF Warn, ListComments, Steps
<1>2. CASE /\ run' = [run EXCEPT ![r].at = "post", ![r].existing = FindSticky]
           /\ UNCHANGED <<comments, posted>>
  <2> DEFINE x == [run[r] EXCEPT !.at = "post", !.existing = FindSticky]
  <2>1. x \in Run
    BY FindsAnId, RunWith DEF TypeOK, Steps
  <2>2. run' = [run EXCEPT ![r] = x]
    BY <1>2 DEF TypeOK
  <2>3. run[r] \in Run
    BY DEF TypeOK
  <2> QED
    BY <1>2, <2>1, <2>2, <2>3
    DEF TypeOK, Others, Keeps, KeepsFound, KeepsTold, Run
<1> QED
  BY <1>1, <1>2 DEF ListComments

LEMMA Tells ==
  ASSUME TypeOK, NEW r \in Runs, Tell(r)
  PROVE  /\ Others(r) /\ Keeps(r) /\ KeepsFound(r)
         /\ run'[r].conclusion = run[r].conclusion
         /\ run'[r].at = "upload"
<1> DEFINE x == [run[r] EXCEPT !.at = "upload", !.told = TRUE]
<1>1. x \in Run
  BY RunWith DEF TypeOK, Steps
<1>2. run' = [run EXCEPT ![r] = x]
  BY DEF Tell, TypeOK
<1>3. run[r] \in Run
  BY DEF TypeOK
<1> QED
  BY <1>1, <1>2, <1>3 DEF TypeOK, Others, Keeps, KeepsFound, Run

\* A sequence with one element replaced.
LEMMA WithElement ==
  ASSUME NEW S, NEW s \in Seq(S), NEW i \in DOMAIN s, NEW e \in S
  PROVE  /\ [s EXCEPT ![i] = e] \in Seq(S) /\ Len([s EXCEPT ![i] = e]) = Len(s)
         /\ \A j \in DOMAIN s : [s EXCEPT ![i] = e][j] = IF j = i THEN e ELSE s[j]
OBVIOUS

\* The comments after an update, a creation and a deletion.
LEMMA Updates ==
  ASSUME TypeOK, NEW r \in Runs, NEW i \in DOMAIN comments,
         comments' = [comments EXCEPT ![i].body = run[r].newFindings]
  PROVE  /\ comments' \in Seq(Comment) /\ Len(comments') = Len(comments)
         /\ \A j \in DOMAIN comments :
              /\ comments'[j].id = comments[j].id
              /\ IsSticky(comments[j])' <=> IsSticky(comments[j])
              /\ comments'[j].body =
                   IF j = i THEN run[r].newFindings ELSE comments[j].body
<1> DEFINE c == [comments[i] EXCEPT !.body = run[r].newFindings]
<1>1. comments[i] \in Comment /\ run[r].newFindings \in SUBSET Finding
  BY DEF TypeOK, Run
<1>2. c \in Comment
  BY <1>1 DEF Comment
<1>3. /\ c.id = comments[i].id /\ c.author = comments[i].author
      /\ c.marked = comments[i].marked /\ c.body = run[r].newFindings
  BY <1>1 DEF Comment
<1>4. comments' = [comments EXCEPT ![i] = c]
  OBVIOUS
<1> HIDE DEF c
<1>5. /\ comments' \in Seq(Comment) /\ Len(comments') = Len(comments)
      /\ \A j \in DOMAIN comments : comments'[j] = IF j = i THEN c ELSE comments[j]
  <2>1. comments \in Seq(Comment)
    BY DEF TypeOK
  <2> DEFINE w == [comments EXCEPT ![i] = c]
  <2>2. /\ w \in Seq(Comment) /\ Len(w) = Len(comments)
        /\ \A j \in DOMAIN comments : w[j] = IF j = i THEN c ELSE comments[j]
    BY <1>2, <2>1, WithElement
  <2>3. comments' = w
    BY <1>4
  <2> HIDE DEF w
  <2> QED
    BY <2>2, <2>3
<1>6. ASSUME NEW j \in DOMAIN comments
      PROVE  /\ comments'[j].id = comments[j].id
             /\ IsSticky(comments[j])' <=> IsSticky(comments[j])
             /\ comments'[j].body =
                  IF j = i THEN run[r].newFindings ELSE comments[j].body
  <2>1. CASE j = i
    BY <1>3, <1>5, <2>1, Zenon DEF IsSticky
  <2>2. CASE j # i
    BY <1>5, <2>2, Zenon DEF IsSticky
  <2> QED
    BY <2>1, <2>2
<1> QED
  BY <1>5, <1>6

LEMMA Creates ==
  ASSUME TypeOK, NEW c \in Comment, comments' = Append(comments, c)
  PROVE  /\ comments' \in Seq(Comment) /\ Len(comments') = Len(comments) + 1
         /\ DOMAIN comments' = DOMAIN comments \cup {Len(comments) + 1}
         /\ Len(comments) + 1 \notin DOMAIN comments
         /\ \A j \in DOMAIN comments : comments'[j] = comments[j]
         /\ comments'[Len(comments) + 1] = c
BY DEF TypeOK

LEMMA Deletes ==
  ASSUME TypeOK, NEW i \in DOMAIN comments, comments' = RemoveAt(comments, i)
  PROVE  /\ comments' \in Seq(Comment) /\ Len(comments') = Len(comments) - 1
         /\ \A j \in DOMAIN comments' :
              LET k == IF j < i THEN j ELSE j + 1 IN
                k \in DOMAIN comments /\ comments'[j] = comments[k]
<1> DEFINE a == SubSeq(comments, 1, i - 1)
           b == SubSeq(comments, i + 1, Len(comments))
<1>1. comments' = a \o b
  BY DEF RemoveAt
<1>2. /\ a \in Seq(Comment) /\ Len(a) = i - 1
      /\ \A j \in 1 .. i - 1 : a[j] = comments[j]
  BY DEF TypeOK
<1>3. /\ b \in Seq(Comment) /\ Len(b) = Len(comments) - i
      /\ \A j \in 1 .. Len(comments) - i : b[j] = comments[i + j]
  BY DEF TypeOK
<1> HIDE DEF a, b
<1>4. comments' \in Seq(Comment) /\ Len(comments') = Len(comments) - 1
  BY <1>1, <1>2, <1>3 DEF TypeOK
<1>5. ASSUME NEW j \in DOMAIN comments'
      PROVE  LET k == IF j < i THEN j ELSE j + 1 IN
               k \in DOMAIN comments /\ comments'[j] = comments[k]
  <2>1. j \in 1 .. Len(comments) - 1 /\ i \in 1 .. Len(comments)
    BY <1>4 DEF TypeOK
  <2>2. CASE j < i
    BY <1>1, <1>2, <1>3, <2>1, <2>2 DEF TypeOK
  <2>3. CASE j >= i
    BY <1>1, <1>2, <1>3, <2>1, <2>3 DEF TypeOK
  <2> QED
    BY <2>1, <2>2, <2>3
<1> QED
  BY <1>4, <1>5
\* The comment step: a warning, an update, a new comment, or nothing to say.
LEMMA Posts ==
  ASSUME TypeOK, NEW r \in Runs, PostComment(r)
  PROVE  /\ Others(r) /\ Keeps(r) /\ KeepsFound(r)
         /\ run'[r].conclusion = run[r].conclusion
         /\ run'[r].at = "upload"
         /\ \/ UNCHANGED <<comments, posted>> /\ KeepsTold(r)
            \/ /\ UNCHANGED <<comments, posted>>
               /\ run[r].existing = 0 /\ run[r].newFindings = {}
            \/ /\ posted' = posted
               /\ \E i \in DOMAIN comments :
                    /\ comments[i].id = run[r].existing
                    /\ comments' = [comments EXCEPT ![i].body = run[r].newFindings]
            \/ /\ run[r].existing = 0 /\ Len(comments) < MaxComments
               /\ posted' = posted + 1
               /\ comments' = Append(comments,
                    [id |-> posted + 1, author |-> "bot", marked |-> TRUE,
                     body |-> run[r].newFindings])
<1>1. CASE Warn(r)
  BY <1>1, Advances DEF Warn, Steps
<1>2. CASE UpdateComment(r)
  BY <1>2, Tells DEF UpdateComment
<1>3. CASE run[r].existing = 0 /\ CreateComment(r)
  BY <1>3, Tells DEF CreateComment
<1>4. CASE run[r].existing = 0 /\ run[r].newFindings = {} /\ Tell(r)
             /\ UNCHANGED <<comments, posted>>
  BY <1>4, Tells
<1> QED
  BY <1>1, <1>2, <1>3, <1>4 DEF PostComment

LEMMA Uploads ==
  ASSUME TypeOK, NEW r \in Runs, Upload(r)
  PROVE  /\ Others(r) /\ Keeps(r) /\ KeepsFound(r) /\ KeepsTold(r)
         /\ run'[r].at = "finish" /\ run'[r].conclusion = run[r].conclusion
         /\ analyses' \subseteq [run : Runs, findings : SUBSET Finding]
<1>1. run[r].sarif \in SUBSET Finding
  BY DEF TypeOK, Run
<1>2. [run |-> r, findings |-> run[r].sarif] \in [run : Runs, findings : SUBSET Finding]
  BY <1>1
<1>3. analyses' \subseteq analyses \cup {[run |-> r, findings |-> run[r].sarif]}
  BY Zenon DEF Upload
<1>4. Advance(r, "finish")
  BY DEF Upload
<1> QED
  BY <1>2, <1>3, <1>4, Advances DEF TypeOK, Steps

LEMMA Finishes ==
  ASSUME TypeOK, NEW r \in Runs, Finish(r)
  PROVE  /\ Others(r) /\ Keeps(r) /\ KeepsFound(r) /\ KeepsTold(r)
         /\ run'[r].at = "done"
         /\ run'[r].conclusion = "success" => ~run[r].failed
<1> DEFINE end == IF run[r].failed THEN "failure" ELSE "success"
           x == [run[r] EXCEPT !.at = "done", !.conclusion = end]
<1>1. end \in {"success", "failure"} /\ (end = "success" => ~run[r].failed)
  BY Zenon
<1>2. run' = [run EXCEPT ![r] = x]
  BY DEF Finish, TypeOK
<1>3. run[r] \in Run
  BY DEF TypeOK
<1> HIDE DEF end
<1>4. x \in Run
  BY <1>1, <1>3, RunWith DEF Steps
<1> QED
  BY <1>1, <1>2, <1>3, <1>4
  DEF TypeOK, Others, Keeps, KeepsFound, KeepsTold, Run

\* A run begins: nothing of it is left from before.
LEMMA Starts ==
  ASSUME TypeOK, NEW r \in Runs, NEW event \in {"pull_request", "push"},
         NEW t \in Tree, NEW remote \in Tree, NEW step \in {"fetch", "full"},
         MayStart(r), Start(r, event, t, step, remote)
  PROVE  /\ Others(r)
         /\ run'[r].at = step /\ run'[r].event = event /\ ~run'[r].told
         /\ run'[r].conclusion = "none"
         /\ run[r].at = "idle"
         /\ started' = Append(started, r) /\ started' \in Seq(Runs)
         /\ overlap' \in BOOLEAN
         /\ ~overlap' => ~overlap /\ \A q \in Runs : Ended(q)
         /\ UNCHANGED <<fork, comments, posted, analyses>>
<1> DEFINE x == [Idle(t) EXCEPT !.at = step, !.event = event, !.remote = remote]
<1>1. x \in Run
  BY IdleIsRun DEF Steps
<1>2. run' = [run EXCEPT ![r] = x]
  BY DEF Start
<1>3. x.at = step /\ x.event = event /\ x.told = FALSE /\ x.conclusion = "none"
  BY DEF Idle
<1>4. overlap' = (overlap \/ \E q \in Runs : ~Ended(q))
  BY DEF Start
<1>5. overlap' \in BOOLEAN /\ (~overlap' => ~overlap /\ \A q \in Runs : Ended(q))
  BY <1>4, Zenon
<1> HIDE DEF x
<1>6. Others(r) /\ run'[r] = x
  BY <1>1, <1>2 DEF TypeOK, Others
<1>7. ~run'[r].told
  BY <1>3, <1>6
<1>8. started' = Append(started, r) /\ started' \in Seq(Runs)
  BY DEF Start, TypeOK
<1>9. UNCHANGED <<fork, comments, posted, analyses>>
  BY DEF Start
<1> QED
  BY <1>3, <1>5, <1>6, <1>7, <1>8, <1>9 DEF MayStart
\* Every step of a run: one run moves on, none starts, none goes back.
LEMMA StepsOfARun ==
  ASSUME TypeOK, NEW r \in Runs, RunStep(r)
  PROVE  /\ Others(r) /\ Keeps(r) /\ ~Ended(r) /\ run'[r].at # "idle"
         /\ UNCHANGED <<base, head, fork, started, overlap>>
         /\ analyses' \subseteq [run : Runs, findings : SUBSET Finding]
         /\ PostComment(r) \/ UNCHANGED <<comments, posted>>
<1>0. analyses \subseteq [run : Runs, findings : SUBSET Finding]
  BY DEF TypeOK
<1>1. CASE Fetch(r)
  BY <1>0, <1>1, Fetches DEF Fetch, Private, Ended
<1>2. CASE ScanBase(r)
  BY <1>0, <1>2, ScansBase DEF ScanBase, Private, Ended
<1>3. CASE ScanHead(r)
  BY <1>0, <1>3, ScansHead DEF ScanHead, Private, Ended
<1>4. CASE ScanAll(r)
  BY <1>0, <1>4, ScansAll DEF ScanAll, Private, Ended
<1>5. CASE EmitSarif(r)
  BY <1>0, <1>5, Emits DEF EmitSarif, Private, Ended
<1>6. CASE ListComments(r)
  BY <1>0, <1>6, Lists DEF ListComments, Ended
<1>7. CASE PostComment(r)
  BY <1>0, <1>7, Posts DEF PostComment, Ended
<1>8. CASE Upload(r)
  BY <1>8, Uploads DEF Upload, Ended
<1>9. CASE Finish(r)
  BY <1>0, <1>9, Finishes DEF Finish, Private, Ended
<1> QED
  BY <1>1, <1>2, <1>3, <1>4, <1>5, <1>6, <1>7, <1>8, <1>9 DEF RunStep

\* A new comment is a comment.
LEMMA NewComment ==
  ASSUME TypeOK, NEW author \in {"bot", "human"}, NEW marked \in BOOLEAN,
         NEW body \in SUBSET Finding
  PROVE  [id |-> posted + 1, author |-> author, marked |-> marked, body |-> body]
           \in Comment
BY DEF TypeOK, Comment

LEMMA PostedTypes ==
  ASSUME TypeOK, NEW r \in Runs, PostComment(r)
  PROVE  comments' \in Seq(Comment) /\ posted' \in Nat
<1>1. run[r].newFindings \in SUBSET Finding
  BY DEF TypeOK, Run
<1>2. CASE UNCHANGED <<comments, posted>>
  BY <1>2 DEF TypeOK
<1>3. CASE /\ posted' = posted
           /\ \E i \in DOMAIN comments :
                comments' = [comments EXCEPT ![i].body = run[r].newFindings]
  BY <1>3, Updates DEF TypeOK
<1>4. CASE /\ posted' = posted + 1
           /\ comments' = Append(comments,
                [id |-> posted + 1, author |-> "bot", marked |-> TRUE,
                 body |-> run[r].newFindings])
  <2>1. [id |-> posted + 1, author |-> "bot", marked |-> TRUE,
         body |-> run[r].newFindings] \in Comment
    BY <1>1, NewComment
  <2>2. comments' \in Seq(Comment)
    BY <1>4, <2>1, Creates
  <2> QED
    BY <1>4, <2>2 DEF TypeOK
<1> QED
  BY <1>2, <1>3, <1>4, Posts

\* The variables of the Action keep their types.
THEOREM TypeCorrect == Spec => []TypeOK
<1>1. ASSUME Init PROVE TypeOK
  <2>1. base \in Tree /\ head \in Tree /\ fork \in BOOLEAN /\ overlap \in BOOLEAN
    BY <1>1 DEF Init
  <2>2. run \in [Runs -> Run]
    BY <1>1, <2>1, IdleIsRun DEF Init
  <2> QED
    BY <1>1, <2>1, <2>2 DEF Init, TypeOK
<1>2. ASSUME TypeOK, [Next]_vars PROVE TypeOK'
  <2>1. ASSUME NEW r \in Runs, NEW t \in Tree, PushHead(r, t) PROVE TypeOK'
    <3>1. base \in Tree
      BY <1>2 DEF TypeOK
    <3> QED
      BY <1>2, <2>1, <3>1, Starts DEF PushHead, TypeOK, Others
  <2>2. ASSUME NEW r \in Runs, NEW t \in Tree, PushBase(r, t) PROVE TypeOK'
    BY <1>2, <2>2, Starts DEF PushBase, TypeOK, Others
  <2>3. ASSUME NEW r \in Runs, RunStep(r) PROVE TypeOK'
    <3>1. comments' \in Seq(Comment) /\ posted' \in Nat
      BY <1>2, <2>3, StepsOfARun, PostedTypes DEF TypeOK
    <3> QED
      BY <1>2, <2>3, <3>1, StepsOfARun DEF TypeOK, Others
  <2>4. CASE HumanComments
    <3>1. PICK marked \in BOOLEAN :
            comments' = Append(comments, [id |-> posted + 1, author |-> "human",
                                          marked |-> marked, body |-> {}])
      BY <2>4 DEF HumanComments
    <3>2. comments' \in Seq(Comment)
      BY <1>2, <3>1, NewComment, Creates
    <3> QED
      BY <1>2, <2>4, <3>2 DEF HumanComments, TypeOK
  <2>5. CASE HumanDeletes
    <3>1. comments' \in Seq(Comment)
      BY <1>2, <2>5, Deletes DEF HumanDeletes
    <3> QED
      BY <1>2, <2>5, <3>1 DEF HumanDeletes, TypeOK
  <2>6. CASE UNCHANGED vars
    BY <1>2, <2>6 DEF vars, TypeOK
  <2> QED
    BY <1>2, <2>1, <2>2, <2>3, <2>4, <2>5, <2>6 DEF Next
<1> QED
  BY <1>1, <1>2, PTL DEF Spec
----------------------------------------------------------------------------
(* What a run knows.                                                       *)

\* A handler that verifies on the spot, or not at all, is judged alike
\* whatever else is scanned with it.
LEMMA JudgedByItself ==
  ASSUME NEW t \in Tree, NEW parsed, NEW f \in Finding, f.file \in parsed,
         f.file \in Scanned, t.style[f.file] # "imports"
  PROVE  f \in Active(t, parsed) <=> f \in Active(t, Scanned)
<1>2. \A p : Verified(t, f.file, p) <=> t.style[f.file] = "inline"
  BY DEF Verified
<1> QED
  BY <1>2 DEF Active, FindingsOf

\* Two trees in which a handler is written alike are judged alike.
LEMMA JudgedAlike ==
  ASSUME NEW t \in Tree, NEW u \in Tree, NEW f \in Finding,
         t.style[f.file] # "imports", t.style[f.file] = u.style[f.file]
  PROVE  f \in Active(t, Scanned) <=> f \in Active(u, Scanned)
<1>1. /\ Verified(t, f.file, Scanned) <=> t.style[f.file] = "inline"
      /\ Verified(u, f.file, Scanned) <=> t.style[f.file] = "inline"
  BY DEF Verified
<1> QED
  BY <1>1 DEF Active, FindingsOf

\* What a scan reports lies among the files that were parsed.
LEMMA ReportsParsed ==
  ASSUME NEW t, NEW parsed, NEW f \in Active(t, parsed)
  PROVE  f \in Finding /\ f.file \in parsed
BY DEF Active, FindingsOf

\* From the root, a scan calls the files as git does.
LEMMA NamesOfTheRoot ==
  ASSUME AtTheRoot, NEW differ
  PROVE  Scanned = Files /\ Candidates(differ) = Files \cap differ
<1>1. ASSUME NEW f \in Files PROVE IsPrefix(WorkDir, f) /\ NameInScan(f) = f
  <2>1. f \in Seq(STRING) /\ WorkDir = <<>> /\ Len(WorkDir) = 0
    BY FilesAssumption DEF Files, AtTheRoot
  <2>2. SubSeq(f, 1, Len(f)) = f
    BY <2>1
  <2>3. IsPrefix(<<>>, f)
    BY <2>1 DEF IsPrefix
  <2> QED
    BY <2>1, <2>2, <2>3 DEF NameInScan
<1> QED
  BY <1>1 DEF Scanned, Candidates

\* What the scan of what differs sees, the base has not; and it sees all of that
\* from the root.
LEMMA DiffIsEnough ==
  ASSUME NEW t \in Tree, NEW u \in Tree, NEW touched \in SUBSET Files,
         NEW f \in Finding, t.style[f.file] # "imports"
  PROVE  LET found == Active(t, Candidates(touched \cup Changed(u, t))) \ Active(u, Scanned)
             added == Active(t, Scanned) \ Active(u, Scanned)
         IN  (f \in found => f \in added) /\ (AtTheRoot /\ f \in added => f \in found)
<1> DEFINE differ == touched \cup Changed(u, t)
           parsed == Candidates(differ)
<1>0. parsed \subseteq Scanned
  BY DEF Candidates
<1>1. CASE f.file \in parsed
  <2> HIDE DEF parsed
  <2> QED
    BY <1>0, <1>1, JudgedByItself DEF parsed
<1>2. CASE f.file \notin parsed
  <2>0. AtTheRoot => f.file \notin differ
    <3>1. f.file \in Files
      BY DEF Finding, Files
    <3> HIDE DEF differ
    <3> QED
      BY <1>2, <3>1, NamesOfTheRoot
  <2>1. f \notin Active(t, parsed)
    BY <1>2 DEF Active, FindingsOf
  <2>2. f.file \in Handlers
    BY DEF Finding
  <2>3. AtTheRoot => t.style[f.file] = "absent" \/ t.style[f.file] = u.style[f.file]
    BY <2>0, <2>2 DEF Changed
  <2>4. t.style[f.file] = "absent" => f \notin Active(t, Scanned)
    BY DEF Active, FindingsOf
  <2> QED
    BY <2>1, <2>3, <2>4, JudgedAlike
<1> QED
  BY <1>1, <1>2

\* A run keeps to what it knows while it neither fetches nor scans.
LEMMA StillKnows ==
  ASSUME NEW r \in Runs, Knows(r), Places(r), Keeps(r), KeepsFound(r),
         run'[r].at # "head",
         Compared(r)' => Compared(r),
         run[r].event = "pull_request" /\ run'[r].conclusion = "success" =>
           run[r].conclusion = "success" \/ (Compared(r) /\ ~run[r].failed)
  PROVE  Knows(r)'
<1>1. Added(r)' = Added(r)
  BY DEF Added, Keeps, KeepsFound
<1>2. Green(r)' => Green(r)
  BY Zenon DEF Green, Compared, Keeps, KeepsFound
<1> QED
  BY <1>1, <1>2 DEF Knows, Keeps, KeepsFound

\* The scan of the head is where a run learns what is new.
LEMMA Learns ==
  ASSUME TypeOK, NEW r \in Runs, Knows(r), Places(r), ScanHead(r)
  PROVE  Knows(r)'
<1>1. run[r].at = "head" /\ run[r].event = "pull_request"
  BY DEF ScanHead, Places
<1>2. run[r].conclusion = "none"
  BY <1>1 DEF Places
<1>3. CASE run'[r].at = "done" /\ run'[r].conclusion = "failure"
  BY <1>3 DEF Knows, Green, Compared
<1>4. ASSUME NEW touched \in SUBSET Files,
             run'[r].at = "sarif", run'[r].conclusion = run[r].conclusion,
             LET t == run[r].tree
                 found == Active(t, Candidates(touched \cup Changed(run[r].remote, t))) IN
               /\ run'[r].newFindings = found \ run[r].baseHashes
               /\ run'[r].failed = Exit1(found)
      PROVE  Knows(r)'
  <2> DEFINE t == run[r].tree
             u == run[r].remote
             found == Active(t, Candidates(touched \cup Changed(u, t)))
  <2>1. t \in Tree /\ u \in Tree
    BY DEF TypeOK, Run
  <2>2. run[r].baseHashes = Active(u, Scanned)
    BY <1>1 DEF Knows
  <2>3. /\ run'[r].tree = t /\ run'[r].remote = u
        /\ Added(r)' = Active(t, Scanned) \ Active(u, Scanned)
    BY ScansHead DEF Keeps, Added
  <2>4. run'[r].newFindings = found \ Active(u, Scanned)
    BY <1>4, <2>2
  <2>5. ASSUME NEW f \in Finding, t.style[f.file] # "imports"
        PROVE  /\ f \in run'[r].newFindings => f \in Added(r)'
               /\ AtTheRoot /\ f \in Added(r)' => f \in run'[r].newFindings
    BY <2>1, <2>3, <2>4, <2>5, DiffIsEnough
  <2>8. ASSUME Apart PROVE run'[r].newFindings = {} /\ ~run'[r].failed
    <3>1. touched \cup Changed(u, t) \subseteq Files
      BY DEF Changed, Files
    <3>2. Candidates(touched \cup Changed(u, t)) = {}
      BY <2>8, <3>1 DEF Candidates, Apart
    <3>3. found = {}
      BY <3>2, ReportsParsed
    <3>4. ~Exit1({})
      BY DEF Exit1
    <3> QED
      BY <1>4, <2>4, <3>3, <3>4
  <2>6. ASSUME AtTheRoot, ~run'[r].failed, NEW f \in Added(r)', t.style[f.file] # "imports"
        PROVE  f.rule # "missing-signature-verification"
    <3>1. f \in Finding
      BY <2>3, ScanReports
    <3>2. f \in found
      BY <2>4, <2>5, <2>6, <3>1
    <3>3. ~Exit1(found)
      BY <1>4, <2>6
    <3> QED
      BY <3>2, <3>3 DEF Exit1
  <2>7. Green(r)' => ~run'[r].failed
    BY <1>2, <1>4 DEF Green
  <2> QED
    BY <1>4, <2>3, <2>5, <2>6, <2>7, <2>8 DEF Knows
<1> QED
  BY <1>3, <1>4, ScansHead
LEMMA KnowsOn ==
  ASSUME TypeOK, NEW r \in Runs, Knows(r), Places(r), RunStep(r)
  PROVE  Knows(r)' /\ Places(r)'
<1>1. CASE Fetch(r)
  <2>1. run[r].at = "fetch" /\ run[r].conclusion = "none" /\ ~run[r].told
    BY <1>1 DEF Fetch, Places
  <2> QED
    BY <1>1, <2>1, Fetches DEF Knows, Places, Green, Compared, Keeps, KeepsTold
<1>2. CASE ScanBase(r)
  <2>1. run[r].at = "base" /\ run[r].conclusion = "none" /\ ~run[r].told
    BY <1>2 DEF ScanBase, Places
  <2>2. Knows(r)'
    BY <1>2, <2>1, ScansBase DEF Knows, Green, Compared, Keeps, KeepsFound
  <2>3. Places(r)'
    BY <1>2, <2>1, ScansBase DEF Places, Keeps, KeepsTold
  <2> QED
    BY <2>2, <2>3
<1>3. CASE ScanHead(r)
  <2>1. run[r].at = "head" /\ run[r].conclusion = "none" /\ ~run[r].told
    BY <1>3 DEF ScanHead, Places
  <2> QED
    BY <1>3, <2>1, Learns, ScansHead DEF Places, Keeps, KeepsTold
<1>4. CASE ScanAll(r)
  <2>1. /\ run[r].at = "full" /\ run[r].conclusion = "none" /\ ~run[r].told
        /\ run[r].event = "push"
    BY <1>4 DEF ScanAll, Places
  <2> QED
    BY <1>4, <2>1, ScansAll DEF Knows, Green, Compared, Places, Keeps, KeepsTold
<1>5. CASE EmitSarif(r)
  <2>1. run[r].at = "sarif" /\ run[r].conclusion = "none" /\ ~run[r].told
    BY <1>5 DEF EmitSarif, Places
  <2>2. Knows(r)'
    BY <1>5, <2>1, Emits, StillKnows DEF Compared, Keeps
  <2>3. Places(r)'
    BY <1>5, <2>1, Emits DEF Places, Keeps, KeepsTold
  <2> QED
    BY <2>2, <2>3
<1>6. CASE ListComments(r)
  <2>1. run[r].at = "list" /\ run[r].conclusion = "none" /\ ~run[r].told
    BY <1>6 DEF ListComments, Places
  <2>2. Knows(r)'
    BY <1>6, <2>1, Lists, StillKnows DEF Compared, Keeps
  <2>3. Places(r)'
    BY <1>6, <2>1, Lists DEF Places, Keeps, KeepsTold
  <2> QED
    BY <2>2, <2>3
<1>7. CASE PostComment(r)
  <2>1. run[r].at = "post" /\ run[r].conclusion = "none"
    BY <1>7 DEF PostComment, Places
  <2>2. Knows(r)'
    BY <1>7, <2>1, Posts, StillKnows DEF Compared, Keeps
  <2>3. Places(r)'
    BY <1>7, <2>1, Posts DEF Places, Keeps
  <2> QED
    BY <2>2, <2>3
<1>8. CASE Upload(r)
  <2>1. run[r].at = "upload" /\ run[r].conclusion = "none"
    BY <1>8 DEF Upload, Places
  <2>2. Knows(r)'
    BY <1>8, <2>1, Uploads, StillKnows DEF Compared, Keeps
  <2>3. Places(r)'
    BY <1>8, <2>1, Uploads DEF Places, Keeps
  <2> QED
    BY <2>2, <2>3
<1>9. CASE Finish(r)
  <2>1. run[r].at = "finish"
    BY <1>9 DEF Finish
  <2>2. Knows(r)'
    BY <1>9, <2>1, Finishes, StillKnows DEF Compared, Keeps
  <2>3. Places(r)'
    BY <1>9, Finishes DEF Places, Keeps
  <2> QED
    BY <2>2, <2>3
<1> QED
  BY <1>1, <1>2, <1>3, <1>4, <1>5, <1>6, <1>7, <1>8, <1>9 DEF RunStep

LEMMA KnowsStill ==
  ASSUME NEW r \in Runs, Knows(r), Places(r), run'[r] = run[r]
  PROVE  Knows(r)' /\ Places(r)'
BY DEF Knows, Places, Green, Compared, Added

LEMMA KnowsNothingYet ==
  ASSUME TypeOK, NEW r \in Runs, NEW event \in {"pull_request", "push"},
         NEW t \in Tree, NEW remote \in Tree, NEW step \in {"fetch", "full"},
         step = "fetch" <=> event = "pull_request",
         MayStart(r), Start(r, event, t, step, remote)
  PROVE  Knows(r)' /\ Places(r)'
<1>1. /\ run'[r].at = step /\ run'[r].event = event /\ ~run'[r].told
      /\ run'[r].conclusion = "none"
  BY Starts
<1> QED
  BY <1>1 DEF Knows, Places, Green, Compared

\* What every run knows, whatever the others do.
THEOREM ScanInvariance == Spec => []ScanInv
<1>1. Init => ScanInv
  BY DEF Init, ScanInv, Idle, Knows, Places, Green, Compared
<1>2. ASSUME TypeOK, ScanInv, [Next]_vars PROVE ScanInv'
  <2>0. ASSUME NEW r \in Runs, Others(r), Knows(r)', Places(r)' PROVE ScanInv'
    BY <1>2, <2>0, KnowsStill DEF Others, ScanInv
  <2>1. ASSUME NEW r \in Runs, NEW t \in Tree, PushHead(r, t) PROVE ScanInv'
    <3>1. base \in Tree
      BY <1>2 DEF TypeOK
    <3> QED
      BY <1>2, <2>0, <2>1, <3>1, Starts, KnowsNothingYet DEF PushHead
  <2>2. ASSUME NEW r \in Runs, NEW t \in Tree, PushBase(r, t) PROVE ScanInv'
    BY <1>2, <2>0, <2>2, Starts, KnowsNothingYet DEF PushBase
  <2>3. ASSUME NEW r \in Runs, RunStep(r) PROVE ScanInv'
    BY <1>2, <2>0, <2>3, StepsOfARun, KnowsOn DEF ScanInv
  <2>4. ASSUME run' = run PROVE ScanInv'
    BY <1>2, <2>4, KnowsStill DEF ScanInv
  <2> QED
    BY <1>2, <2>1, <2>2, <2>3, <2>4 DEF Next, HumanComments, HumanDeletes, vars
<1> QED
  BY <1>1, <1>2, TypeCorrect, PTL DEF Spec

LEMMA StyleOf ==
  ASSUME TypeOK, OnTheSpot, NEW r \in Runs, NEW f \in Finding
  PROVE  run[r].tree.style[f.file] # "imports"
<1>1. run[r].tree \in Tree /\ f.file \in Handlers
  BY DEF TypeOK, Run, Finding
<1> QED
  BY <1>1 DEF Tree, OnTheSpot

\* Scanning what differs finds exactly what is new (README of the Action,
\* "Outputs"), if the Action scans from the root and no handler's verification is
\* imported.
THEOREM NewFindings == AtTheRoot /\ OnTheSpot => (Spec => []NewIsExact)
<1> SUFFICES ASSUME AtTheRoot, OnTheSpot PROVE Spec => []NewIsExact
  OBVIOUS
<1>1. ASSUME TypeOK, ScanInv PROVE NewIsExact
  <2>1. ASSUME NEW r \in Runs, Compared(r)
        PROVE  run[r].newFindings = Added(r)
    <3>1. run[r].newFindings \subseteq Finding
      BY <1>1 DEF TypeOK, Run
    <3>2. Added(r) \subseteq Finding
      BY ScanReports DEF Added
    <3>3. \A f \in Finding : f \in run[r].newFindings <=> f \in Added(r)
      BY <1>1, <2>1, StyleOf DEF ScanInv, Knows
    <3> QED
      BY <3>1, <3>2, <3>3
  <2> QED
    BY <2>1 DEF NewIsExact, Added
<1> QED
  BY <1>1, TypeCorrect, ScanInvariance, PTL

\* A green check never lets an unverified handler in, if the Action scans from the
\* root and no handler's verification is imported.
THEOREM GreenChecks == AtTheRoot /\ OnTheSpot => (Spec => []GreenIsSafe)
<1> SUFFICES ASSUME AtTheRoot, OnTheSpot PROVE Spec => []GreenIsSafe
  OBVIOUS
<1>1. ASSUME TypeOK, ScanInv PROVE GreenIsSafe
  <2>1. ASSUME NEW r \in Runs, run[r].event = "pull_request",
               run[r].conclusion = "success", NEW f \in Added(r)
        PROVE  f.rule # "missing-signature-verification"
    <3>1. f \in Finding
      BY ScanReports DEF Added
    <3> QED
      BY <1>1, <2>1, <3>1, StyleOf DEF ScanInv, Knows, Green
  <2> QED
    BY <2>1 DEF GreenIsSafe, Added, Exit1
<1> QED
  BY <1>1, TypeCorrect, ScanInvariance, PTL

\* With a working directory that gives no file a name git may print, a run on a pull
\* request calls nothing new and does not fail, whatever the push brings
\* (cli/src/diff/git.ts, cli/src/pipeline.ts).
THEOREM Blind ==
  ASSUME Apart
  PROVE  Spec => [](\A r \in Runs : Compared(r) => run[r].newFindings = {} /\ ~run[r].failed)
<1>1. ScanInv => \A r \in Runs : Compared(r) => run[r].newFindings = {} /\ ~run[r].failed
  BY DEF ScanInv, Knows
<1> QED
  BY <1>1, ScanInvariance, PTL
----------------------------------------------------------------------------
(* Who is at work, and who was started last.                               *)

LEMMA StartedStill ==
  ASSUME TypeOK, StartedInv, started' = started, overlap' = overlap,
         \A q \in Runs : /\ run'[q].event = run[q].event
                         /\ run'[q].at = "idle" <=> run[q].at = "idle"
                         /\ Ended(q) => Ended(q)'
  PROVE  StartedInv' /\ \A i : Newest(i)' <=> Newest(i)
<1>1. \A i \in DOMAIN started : started[i] \in Runs
  BY DEF TypeOK
<1>2. \A i \in DOMAIN started : OfHead(i)' <=> OfHead(i)
  BY <1>1 DEF OfHead
<1>3. \A i : Newest(i)' <=> Newest(i)
  BY <1>2 DEF Newest
<1> QED
  BY <1>1, <1>2, <1>3 DEF StartedInv

\* The step of one run only.
LEMMA StartedByStep ==
  ASSUME TypeOK, StartedInv, NEW r \in Runs, RunStep(r)
  PROVE  StartedInv' /\ \A i : Newest(i)' <=> Newest(i)
<1>1. ASSUME NEW q \in Runs
      PROVE  /\ run'[q].event = run[q].event
             /\ run'[q].at = "idle" <=> run[q].at = "idle"
             /\ Ended(q) => Ended(q)'
  <2>1. CASE q = r
    BY <2>1, StepsOfARun DEF Keeps, Ended
  <2>2. CASE q # r
    BY <2>2, StepsOfARun DEF Others, Ended
  <2> QED
    BY <2>1, <2>2
<1>2. started' = started /\ overlap' = overlap
  BY StepsOfARun
<1> QED
  BY <1>1, <1>2, StartedStill

\* A push: what was started stays in order, and comes before the new run.
LEMMA StartedByPush ==
  ASSUME TypeOK, StartedInv, NEW r \in Runs,
         NEW event \in {"pull_request", "push"},
         NEW t \in Tree, NEW remote \in Tree, NEW step \in {"fetch", "full"},
         MayStart(r), Start(r, event, t, step, remote)
  PROVE  /\ StartedInv'
         /\ \A i \in DOMAIN started' :
              Newest(i)' => \/ started'[i] = r
                            \/ Newest(i) /\ started'[i] = started[i] /\ started[i] # r
<1>0. started \in Seq(Runs) /\ started' = Append(started, r)
  BY Starts DEF TypeOK
<1> PICK n \in Nat : n = Len(started) + 1
  BY <1>0
<1>1. /\ DOMAIN started' = DOMAIN started \cup {n} /\ n \notin DOMAIN started
      /\ started'[n] = r /\ Len(started') = n /\ n \in Nat
      /\ \A i \in DOMAIN started : i < n /\ i \in Nat /\ started'[i] = started[i]
                                   /\ started[i] \in Runs
  BY <1>0
<1>2. /\ Others(r) /\ run[r].at = "idle" /\ run'[r].at = step
      /\ run'[r].event = event
      /\ ~overlap' => ~overlap /\ \A q \in Runs : Ended(q)
  BY Starts
<1>3. \A i \in DOMAIN started : started[i] # r /\ run'[started[i]] = run[started[i]]
  BY <1>1, <1>2 DEF StartedInv, Others
<1>4. /\ \A i \in DOMAIN started : OfHead(i)' <=> OfHead(i)
      /\ OfHead(n)' <=> event = "pull_request"
  BY <1>1, <1>2, <1>3 DEF OfHead
<1>5. ASSUME NEW i \in DOMAIN started', Newest(i)'
      PROVE  \/ started'[i] = r
             \/ Newest(i) /\ started'[i] = started[i] /\ started[i] # r
  <2>1. CASE i = n
    BY <1>1, <2>1
  <2>2. CASE i \in DOMAIN started
    BY <1>1, <1>3, <1>4, <1>5, <2>2 DEF Newest
  <2> QED
    BY <1>1, <2>1, <2>2
<1>6. \A i \in DOMAIN started' : run'[started'[i]].at # "idle"
  <2>1. run'[started'[n]].at # "idle"
    BY <1>1, <1>2
  <2>2. \A i \in DOMAIN started : run'[started'[i]].at # "idle"
    BY <1>1, <1>3 DEF StartedInv
  <2> QED
    BY <1>1, <2>1, <2>2
<1>7. (\E i \in DOMAIN started' : OfHead(i)') => \E i \in DOMAIN started' : Newest(i)'
  <2>1. CASE event = "pull_request"
    <3>1. Newest(n)'
      BY <1>1, <1>4, <2>1 DEF Newest
    <3> QED
      BY <1>1, <3>1
  <2>2. CASE event = "push"
    <3>1. ASSUME NEW i \in DOMAIN started', OfHead(i)'
          PROVE  \E k \in DOMAIN started' : Newest(k)'
      <4>1. i \in DOMAIN started /\ OfHead(i)
        BY <1>1, <1>4, <2>2, <3>1
      <4>2. PICK k \in DOMAIN started : Newest(k)
        BY <4>1 DEF StartedInv
      <4>3. Newest(k)'
        BY <1>1, <1>4, <2>2, <4>2 DEF Newest
      <4> QED
        BY <1>1, <4>3
    <3> QED
      BY <3>1
  <2> QED
    BY <2>1, <2>2
<1>8. ~overlap' =>
        /\ \A p, q \in Runs : ~Ended(p)' /\ ~Ended(q)' => p = q
        /\ \A q \in Runs : ~Ended(q)' => started' # <<>> /\ started'[Len(started')] = q
  <2>1. ASSUME ~overlap', NEW q \in Runs, ~Ended(q)' PROVE q = r
    BY <1>2, <2>1 DEF Others, Ended
  <2>2. started' # <<>>
    BY <1>0
  <2> QED
    BY <1>1, <2>1, <2>2
<1> QED
  BY <1>5, <1>6, <1>7, <1>8 DEF StartedInv

\* Runs are started once each, and unless they overlap only the last is at work.
THEOREM StartedInvariance == Spec => []StartedInv
<1>1. Init => StartedInv
  BY DEF Init, StartedInv, Idle, Ended, OfHead
<1>2. ASSUME TypeOK, StartedInv, [Next]_vars PROVE StartedInv'
  <2>1. ASSUME NEW r \in Runs, NEW t \in Tree, PushHead(r, t) PROVE StartedInv'
    <3>1. base \in Tree
      BY <1>2 DEF TypeOK
    <3> QED
      BY <1>2, <2>1, <3>1, StartedByPush DEF PushHead
  <2>2. ASSUME NEW r \in Runs, NEW t \in Tree, PushBase(r, t) PROVE StartedInv'
    BY <1>2, <2>2, StartedByPush DEF PushBase
  <2>3. ASSUME NEW r \in Runs, RunStep(r) PROVE StartedInv'
    BY <1>2, <2>3, StartedByStep
  <2>4. ASSUME run' = run, started' = started, overlap' = overlap PROVE StartedInv'
    BY <1>2, <2>4, StartedStill DEF Ended
  <2> QED
    BY <1>2, <2>1, <2>2, <2>3, <2>4 DEF Next, HumanComments, HumanDeletes, vars
<1> QED
  BY <1>1, <1>2, TypeCorrect, PTL DEF Spec
----------------------------------------------------------------------------
(* The comments and their ids.                                             *)

LEMMA IdsAreNumbers ==
  ASSUME TypeOK, NEW i \in DOMAIN comments
  PROVE  comments[i].id \in Nat /\ comments[i].id # 0
<1>1. comments[i] \in Comment
  BY DEF TypeOK
<1> QED
  BY <1>1 DEF Comment

\* Whether a change of the comments leaves their ids apart.
LEMMA IdsByCreation ==
  ASSUME TypeOK, IdsInv, NEW c \in Comment, c.id = posted + 1,
         Len(comments) < MaxComments,
         comments' = Append(comments, c), posted' = posted + 1
  PROVE  IdsInv'
<1> PICK n \in Nat : n = Len(comments) + 1
  BY DEF TypeOK
<1>1. /\ DOMAIN comments' = DOMAIN comments \cup {n} /\ n \notin DOMAIN comments
      /\ Len(comments') = n /\ comments'[n] = c
      /\ \A j \in DOMAIN comments : comments'[j] = comments[j]
  BY Creates
<1>2. posted \in Nat /\ Len(comments) \in Nat /\ MaxComments \in Nat
  BY PageAssumption DEF TypeOK
<1>3. \A j \in DOMAIN comments : comments[j].id \in Nat /\ comments[j].id <= posted
  BY IdsAreNumbers DEF IdsInv
<1>4. Len(comments') <= MaxComments
  BY <1>1, <1>2
<1>5. \A i \in DOMAIN comments' : comments'[i].id <= posted'
  BY <1>1, <1>2, <1>3
<1>6. \A i, j \in DOMAIN comments' : comments'[i].id = comments'[j].id => i = j
  BY <1>1, <1>2, <1>3 DEF IdsInv
<1> QED
  BY <1>4, <1>5, <1>6 DEF IdsInv

LEMMA IdsByUpdate ==
  ASSUME TypeOK, IdsInv, NEW r \in Runs, NEW i \in DOMAIN comments,
         comments' = [comments EXCEPT ![i].body = run[r].newFindings],
         posted' = posted
  PROVE  IdsInv'
<1>1. /\ comments' \in Seq(Comment) /\ Len(comments') = Len(comments)
      /\ \A j \in DOMAIN comments : comments'[j].id = comments[j].id
  BY Updates
<1>2. DOMAIN comments' = DOMAIN comments
  BY <1>1 DEF TypeOK
<1> QED
  BY <1>1, <1>2 DEF IdsInv

LEMMA IdsByDeletion ==
  ASSUME TypeOK, IdsInv, NEW i \in DOMAIN comments,
         comments' = RemoveAt(comments, i), posted' = posted
  PROVE  IdsInv'
<1> DEFINE From(j) == IF j < i THEN j ELSE j + 1
<1>1. /\ comments' \in Seq(Comment) /\ Len(comments') = Len(comments) - 1
      /\ \A j \in DOMAIN comments' :
           From(j) \in DOMAIN comments /\ comments'[j] = comments[From(j)]
  BY Deletes
<1>2. DOMAIN comments' \subseteq Nat /\ i \in Nat
  BY <1>1 DEF TypeOK
<1>3. \A j, k \in DOMAIN comments' : From(j) = From(k) => j = k
  BY <1>2
<1>4. Len(comments') <= MaxComments
  BY <1>1, PageAssumption DEF IdsInv, TypeOK
<1> HIDE DEF From
<1> QED
  BY <1>1, <1>3, <1>4 DEF IdsInv

LEMMA IdsByPost ==
  ASSUME TypeOK, IdsInv, NEW r \in Runs, PostComment(r)
  PROVE  IdsInv'
<1> DEFINE c == [id |-> posted + 1, author |-> "bot", marked |-> TRUE,
                 body |-> run[r].newFindings]
<1>1. CASE UNCHANGED <<comments, posted>>
  BY <1>1 DEF IdsInv
<1>2. CASE /\ posted' = posted
           /\ \E i \in DOMAIN comments :
                comments' = [comments EXCEPT ![i].body = run[r].newFindings]
  BY <1>2, IdsByUpdate
<1>3. CASE /\ Len(comments) < MaxComments /\ posted' = posted + 1
           /\ comments' = Append(comments, c)
  <2>1. c \in Comment /\ c.id = posted + 1
    BY NewComment DEF TypeOK, Run
  <2> HIDE DEF c
  <2> QED
    BY <1>3, <2>1, IdsByCreation
<1> QED
  BY <1>1, <1>2, <1>3, Posts

\* The comments never outgrow the bound and never share an id.
LEMMA IdsInvariance == Spec => []IdsInv
<1>1. Init => IdsInv
  BY PageAssumption DEF Init, IdsInv
<1>2. ASSUME TypeOK, IdsInv, [Next]_vars PROVE IdsInv'
  <2>1. ASSUME UNCHANGED <<comments, posted>> PROVE IdsInv'
    BY <1>2, <2>1 DEF IdsInv
  <2>2. ASSUME NEW r \in Runs, NEW t \in Tree, PushHead(r, t) \/ PushBase(r, t)
        PROVE  IdsInv'
    BY <2>1, <2>2 DEF PushHead, PushBase, Start
  <2>3. ASSUME NEW r \in Runs, RunStep(r) PROVE IdsInv'
    BY <1>2, <2>1, <2>3, StepsOfARun, IdsByPost
  <2>4. CASE HumanComments
    <3>1. PICK marked \in BOOLEAN :
            comments' = Append(comments, [id |-> posted + 1, author |-> "human",
                                          marked |-> marked, body |-> {}])
      BY <2>4 DEF HumanComments
    <3> DEFINE c == [id |-> posted + 1, author |-> "human", marked |-> marked,
                     body |-> {}]
    <3>2. c \in Comment /\ c.id = posted + 1
      BY <1>2, NewComment
    <3>3. comments' = Append(comments, c)
      BY <3>1
    <3> HIDE DEF c
    <3> QED
      BY <1>2, <2>4, <3>2, <3>3, IdsByCreation DEF HumanComments
  <2>5. CASE HumanDeletes
    BY <1>2, <2>5, IdsByDeletion DEF HumanDeletes
  <2> QED
    BY <1>2, <2>1, <2>2, <2>3, <2>4, <2>5 DEF Next, vars
<1> QED
  BY <1>1, <1>2, TypeCorrect, PTL DEF Spec
----------------------------------------------------------------------------
(* The summaries.                                                          *)

\* With one page, the comment found is the only summary.
LEMMA FindsTheSummary ==
  ASSUME TypeOK, IdsInv, SummaryInv, OnePage, ~overlap,
         NEW i \in DOMAIN comments, IsSticky(comments[i])
  PROVE  comments[i].id = FindSticky
<1> DEFINE found == {k \in FirstPage : IsSticky(comments[k])}
<1>1. DOMAIN comments = 1 .. Len(comments) /\ Len(comments) \in Nat
  BY DEF TypeOK
<1>2. Len(comments) <= MaxComments /\ MaxComments \in Nat /\ PerPage \in Nat
  BY PageAssumption DEF IdsInv
<1>3. i \in found
  BY <1>1, <1>2 DEF FirstPage, OnePage
<1>4. found = {i}
  BY <1>3 DEF FirstPage, SummaryInv
<1> QED
  BY <1>4, FindsTheFirst

\* While runs do not overlap, the one that writes its comment is the newest.
LEMMA WriterIsNewest ==
  ASSUME TypeOK, StartedInv, ScanInv, ~overlap, NEW r \in Runs, run[r].at = "post"
  PROVE  /\ \A k : Newest(k) => started[k] = r
         /\ \A q \in Runs : q # r => Ended(q)
<1>1. ~Ended(r) /\ run[r].event = "pull_request"
  BY DEF Ended, ScanInv, Places
<1>2. started # <<>> /\ started[Len(started)] = r
  BY <1>1 DEF StartedInv
<1>3. Len(started) \in DOMAIN started /\ OfHead(Len(started))
  BY <1>1, <1>2 DEF OfHead, TypeOK
<1>4. ASSUME NEW k, Newest(k) PROVE started[k] = r
  <2>1. k \in DOMAIN started /\ Len(started) <= k
    BY <1>3, <1>4 DEF Newest
  <2>2. k = Len(started)
    BY <2>1 DEF TypeOK
  <2> QED
    BY <1>2, <2>2
<1> QED
  BY <1>1, <1>4 DEF StartedInv

\* A run that has told what it found does not change its mind.
LEMMA ToldStays ==
  ASSUME TypeOK, ScanInv, NEW r \in Runs, RunStep(r), ~PostComment(r), run'[r].told
  PROVE  run[r].told /\ run'[r].newFindings = run[r].newFindings
<1>1. run[r].told => run[r].at \in {"upload", "finish", "done"}
  BY DEF ScanInv, Places
<1>2. CASE Fetch(r)
  BY <1>1, <1>2, Fetches DEF Fetch, KeepsTold
<1>3. CASE ScanBase(r)
  BY <1>1, <1>3, ScansBase DEF ScanBase, KeepsTold
<1>4. CASE ScanHead(r)
  BY <1>1, <1>4, ScansHead DEF ScanHead, KeepsTold
<1>5. CASE ScanAll(r)
  BY <1>5, ScansAll DEF KeepsTold
<1>6. CASE EmitSarif(r)
  BY <1>6, Emits DEF KeepsTold, KeepsFound
<1>7. CASE ListComments(r)
  BY <1>7, Lists DEF KeepsTold, KeepsFound
<1>8. CASE Upload(r)
  BY <1>8, Uploads DEF KeepsTold, KeepsFound
<1>9. CASE Finish(r)
  BY <1>9, Finishes DEF KeepsTold, KeepsFound
<1> QED
  BY <1>2, <1>3, <1>4, <1>5, <1>6, <1>7, <1>8, <1>9 DEF RunStep

\* Only listing the comments leads to the step that writes.
LEMMA ListsBeforePosting ==
  ASSUME TypeOK, NEW r \in Runs, RunStep(r), run'[r].at = "post"
  PROVE  ListComments(r)
<1>1. CASE Fetch(r)
  BY <1>1, Fetches
<1>2. CASE ScanBase(r)
  BY <1>2, ScansBase
<1>3. CASE ScanHead(r)
  BY <1>3, ScansHead
<1>4. CASE ScanAll(r)
  BY <1>4, ScansAll
<1>5. CASE EmitSarif(r)
  BY <1>5, Emits
<1>6. CASE PostComment(r)
  BY <1>6, Posts
<1>7. CASE Upload(r)
  BY <1>7, Uploads
<1>8. CASE Finish(r)
  BY <1>8, Finishes
<1> QED
  BY <1>1, <1>2, <1>3, <1>4, <1>5, <1>6, <1>7, <1>8 DEF RunStep

\* The steps of a run that leave the comments alone.
LEMMA SummaryByStep ==
  ASSUME TypeOK, ScanInv, StartedInv, IdsInv, SummaryInv, OnePage,
         NEW r \in Runs, RunStep(r), ~PostComment(r)
  PROVE  SummaryInv'
<1> SUFFICES ASSUME ~overlap' PROVE SummaryInv'
  BY DEF SummaryInv
<1>1. /\ Others(r) /\ started' = started /\ overlap' = overlap
      /\ comments' = comments
  BY StepsOfARun
<1>2. ~overlap
  BY <1>1
<1>3. ASSUME NEW q \in Runs, run'[q].at = "post",
             NEW i \in DOMAIN comments, IsSticky(comments[i])
      PROVE  comments[i].id = run'[q].existing
  <2>1. CASE q = r
    <3>1. ListComments(r)
      BY <1>3, <2>1, ListsBeforePosting
    <3>2. run'[r].existing = FindSticky
      BY <1>3, <2>1, <3>1, Lists
    <3> QED
      BY <1>2, <1>3, <2>1, <3>2, FindsTheSummary
  <2>2. CASE q # r
    BY <1>1, <1>2, <1>3, <2>2 DEF Others, SummaryInv
  <2> QED
    BY <2>1, <2>2
<1>4. ASSUME NEW k \in DOMAIN started, Newest(k)', run'[started[k]].told,
             NEW i \in DOMAIN comments, IsSticky(comments[i])
      PROVE  comments[i].body = run'[started[k]].newFindings
  <2>1. Newest(k) /\ started[k] \in Runs
    BY <1>4, StartedByStep DEF TypeOK
  <2>2. /\ run[started[k]].told
        /\ run'[started[k]].newFindings = run[started[k]].newFindings
    <3>1. CASE started[k] = r
      BY <1>4, <3>1, ToldStays
    <3>2. CASE started[k] # r
      BY <1>1, <1>4, <2>1, <3>2 DEF Others
    <3> QED
      BY <3>1, <3>2
  <2> QED
    BY <1>2, <1>4, <2>1, <2>2 DEF SummaryInv
<1>5. \A i, j \in DOMAIN comments :
        IsSticky(comments[i]) /\ IsSticky(comments[j]) => i = j
  BY <1>2 DEF SummaryInv
<1> QED
  BY <1>1, <1>3, <1>4, <1>5 DEF SummaryInv, IsSticky
\* The step that writes the comment: afterwards every summary is this run's.
LEMMA SummaryByPost ==
  ASSUME TypeOK, ScanInv, StartedInv, IdsInv, SummaryInv,
         NEW r \in Runs, PostComment(r)
  PROVE  SummaryInv'
<1> SUFFICES ASSUME ~overlap' PROVE SummaryInv'
  BY DEF SummaryInv
<1>1. /\ ~overlap /\ started' = started /\ Others(r) /\ run[r].at = "post"
      /\ run'[r].at = "upload" /\ run'[r].newFindings = run[r].newFindings
  BY Posts DEF PostComment, KeepsFound
<1>2. /\ \A k : Newest(k) => started[k] = r
      /\ \A q \in Runs : q # r => Ended(q)
  BY <1>1, WriterIsNewest
<1>3. \A q \in Runs : run'[q].at # "post"
  BY <1>1, <1>2 DEF Others, Ended
<1>4. \A k : Newest(k)' => started'[k] = r
  BY <1>1, <1>2, StartedByStep DEF RunStep
<1>5. /\ \A i, j \in DOMAIN comments :
           IsSticky(comments[i]) /\ IsSticky(comments[j]) => i = j
      /\ \A i \in DOMAIN comments :
           IsSticky(comments[i]) => comments[i].id = run[r].existing
  BY <1>1 DEF SummaryInv
<1>6. run[r].existing = 0 => \A i \in DOMAIN comments : ~IsSticky(comments[i])
  BY <1>5, IdsAreNumbers
<1>7. SUFFICES
        /\ \A i, j \in DOMAIN comments' :
             IsSticky(comments[i])' /\ IsSticky(comments[j])' => i = j
        /\ run'[r].told => \A i \in DOMAIN comments' :
             IsSticky(comments[i])' => comments'[i].body = run[r].newFindings
  BY <1>1, <1>3, <1>4 DEF SummaryInv, IsSticky
<1>8. CASE UNCHANGED <<comments, posted>> /\ KeepsTold(r)
  <2>1. ~run[r].told
    BY <1>1 DEF ScanInv, Places
  <2> QED
    BY <1>5, <1>8, <2>1 DEF KeepsTold, IsSticky
<1>9. CASE UNCHANGED <<comments, posted>> /\ run[r].existing = 0
  BY <1>6, <1>9 DEF IsSticky
<1>10. CASE \E i \in DOMAIN comments :
              /\ comments[i].id = run[r].existing
              /\ comments' = [comments EXCEPT ![i].body = run[r].newFindings]
  <2>1. PICK i \in DOMAIN comments :
              /\ comments[i].id = run[r].existing
              /\ comments' = [comments EXCEPT ![i].body = run[r].newFindings]
    BY <1>10
  <2>2. /\ comments' \in Seq(Comment) /\ Len(comments') = Len(comments)
        /\ \A j \in DOMAIN comments :
             /\ IsSticky(comments[j])' <=> IsSticky(comments[j])
             /\ comments'[j].body =
                  IF j = i THEN run[r].newFindings ELSE comments[j].body
    BY <2>1, Updates
  <2>3. DOMAIN comments' = DOMAIN comments
    BY <2>2 DEF TypeOK
  <2>4. \A j \in DOMAIN comments : IsSticky(comments[j]) => j = i
    BY <1>5, <2>1 DEF IdsInv
  <2> QED
    BY <1>5, <2>2, <2>3, <2>4
<1>11. CASE /\ run[r].existing = 0
            /\ comments' = Append(comments,
                 [id |-> posted + 1, author |-> "bot", marked |-> TRUE,
                  body |-> run[r].newFindings])
  <2> DEFINE c == [id |-> posted + 1, author |-> "bot", marked |-> TRUE,
                   body |-> run[r].newFindings]
  <2> PICK n \in Nat : n = Len(comments) + 1
    BY DEF TypeOK
  <2>1. c \in Comment /\ c.body = run[r].newFindings
    BY NewComment DEF TypeOK, Run
  <2>2. comments' = Append(comments, c)
    BY <1>11
  <2> HIDE DEF c
  <2>3. /\ DOMAIN comments' = DOMAIN comments \cup {n} /\ comments'[n] = c
        /\ \A j \in DOMAIN comments : comments'[j] = comments[j]
    BY <2>1, <2>2, Creates
  <2>4. \A j \in DOMAIN comments' : IsSticky(comments[j])' => j = n
    BY <1>6, <1>11, <2>3 DEF IsSticky
  <2> QED
    BY <2>1, <2>3, <2>4
<1> QED
  BY <1>8, <1>9, <1>10, <1>11, Posts

\* A push: nobody else is at work, and the new run has not told anything.
LEMMA SummaryByPush ==
  ASSUME TypeOK, StartedInv, SummaryInv, NEW r \in Runs,
         NEW event \in {"pull_request", "push"},
         NEW t \in Tree, NEW remote \in Tree, NEW step \in {"fetch", "full"},
         MayStart(r), Start(r, event, t, step, remote)
  PROVE  SummaryInv'
<1> SUFFICES ASSUME ~overlap' PROVE SummaryInv'
  BY DEF SummaryInv
<1>1. /\ Others(r) /\ run'[r].at = step /\ ~run'[r].told
      /\ ~overlap /\ \A q \in Runs : Ended(q)
      /\ comments' = comments /\ started \in Seq(Runs)
  BY Starts DEF TypeOK
<1>2. \A q \in Runs : run'[q].at # "post"
  BY <1>1 DEF Others, Ended
<1>3. ASSUME NEW k \in DOMAIN started', Newest(k)', run'[started'[k]].told,
             NEW i \in DOMAIN comments, IsSticky(comments[i])
      PROVE  comments[i].body = run'[started'[k]].newFindings
  <2>1. Newest(k) /\ started'[k] = started[k] /\ started[k] # r
    BY <1>1, <1>3, StartedByPush
  <2>2. k \in DOMAIN started
    BY <2>1 DEF Newest
  <2>3. started[k] \in Runs
    BY <1>1, <2>2
  <2>4. run'[started'[k]] = run[started[k]]
    BY <1>1, <2>1, <2>3 DEF Others
  <2> QED
    BY <1>1, <1>3, <2>1, <2>2, <2>4 DEF SummaryInv
<1> QED
  BY <1>1, <1>2, <1>3 DEF SummaryInv, IsSticky

\* What people write is no summary.
LEMMA SummaryByHuman ==
  ASSUME TypeOK, SummaryInv, HumanComments
  PROVE  SummaryInv'
<1> PICK n \in Nat : n = Len(comments) + 1
  BY DEF TypeOK
<1>1. PICK marked \in BOOLEAN :
        comments' = Append(comments, [id |-> posted + 1, author |-> "human",
                                      marked |-> marked, body |-> {}])
  BY DEF HumanComments
<1> DEFINE c == [id |-> posted + 1, author |-> "human", marked |-> marked,
                 body |-> {}]
<1>2. c \in Comment /\ ~IsSticky(c)
  BY NewComment DEF IsSticky
<1>3. comments' = Append(comments, c)
  BY <1>1
<1> HIDE DEF c
<1>4. /\ DOMAIN comments' = DOMAIN comments \cup {n} /\ comments'[n] = c
      /\ \A j \in DOMAIN comments : comments'[j] = comments[j]
  BY <1>2, <1>3, Creates
<1>5. \A j \in DOMAIN comments' :
        IsSticky(comments[j])' =>
          j \in DOMAIN comments /\ IsSticky(comments[j]) /\ comments'[j] = comments[j]
  BY <1>2, <1>4 DEF IsSticky
<1>6. UNCHANGED <<run, started, overlap>> /\ \A k : Newest(k)' <=> Newest(k)
  BY DEF HumanComments, Newest, OfHead
<1> QED
  BY <1>5, <1>6 DEF SummaryInv

\* What people delete was there.
LEMMA SummaryByDeletion ==
  ASSUME TypeOK, SummaryInv, HumanDeletes
  PROVE  SummaryInv'
<1>1. PICK i \in DOMAIN comments : comments' = RemoveAt(comments, i)
  BY DEF HumanDeletes
<1> DEFINE From(j) == IF j < i THEN j ELSE j + 1
<1>2. /\ comments' \in Seq(Comment)
      /\ \A j \in DOMAIN comments' :
           From(j) \in DOMAIN comments /\ comments'[j] = comments[From(j)]
  BY <1>1, Deletes
<1>3. DOMAIN comments' \subseteq Nat /\ i \in Nat
  BY <1>2 DEF TypeOK
<1>4. \A j, k \in DOMAIN comments' : From(j) = From(k) => j = k
  BY <1>3
<1> HIDE DEF From
<1>5. \A j \in DOMAIN comments' : IsSticky(comments[j])' => IsSticky(comments[From(j)])
  BY <1>2 DEF IsSticky
<1>6. UNCHANGED <<run, started, overlap>> /\ \A k : Newest(k)' <=> Newest(k)
  BY DEF HumanDeletes, Newest, OfHead
<1> QED
  BY <1>2, <1>4, <1>5, <1>6 DEF SummaryInv

\* Why there is one summary and why it is the newest: see the head of the module.
THEOREM SummaryInvariance == OnePage => (Spec => []SummaryInv)
<1> SUFFICES ASSUME OnePage PROVE Spec => []SummaryInv
  OBVIOUS
<1>1. Init => SummaryInv
  BY DEF Init, SummaryInv, Idle
<1>2. ASSUME TypeOK, ScanInv, StartedInv, IdsInv, SummaryInv, [Next]_vars
      PROVE  SummaryInv'
  <2>1. ASSUME NEW r \in Runs, NEW t \in Tree, PushHead(r, t) PROVE SummaryInv'
    <3>1. base \in Tree
      BY <1>2 DEF TypeOK
    <3> QED
      BY <1>2, <2>1, <3>1, SummaryByPush DEF PushHead
  <2>2. ASSUME NEW r \in Runs, NEW t \in Tree, PushBase(r, t) PROVE SummaryInv'
    BY <1>2, <2>2, SummaryByPush DEF PushBase
  <2>3. ASSUME NEW r \in Runs, RunStep(r) PROVE SummaryInv'
    BY <1>2, <2>3, SummaryByStep, SummaryByPost
  <2>4. CASE HumanComments
    BY <1>2, <2>4, SummaryByHuman
  <2>5. CASE HumanDeletes
    BY <1>2, <2>5, SummaryByDeletion
  <2>6. CASE UNCHANGED vars
    BY <1>2, <2>6 DEF vars, SummaryInv, Newest, OfHead, IsSticky
  <2> QED
    BY <1>2, <2>1, <2>2, <2>3, <2>4, <2>5, <2>6 DEF Next
<1> QED
  BY <1>1, <1>2, TypeCorrect, ScanInvariance, StartedInvariance, IdsInvariance,
     PTL DEF Spec

\* At most one summary on a pull request whose runs do not overlap and whose
\* comments fit one page.
THEOREM OneSummary == OnePage => (Spec => []OneSticky)
<1> SUFFICES ASSUME OnePage PROVE Spec => []OneSticky
  OBVIOUS
<1>1. SummaryInv => OneSticky
  BY DEF SummaryInv, OneSticky
<1> QED
  BY <1>1, SummaryInvariance, PTL

\* Under the same premises, the summary says what the newest run found.
THEOREM SummaryIsNewest == OnePage => (Spec => []StickyIsLatest)
<1> SUFFICES ASSUME OnePage PROVE Spec => []StickyIsLatest
  OBVIOUS
<1>1. ASSUME TypeOK, StartedInv, SummaryInv PROVE StickyIsLatest
  <2> DEFINE onHead == {i \in DOMAIN started : run[started[i]].event = "pull_request"}
             k == CHOOSE i \in onHead : \A j \in onHead : j <= i
  <2>1. ASSUME onHead # {} PROVE Newest(k)
    <3>1. PICK i \in DOMAIN started : Newest(i)
      BY <1>1, <2>1 DEF StartedInv, OfHead
    <3>2. i \in onHead /\ \A j \in onHead : j <= i
      BY <3>1 DEF Newest, OfHead
    <3>3. k \in onHead /\ \A j \in onHead : j <= k
      BY <3>2
    <3> QED
      BY <3>3 DEF Newest, OfHead
  <2>2. ASSUME onHead # {} PROVE k \in DOMAIN started
    BY <2>1, <2>2 DEF Newest
  <2> HIDE DEF k
  <2>3. ~overlap /\ onHead # {} /\ run[started[k]].told =>
          \A i \in DOMAIN comments :
            IsSticky(comments[i]) => comments[i].body = run[started[k]].newFindings
    BY <1>1, <2>1, <2>2 DEF SummaryInv
  <2> QED
    BY <2>3 DEF StickyIsLatest, k
<1> QED
  BY <1>1, TypeCorrect, StartedInvariance, SummaryInvariance, PTL
==============================================================================
