------------------------------ MODULE FixProofs ------------------------------
(***************************************************************************)
(* The protocol of `hookwarden fix` and of the server of `hookwarden ui`,  *)
(* proved for any files, runs, command lines, requests and saves.          *)
(*                                                                         *)
(* FixCommit: its inductive invariant, the safety properties that follow   *)
(* from it, and the implementation of FixPromise.  FixGitignore: when the  *)
(* staged copies are ignored and the user's lines are kept.  UiServer: the *)
(* chain of promises serialises the requests; an apply is a run of         *)
(* FixCommit, so that its theorems hold here; and, as the requests are     *)
(* serialised, no apply splices into a text its plan was not made for.     *)
(* Of both: how many steps a run, or a request, can still take.            *)
(***************************************************************************)
EXTENDS UiServer, FixGitignore, Integers, FiniteSetTheorems, TLAPS


----------------------------------------------------------------------------
(* Texts: a record of the right fields is a text, a text has its fields.   *)

\* What a scan, a splice or an editor puts together field by field is a text.
LEMMA IsText ==
  ASSUME NEW v \in Nat, NEW c \in Class, NEW s \in BOOLEAN, NEW w \in BOOLEAN
  PROVE  [ver |-> v, finding |-> c, sound |-> s, whole |-> w] \in Text
BY DEF Text

\* The fields of a text have their types.
LEMMA TextFields ==
  ASSUME NEW t \in Text
  PROVE  t.ver \in Nat /\ t.finding \in Class /\ t.sound \in BOOLEAN
         /\ t.whole \in BOOLEAN
BY DEF Text

\* Opening the staged copy, and renaming it, yield texts.
LEMMA ChangedText ==
  ASSUME NEW t \in Text, NEW v \in Nat
  PROVE  /\ [t EXCEPT !.whole = FALSE] \in Text
         /\ [t EXCEPT !.ver = v + 1] \in Text
<1>1. [t EXCEPT !.whole = FALSE] \in Text
  BY DEF Text
<1>2. [t EXCEPT !.ver = v + 1] \in Text
  BY DEF Text
<1>3. QED
  BY <1>1, <1>2

\* A .gitignore with one more line is a .gitignore.
LEMMA AppendedLine ==
  ASSUME NEW g \in [lines : Nat, entry : BOOLEAN, whole : BOOLEAN]
  PROVE  [g EXCEPT !.lines = g.lines + 1]
           \in [lines : Nat, entry : BOOLEAN, whole : BOOLEAN]
OBVIOUS

\* The texts of the initial tree are texts.
LEMMA FirstText ==
  ASSUME NEW t \in [ver : {1}, finding : Class, sound : {TRUE}, whole : {TRUE}]
  PROVE  t \in Text /\ t.whole
<1>1. t = [ver |-> t.ver, finding |-> t.finding, sound |-> t.sound,
           whole |-> t.whole]
  OBVIOUS
<1>2. t.ver \in Nat /\ t.finding \in Class
  OBVIOUS
<1>3. t.sound \in {TRUE} /\ t.whole \in {TRUE}
  OBVIOUS
<1>4. t.sound \in BOOLEAN /\ t.whole \in BOOLEAN
  BY <1>3, Zenon
<1>5. t \in Text
  BY <1>1, <1>2, <1>4, IsText
<1>6. QED
  BY <1>3, <1>5, Zenon

\* Hence so is the initial tree.
LEMMA FirstTree ==
  ASSUME NEW d \in [Files -> [ver : {1}, finding : Classes, sound : {TRUE},
                             whole : {TRUE}]]
  PROVE  d \in [Files -> Text] /\ \A f \in Files : d[f].whole
<1>1. \A f \in Files : d[f] \in [ver : {1}, finding : Class, sound : {TRUE},
                                whole : {TRUE}]
  BY ClassesAssumption
<1>2. \A f \in Files : d[f] \in Text /\ d[f].whole
  BY <1>1, FirstText
<1>3. QED
  BY <1>2

\* Splicing edits into a text yields a complete text of the same version.
LEMMA PatchedText ==
  ASSUME NEW b \in Text, NEW e, NEW t \in Patched(b, e)
  PROVE  t \in Text /\ t.whole /\ t.ver = b.ver
<1> DEFINE C == IF e.class = "manual-only" THEN {b.finding}
                ELSE IF b.ver = e.ver /\ e.exact THEN {"none"}
                ELSE {"none", b.finding}
           S == IF e.class = "manual-only" THEN {FALSE}
                ELSE IF b.ver = e.ver THEN {b.sound} ELSE {FALSE, b.sound}
<1>1. t \in [ver : {b.ver}, finding : C, sound : S, whole : {TRUE}]
  BY DEF Patched
<1>2. C \subseteq Class
  BY TextFields DEF Class
<1>3. S \subseteq BOOLEAN
  BY TextFields, Zenon
<1> HIDE DEF C, S
<1>4. t = [ver |-> t.ver, finding |-> t.finding, sound |-> t.sound,
           whole |-> t.whole]
  BY <1>1
<1>5. t.ver = b.ver /\ t.finding \in Class /\ t.sound \in S /\ t.whole \in {TRUE}
  BY <1>1, <1>2
<1>6. t.sound \in BOOLEAN /\ t.whole \in BOOLEAN /\ t.whole
  BY <1>3, <1>5, Zenon
<1>7. t \in Text
  BY <1>4, <1>5, <1>6, IsText, TextFields
<1>8. QED
  BY <1>5, <1>6, <1>7

----------------------------------------------------------------------------
(* Types.                                                                  *)

\* The initial values have their types.
LEMMA InitType == Init => TypeOK
<1> SUFFICES ASSUME Init
             PROVE  TypeOK
  OBVIOUS
<1>1. disk \in [Files -> Text]
  BY FirstTree DEF Init
<1>2. gitignore \in [lines : Nat, entry : BOOLEAN, whole : BOOLEAN]
  <2>1. gitignore \in [lines : {0}, entry : BOOLEAN, whole : {TRUE}]
    BY DEF Init
  <2>2. gitignore = [lines |-> gitignore.lines, entry |-> gitignore.entry,
                     whole |-> gitignore.whole]
    BY <2>1
  <2>3. gitignore.lines \in Nat
    BY <2>1
  <2>4. gitignore.entry \in BOOLEAN /\ gitignore.whole \in {TRUE}
    BY <2>1
  <2>5. gitignore.whole \in BOOLEAN
    BY <2>4, Zenon
  <2>6. QED
    BY <2>2, <2>3, <2>4, <2>5
<1>3. opts \in [Runs -> Options]
  BY DEF Init
<1>4. NoText \in Text
  BY DEF NoText, Text, Class
<1>5. /\ seen \in [Runs -> [Files -> Text]]
      /\ staged \in [Runs -> [Files -> [present : BOOLEAN, text : Text]]]
  BY <1>4 DEF Init
<1>6. plan \in [Runs -> [Files -> [ver : Nat, class : Class,
                                  exact : BOOLEAN]]]
  BY DEF Init, NoEdit, Class
<1>7. QED
  BY <1>1, <1>2, <1>3, <1>5, <1>6 DEF Init, TypeOK, Ended

\* Every variable keeps its type: the records written by each step of
\* planFixes, writeFixes and the user are complete texts, edits and copies.
LEMMA NextType == TypeOK /\ [Next]_vars => TypeOK'
<1> SUFFICES ASSUME TypeOK, [Next]_vars
             PROVE  TypeOK'
  OBVIOUS
<1> USE DEF TypeOK, Ended, Goto, treeVars, userVars, planVars, stageVars
<1>1. ASSUME NEW f \in Files, UserSave(f)
      PROVE  TypeOK'
  <2>1. disk[f].ver + 1 \in Nat
    BY TextFields
  <2>2. PICK c \in Classes :
          disk' = [disk EXCEPT ![f] = [ver |-> disk[f].ver + 1, finding |-> c,
                                       sound |-> TRUE, whole |-> TRUE]]
    BY <1>1 DEF UserSave
  <2>3. [ver |-> disk[f].ver + 1, finding |-> c, sound |-> TRUE,
         whole |-> TRUE] \in Text
    BY <2>1, ClassesAssumption, IsText
  <2>4. disk' \in [Files -> Text]
    BY <2>2, <2>3
  <2>5. QED
    BY <1>1, <2>4 DEF UserSave
<1>2. CASE UserIgnores
  <2>1. gitignore' \in [lines : Nat, entry : BOOLEAN, whole : BOOLEAN]
    <3>1. gitignore' = [gitignore EXCEPT !.lines = gitignore.lines + 1]
      BY <1>2 DEF UserIgnores
    <3>2. gitignore \in [lines : Nat, entry : BOOLEAN, whole : BOOLEAN]
      OBVIOUS
    <3>3. QED
      BY ONLY <3>1, <3>2, AppendedLine
  <2>2. userLines' \in Nat /\ saves' \in Nat
    BY <1>2 DEF UserIgnores
  <2>3. QED
    BY <1>2, <2>1, <2>2 DEF UserIgnores
<1>3. ASSUME NEW r \in Runs, PlanStep(r)
      PROVE  TypeOK'
  <2>1. CASE Scan(r)
    BY <2>1 DEF Scan
  <2>2. CASE Plan(r)
    <3>1. PICK S \in SUBSET Editable(r), conflict \in BOOLEAN :
            /\ plan' = [plan EXCEPT ![r] =
                 [f \in Files |-> IF f \in S THEN EditOf(r, f) ELSE NoEdit]]
            /\ Goto(r, IF conflict THEN "usageError"
                       ELSE IF DryRun(opts[r]) \/ S = {} THEN "done"
                       ELSE "ignore")
      BY <2>2 DEF Plan
    <3>2. \A f \in Files :
            EditOf(r, f) \in [ver : Nat, class : Class, exact : BOOLEAN]
      BY TextFields DEF EditOf
    <3>3. NoEdit \in [ver : Nat, class : Class, exact : BOOLEAN]
      BY DEF NoEdit, Class
    <3>4. plan' \in [Runs -> [Files -> [ver : Nat, class : Class,
                                        exact : BOOLEAN]]]
      BY <3>1, <3>2, <3>3
    <3>5. QED
      BY <2>2, <3>1, <3>4 DEF Plan
  <2>3. CASE Refuse(r)
    BY <2>3 DEF Refuse
  <2>4. QED
    BY <1>3, <2>1, <2>2, <2>3 DEF PlanStep
<1>4. ASSUME NEW r \in Runs, StageStep(r)
      PROVE  TypeOK'
  <2>1. CASE IgnoreRead(r)
    BY <2>1 DEF IgnoreRead
  <2>2. CASE IgnoreTruncate(r)
    BY <2>2 DEF IgnoreTruncate
  <2>3. CASE IgnoreWrite(r)
    BY <2>3 DEF IgnoreWrite
  <2>4. CASE CreateStagingRun(r)
    BY <2>4 DEF CreateStagingRun
  <2>5. ASSUME NEW f \in Files, StageRead(r, f)
        PROVE  TypeOK'
    <3>1. [disk[f] EXCEPT !.whole = FALSE] \in Text
      BY ChangedText
    <3>2. staged' \in [Runs -> [Files -> [present : BOOLEAN, text : Text]]]
      BY <2>5, <3>1 DEF StageRead
    <3>3. QED
      BY <2>5, <3>2 DEF StageRead
  <2>6. ASSUME NEW f \in Files, StageWrite(r, f)
        PROVE  TypeOK'
    <3>1. \A t \in Patched(staged[r][f].text, plan[r][f]) : t \in Text
      BY PatchedText
    <3>2. staged' \in [Runs -> [Files -> [present : BOOLEAN, text : Text]]]
      BY <2>6, <3>1 DEF StageWrite
    <3>3. QED
      BY <2>6, <3>2 DEF StageWrite
  <2>7. QED
    BY <1>4, <2>1, <2>2, <2>3, <2>4, <2>5, <2>6 DEF StageStep
<1>5. ASSUME NEW r \in Runs, CommitStep(r)
      PROVE  TypeOK'
  <2>1. CASE CommitStaging(r)
    BY <2>1 DEF CommitStaging
  <2>2. ASSUME NEW f \in Files, Rename(r, f)
        PROVE  TypeOK'
    <3>1. staged[r][f].text \in Text /\ disk[f].ver \in Nat
      BY TextFields
    <3>2. [staged[r][f].text EXCEPT !.ver = disk[f].ver + 1] \in Text
      BY <3>1, ChangedText
    <3>3. disk' \in [Files -> Text]
      BY <2>2, <3>2 DEF Rename
    <3>4. NoText \in Text
      BY DEF NoText, Text, Class
    <3>5. staged' \in [Runs -> [Files -> [present : BOOLEAN, text : Text]]]
      BY <2>2, <3>4 DEF Rename
    <3>6. QED
      BY <2>2, <3>3, <3>5 DEF Rename
  <2>3. CASE RemoveStaging(r)
    BY <2>3 DEF RemoveStaging
  <2>4. QED
    BY <1>5, <2>1, <2>2, <2>3 DEF CommitStep
<1>6. ASSUME NEW r \in Runs, Throw(r)
      PROVE  TypeOK'
  BY <1>6 DEF Throw, Active
<1>7. ASSUME NEW r \in Runs, Kill(r)
      PROVE  TypeOK'
  BY <1>7 DEF Kill, Active
<1>8. CASE UNCHANGED vars
  BY <1>8 DEF vars
<1>9. QED
  BY <1>1, <1>2, <1>3, <1>4, <1>5, <1>6, <1>7, <1>8 DEF Next, RunStep

\* In every behaviour every variable has its type.
THEOREM TypeCorrect == Spec => []TypeOK
BY InitType, NextType, PTL DEF Spec

----------------------------------------------------------------------------
(* The inductive invariant.                                                *)

\* What the invariant says of a run depends on that run's own state only.
Still(q) ==
  /\ pc'[q] = pc[q]
  /\ opts'[q] = opts[q]
  /\ plan'[q] = plan[q]
  /\ dir'[q] = dir[q]
  /\ staged'[q] = staged[q]
  /\ committed'[q] = committed[q]
  /\ stoppedAt'[q] = stoppedAt[q]

\* A run whose state did not change keeps its part of the invariant.
LEMMA OtherRun ==
  ASSUME NEW q \in Runs, RunInv(q), Still(q)
  PROVE  RunInv(q)'
<1> USE DEF Still
<1>1. NotYetStaged(q)'
  BY DEF RunInv, NotYetStaged, Planning, Preparing
<1>2. StagingInProgress(q)'
  BY DEF RunInv, StagingInProgress, Staging
<1>3. CommitInProgress(q)'
  BY DEF RunInv, CommitInProgress, Planned
<1>4. EndedRun(q)'
  BY DEF RunInv, EndedRun, Planned, DryRun
<1>5. Consented(q)'
  BY DEF RunInv, Consented, Planned, DryRun, Refused, Allowed, Preparing,
         Staging
<1>6. QED
  BY <1>1, <1>2, <1>3, <1>4, <1>5 DEF RunInv

\* Nothing is staged, renamed or torn at the start.
LEMMA InitInv == Init => IInv
<1> SUFFICES ASSUME Init
             PROVE  IInv
  OBVIOUS
<1>1. NothingTorn
  BY FirstTree DEF Init, NothingTorn
<1>2. ASSUME NEW r \in Runs
      PROVE  RunInv(r)
  BY DEF Init, RunInv, NotYetStaged, StagingInProgress, CommitInProgress,
         EndedRun, Consented, Planned, NoEdit, NoText, Planning, Preparing,
         Staging
<1>3. QED
  BY <1>1, <1>2, InitType DEF IInv

\* A step of planFixes stages and renames nothing; a run that goes on to
\* write is not a dry run, was not refused, and plans allowed edits only.
LEMMA PlanInv ==
  ASSUME IInv, NEW r \in Runs, PlanStep(r)
  PROVE  RunInv(r)' /\ (\A q \in Runs \ {r} : Still(q)) /\ NothingTorn'
<1> USE DEF Goto, treeVars, userVars, planVars, stageVars
<1>1. TypeOK /\ NothingTorn /\ RunInv(r)
  BY DEF IInv
<1>2. NothingTorn'
  BY <1>1 DEF PlanStep, Scan, Plan, Refuse, NothingTorn
<1>3. \A q \in Runs \ {r} : Still(q)
  BY <1>1 DEF PlanStep, Scan, Plan, Refuse, Still, TypeOK
<1>4. CASE Scan(r) \/ Refuse(r)
  <2>1. /\ pc[r] \in Planning
        /\ pc'[r] = "scanned" \/ pc'[r] = "usageError"
        /\ UNCHANGED <<opts, plan, dir, staged, committed, stoppedAt>>
    BY <1>1, <1>4 DEF Scan, Refuse, TypeOK, Planning
  <2>2. /\ ~dir[r] /\ committed[r] = {}
        /\ \A f \in Files : ~staged[r][f].present
        /\ stoppedAt[r] = "idle"
        /\ \A f \in Planned(r) : plan[r][f].class \in Allowed(opts[r].mode)
    BY <1>1, <2>1 DEF RunInv, NotYetStaged, EndedRun, Consented, Planning
  <2>3. NotYetStaged(r)' /\ StagingInProgress(r)' /\ CommitInProgress(r)'
    BY <2>1, <2>2 DEF NotYetStaged, StagingInProgress, CommitInProgress,
       Planned, Staging
  <2>4. EndedRun(r)'
    BY <2>1, <2>2 DEF EndedRun
  <2>5. Consented(r)'
    BY <2>1, <2>2 DEF Consented, Planned, Allowed, Preparing, Staging
  <2>6. QED
    BY <1>2, <1>3, <2>3, <2>4, <2>5 DEF RunInv
<1>5. CASE Plan(r)
  <2>1. PICK S \in SUBSET Editable(r), conflict \in BOOLEAN :
          /\ plan' = [plan EXCEPT ![r] =
               [f \in Files |-> IF f \in S THEN EditOf(r, f) ELSE NoEdit]]
          /\ conflict => S # {}
          /\ Goto(r, IF conflict THEN "usageError"
                     ELSE IF DryRun(opts[r]) \/ S = {} THEN "done"
                     ELSE "ignore")
    BY <1>5 DEF Plan
  <2>2. /\ pc[r] = "scanned" /\ ~Refused(opts[r])
        /\ UNCHANGED <<opts, dir, staged, committed, stoppedAt>>
    BY <1>5 DEF Plan
  <2>3. /\ pc'[r] \in {"usageError", "done", "ignore"}
        /\ pc'[r] = "ignore" => ~DryRun(opts[r])
        /\ pc'[r] = "done" => DryRun(opts[r]) \/ S = {}
    BY <1>1, <2>1 DEF TypeOK
  <2>4. /\ ~dir[r] /\ committed[r] = {}
        /\ \A f \in Files : ~staged[r][f].present
        /\ stoppedAt[r] = "idle"
    BY <1>1, <2>2 DEF RunInv, NotYetStaged, EndedRun, Planning
  <2>5. \A f \in Files :
          plan'[r][f] = IF f \in S THEN EditOf(r, f) ELSE NoEdit
    BY <1>1, <2>1 DEF TypeOK
  <2>6. \A f \in Planned(r)' : f \in S
                             /\ plan'[r][f].class = seen[r][f].finding
    <3>1. \A f \in Files \ S : plan'[r][f].ver = 0
      BY <2>5 DEF NoEdit
    <3>2. ASSUME NEW f \in Files, f \in S
          PROVE  plan'[r][f].class = seen[r][f].finding
      <4>1. plan'[r][f] = EditOf(r, f)
        BY <2>5, <3>2
      <4>2. EditOf(r, f).class = seen[r][f].finding
        BY DEF EditOf
      <4>3. QED
        BY <4>1, <4>2
    <3>3. \A f \in Planned(r)' : f \in Files /\ plan'[r][f].ver # 0
      BY DEF Planned
    <3>4. QED
      BY <3>1, <3>2, <3>3
  <2>7. \A f \in S : seen[r][f].finding \in Allowed(opts[r].mode)
    BY <2>1 DEF Editable
  <2>8. NotYetStaged(r)' /\ StagingInProgress(r)' /\ CommitInProgress(r)'
    BY <2>2, <2>3, <2>4 DEF NotYetStaged, StagingInProgress,
       CommitInProgress, Staging
  <2>9. EndedRun(r)'
    <3>1. pc'[r] = "done" => committed'[r] = IF DryRun(opts'[r]) THEN {}
                                             ELSE Planned(r)'
      BY <2>2, <2>3, <2>4, <2>6
    <3>2. QED
      BY <2>2, <2>3, <2>4, <3>1 DEF EndedRun
  <2>10. Consented(r)'
    <3>1. \A f \in Planned(r)' : plan'[r][f].class \in Allowed(opts'[r].mode)
      BY <2>2, <2>6, <2>7 DEF Allowed
    <3>2. pc'[r] = "ignore" => ~DryRun(opts'[r]) /\ ~Refused(opts'[r])
      BY <2>2, <2>3 DEF DryRun, Refused
    <3>3. committed'[r] = {} /\ pc'[r] \in {"usageError", "done", "ignore"}
      BY <2>2, <2>3, <2>4
    <3>4. QED
      BY <3>1, <3>2, <3>3 DEF Consented, Preparing, Staging
  <2>11. QED
    BY <1>2, <1>3, <2>8, <2>9, <2>10 DEF RunInv
<1>6. QED
  BY <1>4, <1>5 DEF PlanStep

\* A step of ensureGitignoreEntry, createStagingRun or stageFile renames
\* nothing, and leaves at most one staged copy incomplete.
LEMMA StageInv ==
  ASSUME IInv, NEW r \in Runs, StageStep(r)
  PROVE  RunInv(r)' /\ (\A q \in Runs \ {r} : Still(q)) /\ NothingTorn'
<1> USE DEF Goto, treeVars, userVars, planVars, stageVars
<1>1. TypeOK /\ NothingTorn /\ RunInv(r)
  BY DEF IInv
<1>2. disk' = disk /\ UNCHANGED <<planVars, committed, stoppedAt>>
  BY DEF StageStep, IgnoreRead, IgnoreTruncate, IgnoreWrite,
     CreateStagingRun, StageRead, StageWrite
<1>3. NothingTorn'
  BY <1>1, <1>2 DEF NothingTorn
<1>4. \A q \in Runs \ {r} : Still(q)
  BY <1>1 DEF StageStep, IgnoreRead, IgnoreTruncate, IgnoreWrite,
     CreateStagingRun, StageRead, StageWrite, Still, TypeOK
<1>5. /\ pc[r] \in Preparing \cup Staging
      /\ pc'[r] \in Preparing \cup Staging
  BY <1>1 DEF StageStep, IgnoreRead, IgnoreTruncate, IgnoreWrite,
     CreateStagingRun, StageRead, StageWrite, TypeOK, Preparing, Staging
<1>6. /\ committed[r] = {} /\ stoppedAt[r] = "idle"
      /\ ~DryRun(opts[r]) /\ ~Refused(opts[r])
      /\ \A f \in Planned(r) : plan[r][f].class \in Allowed(opts[r].mode)
  BY <1>1, <1>5 DEF RunInv, NotYetStaged, StagingInProgress, EndedRun,
     Consented, Preparing, Staging
<1>7. CommitInProgress(r)' /\ EndedRun(r)'
  BY <1>2, <1>5, <1>6 DEF CommitInProgress, EndedRun, Preparing, Staging
<1>8. Consented(r)'
  BY <1>2, <1>6 DEF Consented, Planned, DryRun, Refused, Allowed
<1>9. NotYetStaged(r)' /\ StagingInProgress(r)'
  <2>1. CASE IgnoreRead(r) \/ IgnoreTruncate(r) \/ IgnoreWrite(r)
    <3>1. /\ pc[r] \in Preparing /\ pc'[r] \in Preparing
          /\ UNCHANGED <<dir, staged, committed>>
      BY <1>1, <2>1 DEF IgnoreRead, IgnoreTruncate, IgnoreWrite, TypeOK,
         Preparing
    <3>2. QED
      BY <1>1, <3>1 DEF RunInv, NotYetStaged, StagingInProgress, Preparing,
         Staging
  <2>2. CASE CreateStagingRun(r)
    <3>1. /\ pc[r] = "mkdir" /\ pc'[r] = "stage" /\ dir'[r]
          /\ UNCHANGED <<staged, committed>>
      BY <1>1, <2>2 DEF CreateStagingRun, TypeOK
    <3>2. QED
      BY <1>1, <1>6, <3>1 DEF RunInv, NotYetStaged, StagingInProgress,
         Planning, Preparing, Staging
  <2>3. ASSUME NEW f \in Files, StageRead(r, f)
        PROVE  NotYetStaged(r)' /\ StagingInProgress(r)'
    <3>1. /\ pc[r] = "stage" /\ pc'[r] = "writing"
          /\ UNCHANGED <<dir, committed>>
          /\ \A g \in Files \ {f} : staged'[r][g] = staged[r][g]
      BY <1>1, <2>3 DEF StageRead, TypeOK
    <3>2. /\ dir[r]
          /\ \A g \in Files : staged[r][g].present => staged[r][g].text.whole
      BY <1>1, <3>1 DEF RunInv, StagingInProgress, Staging
    <3>3. QED
      BY <1>6, <3>1, <3>2 DEF NotYetStaged, StagingInProgress, Planning,
         Preparing, Staging
  <2>4. ASSUME NEW f \in Files, StageWrite(r, f)
        PROVE  NotYetStaged(r)' /\ StagingInProgress(r)'
    <3>1. /\ pc[r] = "writing" /\ pc'[r] = "stage"
          /\ UNCHANGED <<dir, committed>>
          /\ staged[r][f].present /\ ~staged[r][f].text.whole
          /\ \A g \in Files \ {f} : staged'[r][g] = staged[r][g]
      BY <1>1, <2>4 DEF StageWrite, TypeOK
    <3>2. PICK t \in Patched(staged[r][f].text, plan[r][f]) :
            staged' = [staged EXCEPT ![r][f].text = t]
      BY <2>4 DEF StageWrite
    <3>3. staged'[r][f].text = t
      BY <1>1, <3>2 DEF TypeOK
    <3>4. t.whole
      BY <1>1, PatchedText DEF TypeOK
    <3>5. /\ dir[r]
          /\ \A g \in Files \ {f} : staged[r][g].present =>
                                       staged[r][g].text.whole
      BY <1>1, <3>1 DEF RunInv, StagingInProgress, Staging
    <3>6. QED
      BY <1>6, <3>1, <3>3, <3>4, <3>5 DEF NotYetStaged, StagingInProgress,
         Planning, Preparing, Staging
  <2>5. QED
    BY <2>1, <2>2, <2>3, <2>4 DEF StageStep
<1>10. QED
  BY <1>3, <1>4, <1>7, <1>8, <1>9 DEF RunInv

\* commitStaging starts with every copy complete; each rename takes one copy
\* away and puts it into the tree; success is reported when none is left.
LEMMA CommitInv ==
  ASSUME IInv, NEW r \in Runs, CommitStep(r)
  PROVE  RunInv(r)' /\ (\A q \in Runs \ {r} : Still(q)) /\ NothingTorn'
<1> USE DEF Goto, treeVars, userVars, planVars, stageVars
<1>1. TypeOK /\ NothingTorn /\ RunInv(r)
  BY DEF IInv
<1>2. UNCHANGED <<planVars, stoppedAt>>
  BY DEF CommitStep, CommitStaging, Rename, RemoveStaging
<1>3. \A q \in Runs \ {r} : Still(q)
  BY <1>1 DEF CommitStep, CommitStaging, Rename, RemoveStaging, Still, TypeOK
<1>4. CASE CommitStaging(r)
  <2>1. /\ pc[r] = "stage" /\ pc'[r] = "commit"
        /\ UNCHANGED <<disk, dir, staged, committed>>
        /\ \A f \in Planned(r) : staged[r][f].present
    BY <1>1, <1>4 DEF CommitStaging, TypeOK
  <2>2. /\ dir[r] /\ committed[r] = {} /\ stoppedAt[r] = "idle"
        /\ \A f \in Files : staged[r][f].present => staged[r][f].text.whole
        /\ ~DryRun(opts[r]) /\ ~Refused(opts[r])
        /\ \A f \in Planned(r) : plan[r][f].class \in Allowed(opts[r].mode)
    BY <1>1, <2>1 DEF RunInv, StagingInProgress, EndedRun, Consented, Staging
  <2>3. NothingTorn'
    BY <1>1, <2>1 DEF NothingTorn
  <2>4. CommitInProgress(r)'
    BY <1>2, <2>1, <2>2 DEF CommitInProgress, Planned
  <2>5. Consented(r)'
    BY <1>2, <2>1, <2>2 DEF Consented, Planned, DryRun, Refused, Allowed
  <2>6. NotYetStaged(r)' /\ StagingInProgress(r)' /\ EndedRun(r)'
    BY <1>2, <2>1, <2>2 DEF NotYetStaged, StagingInProgress, EndedRun,
       Planning, Preparing, Staging
  <2>7. QED
    BY <1>3, <2>3, <2>4, <2>5, <2>6 DEF RunInv
<1>5. ASSUME NEW f \in Files, Rename(r, f)
      PROVE  RunInv(r)' /\ NothingTorn'
  <2>1. /\ pc[r] = "commit" /\ pc'[r] = "commit" /\ dir' = dir
        /\ f \in Planned(r) \ committed[r]
        /\ committed'[r] = committed[r] \cup {f}
        /\ \A g \in Files \ {f} : staged'[r][g] = staged[r][g]
        /\ \A g \in Files \ {f} : disk'[g] = disk[g]
        /\ disk'[f] = [staged[r][f].text EXCEPT !.ver = disk[f].ver + 1]
    BY <1>1, <1>5 DEF Rename, TypeOK
  <2>2. /\ dir[r] /\ committed[r] \subseteq Planned(r)
        /\ stoppedAt[r] = "idle"
        /\ \A g \in Planned(r) \ committed[r] :
             staged[r][g].present /\ staged[r][g].text.whole
        /\ ~DryRun(opts[r]) /\ ~Refused(opts[r])
        /\ \A g \in Planned(r) : plan[r][g].class \in Allowed(opts[r].mode)
    BY <1>1, <2>1 DEF RunInv, CommitInProgress, EndedRun, Consented
  <2>3. disk'[f].whole
    BY <1>1, <2>1, <2>2 DEF TypeOK, Text
  <2>4. NothingTorn'
    BY <1>1, <2>1, <2>3 DEF NothingTorn
  <2>5. CommitInProgress(r)'
    BY <1>2, <2>1, <2>2 DEF CommitInProgress, Planned
  <2>6. Consented(r)'
    BY <1>2, <2>2 DEF Consented, Planned, DryRun, Refused, Allowed
  <2>7. NotYetStaged(r)' /\ StagingInProgress(r)' /\ EndedRun(r)'
    BY <1>2, <2>1, <2>2 DEF NotYetStaged, StagingInProgress, EndedRun,
       Planning, Preparing, Staging
  <2>8. QED
    BY <2>4, <2>5, <2>6, <2>7 DEF RunInv
<1>6. CASE RemoveStaging(r)
  <2>1. /\ pc[r] = "commit" /\ pc'[r] = "done" /\ ~dir'[r]
        /\ committed[r] = Planned(r)
        /\ UNCHANGED <<disk, staged, committed>>
    BY <1>1, <1>6 DEF RemoveStaging, TypeOK
  <2>2. /\ stoppedAt[r] = "idle"
        /\ ~DryRun(opts[r]) /\ ~Refused(opts[r])
        /\ \A g \in Planned(r) : plan[r][g].class \in Allowed(opts[r].mode)
    BY <1>1, <2>1 DEF RunInv, EndedRun, Consented
  <2>3. NothingTorn'
    BY <1>1, <2>1 DEF NothingTorn
  <2>4. Consented(r)'
    BY <1>2, <2>2 DEF Consented, Planned, DryRun, Refused, Allowed
  <2>5. EndedRun(r)'
    BY <1>2, <2>1, <2>2 DEF EndedRun, Planned, DryRun
  <2>6. NotYetStaged(r)' /\ StagingInProgress(r)' /\ CommitInProgress(r)'
    BY <1>2, <2>1, <2>2 DEF NotYetStaged, StagingInProgress,
       CommitInProgress, Planning, Preparing, Staging
  <2>7. QED
    BY <1>3, <2>3, <2>4, <2>5, <2>6 DEF RunInv
<1>7. QED
  BY <1>3, <1>4, <1>5, <1>6 DEF CommitStep

\* A run that throws or dies leaves everything as it is.
LEMMA StopInv ==
  ASSUME IInv, NEW r \in Runs, Throw(r) \/ Kill(r)
  PROVE  RunInv(r)' /\ (\A q \in Runs \ {r} : Still(q)) /\ NothingTorn'
<1> USE DEF Goto, treeVars, userVars, planVars, stageVars
<1>1. TypeOK /\ NothingTorn /\ RunInv(r)
  BY DEF IInv
<1>2. /\ Active(r) /\ pc'[r] \in {"engineError", "killed"}
      /\ stoppedAt'[r] = pc[r]
      /\ UNCHANGED <<treeVars, planVars, stageVars, committed>>
  BY <1>1 DEF Throw, Kill, TypeOK
<1>3. \A q \in Runs \ {r} : Still(q)
  BY <1>1 DEF Throw, Kill, TypeOK, Still
<1>4. NothingTorn'
  BY <1>1, <1>2 DEF NothingTorn
<1>5. pc[r] # "commit" => committed[r] = {}
  BY <1>1, <1>2 DEF RunInv, NotYetStaged, StagingInProgress, Active, Ended,
     TypeOK, Planning, Preparing, Staging
<1>6. CommitInProgress(r)'
  BY <1>1, <1>2 DEF RunInv, CommitInProgress, Planned
<1>7. EndedRun(r)'
  BY <1>2, <1>5 DEF EndedRun
<1>8. Consented(r)'
  BY <1>1, <1>2 DEF RunInv, Consented, Planned, DryRun, Refused, Allowed,
     Preparing, Staging
<1>9. NotYetStaged(r)' /\ StagingInProgress(r)'
  BY <1>2 DEF NotYetStaged, StagingInProgress, Planning, Preparing, Staging
<1>10. QED
  BY <1>3, <1>4, <1>6, <1>7, <1>8, <1>9 DEF RunInv

\* The user's own saves are complete texts and touch no run.
LEMMA UserInv ==
  ASSUME IInv, UserIgnores \/ \E f \in Files : UserSave(f)
  PROVE  (\A q \in Runs : Still(q)) /\ NothingTorn'
<1> USE DEF treeVars, userVars, planVars, stageVars
<1>1. TypeOK /\ NothingTorn
  BY DEF IInv
<1>2. \A q \in Runs : Still(q)
  BY DEF UserIgnores, UserSave, Still
<1>3. CASE UserIgnores
  BY <1>1, <1>2, <1>3 DEF UserIgnores, NothingTorn
<1>4. ASSUME NEW f \in Files, UserSave(f)
      PROVE  NothingTorn'
  <2>1. PICK c \in Classes :
          disk' = [disk EXCEPT ![f] = [ver |-> disk[f].ver + 1, finding |-> c,
                                       sound |-> TRUE, whole |-> TRUE]]
    BY <1>4 DEF UserSave
  <2>2. disk'[f].whole
    BY <1>1, <2>1 DEF TypeOK
  <2>3. \A g \in Files \ {f} : disk'[g] = disk[g]
    BY <1>1, <2>1 DEF TypeOK
  <2>4. QED
    BY <1>1, <2>2, <2>3 DEF NothingTorn
<1>5. QED
  BY <1>2, <1>3, <1>4

\* Every step of a run, of the environment or of the user preserves IInv.
LEMMA NextInv == IInv /\ [Next]_vars => IInv'
<1> SUFFICES ASSUME IInv, [Next]_vars
             PROVE  IInv'
  OBVIOUS
<1>1. TypeOK'
  BY NextType DEF IInv
<1>2. ASSUME NEW r \in Runs, RunStep(r) \/ Throw(r) \/ Kill(r)
      PROVE  IInv'
  <2>1. RunInv(r)' /\ (\A q \in Runs \ {r} : Still(q)) /\ NothingTorn'
    BY <1>2, PlanInv, StageInv, CommitInv, StopInv DEF RunStep
  <2>2. \A q \in Runs \ {r} : RunInv(q)'
    BY <2>1, OtherRun DEF IInv
  <2>3. QED
    BY <1>1, <2>1, <2>2 DEF IInv
<1>3. CASE UserIgnores \/ \E f \in Files : UserSave(f)
  <2>1. (\A q \in Runs : Still(q)) /\ NothingTorn'
    BY <1>3, UserInv
  <2>2. \A q \in Runs : RunInv(q)'
    BY <2>1, OtherRun DEF IInv
  <2>3. QED
    BY <1>1, <2>1, <2>2 DEF IInv
<1>4. CASE UNCHANGED vars
  <2>1. NothingTorn'
    BY <1>4 DEF IInv, NothingTorn, vars
  <2>2. \A q \in Runs : RunInv(q)'
    BY <1>4, OtherRun DEF IInv, Still, vars
  <2>3. QED
    BY <1>1, <2>1, <2>2 DEF IInv
<1>5. QED
  BY <1>2, <1>3, <1>4 DEF Next

\* The inductive invariant holds in every behaviour.
THEOREM Invariance == Spec => []IInv
BY InitInv, NextInv, PTL DEF Spec

----------------------------------------------------------------------------
(* The safety properties.                                                  *)

\* No reader of the tree ever finds a half-written source file.
THEOREM NeverTorn == Spec => []NothingTorn
<1>1. IInv => NothingTorn
  BY DEF IInv
<1>2. QED
  BY <1>1, Invariance, PTL

\* After a run's first rename, what it planned and has not renamed yet waits,
\* complete, in its staging directory, whatever throws or dies.
THEOREM InspectionContract == Spec => []StagedCopiesSurvive
<1>1. IInv => StagedCopiesSurvive
  <2> SUFFICES ASSUME IInv, NEW r \in Runs, committed[r] # {},
                      NEW f \in Planned(r) \ committed[r]
               PROVE  dir[r] /\ staged[r][f].present /\ staged[r][f].text.whole
    BY DEF StagedCopiesSurvive
  <2>1. TypeOK /\ RunInv(r)
    BY DEF IInv
  <2>2. "commit" \in {pc[r], stoppedAt[r]}
    BY <2>1 DEF RunInv, NotYetStaged, StagingInProgress, EndedRun, Ended,
       TypeOK, Planning, Preparing, Staging
  <2>3. QED
    BY <2>1, <2>2 DEF RunInv, CommitInProgress
<1>2. QED
  BY <1>1, Invariance, PTL

\* Exit code 0 means that what was planned is in place, and nothing is left.
THEOREM SuccessIsComplete == Spec => []DoneMeansCommitted
<1>1. IInv => DoneMeansCommitted
  BY DEF IInv, RunInv, EndedRun, DoneMeansCommitted
<1>2. QED
  BY <1>1, Invariance, PTL

\* Dry runs write nothing; unsafe rewrites need --mode all and consent.
THEOREM WritesNeedConsent == Spec => []OnlyConsentedWrites
<1>1. IInv => OnlyConsentedWrites
  <2> SUFFICES ASSUME IInv, NEW r \in Runs, NEW f \in committed[r]
               PROVE  /\ opts[r].write /\ ~opts[r].json
                      /\ plan[r][f].class = "unsafe" =>
                           /\ opts[r].mode = "all"
                           /\ opts[r].tty \/ opts[r].acceptUnsafe
    BY DEF OnlyConsentedWrites
  <2>1. TypeOK /\ RunInv(r) /\ committed[r] # {}
    BY DEF IInv
  <2>2. ~DryRun(opts[r]) /\ ~Refused(opts[r])
    BY <2>1 DEF RunInv, Consented
  <2>3. f \in Planned(r)
    BY <2>1, <2>2 DEF RunInv, NotYetStaged, StagingInProgress,
       CommitInProgress, EndedRun, Ended, TypeOK, Planning, Preparing, Staging
  <2>4. plan[r][f].class \in Allowed(opts[r].mode)
    BY <2>1, <2>3 DEF RunInv, Consented
  <2>5. QED
    BY <2>2, <2>4 DEF DryRun, Refused, Allowed
<1>2. QED
  BY <1>1, Invariance, PTL

----------------------------------------------------------------------------
(* A run can always go on, and not for ever.                               *)

Unstaged(r) == {f \in Planned(r) : ~staged[r][f].present}

\* How many steps a run has left: two for each file to be staged, one for each
\* to be renamed, and those before, between and after.
StepsLeft(r) ==
  LET N == Cardinality(Files) IN
  CASE pc[r] = "idle"          -> 3 * N + 8
    [] pc[r] = "scanned"       -> 3 * N + 7
    [] pc[r] = "ignore"        -> 3 * N + 6
    [] pc[r] = "ignoreAbsent"  -> 3 * N + 5
    [] pc[r] = "ignoreWriting" -> 3 * N + 4
    [] pc[r] = "mkdir"         -> 3 * N + 3
    [] pc[r] = "stage"         -> 2 * Cardinality(Unstaged(r)) + N + 2
    [] pc[r] = "writing"       -> 2 * Cardinality(Unstaged(r)) + N + 3
    [] pc[r] = "commit"        -> Cardinality(Planned(r) \ committed[r]) + 1
    [] OTHER                   -> 0

StepsNeverGrow ==
  \A r \in Runs : /\ StepsLeft(r)' <= StepsLeft(r)
                  /\ RunStep(r) \/ Throw(r) \/ Kill(r) => StepsLeft(r)' < StepsLeft(r)

\* A run that has not ended has what its next step needs: while it writes a
\* copy, one that is open; while it renames, the copy of every file that is
\* left.
NoDeadEnd ==
  \A r \in Runs :
    /\ StepsLeft(r) \in Nat /\ (StepsLeft(r) = 0 <=> pc[r] \in Ended)
    /\ pc[r] = "writing" =>
         \E f \in Planned(r) : staged[r][f].present /\ ~staged[r][f].text.whole
    /\ pc[r] = "commit" =>
         /\ committed[r] \subseteq Planned(r)
         /\ \A f \in Planned(r) \ committed[r] : staged[r][f].present

\* How many files there are, and how many a run still has to see to.
LEMMA Counts ==
  ASSUME IsFiniteSet(Files), NEW r
  PROVE  /\ Cardinality(Files) \in Nat
         /\ IsFiniteSet(Unstaged(r)) /\ IsFiniteSet(Planned(r) \ committed[r])
         /\ Cardinality(Unstaged(r)) \in 0 .. Cardinality(Files)
         /\ Cardinality(Planned(r) \ committed[r]) \in 0 .. Cardinality(Files)
<1>1. /\ Unstaged(r) \in SUBSET Files
      /\ Planned(r) \ committed[r] \in SUBSET Files
  BY DEF Unstaged, Planned
<1>2. /\ IsFiniteSet(Unstaged(r)) /\ IsFiniteSet(Planned(r) \ committed[r])
      /\ Cardinality(Unstaged(r)) <= Cardinality(Files)
      /\ Cardinality(Planned(r) \ committed[r]) <= Cardinality(Files)
  BY <1>1, FS_Subset, Zenon
<1>3. /\ Cardinality(Files) \in Nat /\ Cardinality(Unstaged(r)) \in Nat
      /\ Cardinality(Planned(r) \ committed[r]) \in Nat
  BY <1>2, FS_CardinalityType, Zenon
<1>4. QED
  BY <1>2, <1>3

LEMMA StepsLeftIsNat ==
  ASSUME IsFiniteSet(Files), TypeOK, NEW r \in Runs
  PROVE  /\ StepsLeft(r) \in 0 .. 3 * Cardinality(Files) + 8
         /\ StepsLeft(r) = 0 <=> pc[r] \in Ended
<1> DEFINE N == Cardinality(Files)
           U == Cardinality(Unstaged(r))
           C == Cardinality(Planned(r) \ committed[r])
<1>1. N \in Nat /\ U \in 0 .. N /\ C \in 0 .. N
  BY Counts
<1>2. pc[r] \in Ended \cup {"idle", "scanned", "ignore", "ignoreAbsent", "ignoreWriting",
                            "mkdir", "stage", "writing", "commit"}
  BY DEF TypeOK
<1>3. StepsLeft(r) =
        CASE pc[r] = "idle"          -> 3 * N + 8
          [] pc[r] = "scanned"       -> 3 * N + 7
          [] pc[r] = "ignore"        -> 3 * N + 6
          [] pc[r] = "ignoreAbsent"  -> 3 * N + 5
          [] pc[r] = "ignoreWriting" -> 3 * N + 4
          [] pc[r] = "mkdir"         -> 3 * N + 3
          [] pc[r] = "stage"         -> 2 * U + N + 2
          [] pc[r] = "writing"       -> 2 * U + N + 3
          [] pc[r] = "commit"        -> C + 1
          [] OTHER                   -> 0
  BY DEF StepsLeft
<1> HIDE DEF N, U, C
<1>4. StepsLeft(r) \in 0 .. 3 * N + 8 /\ (StepsLeft(r) = 0 <=> pc[r] \in Ended)
  <2>1. CASE pc[r] \in Ended
    <3>1. StepsLeft(r) = 0
      BY <1>3, <2>1 DEF Ended
    <3>2. QED
      BY <1>1, <2>1, <3>1
  <2>2. CASE pc[r] \in {"idle", "scanned", "ignore", "ignoreAbsent", "ignoreWriting", "mkdir"}
    <3>1. \E k \in 3 .. 8 : StepsLeft(r) = 3 * N + k
      BY <1>3, <2>2
    <3>2. StepsLeft(r) \in 1 .. 3 * N + 8
      BY <1>1, <3>1
    <3>3. QED
      BY <2>2, <3>2 DEF Ended
  <2>3. CASE pc[r] \in {"stage", "writing", "commit"}
    <3>1. StepsLeft(r) = 2 * U + N + 2 \/ StepsLeft(r) = 2 * U + N + 3 \/ StepsLeft(r) = C + 1
      BY <1>3, <2>3
    <3>2. StepsLeft(r) \in 1 .. 3 * N + 8
      BY <1>1, <3>1
    <3>3. QED
      BY <2>3, <3>2 DEF Ended
  <2>4. QED
    BY <1>2, <2>1, <2>2, <2>3
<1>5. QED
  BY <1>4 DEF N

\* A run that is neither thrown out nor killed has fewer steps left after each.
\* Also after a step, from whichever state.
LEMMA StepsLeftIsInt ==
  ASSUME IsFiniteSet(Files), TypeOK', NEW r \in Runs
  PROVE  StepsLeft(r)' \in Int
<1>1. /\ Cardinality(Files) \in Nat
      /\ Cardinality(Unstaged(r)') \in Nat
      /\ Cardinality((Planned(r) \ committed[r])') \in Nat
  <2>1. /\ Unstaged(r)' \in SUBSET Files
        /\ (Planned(r) \ committed[r])' \in SUBSET Files
    BY DEF Unstaged, Planned
  <2>2. IsFiniteSet(Unstaged(r)') /\ IsFiniteSet((Planned(r) \ committed[r])')
    BY <2>1, FS_Subset, Zenon
  <2>3. QED
    BY <2>2, FS_CardinalityType, Zenon
<1>2. QED
  BY <1>1 DEF StepsLeft

LEMMA PlanTakesAStep ==
  ASSUME IsFiniteSet(Files), TypeOK, NEW r \in Runs, PlanStep(r)
  PROVE  StepsLeft(r)' < StepsLeft(r) /\ StepsLeft(r)' <= StepsLeft(r)
<1>1. Cardinality(Files) \in Nat
  BY Counts
<1>2. \/ pc[r] = "idle" /\ pc'[r] = "scanned"
      \/ pc[r] = "scanned" /\ pc'[r] \in {"usageError", "done", "ignore"}
  BY DEF PlanStep, Scan, Plan, Refuse, Goto, TypeOK
<1>3. QED
  BY <1>1, <1>2 DEF StepsLeft

LEMMA StagingTakesAStep ==
  ASSUME IsFiniteSet(Files), TypeOK, NEW r \in Runs, StageStep(r)
  PROVE  StepsLeft(r)' < StepsLeft(r) /\ StepsLeft(r)' <= StepsLeft(r)
<1> DEFINE N == Cardinality(Files)
           U == Cardinality(Unstaged(r))
<1>1. N \in Nat /\ U \in 0 .. N /\ IsFiniteSet(Unstaged(r))
  BY Counts
<1>2. \A q : Planned(q)' = Planned(q)
  BY DEF StageStep, IgnoreRead, IgnoreTruncate, IgnoreWrite, CreateStagingRun,
         StageRead, StageWrite, planVars, Planned
<1>3. CASE IgnoreRead(r) \/ IgnoreTruncate(r) \/ IgnoreWrite(r)
  <2>1. \/ pc[r] = "ignore" /\ pc'[r] \in {"mkdir", "ignoreAbsent"}
        \/ pc[r] = "ignoreAbsent" /\ pc'[r] = "ignoreWriting"
        \/ pc[r] = "ignoreWriting" /\ pc'[r] = "mkdir"
    BY <1>3 DEF IgnoreRead, IgnoreTruncate, IgnoreWrite, Goto, TypeOK
  <2>2. QED
    BY <1>1, <2>1 DEF StepsLeft
<1>4. CASE CreateStagingRun(r)
  <2>1. pc[r] = "mkdir" /\ pc'[r] = "stage" /\ staged' = staged
    BY <1>4 DEF CreateStagingRun, Goto, TypeOK
  <2>2. Unstaged(r)' = Unstaged(r)
    BY <1>2, <2>1 DEF Unstaged
  <2>3. QED
    BY <1>1, <2>1, <2>2 DEF StepsLeft
<1>5. ASSUME NEW f \in Files, StageRead(r, f)
      PROVE  StepsLeft(r)' < StepsLeft(r) /\ StepsLeft(r)' <= StepsLeft(r)
  <2>1. /\ pc[r] = "stage" /\ pc'[r] = "writing" /\ f \in Unstaged(r)
        /\ staged'[r][f].present
        /\ \A g \in Files \ {f} : staged'[r][g] = staged[r][g]
    BY <1>5 DEF StageRead, Goto, TypeOK, Unstaged
  <2>2. Unstaged(r)' = Unstaged(r) \ {f}
    BY <1>2, <2>1 DEF Unstaged, Planned
  <2>3. Cardinality(Unstaged(r)') = U - 1
    BY <1>1, <2>1, <2>2, FS_RemoveElement
  <2>4. QED
    BY <1>1, <2>1, <2>3 DEF StepsLeft
<1>6. ASSUME NEW f \in Files, StageWrite(r, f)
      PROVE  StepsLeft(r)' < StepsLeft(r) /\ StepsLeft(r)' <= StepsLeft(r)
  <2>1. PICK t \in Patched(staged[r][f].text, plan[r][f]) :
          staged' = [staged EXCEPT ![r][f].text = t]
    BY <1>6 DEF StageWrite
  <2>2. /\ pc[r] = "writing" /\ pc'[r] = "stage"
        /\ \A g \in Files : staged'[r][g].present = staged[r][g].present
    BY <1>6, <2>1 DEF StageWrite, Goto, TypeOK
  <2>3. Unstaged(r)' = Unstaged(r)
    BY <1>2, <2>2 DEF Unstaged, Planned
  <2>4. QED
    BY <1>1, <2>2, <2>3 DEF StepsLeft
<1>7. QED
  BY <1>3, <1>4, <1>5, <1>6 DEF StageStep

LEMMA CommitTakesAStep ==
  ASSUME IsFiniteSet(Files), TypeOK, NEW r \in Runs, CommitStep(r)
  PROVE  StepsLeft(r)' < StepsLeft(r) /\ StepsLeft(r)' <= StepsLeft(r)
<1> DEFINE N == Cardinality(Files)
           C == Cardinality(Planned(r) \ committed[r])
<1>1. /\ N \in Nat /\ Cardinality(Unstaged(r)) \in 0 .. N
      /\ C \in 0 .. N /\ IsFiniteSet(Planned(r) \ committed[r])
  BY Counts
<1>2. Planned(r)' = Planned(r)
  BY DEF CommitStep, CommitStaging, Rename, RemoveStaging, planVars, Planned
<1>3. CASE CommitStaging(r)
  <2>1. pc[r] = "stage" /\ pc'[r] = "commit" /\ committed' = committed
    BY <1>3 DEF CommitStaging, Goto, TypeOK
  <2>2. QED
    BY <1>1, <1>2, <2>1 DEF StepsLeft
<1>4. ASSUME NEW f \in Files, Rename(r, f)
      PROVE  StepsLeft(r)' < StepsLeft(r) /\ StepsLeft(r)' <= StepsLeft(r)
  <2>1. /\ pc[r] = "commit" /\ pc'[r] = "commit"
        /\ f \in Planned(r) \ committed[r]
        /\ committed'[r] = committed[r] \cup {f}
    BY <1>4 DEF Rename, TypeOK
  <2>2. Planned(r)' \ committed'[r] = (Planned(r) \ committed[r]) \ {f}
    BY <1>2, <2>1
  <2>3. Cardinality(Planned(r)' \ committed'[r]) = C - 1
    <3> DEFINE S == Planned(r) \ committed[r]
    <3>1. IsFiniteSet(S) /\ f \in S
      BY <1>1, <2>1
    <3> HIDE DEF S
    <3>2. Cardinality(S \ {f}) = Cardinality(S) - 1
      BY <3>1, FS_RemoveElement
    <3>3. QED
      BY <2>2, <3>2 DEF S
  <2>4. QED
    BY <1>1, <2>1, <2>3 DEF StepsLeft
<1>5. CASE RemoveStaging(r)
  <2>1. pc[r] = "commit" /\ pc'[r] = "done"
    BY <1>5 DEF RemoveStaging, Goto, TypeOK
  <2>2. QED
    BY <1>1, <2>1 DEF StepsLeft
<1>6. QED
  BY <1>3, <1>4, <1>5 DEF CommitStep

\* Nobody has steps left because of what another run, or the user, does.
LEMMA OthersTakeNone ==
  ASSUME NEW q \in Runs, Still(q)
  PROVE  StepsLeft(q)' = StepsLeft(q)
BY DEF Still, StepsLeft, Unstaged, Planned

LEMMA StepsAreUsedUp ==
  ASSUME IsFiniteSet(Files), IInv, [Next]_vars
  PROVE  StepsNeverGrow
<1> SUFFICES ASSUME NEW r \in Runs
             PROVE  /\ StepsLeft(r)' <= StepsLeft(r)
                    /\ RunStep(r) \/ Throw(r) \/ Kill(r) => StepsLeft(r)' < StepsLeft(r)
  BY DEF StepsNeverGrow
<1>1. /\ TypeOK /\ TypeOK' /\ StepsLeft(r) \in Nat
      /\ StepsLeft(r) = 0 <=> pc[r] \in Ended
  BY NextType, StepsLeftIsNat, Counts DEF IInv
<1>2. CASE RunStep(r)
  BY <1>1, <1>2, PlanTakesAStep, StagingTakesAStep, CommitTakesAStep DEF RunStep
<1>3. CASE Throw(r) \/ Kill(r)
  <2>1. pc[r] \notin Ended /\ pc'[r] \in {"engineError", "killed"}
    BY <1>1, <1>3 DEF Throw, Kill, Active, Goto, TypeOK
  <2>2. StepsLeft(r)' = 0
    BY <2>1 DEF StepsLeft
  <2>3. QED
    BY <1>1, <2>1, <2>2
<1>4. CASE ~(RunStep(r) \/ Throw(r) \/ Kill(r))
  <2>1. Still(r)
    <3>1. ASSUME NEW p \in Runs \ {r}, RunStep(p) \/ Throw(p) \/ Kill(p)
          PROVE  Still(r)
      BY <3>1, PlanInv, StageInv, CommitInv, StopInv DEF RunStep
    <3>2. CASE UserIgnores \/ \E f \in Files : UserSave(f)
      BY <3>2, UserInv
    <3>3. CASE UNCHANGED vars
      BY <3>3 DEF Still, vars
    <3>4. QED
      BY <1>4, <3>1, <3>2, <3>3 DEF Next
  <2>2. QED
    BY <1>1, <1>4, <2>1, OthersTakeNone
<1>5. QED
  BY <1>2, <1>3, <1>4

\* While a run writes a copy, that copy is open.
OneIsOpen ==
  \A r \in Runs : pc[r] = "writing" =>
    \E f \in Planned(r) : staged[r][f].present /\ ~staged[r][f].text.whole

LEMMA StaysOpen == IInv /\ OneIsOpen /\ [Next]_vars => OneIsOpen'
<1> SUFFICES ASSUME IInv, OneIsOpen, [Next]_vars, NEW r \in Runs, pc'[r] = "writing"
             PROVE  (\E f \in Planned(r) : staged[r][f].present /\ ~staged[r][f].text.whole)'
  BY DEF OneIsOpen
<1>1. TypeOK
  BY DEF IInv
<1>2. ASSUME NEW f \in Files, StageRead(r, f)
      PROVE  /\ f \in Planned(r)'
             /\ staged'[r][f].present /\ ~staged'[r][f].text.whole
  BY <1>1, <1>2 DEF StageRead, TypeOK, Text, planVars, Planned
<1>3. CASE RunStep(r) \/ Throw(r) \/ Kill(r)
  <2>1. \E f \in Files : StageRead(r, f)
    BY <1>1, <1>3 DEF RunStep, PlanStep, Scan, Plan, Refuse, StageStep,
       IgnoreRead, IgnoreTruncate, IgnoreWrite, CreateStagingRun, StageWrite,
       CommitStep, CommitStaging, Rename, RemoveStaging, Throw, Kill, Goto, TypeOK
  <2>2. QED
    BY <1>2, <2>1
<1>4. CASE Still(r)
  BY <1>4 DEF Still, OneIsOpen, Planned
<1>5. ASSUME NEW p \in Runs \ {r}, RunStep(p) \/ Throw(p) \/ Kill(p)
      PROVE  Still(r)
  BY <1>5, PlanInv, StageInv, CommitInv, StopInv DEF RunStep
<1>6. CASE UserIgnores \/ \E f \in Files : UserSave(f)
  BY <1>4, <1>6, UserInv
<1>7. CASE UNCHANGED vars
  BY <1>4, <1>7 DEF Still, vars
<1>8. QED
  BY <1>3, <1>4, <1>5, <1>6, <1>7 DEF Next

\* With N files, a run takes at most 3 * N + 8 steps, whatever other runs and
\* the user do, and until it ends it has what its next step needs.
THEOREM RunsRunDown ==
  IsFiniteSet(Files) => (Spec => []NoDeadEnd /\ [][StepsNeverGrow]_vars)
<1> SUFFICES ASSUME IsFiniteSet(Files)
             PROVE  Spec => []NoDeadEnd /\ [][StepsNeverGrow]_vars
  OBVIOUS
<1>1. IInv /\ [Next]_vars => [StepsNeverGrow]_vars
  BY StepsAreUsedUp
<1>2. IInv /\ OneIsOpen => NoDeadEnd
  <2> SUFFICES ASSUME IInv, OneIsOpen, NEW r \in Runs
               PROVE  /\ StepsLeft(r) \in Nat /\ (StepsLeft(r) = 0 <=> pc[r] \in Ended)
                      /\ pc[r] = "writing" =>
                           \E f \in Planned(r) : staged[r][f].present /\ ~staged[r][f].text.whole
                      /\ pc[r] = "commit" =>
                           /\ committed[r] \subseteq Planned(r)
                           /\ \A f \in Planned(r) \ committed[r] : staged[r][f].present
    BY DEF NoDeadEnd
  <2>1. StepsLeft(r) \in Nat /\ (StepsLeft(r) = 0 <=> pc[r] \in Ended)
    BY StepsLeftIsNat, Counts DEF IInv
  <2>2. QED
    BY <2>1 DEF IInv, RunInv, CommitInProgress, OneIsOpen
<1>3. Init => OneIsOpen
  BY DEF Init, OneIsOpen
<1>4. QED
  BY <1>1, <1>2, <1>3, InitInv, NextInv, StaysOpen, PTL DEF Spec

----------------------------------------------------------------------------
(* FixCommit implements FixPromise.                                        *)

Phases == [r \in Runs |-> AbstractPhase(r)]
Todos == [r \in Runs |-> AbstractTodo(r)]

\* A complete text is one of the texts FixPromise knows.
LEMMA WholeText ==
  ASSUME NEW t \in Text, t.whole
  PROVE  t \in [ver : Nat, finding : Class, sound : BOOLEAN, whole : {TRUE}]
<1>1. t = [ver |-> t.ver, finding |-> t.finding, sound |-> t.sound,
           whole |-> t.whole]
  BY DEF Text
<1>2. t.whole \in {TRUE}
  BY TextFields, Zenon
<1>3. QED
  BY <1>1, <1>2, TextFields

\* The tree holds such texts only.
LEMMA TreeIsPromised ==
  ASSUME NEW d \in [Files -> Text], \A f \in Files : d[f].whole
  PROVE  d \in [Files -> [ver : Nat, finding : Class, sound : BOOLEAN,
                          whole : {TRUE}]]
BY WholeText

\* How far a run is, seen from outside, depends on its own state only.
LEMMA StillAbstract ==
  ASSUME NEW q \in Runs, Still(q)
  PROVE  AbstractPhase(q)' = AbstractPhase(q) /\ AbstractTodo(q)' = AbstractTodo(q)
BY DEF Still, AbstractPhase, AbstractTodo, Planned, Ended

\* Initially every run is open and has nothing to replace.
LEMMA PromiseInit == Init => Promise!Init
<1> SUFFICES ASSUME Init
             PROVE  Promise!Init
  OBVIOUS
<1>1. disk \in [Files -> [ver : Nat, finding : Class, sound : BOOLEAN,
                          whole : {TRUE}]]
  BY InitInv, TreeIsPromised DEF IInv, TypeOK, NothingTorn
<1>2. \A r \in Runs : pc[r] = "idle" /\ stoppedAt[r] = "idle"
  BY DEF Init
<1>3. \A r \in Runs : AbstractPhase(r) = "open" /\ AbstractTodo(r) = {}
  BY <1>2 DEF AbstractPhase, AbstractTodo, Ended
<1>4. QED
  BY <1>1, <1>3 DEF Promise!Init

\* Scanning, planning and staging are invisible; a run that ends there stops.
LEMMA PrepareIsPromised ==
  ASSUME IInv, NEW r \in Runs, PlanStep(r) \/ StageStep(r)
  PROVE  [Promise!Next]_(Promise!promiseVars)
<1> USE DEF Goto, treeVars, userVars, planVars, stageVars
<1>1. TypeOK /\ RunInv(r)
  BY DEF IInv
<1>2. \A q \in Runs \ {r} : Still(q)
  BY PlanInv, StageInv
<1>3. /\ pc[r] \in Planning \cup Preparing \cup Staging
      /\ pc'[r] \in Planning \cup Preparing \cup Staging
                   \cup {"done", "usageError"}
      /\ UNCHANGED <<disk, committed, stoppedAt>>
  <2>1. CASE StageStep(r)
    BY <1>1, <2>1 DEF StageStep, IgnoreRead, IgnoreTruncate, IgnoreWrite,
       CreateStagingRun, StageRead, StageWrite, TypeOK, Planning, Preparing,
       Staging
  <2>2. CASE PlanStep(r)
    BY <1>1, <2>2 DEF PlanStep, Scan, Plan, Refuse, TypeOK, Planning,
       Preparing, Staging
  <2>3. QED
    BY <2>1, <2>2
<1>4. committed[r] = {} /\ stoppedAt[r] = "idle"
  BY <1>1, <1>3 DEF RunInv, NotYetStaged, StagingInProgress, EndedRun,
     Planning, Preparing, Staging
<1>5. AbstractPhase(r) = "open" /\ AbstractTodo(r) = {}
  BY <1>3, <1>4 DEF AbstractPhase, AbstractTodo, Ended, Planning, Preparing,
     Staging
<1>6. AbstractPhase(r)' \in {"open", "stopped"} /\ AbstractTodo(r)' = {}
  BY <1>3, <1>4 DEF AbstractPhase, AbstractTodo, Ended, Planning, Preparing,
     Staging
<1>7. Todos' = Todos
  BY <1>2, <1>5, <1>6, StillAbstract DEF Todos
<1>8. CASE AbstractPhase(r)' = "open"
  <2>1. Phases' = Phases
    BY <1>2, <1>5, <1>8, StillAbstract DEF Phases
  <2>2. QED
    BY <1>3, <1>7, <2>1 DEF Promise!promiseVars, Phases, Todos
<1>9. CASE AbstractPhase(r)' = "stopped"
  <2>1. Phases' = [Phases EXCEPT ![r] = "stopped"]
    BY <1>2, <1>9, StillAbstract DEF Phases
  <2>2. Promise!Stop(r)
    BY <1>3, <1>5, <1>7, <2>1 DEF Promise!Stop, Phases, Todos
  <2>3. QED
    BY <2>2 DEF Promise!Next
<1>10. QED
  BY <1>6, <1>8, <1>9

\* commitStaging applies, each rename replaces one file, its end finishes.
LEMMA CommitIsPromised ==
  ASSUME IInv, IInv', NEW r \in Runs, CommitStep(r)
  PROVE  [Promise!Next]_(Promise!promiseVars)
<1> USE DEF Goto, treeVars, userVars, planVars, stageVars
<1>1. TypeOK /\ RunInv(r)
  BY DEF IInv
<1>2. \A q \in Runs \ {r} : Still(q)
  BY CommitInv
<1>3. UNCHANGED <<planVars, stoppedAt>>
  BY DEF CommitStep, CommitStaging, Rename, RemoveStaging
<1>4. CASE CommitStaging(r)
  <2>1. /\ pc[r] = "stage" /\ pc'[r] = "commit"
        /\ UNCHANGED <<disk, committed>>
    BY <1>1, <1>4 DEF CommitStaging, TypeOK
  <2>2. stoppedAt[r] = "idle"
    BY <1>1, <2>1 DEF RunInv, EndedRun
  <2>3. AbstractPhase(r) = "open" /\ AbstractPhase(r)' = "applying"
    BY <2>1 DEF AbstractPhase, Ended
  <2>4. AbstractTodo(r)' \in SUBSET Files
    BY <2>1 DEF AbstractTodo, Planned
  <2>5. /\ Phases' = [Phases EXCEPT ![r] = "applying"]
        /\ Todos' = [Todos EXCEPT ![r] = AbstractTodo(r)']
    BY <1>2, <2>3, StillAbstract DEF Phases, Todos
  <2>6. Promise!Apply(r)
    BY <2>1, <2>3, <2>4, <2>5 DEF Promise!Apply, Phases, Todos
  <2>7. QED
    BY <2>6 DEF Promise!Next
<1>5. ASSUME NEW f \in Files, Rename(r, f)
      PROVE  [Promise!Next]_(Promise!promiseVars)
  <2>1. /\ pc[r] = "commit" /\ pc'[r] = "commit"
        /\ f \in Planned(r) \ committed[r]
        /\ committed'[r] = committed[r] \cup {f}
        /\ \A g \in Files \ {f} : disk'[g] = disk[g]
    BY <1>1, <1>5 DEF Rename, TypeOK
  <2>2. AbstractPhase(r) = "applying" /\ AbstractPhase(r)' = "applying"
    BY <2>1 DEF AbstractPhase, Ended
  <2>3. /\ AbstractTodo(r) = Planned(r) \ committed[r]
        /\ AbstractTodo(r)' = AbstractTodo(r) \ {f}
    BY <1>3, <2>1 DEF AbstractTodo, Planned
  <2>4. /\ Phases' = Phases
        /\ Todos' = [Todos EXCEPT ![r] = Todos[r] \ {f}]
    BY <1>2, <2>2, <2>3, StillAbstract DEF Phases, Todos
  <2>5. disk' \in [Files -> [ver : Nat, finding : Class, sound : BOOLEAN,
                             whole : {TRUE}]]
    BY TreeIsPromised DEF IInv, TypeOK, NothingTorn
  <2>6. Promise!Overwrite(f)
    BY <2>1, <2>5 DEF Promise!Overwrite
  <2>7. Promise!Replace(r, f)
    BY <2>1, <2>2, <2>3, <2>4, <2>6 DEF Promise!Replace, Phases, Todos
  <2>8. QED
    BY <2>7 DEF Promise!Next
<1>6. CASE RemoveStaging(r)
  <2>1. /\ pc[r] = "commit" /\ pc'[r] = "done"
        /\ committed[r] = Planned(r) /\ stoppedAt[r] = "idle"
        /\ UNCHANGED <<disk, committed>>
    BY <1>1, <1>6 DEF RemoveStaging, RunInv, EndedRun, TypeOK
  <2>2. AbstractPhase(r) = "applying"
        /\ AbstractPhase(r)' \in {"applied", "stopped"}
    BY <2>1 DEF AbstractPhase, Ended
  <2>3. AbstractTodo(r) = {} /\ AbstractTodo(r)' = {}
    BY <1>3, <2>1 DEF AbstractTodo, Planned
  <2>4. /\ Phases' = [Phases EXCEPT ![r] = AbstractPhase(r)']
        /\ Todos' = Todos
    BY <1>2, <2>3, StillAbstract DEF Phases, Todos
  <2>5. Promise!Finish(r) \/ Promise!Stop(r)
    BY <2>1, <2>2, <2>3, <2>4 DEF Promise!Finish, Promise!Stop, Phases, Todos
  <2>6. QED
    BY <2>5 DEF Promise!Next
<1>7. QED
  BY <1>4, <1>5, <1>6 DEF CommitStep

\* A run that throws or dies stops, wherever it is.
LEMMA StopIsPromised ==
  ASSUME IInv, NEW r \in Runs, Throw(r) \/ Kill(r)
  PROVE  [Promise!Next]_(Promise!promiseVars)
<1> USE DEF Goto, treeVars, userVars, planVars, stageVars
<1>1. TypeOK /\ RunInv(r)
  BY DEF IInv
<1>2. \A q \in Runs \ {r} : Still(q)
  BY StopInv
<1>3. /\ pc[r] \notin Ended /\ pc'[r] \in {"engineError", "killed"}
      /\ stoppedAt'[r] = pc[r] /\ stoppedAt[r] = "idle"
      /\ UNCHANGED <<disk, planVars, committed>>
  BY <1>1 DEF Throw, Kill, Active, RunInv, EndedRun, Ended, TypeOK
<1>4. AbstractPhase(r) \in {"open", "applying"}
      /\ AbstractPhase(r)' = "stopped"
  BY <1>3 DEF AbstractPhase, Ended
<1>5. AbstractTodo(r)' = AbstractTodo(r)
  BY <1>3 DEF AbstractTodo, Planned
<1>6. /\ Phases' = [Phases EXCEPT ![r] = "stopped"]
      /\ Todos' = Todos
  BY <1>2, <1>4, <1>5, StillAbstract DEF Phases, Todos
<1>7. Promise!Stop(r)
  BY <1>3, <1>4, <1>6 DEF Promise!Stop, Phases, Todos
<1>8. QED
  BY <1>7 DEF Promise!Next

\* A save of the user is a save; his .gitignore is invisible.
LEMMA UserIsPromised ==
  ASSUME IInv, IInv', UserIgnores \/ \E f \in Files : UserSave(f)
  PROVE  [Promise!Next]_(Promise!promiseVars)
<1>1. Phases' = Phases /\ Todos' = Todos
  BY UserInv, StillAbstract DEF Phases, Todos
<1>2. CASE UserIgnores
  BY <1>1, <1>2 DEF UserIgnores, Promise!promiseVars, Phases, Todos
<1>3. ASSUME NEW f \in Files, UserSave(f)
      PROVE  [Promise!Next]_(Promise!promiseVars)
  <2>1. \A g \in Files \ {f} : disk'[g] = disk[g]
    BY <1>3 DEF UserSave, IInv, TypeOK
  <2>2. disk' \in [Files -> [ver : Nat, finding : Class, sound : BOOLEAN,
                             whole : {TRUE}]]
    BY TreeIsPromised DEF IInv, TypeOK, NothingTorn
  <2>3. Promise!Save(f)
    BY <1>1, <2>1, <2>2 DEF Promise!Save, Promise!Overwrite, Phases, Todos
  <2>4. QED
    BY <2>3 DEF Promise!Next
<1>4. QED
  BY <1>2, <1>3

\* Every behaviour of planFixes and writeFixes, with any number of runs, any
\* saves and any stops in between, is one FixPromise allows.
THEOREM Implements == Spec => KeepsPromise
<1>1. IInv /\ IInv' /\ [Next]_vars => [Promise!Next]_(Promise!promiseVars)
  <2> SUFFICES ASSUME IInv, IInv', [Next]_vars
               PROVE  [Promise!Next]_(Promise!promiseVars)
    OBVIOUS
  <2>1. CASE UNCHANGED vars
    BY <2>1, StillAbstract
       DEF vars, Promise!promiseVars, AbstractPhase, AbstractTodo, Planned
  <2>2. CASE Next
    BY <2>2, PrepareIsPromised, CommitIsPromised, StopIsPromised,
       UserIsPromised DEF Next, RunStep
  <2>3. QED
    BY <2>1, <2>2
<1>2. QED
  BY <1>1, PromiseInit, Invariance, PTL DEF Spec, KeepsPromise, Promise!Spec

----------------------------------------------------------------------------
(* .gitignore: until a run is overtaken, one that is about to write knows  *)
(* what the file holds.  Most steps neither write the file nor get past it *)
(* (GitStill); the three that rewrite it and the user's own line are left. *)

LEMMA GitStill ==
  ASSUME GitInv, UNCHANGED <<gitignore, userLines>>, ~overtaken' => ~overtaken,
         \A q \in Runs :
           /\ Inside(q)' <=> Inside(q)
           /\ Past(q)' => Past(q)
           /\ pc'[q] \in Rewriting => pc'[q] = pc[q] /\ ignoreRead'[q] = ignoreRead[q]
  PROVE  GitInv'
<1> SUFFICES ASSUME ~overtaken' PROVE GitInv'
  BY DEF GitInv
<1>1. LinesInv /\ \A r \in Runs : ReadInv(r) /\ WritingInv(r) /\ EntryInv(r)
  BY DEF GitInv
<1>2. LinesInv'
  BY <1>1 DEF LinesInv
<1>3. ASSUME NEW r \in Runs PROVE ReadInv(r)' /\ WritingInv(r)' /\ EntryInv(r)'
  BY <1>1 DEF ReadInv, WritingInv, EntryInv, Rewriting
<1> QED
  BY <1>2, <1>3 DEF GitInv

\* A step of one run that is not about .gitignore.
LEMMA GitElsewhere ==
  ASSUME TypeOK, GitInv, UNCHANGED <<gitignore, userLines, ignoreRead>>,
         ~overtaken' => ~overtaken,
         NEW r \in Runs,
         NEW l, pc' = [pc EXCEPT ![r] = l], l \notin Rewriting,
         Inside(r)' <=> Inside(r), Past(r)' => Past(r),
         \A q \in Runs : q # r => stoppedAt'[q] = stoppedAt[q] /\ staged'[q] = staged[q]
  PROVE  GitInv'
<1>1. pc'[r] = l /\ \A q \in Runs : q # r => pc'[q] = pc[q]
  BY DEF TypeOK
<1>2. ASSUME NEW q \in Runs, q # r
      PROVE  (Inside(q)' <=> Inside(q)) /\ (Past(q)' => Past(q))
  BY <1>1, <1>2 DEF Inside, Past
<1>3. ASSUME NEW q \in Runs, pc'[q] \in Rewriting
      PROVE  pc'[q] = pc[q] /\ ignoreRead'[q] = ignoreRead[q]
  BY <1>1, <1>3
<1> QED
  BY <1>2, <1>3, GitStill, Zenon

LEMMA GitByPlan ==
  ASSUME IInv, GitInv, ~overtaken' => ~overtaken, NEW r \in Runs, PlanStep(r)
  PROVE  GitInv'
<1>1. TypeOK /\ RunInv(r)
  BY DEF IInv
<1>2. ~Past(r) /\ pc[r] \in {"idle", "scanned"}
  BY <1>1 DEF Past, RunInv, NotYetStaged, Planning, PlanStep, Scan, Plan, Refuse
<1>3. PICK l \in {"scanned", "usageError", "done", "ignore"} :
        pc' = [pc EXCEPT ![r] = l]
  BY DEF PlanStep, Scan, Plan, Refuse, Goto
<1>4. UNCHANGED <<gitignore, userLines, ignoreRead, stoppedAt, staged>>
  BY DEF PlanStep, Scan, Plan, Refuse, treeVars, userVars, stageVars
<1>5. pc'[r] = l
  BY <1>1, <1>3 DEF TypeOK
<1>6. Inside(r)' <=> Inside(r)
  BY <1>2, <1>4, <1>5 DEF Inside
<1>7. ~Past(r)'
  BY <1>2, <1>4, <1>5 DEF Past
<1> QED
  BY <1>1, <1>3, <1>4, <1>6, <1>7, GitElsewhere DEF Rewriting

LEMMA GitByStaging ==
  ASSUME IInv, GitInv, ~overtaken' => ~overtaken, NEW r \in Runs,
         \/ CreateStagingRun(r) \/ CommitStep(r)
         \/ \E f \in Files : StageRead(r, f) \/ StageWrite(r, f)
  PROVE  GitInv'
<1>1. TypeOK /\ Past(r) /\ pc[r] \in {"mkdir", "stage", "writing", "commit"}
  BY DEF IInv, Past, CreateStagingRun, CommitStep, CommitStaging, Rename,
         RemoveStaging, StageRead, StageWrite
<1>2. UNCHANGED <<gitignore, userLines, ignoreRead, stoppedAt>>
  BY DEF CreateStagingRun, CommitStep, CommitStaging, Rename,
         RemoveStaging, StageRead, StageWrite, treeVars, userVars
<1>3. \E l \in {"stage", "writing", "commit", "done"} : pc' = [pc EXCEPT ![r] = l]
  <2>1. CASE \E f \in Files : Rename(r, f)
    <3>1. pc[r] = "commit" /\ pc' = pc
      BY <2>1 DEF Rename
    <3>2. pc' = [pc EXCEPT ![r] = "commit"]
      BY <1>1, <3>1 DEF TypeOK
    <3> QED
      BY <3>2
  <2>2. CASE ~\E f \in Files : Rename(r, f)
    BY <2>2 DEF CreateStagingRun, CommitStep, CommitStaging,
                RemoveStaging, StageRead, StageWrite, Goto
  <2> QED
    BY <2>1, <2>2
<1>4. \A q \in Runs : q # r => staged'[q] = staged[q]
  BY <1>1 DEF TypeOK, CreateStagingRun, CommitStep, CommitStaging, Rename,
              RemoveStaging, StageRead, StageWrite, stageVars
<1>5. PICK l \in {"stage", "writing", "commit", "done"} : pc' = [pc EXCEPT ![r] = l]
  BY <1>3
<1>6. pc'[r] = l
  BY <1>1, <1>5 DEF TypeOK
<1>7. Inside(r)' <=> Inside(r)
  BY <1>1, <1>2, <1>6 DEF Inside
<1> QED
  BY <1>1, <1>2, <1>4, <1>5, <1>7, GitElsewhere DEF Rewriting

LEMMA GitByStop ==
  ASSUME IInv, GitInv, ~overtaken' => ~overtaken, NEW r \in Runs, Throw(r) \/ Kill(r)
  PROVE  GitInv'
<1>1. TypeOK /\ RunInv(r) /\ Active(r)
  BY DEF IInv, Throw, Kill
<1>2. UNCHANGED <<gitignore, userLines, ignoreRead, staged>>
  BY DEF Throw, Kill, treeVars, userVars, stageVars
<1>3. PICK l \in {"engineError", "killed"} : pc' = [pc EXCEPT ![r] = l]
  BY DEF Throw, Kill, Goto
<1>4. stoppedAt' = [stoppedAt EXCEPT ![r] = pc[r]]
  BY DEF Throw, Kill
<1>5. /\ pc'[r] = l /\ stoppedAt'[r] = pc[r] /\ stoppedAt[r] = "idle"
      /\ \A q \in Runs : q # r => stoppedAt'[q] = stoppedAt[q]
  BY <1>1, <1>3, <1>4 DEF TypeOK, RunInv, EndedRun, Active, Ended
<1>6. Inside(r)' <=> Inside(r)
  BY <1>5 DEF Inside
<1>7. Past(r)' => Past(r)
  BY <1>2, <1>5 DEF Past
<1> QED
  BY <1>1, <1>2, <1>3, <1>5, <1>6, <1>7, GitElsewhere DEF Rewriting

\* What it takes for nobody to be overtaken by a step.
Unnoticed ==
  /\ ~overtaken
  /\ \A q \in Runs : pc[q] \in Rewriting /\ pc'[q] = pc[q] => gitignore' = gitignore

LEMMA GitByRead ==
  ASSUME IInv, GitInv, Unnoticed, NEW r \in Runs, IgnoreRead(r)
  PROVE  GitInv'
<1>1. TypeOK /\ RunInv(r) /\ pc[r] = "ignore"
  BY DEF IInv, IgnoreRead
<1>2. /\ UNCHANGED <<gitignore, userLines, staged, stoppedAt>>
      /\ ignoreRead' = [ignoreRead EXCEPT ![r] = gitignore.lines]
  BY DEF IgnoreRead, treeVars, userVars, stageVars
<1>3. pc' = [pc EXCEPT ![r] = IF gitignore.entry THEN "mkdir" ELSE "ignoreAbsent"]
  BY DEF IgnoreRead, Goto
<1>4. /\ gitignore.entry => pc'[r] = "mkdir"
      /\ ~gitignore.entry => pc'[r] = "ignoreAbsent"
      /\ ignoreRead'[r] = gitignore.lines
      /\ \A q \in Runs : q # r => pc'[q] = pc[q] /\ ignoreRead'[q] = ignoreRead[q]
  BY <1>1, <1>2, <1>3 DEF TypeOK
<1>5. ~Past(r)
  BY <1>1 DEF Past, RunInv, NotYetStaged, Preparing
<1>6. LinesInv /\ \A q \in Runs : ReadInv(q) /\ WritingInv(q) /\ EntryInv(q)
  BY DEF GitInv, Unnoticed
<1>7. \A q \in Runs : Inside(q)' <=> Inside(q)
  BY <1>1, <1>2, <1>4 DEF Inside
<1>8. LinesInv'
  BY <1>2, <1>6, <1>7 DEF LinesInv
<1>9. ASSUME NEW q \in Runs PROVE ReadInv(q)' /\ WritingInv(q)' /\ EntryInv(q)'
  <2>1. CASE q = r
    <3>1. Past(r)' => gitignore.entry
      BY <1>2, <1>4, <1>5 DEF Past
    <3> QED
      BY <1>2, <1>4, <2>1, <3>1 DEF ReadInv, WritingInv, EntryInv
  <2>2. CASE q # r
    BY <1>2, <1>4, <1>6, <1>7, <2>2 DEF ReadInv, WritingInv, EntryInv, Past
  <2> QED
    BY <2>1, <2>2
<1> QED
  BY <1>8, <1>9 DEF GitInv

LEMMA GitByTruncate ==
  ASSUME IInv, GitInv, Unnoticed, NEW r \in Runs, IgnoreTruncate(r)
  PROVE  GitInv'
<1>1. TypeOK /\ RunInv(r) /\ pc[r] = "ignoreAbsent"
  BY DEF IInv, IgnoreTruncate
<1>2. /\ UNCHANGED <<userLines, ignoreRead, staged, stoppedAt>>
      /\ gitignore'.lines = 0 /\ gitignore'.entry = FALSE
  BY DEF IgnoreTruncate, userVars, stageVars
<1>3. pc'[r] = "ignoreWriting" /\ \A q \in Runs : q # r => pc'[q] = pc[q]
  BY <1>1 DEF IgnoreTruncate, Goto, TypeOK
<1>4. LinesInv /\ \A q \in Runs : ReadInv(q) /\ WritingInv(q) /\ EntryInv(q)
  BY DEF GitInv, Unnoticed
<1>5. ignoreRead[r] = gitignore.lines /\ ~gitignore.entry
  BY <1>1, <1>4 DEF ReadInv
<1>6. stoppedAt[r] = "idle" /\ ~Inside(r) /\ Inside(r)'
  BY <1>1, <1>3 DEF RunInv, EndedRun, Inside
<1>7. \A q \in Runs : q # r => (Inside(q)' <=> Inside(q)) /\ (Past(q)' <=> Past(q))
  BY <1>2, <1>3 DEF Inside, Past
<1>8. LinesInv'
  BY <1>6 DEF LinesInv
<1>9. \A q \in Runs : ~Past(q)
  BY <1>4, <1>5 DEF EntryInv
<1>10. ~Past(r)'
  BY <1>2, <1>3, <1>9 DEF Past
<1>11. ASSUME NEW q \in Runs PROVE ReadInv(q)' /\ WritingInv(q)' /\ EntryInv(q)'
  <2>1. CASE q = r
    <3>1. (\A p \in Runs : p # r => ~Inside(p)') => ignoreRead[r] = userLines
      BY <1>4, <1>5, <1>6, <1>7 DEF LinesInv
    <3> QED
      BY <1>2, <1>3, <1>10, <2>1, <3>1 DEF ReadInv, WritingInv, EntryInv
  <2>2. CASE q # r
    <3>1. pc[q] \in Rewriting => gitignore' = gitignore
      BY <1>3, <2>2 DEF Unnoticed
    <3>2. ReadInv(q)'
      BY <1>2, <1>3, <1>4, <2>2, <3>1 DEF ReadInv, Rewriting
    <3>3. WritingInv(q)'
      BY <1>2, <1>6, <2>2 DEF WritingInv
    <3>4. EntryInv(q)'
      BY <1>7, <1>9, <2>2 DEF EntryInv
    <3> QED
      BY <3>2, <3>3, <3>4
  <2> QED
    BY <2>1, <2>2
<1> QED
  BY <1>8, <1>11 DEF GitInv

LEMMA GitByWrite ==
  ASSUME IInv, GitInv, Unnoticed, NEW r \in Runs, IgnoreWrite(r)
  PROVE  GitInv'
<1>1. TypeOK /\ RunInv(r) /\ pc[r] = "ignoreWriting"
  BY DEF IInv, IgnoreWrite
<1>2. /\ UNCHANGED <<userLines, ignoreRead, staged, stoppedAt>>
      /\ gitignore'.lines = ignoreRead[r] /\ gitignore'.entry = TRUE
  BY DEF IgnoreWrite, userVars, stageVars
<1>3. pc'[r] = "mkdir" /\ \A q \in Runs : q # r => pc'[q] = pc[q]
  BY <1>1 DEF IgnoreWrite, Goto, TypeOK
<1>4. LinesInv /\ \A q \in Runs : ReadInv(q) /\ WritingInv(q) /\ EntryInv(q)
  BY DEF GitInv, Unnoticed
<1>5. ~gitignore.entry
  BY <1>1, <1>4 DEF WritingInv
<1>6. gitignore' # gitignore
  BY <1>2, <1>5, Zenon
<1>7. \A q \in Runs : pc'[q] \notin Rewriting
  BY <1>3, <1>6 DEF Unnoticed, Rewriting
<1>8. \A q \in Runs : q # r => (Inside(q)' <=> Inside(q))
  BY <1>2, <1>3 DEF Inside
<1>9. LinesInv'
  BY <1>1, <1>2, <1>4, <1>8 DEF LinesInv, WritingInv
<1>10. \A q \in Runs : ReadInv(q)' /\ WritingInv(q)' /\ EntryInv(q)'
  BY <1>2, <1>7, Zenon DEF ReadInv, WritingInv, EntryInv, Rewriting
<1> QED
  BY <1>9, <1>10 DEF GitInv

LEMMA GitByUser ==
  ASSUME IInv, GitInv, Unnoticed, UserIgnores
  PROVE  GitInv'
<1>1. TypeOK
  BY DEF IInv
<1>2. /\ UNCHANGED <<pc, ignoreRead, staged, stoppedAt>>
      /\ gitignore' = [gitignore EXCEPT !.lines = @ + 1]
      /\ userLines' = userLines + 1
  BY DEF UserIgnores, stageVars
<1>3. /\ gitignore'.lines = gitignore.lines + 1 /\ gitignore.lines \in Nat
      /\ gitignore'.entry = gitignore.entry
  BY <1>1, <1>2 DEF TypeOK
<1>4. \A q \in Runs : pc[q] \notin Rewriting
  <2>1. gitignore' # gitignore
    BY <1>3
  <2> QED
    BY <1>2, <2>1 DEF Unnoticed
<1>5. LinesInv /\ \A q \in Runs : EntryInv(q)
  BY DEF GitInv, Unnoticed
<1>6. LinesInv'
  BY <1>2, <1>3, <1>5 DEF LinesInv, Inside
<1>7. \A q \in Runs : ReadInv(q)' /\ WritingInv(q)' /\ EntryInv(q)'
  BY <1>2, <1>3, <1>4, <1>5 DEF ReadInv, WritingInv, EntryInv, Past, Rewriting
<1> QED
  BY <1>6, <1>7 DEF GitInv

\* The history variable only watches: the theorems about Spec hold here too.
LEMMA Watched == WatchedSpec => Spec
<1>1. WatchedInit => Init
  BY DEF WatchedInit
<1>2. [WatchedNext]_watchedVars => [Next]_vars
  BY DEF WatchedNext, watchedVars
<1> QED
  BY <1>1, <1>2, PTL DEF WatchedSpec, Spec

\* Until a run is overtaken, what it is about to write is right.
THEOREM GitInvariance == WatchedSpec => []GitInv
<1>1. WatchedInit => GitInv
  BY DEF WatchedInit, Init, GitInv, LinesInv, ReadInv, WritingInv, EntryInv, Past
<1>2. ASSUME IInv, GitInv, [WatchedNext]_watchedVars PROVE GitInv'
  <2>1. CASE UNCHANGED watchedVars
    BY <1>2, <2>1 DEF watchedVars, vars, GitInv, LinesInv, ReadInv, WritingInv,
                      EntryInv, Past, Inside
  <2>2. ASSUME WatchedNext, ~overtaken' PROVE GitInv'
    <3>1. Unnoticed /\ (~overtaken' => ~overtaken)
      BY <2>2 DEF WatchedNext, Unnoticed
    <3>2. ASSUME NEW f \in Files, UserSave(f) PROVE GitInv'
      <4>1. UNCHANGED <<gitignore, userLines, pc, ignoreRead, staged, stoppedAt>>
        BY <3>2 DEF UserSave, stageVars
      <4>2. \A q \in Runs : (Inside(q)' <=> Inside(q)) /\ (Past(q)' => Past(q))
        BY <4>1 DEF Inside, Past
      <4> QED
        BY <1>2, <3>1, <4>1, <4>2, GitStill
    <3>3. ASSUME UserIgnores PROVE GitInv'
      BY <1>2, <3>1, <3>3, GitByUser
    <3>4. ASSUME NEW r \in Runs, PlanStep(r) PROVE GitInv'
      BY <1>2, <3>1, <3>4, GitByPlan
    <3>5. ASSUME NEW r \in Runs, StageStep(r) PROVE GitInv'
      BY <1>2, <3>1, <3>5, GitByRead, GitByTruncate, GitByWrite, GitByStaging
      DEF StageStep
    <3>6. ASSUME NEW r \in Runs, CommitStep(r) PROVE GitInv'
      BY <1>2, <3>1, <3>6, GitByStaging
    <3>7. ASSUME NEW r \in Runs, Throw(r) \/ Kill(r) PROVE GitInv'
      BY <1>2, <3>1, <3>7, GitByStop
    <3> QED
      BY <2>2, <3>2, <3>3, <3>4, <3>5, <3>6, <3>7 DEF WatchedNext, Next, RunStep
  <2>3. ASSUME overtaken' PROVE GitInv'
    BY <2>3 DEF GitInv
  <2> QED
    BY <1>2, <2>1, <2>2, <2>3
<1> QED
  BY <1>1, <1>2, Watched, Invariance, PTL DEF WatchedSpec

\* No scan sees a staged copy, unless a run was overtaken.
THEOREM CopiesAreIgnored == WatchedSpec => []StagingIsIgnored
<1>1. GitInv => StagingIsIgnored
  BY DEF GitInv, StagingIsIgnored, EntryInv, Past
<1> QED
  BY <1>1, GitInvariance, PTL

\* The user's lines of .gitignore outlive every run, unless one stopped inside
\* fs.writeFile or was overtaken.
THEOREM LinesAreKept == WatchedSpec => []IgnoreLinesKept
<1>1. GitInv => IgnoreLinesKept
  BY DEF GitInv, IgnoreLinesKept, LinesInv
<1> QED
  BY <1>1, GitInvariance, PTL

----------------------------------------------------------------------------
(* The requests of `hookwarden ui`.  QueueInv is inductive as it stands.   *)
(* Everything a request does to the tree leaves the queue alone            *)
(* (QueueStill); what is left are the few steps of the HTTP server itself. *)


InHand == {"reading", "working"}

LEMMA Initially == UiInit => QueueInv
  BY DEF UiInit, QueueInv, UiTypeOK, InQueue, HeadInHand, Answered

LEMMA QueueStill == QueueInv /\ UNCHANGED <<stage, queue>> => QueueInv'
  BY DEF QueueInv, UiTypeOK, InQueue, HeadInHand

\* A request that is in hand is the first one.
LEMMA First ==
  ASSUME QueueInv, NEW q \in Requests, stage[q] \in InHand
  PROVE  queue # <<>> /\ queue[1] = q
  BY DEF QueueInv, UiTypeOK, InQueue, HeadInHand, InHand

LEMMA DoorClosed ==
  ASSUME QueueInv, NEW q \in Requests, RejectAtDoor(q)
  PROVE  QueueInv'
<1>1. stage[q] = "new" /\ stage' = [stage EXCEPT ![q] = "refused"] /\ queue' = queue
  BY DEF RejectAtDoor, Enter
<1>2. \A i \in DOMAIN queue : queue[i] # q
  BY <1>1 DEF QueueInv, UiTypeOK, InQueue
<1> QED
  BY <1>1, <1>2 DEF QueueInv, UiTypeOK, InQueue, HeadInHand, Answered

LEMMA Joins ==
  ASSUME QueueInv, NEW q \in Requests, Arrive(q)
  PROVE  QueueInv'
<1>1. /\ stage[q] = "new" /\ stage' = [stage EXCEPT ![q] = "queued"]
      /\ queue' = Append(queue, q)
  BY DEF Arrive, Enter
<1>2. \A i \in DOMAIN queue : queue[i] # q
  BY <1>1 DEF QueueInv, UiTypeOK, InQueue
<1>3. /\ queue' \in Seq(Requests) /\ Len(queue') = Len(queue) + 1
      /\ DOMAIN queue' = DOMAIN queue \cup {Len(queue) + 1}
      /\ \A i \in DOMAIN queue : queue'[i] = queue[i]
      /\ queue'[Len(queue) + 1] = q
  BY <1>1 DEF QueueInv, UiTypeOK
<1>4. UiTypeOK'
  BY <1>1, <1>3 DEF QueueInv, UiTypeOK
<1>5. InQueue'
  BY <1>1, <1>2, <1>3 DEF QueueInv, UiTypeOK, InQueue
<1>6. HeadInHand'
  BY <1>1, <1>2, <1>3 DEF QueueInv, UiTypeOK, InQueue, HeadInHand
<1> QED
  BY <1>4, <1>5, <1>6 DEF QueueInv

\* The first request goes from one stage to the next.
LEMMA Proceeds ==
  ASSUME QueueInv, NEW q \in Requests, queue # <<>>, queue[1] = q,
         NEW s \in InHand, stage' = [stage EXCEPT ![q] = s], queue' = queue
  PROVE  QueueInv'
<1>1. \A i \in DOMAIN queue : i # 1 => queue[i] # q
  BY DEF QueueInv, UiTypeOK, InQueue
<1> QED
  BY <1>1 DEF QueueInv, UiTypeOK, InQueue, HeadInHand, InHand

\* The first request is answered, and the others move up.
LEMMA MovesUp ==
  ASSUME QueueInv, NEW q \in Requests, stage[q] \in InHand,
         NEW s \in Answered, stage' = [stage EXCEPT ![q] = s], queue' = Tail(queue)
  PROVE  QueueInv'
<1>1. queue # <<>> /\ queue[1] = q
  BY First
<1>2. /\ queue' \in Seq(Requests) /\ Len(queue') = Len(queue) - 1
      /\ \A i \in DOMAIN queue' : i + 1 \in DOMAIN queue /\ queue'[i] = queue[i + 1]
      /\ \A i \in DOMAIN queue : i # 1 => i - 1 \in DOMAIN queue' /\ queue'[i - 1] = queue[i]
  BY <1>1 DEF QueueInv, UiTypeOK
<1>3. \A i \in DOMAIN queue : i # 1 => queue[i] # q
  BY <1>1 DEF QueueInv, UiTypeOK, InQueue
<1>4. UiTypeOK'
  BY <1>2 DEF QueueInv, UiTypeOK, Answered
<1>5. \A i \in DOMAIN queue' : queue'[i] # q /\ stage'[queue'[i]] = "queued"
  <2> SUFFICES ASSUME NEW i \in DOMAIN queue'
               PROVE  queue'[i] # q /\ stage'[queue'[i]] = "queued"
    OBVIOUS
  <2>1. i \in Nat /\ i # 0 /\ i + 1 \in DOMAIN queue /\ queue'[i] = queue[i + 1]
    BY <1>2
  <2> QED
    BY <1>3, <2>1 DEF QueueInv, UiTypeOK, HeadInHand
<1>6. InQueue'
  <2>1. ASSUME NEW p \in Requests, stage'[p] \in {"queued", "reading", "working"}
        PROVE  \E i \in DOMAIN queue' : queue'[i] = p
    <3>1. p # q /\ stage'[p] = stage[p]
      BY <2>1 DEF QueueInv, UiTypeOK, Answered
    <3>2. PICK i \in DOMAIN queue : queue[i] = p
      BY <2>1, <3>1 DEF QueueInv, InQueue
    <3> QED
      BY <1>1, <1>2, <3>1, <3>2
  <2>2. ASSUME NEW i \in DOMAIN queue', NEW j \in DOMAIN queue', queue'[i] = queue'[j]
        PROVE  i = j
    <3>1. /\ i \in Int /\ i + 1 \in DOMAIN queue /\ queue'[i] = queue[i + 1]
          /\ j \in Int /\ j + 1 \in DOMAIN queue /\ queue'[j] = queue[j + 1]
      BY <1>2
    <3>2. i + 1 = j + 1
      BY <2>2, <3>1 DEF QueueInv, InQueue
    <3> QED
      BY <3>1, <3>2
  <2> QED
    BY <1>5, <2>1, <2>2 DEF InQueue
<1>7. HeadInHand'
  BY <1>5 DEF HeadInHand
<1> QED
  BY <1>4, <1>6, <1>7 DEF QueueInv

LEMMA Preserved == QueueInv /\ [UiNext]_uiVars => QueueInv'
<1> SUFFICES ASSUME QueueInv, [UiNext]_uiVars
             PROVE  QueueInv'
  OBVIOUS
<1>0. \A q \in Requests : q \in Runs \/ q \in Scans
  BY DEF Requests
<1>1. CASE \E q \in Requests : RejectAtDoor(q) \/ Arrive(q)
  BY <1>1, DoorClosed, Joins
<1>2. ASSUME NEW q \in Requests, Start(q)
      PROVE  QueueInv'
  <2>1. /\ queue # <<>> /\ queue[1] = q /\ queue' = queue
        /\ stage' = [stage EXCEPT ![q] = "reading"]
    BY <1>2 DEF Start, Serving, Enter, QueueInv, UiTypeOK
  <2> QED
    BY <2>1, Proceeds DEF InHand
<1>3. ASSUME NEW q \in Requests, BodyRead(q)
      PROVE  QueueInv'
  <2>1. stage[q] \in InHand /\ stage' = [stage EXCEPT ![q] = "working"] /\ queue' = queue
    BY <1>3 DEF BodyRead, Enter, InHand
  <2> QED
    BY <2>1, First, Proceeds DEF InHand
<1>4. ASSUME NEW q \in Requests, BodyBad(q) \/ ScanEnds(q) \/ ApplyEnds(q)
      PROVE  QueueInv'
  <2>1. /\ stage[q] \in InHand /\ queue' = Tail(queue)
        /\ stage' = [stage EXCEPT ![q] = "failed"] \/ stage' = [stage EXCEPT ![q] = "ok"]
    BY <1>4 DEF BodyBad, ScanEnds, ApplyEnds, Fail, Respond, Enter, InHand
  <2> QED
    BY <2>1, MovesUp DEF Answered
<1>5. ASSUME NEW r \in Runs, ApplyStep(r)
      PROVE  QueueInv'
  BY <1>5, QueueStill DEF ApplyStep, uiOnly
<1>6. CASE \E f \in Files : EditorSave(f)
  BY <1>6, QueueStill DEF EditorSave, uiOnly
<1>7. CASE Shutdown
  BY <1>7, QueueStill DEF Shutdown
<1>8. CASE UNCHANGED uiVars
  BY <1>8, QueueStill DEF uiVars, uiOnly
<1> QED
  BY <1>1, <1>2, <1>3, <1>4, <1>5, <1>6, <1>7, <1>8 DEF UiNext, Handle, Requests

\* The requests let in and not yet answered are chained, each once, and only the
\* first is handled.
THEOREM Chained == UiSpec => []QueueInv
  BY Initially, Preserved, PTL DEF UiSpec

\* A file is renamed into place only by the request at work.
LEMMA OnlyAtWork ==
  ASSUME UiNext, committed' # committed
  PROVE  \E r \in Runs : stage[r] = "working"
<1>1. ASSUME NEW q \in Requests, Start(q) \/ ScanEnds(q) \/ ApplyEnds(q) \/ BodyRead(q) \/ BodyBad(q)
                                 \/ RejectAtDoor(q) \/ Arrive(q)
      PROVE  committed' = committed
  BY <1>1 DEF Start, ScanEnds, ApplyEnds, BodyRead, BodyBad, RejectAtDoor, Arrive, vars
<1>2. ASSUME NEW f \in Files, EditorSave(f)
      PROVE  committed' = committed
  BY <1>2 DEF EditorSave, UserSave
<1>3. Shutdown => committed' = committed
  BY DEF Shutdown, Kill, vars
<1>4. ASSUME NEW r \in Runs, ApplyStep(r)
      PROVE  stage[r] = "working"
  BY <1>4 DEF ApplyStep
<1> QED
  BY <1>1, <1>2, <1>3, <1>4 DEF UiNext, Handle

\* No scan or preview is in hand when an apply renames a file.
THEOREM Settled == UiSpec => ScansSeeASettledTree
<1>1. ASSUME QueueInv, [UiNext]_uiVars, committed' # committed
      PROVE  \A q \in Scans : stage[q] # "working"
  <2>1. UiNext
    BY <1>1 DEF uiVars, vars
  <2>2. PICK r \in Runs : stage[r] = "working"
    BY <1>1, <2>1, OnlyAtWork
  <2>3. ASSUME NEW q \in Scans, stage[q] = "working"
        PROVE  FALSE
    <3>1. q \in Requests /\ r \in Requests /\ q # r
      BY <2>3, ScansAssumption DEF Requests
    <3>2. queue[1] = q /\ queue[1] = r
      BY <1>1, <2>2, <2>3, <3>1, First DEF InHand
    <3> QED
      BY <3>1, <3>2
  <2> QED
    BY <2>3
<1>2. QueueInv /\ [UiNext]_uiVars =>
        [committed' # committed => \A q \in Scans : stage[q] # "working"]_uiVars
  BY <1>1
<1> QED
  BY <1>2, Chained, PTL DEF UiSpec, ScansSeeASettledTree

-----------------------------------------------------------------------------
(* The tree under the server.                                              *)

\* Every step of the server is a step of FixCommit on the tree, or none.
LEMMA StepsAreFixSteps == [UiNext]_uiVars => [Next]_vars
<1> SUFFICES ASSUME [UiNext]_uiVars
             PROVE  [Next]_vars
  OBVIOUS
<1>1. ASSUME NEW q \in Requests,
             RejectAtDoor(q) \/ Arrive(q) \/ Start(q) \/ ScanEnds(q) \/ ApplyEnds(q)
               \/ BodyRead(q) \/ BodyBad(q)
      PROVE  UNCHANGED vars
  BY <1>1 DEF RejectAtDoor, Arrive, Start, ScanEnds, ApplyEnds, BodyRead, BodyBad
<1>2. ASSUME NEW r \in Runs, ApplyStep(r)
      PROVE  Next
  BY <1>2 DEF ApplyStep, PlanTarget, Next, RunStep, PlanStep
<1>3. ASSUME NEW f \in Files, EditorSave(f)
      PROVE  Next
  BY <1>3 DEF EditorSave, Next
<1>4. Shutdown => Next \/ UNCHANGED vars
  BY DEF Shutdown, Next
<1> QED
  BY <1>1, <1>2, <1>3, <1>4 DEF UiNext, Handle, uiVars

\* An apply of the server is a run of hookwarden fix: whatever is proved of
\* FixCommit holds of the tree under the server.
THEOREM AppliesLikeFix == UiSpec => Spec
<1>1. UiInit => Init
  BY DEF UiInit
<1> QED
  BY <1>1, StepsAreFixSteps, PTL DEF UiSpec, Spec


\* The server, too, keeps the promise of FixPromise, leaves every planned file
\* staged or in place, and says "applied" only when nothing is left.
THEOREM UiKeepsPromise ==
  UiSpec => KeepsPromise /\ []StagedCopiesSurvive /\ []DoneMeansCommitted
  BY AppliesLikeFix, Implements, InspectionContract, SuccessIsComplete, PTL

-----------------------------------------------------------------------------
(* The queue runs down.                                                    *)

\* The steps a request has left: to be started, to be read, and those of its run.
Work(q) ==
  LET N == Cardinality(Files) IN
  CASE stage[q] = "queued"  -> 3 * N + 11
    [] stage[q] = "reading" -> 3 * N + 10
    [] stage[q] = "working" -> IF q \in Runs THEN StepsLeft(q) + 1 ELSE 1
    [] OTHER                -> 0

\* The first request of the queue is answered and the others move up; or all keep
\* their places, and what is done of the first is done for good.
ServesInOrder ==
  \/ /\ queue # <<>> /\ stage'[queue[1]] \in Answered
     /\ queue' = Tail(queue)
  \/ /\ \A i \in DOMAIN queue : queue'[i] = queue[i]
     /\ \A q \in Requests : queue # <<>> /\ queue[1] = q =>
          /\ Work(q)' <= Work(q)
          /\ Handle(q) \/ BodyRead(q) \/ BodyBad(q) => Work(q)' < Work(q)

\* Whoever waits is in the queue, and the first one there has work left.
SomebodyIsServed ==
  /\ \A q \in Requests : stage[q] = "queued" => \E i \in DOMAIN queue : queue[i] = q
  /\ queue # <<>> => Work(queue[1]) \in Nat \ {0}

LEMMA WorkIsNat ==
  ASSUME IsFiniteSet(Files), TypeOK, NEW q \in Requests
  PROVE  /\ Work(q) \in Nat
         /\ stage[q] \in {"queued", "reading", "working"} => Work(q) > 0
<1>1. Cardinality(Files) \in Nat
  BY Counts
<1>2. q \in Runs => StepsLeft(q) \in Nat
  BY StepsLeftIsNat, <1>1
<1>3. QED
  BY <1>1, <1>2 DEF Work

\* The first request is answered.
LEMMA LetsOthersMoveUp ==
  ASSUME QueueInv, NEW q \in Requests, stage[q] \in InHand, Fail(q) \/ Respond(q)
  PROVE  queue # <<>> /\ stage'[queue[1]] \in Answered /\ queue' = Tail(queue)
<1>1. queue # <<>> /\ queue[1] = q
  BY First
<1>2. QED
  BY <1>1 DEF Fail, Respond, Enter, QueueInv, UiTypeOK, Answered

\* The first request gets on with its work.
LEMMA GetsOn ==
  ASSUME QueueInv, NEW q \in Requests, queue # <<>>, queue[1] = q, queue' = queue,
         Work(q)' < Work(q) /\ Work(q)' <= Work(q)
  PROVE  ServesInOrder
BY DEF ServesInOrder

\* Whoever comes, saves or is turned away leaves the first one where it was.
LEMMA LeavesTheFirst ==
  ASSUME IsFiniteSet(Files), IInv, QueueInv, [UiNext]_uiVars,
         \A i \in DOMAIN queue : queue'[i] = queue[i],
         queue # <<>> => stage'[queue[1]] = stage[queue[1]],
         \A q \in Requests : queue # <<>> /\ queue[1] = q =>
           ~(Handle(q) \/ BodyRead(q) \/ BodyBad(q))
  PROVE  ServesInOrder
<1> SUFFICES ASSUME NEW q \in Requests, queue # <<>>, queue[1] = q
             PROVE  Work(q)' <= Work(q) /\ (Handle(q) \/ BodyRead(q) \/ BodyBad(q) => Work(q)' < Work(q))
  BY DEF ServesInOrder
<1>1. TypeOK /\ Cardinality(Files) \in Nat
  BY Counts DEF IInv
<1>2. q \in Runs => StepsLeft(q)' <= StepsLeft(q)
  BY StepsAreFixSteps, StepsAreUsedUp DEF StepsNeverGrow
<1>3. Work(q)' <= Work(q)
  <2>1. CASE stage[q] = "working" /\ q \in Runs
    <3>1. TypeOK'
      BY <1>1, StepsAreFixSteps, NextType
    <3>2. StepsLeft(q) \in Nat /\ StepsLeft(q)' \in Int
      BY <1>1, <2>1, <3>1, StepsLeftIsNat, StepsLeftIsInt
    <3>3. Work(q) = StepsLeft(q) + 1 /\ Work(q)' = StepsLeft(q)' + 1
      BY <2>1 DEF Work
    <3>4. QED
      BY <1>2, <2>1, <3>2, <3>3
  <2>2. CASE ~(stage[q] = "working" /\ q \in Runs)
    <3>1. Work(q)' = Work(q)
      BY <2>2 DEF Work
    <3>2. QED
      BY <1>1, <3>1, WorkIsNat
  <2>3. QED
    BY <2>1, <2>2
<1>4. QED
  BY <1>3

LEMMA InOrder ==
  ASSUME IsFiniteSet(Files), IInv, QueueInv, [UiNext]_uiVars
  PROVE  ServesInOrder
<1>1. TypeOK /\ Cardinality(Files) \in Nat /\ UiTypeOK
  BY Counts DEF IInv, QueueInv
<1>2. ASSUME NEW q \in Requests, BodyBad(q) \/ ScanEnds(q) \/ ApplyEnds(q)
      PROVE  ServesInOrder
  BY <1>2, LetsOthersMoveUp DEF BodyBad, ScanEnds, ApplyEnds, InHand, ServesInOrder
<1>3. ASSUME NEW q \in Requests, Start(q)
      PROVE  ServesInOrder
  <2>1. /\ queue # <<>> /\ queue[1] = q /\ queue' = queue
        /\ stage[q] = "queued" /\ stage'[q] = "reading"
    BY <1>1, <1>3 DEF Start, Serving, Enter, UiTypeOK
  <2>2. Work(q)' < Work(q) /\ Work(q)' <= Work(q)
    BY <1>1, <2>1 DEF Work
  <2>3. QED
    BY <2>1, <2>2, GetsOn
<1>4. ASSUME NEW q \in Requests, BodyRead(q)
      PROVE  ServesInOrder
  <2>1. /\ stage[q] = "reading" /\ stage'[q] = "working" /\ queue' = queue
        /\ UNCHANGED vars
    BY <1>1, <1>4 DEF BodyRead, Enter, UiTypeOK
  <2>2. queue # <<>> /\ queue[1] = q
    BY <2>1, First DEF InHand
  <2>3. q \in Runs => /\ StepsLeft(q)' = StepsLeft(q)
                      /\ StepsLeft(q) \in 0 .. 3 * Cardinality(Files) + 8
    BY <1>1, <2>1, StepsLeftIsNat, OthersTakeNone DEF Still, vars
  <2>4. Work(q)' < Work(q) /\ Work(q)' <= Work(q)
    <3> DEFINE N == Cardinality(Files)
    <3>1. Work(q) = 3 * N + 10 /\ N \in Nat
      BY <1>1, <2>1 DEF Work
    <3>2. Work(q)' = IF q \in Runs THEN StepsLeft(q)' + 1 ELSE 1
      BY <2>1 DEF Work
    <3>3. q \in Runs => StepsLeft(q)' \in 0 .. 3 * N + 8
      BY <2>3
    <3> HIDE DEF N
    <3>4. QED
      BY <3>1, <3>2, <3>3
  <2>5. QED
    BY <2>1, <2>2, <2>4, GetsOn
<1>5. ASSUME NEW r \in Runs, ApplyStep(r)
      PROVE  ServesInOrder
  <2>1. r \in Requests /\ stage[r] = "working" /\ stage' = stage /\ queue' = queue
    BY <1>5 DEF ApplyStep, uiOnly, Requests
  <2>2. queue # <<>> /\ queue[1] = r
    BY <2>1, First DEF InHand
  <2>3. RunStep(r) \/ Throw(r)
    BY <1>5 DEF ApplyStep, PlanTarget, RunStep, PlanStep
  <2>4. StepsLeft(r)' < StepsLeft(r) /\ StepsLeft(r)' <= StepsLeft(r)
    BY <2>3, StepsAreFixSteps, StepsAreUsedUp DEF StepsNeverGrow
  <2>5. StepsLeft(r) \in Nat /\ StepsLeft(r)' \in Int
    BY <1>1, StepsAreFixSteps, NextType, StepsLeftIsNat, StepsLeftIsInt
  <2>6. Work(r) = StepsLeft(r) + 1 /\ Work(r)' = StepsLeft(r)' + 1
    BY <2>1 DEF Work
  <2>7. Work(r)' < Work(r) /\ Work(r)' <= Work(r)
    BY <2>4, <2>5, <2>6
  <2>8. QED
    BY <2>1, <2>2, <2>7, GetsOn
<1>6. CASE \A q \in Requests : ~(Handle(q) \/ BodyRead(q) \/ BodyBad(q))
  <2>1. ASSUME NEW q \in Requests, RejectAtDoor(q) \/ Arrive(q)
        PROVE  /\ \A i \in DOMAIN queue : queue'[i] = queue[i]
               /\ queue # <<>> => stage'[queue[1]] = stage[queue[1]]
    <3>1. stage[q] = "new" /\ \A p \in Requests \ {q} : stage'[p] = stage[p]
      BY <1>1, <2>1 DEF RejectAtDoor, Arrive, Enter, UiTypeOK
    <3>2. queue # <<>> => queue[1] \in Requests \ {q}
      BY <1>1, <3>1 DEF QueueInv, InQueue, UiTypeOK
    <3>3. \A i \in DOMAIN queue : queue'[i] = queue[i]
      BY <1>1, <2>1 DEF RejectAtDoor, Arrive, UiTypeOK
    <3>4. QED
      BY <3>1, <3>2, <3>3
  <2>2. ASSUME (\E f \in Files : EditorSave(f)) \/ Shutdown \/ UNCHANGED uiVars
        PROVE  stage' = stage /\ queue' = queue
    BY <2>2 DEF EditorSave, Shutdown, uiOnly, uiVars
  <2>3. /\ \A i \in DOMAIN queue : queue'[i] = queue[i]
        /\ queue # <<>> => stage'[queue[1]] = stage[queue[1]]
    BY <1>6, <2>1, <2>2 DEF UiNext
  <2>4. QED
    BY <1>6, <2>3, LeavesTheFirst
<1>7. QED
  BY <1>2, <1>3, <1>4, <1>5, <1>6 DEF Handle

\* The part of RequestsAreAnswered that needs no fairness: requests are answered in
\* the order in which they came, and with N files the first one is answered after
\* at most 3 * N + 11 steps of its own, whatever arrives, is saved or is thrown.
THEOREM AnswersInOrder ==
  IsFiniteSet(Files) =>
    (UiSpec => []NoDeadEnd /\ []SomebodyIsServed /\ [][ServesInOrder]_uiVars)
<1> SUFFICES ASSUME IsFiniteSet(Files)
             PROVE  UiSpec => []NoDeadEnd /\ []SomebodyIsServed /\ [][ServesInOrder]_uiVars
  OBVIOUS
<1>1. IInv /\ QueueInv => SomebodyIsServed
  <2> SUFFICES ASSUME IInv, QueueInv
               PROVE  SomebodyIsServed
    OBVIOUS
  <2>1. \A q \in Requests : stage[q] = "queued" => \E i \in DOMAIN queue : queue[i] = q
    BY DEF QueueInv, InQueue
  <2>2. ASSUME queue # <<>>
        PROVE  Work(queue[1]) \in Nat \ {0}
    <3>1. queue[1] \in Requests /\ stage[queue[1]] \in {"queued", "reading", "working"}
      BY <2>2 DEF QueueInv, UiTypeOK, InQueue
    <3>2. QED
      BY <3>1, WorkIsNat DEF IInv
  <2>3. QED
    BY <2>1, <2>2 DEF SomebodyIsServed
<1>2. IInv /\ QueueInv /\ [UiNext]_uiVars => [ServesInOrder]_uiVars
  BY InOrder
<1>3. UiSpec => []IInv
  BY AppliesLikeFix, Invariance, PTL
<1>4. UiSpec => []NoDeadEnd
  BY AppliesLikeFix, RunsRunDown, PTL
<1>5. QED
  BY <1>1, <1>2, <1>3, <1>4, Chained, PTL DEF UiSpec

-----------------------------------------------------------------------------
(* What is installed fits.  If nobody saves while an apply is handled, and *)
(* no option asks for explanations in place of edits, a run splices into   *)
(* the text its plan was made for: only the head of the queue changes the  *)
(* tree, and it does not change a file twice.                              *)

EditsOnly == Patient /\ \A o \in Options : o.mode # "manual-only-explain"

LEMMA SoundAtFirst == UiInit => SoundInv
<1> SUFFICES ASSUME UiInit
             PROVE  SoundInv
  OBVIOUS
<1>1. Init
  BY DEF UiInit
<1>2. ASSUME NEW f \in Files
      PROVE  disk[f].sound
  <2>1. disk[f].sound \in {TRUE}
    BY <1>1 DEF Init
  <2> QED
    BY <2>1, Zenon
<1>3. ASSUME NEW r \in Runs
      PROVE  pc[r] = "idle" /\ Planned(r) = {} /\ stage[r] = "new"
  BY <1>1 DEF Init, UiInit, Planned, NoEdit, Requests
<1> QED
  BY <1>2, <1>3 DEF SoundInv, InstalledTextIsSound, NotStarted, UpToDate

\* Only one request is in hand.
LEMMA OneInHand ==
  ASSUME QueueInv, NEW p \in Requests, NEW q \in Requests,
         stage[p] \in InHand, stage[q] \in InHand
  PROVE  p = q
  BY First

\* Splicing the planned edit into the text it was planned for leaves it sound.
LEMMA PatchedIsSound ==
  ASSUME NEW b, NEW e, b.ver = e.ver, b.sound, e.class # "manual-only", NEW t \in Patched(b, e)
  PROVE  t.sound /\ t.ver = e.ver
<1>1. t \in [ver : {b.ver}, finding : {"none"} \cup {b.finding}, sound : {b.sound}, whole : {TRUE}]
  BY DEF Patched
<1> QED
  BY <1>1


\* One step of an apply on the tree keeps its plan up to date.
LEMMA PlansWhatIsThere ==
  ASSUME IInv, SoundInv, NEW r \in Runs, Scan(r) \/ Plan(r), stage[r] = "working", stage' = stage
  PROVE  InstalledTextIsSound' /\ UpToDate(r)'
<1>1. TypeOK /\ RunInv(r)
  BY DEF IInv
<1>2. disk' = disk /\ committed' = committed /\ staged' = staged /\ pc[r] \in Planning
  BY DEF Scan, Plan, treeVars, stageVars, Planning
<1>3. \A f \in Files : ~staged[r][f].present
  BY <1>1, <1>2 DEF RunInv, NotYetStaged
<1>4. InstalledTextIsSound'
  BY <1>2 DEF SoundInv, InstalledTextIsSound
<1>5. CASE Scan(r)
  BY <1>2, <1>3, <1>4, <1>5 DEF Scan, SoundInv, UpToDate, Planned
<1>6. CASE Plan(r)
  <2>1. PICK S \in SUBSET Editable(r) :
          plan' = [plan EXCEPT ![r] = [f \in Files |-> IF f \in S THEN EditOf(r, f) ELSE NoEdit]]
    BY <1>6 DEF Plan
  <2>2. \A f \in Files : plan'[r][f].ver \in {0, disk[f].ver}
    BY <1>1, <2>1 DEF TypeOK, EditOf, NoEdit
  <2> QED
    BY <1>2, <1>3, <1>4, <2>2 DEF UpToDate, Planned
<1> QED
  BY <1>4, <1>5, <1>6

LEMMA StagesWhatIsThere ==
  ASSUME IInv, SoundInv, EditsOnly, NEW r \in Runs, StageStep(r), stage[r] = "working", stage' = stage
  PROVE  InstalledTextIsSound' /\ UpToDate(r)'
<1>1. TypeOK /\ RunInv(r)
  BY DEF IInv
<1>2. disk' = disk /\ committed' = committed /\ plan' = plan
  BY DEF StageStep, IgnoreRead, IgnoreTruncate, IgnoreWrite, CreateStagingRun,
     StageRead, StageWrite, planVars, stageVars, treeVars
<1>3. InstalledTextIsSound'
  BY <1>2 DEF SoundInv, InstalledTextIsSound
<1>4. UpToDate(r) /\ Planned(r)' = Planned(r)
  BY <1>2 DEF SoundInv, Planned
<1>5. CASE staged' = staged
  BY <1>2, <1>3, <1>4, <1>5 DEF UpToDate, Planned
<1>6. ASSUME NEW f \in Files, StageRead(r, f)
      PROVE  UpToDate(r)'
  <2>1. staged' = [staged EXCEPT ![r][f] = [present |-> TRUE, text |-> [disk[f] EXCEPT !.whole = FALSE]]]
    BY <1>6 DEF StageRead
  <2>2. \A g \in Files \ {f} : staged'[r][g] = staged[r][g]
    BY <1>1, <2>1 DEF TypeOK
  <2>3. staged'[r][f].text.ver = disk[f].ver /\ staged'[r][f].text.sound
    BY <1>1, <2>1 DEF TypeOK, Text, SoundInv, InstalledTextIsSound
  <2> QED
    BY <1>2, <1>4, <2>2, <2>3 DEF UpToDate, Planned
<1>7. ASSUME NEW f \in Files, StageWrite(r, f)
      PROVE  UpToDate(r)'
  <2>1. PICK t \in Patched(staged[r][f].text, plan[r][f]) : staged' = [staged EXCEPT ![r][f].text = t]
    BY <1>7 DEF StageWrite
  <2>2. \A g \in Files \ {f} : staged'[r][g] = staged[r][g]
    BY <1>1, <2>1 DEF TypeOK
  <2>3. staged'[r][f].text = t /\ staged[r][f].present
    BY <1>1, <1>7, <2>1 DEF TypeOK, StageWrite
  <2>4. ASSUME f \in Planned(r) \ committed[r]
        PROVE  t.ver = disk[f].ver /\ t.sound
    <3>1. staged[r][f].text.ver = disk[f].ver /\ staged[r][f].text.sound /\ plan[r][f].ver = disk[f].ver
      BY <1>4, <2>3, <2>4, stage[r] = "working" DEF UpToDate
    <3>2. plan[r][f].class \in Allowed(opts[r].mode) /\ opts[r].mode # "manual-only-explain"
      BY <1>1, <2>4 DEF RunInv, Consented, EditsOnly, TypeOK
    <3>3. plan[r][f].class # "manual-only"
      BY <3>2 DEF Allowed
    <3> QED
      BY <3>1, <3>3, PatchedIsSound
  <2> QED
    BY <1>2, <1>4, <2>2, <2>3, <2>4 DEF UpToDate, Planned
<1> QED
  BY <1>3, <1>5, <1>6, <1>7 DEF StageStep, IgnoreRead, IgnoreTruncate, IgnoreWrite,
     CreateStagingRun, stageVars

LEMMA InstallsWhatFits ==
  ASSUME IInv, SoundInv, NEW r \in Runs, CommitStep(r), stage[r] = "working", stage' = stage
  PROVE  InstalledTextIsSound' /\ UpToDate(r)'
<1>1. TypeOK /\ RunInv(r) /\ plan' = plan /\ Planned(r)' = Planned(r)
  BY DEF IInv, CommitStep, CommitStaging, Rename, RemoveStaging, planVars, Planned
<1>2. CASE UNCHANGED <<disk, staged, committed>>
  BY <1>1, <1>2 DEF SoundInv, InstalledTextIsSound, UpToDate
<1>3. ASSUME NEW f \in Files, Rename(r, f)
      PROVE  InstalledTextIsSound' /\ UpToDate(r)'
  <2>1. /\ pc[r] = "commit" /\ f \in Planned(r) \ committed[r]
        /\ committed'[r] = committed[r] \cup {f}
        /\ \A g \in Files \ {f} : staged'[r][g] = staged[r][g] /\ disk'[g] = disk[g]
        /\ disk'[f] = [staged[r][f].text EXCEPT !.ver = disk[f].ver + 1]
    BY <1>1, <1>3 DEF Rename, TypeOK
  <2>2. staged[r][f].present /\ staged[r][f].text \in Text
    BY <1>1, <2>1 DEF RunInv, CommitInProgress, TypeOK
  <2>3. staged[r][f].text.sound
    BY <2>1, <2>2, stage[r] = "working" DEF SoundInv, UpToDate
  <2>4. disk'[f].sound
    BY <2>1, <2>2, <2>3 DEF Text
  <2>5. InstalledTextIsSound'
    BY <2>1, <2>4 DEF SoundInv, InstalledTextIsSound
  <2>6. \A g \in Planned(r)' \ committed'[r] : g \in Planned(r) \ committed[r] /\ g # f
    BY <1>1, <2>1
  <2>7. UpToDate(r)'
    BY <1>1, <2>1, <2>6 DEF SoundInv, UpToDate, Planned
  <2> QED
    BY <2>5, <2>7
<1> QED
  BY <1>2, <1>3 DEF CommitStep, CommitStaging, RemoveStaging, treeVars, stageVars

\* The other requests wait, so an apply changes the tree under nobody.
LEMMA ApplyIsSound ==
  ASSUME IInv, QueueInv, SoundInv, EditsOnly, NEW r \in Runs, ApplyStep(r)
  PROVE  SoundInv'
<1>1. stage[r] = "working" /\ stage' = stage
  BY DEF ApplyStep, uiOnly
<1>2. CASE Throw(r)
  <2>1. UNCHANGED <<disk, plan, staged, committed>> /\ \A q \in Runs \ {r} : pc'[q] = pc[q]
    BY <1>2 DEF Throw, Goto, IInv, TypeOK, treeVars, planVars, stageVars
  <2> QED
    BY <1>1, <2>1 DEF SoundInv, InstalledTextIsSound, NotStarted, UpToDate, Planned
<1>3. CASE Scan(r) \/ Plan(r) \/ StageStep(r) \/ CommitStep(r)
  <2>1. InstalledTextIsSound' /\ UpToDate(r)'
    BY <1>1, <1>3, PlansWhatIsThere, StagesWhatIsThere, InstallsWhatFits
  <2>2. \A q \in Runs \ {r} : Still(q)
    BY <1>3, PlanInv, StageInv, CommitInv DEF PlanStep
  <2>3. \A q \in Runs \ {r} : stage[q] # "working"
    BY <1>1, OneInHand DEF InHand, Requests
  <2>4. \A q \in Runs : NotStarted(q)' /\ UpToDate(q)'
    BY <1>1, <2>1, <2>2, <2>3 DEF SoundInv, NotStarted, UpToDate, Still, Planned
  <2> QED
    BY <2>1, <2>4 DEF SoundInv
<1> QED
  BY <1>2, <1>3 DEF ApplyStep, PlanTarget


\* A step that leaves the tree and the runs alone: a request that comes to its
\* turn as an apply has planned nothing yet.
LEMMA WaitingIsSound ==
  ASSUME SoundInv, UNCHANGED vars, NEW q \in Requests, NEW s,
         stage \in [Requests -> {"new", "queued", "reading", "working"} \cup Answered],
         stage' = [stage EXCEPT ![q] = s],
         s = "working" => stage[q] = "reading",
         s \in {"queued", "reading"} => stage[q] \in {"new", "queued"},
         s \in {"queued", "reading", "working"} \cup Answered
  PROVE  SoundInv'
<1>1. UNCHANGED <<disk, pc, plan, staged, committed>>
  BY DEF vars, treeVars, planVars, stageVars
<1>2. InstalledTextIsSound'
  BY <1>1 DEF SoundInv, InstalledTextIsSound
<1>3. ASSUME NEW r \in Runs
      PROVE  NotStarted(r)' /\ UpToDate(r)'
  <2>1. r \in Requests /\ NotStarted(r) /\ UpToDate(r)
    BY DEF Requests, SoundInv
  <2>2. CASE r # q
    BY <1>1, <2>1, <2>2 DEF NotStarted, UpToDate, Planned
  <2>3. CASE r = q
    BY <1>1, <2>1, <2>3 DEF NotStarted, UpToDate, Planned, Answered
  <2> QED
    BY <2>2, <2>3
<1> QED
  BY <1>2, <1>3 DEF SoundInv

LEMMA SoundStep == EditsOnly /\ IInv /\ QueueInv /\ SoundInv /\ [UiNext]_uiVars => SoundInv'
<1> SUFFICES ASSUME EditsOnly, IInv, QueueInv, SoundInv, [UiNext]_uiVars
             PROVE  SoundInv'
  OBVIOUS
<1>0. stage \in [Requests -> {"new", "queued", "reading", "working"} \cup Answered]
  BY DEF QueueInv, UiTypeOK
<1>1. ASSUME NEW q \in Requests,
             RejectAtDoor(q) \/ Arrive(q) \/ Start(q) \/ ScanEnds(q) \/ ApplyEnds(q)
               \/ BodyRead(q) \/ BodyBad(q)
      PROVE  SoundInv'
  <2>1. /\ UNCHANGED vars
        /\ \E s \in {"queued", "reading", "working"} \cup Answered :
             /\ stage' = [stage EXCEPT ![q] = s]
             /\ s = "working" => stage[q] = "reading"
             /\ s \in {"queued", "reading"} => stage[q] \in {"new", "queued"}
    BY <1>1 DEF RejectAtDoor, Arrive, Start, ScanEnds, ApplyEnds, BodyRead, BodyBad,
       Enter, Fail, Respond, Answered
  <2> QED
    BY <1>0, <2>1, WaitingIsSound
<1>2. ASSUME NEW r \in Runs, ApplyStep(r)
      PROVE  SoundInv'
  BY <1>2, ApplyIsSound
<1>3. ASSUME NEW f \in Files, EditorSave(f)
      PROVE  SoundInv'
  <2>1. /\ UNCHANGED <<stage, pc, plan>>
        /\ \A r \in Runs : stage[r] # "working"
    BY <1>3 DEF EditorSave, EditsOnly, UserSave, uiOnly, planVars
  <2>2. \E c \in Classes : disk' = [disk EXCEPT ![f] = [ver |-> disk[f].ver + 1, finding |-> c,
                                                      sound |-> TRUE, whole |-> TRUE]]
    BY <1>3 DEF EditorSave, UserSave
  <2>3. InstalledTextIsSound'
    BY <2>2 DEF SoundInv, InstalledTextIsSound, IInv, TypeOK
  <2> QED
    BY <2>1, <2>3 DEF SoundInv, NotStarted, UpToDate, Planned
<1>4. CASE Shutdown
  <2>1. UNCHANGED <<stage, disk, plan, staged, committed>>
    BY <1>4 DEF Shutdown, Kill, vars, treeVars, planVars, stageVars
  <2>2. \A r \in Runs : stage[r] # "working" => pc'[r] = pc[r]
    BY <1>4 DEF Shutdown, Kill, Goto, vars, IInv, TypeOK
  <2> QED
    BY <2>1, <2>2 DEF SoundInv, InstalledTextIsSound, NotStarted, UpToDate, Planned
<1>5. CASE UNCHANGED uiVars
  BY <1>5 DEF uiVars, uiOnly, vars, treeVars, planVars, stageVars, SoundInv,
     InstalledTextIsSound, NotStarted, UpToDate, Planned
<1> QED
  BY <1>1, <1>2, <1>3, <1>4, <1>5 DEF UiNext, Handle

\* No file of the tree is ever spliced at offsets of another text, as long as
\* the editor keeps still while an apply is handled.
THEOREM FitsWhereItGoes == EditsOnly => (UiSpec => []InstalledTextIsSound)
<1>1. SoundInv => InstalledTextIsSound
  BY DEF SoundInv
<1>2. EditsOnly /\ UiSpec => []SoundInv
  <2> SUFFICES ASSUME EditsOnly
               PROVE  UiSpec => []SoundInv
    OBVIOUS
  <2>1. IInv /\ QueueInv /\ SoundInv /\ [UiNext]_uiVars => SoundInv'
    BY SoundStep
  <2> QED
    BY <2>1, SoundAtFirst, Chained, Invariance, AppliesLikeFix, PTL DEF UiSpec
<1> QED
  BY <1>1, <1>2, PTL
==============================================================================
