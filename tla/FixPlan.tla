------------------------------ MODULE FixPlan -------------------------------
(***************************************************************************)
(* How `hookwarden fix` turns findings into edits: runOrchestration picks  *)
(* the findings a rule of an allowed class can rewrite, adds the imports   *)
(* the rewrites need, and resolveConflicts decides edit by edit.  Edits    *)
(* that overlap abort the commit, and the user is told to run the rules of *)
(* the suggestion one at a time; the model follows the user who does.      *)
(*                                                                         *)
(* FixCommit is about when and where texts are written; here one command   *)
(* runs at a time, and writing the accepted edits is one step.             *)
(*                                                                         *)
(* Abstractions.  A finding carries the byte range its codegen routine     *)
(* rewrites (the routine looks for it in the AST), empty when the routine  *)
(* inserts a line, as the guards for null and for a missing secret do, at  *)
(* the beginning of the file if the finding is on its first line.  Ranges  *)
(* keep their order when the text before them changes, so one set of       *)
(* offsets serves every invocation.                                        *)
(***************************************************************************)
EXTENDS Naturals, Sequences, FiniteSets, FiniteSetsExt

CONSTANTS
  Report,  \* the findings, in the order of a scan; each may be in the tree
  Length,  \* the length of every file
  Top,     \* where the imports of a file go: byte 0, or after what must be first
  Modes    \* the modes the user runs `fix` in

NoModule == "none"
ImportInserter == "@import-inserter"

Finding == [file : STRING, rule : STRING, safety : {"safe", "unsafe"},
            from : Nat, to : Nat, module : STRING]

ASSUME LengthAssumption == Length \in Nat
ASSUME ReportAssumption ==
  /\ Report \in Seq(Finding)
  /\ \A n \in DOMAIN Report :
       Report[n].from <= Report[n].to /\ Report[n].to <= Length
ASSUME ModesAssumption == Modes \subseteq {"safe", "all"}

Findings == DOMAIN Report
AllFiles == {Report[n].file : n \in Findings}
AllRules == {Report[n].rule : n \in Findings}

ASSUME RulesAssumption == ImportInserter \notin AllRules
ASSUME TopAssumption == Top \in [AllFiles -> 0 .. Length]

VARIABLES
  open,      \* the findings still in the tree
  imported,  \* the modules each file imports: a set of <<file, module>>
  phase,     \* "idle", "orchestrate", "resolve", "rejected" or "accepted"
  cmd,       \* the command line: [mode, only, files, write]
  edits,     \* allEdits of runOrchestration
  applied,   \* the edits resolveConflicts applied, by their position
  rejected,  \* the edits it rejected
  named,     \* the rules of the suggestion, conflictingRuleIds
  advice,    \* the suggestion the user follows: its rules and its file
  toRun,     \* the rules of the advice he has not run yet
  openThen   \* what was open when he got it

resolverVars == <<edits, applied, rejected, named>>
userVars == <<advice, toRun, openThen>>
vars == <<open, imported, phase, cmd, resolverVars, userVars>>

NoAdvice == [rules |-> {}, file |-> "none"]
NoCommand == [mode |-> "safe", only |-> {}, files |-> {}, write |-> FALSE]

Init ==
  /\ open \in SUBSET Findings
  /\ imported = {}
  /\ phase = "idle"
  /\ cmd = NoCommand
  /\ edits = <<>>
  /\ applied = {}
  /\ rejected = {}
  /\ named = {}
  /\ advice = NoAdvice
  /\ toRun = {}
  /\ openThen = {}

----------------------------------------------------------------------------
(* The user.  An empty --only means that it was not given.                 *)

Invoke(m, only, write) ==
  /\ phase = "idle"
  /\ advice = NoAdvice
  /\ cmd' = [mode |-> m, only |-> only, files |-> AllFiles, write |-> write]
  /\ phase' = "orchestrate"
  /\ UNCHANGED <<open, imported, resolverVars, userVars>>

\* Mutant: the suggested command line lacks --write.
RunAdviceDry(r) ==
  /\ phase = "idle"
  /\ r \in toRun
  /\ toRun' = toRun \ {r}
  /\ cmd' = [mode |-> "safe", only |-> {r}, files |-> {advice.file},
             write |-> FALSE]
  /\ phase' = "orchestrate"
  /\ UNCHANGED <<open, imported, resolverVars, advice, openThen>>

\* hookwarden fix <file> --only <rule-id> --write, a line of the suggestion.
RunAdvice(r) ==
  /\ phase = "idle"
  /\ r \in toRun
  /\ toRun' = toRun \ {r}
  /\ cmd' = [mode |-> "safe", only |-> {r}, files |-> {advice.file},
             write |-> TRUE]
  /\ phase' = "orchestrate"
  /\ UNCHANGED <<open, imported, resolverVars, advice, openThen>>

\* The user has run every line of the suggestion.
DropAdvice ==
  /\ phase = "idle"
  /\ advice # NoAdvice
  /\ toRun = {}
  /\ advice' = NoAdvice
  /\ openThen' = {}
  /\ UNCHANGED <<open, imported, phase, cmd, resolverVars, toRun>>

----------------------------------------------------------------------------
(* runOrchestration.                                                       *)

Allowed(mode) == IF mode = "all" THEN {"safe", "unsafe"} ELSE {"safe"}

\* The findings of the scan for which a codegen routine makes an edit.
Selected ==
  {n \in open : /\ Report[n].file \in cmd.files
                /\ cmd.only = {} \/ Report[n].rule \in cmd.only
                /\ Report[n].safety \in Allowed(cmd.mode)}

CodegenEdit(n) ==
  [file |-> Report[n].file, rule |-> Report[n].rule, from |-> Report[n].from,
   to |-> Report[n].to, finding |-> n]

ImportEdit(n) ==
  [file |-> Report[n].file, rule |-> ImportInserter,
   from |-> Top[Report[n].file], to |-> Top[Report[n].file], finding |-> n]

\* A routine asks for the import it needs unless the file imports something
\* from the module already, under whatever name.
NeedsImport(n) ==
  /\ Report[n].module # NoModule
  /\ <<Report[n].file, Report[n].module>> \notin imported

\* The first selected finding of the same file that needs an import: the
\* files are visited in the order of these.
ImportHead(n) ==
  Min({k \in Selected : NeedsImport(k) /\ Report[k].file = Report[n].file})

\* One import edit for each edit that asks for one, file by file.
ImportOrder(m, n) ==
  \/ ImportHead(m) < ImportHead(n)
  \/ ImportHead(m) = ImportHead(n) /\ m < n

\* The members of S, each after those that come before it.
InOrder(S, Before(_, _)) ==
  [k \in 1 .. Cardinality(S) |->
     CHOOSE x \in S : Cardinality({y \in S : Before(y, x)}) = k - 1]

AllEdits ==
  LET imports == InOrder({n \in Selected : NeedsImport(n)}, ImportOrder)
      codegen == InOrder(Selected, <)
  IN [i \in 1 .. Len(imports) |-> ImportEdit(imports[i])]
       \o [i \in 1 .. Len(codegen) |-> CodegenEdit(codegen[i])]

Orchestrate ==
  /\ phase = "orchestrate"
  /\ edits' = AllEdits
  /\ applied' = {}
  /\ rejected' = {}
  /\ named' = {}
  /\ phase' = "resolve"
  /\ UNCHANGED <<open, imported, cmd, userVars>>

----------------------------------------------------------------------------
(* resolveConflicts.                                                       *)

\* Half-open ranges; two insertions at the same offset overlap.
RangesOverlap(a, b) ==
  IF a.from = a.to /\ b.from = b.to THEN a.from = b.from
  ELSE a.from < b.to /\ b.from < a.to

Undecided == DOMAIN edits \ (applied \cup rejected)

GroupHead(i) == Min({j \in DOMAIN edits : edits[j].file = edits[i].file})

\* The files in the order of their first edits, the edits of a file in theirs.
Precedes(i, j) ==
  \/ GroupHead(i) < GroupHead(j)
  \/ GroupHead(i) = GroupHead(j) /\ i < j

IsNext(i) == i \in Undecided /\ \A j \in Undecided \ {i} : Precedes(i, j)

\* Mutant: an edit is compared with the last one applied only.
LastRival(i) ==
  {j \in applied : /\ \A k \in applied : k <= j
                   /\ edits[j].file = edits[i].file
                   /\ RangesOverlap(edits[j], edits[i])}

\* The applied edits of the same file that edit i overlaps.
Rivals(i) ==
  {j \in applied : edits[j].file = edits[i].file
                   /\ RangesOverlap(edits[j], edits[i])}

\* After a conflict the rest of its file is looked at, and no other file.
InConflictingFile(i) ==
  \A j \in rejected : edits[j].file = edits[i].file

ApplyEdit(i) ==
  /\ phase = "resolve"
  /\ IsNext(i)
  /\ InConflictingFile(i)
  /\ Rivals(i) = {}
  /\ applied' = applied \cup {i}
  /\ UNCHANGED <<open, imported, phase, cmd, edits, rejected, named, userVars>>

RejectEdit(i) ==
  /\ phase = "resolve"
  /\ IsNext(i)
  /\ InConflictingFile(i)
  /\ Rivals(i) # {}
  /\ \E j \in Rivals(i) :
       /\ \A k \in Rivals(i) : j <= k
       /\ named' = named \cup {edits[j].rule, edits[i].rule}
  /\ rejected' = rejected \cup {i}
  /\ UNCHANGED <<open, imported, phase, cmd, edits, applied, userVars>>

\* The suggestion is printed and the command exits 3.
Suggest ==
  /\ phase = "resolve"
  /\ rejected # {}
  /\ \A i \in Undecided : ~InConflictingFile(i)
  /\ phase' = "rejected"
  /\ UNCHANGED <<open, imported, cmd, resolverVars, userVars>>

\* Mutant: what does not conflict is written, whatever was rejected.
AcceptTheRest ==
  /\ phase = "resolve"
  /\ Undecided = {}
  /\ phase' = "accepted"
  /\ UNCHANGED <<open, imported, cmd, resolverVars, userVars>>

\* There is no conflict: the edits of all files are accepted.
Accept ==
  /\ phase = "resolve"
  /\ rejected = {}
  /\ Undecided = {}
  /\ phase' = "accepted"
  /\ UNCHANGED <<open, imported, cmd, resolverVars, userVars>>

----------------------------------------------------------------------------
(* runFixCommand.                                                          *)

\* The file and the rules of the suggestion; the user who is following one
\* already finishes it first.
TakeAdvice ==
  /\ phase = "rejected"
  /\ phase' = "idle"
  /\ IF advice = NoAdvice
       THEN /\ \E i \in rejected :
                 advice' = [rules |-> named, file |-> edits[i].file]
            /\ toRun' = named
            /\ openThen' = open
       ELSE UNCHANGED userVars
  /\ UNCHANGED <<open, imported, cmd, resolverVars>>

\* applyEditsInPlace takes edits with one offset in the order of the list.
\* An insertion listed before a replacement that begins where it inserts is
\* therefore in the way of the replacement, which cuts off its beginning.
Swallows(j, i) ==
  /\ i < j
  /\ edits[i].file = edits[j].file
  /\ edits[i].from = edits[j].from
  /\ edits[i].from = edits[i].to
  /\ edits[j].from < edits[j].to

Swallowed(S) == {i \in S : \E j \in S : Swallows(j, i)}

\* A rewritten finding is gone from the next scan, an inserted import is
\* there in the next parse; an edit that was swallowed is neither.
Write ==
  /\ phase = "accepted"
  /\ phase' = "idle"
  /\ LET made == applied \ Swallowed(applied) IN
     IF cmd.write
       THEN /\ open' = open \ {edits[i].finding :
                               i \in {k \in made : edits[k].rule # ImportInserter}}
            /\ imported' = imported \cup
                 {<<edits[i].file, Report[edits[i].finding].module>> :
                    i \in {k \in made : edits[k].rule = ImportInserter}}
       ELSE UNCHANGED <<open, imported>>
  /\ UNCHANGED <<cmd, resolverVars, userVars>>

Resolve ==
  \/ \E i \in DOMAIN edits : ApplyEdit(i) \/ RejectEdit(i)
  \/ Suggest
  \/ Accept

Next ==
  \/ \E m \in Modes, o \in SUBSET AllRules, w \in BOOLEAN : Invoke(m, o, w)
  \/ \E r \in toRun : RunAdvice(r)
  \/ DropAdvice
  \/ Orchestrate
  \/ Resolve
  \/ TakeAdvice
  \/ Write

Spec == Init /\ [][Next]_vars

----------------------------------------------------------------------------
(* applyEditsInPlace, and what it should compute.  Byte number q of the    *)
(* original is written q + 1, the replacement text of edit i Length + 1 + i. *)

Original == [q \in 1 .. Length |-> q]

Splice(text, i) ==
  SubSeq(text, 1, edits[i].from) \o <<Length + 1 + i>>
    \o SubSeq(text, edits[i].to + 1, Len(text))

\* Mutant: the edits are applied from the top of the file.
TopDown(i, j) ==
  \/ edits[i].from < edits[j].from
  \/ edits[i].from = edits[j].from /\ i < j

\* From the bottom of the file to its top, so that no edit moves another.
SpliceOrder(i, j) ==
  \/ edits[i].from > edits[j].from
  \/ edits[i].from = edits[j].from /\ i < j

InPlace(S) ==
  LET order == InOrder(S, SpliceOrder)
      after[k \in 0 .. Cardinality(S)] ==
        IF k = 0 THEN Original ELSE Splice(after[k - 1], order[k])
  IN after[Cardinality(S)]

\* Every byte stands for itself, for the edit that replaces it, or for
\* nothing.  An insertion stands between two bytes, what replaces bytes
\* where the first of them stood.
PlaceOfEdit(e) == IF e.from = e.to THEN 3 * e.from ELSE 3 * e.from + 1
Place(t) ==
  IF t <= Length THEN 3 * t - 1 ELSE PlaceOfEdit(edits[t - (Length + 1)])
StandsBefore(t, u) == Place(t) < Place(u)

Simultaneous(S) ==
  LET kept == {q \in 1 .. Length :
                 ~ \E i \in S : edits[i].from < q /\ q <= edits[i].to}
      new == {Length + 1 + i : i \in S}
  IN InOrder(kept \cup new, StandsBefore)

----------------------------------------------------------------------------
TypeOK ==
  /\ open \in SUBSET Findings
  /\ imported \in SUBSET (AllFiles \X {Report[n].module : n \in Findings})
  /\ phase \in {"idle", "orchestrate", "resolve", "rejected", "accepted"}
  /\ cmd \in [mode : Modes \cup {"safe"},
              only : SUBSET (AllRules \cup {ImportInserter}),
              files : SUBSET AllFiles, write : BOOLEAN]
  /\ applied \in SUBSET DOMAIN edits
  /\ rejected \in SUBSET DOMAIN edits
  /\ named \in SUBSET (AllRules \cup {ImportInserter})
  /\ toRun \in SUBSET advice.rules
  /\ openThen \in SUBSET Findings

\* The edits that are applied are pairwise compatible, whatever was rejected
\* on the way.
AppliedAreDisjoint ==
  \A i, j \in applied :
    i # j /\ edits[i].file = edits[j].file =>
      ~RangesOverlap(edits[i], edits[j])

\* An edit is rejected only because of one that was applied, and the rules of
\* both are in the suggestion; a suggestion is about one file.
RejectionsAreExplained ==
  /\ \A i \in rejected : edits[i].rule \in named /\ \E j \in Rivals(i) :
                            edits[j].rule \in named
  /\ \A i, j \in rejected : edits[i].file = edits[j].file

\* Splicing the accepted edits one after the other, each at the offset it had
\* in the original, gives the text in which all are made at once, unless
\* resolveConflicts let an insertion through that a replacement swallows; then
\* it never does.
SpliceIsSimultaneous ==
  phase = "accepted" => \A f \in AllFiles :
    LET S == {i \in applied : edits[i].file = f}
    IN InPlace(S) = Simultaneous(S) <=> Swallowed(S) = {}

\* A command that changes the tree rewrites every finding it selected, and no
\* text that it rewrites lacks an import: no conflict is resolved by leaving
\* one side out.  Only an insertion that was swallowed is left out.
AllOrNothing ==
  [][open' # open /\ Swallowed(applied) = {} =>
       Selected' = {} /\ \A n \in open \ open' : ~NeedsImport(n)']_vars

\* Run alone on file f, rule r rewrites something when S is what is open: it
\* has safe findings there, no two of them overlap, no two ask for an import,
\* and none is where an import goes that is asked for.  (Two insertions at
\* the top of a file collide, and what the suggestion then names is the
\* import inserter, which --only selects nothing for; nor does it repeat the
\* --mode all that found the conflict.)
Workable(r, f, S) ==
  LET mine == {n \in S : /\ Report[n].rule = r
                         /\ Report[n].file = f
                         /\ Report[n].safety = "safe"}
  IN /\ mine # {}
     /\ \A m, n \in mine :
          /\ NeedsImport(m) => ~RangesOverlap(ImportEdit(m), Report[n])
          /\ m # n => /\ ~RangesOverlap(Report[m], Report[n])
                      /\ ~(NeedsImport(m) /\ NeedsImport(n))

\* A user who has run every line of the suggestion has fixed something, if
\* one of the rules it names can be run alone on the file it names.
AdviceHelps ==
  phase = "idle" /\ toRun = {} =>
    \A r \in advice.rules :
      Workable(r, advice.file, openThen) => open # openThen
=============================================================================
