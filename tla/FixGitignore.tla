---------------------------- MODULE FixGitignore ----------------------------
(***************************************************************************)
(* FixCommit with its .gitignore watched.  ensureGitignoreEntry reads the  *)
(* file, and writes back what it read with the entry of the staging        *)
(* directory appended; whatever is written in between is lost.  The        *)
(* history variable says whether that ever happened, so that the           *)
(* properties can say what holds as long as it has not.                    *)
(***************************************************************************)
EXTENDS FixCommit

VARIABLE overtaken  \* whether somebody else wrote .gitignore between a run's
                    \* read of it and the write of what it had read

Rewriting == {"ignoreAbsent", "ignoreWriting"}

WatchedInit == Init /\ overtaken = FALSE
WatchedNext ==
  /\ Next
  /\ overtaken' = (overtaken \/ \E r \in Runs :
       pc[r] \in Rewriting /\ pc'[r] = pc[r] /\ gitignore' # gitignore)
watchedVars == <<vars, overtaken>>
WatchedSpec == WatchedInit /\ [][WatchedNext]_watchedVars

\* A run inside fs.writeFile, or one that stopped there.
Inside(r) == "ignoreWriting" \in {pc[r], stoppedAt[r]}

\* A scan that starts while a staging directory holds copies does not see them:
\* the walker honours the entry ensureGitignoreEntry adds before anything is
\* staged.  Only one that was overtaken can take the entry of another away.
StagingIsIgnored ==
  (\E r \in Runs, f \in Files : staged[r][f].present) /\ ~overtaken =>
    gitignore.entry

\* The user's own lines of .gitignore are missing only while a run is inside
\* fs.writeFile, after one stopped there, or after one was overtaken.
IgnoreLinesKept ==
  gitignore.lines # userLines => overtaken \/ \E r \in Runs : Inside(r)

----------------------------------------------------------------------------
(* The inductive invariant: until a run is overtaken, one that is about to *)
(* write knows what the file holds, and one that has got past the file     *)
(* finds its entry there.                                                  *)

Past(r) ==
  \/ pc[r] \in {"mkdir", "stage", "writing", "commit"}
  \/ \E f \in Files : staged[r][f].present

LinesInv == (\A r \in Runs : ~Inside(r)) => gitignore.lines = userLines

ReadInv(r) ==
  pc[r] = "ignoreAbsent" =>
    ignoreRead[r] = gitignore.lines /\ ~gitignore.entry

WritingInv(r) ==
  pc[r] = "ignoreWriting" =>
    /\ ~gitignore.entry
    /\ (\A q \in Runs : q # r => ~Inside(q)) => ignoreRead[r] = userLines

EntryInv(r) == Past(r) => gitignore.entry

GitInv ==
  ~overtaken =>
    LinesInv /\ \A r \in Runs : ReadInv(r) /\ WritingInv(r) /\ EntryInv(r)
=============================================================================
