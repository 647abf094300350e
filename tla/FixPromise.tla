----------------------------- MODULE FixPromise -----------------------------
(***************************************************************************)
(* What `hookwarden fix --write` promises about the user's files, with no  *)
(* staging directory, no .gitignore and no planning in sight.              *)
(*                                                                         *)
(* A run first works without touching any file ("open").  It then commits  *)
(* to a set of files ("applying") and replaces each of them at most once,  *)
(* by a complete text.  It ends "applied" only when every file of the set  *)
(* has been replaced; it may be "stopped" at any moment before that, and   *)
(* from then on it changes nothing.  FixCommit implements this module.     *)
(***************************************************************************)
CONSTANTS Files, Runs, Texts

VARIABLES
  text,     \* the text of each file, as any other program would read it
  phase,    \* how far each run is
  todo      \* the files a run in phase "applying" still has to replace

promiseVars == <<text, phase, todo>>

Init ==
  /\ text \in [Files -> Texts]
  /\ phase = [r \in Runs |-> "open"]
  /\ todo = [r \in Runs |-> {}]

\* One file gets another text, the others keep theirs.
Overwrite(f) ==
  /\ text' \in [Files -> Texts]
  /\ \A g \in Files \ {f} : text'[g] = text[g]

\* The user, or another program, saves a complete text of its own.
Save(f) ==
  /\ Overwrite(f)
  /\ UNCHANGED <<phase, todo>>

\* The run has everything it needs and starts to replace files.
Apply(r) ==
  /\ phase[r] = "open"
  /\ phase' = [phase EXCEPT ![r] = "applying"]
  /\ \E S \in SUBSET Files : todo' = [todo EXCEPT ![r] = S]
  /\ text' = text

\* One file is replaced, as a whole and for the only time in this run.
Replace(r, f) ==
  /\ phase[r] = "applying"
  /\ f \in todo[r]
  /\ Overwrite(f)
  /\ todo' = [todo EXCEPT ![r] = @ \ {f}]
  /\ phase' = phase

\* Success is reported only when nothing is left to replace.
Finish(r) ==
  /\ phase[r] = "applying"
  /\ todo[r] = {}
  /\ phase' = [phase EXCEPT ![r] = "applied"]
  /\ UNCHANGED <<text, todo>>

\* A run with nothing to write, one that fails and one that is killed stop.
Stop(r) ==
  /\ phase[r] \in {"open", "applying"}
  /\ phase' = [phase EXCEPT ![r] = "stopped"]
  /\ UNCHANGED <<text, todo>>

Next ==
  \/ \E f \in Files : Save(f)
  \/ \E r \in Runs : Apply(r) \/ Finish(r) \/ Stop(r)
  \/ \E r \in Runs, f \in Files : Replace(r, f)

Spec == Init /\ [][Next]_promiseVars
=============================================================================
