---------------------------- MODULE MCFixCommit -----------------------------
\* A small instance of FixCommit and FixGitignore: two runs and a user who saves
\* when he likes.
EXTENDS FixGitignore, TLC

\* A run that writes, one that only shows its edits, and --mode all refused and
\* accepted in advance.
MCOptions ==
  LET o(w, j, m, t, a) == [write |-> w, json |-> j, mode |-> m, tty |-> t,
                           acceptUnsafe |-> a]
  IN {o(TRUE, FALSE, "safe", FALSE, FALSE),
      o(TRUE, TRUE,  "all",  TRUE,  FALSE),
      o(TRUE, FALSE, "all",  FALSE, FALSE),
      o(TRUE, FALSE, "all",  FALSE, TRUE)}

\* Neither the files nor the runs are told apart.
Symmetry == Permutations(Files) \cup Permutations(Runs)
=============================================================================
