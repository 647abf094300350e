---------------------------- MODULE MCUiServer -----------------------------
\* Small instances of UiServer.
EXTENDS UiServer, TLC

\* The UI applies safe edits only, with writing on and nobody to ask.
UiOptions ==
  {[write |-> TRUE, json |-> FALSE, mode |-> "safe", tty |-> FALSE,
    acceptUnsafe |-> FALSE]}

Symmetry == Permutations(Files) \cup Permutations(Runs)
=============================================================================
