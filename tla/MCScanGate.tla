---------------------------- MODULE MCScanGate -----------------------------
\* Small instances of ScanGate: the command lines and the first lines tried.
EXTENDS ScanGate, TLC

o(write, read, diff, strict, failOn) ==
  [write |-> write, read |-> read, diff |-> diff, strict |-> strict,
   failOn |-> failOn]

\* Capture, gate a pull request, be strict.
GateOptions ==
  {o(TRUE, TRUE, FALSE, FALSE, "high"), o(FALSE, TRUE, TRUE, FALSE, "high"),
   o(FALSE, TRUE, FALSE, TRUE, "low")}

\* Every handler starts with a line of its own.
OwnLine == [h \in Handlers |-> h]

\* A pattern for each file; two of them may be about the same one.
OneFile == {{f} : f \in Files}

\* Files, handlers and scans are not told apart, nor are first lines by OwnLine.
Symmetry ==
  Permutations(Files) \cup Permutations(Handlers) \cup Permutations(Scans)
=============================================================================
