----------------------------- MODULE MCLauncher -----------------------------
\* Small instances of Launcher: the machines, and who is on which.
EXTENDS Launcher

CONSTANTS p1, p2, p3

OneTarget == {"linux-x64"}
AllAlike == [p \in Launches |-> "linux-x64"]

\* Two launches on one kind of machine and one on another.
TwoTargets == {"linux-x64", "linux-arm64"}
TwoAndOne == [p \in Launches |-> IF p = p3 THEN "linux-arm64" ELSE "linux-x64"]
=============================================================================
