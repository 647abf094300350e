\* Two runs at once under several command lines, and a user who saves once.
CONSTANTS
  Files = {f1, f2}
  Runs = {r1, r2}
  Options <- MCOptions
  Classes = {"none", "safe"}
  MaxSaves = 1
SYMMETRY Symmetry
SPECIFICATION WatchedSpec
INVARIANTS
  StagedCopiesSurvive
  DoneMeansCommitted
  StagingIsIgnored
  IgnoreLinesKept
PROPERTIES
  KeepsPromise
\* Runs end, and the user may stop saving.
CHECK_DEADLOCK FALSE
