\* Two scans at once, one of them may be capturing, while the code changes.
CONSTANTS
  Files = {a, b}
  Handlers = {h1, h2}
  Line <- OwnLine
  Scans = {s1, s2}
  Options <- GateOptions
  Forms = {"line", "block"}
  Globs <- OneFile
  MinCoverage = 95
  MaxEdits = 2
SYMMETRY Symmetry
SPECIFICATION GateSpec
INVARIANTS
  NothingNewPasses
  BaselineSilences
  TornIsLoud
  PruningIsSafe
\* The scans end, and the developer may stop editing.
CHECK_DEADLOCK FALSE
