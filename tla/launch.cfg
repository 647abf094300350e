\* Launches on two kinds of machine that share a home directory.
CONSTANTS
  p1 = p1
  p2 = p2
  p3 = p3
  Launches = {p1, p2, p3}
  Targets <- TwoTargets
  Target <- TwoAndOne
  MaxRetries = 2
  MaxSpoils = 1
SPECIFICATION Spec
INVARIANTS
  RunsWhatItChecked
PROPERTIES
  EveryLaunchEnds
\* Every launch has ended.
CHECK_DEADLOCK FALSE
