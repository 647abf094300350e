\* Two inits and the applications at any moment, each killed at any step.
CONSTANTS
  Inits = {p1, p2}
  Clients <- TwoClients
  Yaml = {"continue"}
  Servers = {s1, s2}
  MaxSaves = 2
SYMMETRY Symmetry
SPECIFICATION Spec
INVARIANTS
  BackupIsTheOriginal
  EndedMeansRegistered
PROPERTIES
  NeverCorruptsAlone
  MergeIsAtomic
\* Every init has ended or died.
CHECK_DEADLOCK FALSE
