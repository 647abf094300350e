SPECIFICATION Spec
CONSTANTS
  Sources <- MCSources
  MaxScans = 2
INVARIANTS
  NeverBlessed
  RemovalIsNoticed
  SafeIsNotAccused
  VerifyingKeepsTheName
  EarlyEffectsAreSeen
  FixHeals
  WideWindowsAreSeen
CHECK_DEADLOCK FALSE
