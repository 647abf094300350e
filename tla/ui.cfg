\* Two applies and a scan; the user does not save while an apply is handled.
CONSTANTS
  Files = {f1, f2}
  Runs = {r1, r2}
  Scans = {s1}
  Options <- UiOptions
  Classes = {"none", "safe"}
  Patient = TRUE
  MaxSaves = 1
SPECIFICATION FairUiSpec
INVARIANTS
  InstalledTextIsSound
PROPERTIES
  RequestsAreAnswered
  ScansSeeASettledTree
\* All requests may be answered, and the user may stop saving.
CHECK_DEADLOCK FALSE
