\* Two pushes, people writing and deleting comments, runs at once or in turn;
\* handlers that verify on the spot, in a repository scanned from its root.
CONSTANTS
  Runs = {r1, r2}
  Handlers <- InPackage
  Helper <- AuthFile
  WorkDir <- Root
  Styles = {"absent", "open", "reworded", "muted", "inline"}
  PerPage = 2
  MaxComments = 2
SYMMETRY Symmetry
SPECIFICATION Spec
INVARIANTS
  NewIsExact
  GreenIsSafe
  OneSticky
  StickyIsLatest
\* Every push has been handled and nobody has anything left to write.
CHECK_DEADLOCK FALSE
