\* The Action with the input working-directory: one push, one handler in the
\* package.
CONSTANTS
  Runs = {r1}
  Handlers <- InPackage
  Helper <- AuthFile
  WorkDir <- Package
  Styles = {"absent", "open", "inline"}
  PerPage = 2
  MaxComments = 1
SPECIFICATION Spec
INVARIANT GreenIsSafe
CHECK_DEADLOCK FALSE
