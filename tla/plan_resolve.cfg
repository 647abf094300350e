\* Every subset of eight findings in two files, every --only, both modes.
CONSTANTS
  Report <- EightFindings
  Length = 7
  Top <- TopOfFile
  Modes = {"safe", "all"}
SPECIFICATION Spec
INVARIANTS
  AppliedAreDisjoint
  SpliceIsSimultaneous
  AdviceHelps
PROPERTIES
  AllOrNothing
