\* Two files whose functions may share names and call in circles, and a cap
\* that is reached or not.
CONSTANTS
  a = a
  b = b
  c = c
  Names <- ThreeNames
  Files = {f1, f2}
  HandlerFile = f1
  MaxDepth = 3
  Caps = {2, 5}
  HandlerCalls <- OneOrTwo
  Calls <- JustOne
  Imports = {"named", "default"}
SPECIFICATION Spec
INVARIANTS
  HopsAreLeast
  MissesOnlyAtTheCap
  CallChain
\* The search ends.
CHECK_DEADLOCK FALSE
