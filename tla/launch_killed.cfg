\* Launches on one machine; one may be killed.
CONSTANTS
  p1 = p1
  p2 = p2
  p3 = p3
  Launches = {p1, p2, p3}
  Targets <- OneTarget
  Target <- AllAlike
  MaxRetries = 2
  MaxSpoils = 0
SPECIFICATION Spec
PROPERTIES
  HitsRun
CHECK_DEADLOCK FALSE
