SPECIFICATION Spec
CONSTANTS
  MaxRuns = 2
  MaxResets = 1
  MaxFrames = 2
INVARIANT
  OnlyOperatorAborts
CHECK_DEADLOCK FALSE
