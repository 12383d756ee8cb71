SPECIFICATION FairSpec
CONSTANTS
  MaxRuns = 2
  MaxResets = 2
  MaxFrames = 2
INVARIANTS
  TypeOK
  OneLiveRun
  ContextStaysInSession
  CompleteIsEarned
PROPERTIES
  OnlyCurrentRunSpeaks
  EveryRunSettles
CHECK_DEADLOCK FALSE
