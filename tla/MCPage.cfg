SPECIFICATION Spec
CONSTANTS
  MaxRuns = 2
  MaxPayloads = 3
  MaxResets = 1
  ChatLimit = 3
  Payloads <- MCPayloads
  ShortFragmentMaxLength = 2
  StreamContextMaxLength = 3
  LongFinalMinLength = 3
  CompactTailLength = 3
  TailMinLength = 2
INVARIANTS
  TypeOK
  OneMessagePerRun
  ShortTextsAreKept
  StrictSurfacesWereNegotiated
  ShownSurfacesHaveRoot
CHECK_DEADLOCK FALSE
