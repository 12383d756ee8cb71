SPECIFICATION Spec
CONSTANTS
  p1 = p1
  p2 = p2
  g1 = g1
  g2 = g2
  Calls = {p1, p2}
  Grants = {g1, g2}
  Lives = {1, 3}
  Skew = 1
  Default = 3
  MaxDelay = 2
  MaxTime = 5
  MaxCalls = 3
  NoToken = NoToken
SYMMETRY Symmetry
INVARIANTS
  TypeOK
  ProcessTokensFitTheGrant
  UnstatedTokensAreNotShared
PROPERTIES
  SharedTokensAreValid
CHECK_DEADLOCK FALSE
