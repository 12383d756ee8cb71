SPECIFICATION Spec
CONSTANTS
  c1 = c1
  c2 = c2
  Calls = {c1, c2}
  MaxVersion = 2
  MaxTime = 3
  MaxCalls = 3
  MaxAge = 0
  Timeout = 1
  Headers <- MCHeaders
  Tagged = {1}
  Signed = {2}
  Trusted <- MCTrusted
  NoEntry = NoEntry
  NoReply = NoReply
PROPERTY
  RenewalKeepsStoredCard
CHECK_DEADLOCK FALSE
