SPECIFICATION Spec
CONSTANTS
  Names = {"key", "user", "flow"}
  Uris = {"a2ui", "other"}
  Sites = {"old", "new"}
  Cards <- MCCards
  Requested = {"a2ui"}
  Headers = {"Authorization", "X-Key", "A2A-Version"}
  Protected = {"A2A-Version"}
  Clients <- MCClients
  Refreshes = {"first", "second"}
  Operations = {"stream"}
INVARIANTS
  TypeOK
  ConnectionFitsItsCard
  RequestsFitTheirCard
  RefreshReturnsItsCard
CHECK_DEADLOCK FALSE
