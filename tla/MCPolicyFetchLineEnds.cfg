SPECIFICATION Spec
CONSTANTS
  Origins = {"home", "away"}
  Calls <- MCCalls
  MaxRedirects = 2
  MaxTokens = 11
  Streams <- MCStreams
INVARIANTS
  ValidStreamsPass
CHECK_DEADLOCK FALSE
