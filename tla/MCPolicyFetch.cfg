SPECIFICATION FairSpec
CONSTANTS
  Origins = {"home", "away"}
  Calls <- MCCalls
  MaxRedirects = 2
  MaxTokens = 11
  Streams <- MCStreams
INVARIANTS
  TypeOK
  RequestsStayAdmitted
  BodyIsSentOnce
  EventsAreValidated
  RefusalIsEarned
  TimerSparesStreams
PROPERTIES
  CallsSettle
CHECK_DEADLOCK FALSE
