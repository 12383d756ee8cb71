SPECIFICATION FairSpec
CONSTANTS
  t1 = t1
  t2 = t2
  Tasks = {t1, t2}
  NoTask = NoTask
  Asked = {t1}
  TaskStates = {"working", "completed", "canceled"}
  MaxEvents = 2
INVARIANTS
  TypeOK
  NothingIsDropped
  SubscriptionFollowsItsTask
PROPERTIES
  ImplementsEventStream
  TerminalEndsCommand
  AnswersEnd
  AbortEndsCommand
CHECK_DEADLOCK FALSE
