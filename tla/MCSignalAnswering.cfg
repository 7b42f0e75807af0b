SPECIFICATION Spec
CONSTANTS
  Calls = {c1, c2}
  Reading = Reading
  Answering = TRUE
  MayListen = TRUE
  MayLose = FALSE
  NotifyBuffer = 1
  MaxReceives = 4
PROPERTY NeverBlockedLong
CHECK_DEADLOCK FALSE
