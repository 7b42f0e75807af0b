SPECIFICATION AllSpec
CONSTANTS
  Clients = {c1}
  Subs = {k1, k2}
  NoSub = NoSub
  HistorySize = 2
  BufferSize = 1
  Unreadable = {2}
  MaxPublished = 4
  MaxDrops = 2
  Calls = {call1, call2}
  Reading = Reading
  Answering = FALSE
  MayListen = TRUE
  MayLose = TRUE
  NotifyBuffer = 1
  MaxReceives = 3
INVARIANTS RegisteredIffOpen PendingIsRun NothingLeftBehind
PROPERTIES EventStreamSpec CatchesUp DisconnectedEnds CallsReturn CancelEnds
CHECK_DEADLOCK FALSE
