CONSTANTS
  MsgChans = {m1, m2}
  ReactChans = {s1}
  Deliveries = {d1, d2}
  Reactions = {r1}
  BufferSize = 1
  Loopback = TRUE
  MaxChans = 2
  MaxCalls = 2
SPECIFICATION Spec
INVARIANTS NoDoubleClose FanOutExactlyOnce DeliveriesInOrder
PROPERTIES ContextEndsListen CloseEnds
CHECK_DEADLOCK FALSE
