SPECIFICATION Spec
CONSTANTS
  Listeners = {l1}
  Senders = {s}
  Own = 0
  MaxMessages = 2
  MaxResent = 1
  MaxDrops = 2
INVARIANTS HandedInOrder MuteIsKnown
PROPERTIES CallsReturn
CHECK_DEADLOCK FALSE
