SPECIFICATION Spec
CONSTANTS
  Inbound = {n1, n2}
  Reactions = {r1, r2}
  Handlers = {h1, h2}
  Idle = Idle
  Sessions = {1, 2}
  EventBuffer = 1
  ReactionBuffer = 1
  SeenLimit = 1
  MaxPosts = 3
CHECK_DEADLOCK FALSE
INVARIANTS HandedOnce OrderKept
PROPERTIES AcknowledgedIsHandled
