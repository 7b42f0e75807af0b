SPECIFICATION Spec
CONSTANTS
  Posts = {p1, p2}
  Streams = {e1}
  Outgoing = {}
  Servers = {1, 2}
  MaxUploads = 2
  BufferSize = 1
CHECK_DEADLOCK FALSE
INVARIANTS OneListener NothingLeaks
