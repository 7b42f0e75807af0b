SPECIFICATION Spec
CONSTANTS
  Posts = {p1, p2}
  Streams = {e1}
  Outgoing = {o1}
  Servers = {1}
  MaxUploads = 1
  BufferSize = 1
CHECK_DEADLOCK FALSE
INVARIANT KnownIsDownloadable
PROPERTIES AcknowledgedIsRead CancelStops
