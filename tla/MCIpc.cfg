SPECIFICATION Spec
CONSTANTS
  Clients = {bar, msg}
  Messengers = {msg}
  Requests <- MCRequests
  BufferLimit = 5
  SocketSize = 1
  MaxUnread = 2
  bar = bar
  msg = msg
CHECK_DEADLOCK FALSE
INVARIANT StreamSound
PROPERTIES PromiseKept EveryCommandEnds
