SPECIFICATION Spec
CONSTANTS
  Requests <- MCRequests
  SocketCap = 2
  Appends = 1
  MaxItems = 2
INVARIANT
  ToldBeforeTheRun
