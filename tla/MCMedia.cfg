SPECIFICATION Spec
CONSTANTS
  Requests <- MCRequests
  SocketCap = 2
  Appends = 1
  MaxItems = 2
INVARIANTS
  TypeOK
  SuccessIsTheWholeAnswer
  DroppedInputsAreKnown
PROPERTY
  RequestsEnd
