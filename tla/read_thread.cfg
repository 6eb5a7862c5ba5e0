SPECIFICATION Spec
CONSTANTS
  Words <- SomeWords
  BufferSize = 4
  MaxRequests = 3
CHECK_DEADLOCK FALSE
INVARIANTS
  TypeOK
  RequestsArriveWhole
  RequestsAreNotMixed
PROPERTIES
  EveryRequestArrives
  ClosingIsReported
