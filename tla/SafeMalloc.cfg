SPECIFICATION Spec
CONSTANTS
  PageWords = 5
  WordSpace = 64
  MaxPages = 3
  Requests <- LargeRequests
  ClientWords <- FakeHeader
INVARIANTS HeapOK
PROPERTIES HeapSpec CallEnds
CHECK_DEADLOCK FALSE
