SPECIFICATION Spec
CONSTANTS
  PageWords = 8
  WordSpace = 16
  MaxPages = 2
  Requests <- LargeRequests
  ClientWords <- AroundHeader
 
PROPERTIES FillingCallEnds
CHECK_DEADLOCK FALSE
