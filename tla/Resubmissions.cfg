SPECIFICATION Spec
CONSTANTS
  p1 = p1
  p2 = p2
  Thread = {p1, p2}
  Requests <- OneRequest
  MaxRequests = 3
  MaxRows = 2
  MaxFaults = 0
  Allowed <- MCAllowed
PROPERTIES
  OnlyFailedRestarted
CHECK_DEADLOCK FALSE
