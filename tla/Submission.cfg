SPECIFICATION Spec
CONSTANTS
  p1 = p1
  p2 = p2
  Thread = {p1, p2}
  Requests <- MCRequests
  MaxRequests = 2
  MaxRows = 4
  MaxFaults = 1
  Allowed <- MCAllowed
INVARIANTS
  TypeOK
  AnsweredWithItsOwn
  AllSent
PROPERTIES
  AcceptedEnds
CHECK_DEADLOCK FALSE
