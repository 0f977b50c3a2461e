SPECIFICATION Spec
CONSTANTS
  Messages = {m1}
  MaxRecords = 1
  MaxRequests = 4
  MaxInFlight = 1
INVARIANT RejectedIsNotIndexed
CHECK_DEADLOCK FALSE
