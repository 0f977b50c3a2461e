SPECIFICATION Spec
CONSTANTS
  Messages = {m1}
  MaxRecords = 2
  MaxRequests = 4
  MaxInFlight = 2
INVARIANTS
  TypeOK
  StoreAndIndexAgree
  DislikesAreQueuedOnce
PROPERTY LoneRequestsKeepTheRest
CHECK_DEADLOCK FALSE
