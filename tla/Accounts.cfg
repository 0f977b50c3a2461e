\* Two customers, three requests, two at a time, over two days.
SPECIFICATION Spec
CONSTANTS
  Customers = {c1, c2}
  Root = c1
  MaxLimit = 2
  MaxDays = 2
  Retention = 1
  MaxRequests = 3
  MaxInFlight = 2
INVARIANTS
  SlotsAreTakenOnce
  PatchesKeepTheRest
CHECK_DEADLOCK FALSE
