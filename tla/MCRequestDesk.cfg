\* Two customers, three requests, two at a time; one row to an index page and one key
\* to a batch.
SPECIFICATION Spec
CONSTANTS
  Customers = {c1, c2}
  EditStatuses = {"processing", "completed"}
  MaxRequests = 3
  MaxRows = 2
  MaxInFlight = 2
  MaxFiles = 1
  DayLength = 2
  PageSize = 1
  BatchMax = 1
SYMMETRY Symmetry
INVARIANTS
  TypeOK
  RowAgreesWithHistory
  SavedStatusesAreKept
  OneTicketPerRequest
  RowsAreBacked
  ExportIsExact
PROPERTIES
  EditsStayInTenant
CHECK_DEADLOCK FALSE
