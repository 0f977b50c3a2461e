\* One turn after the other, no failure, the limits of routing.py.
SPECIFICATION HistorySpec
CONSTANTS
  MaxHops = 6
  MaxClarify = 2
  MaxVerifyTurns = 3
  MaxTurns = 5
  MaxInFlight = 1
  FailuresAllowed = FALSE
  SessionsExpire = TRUE
INVARIANTS
  OneTicketPerFlow
  ContactAnswersLatestHandoff
CHECK_DEADLOCK FALSE
