\* Two turns, possibly at once, every admitted one run to its end or its failure.
SPECIFICATION FairSpec
CONSTANTS
  MaxHops = 6
  MaxClarify = 1
  MaxVerifyTurns = 1
  MaxTurns = 2
  MaxInFlight = 2
  FailuresAllowed = TRUE
  SessionsExpire = TRUE
PROPERTIES
  TurnIsAnswered
CHECK_DEADLOCK FALSE
