\* Two turns at once over one conversation, any of which may stop half-way.
SPECIFICATION HistorySpec
CONSTANTS
  MaxHops = 6
  MaxClarify = 2
  MaxVerifyTurns = 2
  MaxTurns = 3
  MaxInFlight = 2
  FailuresAllowed = TRUE
  SessionsExpire = FALSE
INVARIANTS
  TypeOK
  ContextMatchesPending
  HandoffLeavesNoFlowOpen
  GateNamesItsHandoff
  RowNamesItsIssue
  EffectsInOrder
  HopLimitNeverFires
PROPERTY
  TurnsActWhole
CHECK_DEADLOCK FALSE
