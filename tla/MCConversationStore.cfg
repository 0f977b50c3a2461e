SPECIFICATION Spec
CONSTANTS
  Conversations = {c1, c2}
  MaxTurns = 3
  MaxInFlight = 2
  PageSize = 1
  StaleReads = FALSE
INVARIANTS
  TypeOK
  SoleTurnsLoseNothing
  QuestionBeforeReply
  SummaryIsCurrent
  UnmovedIsListedOnce
  ListedTwiceOnlyAfterOverlap
SYMMETRY Symmetry
CHECK_DEADLOCK FALSE
