\* Three slots, two of them required, a cap of three turns and one failure.
SPECIFICATION PatientSpec
CONSTANTS
  Slots = {module, steps, version}
  Required = {module, steps}
  module = module
  steps = steps
  version = version
  MaxVerifyTurns = 3
  MaxFailures = 1
INVARIANTS
  TypeOK
  GuardAsksOnce
  AnswersAreFiled
  GivenUpFactsWereAsked
PROPERTIES
  EveryCollectionEnds
  KeepsItsPromise
CHECK_DEADLOCK FALSE
