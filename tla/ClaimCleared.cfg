SPECIFICATION Spec
CONSTANTS
  Bodies <- MCClaims
  Answers <- MCAnswers
  Dispatches = {d1}
  MaxEvents = 2
  MaxFaults = 0
INVARIANTS DraftsOnlyCleared
CHECK_DEADLOCK FALSE
