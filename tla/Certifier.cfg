SPECIFICATION LiveSpec
CONSTANTS
  Queries = {q1, q2}
  AttemptLimit = 2
  MinDelay = 2
  MaxDelay = 6
  Steps = 3
  SuccessDelay = 9
  MaxKey = 2
INVARIANTS
  ChosenHasKey
  TimerRunsUntilGivenUp
  FirstCertificateIsSafe
PROPERTIES
  GivenUpForGood
  AskingEnds
CHECK_DEADLOCK FALSE
