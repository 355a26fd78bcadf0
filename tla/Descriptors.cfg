SPECIFICATION Spec
CONSTANTS
  MaxPushed = 6
  Limit = 5
INVARIANTS LoopKeepsSurvivors DamageIsBounded IdleProxyAccepts
CHECK_DEADLOCK FALSE
