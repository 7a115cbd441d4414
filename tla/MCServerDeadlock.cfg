CONSTANTS
  NumConfig = 4
  MaxInvokes = 1
  Nobody = Nobody
SPECIFICATION ServerFairSpec
PROPERTY EveryLineAnswered
CHECK_DEADLOCK FALSE
