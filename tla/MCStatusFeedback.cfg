SPECIFICATION FeedbackFairSpec
CONSTANTS
  Interval = 3
  Liveness = 4
  Delay = 2
  Jitter = 1
INVARIANTS
  NoFalseAbort
  SilenceIsBounded
PROPERTY
  DeadLinkIsCut
CHECK_DEADLOCK FALSE
