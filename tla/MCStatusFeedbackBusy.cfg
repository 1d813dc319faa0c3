SPECIFICATION FeedbackFairSpec
CONSTANTS
  Interval = 3
  Liveness = 4
  Delay = 2
  Jitter = 1
INVARIANT
  AbortMeansDead
CHECK_DEADLOCK FALSE
