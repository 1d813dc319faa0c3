SPECIFICATION FairSpec
CONSTANTS
  Consumers = {c1, c2}
  OutBound = 2
INVARIANT
  NobodyBlockedForGood
CHECK_DEADLOCK FALSE
