SPECIFICATION FairSpec
CONSTANTS
  Consumers = {c1}
  OutBound = 2
INVARIANT
  NobodyBlockedOnceClosed
CHECK_DEADLOCK FALSE
