SPECIFICATION FairSpec
CONSTANTS
  Consumers = {c1}
  OutBound = 2
INVARIANTS
  NobodyBlockedForGood
  ClosedIsQuiet
PROPERTIES
  RaisesOnce
  CloseEndsUnlessSwallowed
  EndReachesConsumer
CHECK_DEADLOCK FALSE
