SPECIFICATION FairSpec
CONSTANTS
  Consumers = {c1}
  OutBound = 2
PROPERTY
  CloseEnds
CHECK_DEADLOCK FALSE
