SPECIFICATION FairSpec
CONSTANTS
  Rel = {r1, r2}
  Name = {a, b, toast}
  System = {toast}
  Tables = {a, b}
  MaxRewrites = 1
  QueueBound = 2
INVARIANTS
  NamedByNow
PROPERTIES
  NamedInTheEnd
CHECK_DEADLOCK FALSE
