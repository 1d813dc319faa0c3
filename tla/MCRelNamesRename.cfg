SPECIFICATION Spec
CONSTANTS
  Rel = {r1, r2}
  Name = {a, b, toast}
  System = {toast}
  Tables = {a, b}
  MaxRewrites = 1
  QueueBound = 2
INVARIANTS
  NamedAsOfNow
CHECK_DEADLOCK FALSE
