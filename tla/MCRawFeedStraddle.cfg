SPECIFICATION RawFairSpec
CONSTANTS
  Payload = {a, b}
  Xid = {x1}
  Rewritable = {}
  MaxRewrites = 0
  WalBound = 2
  OutBound = 1
  Threshold = 1
  AttemptBound = 2
INVARIANTS
  NoGapAtAll

CHECK_DEADLOCK FALSE
