SPECIFICATION RawFairSpec
CONSTANTS
  Payload = {a, b}
  Xid = {x1}
  Rewritable = {a}
  MaxRewrites = 1
  WalBound = 2
  OutBound = 1
  Threshold = 1
  AttemptBound = 2
INVARIANTS
  NoSilentGap

PROPERTIES
  EveryCommitArrives

CHECK_DEADLOCK FALSE
