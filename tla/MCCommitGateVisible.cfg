SPECIFICATION FairSpec
CONSTANTS
  t1 = t1
  t2 = t2
  s1 = s1
  none = none
  Xid <- MCXid
  Parent <- MCParent
  NoParent = none
  Rel = {r1, r2}
  MaxOpen = 3
  TwoPhase = {}
  WalBound = 2
INVARIANT NoRefetchRaces CHECK_DEADLOCK FALSE
