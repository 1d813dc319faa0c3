SPECIFICATION FairSpec
CONSTANTS
  t1 = t1
  t2 = t2
  s1 = s1
  none = none
  Xid <- MCXid
  Parent <- MCParent
  NoParent = none
  Rel = {r1, r2}
  MaxOpen = 3
  TwoPhase = {t1}
  WalBound = 2
INVARIANT NoCommitMissed CHECK_DEADLOCK FALSE
