SPECIFICATION WalFairSpec
CONSTANTS
  Payload = {a, b}
  MaxSize = 1
  Debounce = 1
  MaxBatchWait = 1
  Failsafe = TRUE
  OutBound = 2
  Threshold = 2
  WireBound = 2
  AttemptBound = 3
INVARIANTS
  NoSilentGap
  HealthIsAccurate
PROPERTIES
  WalContractSpec
  EveryCommitArrives
  StreamsAgain
