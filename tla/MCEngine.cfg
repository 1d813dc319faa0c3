SPECIFICATION FairSpec
CONSTANTS
  Payload = {a, b}
  MaxSize = 2
  Debounce = 1
  MaxBatchWait = 2
  Failsafe = TRUE
  OutBound = 3
INVARIANTS
  TypeOK
  NoSilentLoss
  OverflowIsServed
PROPERTIES
  ContractSpec
  WindowCloses
  EveryChangeArrives
