SPECIFICATION DoctorFairSpec
CONSTANTS
  Plugin = {wal2json, test_decoding}
  Fallback = test_decoding
INVARIANTS
  RecommendsWhatWorks
  BlamesThePluginRightly
PROPERTIES
  LeavesNothingBehind
CHECK_DEADLOCK FALSE
