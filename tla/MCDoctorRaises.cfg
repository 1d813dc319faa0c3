SPECIFICATION DoctorSpec
CONSTANTS
  Plugin = {wal2json, test_decoding}
  Fallback = test_decoding
INVARIANTS
  NeverRaises
CHECK_DEADLOCK FALSE
