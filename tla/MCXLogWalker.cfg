SPECIFICATION MCSpec
CONSTANTS
  Page = 8
  Short = 2
  Long = 4
  Seg = 16
  Align = 2
  LenField = 2
  EntryInSwitch = FALSE
  Sizes = {3, 4, 13}
  MaxRecords = 3
  Chunks = {1, 3, 8}
  Rel = {r1, r2}
  NoRel = NoRel
  MaxBlocks = 2
  DataSizes = {0, 300}
  SubCounts = {0, 1, 70}
INVARIANTS
  NeverDesyncs
  ReturnsTheNews
  NothingHeldBack
  ReadAsWritten
CHECK_DEADLOCK FALSE
