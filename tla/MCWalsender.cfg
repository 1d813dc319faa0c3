SPECIFICATION FairSpec
CONSTANTS
  High = 1
  Low = 0
  MaxCommands = 2
  MaxRows = 2
  InboxBound = 2
INVARIANTS
  NoSocketLeaks
  AnswersMatch
  InSync
  OneDrainAtATime
PROPERTIES
  EveryCallEnds
CHECK_DEADLOCK FALSE
