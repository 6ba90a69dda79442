SPECIFICATION FairSpec
CONSTANTS
  MaxLines = 3
  PipeSize = 2
INVARIANTS TypeOK LinesWithoutGap TakenIsDelivered
PROPERTY NobodyWaits
CHECK_DEADLOCK FALSE
