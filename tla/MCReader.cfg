SPECIFICATION FairSpec
CONSTANTS
  MaxBytes = 4
  MaxReads = 2
  Sizes = {2}
INVARIANTS TypeOK EveryByteOnce LinesAreSplit
PROPERTY ReadReturns
CHECK_DEADLOCK FALSE
