SPECIFICATION FairSpec
CONSTANTS
  lua = lua
  p1 = p1
  p2 = p2
  Pollers <- TwoPollers
  MaxStarts = 2
  MaxTicks = 2
INVARIANTS TypeOK OverlapNeedsBacklog StopsOnce WatchGoesOn ToldIsCurrent
PROPERTY StopReturns
CHECK_DEADLOCK FALSE
