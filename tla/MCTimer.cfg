SPECIFICATION FairSpec
CONSTANTS
  lua = lua
  poller = poller
  Callers <- LuaAndPoller
  SingleShot = TRUE
  MaxStarts = 2
  MaxTicks = 1
INVARIANTS TypeOK SingleRunner SingleShotStops
PROPERTIES StopIsSynchronous StopEndsOrWaits
CHECK_DEADLOCK FALSE
