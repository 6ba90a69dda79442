SPECIFICATION Spec
CONSTANTS
  lua = lua
  p1 = p1
  p2 = p2
  Pollers <- TwoPollers
  MaxStarts = 1
  MaxTicks = 2
INVARIANT OneCommand
CHECK_DEADLOCK FALSE
