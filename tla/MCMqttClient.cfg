SPECIFICATION FairSpec
CONSTANTS
  a = a
  b = b
  Topics <- TwoTopics
  Depth = 1
  MaxMessages = 3
  MaxDrops = 1
INVARIANTS TypeOK AtMostOneLate SubscribedIsServed
PROPERTY CallReturns
CHECK_DEADLOCK FALSE
