SPECIFICATION ExtendSpec
CONSTANT MaxObjects = 2
INVARIANT OwnSignal
CHECK_DEADLOCK FALSE
