SPECIFICATION FairExtendSpec
CONSTANT MaxObjects = 5
INVARIANTS ExtendTypeOK SignalOfType MethodsKept
PROPERTY ExtendReturns
CHECK_DEADLOCK FALSE
