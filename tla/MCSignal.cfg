SPECIFICATION FairSpec
CONSTANTS
  f1 = f1
  f2 = f2
  g1 = g1
  Lua = Lua
  Nil = Nil
  Funcs <- TwoFuncs
  Goroutines <- OneGoroutine
  MaxEmits = 3
  MaxConnects = 3
  MaxDisconnects = 2
INVARIANTS TypeOK DeliversInOrder
PROPERTY Delivered
CHECK_DEADLOCK FALSE
